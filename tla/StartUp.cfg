SPECIFICATION Spec
CONSTANTS
    r1 = r1
    r2 = r2
    r3 = r3
    Replicas = {r1, r2, r3}
    MaxAttempts = 2
    MaxFaults = 2
    NoReplica = NoReplica
INVARIANTS TypeOK ServesCompleteSchema
PROPERTY EveryReplicaServes
CHECK_DEADLOCK FALSE
