--------------------------- MODULE StartUpProofs ----------------------------
(***************************************************************************)
(* Proofs about StartUp, for any number of replicas, attempts and faults:  *)
(* a replica that serves finds the whole schema.  The argument: tables are *)
(* only ever added, so what create_all saw is still there when it commits  *)
(* the rest; and in a container no replica reaches init_database but       *)
(* through a migration that ended while it held the lock, after which no   *)
(* step leaves the newest revision.                                        *)
(***************************************************************************)
EXTENDS StartUp, TLAPS

\* What the migrations leave is a schema, and at the head it is complete.
LEMMA AtIsSchema ==
  /\ \A n \in 0..Head : At(n) \in Schemas
  /\ At(Head).tables = Tables /\ At(Head).revision = Head /\ ~At(Head).readOnly
  /\ ~At(0).readOnly
  <1>1. \A n \in 0..Head : At(n) \in Schemas
    <2> SUFFICES ASSUME NEW n \in 0..Head PROVE At(n) \in Schemas
      OBVIOUS
    <2>1. /\ (IF n >= 1 THEN Base ELSE {}) \in SUBSET Tables
          /\ (IF n >= 3 THEN {"document_sizes"} ELSE {}) \in SUBSET Tables
          /\ (IF n >= 4 THEN {"annotated_uploads"} ELSE {}) \in SUBSET Tables
      BY DEF Tables
    <2>2. (n = 1) \in BOOLEAN
      OBVIOUS
    <2> QED
      BY <2>1, <2>2 DEF At, Schemas
  <1>2. At(Head).tables = Tables
    BY DEF At, Head, Tables
  <1>3. At(Head).revision = Head
    BY DEF At
  <1>4. \A n \in 0..Head : At(n).readOnly = (n = 1)
    BY Zenon DEF At
  <1>5. 0 \in 0..Head /\ Head \in 0..Head /\ Head # 1 /\ 0 # 1
    BY DEF Head
  <1> QED
    BY <1>1, <1>2, <1>3, <1>4, <1>5

LEMMA InitIInv == Init => IInv
  <1> SUFFICES ASSUME Init PROVE IInv
    OBVIOUS
  <1>1. TypeOK
    BY AtIsSchema, StartUpAssumption DEF Init, TypeOK
  <1>2. bare => ~schema.readOnly
    <2>1. PICK n \in 0..Head : schema = At(n)
      BY DEF Init
    <2>2. bare => n \in {0, Head}
      BY <2>1 DEF Init, At
    <2> QED
      BY <2>1, <2>2, AtIsSchema
  <1> QED
    BY <1>1, <1>2 DEF Init, IInv, BaseStands, MigratedIsHead, BareIsPlain, ServesCompleteSchema

-----------------------------------------------------------------------------
(* Steps that leave the schema alone.                                       *)

\* A replica that does not reach init_database, or whose transaction has just
\* begun, disturbs nothing.
LEMMA SchemaStays ==
  ASSUME IInv, TypeOK', UNCHANGED <<schema, bare>>, NEW r \in Replicas,
         NEW p, phase' = [phase EXCEPT ![r] = p],
         \A q \in Replicas \ {r} : base'[q] = base[q],
         p \in {"unlock", "commit"} => base'[r].tables \subseteq schema.tables,
         ~bare /\ p \in {"init", "unlock", "commit", "serving"} =>
            phase[r] \in {"init", "unlock", "commit", "serving"},
         p = "serving" => phase[r] = "serving",
         bare => p \notin {"lock", "migrate"}
  PROVE  IInv'
  <1> USE DEF IInv
  <1>1. \A q \in Replicas : phase'[q] = IF q = r THEN p ELSE phase[q]
    BY DEF TypeOK
  <1>2. BaseStands'
    BY <1>1 DEF BaseStands
  <1>3. MigratedIsHead'
    BY <1>1 DEF MigratedIsHead
  <1>4. BareIsPlain'
    BY <1>1 DEF BareIsPlain
  <1>5. ServesCompleteSchema'
    BY <1>1 DEF ServesCompleteSchema
  <1> QED
    BY <1>2, <1>3, <1>4, <1>5

LEMMA QuietStep ==
  ASSUME IInv, NEW r \in Replicas,
         \/ Boot(r) \/ LockIsHeld(r) \/ GiveUp(r) \/ MigrateFails(r)
         \/ UnlockTables(r) \/ CommitFails(r) \/ LoseLock(r) \/ CrashReplica(r)
  PROVE  IInv'
  <1> USE DEF IInv
  <1>1. CASE Boot(r)
    <2>1. TypeOK'
      BY <1>1, StartUpAssumption DEF Boot, Goes, TypeOK
    <2>2. CASE bare
      BY <1>1, <2>1, <2>2, SchemaStays DEF Boot, Goes
    <2>3. CASE ~bare
      BY <1>1, <2>1, <2>3, SchemaStays DEF Boot, Goes
    <2> QED
      BY <2>2, <2>3
  <1>2. CASE LockIsHeld(r)
    <2>1. TypeOK'
      BY <1>2, StartUpAssumption DEF LockIsHeld, TypeOK
    <2>2. phase' = [phase EXCEPT ![r] = phase[r]]
      BY <1>2 DEF LockIsHeld, TypeOK
    <2> QED
      BY <1>2, <2>1, <2>2, SchemaStays DEF LockIsHeld, BaseStands, BareIsPlain
  <1>3. CASE GiveUp(r)
    <2>1. TypeOK'
      BY <1>3 DEF GiveUp, Goes, TypeOK
    <2> QED
      BY <1>3, <2>1, SchemaStays DEF GiveUp, Goes
  <1>4. CASE MigrateFails(r)
    <2>1. TypeOK'
      BY <1>4, StartUpAssumption DEF MigrateFails, Goes, Unlock, TypeOK
    <2>2. ~bare
      BY <1>4 DEF MigrateFails, BareIsPlain
    <2> QED
      BY <1>4, <2>1, <2>2, SchemaStays DEF MigrateFails, Goes
  <1>5. CASE UnlockTables(r)
    <2>1. TypeOK'
      BY <1>5 DEF UnlockTables, Goes, TypeOK
    <2> QED
      BY <1>5, <2>1, SchemaStays DEF UnlockTables, Goes, BaseStands
  <1>6. CASE CommitFails(r)
    <2>1. TypeOK'
      BY <1>6 DEF CommitFails, Goes, TypeOK
    <2> QED
      BY <1>6, <2>1, SchemaStays DEF CommitFails, Goes
  <1>7. CASE LoseLock(r)
    <2>1. TypeOK'
      BY <1>7, StartUpAssumption DEF LoseLock, TypeOK
    <2>2. phase' = [phase EXCEPT ![r] = phase[r]]
      BY <1>7 DEF LoseLock, TypeOK
    <2> QED
      BY <1>7, <2>1, <2>2, SchemaStays DEF LoseLock, BaseStands, BareIsPlain
  <1>8. CASE CrashReplica(r)
    <2>1. TypeOK'
      BY <1>8, StartUpAssumption DEF CrashReplica, Goes, Unlock, TypeOK
    <2> QED
      BY <1>8, <2>1, SchemaStays DEF CrashReplica, Goes
  <1> QED
    BY <1>1, <1>2, <1>3, <1>4, <1>5, <1>6, <1>7, <1>8

\* A transaction begins with the schema that is there.
LEMMA BeginStep ==
  ASSUME IInv, NEW r \in Replicas, TryLock(r) \/ CreateAll(r)
  PROVE  IInv'
  <1> USE DEF IInv
  <1>1. CASE TryLock(r)
    <2>1. TypeOK'
      BY <1>1, StartUpAssumption DEF TryLock, Goes, TypeOK
    <2>2. ~bare
      BY <1>1 DEF TryLock, BareIsPlain
    <2>3. \A q \in Replicas \ {r} : base'[q] = base[q]
      BY <1>1 DEF TryLock, TypeOK
    <2> QED
      BY <1>1, <2>1, <2>2, <2>3, SchemaStays DEF TryLock, Goes
  <1>2. CASE CreateAll(r)
    <2>1. TypeOK'
      BY <1>2, StartUpAssumption DEF CreateAll, Goes, TypeOK
    <2>2. /\ \A q \in Replicas \ {r} : base'[q] = base[q]
          /\ base'[r] = schema
      BY <1>2 DEF CreateAll, TypeOK
    <2> QED
      BY <1>2, <2>1, <2>2, SchemaStays DEF CreateAll, Goes
  <1> QED
    BY <1>1, <1>2

-----------------------------------------------------------------------------
(* Steps that change the schema.                                            *)

\* A migration that goes through leaves all tables.
LEMMA MigrateStep ==
  ASSUME IInv, NEW r \in Replicas, Migrate(r)
  PROVE  IInv'
  <1> USE DEF IInv
  <1>1. schema' = At(Head) /\ schema' \in Schemas /\ UNCHANGED <<bare, base>>
    BY AtIsSchema DEF Migrate, Head
  <1>2. TypeOK'
    BY <1>1, StartUpAssumption DEF Migrate, Goes, AfterMigration, Unlock, TypeOK
  <1>3. \A q \in Replicas : q # r => phase'[q] = phase[q]
    BY DEF Migrate, Goes, TypeOK
  <1>4. phase'[r] \in {"init", "lock"} /\ ~bare
    BY DEF Migrate, Goes, AfterMigration, TypeOK, BareIsPlain
  <1>5. \A q \in Replicas : base[q].tables \subseteq Tables
    BY DEF TypeOK, Schemas
  <1>6. BaseStands'
    BY <1>1, <1>5, AtIsSchema DEF BaseStands
  <1>7. MigratedIsHead' /\ BareIsPlain' /\ ServesCompleteSchema'
    BY <1>1, <1>4, AtIsSchema DEF MigratedIsHead, BareIsPlain, ServesCompleteSchema
  <1> QED
    BY <1>2, <1>6, <1>7

\* create_all commits what it found missing; with what it found, that is all.
LEMMA CommitStep ==
  ASSUME IInv, NEW r \in Replicas, CommitTables(r)
  PROVE  IInv'
  <1> USE DEF IInv
  <1>1. schema' = [schema EXCEPT !.tables = schema.tables \cup Made(r)]
    BY DEF CommitTables
  <1>2. /\ schema' \in Schemas /\ schema'.tables = schema.tables \cup Made(r)
        /\ schema'.revision = schema.revision /\ schema'.readOnly = schema.readOnly
    BY <1>1 DEF TypeOK, Schemas, Made
  <1>3. TypeOK'
    BY <1>2 DEF CommitTables, Goes, TypeOK
  <1>4. \A q \in Replicas : phase'[q] = IF q = r THEN "serving" ELSE phase[q]
    BY DEF CommitTables, Goes, TypeOK
  <1>5. UNCHANGED <<bare, base>>
    BY DEF CommitTables
  <1>6. phase[r] = "commit"
    BY DEF CommitTables
  <1>7. Tables \subseteq schema'.tables
    BY <1>2, <1>6 DEF BaseStands, Made
  <1>8. BaseStands'
    BY <1>2, <1>4, <1>5 DEF BaseStands
  <1>9. MigratedIsHead' /\ BareIsPlain'
    BY <1>2, <1>4, <1>5, <1>6 DEF MigratedIsHead, BareIsPlain
  <1>10. ServesCompleteSchema'
    BY <1>2, <1>5, <1>6, <1>7 DEF ServesCompleteSchema, MigratedIsHead, BareIsPlain
  <1> QED
    BY <1>3, <1>8, <1>9, <1>10

LEMMA StepIInv == IInv /\ [Next]_vars => IInv'
  <1> SUFFICES ASSUME IInv, [Next]_vars PROVE IInv'
    OBVIOUS
  <1>1. CASE UNCHANGED vars
    BY <1>1 DEF vars, IInv, TypeOK, BaseStands, MigratedIsHead, BareIsPlain, ServesCompleteSchema
  <1> QED
    BY <1>1, QuietStep, BeginStep, MigrateStep, CommitStep DEF Next, StartStep

-----------------------------------------------------------------------------

\* The invariant that carries the theorems of this module.
THEOREM StartUpInvariance == Spec => []IInv
  BY InitIInv, StepIInv, PTL DEF Spec

\* Type correctness: the schema is always one of those that migrations and
\* create_all make, the locks are held by replicas, attempts and faults are
\* within their bounds.
THEOREM StartUpTypes == Spec => []TypeOK
  <1>1. IInv => TypeOK
    BY DEF IInv
  <1> QED
    BY <1>1, StartUpInvariance, PTL

\* No replica serves on an incomplete schema, however many of them race for the
\* locks, lose them with their connections, fail and crash (entrypoint.py,
\* init_database).
THEOREM NoneServesIncompletely == Spec => []ServesCompleteSchema
  <1>1. IInv => ServesCompleteSchema
    BY DEF IInv
  <1> QED
    BY <1>1, StartUpInvariance, PTL
=============================================================================
