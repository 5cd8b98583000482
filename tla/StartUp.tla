------------------------------ MODULE StartUp -------------------------------
(***************************************************************************)
(* Replicas come up on one database: the container entrypoint runs the     *)
(* migrations under an advisory lock, then the application creates the     *)
(* tables that are missing under another, and serves (entrypoint.py,       *)
(* alembic/versions, init_database of database.py).  A replica may also be *)
(* started bare, without the entrypoint.                                   *)
(*                                                                         *)
(* A transaction that created a table fails if another one has committed   *)
(* that table meanwhile; the locks of a connection go with it.             *)
(***************************************************************************)
EXTENDS Naturals, FiniteSets

CONSTANTS Replicas,
          MaxAttempts,  \* attempts to take the migration lock
          MaxFaults,    \* bound: crashes, lost connections, failed migrations
          NoReplica

Base == {"users", "shares", "audit_log"}
Tables == Base \cup {"document_sizes", "annotated_uploads"}
Head == 4               \* 004_annotated_uploads

ASSUME StartUpAssumption ==
    /\ MaxAttempts \in Nat \ {0} /\ MaxFaults \in Nat
    /\ NoReplica \notin Replicas

VARIABLES schema,       \* what is committed: revision, tables, shares.read_only
          bare,         \* the replicas are started without the entrypoint
          phase,        \* phase[r]: how far replica r has come
          tries,        \* tries[r]: attempts to take the migration lock
          base,         \* base[r]: the schema that its transaction began with
          migrating,    \* the replica that holds the migration lock
          creating,     \* the replica that holds the lock of init_database
          faults

vars == <<schema, bare, phase, tries, base, migrating, creating, faults>>

Schemas == [revision : 0..Head, tables : SUBSET Tables, readOnly : BOOLEAN]

TypeOK ==
    /\ schema \in Schemas /\ base \in [Replicas -> Schemas]
    /\ bare \in BOOLEAN
    /\ phase \in [Replicas -> {"down", "lock", "migrate", "init", "create", "unlock", "commit",
                               "serving"}]
    /\ tries \in [Replicas -> 0..MaxAttempts]
    /\ migrating \in Replicas \cup {NoReplica} /\ creating \in Replicas \cup {NoReplica}
    /\ faults \in 0..MaxFaults

\* What the migrations up to a revision leave.
At(n) == [revision |-> n,
          tables |-> (IF n >= 1 THEN Base ELSE {}) \cup (IF n >= 3 THEN {"document_sizes"} ELSE {})
                     \cup (IF n >= 4 THEN {"annotated_uploads"} ELSE {}),
          readOnly |-> n = 1]

Init ==
    /\ schema \in {At(n) : n \in 0..Head}
    /\ bare \in {b \in BOOLEAN : b => schema.revision \in {0, Head}}
    /\ phase = [r \in Replicas |-> "down"]
    /\ tries = [r \in Replicas |-> 0]
    /\ base = [r \in Replicas |-> schema]
    /\ migrating = NoReplica /\ creating = NoReplica
    /\ faults = 0

Goes(r, p) == phase' = [phase EXCEPT ![r] = p]

\* The container runtime starts the process.
Boot(r) ==
    /\ phase[r] = "down"
    /\ Goes(r, IF bare THEN "init" ELSE "lock")
    /\ tries' = [tries EXCEPT ![r] = 0]
    /\ UNCHANGED <<schema, bare, base, migrating, creating, faults>>

-----------------------------------------------------------------------------
(* run_migrations_with_lock                                                 *)

\* pg_try_advisory_lock, then alembic begins.
TryLock(r) ==
    /\ phase[r] = "lock" /\ tries[r] < MaxAttempts
    /\ migrating = NoReplica
    /\ migrating' = r
    /\ base' = [base EXCEPT ![r] = schema]
    /\ tries' = [tries EXCEPT ![r] = @ + 1]
    /\ Goes(r, "migrate")
    /\ UNCHANGED <<schema, bare, creating, faults>>

\* Mutant: the attempts are not counted.
WaitForever(r) ==
    /\ phase[r] = "lock" /\ migrating # NoReplica
    /\ tries' = [tries EXCEPT ![r] = @ + 1]
    /\ UNCHANGED <<schema, bare, phase, base, migrating, creating, faults>>

\* Another replica has the lock: wait.
LockIsHeld(r) ==
    /\ phase[r] = "lock" /\ tries[r] < MaxAttempts
    /\ migrating # NoReplica
    /\ tries' = [tries EXCEPT ![r] = @ + 1]
    /\ UNCHANGED <<schema, bare, phase, base, migrating, creating, faults>>

\* "Timed out waiting for migration lock": the container exits.
GiveUp(r) ==
    /\ phase[r] = "lock" /\ tries[r] = MaxAttempts
    /\ Goes(r, "down")
    /\ UNCHANGED <<schema, bare, tries, base, migrating, creating, faults>>

\* The migrations that alembic runs from a schema on, in this order.  001 creates
\* the tables that do not exist; 002 drops a column of shares that only 001
\* creates; 003 and 004 create a table each.
CreatesShares(s) == "shares" \notin s.tables
DropsReadOnly(s) == IF s.revision = 0 THEN CreatesShares(s) ELSE s.revision = 1 => s.readOnly
CreatesSizes(s) == s.revision <= 2 => "document_sizes" \notin s.tables
CreatesUploads(s) == s.revision <= 3 => "annotated_uploads" \notin s.tables

\* All that are due go through.
Upgrades(s) == DropsReadOnly(s) /\ CreatesSizes(s) /\ CreatesUploads(s)

Unlock(r) == migrating' = IF migrating = r THEN NoReplica ELSE migrating

\* After the migrations the lock is released, and the application is started;
\* when the lock went with its connection, releasing it raises, whatever alembic
\* returned, and the loop begins anew.
AfterMigration(r) == IF migrating = r THEN "init" ELSE "lock"

\* alembic upgrade head, in one transaction.
Migrate(r) ==
    /\ phase[r] = "migrate"
    /\ Upgrades(base[r]) /\ schema = base[r]
    /\ schema' = At(Head)
    /\ Goes(r, AfterMigration(r)) /\ Unlock(r)
    /\ UNCHANGED <<bare, tries, base, creating, faults>>

\* Mutant: the application is started although the migrations failed.
ServeAnyway(r) ==
    /\ phase[r] = "migrate"
    /\ Goes(r, "init") /\ Unlock(r)
    /\ UNCHANGED <<schema, bare, tries, base, creating, faults>>

\* alembic fails, by itself or on what another one has committed: it is rolled
\* back and the container exits, unless the lock is gone.
MigrateFails(r) ==
    /\ phase[r] = "migrate"
    /\ \/ ~(Upgrades(base[r]) /\ schema = base[r]) /\ UNCHANGED faults
       \/ faults < MaxFaults /\ faults' = faults + 1
    /\ Goes(r, IF migrating = r THEN "down" ELSE "lock") /\ Unlock(r)
    /\ UNCHANGED <<schema, bare, tries, base, creating>>

\* The connection that holds the lock is lost; alembic goes on.
LoseLock(r) ==
    /\ migrating = r /\ faults < MaxFaults
    /\ migrating' = NoReplica
    /\ faults' = faults + 1
    /\ UNCHANGED <<schema, bare, phase, tries, base, creating>>

-----------------------------------------------------------------------------
(* init_database                                                            *)

\* pg_advisory_lock waits; create_all looks which tables exist.
CreateAll(r) ==
    /\ phase[r] = "init"
    /\ creating = NoReplica
    /\ creating' = r
    /\ base' = [base EXCEPT ![r] = schema]
    /\ Goes(r, "unlock")
    /\ UNCHANGED <<schema, bare, tries, migrating, faults>>

\* The lock is released before the transaction is committed.
UnlockTables(r) ==
    /\ phase[r] = "unlock"
    /\ creating' = NoReplica
    /\ Goes(r, "commit")
    /\ UNCHANGED <<schema, bare, tries, base, migrating, faults>>

Made(r) == Tables \ base[r].tables

CommitTables(r) ==
    /\ phase[r] = "commit"
    /\ Made(r) \cap schema.tables = {}
    /\ schema' = [schema EXCEPT !.tables = @ \cup Made(r)]
    /\ Goes(r, "serving")
    /\ UNCHANGED <<bare, tries, base, migrating, creating, faults>>

\* Another replica committed the same tables: init_database raises.
CommitFails(r) ==
    /\ phase[r] = "commit"
    /\ Made(r) \cap schema.tables # {}
    /\ Goes(r, "down")
    /\ UNCHANGED <<schema, bare, tries, base, migrating, creating, faults>>

\* Mutant: a process that dies leaves its locks behind.
CrashKeepsLocks(r) ==
    /\ phase[r] # "down" /\ faults < MaxFaults
    /\ faults' = faults + 1
    /\ Goes(r, "down")
    /\ UNCHANGED <<schema, bare, tries, base, migrating, creating>>

\* The process dies, and its transactions and locks with it.
CrashReplica(r) ==
    /\ phase[r] # "down" /\ faults < MaxFaults
    /\ faults' = faults + 1
    /\ Goes(r, "down") /\ Unlock(r)
    /\ creating' = IF creating = r THEN NoReplica ELSE creating
    /\ UNCHANGED <<schema, bare, tries, base>>

StartStep(r) ==
    \/ Boot(r) \/ TryLock(r) \/ LockIsHeld(r) \/ GiveUp(r) \/ Migrate(r) \/ MigrateFails(r)
    \/ CreateAll(r) \/ UnlockTables(r) \/ CommitTables(r) \/ CommitFails(r)

Next == \E r \in Replicas : StartStep(r) \/ LoseLock(r) \/ CrashReplica(r)

\* The container runtime starts what has exited, and no replica stands still.
Spec == /\ Init /\ [][Next]_vars
        /\ \A r \in Replicas : WF_vars(StartStep(r))

-----------------------------------------------------------------------------
(* Properties.                                                              *)

\* A replica that serves finds the tables and columns that its code expects,
\* and the revision that the next release will migrate from, whichever replica
\* created them, and whatever crashed meanwhile.
ServesCompleteSchema ==
    (\E r \in Replicas : phase[r] = "serving") =>
        Tables \subseteq schema.tables /\ ~schema.readOnly /\ (~bare => schema.revision = Head)

\* Every replica serves in the end, once crashes cease: who loses the race for
\* the tables or the lock comes up at the next start.
EveryReplicaServes == \A r \in Replicas : <>[](phase[r] = "serving")

\* What the schema is to a replica: the tables that it found are still there; in
\* a container, past the migrations, the schema is the newest one; the bare
\* replicas never meet a schema between two revisions, nor the migrations.
BaseStands == \A r \in Replicas : phase[r] \in {"unlock", "commit"} =>
                                     base[r].tables \subseteq schema.tables
MigratedIsHead == ~bare /\ (\E r \in Replicas : phase[r] \in {"init", "unlock", "commit", "serving"})
                    => schema.revision = Head /\ ~schema.readOnly
BareIsPlain == bare => /\ ~schema.readOnly
                       /\ \A r \in Replicas : phase[r] \notin {"lock", "migrate"}

IInv == TypeOK /\ BaseStands /\ MigratedIsHead /\ BareIsPlain /\ ServesCompleteSchema
=============================================================================
