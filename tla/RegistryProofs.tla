--------------------------- MODULE RegistryProofs ---------------------------
(***************************************************************************)
(* Theorems of Registry, for any number of requests at once, users, names  *)
(* and shares: who may write a row, that a removed row stays removed, and  *)
(* that what an update acknowledges was in the table.                      *)
(***************************************************************************)
EXTENDS Registry, FiniteSetTheorems, TLAPS

-----------------------------------------------------------------------------
(* Requests.                                                                *)

LEMMA FreshIsRequest == Fresh \in Request /\ Fresh.id = 0 /\ Fresh.op = "none"
  <1>1. <<>> \in [{} -> BOOLEAN]
    OBVIOUS
  <1>2. <<>> \in Partial
    BY <1>1 DEF Partial
  <1>3. 0 \in 0..MaxShares
    BY RegistryAssumption
  <1>4. QED
    BY <1>2, <1>3 DEF Fresh, Request, Answers

\* A step of one request leaves the others alone.
LEMMA OneRequest ==
  ASSUME TypeOK, NEW h \in Handlers, NEW r, req' = [req EXCEPT ![h] = r]
  PROVE  /\ req'[h] = r
         /\ \A k \in Handlers : k # h => req'[k] = req[k]
         /\ r \in Request => req' \in [Handlers -> Request]
  BY DEF TypeOK

LEMMA GoesOn ==
  ASSUME TypeOK, NEW h \in Handlers,
         NEW pc \in {"insert", "add", "write", "remove", "refresh"}, Goes(h, pc)
  PROVE  /\ req' \in [Handlers -> Request]
         /\ \A k \in Handlers : k # h => req'[k] = req[k]
         /\ req'[h].pc = pc
         /\ req'[h].op = req[h].op /\ req'[h].via = req[h].via /\ req'[h].user = req[h].user
         /\ req'[h].name = req[h].name /\ req'[h].id = req[h].id /\ req'[h].sets = req[h].sets
         /\ req'[h].asked = req[h].asked
  BY DEF TypeOK, Goes, Request

LEMMA Refuses ==
  ASSUME TypeOK, NEW h \in Handlers, NEW pc \in Answers, Refuse(h, pc)
  PROVE  /\ req' \in [Handlers -> Request]
         /\ \A k \in Handlers : k # h => req'[k] = req[k]
         /\ req'[h].pc = pc /\ req'[h].op = "none" /\ req'[h].id = 0
  <1>1. /\ [Fresh EXCEPT !.pc = pc] \in Request /\ [Fresh EXCEPT !.pc = pc].pc = pc
        /\ [Fresh EXCEPT !.pc = pc].op = "none" /\ [Fresh EXCEPT !.pc = pc].id = 0
    BY FreshIsRequest DEF Request
  <1>2. QED
    BY <1>1, OneRequest DEF Refuse

LEMMA Succeeds ==
  ASSUME TypeOK, NEW h \in Handlers, Succeed(h)
  PROVE  /\ req' \in [Handlers -> Request]
         /\ \A k \in Handlers : k # h => req'[k] = req[k]
         /\ req'[h].pc = "ok" /\ req'[h].op = req[h].op /\ req'[h].via = req[h].via
         /\ req'[h].id = req[h].id
  <1>1. <<>> \in [{} -> BOOLEAN]
    OBVIOUS
  <1>2. <<>> \in Partial
    BY <1>1 DEF Partial
  <1> DEFINE r == [req[h] EXCEPT !.pc = "ok", !.user = None, !.name = None, !.sets = <<>>,
                             !.asked = <<>>]
  <1>3. req[h] \in Request
    BY DEF TypeOK
  <1>4. /\ r \in Request /\ r.pc = "ok" /\ r.op = req[h].op /\ r.via = req[h].via
        /\ r.id = req[h].id
    BY <1>2, <1>3 DEF Request, Answers
  <1>5. req' = [req EXCEPT ![h] = r]
    BY DEF TypeOK, Succeed
  <1> HIDE DEF r
  <1>6. QED
    BY <1>4, <1>5, OneRequest

-----------------------------------------------------------------------------
(* What one request's step leaves of the others' knowledge.                 *)

Sound(h) == CreateSound(h) /\ UpdateSound(h) /\ DeleteSound(h)

\* Rows keep their owners, and a row that is gone stays gone.
RowsEvolve ==
    /\ users \subseteq users'
    /\ \A i \in 1..made :
         /\ shares[i] = None => shares'[i] = None
         /\ shares'[i] # None => /\ shares'[i].owner = shares[i].owner
                                 /\ i \in ever => i \in ever'

LEMMA KeepsSound ==
  ASSUME IInv, NEW k \in Handlers, RowsEvolve, req'[k] = req[k], due'[k] \subseteq due[k]
  PROVE  Sound(k)'
  <1>1. Sound(k) /\ req[k] \in Request /\ req[k].id \in 0..made /\ req[k].id \in Nat
    BY RegistryAssumption DEF IInv, TypeOK, Sound, Request
  <1>2. CreateSound(k)'
    BY <1>1 DEF Sound, CreateSound, Creating, RowsEvolve
  <1>3. UpdateSound(k)'
    BY <1>1, RegistryAssumption DEF Sound, UpdateSound, RowsEvolve, IInv, TypeOK
  <1>4. DeleteSound(k)'
    BY <1>1, RegistryAssumption DEF Sound, DeleteSound, RowsEvolve, IInv, TypeOK
  <1>5. QED
    BY <1>2, <1>3, <1>4 DEF Sound

LEMMA CreatingIsFinite ==
  /\ IsFiniteSet(Creating) /\ Cardinality(Creating) \in Nat
  /\ IsFiniteSet(Creating') /\ Cardinality(Creating') \in Nat
  <1>1. Creating \in SUBSET Handlers /\ Creating' \in SUBSET Handlers
    BY DEF Creating
  <1>2. QED
    BY <1>1, RegistryAssumption, FS_Subset, FS_CardinalityType

LEMMA NoneMoreCreating ==
  ASSUME Creating' \subseteq Creating
  PROVE  Cardinality(Creating') <= Cardinality(Creating)
  BY CreatingIsFinite, FS_Subset

\* A step of request h preserves the invariant, given what it does to the rows
\* and to h.
LEMMA StepOf ==
  ASSUME IInv, NEW h \in Handlers, TypeOK', RowsEvolve,
         made' + Cardinality(Creating') <= MaxShares,
         \A i \in Existing' : shares'[i].data["allowed"] => i \in ever',
         \A k \in Handlers \ {h} : req'[k] = req[k] /\ due'[k] \subseteq due[k],
         Sound(h)'
  PROVE  IInv'
  <1>1. ASSUME NEW k \in Handlers PROVE Sound(k)'
    BY KeepsSound
  <1>2. QED
    BY <1>1 DEF IInv, Sound

\* A step that reads, answers or goes on.
LEMMA ReadingStepOf ==
  ASSUME IInv, NEW h \in Handlers, UNCHANGED <<users, shares, made, ever>>,
         req' \in [Handlers -> Request], req'[h].id <= made,
         due' \in [Handlers -> SUBSET Fields],
         \A k \in Handlers \ {h} : req'[k] = req[k] /\ due'[k] \subseteq due[k],
         h \in Creating' => h \in Creating \/ made + Cardinality(Creating) < MaxShares,
         Sound(h)'
  PROVE  IInv'
  <1>1. TypeOK'
    BY DEF IInv, TypeOK, Existing
  <1>2. RowsEvolve
    BY DEF RowsEvolve
  <1>3. made \in Nat /\ MaxShares \in Nat
    BY RegistryAssumption DEF IInv, TypeOK
  <1>4. made' + Cardinality(Creating') <= MaxShares
    <2>1. CASE h \in Creating' /\ h \notin Creating
      <3>1. Creating' = Creating \cup {h}
        BY <2>1 DEF Creating
      <3>2. Cardinality(Creating') = Cardinality(Creating) + 1
        BY <2>1, <3>1, CreatingIsFinite, FS_AddElement
      <3>3. QED
        BY <1>3, <2>1, <3>2, CreatingIsFinite
    <2>2. CASE ~(h \in Creating' /\ h \notin Creating)
      <3>1. Creating' \subseteq Creating
        BY <2>2 DEF Creating
      <3>2. QED
        BY <1>3, <3>1, NoneMoreCreating, CreatingIsFinite DEF IInv
    <2>3. QED
      BY <2>1, <2>2
  <1>5. \A i \in Existing' : shares'[i].data["allowed"] => i \in ever'
    BY DEF IInv, Existing
  <1>6. QED
    BY <1>1, <1>2, <1>4, <1>5, StepOf

\* A request that is refused knows nothing.
LEMMA RefusedIsSound ==
  ASSUME NEW h \in Handlers, NEW pc \in Answers, req'[h].pc = pc, req'[h].op = "none"
  PROVE  Sound(h)'
  BY DEF Sound, CreateSound, UpdateSound, DeleteSound, Creating, Answers

LEMMA RefusingStep ==
  ASSUME IInv, NEW h \in Handlers, NEW pc \in Answers, Refuse(h, pc),
         due' = due \/ due' = [due EXCEPT ![h] = {}], UNCHANGED <<users, shares, made, ever>>
  PROVE  IInv'
  <1>1. /\ req' \in [Handlers -> Request] /\ req'[h].pc = pc /\ req'[h].op = "none"
        /\ req'[h].id = 0 /\ \A k \in Handlers \ {h} : req'[k] = req[k]
    BY Refuses DEF IInv
  <1>2. /\ due' \in [Handlers -> SUBSET Fields]
        /\ \A k \in Handlers \ {h} : due'[k] \subseteq due[k]
    BY DEF IInv, TypeOK
  <1>3. h \notin Creating'
    BY <1>1 DEF Creating, Answers
  <1>4. req'[h].id <= made
    BY <1>1 DEF IInv, TypeOK
  <1>5. Sound(h)'
    BY <1>1, RefusedIsSound
  <1>6. QED
    BY <1>1, <1>2, <1>3, <1>4, <1>5, ReadingStepOf

-----------------------------------------------------------------------------
(* Creating a share.                                                        *)

LEMMA BeginCreateStep ==
  ASSUME IInv, NEW h \in Handlers, BeginCreate(h)
  PROVE  IInv'
  <1>1. PICK u \in Users, n \in Names, d \in Creatable, via \in {"api", "ui"} :
          IF via = "api" /\ Accessible(u, n) # {} THEN Refuse(h, "conflict")
          ELSE req' = [req EXCEPT ![h] = [Fresh EXCEPT !.op = "create", !.pc = "user", !.user = u,
                                                       !.name = n, !.sets = d]]
    BY DEF BeginCreate
  <1>2. CASE Refuse(h, "conflict")
    BY <1>2, RefusingStep DEF BeginCreate, Answers
  <1>3. CASE req' = [req EXCEPT ![h] = [Fresh EXCEPT !.op = "create", !.pc = "user", !.user = u,
                                                     !.name = n, !.sets = d]]
    <2> DEFINE r == [Fresh EXCEPT !.op = "create", !.pc = "user", !.user = u, !.name = n,
                                  !.sets = d]
    <2>1. d \in Full /\ d \in Partial
      BY DEF Creatable, Partial, Full
    <2>2. /\ r \in Request /\ r.op = "create" /\ r.pc = "user" /\ r.user = u /\ r.name = n
          /\ r.sets = d /\ r.id = 0
      <3>1. Fresh \in Request /\ Fresh.id = 0
        BY FreshIsRequest
      <3>2. QED
        BY <2>1, <3>1 DEF Request
    <2>3. req' = [req EXCEPT ![h] = r]
      BY <1>3
    <2> HIDE DEF r
    <2>4. /\ req' \in [Handlers -> Request] /\ req'[h] = r
          /\ \A k \in Handlers \ {h} : req'[k] = req[k]
      BY <2>2, <2>3, OneRequest DEF IInv
    <2>5. /\ due' \in [Handlers -> SUBSET Fields]
          /\ \A k \in Handlers \ {h} : due'[k] \subseteq due[k]
      BY DEF IInv, TypeOK, BeginCreate
    <2>6. Sound(h)'
      BY <2>1, <2>2, <2>4 DEF Sound, CreateSound, UpdateSound, DeleteSound
    <2>7. req'[h].id <= made
      BY <2>2, <2>4 DEF IInv, TypeOK
    <2>8. QED
      BY <2>4, <2>5, <2>6, <2>7, ReadingStepOf DEF BeginCreate
  <1>4. QED
    BY <1>1, <1>2, <1>3

LEMMA FindUserStep ==
  ASSUME IInv, NEW h \in Handlers, FindUser(h)
  PROVE  IInv'
  <1>1. PICK pc \in {"insert", "add"} :
          Goes(h, pc) /\ (pc = "insert" => req[h].user \in users)
    BY DEF FindUser
  <1>2. /\ req' \in [Handlers -> Request] /\ \A k \in Handlers \ {h} : req'[k] = req[k]
        /\ req'[h].pc = pc /\ req'[h].op = req[h].op /\ req'[h].user = req[h].user
        /\ req'[h].name = req[h].name /\ req'[h].id = req[h].id /\ req'[h].sets = req[h].sets
    BY <1>1, GoesOn DEF IInv
  <1>3. h \in Creating
    BY DEF FindUser, Creating
  <1>4. Sound(h)'
    BY <1>1, <1>2, <1>3 DEF IInv, FindUser, Sound, CreateSound, UpdateSound, DeleteSound, Creating
  <1>5. /\ due' \in [Handlers -> SUBSET Fields]
        /\ \A k \in Handlers \ {h} : due'[k] \subseteq due[k]
        /\ req'[h].id <= made
    BY <1>2 DEF IInv, TypeOK, FindUser
  <1>6. QED
    BY <1>2, <1>3, <1>4, <1>5, ReadingStepOf DEF FindUser

LEMMA AddUserStep ==
  ASSUME IInv, NEW h \in Handlers, AddUser(h)
  PROVE  IInv'
  <1>1. h \in Creating /\ req[h].user \in Users
    BY DEF IInv, AddUser, Creating, CreateSound
  <1>2. CASE req[h].user \in users
    <2>1. users' = users /\ Refuse(h, "error")
      BY <1>2 DEF AddUser
    <2>2. QED
      BY <2>1, RefusingStep DEF AddUser, Answers
  <1>3. CASE req[h].user \notin users
    <2>1. Goes(h, "insert")
      BY <1>3 DEF AddUser
    <2>2. /\ req' \in [Handlers -> Request] /\ \A k \in Handlers \ {h} : req'[k] = req[k]
          /\ req'[h].pc = "insert" /\ req'[h].op = req[h].op /\ req'[h].user = req[h].user
          /\ req'[h].name = req[h].name /\ req'[h].id = req[h].id /\ req'[h].sets = req[h].sets
      BY <2>1, GoesOn DEF IInv
    <2>3. TypeOK'
      BY <1>1, <2>2 DEF IInv, TypeOK, AddUser, Existing
    <2>4. RowsEvolve
      BY DEF RowsEvolve, AddUser
    <2>5. Creating' = Creating
      BY <1>1, <2>2 DEF Creating
    <2>6. Sound(h)'
      BY <1>1, <2>2 DEF IInv, AddUser, Sound, CreateSound, UpdateSound, DeleteSound, Creating
    <2>7. \A i \in Existing' : shares'[i].data["allowed"] => i \in ever'
      BY DEF IInv, AddUser, Existing
    <2>8. made' + Cardinality(Creating') <= MaxShares
      BY <2>5 DEF IInv, AddUser
    <2>9. \A k \in Handlers \ {h} : due'[k] \subseteq due[k]
      BY DEF AddUser
    <2>10. QED
      BY <2>2, <2>3, <2>4, <2>6, <2>7, <2>8, <2>9, StepOf
  <1>4. QED
    BY <1>2, <1>3

LEMMA InsertStep ==
  ASSUME IInv, NEW h \in Handlers, Insert(h)
  PROVE  IInv'
  <1>1. CASE ~\A i \in Existing : shares[i].name # req[h].name
    BY <1>1, RefusingStep DEF Insert, Answers
  <1>2. CASE \A i \in Existing : shares[i].name # req[h].name
    <2>1. Created(h)
      BY <1>2 DEF Insert
    <2>2. /\ h \in Creating /\ req[h].op = "create" /\ req[h].user \in users
          /\ req[h].name \in Names /\ req[h].sets \in Full
      BY DEF IInv, Insert, Creating, CreateSound
    <2>3. Creating \ {h} \in SUBSET Creating /\ Cardinality(Creating \ {h}) = Cardinality(Creating) - 1
          /\ Cardinality(Creating \ {h}) \in Nat
      BY <2>2, CreatingIsFinite, FS_RemoveElement, FS_CardinalityType
    <2>4. made \in Nat /\ MaxShares \in Nat /\ made + Cardinality(Creating) <= MaxShares
      BY RegistryAssumption DEF IInv, TypeOK
    <2>5. made + 1 \in Ids /\ made + 1 # 0
      BY <2>3, <2>4, CreatingIsFinite DEF Ids
    <2> DEFINE r == [req[h] EXCEPT !.pc = "refresh", !.id = made + 1]
               row == [name |-> req[h].name, owner |-> req[h].user, data |-> req[h].sets]
    <2>6. req' = [req EXCEPT ![h] = r]
      BY <2>1 DEF Created, IInv, TypeOK
    <2>7. /\ r \in Request /\ r.pc = "refresh" /\ r.id = made + 1 /\ r.op = req[h].op
      <3>1. req[h] \in Request
        BY DEF IInv, TypeOK
      <3>2. made + 1 \in 0..MaxShares
        BY <2>4, <2>5 DEF Ids
      <3>3. QED
        BY <3>1, <3>2 DEF Request
    <2>8. row \in Rows /\ row # None /\ row.owner = req[h].user /\ row.name = req[h].name
          /\ row.data = req[h].sets
      BY <2>2, RegistryAssumption DEF Rows, IInv, TypeOK
    <2>9. shares' = [shares EXCEPT ![made + 1] = row] /\ made' = made + 1 /\ users' = users
          /\ due' = due /\ ever' = IF row.data["allowed"] THEN ever \cup {made + 1} ELSE ever
      BY <2>1 DEF Created
    <2> HIDE DEF r, row
    <2>10. /\ req' \in [Handlers -> Request] /\ req'[h] = r
           /\ \A k \in Handlers \ {h} : req'[k] = req[k]
      BY <2>6, <2>7, OneRequest DEF IInv
    <2>11. Existing' = Existing \cup {made + 1} /\ made + 1 \notin Existing
           /\ shares'[made + 1] = row /\ \A i \in Existing : shares'[i] = shares[i]
      BY <2>4, <2>5, <2>8, <2>9 DEF Existing, IInv, TypeOK, Ids
    <2>12. TypeOK'
      <3>1. shares' \in [Ids -> Rows \cup {None}] /\ made' \in 0..MaxShares
        BY <2>4, <2>5, <2>8, <2>9 DEF IInv, TypeOK, Ids
      <3>2. \A i \in Existing' : i <= made' /\ shares'[i].owner \in users'
        BY <2>2, <2>4, <2>8, <2>9, <2>11 DEF IInv, TypeOK, Existing, Ids
      <3>3. \A i, j \in Existing' : shares'[i].name = shares'[j].name => i = j
        BY <1>2, <2>8, <2>11 DEF IInv, TypeOK
      <3>4. \A k \in Handlers : req'[k].id <= made'
        <4>1. \A k \in Handlers : req[k].id \in Nat /\ req[k].id <= made
          BY <2>4 DEF IInv, TypeOK, Request
        <4>2. QED
          BY <2>4, <2>7, <2>9, <2>10, <4>1
      <3>5. due' \in [Handlers -> SUBSET Fields] /\ ever' \subseteq Ids /\ users' \subseteq Users
        BY <2>5, <2>9 DEF IInv, TypeOK
      <3>6. QED
        BY <2>10, <3>1, <3>2, <3>3, <3>4, <3>5 DEF TypeOK
    <2>13. RowsEvolve
      BY <2>4, <2>5, <2>9 DEF RowsEvolve, IInv, TypeOK, Ids
    <2>14. Creating' = Creating \ {h}
      BY <2>7, <2>10 DEF Creating
    <2>15. made' + Cardinality(Creating') <= MaxShares
      BY <2>3, <2>4, <2>9, <2>14, CreatingIsFinite
    <2>16. \A i \in Existing' : shares'[i].data["allowed"] => i \in ever'
      BY <2>9, <2>11 DEF IInv
    <2>17. Sound(h)'
      BY <2>2, <2>5, <2>7, <2>10 DEF Sound, CreateSound, UpdateSound, DeleteSound, Creating
    <2>18. QED
      BY <2>9, <2>10, <2>12, <2>13, <2>15, <2>16, <2>17, StepOf
  <1>3. QED
    BY <1>1, <1>2

\* The answer, or the error, after a commit.
LEMMA SucceedingStep ==
  ASSUME IInv, NEW h \in Handlers, Succeed(h), UNCHANGED <<users, shares, made, due, ever>>,
         req[h].op # "delete",
         req[h].op = "update" /\ req[h].via = "api" => due[h] = {}
  PROVE  IInv'
  <1>1. /\ req' \in [Handlers -> Request] /\ \A k \in Handlers \ {h} : req'[k] = req[k]
        /\ req'[h].pc = "ok" /\ req'[h].op = req[h].op /\ req'[h].via = req[h].via
        /\ req'[h].id = req[h].id
    BY Succeeds DEF IInv
  <1>2. h \notin Creating'
    BY <1>1 DEF Creating
  <1>3. Sound(h)'
    BY <1>1, <1>2 DEF Sound, CreateSound, UpdateSound, DeleteSound
  <1>4. req'[h].id <= made /\ due' \in [Handlers -> SUBSET Fields]
    BY <1>1 DEF IInv, TypeOK
  <1>5. QED
    BY <1>1, <1>2, <1>3, <1>4, ReadingStepOf

LEMMA RefreshStep ==
  ASSUME IInv, NEW h \in Handlers, Refresh(h)
  PROVE  IInv'
  <1>1. CASE Refuse(h, "error")
    BY <1>1, RefusingStep DEF Refresh, Answers
  <1>2. CASE Succeed(h)
    <2>1. req[h].op # "delete" /\ (req[h].op = "update" => due[h] = {})
      BY DEF Refresh, IInv, UpdateSound
    <2>2. QED
      BY <1>2, <2>1, SucceedingStep DEF Refresh
  <1>3. QED
    BY <1>1, <1>2 DEF Refresh

-----------------------------------------------------------------------------
(* Updating a share.                                                        *)

\* Whoever is let in is the owner, or one whom the row has allowed.
LEMMA FoundStep ==
  ASSUME IInv, NEW h \in Handlers, NEW u \in Users, NEW i \in Existing,
         NEW via \in {"api", "ui"}, NEW d \in Partial, Found(h, u, i, via, d),
         UNCHANGED <<users, shares, made, ever>>,
         shares[i].owner = u \/ (via = "ui" /\ shares[i].data["allowed"])
  PROVE  IInv'
  <1> DEFINE sets == Differing(d, shares[i].data)
             asked == Restrict(d, {f \in DOMAIN d : d[f] # shares[i].data[f]})
             r == [Fresh EXCEPT !.op = "update", !.via = via, !.pc = "select", !.user = u,
                                !.name = shares[i].name, !.id = i, !.sets = sets,
                                !.asked = asked]
  <1>1. i \in Ids /\ shares[i] \in Rows /\ shares[i] # None /\ i <= made
    BY DEF IInv, TypeOK, Existing
  <1>2. sets \in Partial /\ DOMAIN sets \subseteq Fields
    <2>1. PICK F \in SUBSET Fields : d \in [F -> BOOLEAN]
      BY DEF Partial
    <2>2. {f \in DOMAIN d : d[f] # shares[i].data[f]} \in SUBSET Fields
      BY <2>1
    <2>3. sets \in [{f \in DOMAIN d : d[f] # shares[i].data[f]} -> BOOLEAN]
      BY <2>1 DEF Differing, Restrict
    <2>4. QED
      BY <2>2, <2>3 DEF Partial
  <1>3. req' = [req EXCEPT ![h] = r] /\ due' = [due EXCEPT ![h] = DOMAIN sets]
    BY DEF Found
  <1>12. asked = sets
    BY DEF Differing
  <1> HIDE DEF sets, asked
  <1>4. /\ r \in Request /\ r.op = "update" /\ r.via = via /\ r.pc = "select" /\ r.user = u
        /\ r.id = i /\ r.sets = sets /\ r.asked = sets
    <2>1. shares[i].name \in Names /\ i \in 0..MaxShares /\ via \in {"api", "ui"}
      BY <1>1, RegistryAssumption DEF Rows, Ids
    <2>2. QED
      BY <1>2, <1>12, <2>1, FreshIsRequest DEF Request
  <1> HIDE DEF r
  <1>5. /\ req' \in [Handlers -> Request] /\ req'[h] = r
        /\ \A k \in Handlers \ {h} : req'[k] = req[k]
    BY <1>3, <1>4, OneRequest DEF IInv
  <1>6. /\ due' \in [Handlers -> SUBSET Fields] /\ due'[h] = DOMAIN sets
        /\ \A k \in Handlers \ {h} : due'[k] \subseteq due[k]
    BY <1>2, <1>3 DEF IInv, TypeOK
  <1>7. i \in ever \/ shares[i].owner = u
    BY DEF IInv
  <1>8. Sound(h)'
    BY <1>1, <1>4, <1>5, <1>6, <1>7 DEF Sound, CreateSound, UpdateSound, DeleteSound, Creating, Ids
  <1>9. h \notin Creating'
    BY <1>4, <1>5 DEF Creating
  <1>10. req'[h].id <= made
    BY <1>1, <1>4, <1>5
  <1>11. QED
    BY <1>5, <1>6, <1>8, <1>9, <1>10, ReadingStepOf

LEMMA BeginUpdateStep ==
  ASSUME IInv, NEW h \in Handlers, BeginUpdate(h)
  PROVE  IInv'
  <1>1. PICK u \in Users, n \in Names :
         \/ Refused(h, "missing")
         \/ Refused(h, "forbidden")
         \/ \E i \in Owned(u, n), d \in Partial : Found(h, u, i, "api", d)
         \/ \E i \in Accessible(u, n), d \in Full : Found(h, u, i, "ui", d)
    BY DEF BeginUpdate
  <1>2. UNCHANGED <<users, shares, made, ever>>
    BY DEF BeginUpdate
  <1>3. CASE Refused(h, "missing") \/ Refused(h, "forbidden")
    BY <1>2, <1>3, RefusingStep DEF Refused, Answers
  <1>4. ASSUME NEW i \in Owned(u, n), NEW d \in Partial, Found(h, u, i, "api", d)
        PROVE  IInv'
    BY <1>2, <1>4, FoundStep DEF Owned
  <1>5. ASSUME NEW i \in Accessible(u, n), NEW d \in Full, Found(h, u, i, "ui", d)
        PROVE  IInv'
    <2>1. d \in Partial
      BY DEF Full, Partial
    <2>2. QED
      BY <1>2, <1>5, <2>1, FoundStep DEF Accessible
  <1>6. QED
    BY <1>1, <1>3, <1>4, <1>5

LEMMA SelectStep ==
  ASSUME IInv, NEW h \in Handlers, Select(h)
  PROVE  IInv'
  <1>1. CASE Goes(h, "write")
    <2>1. /\ req' \in [Handlers -> Request] /\ \A k \in Handlers \ {h} : req'[k] = req[k]
          /\ req'[h].pc = "write" /\ req'[h].op = req[h].op /\ req'[h].via = req[h].via
          /\ req'[h].user = req[h].user /\ req'[h].id = req[h].id /\ req'[h].sets = req[h].sets
          /\ req'[h].asked = req[h].asked
      BY <1>1, GoesOn DEF IInv
    <2>2. Sound(h)'
      BY <2>1 DEF IInv, Select, Sound, CreateSound, UpdateSound, DeleteSound, Creating
    <2>3. h \notin Creating' /\ req'[h].id <= made /\ due' \in [Handlers -> SUBSET Fields]
      BY <2>1 DEF Creating, IInv, TypeOK, Select
    <2>4. QED
      BY <2>1, <2>2, <2>3, ReadingStepOf DEF Select
  <1>2. CASE Refuse(h, "error")
    BY <1>2, RefusingStep DEF Select, Answers
  <1>3. CASE Succeed(h) /\ req[h].via # "api"
    <2>1. req[h].op # "delete"
      BY DEF Select, IInv, UpdateSound
    <2>2. QED
      BY <1>3, <2>1, SucceedingStep DEF Select
  <1>4. QED
    BY <1>1, <1>2, <1>3 DEF Select

\* The row that the UPDATE leaves.
Written(h) == [shares[req[h].id] EXCEPT !.data = Over(@, req[h].sets)]

LEMMA WrittenRow ==
  ASSUME IInv, NEW h \in Handlers, Write(h)
  PROVE  /\ req[h].id \in Existing /\ req[h].op = "update"
         /\ Written(h) \in Rows /\ Written(h) # None
         /\ Written(h).owner = shares[req[h].id].owner
         /\ Written(h).name = shares[req[h].id].name
         /\ \A f \in DOMAIN req[h].sets : Written(h).data[f] = req[h].sets[f]
         /\ shares' = [shares EXCEPT ![req[h].id] = Written(h)]
         /\ Put(h, req[h].id, Written(h))
  <1>1. /\ req[h].id # 0 /\ req[h].op = "update" /\ req[h] \in Request
    BY DEF IInv, TypeOK, Write, UpdateSound
  <1>2. req[h].id \in Existing /\ shares[req[h].id] \in Rows
    BY <1>1, RegistryAssumption DEF IInv, TypeOK, Write, Existing, Ids, Request
  <1>3. PICK F \in SUBSET Fields : req[h].sets \in [F -> BOOLEAN]
    BY <1>1 DEF Request, Partial
  <1>4. shares[req[h].id].data \in [Fields -> BOOLEAN]
    BY <1>2 DEF Rows, Full
  <1> DEFINE over == Over(shares[req[h].id].data, req[h].sets)
  <1>5. over \in [Fields -> BOOLEAN]
    BY <1>3, <1>4 DEF Over
  <1>6. \A f \in DOMAIN req[h].sets : over[f] = req[h].sets[f]
    BY <1>3 DEF Over
  <1>7. Written(h) = [shares[req[h].id] EXCEPT !.data = over]
    BY <1>2 DEF Written, Rows
  <1> HIDE DEF over
  <1>8. /\ Written(h) \in Rows /\ Written(h).data = over
        /\ Written(h).owner = shares[req[h].id].owner
        /\ Written(h).name = shares[req[h].id].name
    BY <1>2, <1>5, <1>7 DEF Rows, Full
  <1>9. Put(h, req[h].id, Written(h))
    BY DEF Write, Written
  <1>10. QED
    BY <1>1, <1>2, <1>6, <1>8, <1>9, RegistryAssumption DEF Put

LEMMA WriteStep ==
  ASSUME IInv, NEW h \in Handlers, Write(h)
  PROVE  IInv'
  <1> DEFINE i == req[h].id
  <1>1. /\ i \in Existing /\ Written(h) \in Rows /\ Written(h) # None
        /\ Written(h).owner = shares[i].owner /\ Written(h).name = shares[i].name
        /\ shares' = [shares EXCEPT ![i] = Written(h)]
    BY WrittenRow
  <1>2. /\ users' = users /\ made' = made /\ Goes(h, "refresh")
        /\ ever' = IF Written(h).data["allowed"] THEN ever \cup {i} ELSE ever
    BY WrittenRow DEF Put
  <1>3. /\ req' \in [Handlers -> Request] /\ \A k \in Handlers \ {h} : req'[k] = req[k]
        /\ req'[h].pc = "refresh" /\ req'[h].op = "update" /\ req'[h].id = i
    BY <1>2, GoesOn, WrittenRow DEF IInv
  <1>4. /\ due' \in [Handlers -> SUBSET Fields]
        /\ \A k \in Handlers : due'[k] \subseteq due[k]
    BY WrittenRow DEF Put, IInv, TypeOK
  <1>5. due'[h] = {}
    <2>1. due[h] \subseteq DOMAIN req[h].sets
      BY DEF IInv, UpdateSound, Write
    <2>2. due'[h] \subseteq {f \in Fields : f \notin DOMAIN req[h].sets
                                           \/ req[h].sets[f] # Written(h).data[f]}
      BY WrittenRow DEF Put
    <2>3. QED
      BY <1>4, <2>1, <2>2, WrittenRow
  <1> HIDE DEF i
  <1>6. /\ i \in Ids /\ shares'[i] = Written(h) /\ Existing' = Existing
        /\ \A j \in Ids : j # i => shares'[j] = shares[j]
    BY <1>1 DEF Existing, IInv, TypeOK
  <1>7. TypeOK'
    <2>1. \A j \in Existing' : j <= made' /\ shares'[j].owner \in users'
      BY <1>1, <1>2, <1>6 DEF IInv, TypeOK, Existing
    <2>2. \A j, k \in Existing' : shares'[j].name = shares'[k].name => j = k
      BY <1>1, <1>6 DEF IInv, TypeOK, Existing
    <2>3. \A k \in Handlers : req'[k].id <= made'
      <3>1. i <= made
        BY <1>1 DEF IInv, TypeOK
      <3>2. QED
        BY <1>2, <1>3, <3>1 DEF IInv, TypeOK
    <2>4. ever' \subseteq Ids /\ shares' \in [Ids -> Rows \cup {None}]
      BY <1>1, <1>2, <1>6 DEF IInv, TypeOK
    <2>5. QED
      BY <1>2, <1>3, <1>4, <2>1, <2>2, <2>3, <2>4 DEF IInv, TypeOK
  <1>8. RowsEvolve
    BY <1>1, <1>2, <1>6, RegistryAssumption DEF RowsEvolve, IInv, TypeOK, Existing, Ids
  <1>9. Creating' = Creating
    BY <1>3 DEF Creating, Write
  <1>10. made' + Cardinality(Creating') <= MaxShares
    BY <1>2, <1>9 DEF IInv
  <1>11. \A j \in Existing' : shares'[j].data["allowed"] => j \in ever'
    BY <1>2, <1>6 DEF IInv, Existing
  <1>12. Sound(h)'
    <2>1. i # 0
      BY <1>6 DEF Ids
    <2>2. QED
      BY <1>3, <1>5, <2>1 DEF Sound, CreateSound, UpdateSound, DeleteSound, Creating
  <1>13. QED
    BY <1>3, <1>4, <1>7, <1>8, <1>10, <1>11, <1>12, StepOf

-----------------------------------------------------------------------------
(* Deleting a share.                                                        *)

LEMMA BeginDeleteStep ==
  ASSUME IInv, NEW h \in Handlers, BeginDelete(h)
  PROVE  IInv'
  <1>1. PICK u \in Users, n \in Names :
          \/ Refuse(h, "missing")
          \/ req' = [req EXCEPT ![h] = [Fresh EXCEPT !.op = "delete", !.pc = "find", !.user = u,
                                                     !.name = n]]
    BY DEF BeginDelete
  <1>2. CASE Refuse(h, "missing")
    BY <1>2, RefusingStep DEF BeginDelete, Answers
  <1>3. CASE req' = [req EXCEPT ![h] = [Fresh EXCEPT !.op = "delete", !.pc = "find", !.user = u,
                                                     !.name = n]]
    <2> DEFINE r == [Fresh EXCEPT !.op = "delete", !.pc = "find", !.user = u, !.name = n]
    <2>1. r \in Request /\ r.op = "delete" /\ r.pc = "find" /\ r.id = 0
      BY FreshIsRequest DEF Request
    <2>2. req' = [req EXCEPT ![h] = r]
      BY <1>3
    <2> HIDE DEF r
    <2>3. /\ req' \in [Handlers -> Request] /\ req'[h] = r
          /\ \A k \in Handlers \ {h} : req'[k] = req[k]
      BY <2>1, <2>2, OneRequest DEF IInv
    <2>4. /\ due' \in [Handlers -> SUBSET Fields]
          /\ \A k \in Handlers \ {h} : due'[k] \subseteq due[k]
      BY DEF IInv, TypeOK, BeginDelete
    <2>5. Sound(h)' /\ h \notin Creating'
      BY <2>1, <2>3 DEF Sound, CreateSound, UpdateSound, DeleteSound, Creating
    <2>6. req'[h].id <= made
      BY <2>1, <2>3 DEF IInv, TypeOK
    <2>7. QED
      BY <2>3, <2>4, <2>5, <2>6, ReadingStepOf DEF BeginDelete
  <1>4. QED
    BY <1>1, <1>2, <1>3

LEMMA FindToDeleteStep ==
  ASSUME IInv, NEW h \in Handlers, FindToDelete(h)
  PROVE  IInv'
  <1>1. CASE Refuse(h, "missing")
    BY <1>1, RefusingStep DEF FindToDelete, Answers
  <1>2. ASSUME NEW i \in Owned(req[h].user, req[h].name),
               req' = [req EXCEPT ![h].pc = "remove", ![h].id = i]
        PROVE  IInv'
    <2> DEFINE r == [req[h] EXCEPT !.pc = "remove", !.id = i]
    <2>1. i \in Ids /\ i <= made /\ shares[i].owner = req[h].user
      BY DEF Owned, Existing, IInv, TypeOK
    <2>2. req[h] \in Request /\ i \in 0..MaxShares
      BY <2>1, RegistryAssumption DEF IInv, TypeOK, Ids
    <2>3. r \in Request /\ r.pc = "remove" /\ r.id = i /\ r.op = req[h].op /\ r.user = req[h].user
      BY <2>2 DEF Request
    <2>4. req' = [req EXCEPT ![h] = r]
      BY <1>2 DEF IInv, TypeOK
    <2> HIDE DEF r
    <2>5. /\ req' \in [Handlers -> Request] /\ req'[h] = r
          /\ \A k \in Handlers \ {h} : req'[k] = req[k]
      BY <2>3, <2>4, OneRequest DEF IInv
    <2>6. req[h].op = "delete"
      BY DEF IInv, DeleteSound, FindToDelete
    <2>7. Sound(h)' /\ h \notin Creating'
      BY <2>1, <2>3, <2>5, <2>6
         DEF Sound, CreateSound, UpdateSound, DeleteSound, Creating, FindToDelete, Ids
    <2>8. req'[h].id <= made /\ due' \in [Handlers -> SUBSET Fields]
      BY <2>1, <2>3, <2>5 DEF IInv, TypeOK, FindToDelete
    <2>9. QED
      BY <2>5, <2>7, <2>8, ReadingStepOf DEF FindToDelete
  <1>3. QED
    BY <1>1, <1>2 DEF FindToDelete

LEMMA RemoveStep ==
  ASSUME IInv, NEW h \in Handlers, Remove(h)
  PROVE  IInv'
  <1> DEFINE i == req[h].id
  <1>1. /\ i # 0 /\ i \in Nat /\ i <= made /\ req[h].op = "delete"
    BY RegistryAssumption DEF IInv, TypeOK, Request, DeleteSound, Remove
  <1>2. /\ req' \in [Handlers -> Request] /\ \A k \in Handlers \ {h} : req'[k] = req[k]
        /\ req'[h].pc = "ok" /\ req'[h].op = "delete" /\ req'[h].id = i
    BY <1>1, Succeeds DEF IInv, Remove
  <1>3. /\ UNCHANGED <<users, made, due>> /\ shares' = [shares EXCEPT ![i] = None]
        /\ ever' = ever \ {i}
    BY DEF Remove
  <1> HIDE DEF i
  <1>4. i \in Ids
    BY <1>1, RegistryAssumption DEF Ids, IInv, TypeOK
  <1>5. /\ shares' \in [Ids -> Rows \cup {None}] /\ shares'[i] = None
        /\ \A j \in Ids : j # i => shares'[j] = shares[j]
        /\ Existing' = Existing \ {i}
    BY <1>3, <1>4 DEF IInv, TypeOK, Existing
  <1>6. TypeOK'
    <2>1. \A k \in Handlers : req'[k].id <= made'
      BY <1>1, <1>2, <1>3 DEF IInv, TypeOK
    <2>2. \A j \in Existing' : j \in Ids /\ shares'[j] = shares[j] /\ j \in Existing
      BY <1>5 DEF Existing
    <2>3. QED
      BY <1>2, <1>3, <1>5, <2>1, <2>2 DEF IInv, TypeOK
  <1>7. RowsEvolve
    BY <1>3, <1>4, <1>5, RegistryAssumption DEF RowsEvolve, IInv, TypeOK, Ids
  <1>8. Creating' = Creating
    BY <1>2 DEF Creating, Remove
  <1>9. made' + Cardinality(Creating') <= MaxShares
    BY <1>3, <1>8 DEF IInv
  <1>10. \A j \in Existing' : shares'[j].data["allowed"] => j \in ever'
    BY <1>3, <1>5 DEF IInv, Existing
  <1>11. Sound(h)'
    BY <1>1, <1>2, <1>5 DEF Sound, CreateSound, UpdateSound, DeleteSound, Creating
  <1>12. QED
    BY <1>2, <1>3, <1>6, <1>7, <1>9, <1>10, <1>11, StepOf

-----------------------------------------------------------------------------
(* The theorems.                                                            *)

LEMMA InitInvariant == Init => IInv
  <1> SUFFICES ASSUME Init PROVE IInv
    OBVIOUS
  <1>1. Existing = {}
    BY DEF Init, Existing
  <1>2. \A h \in Handlers : req[h] = Fresh
    BY DEF Init
  <1>3. \A h \in Handlers : req[h] \in Request /\ req[h].id = 0 /\ req[h].op = "none"
                            /\ req[h].pc = "ok"
    BY <1>2, FreshIsRequest DEF Fresh
  <1>4. Creating = {}
    BY <1>3 DEF Creating
  <1>5. made + Cardinality(Creating) <= MaxShares
    BY <1>4, FS_EmptySet, RegistryAssumption DEF Init
  <1>6. req \in [Handlers -> Request]
    BY <1>3 DEF Init
  <1>7. TypeOK
    BY <1>1, <1>3, <1>6, RegistryAssumption DEF Init, TypeOK
  <1>8. \A h \in Handlers : CreateSound(h) /\ UpdateSound(h) /\ DeleteSound(h)
    BY <1>3, <1>4 DEF CreateSound, UpdateSound, DeleteSound
  <1>9. QED
    BY <1>1, <1>5, <1>7, <1>8 DEF IInv

LEMMA StepInvariant == IInv /\ [Next]_vars => IInv'
  <1> SUFFICES ASSUME IInv, [Next]_vars PROVE IInv'
    OBVIOUS
  <1>1. ASSUME NEW h \in Handlers,
               \/ BeginCreate(h) \/ FindUser(h) \/ AddUser(h) \/ Insert(h) \/ Refresh(h)
        PROVE  IInv'
    BY <1>1, BeginCreateStep, FindUserStep, AddUserStep, InsertStep, RefreshStep
  <1>2. ASSUME NEW h \in Handlers, BeginUpdate(h) \/ Select(h) \/ Write(h) \/ WriteFails(h)
        PROVE  IInv'
    <2>1. CASE WriteFails(h)
      BY <2>1, RefusingStep DEF WriteFails, Answers
    <2>2. QED
      BY <1>2, <2>1, BeginUpdateStep, SelectStep, WriteStep
  <1>3. ASSUME NEW h \in Handlers, BeginDelete(h) \/ FindToDelete(h) \/ Remove(h)
        PROVE  IInv'
    BY <1>3, BeginDeleteStep, FindToDeleteStep, RemoveStep
  <1>4. CASE UNCHANGED vars
    <2>1. TypeOK'
      BY <1>4 DEF IInv, TypeOK, vars, Existing
    <2>2. Creating' = Creating /\ Existing' = Existing
      BY <1>4 DEF vars, Creating, Existing
    <2>3. \A h \in Handlers : (CreateSound(h) /\ UpdateSound(h) /\ DeleteSound(h))'
      BY <1>4, <2>2 DEF IInv, vars, CreateSound, UpdateSound, DeleteSound
    <2>4. QED
      BY <1>4, <2>1, <2>2, <2>3 DEF IInv, vars
  <1>5. QED
    BY <1>1, <1>2, <1>3, <1>4 DEF Next

\* The inductive invariant: the types, names that are unique whoever owns the
\* shares, and what each request knows of its row.
THEOREM RegistryInvariance == Spec => []IInv
  BY InitInvariant, StepInvariant, PTL DEF Spec

\* Names are unique in the table and every owner has a row, whatever creations,
\* updates and removals go on at once (create_share, models.py).
THEOREM RegistryTypes == Spec => []TypeOK
  <1>1. IInv => TypeOK
    BY DEF IInv
  <1>2. QED
    BY <1>1, RegistryInvariance, PTL

\* What a delete has removed stays removed (delete_share): an update that read
\* the row before writes an existing row only, and an identifier is not reused.
THEOREM RemovedForGood == Spec => []DeletedStaysDeleted
  <1>1. IInv => DeletedStaysDeleted
    BY DEF IInv, DeleteSound, DeletedStaysDeleted
  <1>2. QED
    BY <1>1, RegistryInvariance, PTL

\* Every field that an acknowledged API update sets had that value in the table
\* between the request's first look and its answer (update_share), for any number
\* of other updates of the row, although an UPDATE names only the fields that
\* differed when the row was read.
THEOREM UpdatesAreHeld == Spec => []AcknowledgedFieldsHeld
  <1>1. IInv => AcknowledgedFieldsHeld
    BY DEF IInv, UpdateSound, AcknowledgedFieldsHeld
  <1>2. QED
    BY <1>1, RegistryInvariance, PTL

\* Only an update or a removal touches a row that there is.
LEMMA OnlyWritersWrite ==
  ASSUME IInv, Next, NEW i \in Existing, shares'[i] # shares[i]
  PROVE  \E h \in Handlers : req[h].id = i /\ (Write(h) \/ Remove(h))
  <1>1. ASSUME NEW h \in Handlers, Insert(h)
        PROVE  FALSE
    <2>1. CASE Created(h)
      <3>1. made \in Nat /\ i <= made /\ i \in Ids
        BY DEF IInv, TypeOK, Existing
      <3>2. i # made + 1
        BY <3>1 DEF Ids
      <3>3. QED
        BY <2>1, <3>1, <3>2 DEF Created, IInv, TypeOK
    <2>2. QED
      BY <1>1, <2>1 DEF Insert
  <1>2. ASSUME NEW h \in Handlers,
               \/ BeginCreate(h) \/ FindUser(h) \/ AddUser(h) \/ Refresh(h) \/ BeginUpdate(h)
               \/ Select(h) \/ WriteFails(h) \/ BeginDelete(h) \/ FindToDelete(h)
        PROVE  FALSE
    BY <1>2 DEF BeginCreate, FindUser, AddUser, Refresh, BeginUpdate, Select, WriteFails,
                BeginDelete, FindToDelete
  <1>3. ASSUME NEW h \in Handlers, Write(h) \/ Remove(h)
        PROVE  req[h].id = i
    <2>1. \E row : shares' = [shares EXCEPT ![req[h].id] = row]
      BY <1>3, WrittenRow DEF Remove
    <2>2. QED
      BY <2>1 DEF IInv, TypeOK, Existing
  <1>4. QED
    BY <1>1, <1>2, <1>3 DEF Next

\* A row is changed or removed only by a request of its owner, or changed by the
\* form of a user whom the row allowed at some time since it was created
\* (update_share_endpoint, edit_share_submit, delete_share), whatever was removed
\* and created anew under the name in the meantime.
THEOREM OnlyRightfulWrites == Spec => WritesByRight
  <1> DEFINE Rightful ==
        \A i \in Existing :
          shares'[i] # shares[i] =>
            \E h \in Handlers :
               /\ req'[h] # req[h]
               /\ \/ req[h].user = shares[i].owner
                  \/ /\ req[h].via = "ui" /\ req[h].op = "update" /\ shares'[i] # None
                     /\ i \in ever
  <1>1. ASSUME IInv, Next PROVE Rightful
    <2> SUFFICES ASSUME NEW i \in Existing, shares'[i] # shares[i]
                 PROVE  \E h \in Handlers :
                          /\ req'[h] # req[h]
                          /\ \/ req[h].user = shares[i].owner
                             \/ /\ req[h].via = "ui" /\ req[h].op = "update"
                                /\ shares'[i] # None /\ i \in ever
      OBVIOUS
    <2>1. PICK h \in Handlers : req[h].id = i /\ (Write(h) \/ Remove(h))
      BY <1>1, OnlyWritersWrite
    <2>2. i \in Ids /\ shares[i] # None
      BY DEF Existing
    <2>3. CASE Write(h)
      <3>1. req'[h].pc = "refresh" /\ req[h].pc = "write"
        BY <1>1, <2>3, WrittenRow, GoesOn DEF Put, IInv, Write
      <3>2. shares'[i] # None
        BY <1>1, <2>1, <2>2, <2>3, WrittenRow DEF IInv, TypeOK
      <3>3. req[h].op = "update"
        BY <1>1, <2>3, WrittenRow
      <3>4. req[h].user = shares[i].owner \/ (req[h].via = "ui" /\ i \in ever)
        BY <1>1, <2>1, <2>2, <3>1 DEF IInv, UpdateSound
      <3>5. QED
        BY <3>1, <3>2, <3>3, <3>4
    <2>4. CASE Remove(h)
      <3>1. req'[h].pc = "ok" /\ req[h].pc = "remove"
        BY <1>1, <2>4, Succeeds DEF Remove, IInv
      <3>2. req[h].user = shares[i].owner
        BY <1>1, <2>1, <2>2, <3>1 DEF IInv, DeleteSound
      <3>3. QED
        BY <3>1, <3>2
    <2>5. QED
      BY <2>1, <2>3, <2>4
  <1>2. IInv /\ [Next]_vars => [Rightful]_vars
    BY <1>1
  <1>3. QED
    BY <1>2, RegistryInvariance, PTL DEF Spec, WritesByRight

\* Whoever writes a row changes no field but those for which the request had sent
\* another value than it found, and to that value (update_share): an update of other
\* fields in the meantime survives.
THEOREM OnlyAskedFieldsChange == Spec => ChangesOnlyWhatWasAsked
  <1> DEFINE Asked ==
        \A i \in Existing :
          shares'[i] \notin {None, shares[i]} =>
             /\ shares'[i].name = shares[i].name /\ shares'[i].owner = shares[i].owner
             /\ \E h \in Handlers :
                  /\ req'[h] # req[h]
                  /\ \A f \in Fields :
                       shares'[i].data[f] # shares[i].data[f] =>
                          f \in DOMAIN req[h].asked /\ shares'[i].data[f] = req[h].asked[f]
  <1>1. ASSUME IInv, Next PROVE Asked
    <2> SUFFICES ASSUME NEW i \in Existing, shares'[i] # None, shares'[i] # shares[i]
                 PROVE  /\ shares'[i].name = shares[i].name /\ shares'[i].owner = shares[i].owner
                        /\ \E h \in Handlers :
                             /\ req'[h] # req[h]
                             /\ \A f \in Fields :
                                  shares'[i].data[f] # shares[i].data[f] =>
                                     /\ f \in DOMAIN req[h].asked
                                     /\ shares'[i].data[f] = req[h].asked[f]
      OBVIOUS
    <2>1. PICK h \in Handlers : req[h].id = i /\ (Write(h) \/ Remove(h))
      BY <1>1, OnlyWritersWrite
    <2>2. i \in Ids /\ shares[i] \in Rows
      BY <1>1 DEF Existing, IInv, TypeOK
    <2>3. Write(h)
      <3>1. ASSUME Remove(h) PROVE shares'[i] = None
        <4>1. shares' = [shares EXCEPT ![i] = None]
          BY <2>1, <3>1 DEF Remove
        <4>2. shares \in [Ids -> Rows \cup {None}]
          BY <1>1 DEF IInv, TypeOK
        <4>3. QED
          BY <2>2, <4>1, <4>2
      <3>2. QED
        BY <2>1, <3>1
    <2>4. shares'[i] = Written(h)
      BY <1>1, <2>1, <2>2, <2>3, WrittenRow DEF IInv, TypeOK
    <2>5. shares'[i].name = shares[i].name /\ shares'[i].owner = shares[i].owner
      BY <1>1, <2>1, <2>3, <2>4, WrittenRow
    <2>6. req'[h].pc = "refresh" /\ req[h].pc = "write"
      BY <1>1, <2>3, WrittenRow, GoesOn DEF Put, IInv, Write
    <2>7. req[h].asked = req[h].sets
      BY <1>1, <2>6 DEF IInv, UpdateSound
    <2>8. ASSUME NEW f \in Fields, shares'[i].data[f] # shares[i].data[f]
          PROVE  f \in DOMAIN req[h].sets /\ shares'[i].data[f] = req[h].sets[f]
      <3>1. Written(h).data = Over(shares[i].data, req[h].sets)
        BY <2>1, <2>2 DEF Written, Rows
      <3>2. f \in DOMAIN req[h].sets
        BY <2>4, <2>8, <3>1 DEF Over
      <3>3. QED
        BY <1>1, <2>3, <2>4, <3>2, WrittenRow
    <2>9. QED
      BY <2>5, <2>6, <2>7, <2>8
  <1>2. IInv /\ [Next]_vars => [Asked]_vars
    BY <1>1
  <1>3. QED
    BY <1>2, RegistryInvariance, PTL DEF Spec, ChangesOnlyWhatWasAsked
=============================================================================
