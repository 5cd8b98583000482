---------------------------- MODULE AccessProofs ----------------------------
(***************************************************************************)
(* Theorems of Access, for any threads, passwords, tokens, settings, time  *)
(* to live and clock: a cached success is never older than the time to     *)
(* live, and nobody is turned away without a reason.                       *)
(***************************************************************************)
EXTENDS Access, TLAPS

-----------------------------------------------------------------------------
(* Requests.                                                                *)

Pcs == {"idle", "read", "expired", "session", "load", "verify", "save",
        "accepted", "refused", "failed"}

\* A step of one thread, which changes some fields of its request.
LEMMA AuthFields ==
  ASSUME TypeOK, NEW t \in Threads, NEW pc \in Pcs, NEW f, Auth(t, pc, f)
  PROVE  /\ DOMAIN auth'[t] = DOMAIN auth[t]
         /\ auth'[t].pc = pc
         /\ \A k \in DOMAIN auth[t] \ {"pc"} :
              auth'[t][k] = IF k \in DOMAIN f THEN f[k] ELSE auth[t][k]
         /\ DOMAIN auth' = Threads
         /\ \A u \in Threads : u # t => auth'[u] = auth[u]
  <1>1. DOMAIN auth = Threads /\ auth[t] \in Request
    BY DEF TypeOK
  <1>2. "pc" \in DOMAIN auth[t]
    BY <1>1 DEF Request
  <1>3. auth'[t] = [k \in DOMAIN auth[t] |-> IF k = "pc" THEN pc
                                             ELSE IF k \in DOMAIN f THEN f[k] ELSE auth[t][k]]
    BY <1>1 DEF Auth
  <1>4. QED
    BY <1>1, <1>2, <1>3 DEF Auth

LEMMA RequestFields ==
  ASSUME NEW r
  PROVE  r \in Request <=>
           /\ r = [k \in {"pc", "sent", "now", "db", "token", "same", "missed"} |-> r[k]]
           /\ r.pc \in Pcs /\ r.sent \in Credentials \cup {None} /\ r.now \in 0..MaxTime
           /\ r.db \in Tokens \cup {None} /\ r.token \in Tokens \cup {None}
           /\ r.same \in BOOLEAN /\ r.missed \in SUBSET {"database", "server"}
  BY DEF Request, Pcs

\* What the fields of a typed request are after a step that leaves what was sent,
\* the clock that was read and the history alone.
LEMMA AuthGoes ==
  ASSUME TypeOK, NEW t \in Threads, NEW pc \in Pcs, NEW f, Auth(t, pc, f),
         DOMAIN f \subseteq {"token", "db", "missed"},
         "token" \in DOMAIN f => f["token"] \in Tokens \cup {None},
         "db" \in DOMAIN f => f["db"] \in Tokens \cup {None},
         "missed" \in DOMAIN f => f["missed"] \in SUBSET {"database", "server"}
  PROVE  /\ auth' \in [Threads -> Request]
         /\ \A u \in Threads : u # t => auth'[u] = auth[u]
         /\ auth'[t].pc = pc /\ auth'[t].sent = auth[t].sent /\ auth'[t].now = auth[t].now
         /\ auth'[t].same = auth[t].same
         /\ auth'[t].token = IF "token" \in DOMAIN f THEN f["token"] ELSE auth[t].token
         /\ auth'[t].db = IF "db" \in DOMAIN f THEN f["db"] ELSE auth[t].db
         /\ auth'[t].missed = IF "missed" \in DOMAIN f THEN f["missed"] ELSE auth[t].missed
  <1>1. auth[t] \in Request
    BY DEF TypeOK
  <1>2. DOMAIN auth[t] = {"pc", "sent", "now", "db", "token", "same", "missed"}
    BY <1>1 DEF Request
  <1>3. /\ auth'[t].pc = pc /\ auth'[t].sent = auth[t].sent /\ auth'[t].now = auth[t].now
        /\ auth'[t].same = auth[t].same
        /\ auth'[t].token = IF "token" \in DOMAIN f THEN f["token"] ELSE auth[t].token
        /\ auth'[t].db = IF "db" \in DOMAIN f THEN f["db"] ELSE auth[t].db
        /\ auth'[t].missed = IF "missed" \in DOMAIN f THEN f["missed"] ELSE auth[t].missed
    BY <1>2, AuthFields
  <1>4. auth'[t] = [k \in {"pc", "sent", "now", "db", "token", "same", "missed"} |-> auth'[t][k]]
    <2>1. auth'[t] = [k \in DOMAIN auth[t] |-> IF k = "pc" THEN pc
                                               ELSE IF k \in DOMAIN f THEN f[k] ELSE auth[t][k]]
      BY DEF Auth, TypeOK
    <2>2. QED
      BY <1>2, <2>1
  <1>5. /\ auth[t].sent \in Credentials \cup {None} /\ auth[t].now \in 0..MaxTime
        /\ auth[t].token \in Tokens \cup {None} /\ auth[t].db \in Tokens \cup {None}
        /\ auth[t].same \in BOOLEAN
        /\ auth[t].missed \in SUBSET {"database", "server"}
    BY <1>1, RequestFields
  <1>6. auth'[t] \in Request
    BY <1>3, <1>4, <1>5, RequestFields
  <1>7. \A u \in Threads : u # t => auth'[u] = auth[u]
    BY AuthFields
  <1>8. auth' \in [Threads -> Request]
    BY <1>6, <1>7 DEF TypeOK, Auth
  <1>9. QED
    BY <1>3, <1>7, <1>8

-----------------------------------------------------------------------------
(* Steps of a thread.                                                       *)

Accepted(t) == auth[t].pc = "accepted" => /\ until[auth[t].sent] + TTL > auth[t].now
                                          /\ until[auth[t].token] + TTL > auth[t].now
Reason(t) == auth[t].pc = "refused" /\ auth[t].same /\ Right(auth[t].sent)
               => auth[t].missed \cap Needed(auth[t].sent) # {}

Sound(t) == AuthSound(t) /\ Accepted(t) /\ Reason(t)

Typed(t) == /\ auth[t].now <= clock
            /\ auth[t].pc # "idle" => auth[t].sent \in Credentials
            /\ auth[t].pc \in {"save", "accepted"} => auth[t].token \in Tokens

World == <<mode, keyed, clock, password, stored, until>>

LEMMA KeepsSound ==
  ASSUME IInv, NEW u \in Threads, UNCHANGED World, auth'[u] = auth[u]
  PROVE  Sound(u)' /\ Typed(u)'
  <1>1. Sound(u) /\ Typed(u)
    BY DEF IInv, TypeOK, Sound, Accepted, Reason, Typed, AcceptedWasValidLately, RefusedForAReason
  <1>2. QED
    BY <1>1 DEF World, Sound, Typed, AuthSound, Accepted, Reason, Right, Needed

LEMMA ThreadStepOf ==
  ASSUME IInv, NEW t \in Threads, UNCHANGED World, engine' \in {"none", "made", "ready"},
         auth' \in [Threads -> Request], \A u \in Threads : u # t => auth'[u] = auth[u],
         cache' \in [Credentials -> [token : Tokens, expiry : Nat] \cup {None}],
         \A c \in Credentials : cache'[c] # None => cache'[c].expiry \in TTL..(clock + TTL),
         CacheSound', Typed(t)', Sound(t)'
  PROVE  IInv'
  <1>1. ASSUME NEW u \in Threads PROVE Sound(u)' /\ Typed(u)'
    BY KeepsSound
  <1>2. TypeOK'
    BY <1>1 DEF IInv, TypeOK, World, Typed
  <1>3. QED
    BY <1>1, <1>2 DEF IInv, World, Sound, Accepted, Reason, AcceptedWasValidLately,
                      RefusedForAReason

\* The cache is left alone.
LEMMA PlainStepOf ==
  ASSUME IInv, NEW t \in Threads, UNCHANGED World, UNCHANGED cache,
         engine' \in {"none", "made", "ready"},
         auth' \in [Threads -> Request], \A u \in Threads : u # t => auth'[u] = auth[u],
         Typed(t)', Sound(t)'
  PROVE  IInv'
  <1>1. CacheSound'
    BY DEF IInv, CacheSound, World
  <1>2. QED
    BY <1>1, ThreadStepOf DEF IInv, TypeOK

LEMMA Bounds ==
  ASSUME TypeOK
  PROVE  /\ TTL \in Nat \ {0} /\ MaxTime \in Nat /\ MaxTime >= TTL
         /\ Never \in Nat /\ Never = MaxTime + TTL + 1
         /\ clock \in Nat /\ clock <= MaxTime /\ clock >= TTL
         /\ \A c \in Credentials : until[c] \in Nat
         /\ \A t \in Threads : auth[t].now \in Nat
         /\ Tokens \subseteq Credentials /\ Passwords \subseteq Credentials
         /\ None \notin Tokens /\ None \notin Credentials
         /\ mode \in {"paperless", "ldap", "token"}
  BY AccessAssumption DEF TypeOK, Never, Request, Credentials

LEMMA FreshIsRequest ==
  /\ Fresh \in Request /\ Fresh.db = None /\ Fresh.same = TRUE /\ Fresh.missed = {}
  /\ Fresh.pc = "idle" /\ Fresh.now = 0
  <1>1. 0 \in 0..MaxTime
    BY AccessAssumption
  <1>2. QED
    BY <1>1 DEF Fresh, Request

LEMMA BeginStep ==
  ASSUME IInv, NEW t \in Threads, Begin(t)
  PROVE  IInv'
  <1>1. PICK c \in Credentials :
          auth' = [auth EXCEPT ![t] = [Fresh EXCEPT !.sent = c, !.now = clock,
                                                    !.pc = IF cache[c] # None THEN "read" ELSE Load]]
    BY DEF Begin
  <1> DEFINE pc == IF cache[c] # None THEN "read" ELSE Load
             r == [Fresh EXCEPT !.sent = c, !.now = clock, !.pc = pc]
  <1>2. pc \in {"read", "verify", "session"} /\ (pc = "verify" => mode = "paperless")
    BY DEF Load
  <1>3. clock \in 0..MaxTime
    BY Bounds DEF IInv
  <1>4. auth' = [auth EXCEPT ![t] = r]
    BY <1>1
  <1> HIDE DEF pc
  <1>5. /\ r \in Request /\ r.sent = c /\ r.now = clock /\ r.pc = pc /\ r.db = None
    BY <1>2, <1>3, FreshIsRequest DEF Request
  <1> HIDE DEF r
  <1>6. /\ auth' \in [Threads -> Request] /\ auth'[t] = r
        /\ \A u \in Threads : u # t => auth'[u] = auth[u]
    BY <1>4, <1>5 DEF IInv, TypeOK
  <1>7. UNCHANGED World /\ UNCHANGED <<cache, engine>>
    BY DEF Begin, World
  <1>8. Typed(t)'
    BY <1>2, <1>3, <1>5, <1>6, <1>7, Bounds DEF Typed, World, IInv
  <1>9. Sound(t)'
    BY <1>2, <1>5, <1>6, <1>7 DEF Sound, AuthSound, Accepted, Reason, World
  <1>10. QED
    BY <1>6, <1>7, <1>8, <1>9, PlainStepOf DEF IInv, TypeOK

\* A cached success: the time to live has not passed since the request that was
\* verified began.
LEMMA HitStep ==
  ASSUME IInv, NEW t \in Threads, Hit(t)
  PROVE  IInv'
  <1> DEFINE c == auth[t].sent
             f == [token |-> cache[c].token]
  <1>1. /\ c \in Credentials /\ cache[c] # None /\ auth[t].now < cache[c].expiry
        /\ cache[c].token \in Tokens /\ cache[c].expiry \in Nat
    BY DEF Hit, Entry, IInv, TypeOK
  <1>2. Auth(t, "accepted", f)
    BY DEF Hit, Entry
  <1>3. DOMAIN f = {"token"} /\ f["token"] = cache[c].token
    OBVIOUS
  <1> HIDE DEF f
  <1>4. /\ auth' \in [Threads -> Request]
        /\ \A u \in Threads : u # t => auth'[u] = auth[u]
        /\ auth'[t].pc = "accepted" /\ auth'[t].sent = c /\ auth'[t].now = auth[t].now
        /\ auth'[t].token = cache[c].token /\ auth'[t].db = auth[t].db
    BY <1>1, <1>2, <1>3, AuthGoes DEF Pcs, IInv
  <1>5. UNCHANGED World /\ UNCHANGED <<cache, engine>>
    BY DEF Hit, World
  <1>6. Typed(t)'
    BY <1>1, <1>4, <1>5 DEF Typed, World, IInv, TypeOK
  <1>7. until[c] + TTL > auth[t].now /\ until[cache[c].token] + TTL > auth[t].now
    <2>1. until[c] + TTL >= cache[c].expiry /\ until[cache[c].token] + TTL >= cache[c].expiry
      BY <1>1 DEF IInv, CacheSound
    <2>2. until[c] \in Nat /\ until[cache[c].token] \in Nat /\ auth[t].now \in Nat /\ TTL \in Nat
      BY <1>1, Bounds DEF IInv
    <2>3. QED
      BY <1>1, <2>1, <2>2
  <1>8. AuthSound(t)' /\ Reason(t)'
    BY <1>4, <1>5 DEF AuthSound, Reason, World, IInv
  <1>9. Accepted(t)'
    BY <1>4, <1>5, <1>7 DEF Accepted, World
  <1>10. QED
    BY <1>4, <1>5, <1>6, <1>8, <1>9, PlainStepOf DEF IInv, TypeOK, Sound

\* A step that only goes on, or gives up: nothing has been verified.
LEMMA OnwardStep ==
  ASSUME IInv, NEW t \in Threads, NEW pc \in Pcs \ {"idle", "save", "accepted", "refused"},
         Auth(t, pc, <<>>), auth[t].pc # "idle", UNCHANGED World,
         pc = "verify" => mode = "paperless", engine' \in {"none", "made", "ready"},
         cache' \in [Credentials -> [token : Tokens, expiry : Nat] \cup {None}],
         \A c \in Credentials : cache'[c] # None => cache'[c] = cache[c]
  PROVE  IInv'
  <1>1. /\ auth' \in [Threads -> Request]
        /\ \A u \in Threads : u # t => auth'[u] = auth[u]
        /\ auth'[t].pc = pc /\ auth'[t].sent = auth[t].sent /\ auth'[t].now = auth[t].now
        /\ auth'[t].db = auth[t].db
    BY AuthGoes DEF IInv
  <1>2. Typed(t)'
    BY <1>1 DEF Typed, World, IInv, TypeOK
  <1>3. Sound(t)'
    BY <1>1 DEF Sound, AuthSound, Accepted, Reason, World, IInv
  <1>4. CacheSound' /\ \A c \in Credentials : cache'[c] # None => cache'[c].expiry \in TTL..(clock + TTL)
    BY DEF CacheSound, IInv, TypeOK, World
  <1>5. QED
    BY <1>1, <1>2, <1>3, <1>4, ThreadStepOf

LEMMA OnwardSteps ==
  ASSUME IInv, NEW t \in Threads,
         Expired(t) \/ Delete(t) \/ KeyError(t) \/ MakeEngine(t)
         \/ (HasEngine(t) /\ engine = "ready")
  PROVE  IInv'
  <1>1. CASE Expired(t) \/ KeyError(t)
    BY <1>1, OnwardStep DEF Expired, KeyError, World, IInv, TypeOK, Pcs
  <1>2. CASE Delete(t)
    <2>1. Load \in Pcs \ {"idle", "save", "accepted", "refused"} /\ (Load = "verify" => mode = "paperless")
      BY DEF Load, Pcs
    <2>2. /\ Auth(t, Load, <<>>) /\ auth[t].pc # "idle" /\ UNCHANGED World /\ engine' = engine
          /\ cache' = [cache EXCEPT ![auth[t].sent] = None]
      BY <1>2 DEF Delete, World
    <2>3. QED
      BY <2>1, <2>2, OnwardStep DEF IInv, TypeOK
  <1>3. CASE MakeEngine(t)
    BY <1>3, OnwardStep DEF MakeEngine, World, IInv, TypeOK, Pcs
  <1>4. CASE HasEngine(t) /\ engine = "ready"
    BY <1>4, OnwardStep DEF HasEngine, World, IInv, TypeOK, Pcs
  <1>5. QED
    BY <1>1, <1>2, <1>3, <1>4

\* A thread that cannot have the token goes on without it, and says so.
LEMMA WithoutTokenStep ==
  ASSUME IInv, NEW t \in Threads, WithoutToken(t), auth[t].pc # "idle",
         UNCHANGED World, UNCHANGED cache, engine' \in {"none", "made", "ready"}
  PROVE  IInv'
  <1> DEFINE missed == auth[t].missed \cup {"database"}
             f == [missed |-> missed]
  <1>1. Auth(t, "verify", f)
    BY DEF WithoutToken
  <1>2. missed \in SUBSET {"database", "server"} /\ "database" \in missed
    BY RequestFields DEF IInv, TypeOK
  <1> HIDE DEF missed
  <1>3. DOMAIN f = {"missed"} /\ f["missed"] = missed
    OBVIOUS
  <1> HIDE DEF f
  <1>4. /\ auth' \in [Threads -> Request]
        /\ \A u \in Threads : u # t => auth'[u] = auth[u]
        /\ auth'[t].pc = "verify" /\ auth'[t].sent = auth[t].sent /\ auth'[t].now = auth[t].now
        /\ auth'[t].db = auth[t].db /\ auth'[t].missed = missed
    BY <1>1, <1>2, <1>3, AuthGoes DEF Pcs, IInv
  <1>5. Typed(t)'
    BY <1>4 DEF Typed, World, IInv, TypeOK
  <1>6. Sound(t)'
    BY <1>2, <1>4 DEF Sound, AuthSound, Accepted, Reason, World, IInv
  <1>7. QED
    BY <1>4, <1>5, <1>6, PlainStepOf

LEMMA MissedSteps ==
  ASSUME IInv, NEW t \in Threads,
         \/ NoKey(t)
         \/ HasEngine(t) /\ engine # "ready"
         \/ LoadToken(t) /\ WithoutToken(t)
  PROVE  IInv'
  <1>1. /\ WithoutToken(t) /\ auth[t].pc # "idle" /\ UNCHANGED World /\ UNCHANGED cache
        /\ engine' = engine \/ engine' = "ready"
    BY DEF NoKey, HasEngine, LoadToken, World
  <1>2. engine' \in {"none", "made", "ready"}
    BY <1>1 DEF IInv, TypeOK
  <1>3. QED
    BY <1>1, <1>2, WithoutTokenStep

LEMMA LoadTokenStep ==
  ASSUME IInv, NEW t \in Threads, LoadToken(t), ~WithoutToken(t)
  PROVE  IInv'
  <1> DEFINE f == [db |-> stored]
  <1>1. Auth(t, "verify", f) /\ auth[t].pc = "load" /\ stored \in Tokens \cup {None}
    BY DEF LoadToken, IInv, TypeOK
  <1>2. DOMAIN f = {"db"} /\ f["db"] = stored
    OBVIOUS
  <1> HIDE DEF f
  <1>3. /\ auth' \in [Threads -> Request]
        /\ \A u \in Threads : u # t => auth'[u] = auth[u]
        /\ auth'[t].pc = "verify" /\ auth'[t].sent = auth[t].sent /\ auth'[t].now = auth[t].now
        /\ auth'[t].db = stored
    BY <1>1, <1>2, AuthGoes DEF Pcs, IInv
  <1>4. UNCHANGED World /\ UNCHANGED cache /\ engine' = "ready"
    BY DEF LoadToken, World
  <1>5. Typed(t)'
    BY <1>1, <1>3, <1>4 DEF Typed, World, IInv, TypeOK
  <1>6. stored # None => until[stored] >= auth[t].now
    BY Bounds DEF IInv, TypeOK
  <1>7. Sound(t)'
    BY <1>3, <1>4, <1>6 DEF Sound, AuthSound, Accepted, Reason, World
  <1>8. QED
    BY <1>3, <1>4, <1>5, <1>7, PlainStepOf

\* What is granted is valid at the moment, or was when the token was loaded.
LEMMA GrantedIsValid ==
  ASSUME IInv, NEW t \in Threads, auth[t].pc = "verify", NEW reachable \in BOOLEAN,
         Granted(t, reachable) # None
  PROVE  /\ Granted(t, reachable) \in Tokens
         /\ until[Granted(t, reachable)] >= auth[t].now
         /\ until[auth[t].sent] >= auth[t].now
  <1>1. /\ stored \in Tokens \cup {None} /\ auth[t].db \in Tokens \cup {None}
        /\ auth[t].now \in Nat /\ auth[t].now <= Never
        /\ until[password] = Never /\ (stored # None => until[stored] = Never)
        /\ auth[t].db # None => until[auth[t].db] >= auth[t].now
    BY Bounds DEF IInv, TypeOK, Request, AuthSound
  <1>2. CASE Confirmed(t, reachable) /\ mode = "paperless"
    <2>1. Granted(t, reachable) = stored
      BY <1>2 DEF Granted
    <2>2. QED
      BY <1>1, <1>2, <2>1, Bounds DEF Confirmed, IInv
  <1>3. CASE Confirmed(t, reachable) /\ mode = "ldap"
    <2>1. Granted(t, reachable) = auth[t].db
      BY <1>3 DEF Granted
    <2>2. QED
      BY <1>1, <1>3, <2>1, Bounds DEF Confirmed, IInv
  <1>4. CASE ~(Confirmed(t, reachable) /\ mode = "paperless")
             /\ ~(Confirmed(t, reachable) /\ mode = "ldap")
    <2>1. SentToken(t) /\ Granted(t, reachable) = auth[t].db
      BY <1>4 DEF Granted
    <2>2. QED
      BY <1>1, <2>1 DEF SentToken
  <1>5. QED
    BY <1>2, <1>3, <1>4

\* Who is granted nothing, although whoever it takes could be asked, did not send
\* what is right.
LEMMA NothingGranted ==
  ASSUME IInv, NEW t \in Threads, auth[t].pc = "verify", NEW reachable \in BOOLEAN,
         Granted(t, reachable) = None, auth[t].same, Right(auth[t].sent),
         "server" \in Needed(auth[t].sent) => reachable
  PROVE  "database" \in auth[t].missed /\ "database" \in Needed(auth[t].sent)
  <1>1. mode # "paperless" => "database" \in auth[t].missed \/ auth[t].db = stored
    BY DEF IInv, AuthSound
  <1>2. mode \in {"paperless", "ldap", "token"}
    BY Bounds DEF IInv
  <1>3. stored # None
    BY DEF Right
  <1>4. CASE mode = "paperless"
    <2>1. auth[t].sent = password
      BY <1>4 DEF Right
    <2>2. reachable
      BY <1>4 DEF Needed
    <2>3. Granted(t, reachable) = stored
      BY <1>4, <2>1, <2>2 DEF Granted, Confirmed
    <2>4. QED
      BY <1>3, <2>3
  <1>5. CASE mode = "ldap" /\ auth[t].sent = password
    <2>1. Needed(auth[t].sent) = {"server", "database"}
      BY <1>5 DEF Needed
    <2>2. Granted(t, reachable) = auth[t].db
      BY <1>5, <2>1 DEF Granted, Confirmed
    <2>3. QED
      BY <1>1, <1>3, <1>5, <2>1, <2>2
  <1>6. CASE mode # "paperless" /\ ~(mode = "ldap" /\ auth[t].sent = password)
    <2>1. auth[t].sent = stored
      BY <1>2, <1>6 DEF Right
    <2>2. Needed(auth[t].sent) = {"database"}
      BY <1>6 DEF Needed
    <2>3. ~Confirmed(t, reachable) \/ mode = "token"
      BY <1>2, <1>6 DEF Confirmed
    <2>4. auth[t].db # stored
      <3>1. ASSUME auth[t].db = stored PROVE FALSE
        <4>1. SentToken(t)
          BY <1>3, <2>1, <3>1 DEF SentToken
        <4>2. Granted(t, reachable) = auth[t].db
          BY <1>2, <1>6, <2>3, <4>1 DEF Granted
        <4>3. QED
          BY <1>3, <3>1, <4>2
      <3>2. QED
        BY <3>1
    <2>5. QED
      BY <1>1, <1>6, <2>2, <2>4
  <1>7. QED
    BY <1>4, <1>5, <1>6

LEMMA VerifyStep ==
  ASSUME IInv, NEW t \in Threads, Verify(t)
  PROVE  IInv'
  <1>1. PICK reachable \in BOOLEAN :
          IF Granted(t, reachable) # None
            THEN Auth(t, "save", [token |-> Granted(t, reachable), db |-> None, missed |-> {}])
            ELSE Auth(t, "refused",
                      [missed |-> auth[t].missed \cup IF reachable \/ mode = "token"
                                                        THEN {} ELSE {"server"},
                       db |-> None])
    BY DEF Verify
  <1>2. auth[t].pc = "verify" /\ UNCHANGED World /\ UNCHANGED <<cache, engine>>
    BY DEF Verify, World
  <1>3. CASE Granted(t, reachable) # None
    <2> DEFINE token == Granted(t, reachable)
               f == [token |-> token, db |-> None, missed |-> {}]
    <2>1. Auth(t, "save", f)
      BY <1>1, <1>3
    <2>2. token \in Tokens /\ until[token] >= auth[t].now /\ until[auth[t].sent] >= auth[t].now
      BY <1>2, <1>3, GrantedIsValid
    <2> HIDE DEF token
    <2>3. /\ DOMAIN f = {"token", "db", "missed"} /\ f["token"] = token
          /\ f["db"] = None /\ f["missed"] = {}
      OBVIOUS
    <2> HIDE DEF f
    <2>4. /\ auth' \in [Threads -> Request]
          /\ \A u \in Threads : u # t => auth'[u] = auth[u]
          /\ auth'[t].pc = "save" /\ auth'[t].sent = auth[t].sent /\ auth'[t].now = auth[t].now
          /\ auth'[t].token = token /\ auth'[t].db = None
      BY <2>1, <2>2, <2>3, AuthGoes DEF Pcs, IInv
    <2>5. Typed(t)'
      BY <1>2, <2>2, <2>4 DEF Typed, World, IInv, TypeOK
    <2>6. Sound(t)'
      BY <1>2, <2>2, <2>4 DEF Sound, AuthSound, Accepted, Reason, World
    <2>7. QED
      BY <1>2, <2>4, <2>5, <2>6, PlainStepOf DEF IInv, TypeOK
  <1>4. CASE Granted(t, reachable) = None
    <2> DEFINE server == IF reachable \/ mode = "token" THEN {} ELSE {"server"}
               missed == auth[t].missed \cup server
               f == [missed |-> missed, db |-> None]
    <2>1. Auth(t, "refused", f)
      BY <1>1, <1>4
    <2>2. missed \in SUBSET {"database", "server"}
      BY RequestFields DEF IInv, TypeOK
    <2>3. auth[t].same /\ Right(auth[t].sent) => missed \cap Needed(auth[t].sent) # {}
      <3>1. ASSUME auth[t].same, Right(auth[t].sent)
            PROVE  missed \cap Needed(auth[t].sent) # {}
        <4>1. CASE "server" \in Needed(auth[t].sent) /\ ~reachable
          <5>1. mode # "token"
            BY <4>1 DEF Needed
          <5>2. "server" \in missed
            BY <4>1, <5>1
          <5>3. QED
            BY <4>1, <5>2
        <4>2. CASE "server" \in Needed(auth[t].sent) => reachable
          <5>1. "database" \in auth[t].missed /\ "database" \in Needed(auth[t].sent)
            BY <1>2, <1>4, <3>1, <4>2, NothingGranted
          <5>2. QED
            BY <5>1
        <4>3. QED
          BY <4>1, <4>2
      <3>2. QED
        BY <3>1
    <2> HIDE DEF server
    <2> HIDE DEF missed
    <2>4. DOMAIN f = {"missed", "db"} /\ f["missed"] = missed /\ f["db"] = None
      OBVIOUS
    <2> HIDE DEF f
    <2>5. /\ auth' \in [Threads -> Request]
          /\ \A u \in Threads : u # t => auth'[u] = auth[u]
          /\ auth'[t].pc = "refused" /\ auth'[t].sent = auth[t].sent
          /\ auth'[t].now = auth[t].now /\ auth'[t].same = auth[t].same
          /\ auth'[t].missed = missed /\ auth'[t].db = None
      BY <2>1, <2>2, <2>4, AuthGoes DEF Pcs, IInv
    <2>6. Typed(t)'
      BY <1>2, <2>5 DEF Typed, World, IInv, TypeOK
    <2>7. Reason(t)'
      BY <1>2, <2>3, <2>5 DEF Reason, Right, Needed, World
    <2>8. AuthSound(t)' /\ Accepted(t)'
      BY <2>5 DEF AuthSound, Accepted
    <2>9. QED
      BY <1>2, <2>5, <2>6, <2>7, <2>8, PlainStepOf DEF IInv, TypeOK, Sound
  <1>5. QED
    BY <1>3, <1>4

LEMMA SaveStep ==
  ASSUME IInv, NEW t \in Threads, Save(t)
  PROVE  IInv'
  <1> DEFINE c == auth[t].sent
             entry == [token |-> auth[t].token, expiry |-> auth[t].now + TTL]
  <1>1. /\ c \in Credentials /\ auth[t].token \in Tokens /\ auth[t].now \in Nat
        /\ auth[t].now <= clock
        /\ until[c] >= auth[t].now /\ until[auth[t].token] >= auth[t].now
    BY Bounds DEF Save, IInv, TypeOK, AuthSound
  <1>2. /\ Auth(t, "accepted", <<>>) /\ UNCHANGED World /\ UNCHANGED engine
        /\ cache' = [cache EXCEPT ![c] = entry]
    BY DEF Save, World
  <1>3. /\ entry \in [token : Tokens, expiry : Nat] /\ entry.token = auth[t].token
        /\ entry.expiry = auth[t].now + TTL /\ entry.expiry \in TTL..(clock + TTL)
    BY <1>1, Bounds DEF IInv
  <1> HIDE DEF entry
  <1>4. /\ cache' \in [Credentials -> [token : Tokens, expiry : Nat] \cup {None}]
        /\ cache'[c] = entry /\ \A d \in Credentials : d # c => cache'[d] = cache[d]
    BY <1>1, <1>2, <1>3 DEF IInv, TypeOK
  <1>5. \A d \in Credentials : cache'[d] # None => cache'[d].expiry \in TTL..(clock + TTL)
    BY <1>3, <1>4 DEF IInv, TypeOK
  <1>6. CacheSound'
    <2>1. until[c] \in Nat /\ until[auth[t].token] \in Nat /\ TTL \in Nat
      BY <1>1, Bounds DEF IInv
    <2>2. until[c] + TTL >= entry.expiry /\ until[entry.token] + TTL >= entry.expiry
      BY <1>1, <1>3, <2>1
    <2>3. QED
      BY <1>2, <1>4, <2>2 DEF CacheSound, World, IInv
  <1>7. /\ auth' \in [Threads -> Request]
        /\ \A u \in Threads : u # t => auth'[u] = auth[u]
        /\ auth'[t].pc = "accepted" /\ auth'[t].sent = c /\ auth'[t].now = auth[t].now
        /\ auth'[t].token = auth[t].token /\ auth'[t].db = auth[t].db
    BY <1>2, AuthGoes DEF Pcs, IInv
  <1>8. Typed(t)'
    BY <1>1, <1>2, <1>7 DEF Typed, World, IInv, TypeOK
  <1>9. until[c] + TTL > auth[t].now /\ until[auth[t].token] + TTL > auth[t].now
    <2>1. until[c] \in Nat /\ until[auth[t].token] \in Nat /\ TTL \in Nat \ {0}
      BY <1>1, Bounds DEF IInv
    <2>2. QED
      BY <1>1, <2>1
  <1>10. Accepted(t)'
    BY <1>2, <1>7, <1>9 DEF Accepted, World
  <1>11. AuthSound(t)' /\ Reason(t)'
    BY <1>2, <1>7 DEF AuthSound, Reason, World, IInv
  <1>12. QED
    BY <1>2, <1>4, <1>5, <1>6, <1>7, <1>8, <1>10, <1>11, ThreadStepOf DEF IInv, TypeOK, Sound

-----------------------------------------------------------------------------
(* Time and the world.                                                      *)

LEMMA TickStep ==
  ASSUME IInv, Tick
  PROVE  IInv'
  <1>1. /\ clock' = clock + 1 /\ clock < MaxTime
        /\ UNCHANGED <<mode, keyed, password, stored, until, engine, cache, auth>>
    BY DEF Tick
  <1>2. clock \in Nat /\ MaxTime \in Nat /\ TTL \in Nat
    BY Bounds DEF IInv
  <1>3. clock' \in TTL..MaxTime
    BY <1>1, <1>2, Bounds DEF IInv
  <1>4. \A c \in Credentials : cache[c] # None => cache[c].expiry \in TTL..(clock' + TTL)
    BY <1>1, <1>2 DEF IInv, TypeOK
  <1>5. \A t \in Threads : auth[t].now <= clock'
    BY <1>1, <1>2, Bounds DEF IInv, TypeOK
  <1>6. TypeOK'
    BY <1>1, <1>3, <1>4, <1>5 DEF IInv, TypeOK
  <1>7. QED
    BY <1>1, <1>6 DEF IInv, CacheSound, AuthSound, AcceptedWasValidLately, RefusedForAReason, Right,
              Needed

\* What a replacement leaves valid long enough: nothing becomes invalid before now.
LEMMA Replaced ==
  ASSUME IInv, NEW old, NEW new \in Credentials, Replace(old, new)
  PROVE  /\ until' \in [Credentials -> 0..Never]
         /\ until'[new] = Never
         /\ \A c \in Credentials : c # old => until'[c] >= until[c]
         /\ \A c \in Credentials : until'[c] >= until[c] \/ until'[c] >= clock
         /\ \A c \in Credentials : until'[c] \in Nat
  BY Bounds DEF Replace, IInv, TypeOK

LEMMA ReplaceStep ==
  ASSUME IInv, NEW old, NEW new \in Credentials, Replace(old, new),
         UNCHANGED <<mode, keyed, clock, engine, cache>>,
         password' \in Passwords, stored' \in Tokens \cup {None},
         until'[password'] = Never, stored' # None => until'[stored'] = Never
  PROVE  IInv'
  <1>1. /\ auth' \in [Threads -> Request]
        /\ \A t \in Threads : /\ auth'[t].pc = auth[t].pc /\ auth'[t].sent = auth[t].sent
                              /\ auth'[t].now = auth[t].now /\ auth'[t].db = auth[t].db
                              /\ auth'[t].token = auth[t].token /\ auth'[t].same = FALSE
    <2>1. auth \in [Threads -> Request]
      BY DEF IInv, TypeOK
    <2>2. auth' = [t \in Threads |-> [auth[t] EXCEPT !.same = FALSE]]
      BY DEF Replace
    <2>3. ASSUME NEW r \in Request
          PROVE  /\ [r EXCEPT !.same = FALSE] \in Request
                 /\ [r EXCEPT !.same = FALSE].pc = r.pc
                 /\ [r EXCEPT !.same = FALSE].sent = r.sent
                 /\ [r EXCEPT !.same = FALSE].now = r.now
                 /\ [r EXCEPT !.same = FALSE].db = r.db
                 /\ [r EXCEPT !.same = FALSE].token = r.token
                 /\ [r EXCEPT !.same = FALSE].same = FALSE
      BY DEF Request
    <2>4. QED
      BY <2>1, <2>2, <2>3
  <1>2. until' \in [Credentials -> 0..Never]
    BY Replaced
  <1>3. TypeOK'
    BY <1>1, <1>2 DEF IInv, TypeOK
  <1>4. CacheSound'
    <2> SUFFICES ASSUME NEW c \in Credentials, cache[c] # None
                 PROVE  /\ until'[c] + TTL >= cache[c].expiry
                        /\ until'[cache[c].token] + TTL >= cache[c].expiry
      BY DEF CacheSound
    <2>1. /\ cache[c].token \in Credentials /\ cache[c].expiry \in Nat
          /\ cache[c].expiry <= clock + TTL
          /\ until[c] + TTL >= cache[c].expiry
          /\ until[cache[c].token] + TTL >= cache[c].expiry
      BY Bounds DEF IInv, TypeOK, CacheSound
    <2>2. \A d \in Credentials : until[d] + TTL >= cache[c].expiry
                                   => until'[d] + TTL >= cache[c].expiry
      BY <2>1, Replaced, Bounds DEF IInv
    <2>3. QED
      BY <2>1, <2>2
  <1>5. ASSUME NEW t \in Threads PROVE AuthSound(t)'
    <2>1. auth[t].now \in Nat /\ auth[t].now <= clock
      BY Bounds DEF IInv, TypeOK
    <2>2. \A d \in Credentials : until[d] >= auth[t].now => until'[d] >= auth[t].now
      BY <2>1, Replaced, Bounds DEF IInv
    <2>3. auth[t].db # None => auth[t].db \in Credentials
      BY Bounds DEF IInv, TypeOK, Request
    <2>4. auth[t].pc = "save" => auth[t].sent \in Credentials /\ auth[t].token \in Credentials
      BY Bounds DEF IInv, TypeOK
    <2>5. QED
      BY <1>1, <2>2, <2>3, <2>4 DEF AuthSound, IInv
  <1>6. ASSUME NEW t \in Threads PROVE Accepted(t)'
    <2>1. auth[t].now \in Nat /\ auth[t].now <= clock
      BY Bounds DEF IInv, TypeOK
    <2>2. \A d \in Credentials : until[d] + TTL > auth[t].now => until'[d] + TTL > auth[t].now
      BY <2>1, Replaced, Bounds DEF IInv
    <2>3. auth[t].pc = "accepted" => auth[t].sent \in Credentials /\ auth[t].token \in Credentials
      BY Bounds DEF IInv, TypeOK
    <2>4. QED
      BY <1>1, <2>2, <2>3 DEF Accepted, IInv, AcceptedWasValidLately
  <1>7. RefusedForAReason'
    BY <1>1 DEF RefusedForAReason
  <1>8. AcceptedWasValidLately'
    BY <1>6 DEF Accepted, AcceptedWasValidLately
  <1>9. QED
    BY <1>3, <1>4, <1>5, <1>7, <1>8 DEF IInv

LEMMA ChangePasswordStep ==
  ASSUME IInv, ChangePassword
  PROVE  IInv'
  <1>1. PICK p \in Passwords \ {password} : password' = p /\ Replace(password, p)
    BY DEF ChangePassword
  <1>2. /\ UNCHANGED <<mode, keyed, clock, stored, engine, cache>> /\ p \in Credentials
        /\ stored \in Tokens \cup {None}
    BY Bounds DEF ChangePassword, IInv, TypeOK
  <1>3. stored # None => until'[stored] = Never
    <2>1. stored # None => stored \in Credentials /\ stored # password /\ until[stored] = Never
      BY <1>2, Bounds, AccessAssumption DEF IInv, TypeOK
    <2>2. QED
      BY <1>1, <1>2, <2>1 DEF Replace
  <1>4. until'[p] = Never
    BY <1>1, <1>2, Replaced
  <1>5. QED
    BY <1>1, <1>2, <1>3, <1>4, ReplaceStep

LEMMA StoreTokenStep ==
  ASSUME IInv, StoreToken
  PROVE  IInv'
  <1>1. PICK k \in Tokens \ {stored} : stored' = k /\ Replace(stored, k)
    BY DEF StoreToken
  <1>2. UNCHANGED <<mode, keyed, clock, password, engine, cache>> /\ k \in Credentials
    BY Bounds DEF StoreToken, IInv
  <1>3. until'[password] = Never
    <2>1. password \in Credentials /\ password # stored /\ until[password] = Never
          /\ password \in Passwords
      BY Bounds, AccessAssumption DEF IInv, TypeOK
    <2>2. QED
      BY <1>1, <2>1 DEF Replace
  <1>4. until'[k] = Never
    BY <1>1, <1>2, Replaced
  <1>5. password' \in Passwords
    BY <1>2 DEF IInv, TypeOK
  <1>6. QED
    BY <1>1, <1>2, <1>3, <1>4, <1>5, ReplaceStep

-----------------------------------------------------------------------------
(* The theorems.                                                            *)

LEMMA InitInvariant == Init => IInv
  <1> SUFFICES ASSUME Init PROVE IInv
    OBVIOUS
  <1>1. auth = [t \in Threads |-> Fresh] /\ cache = [c \in Credentials |-> None]
    BY DEF Init
  <1>2. \A t \in Threads : auth[t].pc = "idle" /\ auth[t].db = None /\ auth[t].now = 0
    BY <1>1, FreshIsRequest
  <1>3. clock = TTL /\ TTL \in Nat /\ MaxTime \in Nat /\ TTL <= MaxTime /\ Never \in Nat
    BY AccessAssumption DEF Init, Never
  <1>4. until \in [Credentials -> 0..Never]
    BY <1>3 DEF Init
  <1>5. TypeOK
    BY <1>1, <1>2, <1>3, <1>4, FreshIsRequest DEF Init, TypeOK
  <1>6. CacheSound /\ \A t \in Threads : AuthSound(t)
    BY <1>1, <1>2 DEF CacheSound, AuthSound
  <1>7. until[password] = Never /\ (stored # None => until[stored] = Never)
    BY DEF Init, Credentials
  <1>8. AcceptedWasValidLately /\ RefusedForAReason
    BY <1>2 DEF AcceptedWasValidLately, RefusedForAReason
  <1>9. QED
    BY <1>5, <1>6, <1>7, <1>8 DEF IInv

LEMMA StepInvariant == IInv /\ [Next]_vars => IInv'
  <1> SUFFICES ASSUME IInv, [Next]_vars PROVE IInv'
    OBVIOUS
  <1>1. ASSUME NEW t \in Threads, AuthStep(t)
        PROVE  IInv'
    BY <1>1, BeginStep, HitStep, OnwardSteps, MissedSteps, LoadTokenStep, VerifyStep, SaveStep
       DEF AuthStep
  <1>2. CASE UNCHANGED vars
    BY <1>2 DEF vars, IInv, TypeOK, CacheSound, AuthSound, AcceptedWasValidLately,
                RefusedForAReason, Right, Needed
  <1>3. QED
    BY <1>1, <1>2, TickStep, ChangePasswordStep, StoreTokenStep DEF Next

\* The inductive invariant: no entry of the cache, and no request that is about to
\* make one, is of a credential or token that ceased to be valid earlier than the
\* beginning of the request that verified it.
THEOREM AccessInvariance == Spec => []IInv
  BY InitInvariant, StepInvariant, PTL DEF Spec

\* Every variable keeps its type; no entry of the cache outlives the time to live
\* from now.
THEOREM AccessTypes == Spec => []TypeOK
  <1>1. IInv => TypeOK
    BY DEF IInv
  <1>2. QED
    BY <1>1, AccessInvariance, PTL

\* "Results are cached for 5 minutes": whoever is accepted sent a credential, and
\* is given a token, that were valid within the time to live before the request
\* began (basic_auth_user), whatever other threads cache and delete meanwhile and
\* however long LDAP, Paperless and the database take.
THEOREM NoStaleAcceptance == Spec => []AcceptedWasValidLately
  <1>1. IInv => AcceptedWasValidLately
    BY DEF IInv
  <1>2. QED
    BY <1>1, AccessInvariance, PTL

\* Who sends the right credential is not refused (basic_auth_user,
\* _load_token_from_db), unless somebody whose answer it takes was not there for the
\* request: Paperless or LDAP for a password, and the database, or the key to what is
\* in it, wherever it takes the stored token.
THEOREM NoRefusalWithoutReason == Spec => []RefusedForAReason
  <1>1. IInv => RefusedForAReason
    BY DEF IInv
  <1>2. QED
    BY <1>1, AccessInvariance, PTL
=============================================================================
