------------------------------- MODULE Access -------------------------------
(***************************************************************************)
(* HTTP Basic authentication of a replica's requests: the cache of         *)
(* successes that all threads share, the token from the database, LDAP or  *)
(* Paperless (basic_auth_user of webdav_auth.py, get_sync_session of       *)
(* database.py), while passwords change and tokens are replaced            *)
(* (store_user_token of services/shares.py).                               *)
(*                                                                         *)
(* One user.  A credential is what is sent as the password: a password, or *)
(* a token where the code takes a token for one.                           *)
(***************************************************************************)
EXTENDS Naturals, FiniteSets, Functions

CONSTANTS Threads,
          Passwords, Tokens,
          AuthModes,    \* settings to consider: "paperless", "ldap", "token"
          TTL,          \* AUTH_CACHE_TTL
          MaxTime,      \* bound: the clock
          None

Credentials == Passwords \cup Tokens
Never == MaxTime + TTL + 1

ASSUME AccessAssumption ==
    /\ Passwords \cap Tokens = {} /\ None \notin Credentials
    /\ AuthModes \subseteq {"paperless", "ldap", "token"}
    /\ TTL \in Nat \ {0} /\ MaxTime \in Nat /\ MaxTime >= TTL

VARIABLES mode,         \* auth_mode: paperless, or oidc with LDAP or with the token alone
          keyed,        \* an encryption key is set, with which stored tokens are read
          clock,
          password,     \* the user's password, in LDAP or Paperless
          stored,       \* the user's token, in the database or Paperless; or None
          until,        \* until[c]: when credential or token c ceased to be valid
          engine,       \* _sync_engine and _sync_session_factory: "none", "made", "ready"
          cache,        \* cache[c]: token and expiry, or None
          auth          \* auth[t]: the request of thread t

vars == <<mode, keyed, clock, password, stored, until, engine, cache, auth>>

\* Of a request: what it sent, the clock when it began, the token of the
\* database, the token it is given; and, for the properties, whether neither
\* password nor token changed since it began, and whose answer was missing.
Fresh == [pc |-> "idle", sent |-> None, now |-> 0, db |-> None, token |-> None,
          same |-> TRUE, missed |-> {}]

Request == [pc : {"idle", "read", "expired", "session", "load", "verify", "save",
                  "accepted", "refused", "failed"},
            sent : Credentials \cup {None}, now : 0..MaxTime, db : Tokens \cup {None},
            token : Tokens \cup {None}, same : BOOLEAN,
            missed : SUBSET {"database", "server"}]

TypeOK ==
    /\ mode \in AuthModes /\ keyed \in BOOLEAN
    /\ clock \in TTL..MaxTime
    /\ password \in Passwords /\ stored \in Tokens \cup {None}
    /\ until \in [Credentials -> 0..Never]
    /\ engine \in {"none", "made", "ready"}
    /\ cache \in [Credentials -> [token : Tokens, expiry : Nat] \cup {None}]
    /\ \A c \in Credentials : cache[c] # None => cache[c].expiry \in TTL..(clock + TTL)
    /\ auth \in [Threads -> Request]
    /\ \A t \in Threads :
         /\ auth[t].now <= clock
         /\ auth[t].pc # "idle" => auth[t].sent \in Credentials
         /\ auth[t].pc \in {"save", "accepted"} => auth[t].token \in Tokens

Init ==
    /\ mode \in AuthModes
    /\ keyed \in BOOLEAN /\ (mode = "paperless" => keyed)  \* which does not ask for it
    /\ clock = TTL
    /\ password \in Passwords
    /\ stored \in Tokens \cup {None}
    /\ until = [c \in Credentials |-> IF c \in {password, stored} THEN Never ELSE 0]
    /\ engine = "none"
    /\ cache = [c \in Credentials |-> None]
    /\ auth = [t \in Threads |-> Fresh]

-----------------------------------------------------------------------------
(* Time and the world.                                                      *)

Tick ==
    /\ clock < MaxTime
    /\ clock' = clock + 1
    /\ UNCHANGED <<mode, keyed, password, stored, until, engine, cache, auth>>

\* One credential takes the place of another.
Replace(old, new) ==
    /\ until' = [c \in Credentials |-> IF c = new THEN Never
                                       ELSE IF c = old THEN clock ELSE until[c]]
    /\ auth' = [t \in Threads |-> [auth[t] EXCEPT !.same = FALSE]]

ChangePassword ==
    /\ \E p \in Passwords \ {password} : password' = p /\ Replace(password, p)
    /\ UNCHANGED <<mode, keyed, clock, stored, engine, cache>>

\* token_setup_submit and store_user_token, or a new token in Paperless.
StoreToken ==
    /\ \E k \in Tokens \ {stored} : stored' = k /\ Replace(stored, k)
    /\ UNCHANGED <<mode, keyed, clock, password, engine, cache>>

-----------------------------------------------------------------------------
(* basic_auth_user                                                          *)

Auth(t, pc, f) ==
    auth' = [auth EXCEPT ![t] = [k \in DOMAIN @ |-> IF k = "pc" THEN pc
                                                    ELSE IF k \in DOMAIN f THEN f[k] ELSE @[k]]]

Load == IF mode = "paperless" THEN "verify" ELSE "session"

\* The clock is read; is the key in the cache?
Begin(t) ==
    /\ auth[t].pc \in {"idle", "accepted", "refused", "failed"}
    /\ \E c \in Credentials :
         auth' = [auth EXCEPT ![t] = [Fresh EXCEPT !.sent = c, !.now = clock,
                                                   !.pc = IF cache[c] # None THEN "read" ELSE Load]]
    /\ UNCHANGED <<mode, keyed, clock, password, stored, until, engine, cache>>

Entry(t) == cache[auth[t].sent]

\* The entry is read, and has not expired.
Hit(t) ==
    /\ auth[t].pc = "read" /\ Entry(t) # None
    /\ auth[t].now < Entry(t).expiry
    /\ Auth(t, "accepted", [token |-> Entry(t).token])
    /\ UNCHANGED <<mode, keyed, clock, password, stored, until, engine, cache>>

Expired(t) ==
    /\ auth[t].pc = "read" /\ Entry(t) # None
    /\ auth[t].now >= Entry(t).expiry
    /\ Auth(t, "expired", <<>>)
    /\ UNCHANGED <<mode, keyed, clock, password, stored, until, engine, cache>>

\* del: the entry of the key, whichever it is by now.
Delete(t) ==
    /\ auth[t].pc = "expired" /\ Entry(t) # None
    /\ cache' = [cache EXCEPT ![auth[t].sent] = None]
    /\ Auth(t, Load, <<>>)
    /\ UNCHANGED <<mode, keyed, clock, password, stored, until, engine>>

\* KeyError: another thread has deleted it, before the read or before the del.
KeyError(t) ==
    /\ auth[t].pc \in {"read", "expired"} /\ Entry(t) = None
    /\ Auth(t, "failed", <<>>)
    /\ UNCHANGED <<mode, keyed, clock, password, stored, until, engine, cache>>

\* The token cannot be had, and the request goes on as if there were none.
WithoutToken(t) == Auth(t, "verify", [missed |-> auth[t].missed \cup {"database"}])

\* _load_token_from_db without an encryption key asks nobody.
NoKey(t) ==
    /\ auth[t].pc = "session" /\ ~keyed
    /\ WithoutToken(t)
    /\ UNCHANGED <<mode, keyed, clock, password, stored, until, engine, cache>>

\* get_sync_session: the first thread makes the engine, then the factory; one
\* that comes in between finds no factory, as if there were no token.
MakeEngine(t) ==
    /\ auth[t].pc = "session" /\ keyed /\ engine = "none"
    /\ engine' = "made"
    /\ Auth(t, "load", <<>>)
    /\ UNCHANGED <<mode, keyed, clock, password, stored, until, cache>>

HasEngine(t) ==
    /\ auth[t].pc = "session" /\ keyed /\ engine # "none"
    /\ IF engine = "ready" THEN Auth(t, "load", <<>>) ELSE WithoutToken(t)
    /\ UNCHANGED <<mode, keyed, clock, password, stored, until, engine, cache>>

\* _load_token_from_db, with the factory made by now: the token, or None when the
\* user has none; None as well when the database fails or the token was encrypted
\* with another key.
LoadToken(t) ==
    /\ auth[t].pc = "load"
    /\ engine' = "ready"
    /\ Auth(t, "verify", [db |-> stored]) \/ WithoutToken(t)
    /\ UNCHANGED <<mode, keyed, clock, password, stored, until, cache>>

\* _authenticate_ldap and _authenticate_with_paperless: the password, if the back
\* end can be asked; an error counts as a refusal.
Confirmed(t, reachable) == reachable /\ auth[t].sent = password

\* Token-based: the token itself is sent as the password.
SentToken(t) == auth[t].db # None /\ auth[t].sent = auth[t].db

\* Mutant: where LDAP is used, a token is no password.
NoFallback(t, reachable) ==
    CASE mode = "paperless" /\ Confirmed(t, reachable) -> stored
      [] mode = "ldap" /\ Confirmed(t, reachable) -> auth[t].db
      [] mode = "token" /\ SentToken(t) -> auth[t].db
      [] OTHER -> None

\* What the request is granted: by Paperless the token that it has for the user,
\* by LDAP the stored token, by the stored token itself where LDAP is not used or
\* refuses.
Granted(t, reachable) ==
    CASE mode = "paperless" /\ Confirmed(t, reachable) -> stored
      [] mode = "ldap" /\ Confirmed(t, reachable) -> auth[t].db
      [] mode # "paperless" /\ ~(mode = "ldap" /\ Confirmed(t, reachable)) /\ SentToken(t) ->
           auth[t].db
      [] OTHER -> None

\* Mutant: whom LDAP knows need have no token.
VerifyWithoutToken(t) ==
    /\ auth[t].pc = "verify"
    /\ IF auth[t].sent \in {password, auth[t].db}
         THEN Auth(t, "save", [token |-> auth[t].db, db |-> None])
         ELSE Auth(t, "refused", [db |-> None])
    /\ UNCHANGED <<mode, keyed, clock, password, stored, until, engine, cache>>

\* _authenticate_ldap or _authenticate_with_paperless, if they are up; where the
\* token alone counts, there is nobody to ask.
Verify(t) ==
    /\ auth[t].pc = "verify"
    /\ \E reachable \in BOOLEAN :
         IF Granted(t, reachable) # None
           THEN Auth(t, "save", [token |-> Granted(t, reachable), db |-> None, missed |-> {}])
           ELSE Auth(t, "refused",
                     [missed |-> auth[t].missed \cup IF reachable \/ mode = "token"
                                                       THEN {} ELSE {"server"},
                      db |-> None])
    /\ UNCHANGED <<mode, keyed, clock, password, stored, until, engine, cache>>

\* Mutant: the time to live begins when the answer has come.
SaveFromNow(t) ==
    /\ auth[t].pc = "save"
    /\ cache' = [cache EXCEPT ![auth[t].sent] = [token |-> auth[t].token,
                                                 expiry |-> clock + TTL]]
    /\ Auth(t, "accepted", <<>>)
    /\ UNCHANGED <<mode, keyed, clock, password, stored, until, engine>>

\* The success is cached, as of the beginning of the request.
Save(t) ==
    /\ auth[t].pc = "save"
    /\ cache' = [cache EXCEPT ![auth[t].sent] = [token |-> auth[t].token,
                                                 expiry |-> auth[t].now + TTL]]
    /\ Auth(t, "accepted", <<>>)
    /\ UNCHANGED <<mode, keyed, clock, password, stored, until, engine>>

AuthStep(t) ==
    \/ Begin(t) \/ Hit(t) \/ Expired(t) \/ Delete(t) \/ KeyError(t)
    \/ NoKey(t) \/ MakeEngine(t) \/ HasEngine(t) \/ LoadToken(t) \/ Verify(t) \/ Save(t)

Next == Tick \/ ChangePassword \/ StoreToken \/ \E t \in Threads : AuthStep(t)

Spec == Init /\ [][Next]_vars

-----------------------------------------------------------------------------
(* Properties.                                                              *)

\* "Results are cached for 5 minutes": a request that is accepted sent a
\* credential, and is given a token, that were valid within the time to live
\* before it began, whichever thread verified them and however long that took.
AcceptedWasValidLately ==
    \A t \in Threads :
        auth[t].pc = "accepted" =>
            /\ until[auth[t].sent] + TTL > auth[t].now
            /\ until[auth[t].token] + TTL > auth[t].now

\* "Returns: Username string if authenticated, False otherwise": no request
\* ends with an exception.
NoneFails == \A t \in Threads : auth[t].pc # "failed"

\* The credential is the right one.
Right(c) ==
    /\ stored # None
    /\ c \in (IF mode = "token" THEN {} ELSE {password})
             \cup (IF mode = "paperless" THEN {} ELSE {stored})

\* Whose answer it takes: Paperless' for a password; that of LDAP and the stored
\* token where LDAP is used; the stored token alone for a token sent as password.
Needed(c) == CASE mode = "paperless" -> {"server"}
               [] mode = "ldap" /\ c = password -> {"server", "database"}
               [] OTHER -> {"database"}

\* A request whose credential was the right one all along is refused only when
\* somebody whose answer it takes was not there for it (_load_token_from_db,
\* basic_auth_user): a token is not refused for LDAP that is down, and neither what
\* other threads find in the cache and delete from it, nor its own earlier failures,
\* turn a request away.
RefusedForAReason ==
    \A t \in Threads :
        auth[t].pc = "refused" /\ auth[t].same /\ Right(auth[t].sent)
            => auth[t].missed \cap Needed(auth[t].sent) # {}

-----------------------------------------------------------------------------
(* The inductive invariant: since when what has been verified may have      *)
(* ceased to be valid.                                                      *)

CacheSound ==
    \A c \in Credentials :
        cache[c] # None => /\ until[c] + TTL >= cache[c].expiry
                           /\ until[cache[c].token] + TTL >= cache[c].expiry

AuthSound(t) ==
    /\ auth[t].db # None => until[auth[t].db] >= auth[t].now
    /\ auth[t].pc = "save" =>
         until[auth[t].sent] >= auth[t].now /\ until[auth[t].token] >= auth[t].now
    /\ auth[t].pc = "verify" /\ auth[t].same /\ mode # "paperless" =>
         "database" \in auth[t].missed \/ auth[t].db = stored

IInv ==
    /\ TypeOK
    /\ until[password] = Never /\ (stored # None => until[stored] = Never)
    /\ CacheSound
    /\ \A t \in Threads : AuthSound(t)
    /\ AcceptedWasValidLately
    /\ RefusedForAReason
=============================================================================
