------------------------------ MODULE DoneSet -------------------------------
(***************************************************************************)
(* What MOVE into and out of the done folder promises.  The documents that *)
(* are done change by such requests only, and a request that is answered   *)
(* with success took effect between its arrival and its answer: at one     *)
(* moment, and at earlier ones too where it was tried again.  Module       *)
(* DoneFolder is shown to implement it.                                    *)
(***************************************************************************)
CONSTANTS Docs, Threads

VARIABLES done,         \* the documents that are done
          request       \* request[t]: what thread t has been asked, or Nothing

doneVars == <<done, request>>

Nothing == [at |-> "none"]
Wish(d, b, at) == [doc |-> d, value |-> b, at |-> at]
Wishes == [doc : Docs, value : BOOLEAN,
           at : {"pending", "effective", "ok", "failed"}]

DoneInit == /\ done = {}
            /\ request = [t \in Threads |-> Nothing]

\* The documents that are done once the wish w is granted.
Granted(w) == IF w.value THEN done \cup {w.doc} ELSE done \ {w.doc}

Answered(t) == request[t] \notin Wishes \/ request[t].at \in {"ok", "failed"}

Arrive(t, d, b) == /\ Answered(t)
                   /\ request' = [request EXCEPT ![t] = Wish(d, b, "pending")]
                   /\ UNCHANGED done

\* The thread turns to a request that is no MOVE.
Leave(t) == /\ Answered(t)
            /\ request' = [request EXCEPT ![t] = Nothing]
            /\ UNCHANGED done

\* An attempt takes effect, but its success is not known; the next one goes on.
Try(t) == /\ request[t] \in Wishes /\ request[t].at = "pending"
          /\ done' = Granted(request[t])
          /\ UNCHANGED request

Effect(t) == /\ request[t] \in Wishes /\ request[t].at = "pending"
             /\ done' = Granted(request[t])
             /\ request' = [request EXCEPT ![t].at = "effective"]

Succeed(t) == /\ request[t] \in Wishes /\ request[t].at = "effective"
              /\ request' = [request EXCEPT ![t].at = "ok"]
              /\ UNCHANGED done

\* A failure does not say whether the request took effect.
Fail(t) == /\ request[t] \in Wishes /\ request[t].at = "pending"
           /\ done' \in {done, Granted(request[t])}
           /\ request' = [request EXCEPT ![t].at = "failed"]

DoneNext == \E t \in Threads :
               \/ \E d \in Docs, b \in BOOLEAN : Arrive(t, d, b)
               \/ Leave(t) \/ Try(t) \/ Effect(t) \/ Succeed(t) \/ Fail(t)

DoneSpec == DoneInit /\ [][DoneNext]_doneVars
=============================================================================
