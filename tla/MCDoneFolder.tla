--------------------------- MODULE MCDoneFolder -----------------------------
(***************************************************************************)
(* Instances of DoneFolder for TLC: two threads of one process, and two    *)
(* shares with the same documents and a done tag each.  Document 1 is      *)
(* moved both ways in the first share, document 2 also changed by people,  *)
(* who set and take away either tag; the second share is listed.           *)
(***************************************************************************)
EXTENDS DoneFolder

CONSTANTS s1, s2, t1, t2, c1

MCDoneTag == [s \in Shares |-> <<"done", s>>]
MCCacheOf == [t \in Threads |-> c1]

Move(s, d, folder) == [share |-> s, folder |-> folder, doc |-> d]
ListOf(s, folder) == [share |-> s, folder |-> folder, doc |-> 0]

MCAsks == [t \in Threads |-> IF t = t1
    THEN {Move(s1, 1, "root"), Move(s1, 2, "root")}
    ELSE {Move(s1, 1, "done"), ListOf(s2, "done")}]

\* The first share alone.
MCOneShare == [t \in Threads |-> {r \in MCAsks[t] : r.share = s1}]
=============================================================================
