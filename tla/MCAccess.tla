------------------------------ MODULE MCAccess ------------------------------
(* Two threads of a replica, a password that changes and a token that is
   replaced; the time to live is a tick, and the clock moves once past it. *)
EXTENDS Access, TLC

CONSTANTS t1, t2, p1, p2, k1, k2

MCSymmetry == Permutations({t1, t2}) \cup Permutations({p1, p2}) \cup Permutations({k1, k2})
=============================================================================
