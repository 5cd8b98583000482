----------------------------- MODULE MCRegistry -----------------------------
(* Two requests at once, of two users, on one name; two shares are ever
   created, so that the name can change hands while a request is under way. *)
EXTENDS Registry, TLC

CONSTANTS h1, h2, a, b, n

MCSymmetry == Permutations({h1, h2}) \cup Permutations({a, b})
=============================================================================
