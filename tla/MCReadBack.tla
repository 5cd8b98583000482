---------------------------- MODULE MCReadBack ------------------------------
(***************************************************************************)
(* Instances of ReadBack for TLC.  A byte of the model stands for a window *)
(* of 64 KiB at best: the sizes are chosen so that a document grows into   *)
(* and out of the tolerance of the other and of its own copies.            *)
(***************************************************************************)
EXTENDS ReadBack

CONSTANTS p1, l1

MCHost == [l \in Listings |-> p1]

\* Document 1 is edited from 20 to 24 bytes, document 2 from 22 to 16.
MCSizeOf == [d \in Docs |-> [v \in Versions |->
                IF d = 1 THEN 20 + 4 * v ELSE 22 - 6 * v]]
=============================================================================
