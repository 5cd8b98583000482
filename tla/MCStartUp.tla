----------------------------- MODULE MCStartUp ------------------------------
(* Three replicas on one database, two attempts at the migration lock, and two
   faults. *)
EXTENDS StartUp, TLC

CONSTANTS r1, r2, r3
=============================================================================
