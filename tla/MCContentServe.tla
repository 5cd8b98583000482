--------------------------- MODULE MCContentServe ---------------------------
(***************************************************************************)
(* An instance of ContentServe for TLC.  Versions 1 and 2 are stored in one*)
(* second and differ in size; 2 and 3 are two blocks, stored apart.        *)
(***************************************************************************)
EXTENDS ContentServe

CONSTANTS r1, r2

MCSize == <<1, 2, 2>>
MCModified == <<1, 1, 2>>
=============================================================================
