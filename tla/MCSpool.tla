------------------------------ MODULE MCSpool -------------------------------
(***************************************************************************)
(* Instances of Spool for TLC.                                             *)
(***************************************************************************)
EXTENDS Spool, TLC

CONSTANTS u1, u2, u3, w1, w2, d1, d2, f1, f2

\* f1 is two chunks; f2 is one.
MCLength == [f \in Files |-> IF f = f1 THEN 2 ELSE 1]

Put(w, f, declared, path, source) ==
    [host |-> w, file |-> f, declared |-> declared, path |-> path, source |-> source]

\* The same file through either replica, with and without a Content-Length,
\* attributed to either document.
MCRequests == { Put(w1, f1, TRUE, d1, d1), Put(w2, f1, FALSE, d1, d2) }

\* A file within the upload limit of one chunk, through either replica, and one
\* beyond it, put to an annotated copy.
MCTwoFiles == { Put(w1, f2, TRUE, d1, d1), Put(w2, f2, TRUE, d1, d2),
                Put(w1, f1, TRUE, d2, d1) }

MCSymmetry == Permutations(Uploads)
=============================================================================
