---------------------------- MODULE Attribution -----------------------------
(***************************************************************************)
(* attribute_source (spool.py): which document an upload came from, judged *)
(* by its size.  A reader appends its annotations to the file, so the      *)
(* upload is its source plus a small delta.  A pure function: size is the  *)
(* number of bytes received, sizes maps the candidates (document ids) to   *)
(* their stored sizes, path is the document the request named.  The        *)
(* provider always knows the latter, so the code's fifth verdict, "none",  *)
(* cannot arise.                                                           *)
(***************************************************************************)
EXTENDS Integers

CONSTANTS Floor,        \* 1 MiB: the tolerance is never less
          Ratio,        \* 20: one part in Ratio of the upload, the 5 percent
          Cap,          \* MAX_ANNOTATION_DELTA, 64 MiB: never more
          Window        \* AMBIGUOUS_DELTA_WINDOW, 64 KiB

ASSUME AttributionAssumption ==
    /\ Floor \in Nat /\ Ratio \in Nat \ {0} /\ Cap \in Nat /\ Window \in Nat
    /\ Window <= Floor
    /\ Window <= Cap

\* Five percent of the upload, but never less than Floor nor more than Cap.
Tolerance(size) ==
    LET proportion == size \div Ratio
        floored == IF proportion < Floor THEN Floor ELSE proportion
    IN  IF floored < Cap THEN floored ELSE Cap

Delta(size, sizes, d) == size - sizes[d]

\* Never smaller than the document, and not dramatically larger.
Within(size, sizes) ==
    {d \in DOMAIN sizes : Delta(size, sizes, d) \in 0 .. Tolerance(size)}

\* The order of the (delta, id) pairs.
NoFarther(size, sizes, d, e) ==
    \/ Delta(size, sizes, d) < Delta(size, sizes, e)
    \/ Delta(size, sizes, d) = Delta(size, sizes, e) /\ d <= e

Best(size, sizes) ==
    CHOOSE d \in Within(size, sizes) :
        \A e \in Within(size, sizes) : NoFarther(size, sizes, d, e)

\* The runner-up is within the window of the best, so size cannot tell.
Ambiguous(size, sizes) ==
    \E e \in Within(size, sizes) \ {Best(size, sizes)} :
        Delta(size, sizes, e) - Delta(size, sizes, Best(size, sizes)) <= Window

\* Mutant: size is authoritative however far off it is.
NeverContradicted(size, sizes, path) == FALSE

\* The path names another document, and the best is too far off to overrule it.
Contradicted(size, sizes, path) ==
    /\ path # Best(size, sizes)
    /\ Delta(size, sizes, Best(size, sizes)) > Window

Verdict(doc, trust) == [doc |-> doc, trust |-> trust]

AttributeSource(size, sizes, path) ==
    IF Within(size, sizes) = {} THEN Verdict(path, "weak")
    ELSE IF Ambiguous(size, sizes) THEN Verdict(Best(size, sizes), "ambiguous")
    ELSE IF Contradicted(size, sizes, path) THEN Verdict(path, "conflict")
    ELSE Verdict(Best(size, sizes), "size")
=============================================================================
