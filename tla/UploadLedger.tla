---------------------------- MODULE UploadLedger ----------------------------
(***************************************************************************)
(* What the upload spool promises to a reading device, and nothing of how. *)
(* Bytes that were taken in are kept until people have them removed; a     *)
(* device is told "saved" only about bytes that are kept, or that were,    *)
(* and people have had removed (or about an empty body, which has nothing  *)
(* to keep).  Module Spool is shown to implement this ledger.              *)
(***************************************************************************)
CONSTANTS Uploads,      \* the PUT requests
          Bytes,        \* what a request body can hold
          Empty         \* the bodies with nothing in them, a subset of Bytes

VARIABLES kept,         \* bytes that exist in the spool or in Paperless
          removed,      \* bytes that people have had removed
          saved         \* saved[u]: the bytes u was told are saved, as a set

ledger == <<kept, removed, saved>>

LedgerTypeOK == /\ kept \subseteq Bytes
                /\ removed \subseteq Bytes
                /\ saved \in [Uploads -> SUBSET Bytes]

LedgerInit == /\ kept = {}
              /\ removed = {}
              /\ saved = [u \in Uploads |-> {}]

\* Bytes are taken in, from a request body or by Paperless.
Keep(b) == /\ kept' = kept \cup {b}
           /\ UNCHANGED <<removed, saved>>

\* People have bytes of the ledger removed; copies of them may remain.
Remove(b) == /\ b \in kept
             /\ removed' = removed \cup {b}
             /\ kept' \in {kept, kept \ {b}}
             /\ UNCHANGED saved

\* What remains of removed bytes is dropped, of several at once.
Forget == /\ kept' \subseteq kept
          /\ kept \ kept' \subseteq removed
          /\ UNCHANGED <<removed, saved>>

\* A request is answered "saved": never about bytes the ledger did not keep.
Acknowledge(u, b) == /\ saved[u] = {}
                     /\ b \in kept \cup removed \cup Empty
                     /\ saved' = [saved EXCEPT ![u] = {b}]
                     /\ UNCHANGED <<kept, removed>>

LedgerNext == \/ \E b \in Bytes : Keep(b) \/ Remove(b)
              \/ Forget
              \/ \E b \in Bytes, u \in Uploads : Acknowledge(u, b)

LedgerSpec == LedgerInit /\ [][LedgerNext]_ledger
=============================================================================
