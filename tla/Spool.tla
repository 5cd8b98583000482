------------------------------- MODULE Spool --------------------------------
(***************************************************************************)
(* The write-back spool (spool.py, the PUT half of webdav_provider.py,     *)
(* services/annotations.py).                                               *)
(*                                                                         *)
(* A PUT is handled by a thread of one of several replicas that share the  *)
(* spool volume and the database.  The request body is written to          *)
(* incoming/<spool id>.part; when it ends, end_write drops it, parks it in *)
(* partial/, discards it as a duplicate, or publishes it in pending/ with  *)
(* a JSON sidecar and an index row.  An ingest worker (not in this         *)
(* repository) takes files from pending/, gives them to Paperless and      *)
(* files them in a terminal directory.  Replicas crash and restart at any  *)
(* moment; a start sweeps old .part files and prunes ingested/.            *)
(*                                                                         *)
(* One action is one system call that other processes can see between: a   *)
(* rename, a sidecar write, an index write.  File names carry the first    *)
(* 12 digits of the md5 of their bytes; md5 is taken to be injective, so a *)
(* stem is an owner (a spool id or a source document) and its bytes.       *)
(***************************************************************************)
EXTENDS Naturals, FiniteSets

CONSTANTS
    Uploads,         \* PUT requests; an upload is also its spool id (uuid4)
    Workers,         \* server processes (replicas), all on one spool volume
    Docs,            \* Paperless documents a request can name or come from
    AnnotatedCopies, \* those that carry the annotation tag
    Files,           \* annotated PDFs the devices hold
    Length,          \* Length[f]: size of f, in chunks
    Requests,        \* the requests clients may send, a set of Request
    MaxUpload,       \* webdav_max_upload_bytes, in chunks; 0: no limit
    SpoolMax,        \* webdav_spool_max_bytes, in chunks; 0: no limit
    Handlers,        \* threads that can hold a PUT at once, over all replicas
    Faults,          \* what may fail: "tags" (the annotation tag's lookup),
                     \* "replace", "sidecar" (the volume), "db" (the index)
    Verdicts,        \* how the ingest worker may decide: directories
    Clearing,        \* people may clear the directories kept for them
    Trashing         \* Paperless documents may be trashed

\* The first n chunks of file f.
Prefix(f, n) == [file |-> f, size |-> n]

Bytes == UNION { {Prefix(f, n) : n \in 0 .. Length[f]} : f \in Files }

\* A request: the replica it reaches, the file in its body, whether it has a
\* Content-Length, the document at its path, and the document that
\* attribute_source will pick for it (module Attribution).
Request == [host : Workers, file : Files, declared : BOOLEAN,
            path : Docs, source : Docs]

ASSUME SpoolAssumption ==
    /\ Length \in [Files -> Nat \ {0}]
    /\ Requests \subseteq Request
    /\ AnnotatedCopies \subseteq Docs
    /\ MaxUpload \in Nat /\ SpoolMax \in Nat /\ Handlers \in Nat \ {0}
    /\ Clearing \in BOOLEAN /\ Trashing \in BOOLEAN
    /\ Uploads \cap Docs = {}
    /\ Verdicts \subseteq {"ingested", "failed", "quarantine", "unmatched"}

\* SPOOL_SUBDIRS without incoming/, which holds only .part files.
Subdirs == {"pending", "ingested", "failed", "quarantine", "unmatched", "partial"}

\* The status of an annotated_uploads row, keyed by md5; "none": no row.
\* mark_ingested sets "ingested" and the document id together.
Status == {"none", "pending", "ingested", "failed"}

Stem == [owner : Docs \cup Uploads, bytes : Bytes]

NamedFor(o, b) == [owner |-> o, bytes |-> b]

VARIABLES
    req,        \* req[u]: the request, chosen once and for all
    pc,         \* pc[u]: how far the PUT handler of u is
    got,        \* got[u]: chunks received
    reply,      \* reply[u]: the answer, "none" until there is one
    part,       \* part[u]: the .part file of u: "none", "young" or "old"
    pdf,        \* pdf[d]: stems of the .pdf files in directory d
    json,       \* json[d]: stems of the .json sidecars in directory d
    row,        \* row[b]: status of the annotated_uploads row of md5(b)
    paperless,  \* bytes that are Paperless documents
    cleared,    \* history: bytes that people took out of the spool
    trashed,    \* history: bytes of documents that were trashed in Paperless
    job,        \* what the ingest worker is doing
    up          \* up[w]: replica w is running

putVars == <<pc, got, reply>>
vars == <<req, pc, got, reply, part, pdf, json, row, paperless, cleared, trashed, job, up>>

Steps == {"idle", "writing", "received", "checked", "unpublished",
          "published", "indexing", "parked", "done"}
Replies == {"none", "ok", "forbidden", "full", "too large", "aborted",
            "incomplete", "error", "lost"}

NoJob == [stage |-> "idle"]
Job == [stage : {"taken", "decided", "filed"}, stem : Stem,
        known : BOOLEAN, verdict : Subdirs]

Body(u) == Prefix(req[u].file, got[u])
InFlight == {u \in Uploads : pc[u] \notin {"idle", "done"}}

\* Bytes that some directory of the spool or Paperless holds, and bytes that
\* people have had removed from there.
InSpool == {b \in Bytes : \E d \in Subdirs : \E s \in pdf[d] : s.bytes = b}
Held == InSpool \cup paperless
Removed == cleared \cup trashed
Accounted == Held \cup Removed

\* Bytes that are a Paperless document or have been one.
WereDocuments == paperless \cup trashed

\* The type invariant; the handler never counts more than the client sends.
TypeOK ==
    /\ req \in [Uploads -> Requests]
    /\ pc \in [Uploads -> Steps]
    /\ got \in [Uploads -> Nat]
    /\ \A u \in Uploads : got[u] <= Length[req[u].file]
    /\ reply \in [Uploads -> Replies]
    /\ part \in [Uploads -> {"none", "young", "old"}]
    /\ pdf \in [Subdirs -> SUBSET Stem]
    /\ json \in [Subdirs -> SUBSET Stem]
    /\ row \in [Bytes -> Status]
    /\ paperless \subseteq Bytes
    /\ cleared \subseteq Bytes /\ trashed \subseteq Bytes
    /\ job \in Job \cup {NoJob}
    /\ up \in [Workers -> BOOLEAN]

Init ==
    /\ req \in [Uploads -> Requests]
    /\ pc = [u \in Uploads |-> "idle"]
    /\ got = [u \in Uploads |-> 0]
    /\ reply = [u \in Uploads |-> "none"]
    /\ part = [u \in Uploads |-> "none"]
    /\ pdf = [d \in Subdirs |-> {}]
    /\ json = [d \in Subdirs |-> {}]
    /\ row = [b \in Bytes |-> "none"]
    /\ paperless = {} /\ cleared = {} /\ trashed = {}
    /\ job = NoJob
    /\ up = [w \in Workers |-> FALSE]

-----------------------------------------------------------------------------
(* begin_write and the stream: from the first byte to the end of the body.  *)

Goto(u, step) == pc' = [pc EXCEPT ![u] = step]

\* The handler of u ends and the client is sent the answer.
Answer(u, answer) == /\ Goto(u, "done")
                     /\ reply' = [reply EXCEPT ![u] = answer]

\* spool_usage_bytes: incoming/ and pending/ only, each file chunk by chunk.  The
\* few hundred bytes of a sidecar in pending/, which it counts as well, are less
\* than a chunk.
IncomingChunks == UNION {{u} \X (1 .. got[u]) : u \in {u \in Uploads : part[u] # "none"}}
PendingChunks == UNION {{s} \X (1 .. s.bytes.size) : s \in pdf["pending"]}
Usage == Cardinality(IncomingChunks) + Cardinality(PendingChunks)

Accepted(u) == /\ pc[u] = "idle"
               /\ up[req[u].host]
               /\ Cardinality(InFlight) < Handlers

\* begin_write: an annotated copy is read-only.  A failed lookup of the tag
\* lets it pass.
RefuseAnnotatedCopy(u) ==
    /\ Accepted(u)
    /\ req[u].path \in AnnotatedCopies
    /\ Answer(u, "forbidden")
    /\ UNCHANGED <<req, got, part, pdf, json, row, paperless, cleared, trashed, job, up>>

\* Mutant: begin_write does not look at the quota.
QuotaIgnored == FALSE

SpoolFull == SpoolMax # 0 /\ Usage >= SpoolMax

\* begin_write: the spool is at its quota.
RefuseFull(u) ==
    /\ Accepted(u)
    /\ req[u].path \notin AnnotatedCopies \/ "tags" \in Faults
    /\ SpoolFull
    /\ Answer(u, "full")
    /\ UNCHANGED <<req, got, part, pdf, json, row, paperless, cleared, trashed, job, up>>

\* begin_write: SpooledUpload opens incoming/<spool id>.part.
BeginWrite(u) ==
    /\ Accepted(u)
    /\ req[u].path \notin AnnotatedCopies \/ "tags" \in Faults
    /\ ~SpoolFull
    /\ part' = [part EXCEPT ![u] = "young"]
    /\ Goto(u, "writing")
    /\ UNCHANGED <<req, got, reply, pdf, json, row, paperless, cleared, trashed, job, up>>

TooLarge(size) == MaxUpload # 0 /\ size > MaxUpload

\* write: one more chunk.  A .part the sweep unlinked stays unlinked.
Write(u) ==
    /\ pc[u] = "writing"
    /\ got[u] < Length[req[u].file]
    /\ ~TooLarge(got[u] + 1)
    /\ got' = [got EXCEPT ![u] = @ + 1]
    /\ part' = [part EXCEPT ![u] = IF @ = "none" THEN "none" ELSE "young"]
    /\ UNCHANGED <<req, pc, reply, pdf, json, row, paperless, cleared, trashed, job, up>>

Abort(u) == part' = [part EXCEPT ![u] = "none"]

\* write: the chunk would pass the limit; abort and 507.
WriteTooLarge(u) ==
    /\ pc[u] = "writing"
    /\ got[u] < Length[req[u].file]
    /\ TooLarge(got[u] + 1)
    /\ Abort(u)
    /\ Answer(u, "too large")
    /\ UNCHANGED <<req, got, pdf, json, row, paperless, cleared, trashed, job, up>>

\* The stream raises: wsgidav calls end_write(with_errors=True), which aborts.
StreamError(u) ==
    /\ pc[u] = "writing"
    /\ Abort(u)
    /\ Answer(u, "aborted")
    /\ UNCHANGED <<req, got, pdf, json, row, paperless, cleared, trashed, job, up>>

\* Mutant: the flush at the end counts the last chunk again.
EndOfBodyCountsAgain(u) ==
    /\ pc[u] = "writing"
    /\ Goto(u, "received")
    /\ got' = [got EXCEPT ![u] = @ + 1]
    /\ UNCHANGED <<req, reply, part, pdf, json, row, paperless, cleared, trashed, job, up>>

\* The stream ends, at the end of the body or short of it: a client that hangs
\* up looks like the end of the file.  close() syncs, end_write begins.
EndOfBody(u) ==
    /\ pc[u] = "writing"
    /\ Goto(u, "received")
    /\ UNCHANGED <<req, got, reply, part, pdf, json, row, paperless, cleared, trashed, job, up>>

-----------------------------------------------------------------------------
(* end_write: what becomes of the received bytes.                           *)

\* os.replace of the .part file of u to stem s in directory d.
Rename(u, d, s) == /\ part[u] # "none"
                   /\ part' = [part EXCEPT ![u] = "none"]
                   /\ pdf' = [pdf EXCEPT ![d] = @ \cup {s}]

\* os.replace raises: the file was swept, or the volume refuses.
RenameFails(u) == part[u] = "none" \/ "replace" \in Faults

WriteSidecar(d, s) == json' = [json EXCEPT ![d] = @ \cup {s}]

\* Mutant: end_write trusts wsgidav to have checked Content-Length.
MismatchUnchecked(u) == FALSE

Mismatch(u) == req[u].declared /\ got[u] # Length[req[u].file]

\* park("partial"): retain a body shorter than its Content-Length.
Park(u) ==
    /\ pc[u] = "received"
    /\ Mismatch(u)
    /\ Rename(u, "partial", NamedFor(u, Body(u)))
    /\ Goto(u, "parked")
    /\ UNCHANGED <<req, got, reply, json, row, paperless, cleared, trashed, job, up>>

ParkFails(u) ==
    /\ pc[u] = "received"
    /\ Mismatch(u)
    /\ RenameFails(u)
    /\ Answer(u, "error")
    /\ UNCHANGED <<req, got, part, pdf, json, row, paperless, cleared, trashed, job, up>>

\* park writes the sidecar, end_write answers 400.
ParkSidecar(u) ==
    /\ pc[u] = "parked"
    /\ \/ /\ WriteSidecar("partial", NamedFor(u, Body(u)))
          /\ Answer(u, "incomplete")
       \/ /\ "sidecar" \in Faults
          /\ Answer(u, "error")
          /\ UNCHANGED json
    /\ UNCHANGED <<req, got, part, pdf, row, paperless, cleared, trashed, job, up>>

\* An empty body with nothing declared: dropped, and answered with success.
EmptyBody(u) ==
    /\ pc[u] = "received"
    /\ ~Mismatch(u)
    /\ got[u] = 0
    /\ Abort(u)
    /\ Answer(u, "ok")
    /\ UNCHANGED <<req, got, pdf, json, row, paperless, cleared, trashed, job, up>>

\* _upload_already_held: the directories are searched for the digest in the
\* order files move through them, so the search is one step here; a sidecar
\* matches as well as a PDF.
NameHasDigest(b) == \E d \in Subdirs : \E s \in pdf[d] \cup json[d] : s.bytes = b
UploadIngested(b) == row[b] = "ingested"

\* end_write: the bytes are held already; drop them and answer success.
Duplicate(u) ==
    /\ pc[u] = "received"
    /\ ~Mismatch(u) /\ got[u] # 0
    /\ UploadIngested(Body(u)) \/ NameHasDigest(Body(u))
    /\ Abort(u)
    /\ Answer(u, "ok")
    /\ UNCHANGED <<req, got, pdf, json, row, paperless, cleared, trashed, job, up>>

\* upload_ingested answers False when the database cannot be reached.
NotHeld(u) ==
    /\ pc[u] = "received"
    /\ ~Mismatch(u) /\ got[u] # 0
    /\ ~UploadIngested(Body(u)) \/ "db" \in Faults
    /\ ~NameHasDigest(Body(u))
    /\ Goto(u, "checked")
    /\ UNCHANGED <<req, got, reply, part, pdf, json, row, paperless, cleared, trashed, job, up>>

Target(u) == NamedFor(req[u].source, Body(u))

\* finalize: the rename into pending/.
Publish(u) ==
    /\ pc[u] = "checked"
    /\ Rename(u, "pending", Target(u))
    /\ Goto(u, "published")
    /\ UNCHANGED <<req, got, reply, json, row, paperless, cleared, trashed, job, up>>

\* Mutant: the failed rename is logged and the handler goes on.
PublishFailsUnnoticed(u) ==
    /\ pc[u] = "checked"
    /\ RenameFails(u)
    /\ Goto(u, "published")
    /\ UNCHANGED <<req, got, reply, part, pdf, json, row, paperless, cleared, trashed, job, up>>

PublishFails(u) ==
    /\ pc[u] = "checked"
    /\ RenameFails(u)
    /\ Goto(u, "unpublished")
    /\ UNCHANGED <<req, got, reply, part, pdf, json, row, paperless, cleared, trashed, job, up>>

\* Mutant: a failed publish is cleaned up like an aborted transfer.
RescueByAbort(u) ==
    /\ pc[u] = "unpublished"
    /\ Abort(u)
    /\ Answer(u, "error")
    /\ UNCHANGED <<req, got, pdf, json, row, paperless, cleared, trashed, job, up>>

\* finalize, after a failed rename: try failed/, and raise in any case.
Rescue(u) ==
    /\ pc[u] = "unpublished"
    /\ \/ Rename(u, "failed", NamedFor(u, Body(u)))
       \/ RenameFails(u) /\ UNCHANGED <<part, pdf>>
    /\ Answer(u, "error")
    /\ UNCHANGED <<req, got, json, row, paperless, cleared, trashed, job, up>>

\* finalize: the sidecar, best effort.
PublishSidecar(u) ==
    /\ pc[u] = "published"
    /\ \/ WriteSidecar("pending", Target(u))
       \/ "sidecar" \in Faults /\ UNCHANGED json
    /\ Goto(u, "indexing")
    /\ UNCHANGED <<req, got, reply, part, pdf, row, paperless, cleared, trashed, job, up>>

\* record_pending, best effort (ON CONFLICT DO NOTHING on the md5), and the
\* answer: 201 or 204.
Record(u) ==
    /\ pc[u] = "indexing"
    /\ \/ row' = [row EXCEPT ![Body(u)] = IF @ = "none" THEN "pending" ELSE @]
       \/ "db" \in Faults /\ UNCHANGED row
    /\ Answer(u, "ok")
    /\ UNCHANGED <<req, got, part, pdf, json, paperless, cleared, trashed, job, up>>

HandlerStep(u) ==
    \/ Write(u) \/ WriteTooLarge(u) \/ StreamError(u) \/ EndOfBody(u)
    \/ Park(u) \/ ParkFails(u) \/ ParkSidecar(u)
    \/ EmptyBody(u) \/ Duplicate(u) \/ NotHeld(u)
    \/ Publish(u) \/ PublishFails(u) \/ Rescue(u)
    \/ PublishSidecar(u) \/ Record(u)

PutStep(u) == RefuseAnnotatedCopy(u) \/ RefuseFull(u) \/ BeginWrite(u) \/ HandlerStep(u)

-----------------------------------------------------------------------------
(* Replicas: crash, restart, and time.                                      *)

\* The process dies.  Its PUTs are never answered, their files stay.
Crash(w) ==
    LET lost == {u \in InFlight : req[u].host = w}
    IN  /\ up[w]
        /\ up' = [up EXCEPT ![w] = FALSE]
        /\ pc' = [u \in Uploads |-> IF u \in lost THEN "done" ELSE pc[u]]
        /\ reply' = [u \in Uploads |-> IF u \in lost THEN "lost" ELSE reply[u]]
        /\ UNCHANGED <<req, got, part, pdf, json, row, paperless, cleared, trashed, job>>

\* sweep_on_start: .part files not written for STALE_PART_SECONDS, of any
\* replica.
Sweep == part' = [u \in Uploads |-> IF part[u] = "old" THEN "none" ELSE part[u]]

\* Mutant: retention applies to failed/ as well.
PruneFailedToo ==
    /\ pdf' = [pdf EXCEPT !["ingested"] = {}, !["failed"] = {}]
    /\ json' = [json EXCEPT !["ingested"] = {}, !["failed"] = {}]

\* prune_ingested: any files of ingested/ may have passed the retention; a PDF
\* and its sidecar were written at different times and expire one by one.
Prune == \E oldPdf \in SUBSET pdf["ingested"], oldJson \in SUBSET json["ingested"] :
            /\ pdf' = [pdf EXCEPT !["ingested"] = @ \ oldPdf]
            /\ json' = [json EXCEPT !["ingested"] = @ \ oldJson]

\* The provider's constructor: spool_dirs, sweep_on_start, prune_ingested.
Start(w) ==
    /\ ~up[w]
    /\ up' = [up EXCEPT ![w] = TRUE]
    /\ Sweep
    /\ Prune
    /\ UNCHANGED <<req, pc, got, reply, row, paperless, cleared, trashed, job>>

\* STALE_PART_SECONDS pass without a write to the .part of u.
Age(u) ==
    /\ part[u] = "young"
    /\ part' = [part EXCEPT ![u] = "old"]
    /\ UNCHANGED <<req, pc, got, reply, pdf, json, row, paperless, cleared, trashed, job, up>>

-----------------------------------------------------------------------------
(* Outside this repository: the ingest worker, people, Paperless.  The      *)
(* worker is modelled from the functions it calls here: list_pending,       *)
(* mark_ingested, mark_failed; one worker, restarted when it dies.          *)

\* list_pending: a PDF of pending/; its md5 is known only from the sidecar.
TakePending(s) ==
    /\ job = NoJob
    /\ s \in pdf["pending"]
    /\ job' = [stage |-> "taken", stem |-> s,
               known |-> s \in json["pending"], verdict |-> "pending"]
    /\ UNCHANGED <<req, pc, got, reply, part, pdf, json, row, paperless, cleared, trashed, up>>

\* Paperless takes the bytes as a new document, or the upload has failed.
Decide(verdict) ==
    /\ job.stage = "taken"
    /\ job' = [job EXCEPT !.stage = "decided", !.verdict = verdict]
    /\ paperless' = IF verdict = "ingested" THEN paperless \cup {job.stem.bytes}
                                            ELSE paperless
    /\ UNCHANGED <<req, pc, got, reply, part, pdf, json, row, cleared, trashed, up>>

MoveStem(dirs, s, d) == [dirs EXCEPT !["pending"] = @ \ {s}, ![d] = @ \cup {s}]

\* The PDF, and its sidecar if there is one by now, go to their directory.
FileAway ==
    /\ job.stage = "decided"
    /\ pdf' = MoveStem(pdf, job.stem, job.verdict)
    /\ json' = IF job.stem \in json["pending"]
                 THEN MoveStem(json, job.stem, job.verdict)
                 ELSE json
    /\ job' = [job EXCEPT !.stage = "filed"]
    /\ UNCHANGED <<req, pc, got, reply, part, row, paperless, cleared, trashed, up>>

\* Mutant: every file that has left pending/ is marked ingested.
MarkRowIngested ==
    /\ job.stage = "filed"
    /\ row' = [row EXCEPT ![job.stem.bytes] = IF @ = "none" THEN @ ELSE "ingested"]
    /\ job' = NoJob
    /\ UNCHANGED <<req, pc, got, reply, part, pdf, json, paperless, cleared, trashed, up>>

\* mark_ingested or mark_failed: only a row that exists, found by its md5.
MarkRow ==
    /\ job.stage = "filed"
    /\ \/ /\ job.known /\ row[job.stem.bytes] # "none"
          /\ row' = [row EXCEPT ![job.stem.bytes] =
                        IF job.verdict = "ingested" THEN "ingested" ELSE "failed"]
       \/ /\ ~job.known \/ row[job.stem.bytes] = "none" \/ "db" \in Faults
          /\ UNCHANGED row
    /\ job' = NoJob
    /\ UNCHANGED <<req, pc, got, reply, part, pdf, json, paperless, cleared, trashed, up>>

WorkerDies ==
    /\ job # NoJob
    /\ job' = NoJob
    /\ UNCHANGED <<req, pc, got, reply, part, pdf, json, row, paperless, cleared, trashed, up>>

IngestStep == \/ \E s \in Stem : TakePending(s)
              \/ \E verdict \in Verdicts : Decide(verdict)
              \/ FileAway \/ MarkRow \/ WorkerDies

\* A person deals with a file in a directory kept for people: PDF and sidecar.
Clear(d, s) ==
    /\ Clearing
    /\ d \in {"failed", "quarantine", "unmatched", "partial"}
    /\ s \in pdf[d]
    /\ pdf' = [pdf EXCEPT ![d] = @ \ {s}]
    /\ json' = [json EXCEPT ![d] = @ \ {s}]
    /\ cleared' = cleared \cup {s.bytes}
    /\ UNCHANGED <<req, pc, got, reply, part, row, paperless, trashed, job, up>>

\* A superseded revision is trashed in Paperless.
Trash(b) ==
    /\ Trashing
    /\ b \in paperless
    /\ paperless' = paperless \ {b}
    /\ trashed' = trashed \cup {b}
    /\ UNCHANGED <<req, pc, got, reply, part, pdf, json, row, cleared, job, up>>

-----------------------------------------------------------------------------

Next ==
    \/ \E u \in Uploads : PutStep(u) \/ Age(u)
    \/ \E w \in Workers : Crash(w) \/ Start(w)
    \/ IngestStep
    \/ \E d \in Subdirs : \E s \in pdf[d] : Clear(d, s)
    \/ \E b \in paperless : Trash(b)

Spec == Init /\ [][Next]_vars

-----------------------------------------------------------------------------
(* Properties.                                                              *)

\* A PUT that was answered with success and had a body: the bytes are in the
\* spool or in Paperless, from then on (begin_write: "accept a PUT into the
\* spool, or refuse it -- but never discard it"), unless people have taken these
\* bytes out of the spool or trashed the document.
SavedBytesHeld ==
    \A u \in Uploads : reply[u] = "ok" /\ got[u] # 0 => Body(u) \in Accounted

\* A body shorter than its Content-Length is never answered with success
\* (end_write: "a short body must never be answered 204").
ShortBodyNeverSaved ==
    \A u \in Uploads : reply[u] = "ok" /\ req[u].declared
                        => got[u] = Length[req[u].file]

\* An index row that says "ingested" proves that exactly these bytes became a
\* Paperless document (upload_ingested), which is there unless it was trashed,
\* although the row is written by another process, after the file was moved, and
\* over rows of other uploads.
IngestedRowIsADocument ==
    \A b \in Bytes : row[b] = "ingested" => b \in WereDocuments

\* The quota is checked before the bytes arrive, so PUTs that pass the check
\* together overshoot it; by no more than one upload per handler thread.
QuotaOvershoot ==
    SpoolMax # 0 /\ MaxUpload # 0
        => Usage <= (SpoolMax - 1) + Handlers * MaxUpload

OnDisk(u) == part[u] # "none" \/ Body(u) \in InSpool

\* Once end_write has the bytes on disk, an answer other than success leaves
\* them there (spool.py: "nothing is ever deleted on failure").
FailureKeepsBytes ==
    [][\A u \in Uploads :
         /\ pc[u] \in {"received", "parked", "checked", "unpublished", "published", "indexing"}
         /\ reply'[u] \in {"incomplete", "error", "lost"}
         /\ OnDisk(u)
         => OnDisk(u)']_vars

\* finalize: "a crash cannot leave a pending file whose provenance is unknown":
\* the sidecar is there, or the handler that published the file is about to
\* write it.
PendingHasProvenance ==
    \A s \in pdf["pending"] :
        \/ s \in json["pending"]
        \/ \E u \in Uploads : pc[u] = "published" /\ Target(u) = s

\* end_write: "only discard when the bytes are provably still held somewhere"
\* (upload_ingested: "only an ingested row proves the bytes survive somewhere").
DiscardOnlyWhatIsHeld ==
    [][\A u \in Uploads :
         pc[u] = "received" /\ reply'[u] = "ok" /\ got[u] # 0
         => Body(u) \in Held]_vars

\* What accounts for the bytes while they are on the move: a handler answers once
\* and last, and until then has renamed its bytes; so have bytes been taken in that
\* a sidecar, the worker's job or a file that prune may delete is named for.
AnsweredIsDone == \A u \in Uploads : reply[u] # "none" => pc[u] = "done"
UnderWay == \A u \in Uploads : pc[u] \in {"parked", "published", "indexing"}
                                  => Body(u) \in Accounted
SidecarsHeld == \A d \in Subdirs : \A s \in json[d] : s.bytes \in Accounted
IngestedAreDocuments == \A s \in pdf["ingested"] : s.bytes \in WereDocuments
JobInHand ==
    /\ job.stage = "taken" => job.stem \in pdf["pending"]
    /\ job.stage = "decided" => job.stem \in pdf["pending"] /\ job.verdict \in Verdicts
    /\ job.stage \in {"decided", "filed"} /\ job.verdict = "ingested"
         => job.stem.bytes \in WereDocuments

IndInv == /\ TypeOK
          /\ SavedBytesHeld
          /\ AnsweredIsDone
          /\ UnderWay
          /\ SidecarsHeld
          /\ IngestedAreDocuments
          /\ IngestedRowIsADocument
          /\ JobInHand

\* What stands behind an answer of success: past the check of end_write, a body
\* with a Content-Length has all of its length.
CheckedIsWhole ==
    \A u \in Uploads :
        pc[u] \in {"checked", "unpublished", "published", "indexing"} /\ req[u].declared
            => got[u] = Length[req[u].file]

WholeInv == TypeOK /\ AnsweredIsDone /\ CheckedIsWhole /\ ShortBodyNeverSaved

\* What stands behind the bound of the overshoot, with both limits set: an upload that is being
\* received claims all of MaxUpload, one that has been received what is on disk;
\* claims are made one per handler thread, below the quota.
Claim(u) == IF pc[u] = "writing" THEN MaxUpload
            ELSE IF part[u] = "none" THEN 0 ELSE got[u]
Claims == UNION {{u} \X (1 .. Claim(u)) : u \in Uploads}
Finite == IsFiniteSet(InFlight) /\ IsFiniteSet(Claims) /\ IsFiniteSet(PendingChunks)
WithinHandlers == Cardinality(InFlight) <= Handlers
WithinLimit == \A u \in Uploads : got[u] <= MaxUpload
VerdictKnown == job.stage = "decided" => job.verdict \in Verdicts
ClaimsBounded == Cardinality(Claims) + Cardinality(PendingChunks)
                    <= (SpoolMax - 1) + Handlers * MaxUpload

QuotaInv == TypeOK /\ Finite /\ WithinHandlers /\ WithinLimit /\ VerdictKnown /\ ClaimsBounded

\* The spool implements the ledger of its promises.
Saved == [u \in Uploads |-> IF reply[u] = "ok" THEN {Body(u)} ELSE {}]
NoBytes == {b \in Bytes : b.size = 0}
Ledger == INSTANCE UploadLedger
            WITH Empty <- NoBytes, kept <- Held, removed <- Removed, saved <- Saved
ImplementsLedger == Ledger!LedgerSpec
=============================================================================
