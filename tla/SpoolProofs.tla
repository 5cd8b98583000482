---------------------------- MODULE SpoolProofs -----------------------------
(***************************************************************************)
(* Theorems of Spool, for any set of uploads, replicas, files, limits and  *)
(* faults, whatever people clear and trash.  DiscardsAreHeld alone is only *)
(* true while they do not; SpoolCleared.cfg and SpoolTrashed.cfg show what *)
(* can happen otherwise.                                                   *)
(***************************************************************************)
EXTENDS Spool, FiniteSetTheorems, TLAPS

\* A body is always one of the byte strings the model speaks of.
LEMMA BodyInBytes ==
    ASSUME TypeOK, NEW u \in Uploads
    PROVE  /\ Body(u) \in Bytes
           /\ Body(u) = [file |-> req[u].file, size |-> got[u]]
           /\ req[u] \in Request
<1>1. req[u] \in Request
  BY SpoolAssumption DEF TypeOK
<1>2. req[u].file \in Files /\ got[u] \in 0 .. Length[req[u].file]
  BY <1>1, SpoolAssumption DEF TypeOK, Request
<1>3. Body(u) \in {Prefix(req[u].file, n) : n \in 0 .. Length[req[u].file]}
  BY <1>2 DEF Body
<1>4. Body(u) \in Bytes
  BY <1>2, <1>3 DEF Bytes
<1> QED BY <1>1, <1>4 DEF Body, Prefix

\* The names given to files are stems.
LEMMA StemsOfUpload ==
    ASSUME TypeOK, NEW u \in Uploads
    PROVE  /\ NamedFor(u, Body(u)) \in Stem
           /\ Target(u) \in Stem
           /\ NamedFor(u, Body(u)).bytes = Body(u)
           /\ Target(u).bytes = Body(u)
BY BodyInBytes DEF NamedFor, Target, Stem, Request

-----------------------------------------------------------------------------
(* Type correctness.                                                        *)

LEMMA TypeInit == Init => TypeOK
BY SpoolAssumption DEF Init, TypeOK, Request, Steps, Replies, Status

LEMMA TypeWrite ==
    ASSUME TypeOK, NEW u \in Uploads, Write(u)
    PROVE  TypeOK'
<1>1. got' = [got EXCEPT ![u] = got[u] + 1] /\ got[u] < Length[req[u].file]
  BY DEF Write
<1>2. UNCHANGED <<req, pc, reply, pdf, json, row, paperless, cleared, trashed, job, up>>
  BY DEF Write
<1>3. got \in [Uploads -> Nat]
  BY DEF TypeOK
<1>4. got' \in [Uploads -> Nat]
  BY <1>1, <1>3
<1>5. \A v \in Uploads : got'[v] <= Length[req'[v].file]
  <2> SUFFICES ASSUME NEW v \in Uploads PROVE got'[v] <= Length[req[v].file]
    BY <1>2
  <2>1. got[v] <= Length[req[v].file] /\ Length[req[v].file] \in Nat
    BY BodyInBytes, SpoolAssumption DEF TypeOK, Request
  <2> QED BY <2>1, <1>1, <1>3
<1>6. part' \in [Uploads -> {"none", "young", "old"}]
  BY DEF Write, TypeOK
<1> QED BY <1>2, <1>4, <1>5, <1>6 DEF TypeOK

\* begin_write and the stream.
LEMMA TypeStream ==
    ASSUME TypeOK, NEW u \in Uploads,
           \/ RefuseAnnotatedCopy(u) \/ RefuseFull(u) \/ BeginWrite(u)
           \/ Write(u) \/ WriteTooLarge(u) \/ StreamError(u) \/ EndOfBody(u)
    PROVE  TypeOK'
<1> USE SpoolAssumption DEF TypeOK, Steps, Replies, Answer, Goto, Abort
<1>1. CASE RefuseAnnotatedCopy(u)  BY <1>1 DEF RefuseAnnotatedCopy
<1>2. CASE RefuseFull(u)           BY <1>2 DEF RefuseFull
<1>3. CASE BeginWrite(u)           BY <1>3 DEF BeginWrite
<1>4. CASE Write(u)
  BY <1>4, TypeWrite
<1>5. CASE WriteTooLarge(u)        BY <1>5 DEF WriteTooLarge
<1>6. CASE StreamError(u)          BY <1>6 DEF StreamError
<1>7. CASE EndOfBody(u)            BY <1>7 DEF EndOfBody
<1> QED BY <1>1, <1>2, <1>3, <1>4, <1>5, <1>6, <1>7

LEMMA TypeSidecar ==
    ASSUME TypeOK, NEW d \in Subdirs, NEW s \in Stem,
           WriteSidecar(d, s) \/ UNCHANGED json
    PROVE  json' \in [Subdirs -> SUBSET Stem]
<1>1. CASE WriteSidecar(d, s)
  <2>1. json \in [Subdirs -> SUBSET Stem] /\ json[d] \cup {s} \in SUBSET Stem
    BY DEF TypeOK
  <2> QED BY <2>1, <1>1 DEF WriteSidecar
<1>2. CASE UNCHANGED json
  BY <1>2 DEF TypeOK
<1> QED BY <1>1, <1>2

LEMMA TypeRename ==
    ASSUME TypeOK, NEW u \in Uploads, NEW d \in Subdirs, NEW s \in Stem,
           Rename(u, d, s)
    PROVE  /\ part' \in [Uploads -> {"none", "young", "old"}]
           /\ pdf' \in [Subdirs -> SUBSET Stem]
<1>1. pdf \in [Subdirs -> SUBSET Stem] /\ pdf[d] \cup {s} \in SUBSET Stem
  BY DEF TypeOK
<1>2. pdf' \in [Subdirs -> SUBSET Stem]
  BY <1>1 DEF Rename
<1> QED BY <1>2 DEF Rename, TypeOK

\* end_write.
LEMMA TypeEndWrite ==
    ASSUME TypeOK, NEW u \in Uploads,
           \/ Park(u) \/ ParkFails(u) \/ ParkSidecar(u)
           \/ EmptyBody(u) \/ Duplicate(u) \/ NotHeld(u)
           \/ Publish(u) \/ PublishFails(u) \/ Rescue(u)
           \/ PublishSidecar(u) \/ Record(u)
    PROVE  TypeOK'
<1> USE DEF TypeOK, Steps, Replies, Answer, Goto, Abort
<1>0. /\ NamedFor(u, Body(u)) \in Stem /\ Target(u) \in Stem /\ Body(u) \in Bytes
      /\ {"pending", "partial", "failed"} \subseteq Subdirs
  BY StemsOfUpload, BodyInBytes DEF Subdirs
<1>1. CASE Park(u)            BY <1>0, <1>1 DEF Park, Rename
<1>2. CASE ParkFails(u)       BY <1>2 DEF ParkFails
<1>3. CASE ParkSidecar(u)
  <2>1. json' \in [Subdirs -> SUBSET Stem]
    <3>1. WriteSidecar("partial", NamedFor(u, Body(u))) \/ UNCHANGED json
      BY <1>3 DEF ParkSidecar
    <3> QED BY ONLY <3>1, <1>0, TypeSidecar, TypeOK
  <2>2. pc' \in [Uploads -> Steps] /\ reply' \in [Uploads -> Replies]
    BY <1>3 DEF ParkSidecar
  <2> QED BY <1>3, <2>1, <2>2 DEF ParkSidecar
<1>4. CASE EmptyBody(u)       BY <1>4 DEF EmptyBody
<1>5. CASE Duplicate(u)       BY <1>5 DEF Duplicate
<1>6. CASE NotHeld(u)         BY <1>6 DEF NotHeld
<1>7. CASE Publish(u)         BY <1>0, <1>7 DEF Publish, Rename
<1>8. CASE PublishFails(u)    BY <1>8 DEF PublishFails
<1>9. CASE Rescue(u)
  <2>1. part' \in [Uploads -> {"none", "young", "old"}] /\ pdf' \in [Subdirs -> SUBSET Stem]
    <3>1. CASE Rename(u, "failed", NamedFor(u, Body(u)))
      BY ONLY <3>1, <1>0, TypeRename, TypeOK
    <3>2. CASE UNCHANGED <<part, pdf>>
      BY <3>2
    <3> QED BY <1>9, <3>1, <3>2 DEF Rescue
  <2>2. pc' \in [Uploads -> Steps] /\ reply' \in [Uploads -> Replies]
    BY <1>9 DEF Rescue
  <2> QED BY <1>9, <2>1, <2>2 DEF Rescue
<1>10. CASE PublishSidecar(u)
  <2>1. json' \in [Subdirs -> SUBSET Stem]
    <3>1. WriteSidecar("pending", Target(u)) \/ UNCHANGED json
      BY <1>10 DEF PublishSidecar
    <3> QED BY ONLY <3>1, <1>0, TypeSidecar, TypeOK
  <2> QED BY <1>10, <2>1 DEF PublishSidecar
<1>11. CASE Record(u)         BY <1>0, <1>11 DEF Record, Status
<1> QED BY <1>1, <1>2, <1>3, <1>4, <1>5, <1>6, <1>7, <1>8, <1>9, <1>10, <1>11

\* Replicas, time, the ingest worker, people.
LEMMA TypeOthers ==
    ASSUME TypeOK,
           \/ \E u \in Uploads : Age(u)
           \/ \E w \in Workers : Crash(w) \/ Start(w)
           \/ IngestStep
           \/ \E d \in Subdirs : \E s \in pdf[d] : Clear(d, s)
           \/ \E b \in paperless : Trash(b)
    PROVE  TypeOK'
<1> USE DEF TypeOK
<1>1. ASSUME NEW u \in Uploads, Age(u) PROVE TypeOK'
  BY <1>1 DEF Age
<1>2. ASSUME NEW w \in Workers, Crash(w) PROVE TypeOK'
  BY <1>2 DEF Crash, Steps, Replies
<1>3. ASSUME NEW w \in Workers, Start(w) PROVE TypeOK'
  BY <1>3 DEF Start, Sweep, Prune, Subdirs
<1>4. ASSUME NEW s \in Stem, TakePending(s) PROVE TypeOK'
  BY <1>4 DEF TakePending, Job, Subdirs
<1>5. ASSUME NEW verdict \in Verdicts, Decide(verdict) PROVE TypeOK'
  <2>1. job \in Job
    BY <1>5 DEF Decide, NoJob
  <2>2. verdict \in Subdirs
    BY SpoolAssumption DEF Subdirs
  <2>3. job.stem.bytes \in Bytes
    BY <2>1 DEF Job, Stem
  <2> QED BY <1>5, <2>1, <2>2, <2>3 DEF Decide, Job
<1>6. CASE FileAway
  <2>1. job \in Job
    BY <1>6 DEF FileAway, NoJob
  <2>2. job.stem \in Stem /\ job.verdict \in Subdirs
    BY <2>1 DEF Job
  <2> QED BY <1>6, <2>1, <2>2 DEF FileAway, MoveStem, Job, Subdirs
<1>7. CASE MarkRow
  <2>1. job.stem.bytes \in Bytes
    BY <1>7 DEF MarkRow, NoJob, Job, Stem
  <2> QED BY <1>7, <2>1 DEF MarkRow, Status
<1>8. CASE WorkerDies  BY <1>8 DEF WorkerDies
<1>9. ASSUME NEW d \in Subdirs, NEW s \in pdf[d], Clear(d, s) PROVE TypeOK'
  <2>1. s \in Stem /\ s.bytes \in Bytes
    BY DEF Stem
  <2> QED BY <1>9, <2>1 DEF Clear, Subdirs
<1>10. ASSUME NEW b \in paperless, Trash(b) PROVE TypeOK'
  BY <1>10 DEF Trash
<1> QED BY <1>1, <1>2, <1>3, <1>4, <1>5, <1>6, <1>7, <1>8, <1>9, <1>10 DEF IngestStep

LEMMA TypeStep == TypeOK /\ [Next]_vars => TypeOK'
<1> SUFFICES ASSUME TypeOK, [Next]_vars PROVE TypeOK'
  OBVIOUS
<1>1. ASSUME NEW u \in Uploads, PutStep(u) PROVE TypeOK'
  BY <1>1, TypeStream, TypeEndWrite DEF PutStep, HandlerStep
<1>2. CASE UNCHANGED vars
  BY <1>2 DEF vars, TypeOK
<1> QED BY <1>1, <1>2, TypeOthers DEF Next

\* Type correctness of the spool: sizes never pass the length of the body,
\* every directory holds stems only, every status is one the code writes.
THEOREM TypeCorrect == Spec => []TypeOK
<1> QED BY TypeInit, TypeStep, PTL DEF Spec

-----------------------------------------------------------------------------
(* What a step can change.                                                  *)

\* A body changes only while it is being written.
LEMMA BodiesStay ==
    ASSUME TypeOK, [Next]_vars, NEW v \in Uploads, pc[v] # "writing"
    PROVE  req'[v] = req[v] /\ got'[v] = got[v] /\ Body(v)' = Body(v)
<1>1. req' = req /\ got'[v] = got[v]
  <2>1. ASSUME NEW u \in Uploads, PutStep(u) PROVE req' = req /\ got'[v] = got[v]
    BY <2>1 DEF PutStep, HandlerStep, TypeOK,
         RefuseAnnotatedCopy, RefuseFull, BeginWrite, Write, WriteTooLarge,
         StreamError, EndOfBody, Park, ParkFails, ParkSidecar, EmptyBody,
         Duplicate, NotHeld, Publish, PublishFails, Rescue, PublishSidecar, Record
  <2>2. ASSUME NEW u \in Uploads, Age(u) PROVE req' = req /\ got'[v] = got[v]
    BY <2>2 DEF Age
  <2>3. ASSUME NEW w \in Workers, Crash(w) \/ Start(w)
        PROVE  req' = req /\ got'[v] = got[v]
    BY <2>3 DEF Crash, Start
  <2>4. CASE IngestStep
    BY <2>4 DEF IngestStep, TakePending, Decide, FileAway, MarkRow, WorkerDies
  <2>5. CASE (\E d \in Subdirs : \E s \in pdf[d] : Clear(d, s)) \/ \E b \in paperless : Trash(b)
    BY <2>5 DEF Clear, Trash
  <2>6. CASE UNCHANGED vars
    BY <2>6 DEF vars
  <2> QED BY <2>1, <2>2, <2>3, <2>4, <2>5, <2>6 DEF Next
<1> QED BY <1>1 DEF Body

\* A handler's answer changes once, from "none", when the handler ends; only
\* three actions answer success.
LEMMA AnswersOnce ==
    ASSUME TypeOK, AnsweredIsDone, [Next]_vars, NEW v \in Uploads
    PROVE  /\ reply'[v] # reply[v] => reply[v] = "none" /\ pc'[v] = "done"
           /\ pc[v] = "done" => pc'[v] = "done"
           /\ reply'[v] = "ok" /\ reply[v] # "ok"
                => EmptyBody(v) \/ Duplicate(v) \/ Record(v)
<1> DEFINE Goal == /\ reply'[v] # reply[v] => reply[v] = "none" /\ pc'[v] = "done"
                   /\ pc[v] = "done" => pc'[v] = "done"
                   /\ reply'[v] = "ok" /\ reply[v] # "ok"
                        => EmptyBody(v) \/ Duplicate(v) \/ Record(v)
<1>0. reply[v] # "none" => pc[v] = "done"
  BY DEF AnsweredIsDone
<1>1. ASSUME NEW u \in Uploads, PutStep(u) PROVE Goal
  <2> USE <1>0 DEF TypeOK, Accepted, Answer, Goto
  <2>1. CASE EmptyBody(u) \/ Duplicate(u) \/ Record(u)
    BY <2>1 DEF EmptyBody, Duplicate, Record
  <2>2. CASE \/ RefuseAnnotatedCopy(u) \/ RefuseFull(u) \/ BeginWrite(u)
             \/ Write(u) \/ WriteTooLarge(u) \/ StreamError(u) \/ EndOfBody(u)
    BY <2>2 DEF RefuseAnnotatedCopy, RefuseFull, BeginWrite, Write,
                WriteTooLarge, StreamError, EndOfBody
  <2>3. CASE Park(u) \/ ParkFails(u) \/ ParkSidecar(u) \/ NotHeld(u)
    BY <2>3 DEF Park, ParkFails, ParkSidecar, NotHeld
  <2>4. CASE Publish(u) \/ PublishFails(u) \/ Rescue(u) \/ PublishSidecar(u)
    BY <2>4 DEF Publish, PublishFails, Rescue, PublishSidecar
  <2> QED BY <1>1, <2>1, <2>2, <2>3, <2>4 DEF PutStep, HandlerStep
<1>2. ASSUME NEW u \in Uploads, Age(u) PROVE Goal
  BY <1>2 DEF Age
<1>3. ASSUME NEW w \in Workers, Crash(w) PROVE Goal
  BY <1>0, <1>3 DEF Crash, InFlight
<1>4. ASSUME NEW w \in Workers, Start(w) PROVE Goal
  BY <1>4 DEF Start
<1>5. CASE IngestStep
  BY <1>5 DEF IngestStep, TakePending, Decide, FileAway, MarkRow, WorkerDies
<1>6. CASE (\E d \in Subdirs : \E s \in pdf[d] : Clear(d, s)) \/ \E b \in paperless : Trash(b)
  BY <1>6 DEF Clear, Trash
<1>7. CASE UNCHANGED vars
  BY <1>7 DEF vars
<1> QED BY <1>1, <1>2, <1>3, <1>4, <1>5, <1>6, <1>7 DEF Next

\* PUTs, time and the ingest worker up to its filing only add PDFs; they add
\* the one a handler renames.
LEMMA PutsAddFiles ==
    ASSUME TypeOK, NEW u \in Uploads, PutStep(u)
    PROVE  /\ \A d \in Subdirs : pdf[d] \subseteq pdf'[d]
           /\ pdf'["ingested"] = pdf["ingested"]
           /\ UNCHANGED <<paperless, cleared, trashed, job, up>>
<1> USE DEF TypeOK, Subdirs
<1>1. CASE Park(u) \/ Publish(u) \/ Rescue(u)
  BY <1>1 DEF Park, Publish, Rescue, Rename
<1>2. CASE ~(Park(u) \/ Publish(u) \/ Rescue(u))
  BY <1>2 DEF PutStep, HandlerStep, RefuseAnnotatedCopy, RefuseFull, BeginWrite, Write,
       WriteTooLarge, StreamError, EndOfBody, ParkFails, ParkSidecar,
       EmptyBody, Duplicate, NotHeld, PublishFails, PublishSidecar, Record
<1> QED BY <1>1, <1>2

\* If no PDF and no document goes away, no bytes go away.
LEMMA NothingRemoved ==
    ASSUME TypeOK, \A d \in Subdirs : pdf[d] \subseteq pdf'[d],
           paperless \subseteq paperless'
    PROVE  Held \subseteq Held'
BY DEF Held, InSpool

LEMMA HeldAreBytes == TypeOK => Held \subseteq Bytes
BY DEF TypeOK, Held, InSpool

\* The bytes of a stem in a directory are held.
LEMMA StemsAreHeld ==
    ASSUME TypeOK, NEW d \in Subdirs, NEW s \in pdf[d]
    PROVE  s.bytes \in Held
BY DEF TypeOK, Held, InSpool, Stem

\* Pruning deletes only copies of what Paperless has, or had and people trashed.
LEMMA StartKeepsBytes ==
    ASSUME TypeOK, IngestedAreDocuments, NEW w \in Workers, Start(w)
    PROVE  /\ Held \subseteq Held' \cup trashed
           /\ pdf'["ingested"] \subseteq pdf["ingested"]
           /\ UNCHANGED <<paperless, cleared, trashed>>
<1>1. PICK old \in SUBSET pdf["ingested"] : pdf' = [pdf EXCEPT !["ingested"] = @ \ old]
  BY DEF Start, Prune
<1>2. UNCHANGED <<paperless, cleared, trashed>>
  BY DEF Start
<1>3. pdf \in [Subdirs -> SUBSET Stem] /\ "ingested" \in Subdirs
  BY DEF TypeOK, Subdirs
<1>4. ASSUME NEW b \in Held, b \notin trashed PROVE b \in Held'
  <2>1. CASE b \in paperless
    BY <2>1, <1>2 DEF Held
  <2>2. CASE b \notin paperless
    <3>1. PICK d \in Subdirs : \E s \in pdf[d] : s.bytes = b
      BY <2>2 DEF Held, InSpool
    <3>2. PICK s \in pdf[d] : s.bytes = b
      BY <3>1
    <3>3. d # "ingested"
      BY <1>4, <3>2, <2>2 DEF IngestedAreDocuments, WereDocuments
    <3>4. s \in pdf'[d]
      BY <1>1, <1>3, <3>2, <3>3
    <3> QED BY <3>2, <3>4, <2>2 DEF Held, InSpool
  <2> QED BY <2>1, <2>2
<1> QED BY <1>1, <1>2, <1>3, <1>4

\* Filing moves a PDF; it does not lose it.
LEMMA FileAwayKeepsBytes ==
    ASSUME TypeOK, JobInHand, FileAway
    PROVE  /\ Held \subseteq Held'
           /\ \A s \in pdf'["ingested"] : s \in pdf["ingested"]
                    \/ (job.verdict = "ingested" /\ s = job.stem)
<1> DEFINE s0 == job.stem
           v0 == job.verdict
<1>1. job \in Job /\ s0 \in Stem /\ v0 \in Verdicts /\ v0 \in Subdirs /\ v0 # "pending"
  BY SpoolAssumption DEF FileAway, TypeOK, NoJob, Job, JobInHand, Subdirs
<1>2. pdf \in [Subdirs -> SUBSET Stem] /\ {"pending", "ingested"} \subseteq Subdirs
  BY DEF TypeOK, Subdirs
<1>3. pdf' = MoveStem(pdf, s0, v0) /\ UNCHANGED paperless
  BY DEF FileAway
<1> HIDE DEF s0, v0
<1>4. \A d \in Subdirs : pdf'[d] = IF d = v0 THEN pdf[d] \cup {s0}
                                   ELSE IF d = "pending" THEN pdf[d] \ {s0} ELSE pdf[d]
  BY <1>1, <1>2, <1>3 DEF MoveStem
<1>5. ASSUME NEW b \in Held PROVE b \in Held'
  <2>1. CASE b \in paperless
    BY <2>1, <1>3 DEF Held
  <2>2. CASE b \notin paperless
    <3>1. PICK d \in Subdirs : \E s \in pdf[d] : s.bytes = b
      BY <2>2 DEF Held, InSpool
    <3>2. PICK s \in pdf[d] : s.bytes = b
      BY <3>1
    <3>3. \E e \in Subdirs : s \in pdf'[e]
      BY <1>1, <1>4, <3>2
    <3> QED BY <3>2, <3>3, <2>2 DEF Held, InSpool
  <2> QED BY <2>1, <2>2
<1>6. \A s \in pdf'["ingested"] : s \in pdf["ingested"] \/ (v0 = "ingested" /\ s = s0)
  BY <1>2, <1>4
<1> QED BY <1>5, <1>6 DEF s0, v0

\* What people take away is one body, and it is recorded.
LEMMA PeopleRemoveOne ==
    ASSUME TypeOK,
           (\E d \in Subdirs : \E s \in pdf[d] : Clear(d, s)) \/ \E b \in paperless : Trash(b)
    PROVE  /\ \E b \in Held : /\ Removed' = Removed \cup {b}
                              /\ Held \ {b} \subseteq Held' /\ Held' \subseteq Held
           /\ WereDocuments \subseteq WereDocuments'
<1>1. ASSUME NEW d \in Subdirs, NEW s \in pdf[d], Clear(d, s)
      PROVE  /\ s.bytes \in Held /\ Removed' = Removed \cup {s.bytes}
             /\ Held \ {s.bytes} \subseteq Held' /\ Held' \subseteq Held
             /\ WereDocuments' = WereDocuments
  <2>1. s.bytes \in Held
    BY StemsAreHeld
  <2>2. /\ pdf' = [pdf EXCEPT ![d] = pdf[d] \ {s}]
        /\ cleared' = cleared \cup {s.bytes} /\ UNCHANGED <<paperless, trashed>>
    BY <1>1 DEF Clear
  <2>3. pdf \in [Subdirs -> SUBSET Stem]
    BY DEF TypeOK
  <2>4. \A e \in Subdirs : \A t \in pdf[e] : t # s => t \in pdf'[e]
    BY <2>2, <2>3
  <2>5. \A e \in Subdirs : pdf'[e] \subseteq pdf[e]
    BY <2>2, <2>3
  <2>6. Held \ {s.bytes} \subseteq Held'
    BY <2>2, <2>4 DEF Held, InSpool
  <2>7. Held' \subseteq Held
    BY <2>2, <2>5 DEF Held, InSpool
  <2> QED BY <2>1, <2>2, <2>6, <2>7 DEF Removed, WereDocuments
<1>2. ASSUME NEW b \in paperless, Trash(b)
      PROVE  /\ b \in Held /\ Removed' = Removed \cup {b}
             /\ Held \ {b} \subseteq Held' /\ Held' \subseteq Held
             /\ WereDocuments \subseteq WereDocuments'
  <2>1. /\ paperless' = paperless \ {b} /\ trashed' = trashed \cup {b}
        /\ UNCHANGED <<pdf, cleared>>
    BY <1>2 DEF Trash
  <2> QED BY <2>1 DEF Held, InSpool, Removed, WereDocuments
<1> QED BY <1>1, <1>2

\* Nothing the program does makes bytes disappear, but for copies of documents
\* that people have trashed.
LEMMA ProgramKeepsBytes ==
    ASSUME IndInv, [Next]_vars,
           ~\E d \in Subdirs : \E s \in pdf[d] : Clear(d, s),
           ~\E b \in paperless : Trash(b)
    PROVE  /\ Held \subseteq Held' \cup trashed
           /\ paperless \subseteq paperless'
           /\ UNCHANGED <<cleared, trashed>>
<1> DEFINE Goal == /\ Held \subseteq Held' \cup trashed
                   /\ paperless \subseteq paperless'
                   /\ UNCHANGED <<cleared, trashed>>
<1> USE DEF IndInv
<1>1. ASSUME NEW u \in Uploads, PutStep(u) PROVE Goal
  BY <1>1, PutsAddFiles, NothingRemoved
<1>2. ASSUME NEW u \in Uploads, Age(u) PROVE Goal
  BY <1>2, NothingRemoved DEF Age
<1>3. ASSUME NEW w \in Workers, Crash(w) PROVE Goal
  BY <1>3, NothingRemoved DEF Crash
<1>4. ASSUME NEW w \in Workers, Start(w) PROVE Goal
  BY <1>4, StartKeepsBytes
<1>5. CASE IngestStep
  <2>1. CASE FileAway
    BY <2>1, FileAwayKeepsBytes DEF FileAway
  <2>2. CASE ~FileAway
    BY <1>5, <2>2, NothingRemoved DEF IngestStep, TakePending, Decide, MarkRow, WorkerDies
  <2> QED BY <2>1, <2>2
<1>6. CASE UNCHANGED vars
  BY <1>6, NothingRemoved DEF vars
<1> QED BY <1>1, <1>2, <1>3, <1>4, <1>5, <1>6 DEF Next

\* Bytes that are accounted for stay so, and what was a document has been one.
LEMMA StepAccounts ==
    ASSUME IndInv, [Next]_vars
    PROVE  Accounted \subseteq Accounted' /\ WereDocuments \subseteq WereDocuments'
<1>1. CASE (\E d \in Subdirs : \E s \in pdf[d] : Clear(d, s)) \/ \E b \in paperless : Trash(b)
  BY <1>1, PeopleRemoveOne DEF IndInv, Accounted
<1>2. CASE ~((\E d \in Subdirs : \E s \in pdf[d] : Clear(d, s)) \/ \E b \in paperless : Trash(b))
  BY <1>2, ProgramKeepsBytes DEF Accounted, Removed, WereDocuments
<1> QED BY <1>1, <1>2

-----------------------------------------------------------------------------
(* The inductive invariant, conjunct by conjunct.                           *)

LEMMA IndInit == Init => IndInv
<1> SUFFICES ASSUME Init PROVE IndInv
  OBVIOUS
<1>1. TypeOK
  BY TypeInit
<1> QED BY <1>1 DEF Init, IndInv, SavedBytesHeld, AnsweredIsDone, UnderWay, SidecarsHeld,
           IngestedAreDocuments, IngestedRowIsADocument, JobInHand, NoJob, Subdirs

LEMMA SavedStep ==
    ASSUME IndInv, [Next]_vars
    PROVE  SavedBytesHeld' /\ AnsweredIsDone'
<1> USE DEF IndInv
<1>1. Accounted \subseteq Accounted'
  BY StepAccounts
<1>2. ASSUME NEW v \in Uploads, reply'[v] = "ok", got'[v] # 0
      PROVE  Body(v)' \in Accounted'
  <2>1. CASE reply[v] = "ok"
    <3>1. pc[v] = "done"
      BY <2>1 DEF AnsweredIsDone
    <3>2. Body(v)' = Body(v) /\ got'[v] = got[v]
      BY <3>1, BodiesStay
    <3> QED BY <1>1, <1>2, <2>1, <3>2 DEF SavedBytesHeld
  <2>2. CASE reply[v] # "ok"
    <3>1. EmptyBody(v) \/ Duplicate(v) \/ Record(v)
      BY <1>2, <2>2, AnswersOnce
    <3>2. Body(v)' = Body(v) /\ got'[v] = got[v]
      BY <3>1, BodiesStay DEF EmptyBody, Duplicate, Record
    <3>3. ~EmptyBody(v)
      BY <1>2, <3>2 DEF EmptyBody
    <3>4. CASE Duplicate(v)
      <4>1. CASE UploadIngested(Body(v))
        BY <4>1, BodyInBytes, <1>1, <3>2 DEF UploadIngested, IngestedRowIsADocument,
           WereDocuments, Accounted, Held, Removed
      <4>2. CASE NameHasDigest(Body(v))
        <5>1. Body(v) \in Accounted
          BY <4>2, StemsAreHeld DEF NameHasDigest, SidecarsHeld, Accounted
        <5> QED BY <5>1, <1>1, <3>2
      <4> QED BY <3>4, <4>1, <4>2 DEF Duplicate
    <3>5. CASE Record(v)
      BY <3>5, <1>1, <3>2 DEF Record, UnderWay
    <3> QED BY <3>1, <3>3, <3>4, <3>5
  <2> QED BY <2>1, <2>2
<1>3. AnsweredIsDone'
  BY AnswersOnce DEF AnsweredIsDone
<1> QED BY <1>2, <1>3 DEF SavedBytesHeld

\* A handler comes to hold a renamed file only by the rename.
LEMMA RenamedBy ==
    ASSUME TypeOK, [Next]_vars, NEW v \in Uploads,
           pc'[v] \in {"parked", "published", "indexing"}
    PROVE  pc[v] \in {"parked", "published", "indexing"} \/ Park(v) \/ Publish(v)
<1> DEFINE Goal == pc[v] \in {"parked", "published", "indexing"} \/ Park(v) \/ Publish(v)
<1>1. ASSUME NEW u \in Uploads, PutStep(u) PROVE Goal
  <2> USE DEF TypeOK, Answer, Goto
  <2>1. CASE Park(u) \/ Publish(u)
    BY <2>1 DEF Park, Publish
  <2>2. CASE ~(Park(u) \/ Publish(u))
    BY <1>1, <2>2 DEF PutStep, HandlerStep, RefuseAnnotatedCopy, RefuseFull,
         BeginWrite, Write, WriteTooLarge, StreamError, EndOfBody, ParkFails,
         ParkSidecar, EmptyBody, Duplicate, NotHeld, PublishFails, Rescue,
         PublishSidecar, Record
  <2> QED BY <2>1, <2>2
<1>2. ASSUME NEW u \in Uploads, Age(u) PROVE Goal
  BY <1>2 DEF Age
<1>3. ASSUME NEW w \in Workers, Crash(w) PROVE Goal
  BY <1>3 DEF Crash
<1>4. ASSUME NEW w \in Workers, Start(w) PROVE Goal
  BY <1>4 DEF Start
<1>5. CASE IngestStep
  BY <1>5 DEF IngestStep, TakePending, Decide, FileAway, MarkRow, WorkerDies
<1>6. CASE (\E d \in Subdirs : \E s \in pdf[d] : Clear(d, s)) \/ \E b \in paperless : Trash(b)
  BY <1>6 DEF Clear, Trash
<1>7. CASE UNCHANGED vars
  BY <1>7 DEF vars
<1> QED BY <1>1, <1>2, <1>3, <1>4, <1>5, <1>6, <1>7 DEF Next

LEMMA UnderWayStep ==
    ASSUME IndInv, [Next]_vars
    PROVE  UnderWay'
<1> USE DEF IndInv
<1> SUFFICES ASSUME NEW v \in Uploads, pc'[v] \in {"parked", "published", "indexing"}
             PROVE  Body(v)' \in Accounted'
  BY DEF UnderWay
<1>1. pc[v] # "writing" /\ (pc[v] \in {"parked", "published", "indexing"} \/ Park(v) \/ Publish(v))
  BY RenamedBy DEF Park, Publish
<1>2. Body(v)' = Body(v)
  BY <1>1, BodiesStay
<1>3. CASE pc[v] \in {"parked", "published", "indexing"}
  BY <1>3, <1>2, StepAccounts DEF UnderWay
<1>4. CASE Park(v) \/ Publish(v)
  <2>1. PICK d \in Subdirs, s \in Stem : Rename(v, d, s) /\ s.bytes = Body(v)
    BY <1>4, StemsOfUpload DEF Park, Publish, Subdirs
  <2>2. s \in pdf'[d]
    BY <2>1 DEF Rename, TypeOK
  <2> QED BY <2>1, <2>2, <1>2, BodyInBytes DEF Accounted, Held, InSpool
<1> QED BY <1>1, <1>3, <1>4

\* A sidecar is written by the handler that holds the PDF, or moved with it.
LEMMA SidecarsStep ==
    ASSUME IndInv, [Next]_vars
    PROVE  SidecarsHeld'
<1> USE DEF IndInv
<1> DEFINE Known(d) == \A s \in json'[d] :
                          \/ \E e \in Subdirs : s \in json[e]
                          \/ s.bytes \in Accounted
<1> SUFFICES ASSUME NEW d \in Subdirs PROVE Known(d)
  BY StepAccounts DEF SidecarsHeld
<1>1. ASSUME NEW u \in Uploads, PutStep(u) PROVE Known(d)
  <2>1. CASE ParkSidecar(u) \/ PublishSidecar(u)
    <3>1. Body(u) \in Accounted
      BY <2>1 DEF ParkSidecar, PublishSidecar, UnderWay
    <3>2. \A s \in json'[d] : s \in json[d] \/ s.bytes = Body(u)
      BY <2>1, StemsOfUpload DEF ParkSidecar, PublishSidecar, WriteSidecar, TypeOK
    <3> QED BY <3>1, <3>2
  <2>2. CASE ~(ParkSidecar(u) \/ PublishSidecar(u))
    BY <1>1, <2>2 DEF PutStep, HandlerStep, RefuseAnnotatedCopy, RefuseFull,
         BeginWrite, Write, WriteTooLarge, StreamError, EndOfBody, Park, ParkFails,
         EmptyBody, Duplicate, NotHeld, Publish, PublishFails, Rescue, Record
  <2> QED BY <2>1, <2>2
<1>2. ASSUME NEW u \in Uploads, Age(u) PROVE Known(d)
  BY <1>2 DEF Age
<1>3. ASSUME NEW w \in Workers, Crash(w) PROVE Known(d)
  BY <1>3 DEF Crash
<1>4. ASSUME NEW w \in Workers, Start(w) PROVE Known(d)
  BY <1>4 DEF Start, Prune, TypeOK
<1>5. CASE IngestStep
  <2>1. CASE FileAway
    <3>1. CASE json' = json
      BY <3>1
    <3>2. CASE job.stem \in json["pending"] /\ json' = MoveStem(json, job.stem, job.verdict)
      BY <3>2 DEF MoveStem, TypeOK, Subdirs
    <3> QED BY <2>1, <3>1, <3>2 DEF FileAway
  <2>2. CASE ~FileAway
    BY <1>5, <2>2 DEF IngestStep, TakePending, Decide, MarkRow, WorkerDies
  <2> QED BY <2>1, <2>2
<1>6. CASE (\E e \in Subdirs : \E s \in pdf[e] : Clear(e, s)) \/ \E b \in paperless : Trash(b)
  BY <1>6 DEF Clear, Trash, TypeOK
<1>7. CASE UNCHANGED vars
  BY <1>7 DEF vars
<1> QED BY <1>1, <1>2, <1>3, <1>4, <1>5, <1>6, <1>7 DEF Next

\* The worker's job, the files it has ingested and the rows it has marked.
LEMMA WorkerStep ==
    ASSUME IndInv, [Next]_vars
    PROVE  IngestedAreDocuments' /\ IngestedRowIsADocument' /\ JobInHand'
<1> DEFINE Goal == IngestedAreDocuments' /\ IngestedRowIsADocument' /\ JobInHand'
<1> USE DEF IndInv
<1>0. WereDocuments \subseteq WereDocuments'
  BY StepAccounts
<1>1. ASSUME NEW u \in Uploads, PutStep(u) PROVE Goal
  <2>1. /\ \A d \in Subdirs : pdf[d] \subseteq pdf'[d]
        /\ pdf'["ingested"] = pdf["ingested"]
        /\ UNCHANGED <<paperless, cleared, trashed, job, up>>
    BY <1>1, PutsAddFiles
  <2>2. \A b \in Bytes : row'[b] = "ingested" => row[b] = "ingested"
    <3>1. CASE Record(u)
      BY <3>1 DEF Record, TypeOK
    <3>2. CASE ~Record(u)
      BY <1>1, <3>2 DEF PutStep, HandlerStep, RefuseAnnotatedCopy, RefuseFull,
           BeginWrite, Write, WriteTooLarge, StreamError, EndOfBody, Park, ParkFails,
           ParkSidecar, EmptyBody, Duplicate, NotHeld, Publish, PublishFails, Rescue,
           PublishSidecar
    <3> QED BY <3>1, <3>2
  <2>3. pdf["pending"] \subseteq pdf'["pending"]
    BY <2>1 DEF Subdirs
  <2> QED BY <1>0, <2>1, <2>2, <2>3
          DEF IngestedAreDocuments, IngestedRowIsADocument, JobInHand
<1>2. ASSUME UNCHANGED <<pdf, row, job>> PROVE Goal
  BY <1>0, <1>2 DEF IngestedAreDocuments, IngestedRowIsADocument, JobInHand
<1>3. ASSUME NEW w \in Workers, Start(w) PROVE Goal
  <2>1. pdf'["ingested"] \subseteq pdf["ingested"] /\ pdf'["pending"] = pdf["pending"]
    BY <1>3, StartKeepsBytes DEF Start, Prune, TypeOK, Subdirs
  <2>2. UNCHANGED <<row, job>>
    BY <1>3 DEF Start
  <2> QED BY <1>0, <2>1, <2>2 DEF IngestedAreDocuments, IngestedRowIsADocument, JobInHand
<1>4. ASSUME NEW s \in Stem, TakePending(s) PROVE Goal
  BY <1>0, <1>4 DEF TakePending, IngestedAreDocuments, IngestedRowIsADocument, JobInHand
<1>5. ASSUME NEW verdict \in Verdicts, Decide(verdict) PROVE Goal
  <2>1. job \in Job /\ job.stage = "taken" /\ job.stem \in pdf["pending"]
    BY <1>5 DEF Decide, TypeOK, NoJob, JobInHand
  <2>2. /\ job'.stage = "decided" /\ job'.verdict = verdict /\ job'.stem = job.stem
        /\ UNCHANGED <<pdf, row>>
    BY <1>5, <2>1 DEF Decide, Job
  <2>3. verdict = "ingested" => job.stem.bytes \in WereDocuments'
    BY <1>5 DEF Decide, WereDocuments
  <2> QED BY <1>0, <2>1, <2>2, <2>3
          DEF IngestedAreDocuments, IngestedRowIsADocument, JobInHand
<1>6. CASE FileAway
  <2>1. job \in Job /\ job.stage = "decided"
    BY <1>6 DEF FileAway, TypeOK, NoJob
  <2>2. /\ job'.stage = "filed" /\ job'.verdict = job.verdict /\ job'.stem = job.stem
        /\ UNCHANGED row
    BY <1>6, <2>1 DEF FileAway, Job
  <2>3. IngestedAreDocuments'
    BY <1>0, <1>6, <2>1, <2>2, FileAwayKeepsBytes DEF IngestedAreDocuments, JobInHand
  <2> QED BY <1>0, <2>1, <2>2, <2>3 DEF IngestedRowIsADocument, JobInHand
<1>7. CASE MarkRow
  <2>1. job \in Job /\ job.stage = "filed"
    BY <1>7 DEF MarkRow, TypeOK, NoJob
  <2>2. UNCHANGED pdf /\ job' = NoJob
    BY <1>7 DEF MarkRow
  <2>3. IngestedRowIsADocument'
    BY <1>0, <1>7, <2>1, <2>2 DEF MarkRow, IngestedRowIsADocument, JobInHand, TypeOK
  <2> QED BY <1>0, <2>2, <2>3 DEF IngestedAreDocuments, JobInHand, NoJob
<1>8. CASE WorkerDies
  BY <1>0, <1>8 DEF WorkerDies, IngestedAreDocuments, IngestedRowIsADocument, JobInHand, NoJob
<1>9. CASE (\E d \in Subdirs : \E s \in pdf[d] : Clear(d, s)) \/ \E b \in paperless : Trash(b)
  <2>1. UNCHANGED <<row, job>>
    BY <1>9 DEF Clear, Trash
  <2>2. pdf'["ingested"] = pdf["ingested"] /\ pdf'["pending"] = pdf["pending"]
    BY <1>9 DEF Clear, Trash, TypeOK, Subdirs
  <2> QED BY <1>0, <2>1, <2>2 DEF IngestedAreDocuments, IngestedRowIsADocument, JobInHand
<1>10. ASSUME NEW u \in Uploads, Age(u) PROVE Goal
  BY <1>10, <1>2 DEF Age
<1>11. ASSUME NEW w \in Workers, Crash(w) PROVE Goal
  BY <1>11, <1>2 DEF Crash
<1>12. CASE UNCHANGED vars
  BY <1>12, <1>2 DEF vars
<1> QED BY <1>1, <1>3, <1>4, <1>5, <1>6, <1>7, <1>8, <1>9, <1>10, <1>11, <1>12
        DEF Next, IngestStep

LEMMA IndStep == IndInv /\ [Next]_vars => IndInv'
<1> SUFFICES ASSUME IndInv, [Next]_vars PROVE IndInv'
  OBVIOUS
<1>1. TypeOK'
  BY TypeStep DEF IndInv
<1> QED BY <1>1, SavedStep, UnderWayStep, SidecarsStep, WorkerStep DEF IndInv

-----------------------------------------------------------------------------
(* The theorems.                                                            *)

\* The invariant that carries the safety theorems: the bytes of every answer,
\* sidecar, row and job are where they should be.
THEOREM Invariance == Spec => []IndInv
<1>1. Init => IndInv
  BY IndInit
<1>2. IndInv /\ [Next]_vars => IndInv'
  BY IndStep
<1> QED BY <1>1, <1>2, PTL DEF Spec

\* A PUT that was answered with success is never lost by the program: whatever
\* replicas crash, sweep and prune, whatever calls fail, its bytes stay in the
\* spool or in Paperless until people take them out of there.
THEOREM SavedBytesAreHeld == Spec => []SavedBytesHeld
<1>1. IndInv => SavedBytesHeld
  BY DEF IndInv
<1> QED BY <1>1, Invariance, PTL

\* A row that says "ingested" stands for a document of Paperless, or for one that
\* was trashed there.
THEOREM IngestedRowsAreDocuments == Spec => []IngestedRowIsADocument
<1>1. IndInv => IngestedRowIsADocument
  BY DEF IndInv
<1> QED BY <1>1, Invariance, PTL

-----------------------------------------------------------------------------
(* The spool implements the ledger.                                         *)

\* A step makes at most one body held that was not: the one it renames.
LEMMA StepKeepsOne ==
    ASSUME IndInv, [Next]_vars,
           ~\E d \in Subdirs : \E s \in pdf[d] : Clear(d, s),
           ~\E b \in paperless : Trash(b),
           ~\E w \in Workers : Start(w)
    PROVE  Held' = Held \/ \E b \in Bytes : Held' = Held \cup {b}
<1> DEFINE Adds(b) == Held' \subseteq Held \cup {b}
           Goal == \E b \in Bytes : Adds(b)
<1> USE DEF IndInv
<1>0. Held \subseteq Held'
  <2>1. ASSUME NEW u \in Uploads, PutStep(u) PROVE Held \subseteq Held'
    BY <2>1, PutsAddFiles, NothingRemoved
  <2>2. CASE FileAway
    BY <2>2, FileAwayKeepsBytes
  <2>3. CASE IngestStep /\ ~FileAway
    BY <2>3, NothingRemoved DEF IngestStep, TakePending, Decide, MarkRow, WorkerDies
  <2>4. CASE (\E u \in Uploads : Age(u)) \/ (\E w \in Workers : Crash(w)) \/ UNCHANGED vars
    BY <2>4, NothingRemoved DEF Age, Crash, vars
  <2> QED BY <2>1, <2>2, <2>3, <2>4 DEF Next
<1>1. ASSUME UNCHANGED <<pdf, paperless>> PROVE Held' = Held
  BY <1>1 DEF Held, InSpool
<1>2. ASSUME NEW u \in Uploads, PutStep(u) PROVE Held' = Held \/ Goal
  <2>1. CASE \E d \in Subdirs, s \in Stem : Rename(u, d, s) /\ s.bytes = Body(u)
    <3>1. \A e \in Subdirs : \A t \in pdf'[e] : t \in pdf[e] \/ t.bytes = Body(u)
      BY <2>1 DEF Rename, TypeOK
    <3>2. UNCHANGED paperless
      BY <1>2, PutsAddFiles
    <3> QED BY <3>1, <3>2, BodyInBytes DEF Held, InSpool
  <2>2. CASE Park(u) \/ Publish(u)
    BY <2>1, <2>2, StemsOfUpload DEF Park, Publish, Subdirs
  <2>3. CASE Rescue(u)
    <3>1. Rename(u, "failed", NamedFor(u, Body(u))) \/ UNCHANGED <<pdf, paperless>>
      BY <2>3 DEF Rescue
    <3> QED BY <2>1, <1>1, <3>1, StemsOfUpload DEF Subdirs
  <2>4. CASE ~(Park(u) \/ Publish(u) \/ Rescue(u))
    BY <1>1, <1>2, <2>4 DEF PutStep, HandlerStep, RefuseAnnotatedCopy, RefuseFull,
         BeginWrite, Write, WriteTooLarge, StreamError, EndOfBody, ParkFails,
         ParkSidecar, EmptyBody, Duplicate, NotHeld, PublishFails, PublishSidecar, Record
  <2> QED BY <2>2, <2>3, <2>4
<1>3. ASSUME NEW verdict \in Verdicts, Decide(verdict) PROVE Held' = Held
  <2>1. job.stem \in pdf["pending"]
    BY <1>3 DEF Decide, JobInHand
  <2>2. job.stem.bytes \in Held
    BY <2>1, StemsAreHeld DEF Subdirs
  <2>3. UNCHANGED pdf /\ paperless' \subseteq paperless \cup {job.stem.bytes}
    BY <1>3 DEF Decide
  <2> QED BY <2>2, <2>3, <1>0 DEF Held, InSpool
<1>4. CASE FileAway
  <2>1. job.stem \in pdf["pending"] /\ job.verdict \in Subdirs
    BY <1>4, SpoolAssumption DEF FileAway, JobInHand, Subdirs
  <2>2. \A d \in Subdirs : \A t \in pdf'[d] : \E e \in Subdirs : t \in pdf[e]
    BY <1>4, <2>1 DEF FileAway, MoveStem, TypeOK, Subdirs
  <2>3. UNCHANGED paperless
    BY <1>4 DEF FileAway
  <2> QED BY <2>2, <2>3, <1>0 DEF Held, InSpool
<1>5. ASSUME NEW u \in Uploads, Age(u) PROVE Held' = Held
  BY <1>1, <1>5 DEF Age
<1>6. ASSUME NEW w \in Workers, Crash(w) PROVE Held' = Held
  BY <1>1, <1>6 DEF Crash
<1>7. CASE (\E s \in Stem : TakePending(s)) \/ MarkRow \/ WorkerDies
  BY <1>1, <1>7 DEF TakePending, MarkRow, WorkerDies
<1>8. CASE UNCHANGED vars
  BY <1>1, <1>8 DEF vars
<1>9. Held' = Held \/ Goal
  BY <1>2, <1>3, <1>4, <1>5, <1>6, <1>7, <1>8 DEF Next, IngestStep
<1> QED BY <1>0, <1>9

\* The three answers of success are Acknowledge steps.
LEMMA AckStep ==
    ASSUME IndInv, NEW u \in Uploads, EmptyBody(u) \/ Duplicate(u) \/ Record(u),
           [Next]_vars
    PROVE  Ledger!Acknowledge(u, Body(u))
<1> USE DEF IndInv
<1>1. pc[u] # "done" /\ pc[u] # "writing" /\ reply[u] = "none"
  BY DEF EmptyBody, Duplicate, Record, AnsweredIsDone
<1>2. UNCHANGED <<req, got, pdf, paperless, cleared, trashed>> /\ reply' = [reply EXCEPT ![u] = "ok"]
  BY DEF EmptyBody, Duplicate, Record, Answer
<1>3. Held' = Held /\ Removed' = Removed
  BY <1>2 DEF Held, InSpool, Removed
<1>4. Saved' = [Saved EXCEPT ![u] = {Body(u)}]
  BY <1>2 DEF Saved, Body, TypeOK
<1>5. Saved[u] = {}
  BY <1>1 DEF Saved
<1>6. Body(u) \in Held \cup Removed \cup NoBytes
  <2>1. CASE EmptyBody(u)
    BY <2>1, BodyInBytes DEF EmptyBody, NoBytes
  <2>2. CASE Duplicate(u)
    BY <2>2, BodyInBytes, StemsAreHeld DEF Duplicate, UploadIngested, NameHasDigest,
       IngestedRowIsADocument, SidecarsHeld, WereDocuments, Accounted, Held, Removed
  <2>3. CASE Record(u)
    BY <2>3 DEF Record, UnderWay, Accounted
  <2> QED BY <2>1, <2>2, <2>3
<1> QED BY <1>3, <1>4, <1>5, <1>6 DEF Ledger!Acknowledge

LEMMA LedgerStep ==
    ASSUME IndInv, [Next]_vars
    PROVE  [Ledger!LedgerNext]_(Ledger!ledger)
<1> USE DEF IndInv
<1>1. CASE \E u \in Uploads : EmptyBody(u) \/ Duplicate(u) \/ Record(u)
  <2>1. PICK u \in Uploads : EmptyBody(u) \/ Duplicate(u) \/ Record(u)
    BY <1>1
  <2>2. Ledger!Acknowledge(u, Body(u)) /\ Body(u) \in Bytes
    BY <2>1, AckStep, BodyInBytes
  <2> QED BY <2>2 DEF Ledger!LedgerNext
<1>2. CASE ~\E u \in Uploads : EmptyBody(u) \/ Duplicate(u) \/ Record(u)
  <2>1. ASSUME NEW v \in Uploads PROVE Saved'[v] = Saved[v]
    <3>1. CASE reply[v] = "ok"
      <4>1. reply'[v] = "ok" /\ pc[v] = "done"
        BY <3>1, AnswersOnce DEF AnsweredIsDone
      <4> QED BY <4>1, <3>1, BodiesStay DEF Saved
    <3>2. CASE reply[v] # "ok"
      BY <3>2, <1>2, AnswersOnce DEF Saved
    <3> QED BY <3>1, <3>2
  <2>2. Saved' = Saved
    BY <2>1 DEF Saved
  <2>3. CASE (\E d \in Subdirs : \E s \in pdf[d] : Clear(d, s)) \/ \E b \in paperless : Trash(b)
    <3>1. PICK b \in Held : /\ Removed' = Removed \cup {b}
                            /\ Held \ {b} \subseteq Held' /\ Held' \subseteq Held
      BY <2>3, PeopleRemoveOne
    <3>2. Held' \in {Held, Held \ {b}}
      BY <3>1
    <3>3. Ledger!Remove(b)
      BY <2>2, <3>1, <3>2 DEF Ledger!Remove
    <3> QED BY <3>3, HeldAreBytes DEF Ledger!LedgerNext
  <2>4. CASE \E w \in Workers : Start(w)
    <3>1. Held \subseteq Held' \cup trashed /\ UNCHANGED <<paperless, cleared, trashed>>
      BY <2>4, StartKeepsBytes
    <3>2. \A d \in Subdirs : pdf'[d] \subseteq pdf[d]
      BY <2>4 DEF Start, Prune, TypeOK, Subdirs
    <3>3. Held' \subseteq Held
      BY <3>1, <3>2 DEF Held, InSpool
    <3>4. Ledger!Forget
      BY <2>2, <3>1, <3>3 DEF Ledger!Forget, Removed
    <3> QED BY <3>4 DEF Ledger!LedgerNext
  <2>5. CASE ~(\/ \E d \in Subdirs : \E s \in pdf[d] : Clear(d, s)
               \/ \E b \in paperless : Trash(b)
               \/ \E w \in Workers : Start(w))
    <3>1. Removed' = Removed
      BY <2>5, ProgramKeepsBytes DEF Removed
    <3>2. Held' = Held \/ \E b \in Bytes : Held' = Held \cup {b}
      BY <2>5, StepKeepsOne
    <3> QED BY <2>2, <3>1, <3>2 DEF Ledger!LedgerNext, Ledger!Keep, Ledger!ledger
  <2> QED BY <2>3, <2>4, <2>5
<1> QED BY <1>1, <1>2

LEMMA LedgerInitially == Init => Ledger!LedgerInit
BY DEF Init, Ledger!LedgerInit, Held, InSpool, Removed, Saved

\* The spool keeps every promise of the upload ledger: bytes once kept are kept
\* until people have them removed, and "saved" is only said of bytes that are
\* kept or were until then, or of no bytes.
THEOREM SpoolImplementsLedger == Spec => ImplementsLedger
<1>1. IndInv /\ [Next]_vars => [Ledger!LedgerNext]_(Ledger!ledger)
  BY LedgerStep
<1> QED BY <1>1, LedgerInitially, Invariance, PTL
        DEF Spec, ImplementsLedger, Ledger!LedgerSpec

-----------------------------------------------------------------------------
(* Short bodies and failures.  These hold whatever people clear and trash.  *)

\* A handler passes the check of the length in one place only.
LEMMA CheckedBy ==
    ASSUME TypeOK, [Next]_vars, NEW v \in Uploads,
           pc'[v] \in {"checked", "unpublished", "published", "indexing"}
    PROVE  pc[v] \in {"checked", "unpublished", "published", "indexing"} \/ NotHeld(v)
<1> DEFINE Goal == pc[v] \in {"checked", "unpublished", "published", "indexing"} \/ NotHeld(v)
<1>1. ASSUME NEW u \in Uploads, PutStep(u) PROVE Goal
  <2> USE DEF TypeOK, Answer, Goto
  <2>1. CASE NotHeld(u)
    BY <2>1 DEF NotHeld
  <2>2. CASE Publish(u) \/ PublishFails(u) \/ PublishSidecar(u)
    BY <2>2 DEF Publish, PublishFails, PublishSidecar
  <2>3. CASE ~(NotHeld(u) \/ Publish(u) \/ PublishFails(u) \/ PublishSidecar(u))
    BY <1>1, <2>3 DEF PutStep, HandlerStep, RefuseAnnotatedCopy, RefuseFull,
         BeginWrite, Write, WriteTooLarge, StreamError, EndOfBody, Park, ParkFails,
         ParkSidecar, EmptyBody, Duplicate, Rescue, Record
  <2> QED BY <2>1, <2>2, <2>3
<1>2. ASSUME NEW u \in Uploads, Age(u) PROVE Goal
  BY <1>2 DEF Age
<1>3. ASSUME NEW w \in Workers, Crash(w) PROVE Goal
  BY <1>3 DEF Crash
<1>4. ASSUME NEW w \in Workers, Start(w) PROVE Goal
  BY <1>4 DEF Start
<1>5. CASE IngestStep
  BY <1>5 DEF IngestStep, TakePending, Decide, FileAway, MarkRow, WorkerDies
<1>6. CASE (\E d \in Subdirs : \E s \in pdf[d] : Clear(d, s)) \/ \E b \in paperless : Trash(b)
  BY <1>6 DEF Clear, Trash
<1>7. CASE UNCHANGED vars
  BY <1>7 DEF vars
<1> QED BY <1>1, <1>2, <1>3, <1>4, <1>5, <1>6, <1>7 DEF Next

LEMMA WholeStep == WholeInv /\ [Next]_vars => WholeInv'
<1> SUFFICES ASSUME WholeInv, [Next]_vars PROVE WholeInv'
  OBVIOUS
<1> USE DEF WholeInv
<1>1. TypeOK'
  BY TypeStep
<1>2. AnsweredIsDone'
  BY AnswersOnce DEF AnsweredIsDone
<1>3. ASSUME NEW v \in Uploads, req'[v].declared,
             pc'[v] \in {"checked", "unpublished", "published", "indexing"}
      PROVE  got'[v] = Length[req'[v].file]
  <2>1. CASE pc[v] \in {"checked", "unpublished", "published", "indexing"}
    <3>1. req'[v] = req[v] /\ got'[v] = got[v]
      BY <2>1, BodiesStay
    <3> QED BY <1>3, <2>1, <3>1 DEF CheckedIsWhole
  <2>2. CASE NotHeld(v)
    BY <1>3, <2>2 DEF NotHeld, Mismatch
  <2> QED BY <1>3, <2>1, <2>2, CheckedBy
<1>4. ASSUME NEW v \in Uploads, req'[v].declared, reply'[v] = "ok"
      PROVE  got'[v] = Length[req'[v].file]
  <2>1. CASE reply[v] = "ok"
    <3>1. req'[v] = req[v] /\ got'[v] = got[v]
      BY <2>1, BodiesStay DEF AnsweredIsDone
    <3> QED BY <1>4, <2>1, <3>1 DEF ShortBodyNeverSaved
  <2>2. CASE reply[v] # "ok"
    <3>1. EmptyBody(v) \/ Duplicate(v) \/ Record(v)
      BY <1>4, <2>2, AnswersOnce
    <3>2. UNCHANGED <<req, got>>
      BY <3>1 DEF EmptyBody, Duplicate, Record
    <3>3. CASE EmptyBody(v) \/ Duplicate(v)
      BY <1>4, <3>2, <3>3 DEF EmptyBody, Duplicate, Mismatch
    <3>4. CASE Record(v)
      BY <1>4, <3>2, <3>4 DEF Record, CheckedIsWhole
    <3> QED BY <3>1, <3>3, <3>4
  <2> QED BY <2>1, <2>2
<1> QED BY <1>1, <1>2, <1>3, <1>4 DEF CheckedIsWhole, ShortBodyNeverSaved

\* The invariant under short bodies: what has passed the check is whole, and
\* keeps its size until it is answered.
THEOREM WholeInvariance == Spec => []WholeInv
<1>1. Init => WholeInv
  BY TypeInit DEF Init, WholeInv, AnsweredIsDone, CheckedIsWhole, ShortBodyNeverSaved
<1> QED BY <1>1, WholeStep, PTL DEF Spec

\* No short body is ever answered with success, through any number of replicas,
\* crashes and failing calls.
THEOREM ShortBodiesAreNeverSaved == Spec => []ShortBodyNeverSaved
<1>1. WholeInv => ShortBodyNeverSaved
  BY DEF WholeInv
<1> QED BY <1>1, WholeInvariance, PTL

\* In end_write, a PUT fails in three places, or with its replica.
LEMMA FailsBy ==
    ASSUME TypeOK, AnsweredIsDone, [Next]_vars, NEW v \in Uploads,
           pc[v] \in {"received", "parked", "checked", "unpublished", "published", "indexing"},
           reply'[v] \in {"incomplete", "error", "lost"}
    PROVE  ParkFails(v) \/ ParkSidecar(v) \/ Rescue(v) \/ \E w \in Workers : Crash(w)
<1> DEFINE Goal == \/ ParkFails(v) \/ ParkSidecar(v) \/ Rescue(v)
                   \/ \E w \in Workers : Crash(w)
<1>0. reply[v] = "none"
  BY DEF AnsweredIsDone, TypeOK
<1>1. ASSUME NEW u \in Uploads, PutStep(u) PROVE Goal
  <2> USE <1>0 DEF TypeOK, Answer, Goto
  <2>1. CASE ParkFails(u) \/ ParkSidecar(u) \/ Rescue(u)
    BY <2>1 DEF ParkFails, ParkSidecar, Rescue
  <2>2. CASE \/ RefuseAnnotatedCopy(u) \/ RefuseFull(u) \/ BeginWrite(u)
             \/ Write(u) \/ WriteTooLarge(u) \/ StreamError(u) \/ EndOfBody(u)
    BY <2>2 DEF Accepted, RefuseAnnotatedCopy, RefuseFull, BeginWrite, Write,
                WriteTooLarge, StreamError, EndOfBody
  <2>3. CASE \/ Park(u) \/ EmptyBody(u) \/ Duplicate(u) \/ NotHeld(u) \/ Publish(u)
             \/ PublishFails(u) \/ PublishSidecar(u) \/ Record(u)
    BY <2>3 DEF Park, EmptyBody, Duplicate, NotHeld, Publish, PublishFails,
                PublishSidecar, Record
  <2> QED BY <1>1, <2>1, <2>2, <2>3 DEF PutStep, HandlerStep
<1>2. ASSUME NEW u \in Uploads, Age(u) PROVE Goal
  BY <1>0, <1>2 DEF Age
<1>3. ASSUME NEW w \in Workers, Start(w) PROVE Goal
  BY <1>0, <1>3 DEF Start
<1>4. CASE IngestStep
  BY <1>0, <1>4 DEF IngestStep, TakePending, Decide, FileAway, MarkRow, WorkerDies
<1>5. CASE (\E d \in Subdirs : \E s \in pdf[d] : Clear(d, s)) \/ \E b \in paperless : Trash(b)
  BY <1>0, <1>5 DEF Clear, Trash
<1>6. CASE UNCHANGED vars
  BY <1>0, <1>6 DEF vars
<1> QED BY <1>1, <1>2, <1>3, <1>4, <1>5, <1>6 DEF Next

LEMMA FailureStep ==
    ASSUME TypeOK, AnsweredIsDone, [Next]_vars, NEW v \in Uploads,
           pc[v] \in {"received", "parked", "checked", "unpublished", "published", "indexing"},
           reply'[v] \in {"incomplete", "error", "lost"},
           OnDisk(v)
    PROVE  OnDisk(v)'
<1>1. Body(v)' = Body(v)
  BY BodiesStay
<1>2. CASE UNCHANGED <<part, pdf>>
  BY <1>1, <1>2 DEF OnDisk, InSpool
<1>3. CASE Rename(v, "failed", NamedFor(v, Body(v)))
  <2>1. NamedFor(v, Body(v)) \in pdf'["failed"] /\ "failed" \in Subdirs
    BY <1>3 DEF Rename, TypeOK, Subdirs
  <2>2. Body(v) \in InSpool'
    BY <2>1, BodyInBytes, StemsOfUpload DEF InSpool
  <2> QED BY <1>1, <2>2 DEF OnDisk
<1>4. UNCHANGED <<part, pdf>> \/ Rename(v, "failed", NamedFor(v, Body(v)))
  BY FailsBy DEF ParkFails, ParkSidecar, Rescue, Crash
<1> QED BY <1>2, <1>3, <1>4

\* Once end_write has bytes on disk, nothing it answers but success, and no
\* crash in the middle of it, takes them away.
THEOREM FailuresKeepBytes == Spec => FailureKeepsBytes
<1> DEFINE Kept ==
      \A u \in Uploads :
         /\ pc[u] \in {"received", "parked", "checked", "unpublished", "published", "indexing"}
         /\ reply'[u] \in {"incomplete", "error", "lost"}
         /\ OnDisk(u)
         => OnDisk(u)'
<1>1. WholeInv /\ [Next]_vars => [Kept]_vars
  BY FailureStep DEF WholeInv
<1> QED BY <1>1, WholeInvariance, PTL DEF Spec, FailureKeepsBytes

\* While nobody clears a directory and nothing is trashed, end_write drops a
\* body as a duplicate only when its bytes are held somewhere.
THEOREM DiscardsAreHeld == ASSUME ~Clearing, ~Trashing PROVE Spec => DiscardOnlyWhatIsHeld
<1> DEFINE Safe ==
      \A u \in Uploads :
         pc[u] = "received" /\ reply'[u] = "ok" /\ got[u] # 0 => Body(u) \in Held
           NoneRemoved == Removed = {}
<1>1. ASSUME IndInv, NoneRemoved, [Next]_vars, NEW u \in Uploads,
             pc[u] = "received", reply'[u] = "ok", got[u] # 0
      PROVE  Body(u) \in Held
  <2> USE DEF IndInv
  <2>1. reply[u] # "ok"
    BY <1>1 DEF AnsweredIsDone
  <2>2. Duplicate(u)
    BY <1>1, <2>1, AnswersOnce DEF EmptyBody, Record
  <2>3. Body(u) \in Accounted
    BY <1>1, <2>2, BodyInBytes, StemsAreHeld
       DEF Duplicate, UploadIngested, NameHasDigest, IngestedRowIsADocument,
           SidecarsHeld, WereDocuments, Accounted, Held, Removed
  <2> QED BY <1>1, <2>3 DEF Accounted
<1>2. IndInv /\ NoneRemoved /\ [Next]_vars => [Safe]_vars
  BY <1>1
<1>3. Init => NoneRemoved
  BY DEF Init, Removed
<1>4. IndInv /\ NoneRemoved /\ [Next]_vars => NoneRemoved'
  <2> SUFFICES ASSUME IndInv, NoneRemoved, [Next]_vars PROVE NoneRemoved'
    OBVIOUS
  <2>1. ~(\E d \in Subdirs : \E s \in pdf[d] : Clear(d, s)) /\ ~\E b \in paperless : Trash(b)
    BY DEF Clear, Trash
  <2> QED BY <2>1, ProgramKeepsBytes DEF Removed
<1> HIDE DEF NoneRemoved
<1> QED BY <1>2, <1>3, <1>4, Invariance, PTL DEF Spec, DiscardOnlyWhatIsHeld

-----------------------------------------------------------------------------
(* The overshoot of the quota.                                              *)

\* Sets are counted, so that they can be compared.
LEMMA SmallerCount ==
    ASSUME NEW S, NEW T, IsFiniteSet(T), S \subseteq T
    PROVE  IsFiniteSet(S) /\ Cardinality(S) <= Cardinality(T)
           /\ Cardinality(S) \in Nat /\ Cardinality(T) \in Nat
BY FS_Subset, FS_CardinalityType

LEMMA RowCount ==
    ASSUME NEW x, NEW n \in Nat
    PROVE  IsFiniteSet({x} \X (1 .. n)) /\ Cardinality({x} \X (1 .. n)) = n
<1>1. IsFiniteSet(1 .. n) /\ Cardinality(1 .. n) = n
  BY FS_Interval
<1>2. IsFiniteSet({x}) /\ Cardinality({x}) = 1
  BY FS_Singleton
<1> QED BY <1>1, <1>2, FS_Product

LEMMA ClaimType ==
    ASSUME TypeOK, NEW u \in Uploads
    PROVE  Claim(u) \in Nat
BY SpoolAssumption DEF TypeOK, Claim

\* A step that makes no claim larger, adds nothing to pending/ and lets nobody
\* in keeps the bound.
LEMMA QuotaShrinks ==
    ASSUME QuotaInv, SpoolMax # 0, MaxUpload # 0, TypeOK',
           \A u \in Uploads : Claim(u)' <= Claim(u),
           pdf'["pending"] \subseteq pdf["pending"],
           InFlight' \subseteq InFlight,
           WithinLimit', VerdictKnown'
    PROVE  QuotaInv'
<1> USE DEF QuotaInv
<1>1. Claims' \subseteq Claims
  <2>1. \A u \in Uploads : 1 .. Claim(u)' \subseteq 1 .. Claim(u)
    <3> SUFFICES ASSUME NEW u \in Uploads PROVE 1 .. Claim(u)' \subseteq 1 .. Claim(u)
      OBVIOUS
    <3>1. Claim(u) \in Nat
      BY ClaimType
    <3>2. Claim(u)' \in Nat
      BY SpoolAssumption DEF TypeOK, Claim
    <3> QED BY <3>1, <3>2
  <2> QED BY <2>1 DEF Claims
<1>2. PendingChunks' \subseteq PendingChunks
  BY DEF PendingChunks
<1>3. Finite' /\ Cardinality(Claims') <= Cardinality(Claims)
      /\ Cardinality(PendingChunks') <= Cardinality(PendingChunks)
      /\ Cardinality(InFlight') <= Cardinality(InFlight)
      /\ Cardinality(Claims') \in Nat /\ Cardinality(Claims) \in Nat
      /\ Cardinality(PendingChunks') \in Nat /\ Cardinality(PendingChunks) \in Nat
      /\ Cardinality(InFlight') \in Nat /\ Cardinality(InFlight) \in Nat
  BY <1>1, <1>2, SmallerCount DEF Finite
<1>4. WithinHandlers'
  BY <1>3, SpoolAssumption DEF WithinHandlers
<1>5. ClaimsBounded'
  <2>1. (SpoolMax - 1) + Handlers * MaxUpload \in Int
    BY SpoolAssumption
  <2> QED BY <1>3, <2>1 DEF ClaimsBounded
<1> QED BY <1>3, <1>4, <1>5

\* A handler's steps but for its beginning and the rename into pending/.
LEMMA QuotaHandler ==
    ASSUME QuotaInv, SpoolMax # 0, MaxUpload # 0,
           NEW u \in Uploads, PutStep(u), ~BeginWrite(u), ~Publish(u)
    PROVE  QuotaInv'
<1> USE DEF QuotaInv
<1>1. TypeOK'
  BY TypeStep DEF Next
<1>2. \A v \in Uploads : Claim(v)' <= Claim(v)
  <2>1. \A v \in Uploads : v # u => Claim(v)' = Claim(v)
    BY DEF TypeOK, Claim, Answer, Goto, Abort, Rename, PutStep, HandlerStep,
         RefuseAnnotatedCopy, RefuseFull, Write, WriteTooLarge,
         StreamError, EndOfBody, Park, ParkFails, ParkSidecar, EmptyBody,
         Duplicate, NotHeld, PublishFails, Rescue, PublishSidecar, Record
  <2>2. Claim(u)' <= Claim(u)
    <3> USE SpoolAssumption DEF TypeOK, Claim, Answer, Goto, Abort
    <3>1. CASE RefuseAnnotatedCopy(u) \/ RefuseFull(u)
      BY <3>1 DEF RefuseAnnotatedCopy, RefuseFull, Accepted
    <3>2. CASE Write(u)
      BY <3>2 DEF Write
    <3>3. CASE WriteTooLarge(u) \/ StreamError(u)
      <4>1. part'[u] = "none" /\ pc'[u] = "done"
        BY <3>3 DEF WriteTooLarge, StreamError
      <4>2. Claim(u)' = 0 /\ Claim(u) \in Nat
        BY ONLY <4>1, ClaimType, TypeOK DEF Claim
      <4> QED BY ONLY <4>2
    <3>4. CASE EndOfBody(u)
      BY <3>4 DEF EndOfBody, WithinLimit
    <3>5. CASE Park(u) \/ ParkFails(u) \/ ParkSidecar(u)
      BY <3>5 DEF Park, ParkFails, ParkSidecar, Rename
    <3>6. CASE EmptyBody(u) \/ Duplicate(u) \/ NotHeld(u)
      BY <3>6 DEF EmptyBody, Duplicate, NotHeld
    <3>7. CASE PublishFails(u) \/ Rescue(u)
      BY <3>7 DEF PublishFails, Rescue, Rename
    <3>8. CASE PublishSidecar(u) \/ Record(u)
      BY <3>8 DEF PublishSidecar, Record
    <3> QED BY <3>1, <3>2, <3>3, <3>4, <3>5, <3>6, <3>7, <3>8 DEF PutStep, HandlerStep
  <2>3. \A v \in Uploads : Claim(v) \in Nat
    BY ClaimType
  <2> QED BY <2>1, <2>2, <2>3
<1>3. pdf'["pending"] \subseteq pdf["pending"]
  BY DEF TypeOK, Subdirs, Rename, PutStep, HandlerStep,
       RefuseAnnotatedCopy, RefuseFull, Write, WriteTooLarge,
       StreamError, EndOfBody, Park, ParkFails, ParkSidecar, EmptyBody,
       Duplicate, NotHeld, PublishFails, Rescue, PublishSidecar, Record
<1>4. InFlight' \subseteq InFlight
  BY DEF TypeOK, InFlight, Accepted, Answer, Goto, PutStep, HandlerStep,
       RefuseAnnotatedCopy, RefuseFull, Write, WriteTooLarge,
       StreamError, EndOfBody, Park, ParkFails, ParkSidecar, EmptyBody,
       Duplicate, NotHeld, PublishFails, Rescue, PublishSidecar, Record
<1>5. WithinLimit'
  <2>1. CASE Write(u)
    BY <2>1, SpoolAssumption DEF Write, TooLarge, WithinLimit, TypeOK
  <2>2. CASE ~Write(u)
    BY <2>2 DEF WithinLimit, PutStep, HandlerStep,
       RefuseAnnotatedCopy, RefuseFull, WriteTooLarge,
       StreamError, EndOfBody, Park, ParkFails, ParkSidecar, EmptyBody,
       Duplicate, NotHeld, PublishFails, Rescue, PublishSidecar, Record
  <2> QED BY <2>1, <2>2
<1>6. VerdictKnown'
  BY PutsAddFiles DEF VerdictKnown
<1> QED BY <1>1, <1>2, <1>3, <1>4, <1>5, <1>6, QuotaShrinks

\* What is on disk is claimed.
LEMMA IncomingIsClaimed ==
    ASSUME QuotaInv
    PROVE  IncomingChunks \subseteq Claims
<1> USE DEF QuotaInv
<1>1. ASSUME NEW u \in Uploads, part[u] # "none"
      PROVE  1 .. got[u] \subseteq 1 .. Claim(u)
  BY <1>1, SpoolAssumption DEF Claim, WithinLimit, TypeOK
<1> QED BY <1>1 DEF IncomingChunks, Claims

\* An upload is let in below the quota, to a free handler: whatever is on disk is
\* less than the quota, and whatever is claimed beyond it is claimed by handlers.
LEMMA QuotaBegin ==
    ASSUME QuotaInv, SpoolMax # 0, MaxUpload # 0,
           NEW u \in Uploads, BeginWrite(u)
    PROVE  QuotaInv'
<1> USE DEF QuotaInv
<1> DEFINE Beyond == InFlight' \X (1 .. MaxUpload)
<1>1. TypeOK'
  <2>1. Next
    BY DEF Next, PutStep
  <2> QED BY <2>1, TypeStep
<1>2. InFlight' = InFlight \cup {u} /\ u \notin InFlight
  BY DEF BeginWrite, Accepted, Goto, InFlight, TypeOK
<1>3. IsFiniteSet(InFlight') /\ Cardinality(InFlight') <= Handlers /\ Cardinality(InFlight') \in Nat
  <2>1. IsFiniteSet(InFlight') /\ Cardinality(InFlight') = Cardinality(InFlight) + 1
    BY <1>2, FS_AddElement DEF Finite
  <2>2. Cardinality(InFlight) \in Nat /\ Cardinality(InFlight) < Handlers
    BY FS_CardinalityType DEF Finite, BeginWrite, Accepted
  <2> QED BY <2>1, <2>2, SpoolAssumption
<1>4. IsFiniteSet(Beyond) /\ Cardinality(Beyond) = Cardinality(InFlight') * MaxUpload
  <2>1. IsFiniteSet(1 .. MaxUpload) /\ Cardinality(1 .. MaxUpload) = MaxUpload
    BY SpoolAssumption, FS_Interval
  <2> QED BY <1>3, <2>1, FS_Product
<1>5. IsFiniteSet(IncomingChunks) /\ Cardinality(IncomingChunks) \in Nat
      /\ Cardinality(PendingChunks) \in Nat
  BY IncomingIsClaimed, SmallerCount DEF Finite
<1>6. Cardinality(IncomingChunks) + Cardinality(PendingChunks) <= SpoolMax - 1
  <2>1. ~ (Usage >= SpoolMax)
    BY DEF BeginWrite, SpoolFull
  <2> QED BY <1>5, <2>1, SpoolAssumption DEF Usage
<1>7. Claims' \subseteq IncomingChunks \cup Beyond
  <2> SUFFICES ASSUME NEW v \in Uploads
               PROVE  {v} \X (1 .. Claim(v)') \subseteq IncomingChunks \cup Beyond
    BY DEF Claims
  <2>1. CASE pc'[v] = "writing"
    <3>1. v \in InFlight' /\ Claim(v)' = MaxUpload
      BY <2>1 DEF InFlight, Claim
    <3> QED BY <3>1
  <2>2. CASE pc'[v] # "writing"
    <3>1. v # u /\ part'[v] = part[v] /\ got'[v] = got[v]
      BY <2>2 DEF BeginWrite, Goto, TypeOK
    <3>2. CASE part[v] = "none"
      <4>1. Claim(v)' = 0
        BY <2>2, <3>1, <3>2 DEF Claim
      <4> QED BY <4>1
    <3>3. CASE part[v] # "none"
      <4>1. Claim(v)' = got[v]
        BY <2>2, <3>1, <3>3 DEF Claim
      <4> QED BY <4>1, <3>3 DEF IncomingChunks
    <3> QED BY <3>2, <3>3
  <2> QED BY <2>1, <2>2
<1>8. /\ IsFiniteSet(Claims') /\ Cardinality(Claims') \in Nat
      /\ Cardinality(Claims') <= Cardinality(IncomingChunks) + Cardinality(InFlight') * MaxUpload
  <2>1. IsFiniteSet(IncomingChunks \cup Beyond)
        /\ Cardinality(IncomingChunks \cup Beyond)
             = Cardinality(IncomingChunks) + Cardinality(Beyond) - Cardinality(IncomingChunks \cap Beyond)
    BY <1>4, <1>5, FS_Union
  <2>2. Cardinality(IncomingChunks \cap Beyond) \in Nat
    BY <1>5, FS_Intersection, FS_CardinalityType
  <2>3. IsFiniteSet(Claims') /\ Cardinality(Claims') <= Cardinality(IncomingChunks \cup Beyond)
        /\ Cardinality(Claims') \in Nat
    BY <1>7, <2>1, SmallerCount
  <2>4. Cardinality(InFlight') * MaxUpload \in Nat
    BY <1>3, SpoolAssumption
  <2> QED BY <1>4, <1>5, <2>1, <2>2, <2>3, <2>4
<1>9. PendingChunks' = PendingChunks
  BY DEF BeginWrite, PendingChunks
<1>10. Cardinality(InFlight') * MaxUpload <= Handlers * MaxUpload
  BY <1>3, SpoolAssumption
<1>11. ClaimsBounded'
  <2>1. Cardinality(InFlight') * MaxUpload \in Nat /\ Handlers * MaxUpload \in Nat /\ SpoolMax \in Nat
    BY <1>3, SpoolAssumption
  <2> QED BY <2>1, <1>5, <1>6, <1>8, <1>9, <1>10 DEF ClaimsBounded
<1>12. WithinLimit' /\ VerdictKnown'
  BY DEF BeginWrite, WithinLimit, VerdictKnown
<1> QED BY <1>1, <1>3, <1>8, <1>9, <1>11, <1>12 DEF Finite, WithinHandlers

\* A published file is claimed no more: it counts where it has gone.
LEMMA QuotaPublish ==
    ASSUME QuotaInv, SpoolMax # 0, MaxUpload # 0,
           NEW u \in Uploads, Publish(u)
    PROVE  QuotaInv'
<1> USE DEF QuotaInv
<1> DEFINE s == Target(u)
           Mine == {u} \X (1 .. got[u])
           There == {s} \X (1 .. got[u])
<1>1. TypeOK'
  <2>1. Next
    BY DEF Next, PutStep, HandlerStep
  <2> QED BY <2>1, TypeStep
<1>2. got[u] \in Nat /\ s \in Stem /\ s.bytes.size = got[u]
  BY StemsOfUpload, BodyInBytes DEF TypeOK
<1>3. pc[u] = "checked" /\ part[u] # "none" /\ got' = got
      /\ pc' = [pc EXCEPT ![u] = "published"] /\ part' = [part EXCEPT ![u] = "none"]
      /\ pdf' = [pdf EXCEPT !["pending"] = pdf["pending"] \cup {s}]
      /\ UNCHANGED job
  BY DEF Publish, Rename, Goto
<1> HIDE DEF s
<1>4. Claim(u)' = 0 /\ Claim(u) = got[u] /\ \A v \in Uploads : v # u => Claim(v)' = Claim(v)
  BY <1>3 DEF Claim, TypeOK
<1>5. Claims' \subseteq Claims /\ Mine \subseteq Claims /\ Claims' \cap Mine = {}
  <2>1. Mine \subseteq Claims
    BY <1>4 DEF Claims
  <2>2. Claims' \subseteq Claims
    BY <1>4 DEF Claims
  <2>3. \A v \in Uploads : ({v} \X (1 .. Claim(v)')) \cap Mine = {}
    BY <1>4
  <2> QED BY <2>1, <2>2, <2>3 DEF Claims
<1>6. IsFiniteSet(Claims') /\ Cardinality(Claims') \in Nat
      /\ Cardinality(Claims') + got[u] <= Cardinality(Claims) /\ Cardinality(Claims) \in Nat
  <2>1. IsFiniteSet(Claims') /\ Cardinality(Claims') \in Nat
    BY <1>5, SmallerCount DEF Finite
  <2>2. IsFiniteSet(Mine) /\ Cardinality(Mine) = got[u]
    BY <1>2, RowCount
  <2>3. Cardinality(Claims' \cup Mine) = Cardinality(Claims') + Cardinality(Mine) - Cardinality(Claims' \cap Mine)
    BY <2>1, <2>2, FS_Union
  <2>4. Cardinality(Claims' \cap Mine) = 0
    BY <1>5, FS_EmptySet
  <2>5. Cardinality(Claims' \cup Mine) <= Cardinality(Claims) /\ Cardinality(Claims) \in Nat
    BY <1>5, SmallerCount DEF Finite
  <2> QED BY <1>2, <2>1, <2>2, <2>3, <2>4, <2>5
<1>7. PendingChunks' = PendingChunks \cup There
  <2>1. pdf'["pending"] = pdf["pending"] \cup {s}
    BY <1>3 DEF TypeOK, Subdirs
  <2> QED BY <1>2, <2>1 DEF PendingChunks
<1>8. IsFiniteSet(PendingChunks') /\ Cardinality(PendingChunks') \in Nat
      /\ Cardinality(PendingChunks') <= Cardinality(PendingChunks) + got[u]
      /\ Cardinality(PendingChunks) \in Nat
  <2>1. IsFiniteSet(There) /\ Cardinality(There) = got[u]
    BY <1>2, RowCount
  <2>2. IsFiniteSet(PendingChunks) /\ Cardinality(PendingChunks) \in Nat
    BY FS_CardinalityType DEF Finite
  <2>3. IsFiniteSet(PendingChunks \cup There)
        /\ Cardinality(PendingChunks \cup There)
             = Cardinality(PendingChunks) + Cardinality(There) - Cardinality(PendingChunks \cap There)
    BY <2>1, <2>2, FS_Union
  <2>4. Cardinality(PendingChunks \cap There) \in Nat /\ Cardinality(PendingChunks \cup There) \in Nat
    BY <2>2, <2>3, FS_Intersection, FS_CardinalityType
  <2> QED BY <1>2, <1>7, <2>1, <2>2, <2>3, <2>4
<1>9. ClaimsBounded'
  <2>1. (SpoolMax - 1) + Handlers * MaxUpload \in Int
    BY SpoolAssumption
  <2> QED BY <1>2, <1>6, <1>8, <2>1 DEF ClaimsBounded
<1>10. InFlight' \subseteq InFlight
  BY <1>3 DEF InFlight, TypeOK
<1>11. IsFiniteSet(InFlight') /\ WithinHandlers'
  <2>1. IsFiniteSet(InFlight') /\ Cardinality(InFlight') <= Cardinality(InFlight)
        /\ Cardinality(InFlight') \in Nat /\ Cardinality(InFlight) \in Nat
    BY <1>10, SmallerCount DEF Finite
  <2> QED BY <2>1, SpoolAssumption DEF WithinHandlers
<1>12. WithinLimit' /\ VerdictKnown'
  BY <1>3 DEF WithinLimit, VerdictKnown
<1> QED BY <1>1, <1>6, <1>8, <1>9, <1>11, <1>12 DEF Finite

\* Crashes, restarts, time, the worker and people only take away.
LEMMA QuotaOthers ==
    ASSUME QuotaInv, SpoolMax # 0, MaxUpload # 0,
           \/ \E u \in Uploads : Age(u)
           \/ \E w \in Workers : Crash(w) \/ Start(w)
           \/ IngestStep
           \/ \E d \in Subdirs : \E s \in pdf[d] : Clear(d, s)
           \/ \E b \in paperless : Trash(b)
    PROVE  QuotaInv'
<1> USE DEF QuotaInv
<1>1. TypeOK'
  BY TypeOthers
<1>2. \A u \in Uploads : Claim(u) \in Nat
  BY ClaimType
<1>3. ASSUME UNCHANGED <<pc, got, part>>
      PROVE  /\ \A u \in Uploads : Claim(u)' <= Claim(u)
             /\ InFlight' \subseteq InFlight /\ WithinLimit'
  BY <1>2, <1>3 DEF Claim, InFlight, WithinLimit
<1>4. ASSUME NEW u \in Uploads, Age(u) PROVE QuotaInv'
  <2>1. \A v \in Uploads : Claim(v)' <= Claim(v)
    <3>1. \A v \in Uploads : (part'[v] = "none") <=> (part[v] = "none")
      BY <1>4 DEF Age, TypeOK
    <3>2. \A v \in Uploads : Claim(v)' = Claim(v)
      BY <1>4, <3>1 DEF Age, Claim
    <3> QED BY <1>2, <3>2
  <2> QED BY <1>1, <1>4, <2>1, QuotaShrinks DEF Age, InFlight, WithinLimit, VerdictKnown
<1>5. ASSUME NEW w \in Workers, Crash(w) PROVE QuotaInv'
  <2>1. \A v \in Uploads : pc'[v] = pc[v] \/ pc'[v] = "done"
    BY <1>5 DEF Crash, TypeOK
  <2>2. ASSUME NEW v \in Uploads PROVE Claim(v)' <= Claim(v)
    <3>1. CASE pc'[v] = pc[v]
      BY <1>2, <1>5, <3>1 DEF Crash, Claim
    <3>2. CASE pc'[v] = "done"
      BY <1>2, <1>5, <3>2, SpoolAssumption DEF Crash, Claim, WithinLimit, TypeOK
    <3> QED BY <2>1, <3>1, <3>2
  <2>3. InFlight' \subseteq InFlight
    BY <2>1 DEF InFlight
  <2> QED BY <1>1, <1>5, <2>2, <2>3, QuotaShrinks DEF Crash, WithinLimit, VerdictKnown
<1>6. ASSUME NEW w \in Workers, Start(w) PROVE QuotaInv'
  <2>1. \A v \in Uploads : part'[v] = part[v] \/ part'[v] = "none"
    BY <1>6 DEF Start, Sweep
  <2>2. ASSUME NEW v \in Uploads PROVE Claim(v)' <= Claim(v)
    <3>1. pc'[v] = pc[v] /\ got'[v] = got[v]
      BY <1>6 DEF Start
    <3>2. Claim(v)' = Claim(v) \/ Claim(v)' = 0
      BY <2>1, <3>1 DEF Claim
    <3> QED BY <1>2, <3>2
  <2>3. pdf'["pending"] = pdf["pending"]
    BY <1>6 DEF Start, Prune, TypeOK, Subdirs
  <2> QED BY <1>1, <1>6, <2>2, <2>3, QuotaShrinks DEF Start, InFlight, WithinLimit, VerdictKnown
<1>7. CASE IngestStep
  <2>1. UNCHANGED <<pc, got, part>>
    BY <1>7 DEF IngestStep, TakePending, Decide, FileAway, MarkRow, WorkerDies
  <2>2. pdf'["pending"] \subseteq pdf["pending"] /\ VerdictKnown'
    <3>1. CASE FileAway
      <4>1. job \in Job /\ job.stage = "decided" /\ job.verdict \in Verdicts
        BY <3>1 DEF FileAway, TypeOK, NoJob, VerdictKnown
      <4>2. job.verdict # "pending" /\ job'.stage = "filed"
        BY <3>1, <4>1, SpoolAssumption DEF FileAway, Job
      <4>3. pdf'["pending"] = pdf["pending"] \ {job.stem}
        BY <3>1, <4>1, <4>2 DEF FileAway, MoveStem, TypeOK, Subdirs, Job
      <4> QED BY <4>2, <4>3 DEF VerdictKnown
    <3>2. ASSUME NEW v \in Verdicts, Decide(v) PROVE VerdictKnown' /\ UNCHANGED pdf
      <4>1. job \in Job
        BY <3>2 DEF Decide, TypeOK, NoJob
      <4>2. job'.verdict = v
        BY <3>2, <4>1 DEF Decide, Job
      <4> QED BY <3>2, <4>2 DEF Decide, VerdictKnown
    <3>3. CASE (\E s \in Stem : TakePending(s)) \/ MarkRow \/ WorkerDies
      BY <3>3 DEF TakePending, MarkRow, WorkerDies, VerdictKnown, NoJob
    <3> QED BY <1>7, <3>1, <3>2, <3>3 DEF IngestStep
  <2> QED BY <1>1, <1>3, <2>1, <2>2, QuotaShrinks
<1>8. ASSUME NEW d \in Subdirs, NEW s \in pdf[d], Clear(d, s) PROVE QuotaInv'
  <2>1. UNCHANGED <<pc, got, part, job>> /\ pdf'["pending"] = pdf["pending"]
    BY <1>8 DEF Clear, TypeOK, Subdirs
  <2> QED BY <1>1, <1>3, <2>1, QuotaShrinks DEF VerdictKnown
<1>9. ASSUME NEW b \in paperless, Trash(b) PROVE QuotaInv'
  BY <1>1, <1>3, <1>9, QuotaShrinks DEF Trash, VerdictKnown
<1> QED BY <1>4, <1>5, <1>6, <1>7, <1>8, <1>9

LEMMA QuotaInit == ASSUME SpoolMax # 0 PROVE Init => QuotaInv
<1> SUFFICES ASSUME Init PROVE QuotaInv
  OBVIOUS
<1>1. TypeOK
  BY TypeInit
<1>2. InFlight = {}
  BY DEF Init, InFlight
<1>3. Claims = {}
  <2>1. \A u \in Uploads : Claim(u) = 0
    BY DEF Init, Claim
  <2> QED BY <2>1 DEF Claims
<1>4. PendingChunks = {}
  BY DEF Init, PendingChunks, Subdirs
<1>5. Finite /\ WithinHandlers
  BY <1>2, <1>3, <1>4, FS_EmptySet, SpoolAssumption DEF Finite, WithinHandlers
<1>6. ClaimsBounded
  <2>1. Handlers * MaxUpload \in Nat /\ SpoolMax \in Nat
    BY SpoolAssumption
  <2> QED BY <1>3, <1>4, <2>1, FS_EmptySet DEF ClaimsBounded
<1>7. WithinLimit /\ VerdictKnown
  BY SpoolAssumption DEF Init, WithinLimit, VerdictKnown, NoJob
<1> QED BY <1>1, <1>5, <1>6, <1>7 DEF QuotaInv

LEMMA QuotaStep ==
    ASSUME SpoolMax # 0, MaxUpload # 0
    PROVE  QuotaInv /\ [Next]_vars => QuotaInv'
<1> SUFFICES ASSUME QuotaInv, [Next]_vars PROVE QuotaInv'
  OBVIOUS
<1>1. ASSUME NEW u \in Uploads, PutStep(u) PROVE QuotaInv'
  BY <1>1, QuotaBegin, QuotaPublish, QuotaHandler
<1>2. CASE UNCHANGED vars
  BY <1>2 DEF vars, QuotaInv, TypeOK, Finite, WithinHandlers, WithinLimit, VerdictKnown,
       ClaimsBounded, Claims, Claim, InFlight, PendingChunks
<1> QED BY <1>1, <1>2, QuotaOthers DEF Next

\* The invariant under the quota: the claims of the handlers at work and of what
\* is on disk are within the bound of the overshoot.
THEOREM QuotaInvariance ==
    ASSUME SpoolMax # 0, MaxUpload # 0 PROVE Spec => []QuotaInv
<1>1. Init => QuotaInv
  BY QuotaInit
<1>2. QuotaInv /\ [Next]_vars => QuotaInv'
  BY QuotaStep
<1> QED BY <1>1, <1>2, PTL DEF Spec

\* However many PUTs pass the check of the quota together, on however many
\* replicas, crash, and leave their .part files, the spool never holds more than
\* one upload per handler thread beyond its quota.
THEOREM QuotaIsOvershotByHandlers == Spec => []QuotaOvershoot
<1>1. CASE SpoolMax # 0 /\ MaxUpload # 0
  <2>1. QuotaInv => QuotaOvershoot
    <3> SUFFICES ASSUME QuotaInv PROVE QuotaOvershoot
      OBVIOUS
    <3>1. Cardinality(IncomingChunks) <= Cardinality(Claims)
          /\ Cardinality(IncomingChunks) \in Nat /\ Cardinality(Claims) \in Nat
      BY IncomingIsClaimed, SmallerCount DEF QuotaInv, Finite
    <3>2. Cardinality(PendingChunks) \in Nat /\ (SpoolMax - 1) + Handlers * MaxUpload \in Int
      BY FS_CardinalityType, SpoolAssumption DEF QuotaInv, Finite
    <3> QED BY <3>1, <3>2 DEF QuotaInv, ClaimsBounded, QuotaOvershoot, Usage
  <2>2. Spec => []QuotaInv
    BY <1>1, QuotaInvariance
  <2> QED BY <2>1, <2>2, PTL
<1>2. CASE ~(SpoolMax # 0 /\ MaxUpload # 0)
  <2>1. QuotaOvershoot
    BY <1>2 DEF QuotaOvershoot
  <2> QED BY <2>1, PTL
<1> QED BY <1>1, <1>2
=============================================================================
