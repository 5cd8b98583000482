-------------------------- MODULE DoneFolderProofs ---------------------------
(***************************************************************************)
(* What DoneFolder promises for any number of documents, shares, threads   *)
(* and caches: its type invariant, that MOVE implements DoneSet for the    *)
(* documents that are moved for one tag and that people leave alone, when  *)
(* cached lists are right, and which tags of others a MOVE takes back.     *)
(***************************************************************************)
EXTENDS DoneFolder, FiniteSetTheorems, WellFoundedInduction, TLAPS

\* A MOVE under way names a document.
MoveSteps == {"tagging", "reading", "writing", "changed"}
NamesDocument == \A t \in Threads : pc[t] \in MoveSteps => job[t].doc # 0

\* A thread serves what it has been sent.
AsksServed == \A t \in Threads : job[t] \in Asks[t] \cup {NoJob}

IInv == TypeOK /\ NamesDocument /\ AsksServed

LEMMA InitType == Init => TypeOK
  <1> SUFFICES ASSUME Init PROVE TypeOK
    OBVIOUS
  <1>1. \A t \in Threads : job[t] = NoJob => pc[t] = "idle"
    BY DEF Init
  <1>2. QED
    BY <1>1 DEF Init, TypeOK, Tags, Calls

LEMMA KeyIsKey ==
  ASSUME NEW t \in Threads, TypeOK, pc[t] # "idle"
  PROVE  job[t] \in Request /\ Key(t) \in Keys
  BY DoneFolderAssumption DEF TypeOK, Key, Keys, Request

LEMMA TagIsTag ==
  ASSUME NEW t \in Threads, job[t] \in Request
  PROVE  Tag(t) \in Tags
  BY DEF Request, Tag, Tags

\* Every request that is asked is one.
LEMMA AskType ==
  ASSUME TypeOK, NEW t \in Threads, NEW r \in Asks[t], Ask(t, r)
  PROVE  TypeOK'
  <1>1. r \in Request /\ r # NoJob
    BY DoneFolderAssumption DEF Request, NoJob
  <1>2. job' \in [Threads -> Request \cup {NoJob}]
    BY <1>1 DEF TypeOK, Ask
  <1>3. \A u \in Threads : job'[u] = NoJob => pc'[u] = "idle"
    BY <1>1 DEF TypeOK, Ask, Goto
  <1>4. QED
    BY <1>2, <1>3 DEF TypeOK, Ask, Goto, cache, fetch

\* A thread that has listed the folder stays within the types.
LEMMA ListedType ==
  ASSUME TypeOK, NEW t \in Threads, pc[t] # "idle", NEW docs, Listed(t, docs), job' = job
  PROVE  /\ pc' \in [Threads -> {"idle", "lookup", "fetching", "fetched",
                                 "tagging", "reading", "writing", "changed"}]
         /\ reply' \in [Threads -> {"none", "listing", "missing", "ok", "failed", "error"}]
         /\ \A u \in Threads : job'[u] = NoJob => pc'[u] = "idle"
         /\ call' \in [Threads -> Calls]
  BY DEF TypeOK, Listed, FirstCalls, Calls, Answer, Goto

\* A method that is done, or gives up, leaves the thread within the types too.
LEMMA OutcomeType ==
  ASSUME TypeOK, NEW t \in Threads, pc[t] # "idle", Succeeded(t) \/ Failed(t), job' = job
  PROVE  /\ pc' \in [Threads -> {"idle", "lookup", "fetching", "fetched",
                                 "tagging", "reading", "writing", "changed"}]
         /\ reply' \in [Threads -> {"none", "listing", "missing", "ok", "failed", "error"}]
         /\ \A u \in Threads : job'[u] = NoJob => pc'[u] = "idle"
         /\ call' \in [Threads -> Calls]
  <1>1. CASE NextCall(t)
    BY <1>1 DEF TypeOK, NextCall, Goto, Calls
  <1>2. CASE LastAnswer(t, "ok") \/ LastAnswer(t, "failed")
    BY <1>2 DEF TypeOK, LastAnswer, Answer, Goto, Calls
  <1>3. QED
    BY <1>1, <1>2 DEF Succeeded, Failed

\* What a thread does when a method is done or gives up.
LEMMA Outcome ==
  ASSUME TypeOK, NEW t \in Threads, Succeeded(t) \/ Failed(t)
  PROVE  /\ pc'[t] \in {"idle", "tagging"}
         /\ \A u \in Threads : u # t => /\ pc'[u] = pc[u] /\ reply'[u] = reply[u]
                                        /\ call'[u] = call[u]
  <1>1. CASE NextCall(t)
    BY <1>1 DEF TypeOK, NextCall, Goto
  <1>2. CASE LastAnswer(t, "ok") \/ LastAnswer(t, "failed")
    BY <1>2 DEF TypeOK, LastAnswer, Answer, Goto
  <1>3. QED
    BY <1>1, <1>2 DEF Succeeded, Failed

LEMMA ListStepType ==
  ASSUME TypeOK, NEW t \in Threads,
         Hit(t) \/ Miss(t) \/ FetchPage(t) \/ PageFails(t) \/ Fill(t)
  PROVE  TypeOK'
  <1>1. CASE Hit(t)
    BY <1>1, ListedType DEF TypeOK, Hit, cache, fetch
  <1>2. CASE Miss(t)
    BY <1>2 DEF TypeOK, Miss, Goto, cache, fetch
  <1>3. CASE FetchPage(t)
    <2>1. PageOf(Folder(job[t].share, job[t].folder), page[t]) \subseteq Docs
      BY DEF PageOf, Folder
    <2>2. got' \in [Threads -> SUBSET Docs] /\ page' \in [Threads -> Nat]
      BY <1>3, <2>1 DEF TypeOK, FetchPage
    <2>3. QED
      BY <1>3, <2>2 DEF TypeOK, FetchPage, Goto, cache
  <1>4. CASE PageFails(t)
    BY <1>4 DEF TypeOK, PageFails, Answer, Goto, Fetched, cache
  <1>5. CASE Fill(t)
    <2>1. Key(t) \in Keys
      BY <1>5, KeyIsKey DEF Fill
    <2>2. lists' \in [Keys -> SUBSET Docs] /\ excused' \in [Keys -> SUBSET Docs]
      BY <1>5 DEF TypeOK, Fill
    <2>3. stored' \subseteq Keys /\ (stored' # {} => Cached)
      BY <1>5, <2>1 DEF TypeOK, Fill
    <2>4. QED
      BY <1>5, <2>2, <2>3, ListedType DEF TypeOK, Fill, Fetched
  <1>6. QED
    BY <1>1, <1>2, <1>3, <1>4, <1>5

LEMMA ChangedType ==
  ASSUME TypeOK, NEW d \in Docs, NEW ts \in SUBSET Tags, NEW dropped, Changed(d, ts, dropped)
  PROVE  /\ tags' \in [Docs -> SUBSET Tags]
         /\ moved' \in [Threads -> SUBSET Docs]
         /\ since' \in [Threads -> SUBSET Tags]
         /\ excused' \in [Keys -> SUBSET Docs]
  <1>1. (ts \ tags[d]) \cup (tags[d] \ ts) \subseteq Tags
    BY DEF TypeOK
  <1>2. since' \in [Threads -> SUBSET Tags]
    BY <1>1 DEF TypeOK, Changed
  <1>3. QED
    BY <1>2 DEF TypeOK, Changed

LEMMA PatchedType ==
  ASSUME TypeOK, NEW t \in Threads, pc[t] # "idle", job[t].doc # 0,
         NEW heard \in BOOLEAN, Patched(t, heard)
  PROVE  /\ job[t].doc \in Docs
         /\ tags' \in [Docs -> SUBSET Tags]
         /\ moved' \in [Threads -> SUBSET Docs]
         /\ since' \in [Threads -> SUBSET Tags]
         /\ excused' \in [Keys -> SUBSET Docs]
  <1>1. job[t].doc \in Docs
    BY KeyIsKey DEF Request
  <1>2. NewTags(t) \in SUBSET Tags
    BY KeyIsKey, TagIsTag DEF TypeOK, NewTags
  <1>3. QED
    BY <1>1, <1>2, ChangedType DEF Patched

\* Somebody in Paperless changes nothing but tags.
LEMMA RetagType ==
  ASSUME TypeOK, NEW d \in Docs, NEW x \in Tags, Retag(d, x)
  PROVE  TypeOK'
  <1> DEFINE ts == IF x \in tags[d] THEN tags[d] \ {x} ELSE tags[d] \cup {x}
  <1>1. ts \in SUBSET Tags
    BY DEF TypeOK
  <1>2. Changed(d, ts, {})
    BY DEF Retag
  <1> HIDE DEF ts
  <1>3. /\ tags' \in [Docs -> SUBSET Tags]
        /\ moved' \in [Threads -> SUBSET Docs]
        /\ since' \in [Threads -> SUBSET Tags]
        /\ excused' \in [Keys -> SUBSET Docs]
    BY <1>1, <1>2, ChangedType
  <1>4. QED
    BY <1>3 DEF TypeOK, Retag

LEMMA DropType ==
  ASSUME TypeOK, NEW ks, Drop(ks)
  PROVE  /\ stored' \subseteq Keys /\ (stored' # {} => Cached)
         /\ lists' \in [Keys -> SUBSET Docs]
         /\ excused' \in [Keys -> SUBSET Docs]
  BY DEF TypeOK, Drop

LEMMA MoveStepType ==
  ASSUME IInv, NEW t \in Threads,
         FindTag(t) \/ ReadTags(t) \/ ReadFails(t) \/ WriteTags(t) \/ WriteFails(t)
         \/ Invalidate(t)
  PROVE  TypeOK'
  <1>1. CASE FindTag(t)
    <2>1. CASE Succeeded(t)
      BY <1>1, <2>1, OutcomeType DEF IInv, TypeOK, FindTag, cache, fetch
    <2>2. CASE Goto(t, "reading") /\ UNCHANGED <<reply, call>>
      BY <1>1, <2>2 DEF IInv, TypeOK, FindTag, Goto, cache, fetch
    <2>3. QED
      BY <1>1, <2>1, <2>2 DEF FindTag
  <1>2. CASE ReadTags(t)
    <2>1. job[t].doc \in Docs
      BY <1>2, KeyIsKey DEF ReadTags, IInv, NamesDocument, MoveSteps, Request
    <2>2. tags[job[t].doc] \subseteq Tags
      BY <2>1 DEF IInv, TypeOK
    <2>3. base' \in [Threads -> SUBSET Tags]
      BY <1>2, <2>2 DEF IInv, TypeOK, ReadTags
    <2>4. QED
      BY <1>2, <2>3 DEF IInv, TypeOK, ReadTags, Goto, cache, fetch
  <1>3. CASE ReadFails(t)
    BY <1>3, OutcomeType DEF IInv, TypeOK, ReadFails, cache, fetch
  <1>4. CASE WriteTags(t)
    <2>1. job[t].doc # 0
      BY <1>4 DEF WriteTags, IInv, NamesDocument, MoveSteps
    <2>2. /\ tags' \in [Docs -> SUBSET Tags]
          /\ moved' \in [Threads -> SUBSET Docs]
          /\ since' \in [Threads -> SUBSET Tags]
          /\ excused' \in [Keys -> SUBSET Docs]
      BY <1>4, <2>1, PatchedType DEF WriteTags, IInv
    <2>3. QED
      BY <1>4, <2>2 DEF IInv, TypeOK, WriteTags, Goto
  <1>5. CASE WriteFails(t)
    <2>1. job[t].doc # 0
      BY <1>5 DEF WriteFails, IInv, NamesDocument, MoveSteps
    <2>2. /\ tags' \in [Docs -> SUBSET Tags]
          /\ moved' \in [Threads -> SUBSET Docs]
          /\ since' \in [Threads -> SUBSET Tags]
          /\ excused' \in [Keys -> SUBSET Docs]
      <3>1. CASE Patched(t, FALSE)
        BY <1>5, <2>1, <3>1, PatchedType DEF WriteFails, IInv
      <3>2. CASE UNCHANGED <<tags, moved, since, excused>>
        BY <3>2 DEF IInv, TypeOK
      <3>3. QED
        BY <1>5, <3>1, <3>2 DEF WriteFails
    <2>3. QED
      BY <1>5, <2>2, OutcomeType DEF IInv, TypeOK, WriteFails
  <1>6. CASE Invalidate(t)
    <2>1. /\ stored' \subseteq Keys /\ (stored' # {} => Cached)
          /\ lists' \in [Keys -> SUBSET Docs]
          /\ excused' \in [Keys -> SUBSET Docs]
      BY <1>6, DropType DEF Invalidate, IInv
    <2>2. QED
      BY <1>6, <2>1, OutcomeType DEF IInv, TypeOK, Invalidate, fetch
  <1>7. QED
    BY <1>1, <1>2, <1>3, <1>4, <1>5, <1>6

\* A MOVE goes on with a document of the list, and 0 is none.
LEMMA ListedNamesDocument ==
  ASSUME IInv, NEW t \in Threads, NEW docs \in SUBSET Docs, Listed(t, docs), job' = job
  PROVE  NamesDocument'
  <1>1. 0 \notin docs
    BY DoneFolderAssumption
  <1>2. \A u \in Threads : u # t => pc'[u] = pc[u]
    BY DEF IInv, TypeOK, Listed, Answer, Goto
  <1>3. pc'[t] \in MoveSteps => job[t].doc # 0
    BY <1>1 DEF IInv, TypeOK, MoveSteps, Listed, Answer, Goto
  <1>4. QED
    BY <1>2, <1>3 DEF IInv, NamesDocument

LEMMA StepNamesDocument ==
  ASSUME IInv, Next
  PROVE  NamesDocument'
  <1>1. ASSUME NEW t \in Threads, ThreadStep(t)
        PROVE  NamesDocument'
    <2>1. CASE Hit(t)
      <3>1. lists[Key(t)] \subseteq Docs
        BY <2>1, KeyIsKey DEF IInv, TypeOK, Hit
      <3>2. QED
        BY <2>1, <3>1, ListedNamesDocument DEF Hit
    <2>2. CASE Fill(t)
      <3>1. got[t] \subseteq Docs
        BY DEF IInv, TypeOK
      <3>2. QED
        BY <2>2, <3>1, ListedNamesDocument DEF Fill
    <2>3. CASE Miss(t) \/ FetchPage(t) \/ PageFails(t)
      BY <1>1, <2>3 DEF IInv, TypeOK, NamesDocument, MoveSteps, Miss, FetchPage, PageFails,
                        Answer, Goto
    <2>4. CASE FindTag(t) \/ ReadTags(t) \/ ReadFails(t)
            \/ WriteTags(t) \/ WriteFails(t) \/ Invalidate(t)
      <3>1. pc[t] \in MoveSteps /\ job' = job
        BY <2>4 DEF MoveSteps, FindTag, ReadTags, ReadFails, WriteTags, WriteFails, Invalidate
      <3>2. \A u \in Threads : u # t => pc'[u] = pc[u]
        BY <2>4, Outcome DEF IInv, TypeOK, FindTag, ReadTags, ReadFails, WriteTags, WriteFails,
                             Invalidate, Goto
      <3>3. QED
        BY <3>1, <3>2 DEF IInv, NamesDocument
    <2>5. QED
      BY <1>1, <2>1, <2>2, <2>3, <2>4 DEF ThreadStep
  <1>2. ASSUME NEW t \in Threads, NEW r \in Asks[t], Ask(t, r)
        PROVE  NamesDocument'
    BY <1>2 DEF IInv, TypeOK, NamesDocument, MoveSteps, Ask, Goto
  <1>3. ASSUME NEW k \in Keys, Expire(k)
        PROVE  NamesDocument'
    BY <1>3 DEF IInv, TypeOK, NamesDocument, Expire
  <1>4. ASSUME NEW d \in Docs, NEW x \in Tags, Retag(d, x)
        PROVE  NamesDocument'
    BY <1>4 DEF IInv, NamesDocument, Retag
  <1>5. QED
    BY <1>1, <1>2, <1>3, <1>4 DEF Next

LEMMA StepAsksServed ==
  ASSUME IInv, Next
  PROVE  AsksServed'
  <1>1. ASSUME NEW t \in Threads, ThreadStep(t)
        PROVE  AsksServed'
    <2>1. job' = job
      BY <1>1 DEF ThreadStep, Hit, Miss, FetchPage, PageFails, Fill, FindTag, ReadTags, ReadFails,
                  WriteTags, WriteFails, Invalidate
    <2>2. QED
      BY <2>1 DEF IInv, AsksServed
  <1>2. ASSUME NEW t \in Threads, NEW r \in Asks[t], Ask(t, r)
        PROVE  AsksServed'
    BY <1>2 DEF IInv, TypeOK, AsksServed, Ask
  <1>3. ASSUME \/ \E k \in Keys : Expire(k)
               \/ \E d \in Docs, x \in Tags : Retag(d, x)
        PROVE  AsksServed'
    BY <1>3 DEF IInv, AsksServed, Expire, Retag
  <1>4. QED
    BY <1>1, <1>2, <1>3 DEF Next

LEMMA StepInvariant == IInv /\ [Next]_vars => IInv'
  <1> SUFFICES ASSUME IInv, [Next]_vars PROVE IInv'
    OBVIOUS
  <1>1. CASE Next
    <2>1. ASSUME NEW t \in Threads, ThreadStep(t)
          PROVE  TypeOK'
      BY <2>1, ListStepType, MoveStepType DEF IInv, ThreadStep
    <2>2. ASSUME NEW t \in Threads, NEW r \in Asks[t], Ask(t, r)
          PROVE  TypeOK'
      BY <2>2, AskType DEF IInv
    <2>3. ASSUME NEW k \in Keys, Expire(k)
          PROVE  TypeOK'
      BY <2>3, DropType DEF IInv, TypeOK, Expire, fetch
    <2>4. ASSUME NEW d \in Docs, NEW x \in Tags, Retag(d, x)
          PROVE  TypeOK'
      BY <2>4, RetagType DEF IInv
    <2>5. QED
      BY <1>1, <2>1, <2>2, <2>3, <2>4, StepNamesDocument, StepAsksServed DEF IInv, Next
  <1>2. CASE UNCHANGED vars
    BY <1>2 DEF IInv, TypeOK, NamesDocument, AsksServed, vars
  <1>3. QED
    BY <1>1, <1>2

\* The inductive invariant: the types, a MOVE under way names a document, and a
\* thread serves what it has been sent.
THEOREM DoneInvariance == Spec => []IInv
  <1>1. Init => IInv
    BY InitType DEF Init, IInv, NamesDocument, AsksServed, MoveSteps
  <1>2. QED
    BY <1>1, StepInvariant, PTL DEF Spec

\* Every variable keeps its type, and nothing is cached without the time to live.
THEOREM DoneTypes == Spec => []TypeOK
  <1>1. IInv => TypeOK
    BY DEF IInv
  <1>2. QED
    BY <1>1, DoneInvariance, PTL

-----------------------------------------------------------------------------
(* MOVE implements DoneSet.                                                 *)

LEMMA WishIsWish ==
  ASSUME IInv, NEW t \in Threads, job[t].doc \in OneTagDocs
  PROVE  /\ job[t] \in Request /\ job[t].doc \in Docs
         /\ Wishing[t] \in Promise!Wishes
         /\ Wishing[t].doc = job[t].doc /\ Wishing[t].at = At(t)
         /\ Wishing[t].value = ToDone(t)
  <1>1. job[t] \in Request /\ job[t].doc \in Docs
    BY DoneFolderAssumption DEF IInv, TypeOK, Request, NoJob, OneTagDocs
  <1>2. Wishing[t] = [doc |-> job[t].doc, value |-> ToDone(t), at |-> At(t)]
    BY DEF Wishing
  <1>3. ToDone(t) \in BOOLEAN /\ At(t) \in {"pending", "effective", "ok", "failed"}
    BY DEF ToDone, At
  <1>4. Wishing[t] \in Promise!Wishes
    BY <1>1, <1>2, <1>3 DEF Promise!Wishes
  <1>5. Wishing[t].doc = job[t].doc /\ Wishing[t].at = At(t)
    BY <1>2
  <1>6. Wishing[t].value = ToDone(t)
    BY <1>2 DEF ToDone
  <1>7. QED
    BY <1>1, <1>4, <1>5, <1>6

LEMMA NoWish ==
  ASSUME NEW t \in Threads, job[t].doc \notin OneTagDocs
  PROVE  Wishing[t] = [at |-> "none"] /\ Wishing[t] \notin Promise!Wishes
  BY DEF Wishing, Promise!Wishes

\* A thread's step is about its own request.
LEMMA OwnStep ==
  ASSUME IInv, NEW t \in Threads, ThreadStep(t)
  PROVE  /\ job' = job
         /\ \A u \in Threads : u # t => /\ pc'[u] = pc[u] /\ reply'[u] = reply[u]
                                        /\ call'[u] = call[u]
  <1>1. CASE Hit(t) \/ Fill(t)
    BY <1>1 DEF IInv, TypeOK, Hit, Fill, Listed, Answer, Goto
  <1>2. CASE Miss(t) \/ FetchPage(t) \/ PageFails(t)
    BY <1>2 DEF IInv, TypeOK, Miss, FetchPage, PageFails, Answer, Goto
  <1>3. CASE FindTag(t) \/ ReadTags(t) \/ ReadFails(t)
    BY <1>3, Outcome DEF IInv, TypeOK, FindTag, ReadTags, ReadFails, Goto
  <1>4. CASE WriteTags(t) \/ WriteFails(t) \/ Invalidate(t)
    BY <1>4, Outcome DEF IInv, TypeOK, WriteTags, WriteFails, Invalidate, Goto
  <1>5. QED
    BY <1>1, <1>2, <1>3, <1>4 DEF ThreadStep

LEMMA WishMoves ==
  ASSUME IInv, NEW t \in Threads, ThreadStep(t), job[t].doc \in OneTagDocs
  PROVE  Wishing' = [Wishing EXCEPT ![t].at = At(t)']
  <1>1. \A u \in Threads : u # t => Wishing'[u] = Wishing[u]
    BY OwnStep DEF Wishing, ToDone, At
  <1>2. Wishing'[t] = [doc |-> job[t].doc, value |-> ToDone(t), at |-> At(t)']
    BY OwnStep DEF Wishing, ToDone
  <1>3. Wishing[t] = [doc |-> job[t].doc, value |-> ToDone(t), at |-> At(t)]
    BY DEF Wishing
  <1>4. Wishing = [u \in Threads |-> Wishing[u]] /\ Wishing' = [u \in Threads |-> Wishing'[u]]
    BY DEF Wishing
  <1>5. [Wishing EXCEPT ![t].at = At(t)'][t]
           = [doc |-> job[t].doc, value |-> ToDone(t), at |-> At(t)']
    BY <1>3, <1>4
  <1>6. QED
    BY <1>1, <1>2, <1>4, <1>5

LEMMA WishStays ==
  ASSUME IInv, NEW t \in Threads, ThreadStep(t), job[t].doc \notin OneTagDocs \/ At(t)' = At(t)
  PROVE  Wishing' = Wishing
  BY OwnStep DEF Wishing, ToDone, At

\* A document that is moved for one tag is done when it carries that tag.
LEMMA DoneByTag ==
  ASSUME IInv, NEW t \in Threads, job[t].doc \in OneTagDocs
  PROVE  /\ MoveTags[job[t].doc] = {Tag(t)}
         /\ job[t].doc \in DoneDocs <=> Tag(t) \in tags[job[t].doc]
  <1>1. job[t].doc \in Docs /\ job[t] # NoJob
    BY WishIsWish, DoneFolderAssumption DEF NoJob
  <1>2. job[t] \in Asks[t]
    BY <1>1 DEF IInv, AsksServed
  <1>3. Tag(t) \in MoveTags[job[t].doc]
    BY <1>1, <1>2 DEF MoveTags, Tag
  <1>4. MoveTags[job[t].doc] = {Tag(t)}
    BY <1>3 DEF OneTagDocs
  <1>5. QED
    BY <1>4 DEF DoneDocs

\* A document is done or not by its own tags.
LEMMA DoneAlone ==
  ASSUME NEW c, \A d \in Docs : d # c => tags'[d] = tags[d]
  PROVE  \A d \in Docs : d # c => (d \in DoneDocs' <=> d \in DoneDocs)
  BY DEF DoneDocs, OneTagDocs

LEMMA PatchAlone ==
  ASSUME IInv, NEW t \in Threads, NEW heard \in BOOLEAN, Patched(t, heard)
  PROVE  \A d \in Docs : d # job[t].doc => tags'[d] = tags[d]
  BY DEF IInv, TypeOK, Patched, Changed

LEMMA PatchGrants ==
  ASSUME IInv, NEW t \in Threads, job[t].doc \in OneTagDocs,
         NEW heard \in BOOLEAN, Patched(t, heard)
  PROVE  DoneDocs' = Promise!Granted(Wishing[t])
  <1>1. job[t].doc \in Docs /\ Wishing[t].doc = job[t].doc /\ Wishing[t].value = ToDone(t)
    BY WishIsWish
  <1>2. MoveTags[job[t].doc] = {Tag(t)}
    BY DoneByTag
  <1>3. Tag(t) \in NewTags(t) <=> ToDone(t)
    BY DEF NewTags
  <1>4. tags'[job[t].doc] = NewTags(t)
    BY <1>1 DEF IInv, TypeOK, Patched, Changed
  <1>5. job[t].doc \in DoneDocs' <=> ToDone(t)
    BY <1>2, <1>3, <1>4 DEF DoneDocs
  <1>6. \A d \in Docs : d # job[t].doc => (d \in DoneDocs' <=> d \in DoneDocs)
    BY PatchAlone, DoneAlone
  <1>7. DoneDocs \subseteq Docs /\ DoneDocs' \subseteq Docs
    BY DEF DoneDocs, OneTagDocs
  <1>8. QED
    BY <1>1, <1>5, <1>6, <1>7 DEF Promise!Granted

\* No request for a document that is moved for several tags, or that people
\* change, is promised anything.
LEMMA UnwishedMaps ==
  ASSUME IInv, NEW t \in Threads, ThreadStep(t), job[t].doc \notin OneTagDocs
  PROVE  UNCHANGED Promise!doneVars
  <1>1. \A d \in Docs : d # job[t].doc => tags'[d] = tags[d]
    <2>1. (\E heard \in BOOLEAN : Patched(t, heard)) \/ UNCHANGED tags
      BY DEF ThreadStep, Hit, Miss, FetchPage, PageFails, Fill, FindTag, ReadTags, ReadFails,
             WriteTags, WriteFails, Invalidate
    <2>2. QED
      BY <2>1, PatchAlone
  <1>2. \A d \in Docs : d # job[t].doc => (d \in DoneDocs' <=> d \in DoneDocs)
    BY <1>1, DoneAlone
  <1>3. DoneDocs \subseteq OneTagDocs /\ DoneDocs' \subseteq OneTagDocs /\ OneTagDocs \subseteq Docs
    BY DEF DoneDocs, OneTagDocs
  <1>4. DoneDocs' = DoneDocs
    BY <1>2, <1>3
  <1>5. QED
    BY <1>4, WishStays DEF Promise!doneVars

\* A request arrives, or one that is promised nothing, once the last one is answered.
LEMMA AskMaps ==
  ASSUME IInv, NEW t \in Threads, NEW r \in Asks[t], Ask(t, r)
  PROVE  (\E d \in Docs, b \in BOOLEAN : Promise!Arrive(t, d, b)) \/ Promise!Leave(t)
  <1>1. Promise!Answered(t)
    <2>1. CASE job[t].doc \notin OneTagDocs
      BY <2>1, NoWish DEF Promise!Answered
    <2>2. CASE job[t].doc \in OneTagDocs
      <3>1. At(t) \in {"ok", "failed"}
        BY DEF Ask, At
      <3>2. QED
        BY <2>2, <3>1, WishIsWish DEF Promise!Answered
    <2>3. QED
      BY <2>1, <2>2
  <1>2. DoneDocs' = DoneDocs
    BY DEF Ask, DoneDocs
  <1>3. /\ job'[t] = r /\ pc'[t] = "lookup"
        /\ \A u \in Threads : u # t => job'[u] = job[u] /\ pc'[u] = pc[u] /\ reply'[u] = reply[u]
        /\ call' = call
    BY DEF Ask, Goto, IInv, TypeOK
  <1>4. Wishing' = [Wishing EXCEPT ![t] = Wishing'[t]]
    <2>1. \A u \in Threads : u # t => Wishing'[u] = Wishing[u]
      BY <1>3 DEF Wishing, ToDone, At
    <2>2. Wishing = [u \in Threads |-> Wishing[u]] /\ Wishing' = [u \in Threads |-> Wishing'[u]]
      BY DEF Wishing
    <2>3. QED
      BY <2>1, <2>2
  <1>5. CASE r.doc \notin OneTagDocs
    <2>1. Wishing'[t] = Promise!Nothing
      BY <1>3, <1>5 DEF Wishing, Promise!Nothing
    <2>2. QED
      BY <1>1, <1>2, <1>4, <2>1 DEF Promise!Leave
  <1>6. CASE r.doc \in OneTagDocs
    <2>1. Wishing'[t] = Promise!Wish(r.doc, r.folder = "root", "pending")
      BY <1>3, <1>6 DEF Wishing, ToDone, At, Promise!Wish
    <2>2. r.doc \in Docs /\ (r.folder = "root") \in BOOLEAN
      BY <1>6 DEF OneTagDocs
    <2>3. Promise!Arrive(t, r.doc, r.folder = "root")
      BY <1>1, <1>2, <1>4, <2>1 DEF Promise!Arrive
    <2>4. QED
      BY <2>2, <2>3
  <1>7. QED
    BY <1>5, <1>6

\* A request that stays pending changes nothing that is promised.
LEMMA StutterMaps ==
  ASSUME IInv, NEW t \in Threads, ThreadStep(t), UNCHANGED tags, At(t)' = At(t)
  PROVE  UNCHANGED Promise!doneVars
  BY WishStays DEF Promise!doneVars, DoneDocs

\* A request that fails without an effect.
LEMMA FailureMaps ==
  ASSUME IInv, NEW t \in Threads, ThreadStep(t), UNCHANGED tags,
         job[t].doc \in OneTagDocs, At(t) = "pending", At(t)' = "failed"
  PROVE  Promise!Fail(t)
  <1>1. DoneDocs' = DoneDocs
    BY DEF DoneDocs
  <1>2. Wishing[t] \in Promise!Wishes /\ Wishing[t].at = "pending"
    BY WishIsWish
  <1>3. QED
    BY <1>1, <1>2, WishMoves DEF Promise!Fail

LEMMA ListedMaps ==
  ASSUME IInv, NEW t \in Threads, ThreadStep(t), UNCHANGED tags, job[t].doc \in OneTagDocs,
         pc[t] \in {"lookup", "fetched"}, NEW docs \in SUBSET Docs, Listed(t, docs)
  PROVE  Promise!Fail(t) \/ UNCHANGED Promise!doneVars
  <1>1. job[t].doc # 0
    BY DoneFolderAssumption DEF OneTagDocs
  <1>2. CASE job[t].doc \in docs
    <2>1. pc'[t] = "tagging"
      BY <1>1, <1>2 DEF IInv, TypeOK, Listed, Answer, Goto
    <2>2. QED
      BY <2>1, StutterMaps DEF At
  <1>3. CASE job[t].doc \notin docs
    <2>1. pc'[t] = "idle" /\ reply'[t] = "missing"
      BY <1>1, <1>3 DEF IInv, TypeOK, Listed, Answer, Goto
    <2>2. QED
      BY <2>1, FailureMaps DEF At
  <1>4. QED
    BY <1>2, <1>3

\* A method that gives up is followed by another, or by the answer.
LEMMA FailedAt ==
  ASSUME IInv, NEW t \in Threads, Failed(t)
  PROVE  At(t)' \in {"pending", "failed"}
  <1>1. CASE NextCall(t)
    <2>1. pc'[t] = "tagging"
      BY <1>1 DEF NextCall, Goto, IInv, TypeOK
    <2>2. QED
      BY <2>1 DEF At
  <1>2. CASE LastAnswer(t, "failed")
    <2>1. pc'[t] = "idle" /\ reply'[t] = "failed"
      BY <1>2 DEF LastAnswer, Answer, Goto, IInv, TypeOK
    <2>2. QED
      BY <2>1 DEF At
  <1>3. QED
    BY <1>1, <1>2 DEF Failed

\* The tags are read: when they are right already, that is the moment of effect,
\* except in copy_move_single, which delete follows.
LEMMA ReadMaps ==
  ASSUME IInv, NEW t \in Threads, job[t].doc \in OneTagDocs, ReadTags(t)
  PROVE  Promise!Effect(t) \/ UNCHANGED Promise!doneVars
  <1>1. ThreadStep(t) /\ UNCHANGED tags /\ At(t) = "pending"
    BY DEF ReadTags, ThreadStep, At
  <1>2. CASE Satisfied(t, tags[job[t].doc]) /\ call[t] # "copy"
    <2>1. At(t)' = "effective"
      BY <1>2 DEF ReadTags, Goto, IInv, TypeOK, At
    <2>2. DoneDocs' = DoneDocs
      BY <1>1 DEF DoneDocs
    <2>3. job[t].doc \in DoneDocs <=> ToDone(t)
      BY <1>1, <1>2, WishIsWish, DoneByTag DEF Satisfied
    <2>4. DoneDocs = Promise!Granted(Wishing[t])
      BY <1>1, <2>3, WishIsWish DEF Promise!Granted
    <2>5. Wishing' = [Wishing EXCEPT ![t].at = "effective"]
      BY <1>1, <2>1, WishMoves
    <2>6. Wishing[t] \in Promise!Wishes /\ Wishing[t].at = "pending"
      BY <1>1, WishIsWish
    <2>7. QED
      BY <2>2, <2>4, <2>5, <2>6 DEF Promise!Effect
  <1>3. CASE ~Satisfied(t, tags[job[t].doc]) \/ call[t] = "copy"
    <2>1. At(t)' = "pending"
      BY <1>3 DEF ReadTags, Goto, IInv, TypeOK, At
    <2>2. QED
      BY <1>1, <2>1, StutterMaps
  <1>4. QED
    BY <1>2, <1>3

\* An attempt takes effect and its success is not known, or the next one follows.
LEMMA AttemptMaps ==
  ASSUME IInv, NEW t \in Threads, job[t].doc \in OneTagDocs, ThreadStep(t),
         NEW heard \in BOOLEAN, Patched(t, heard), At(t) = "pending", At(t)' = "pending"
  PROVE  Promise!Try(t)
  <1>1. DoneDocs' = Promise!Granted(Wishing[t])
    BY PatchGrants
  <1>2. Wishing[t] \in Promise!Wishes /\ Wishing[t].at = "pending"
    BY WishIsWish
  <1>3. QED
    BY <1>1, <1>2, WishStays DEF Promise!Try

LEMMA WriteMaps ==
  ASSUME IInv, NEW t \in Threads, job[t].doc \in OneTagDocs, WriteTags(t)
  PROVE  Promise!Effect(t) \/ Promise!Try(t)
  <1>1. ThreadStep(t) /\ At(t) = "pending" /\ Patched(t, TRUE)
    BY DEF WriteTags, ThreadStep, At
  <1>2. pc'[t] = "changed" /\ call'[t] = call[t]
    BY DEF WriteTags, Goto, IInv, TypeOK
  <1>3. CASE call[t] = "copy"
    <2>1. At(t)' = "pending"
      BY <1>2, <1>3 DEF At
    <2>2. QED
      BY <1>1, <2>1, AttemptMaps
  <1>4. CASE call[t] # "copy"
    <2>1. At(t)' = "effective"
      BY <1>2, <1>4 DEF At
    <2>2. DoneDocs' = Promise!Granted(Wishing[t])
      BY <1>1, PatchGrants
    <2>3. Wishing' = [Wishing EXCEPT ![t].at = "effective"]
      BY <1>1, <2>1, WishMoves
    <2>4. Wishing[t] \in Promise!Wishes /\ Wishing[t].at = "pending"
      BY <1>1, WishIsWish
    <2>5. QED
      BY <2>2, <2>3, <2>4 DEF Promise!Effect
  <1>5. QED
    BY <1>3, <1>4

LEMMA WriteFailureMaps ==
  ASSUME IInv, NEW t \in Threads, job[t].doc \in OneTagDocs, WriteFails(t)
  PROVE  Promise!Fail(t) \/ Promise!Try(t) \/ UNCHANGED Promise!doneVars
  <1>1. ThreadStep(t) /\ At(t) = "pending" /\ Failed(t)
    BY DEF WriteFails, ThreadStep, At
  <1>2. CASE UNCHANGED tags
    BY <1>1, <1>2, FailedAt, StutterMaps, FailureMaps
  <1>3. CASE Patched(t, FALSE) /\ At(t)' = "pending"
    BY <1>1, <1>3, AttemptMaps
  <1>4. CASE Patched(t, FALSE) /\ At(t)' = "failed"
    <2>1. DoneDocs' = Promise!Granted(Wishing[t])
      BY <1>4, PatchGrants
    <2>2. Wishing' = [Wishing EXCEPT ![t].at = "failed"]
      BY <1>1, <1>4, WishMoves
    <2>3. Wishing[t] \in Promise!Wishes /\ Wishing[t].at = "pending"
      BY <1>1, WishIsWish
    <2>4. QED
      BY <2>1, <2>2, <2>3 DEF Promise!Fail
  <1>5. QED
    BY <1>1, <1>2, <1>3, <1>4, FailedAt DEF WriteFails

\* copy_move_single is followed by delete, the others by the answer.
LEMMA InvalidateMaps ==
  ASSUME IInv, NEW t \in Threads, job[t].doc \in OneTagDocs, Invalidate(t)
  PROVE  Promise!Succeed(t) \/ UNCHANGED Promise!doneVars
  <1>1. ThreadStep(t) /\ UNCHANGED tags /\ pc[t] = "changed" /\ Succeeded(t)
    BY DEF Invalidate, ThreadStep
  <1>2. CASE call[t] = "copy"
    <2>1. pc'[t] = "tagging"
      BY <1>1, <1>2 DEF Succeeded, NextCall, Goto, IInv, TypeOK
    <2>2. At(t) = "pending" /\ At(t)' = "pending"
      BY <1>1, <1>2, <2>1 DEF At
    <2>3. QED
      BY <1>1, <2>2, StutterMaps
  <1>3. CASE call[t] # "copy"
    <2>1. pc'[t] = "idle" /\ reply'[t] = "ok"
      BY <1>1, <1>3 DEF Succeeded, LastAnswer, Answer, Goto, IInv, TypeOK
    <2>2. At(t) = "effective" /\ At(t)' = "ok"
      BY <1>1, <1>3, <2>1 DEF At
    <2>3. DoneDocs' = DoneDocs
      BY <1>1 DEF DoneDocs
    <2>4. Wishing' = [Wishing EXCEPT ![t].at = "ok"]
      BY <1>1, <2>2, WishMoves
    <2>5. Wishing[t] \in Promise!Wishes /\ Wishing[t].at = "effective"
      BY <2>2, WishIsWish
    <2>6. QED
      BY <2>3, <2>4, <2>5 DEF Promise!Succeed
  <1>4. QED
    BY <1>2, <1>3

\* Every step of a thread is a step of DoneSet, or none.
LEMMA ThreadMaps ==
  ASSUME IInv, "tags" \notin Faults, NEW t \in Threads, ThreadStep(t),
         job[t].doc \in OneTagDocs
  PROVE  \/ Promise!Try(t) \/ Promise!Effect(t) \/ Promise!Succeed(t) \/ Promise!Fail(t)
         \/ UNCHANGED Promise!doneVars
  <1>1. CASE Hit(t)
    <2>1. lists[Key(t)] \in SUBSET Docs
      BY <1>1, KeyIsKey DEF Hit, IInv, TypeOK
    <2>2. QED
      BY <1>1, <2>1, ListedMaps DEF Hit
  <1>2. CASE Fill(t)
    <2>1. got[t] \in SUBSET Docs
      BY DEF IInv, TypeOK
    <2>2. QED
      BY <1>2, <2>1, ListedMaps DEF Fill
  <1>3. CASE Miss(t) \/ FetchPage(t)
    <2>1. At(t) = "pending" /\ At(t)' = "pending" /\ UNCHANGED tags
      BY <1>3 DEF Miss, FetchPage, Goto, IInv, TypeOK, At
    <2>2. QED
      BY <2>1, StutterMaps
  <1>4. CASE PageFails(t)
    <2>1. At(t) = "pending" /\ At(t)' = "failed" /\ UNCHANGED tags
      BY <1>4 DEF PageFails, Answer, Goto, IInv, TypeOK, At
    <2>2. QED
      BY <2>1, StutterMaps, FailureMaps
  <1>5. CASE FindTag(t)
    <2>1. At(t) = "pending" /\ At(t)' = "pending" /\ UNCHANGED tags
      BY <1>5 DEF FindTag, Goto, IInv, TypeOK, At
    <2>2. QED
      BY <2>1, StutterMaps
  <1>6. CASE ReadTags(t)
    BY <1>6, ReadMaps
  <1>7. CASE ReadFails(t)
    <2>1. At(t) = "pending" /\ At(t)' \in {"pending", "failed"} /\ UNCHANGED tags
      BY <1>7, FailedAt DEF ReadFails, At
    <2>2. QED
      BY <2>1, StutterMaps, FailureMaps
  <1>8. CASE WriteTags(t) \/ WriteFails(t) \/ Invalidate(t)
    BY <1>8, WriteMaps, WriteFailureMaps, InvalidateMaps
  <1>9. QED
    BY <1>1, <1>2, <1>3, <1>4, <1>5, <1>6, <1>7, <1>8 DEF ThreadStep

LEMMA StepMaps ==
  ASSUME "tags" \notin Faults
  PROVE  IInv /\ [Next]_vars => [Promise!DoneNext]_(Promise!doneVars)
  <1> SUFFICES ASSUME IInv, [Next]_vars
               PROVE  [Promise!DoneNext]_(Promise!doneVars)
    OBVIOUS
  <1>1. ASSUME NEW t \in Threads, ThreadStep(t)
        PROVE  [Promise!DoneNext]_(Promise!doneVars)
    BY <1>1, ThreadMaps, UnwishedMaps DEF Promise!DoneNext
  <1>2. ASSUME NEW t \in Threads, NEW r \in Asks[t], Ask(t, r)
        PROVE  Promise!DoneNext
    BY <1>2, AskMaps DEF Promise!DoneNext
  <1>3. ASSUME NEW k \in Keys, Expire(k)
        PROVE  UNCHANGED Promise!doneVars
    BY <1>3 DEF Expire, Promise!doneVars, DoneDocs, Wishing, ToDone, At
  <1>4. CASE UNCHANGED vars
    BY <1>4 DEF vars, Promise!doneVars, DoneDocs, Wishing, ToDone, At
  <1>5. ASSUME NEW d \in Docs, NEW x \in Tags, Retag(d, x)
        PROVE  UNCHANGED Promise!doneVars
    <2>1. \A c \in Docs : c # d => tags'[c] = tags[c]
      BY <1>5 DEF Retag, Changed, IInv, TypeOK
    <2>2. d \notin OneTagDocs
      BY <1>5 DEF Retag, OneTagDocs
    <2>3. DoneDocs' = DoneDocs
      BY <2>1, <2>2 DEF DoneDocs, OneTagDocs
    <2>4. Wishing' = Wishing
      BY <1>5 DEF Retag, Wishing, ToDone, At
    <2>5. QED
      BY <2>3, <2>4 DEF Promise!doneVars
  <1>6. QED
    BY <1>1, <1>2, <1>3, <1>4, <1>5 DEF Next

\* MOVE implements DoneSet: of the documents that are moved for one tag, and that
\* people leave alone in Paperless, those that are done change by requests only, and
\* a MOVE that is answered with success took effect in between (handle_move,
\* copy_move_single, delete, add_tag_to_document, remove_tag_from_document),
\* whatever is cached, fails or overlaps, as long as the tag is found.
THEOREM MoveImplementsDoneSet ==
  ASSUME "tags" \notin Faults
  PROVE  Spec => ImplementsDoneSet
  <1>1. Init => Promise!DoneInit
    BY DoneFolderAssumption DEF Init, NoJob, DoneDocs, OneTagDocs, Wishing, Promise!DoneInit,
                                Promise!Nothing
  <1>2. IInv /\ [Next]_vars => [Promise!DoneNext]_(Promise!doneVars)
    BY StepMaps
  <1>3. QED
    BY <1>1, <1>2, DoneInvariance, PTL DEF Spec, ImplementsDoneSet, Promise!DoneSpec

-----------------------------------------------------------------------------
(* Pages.                                                                   *)

\* Every set of natural numbers has a least element, and a bounded one a greatest.
Less == {pair \in Nat \X Nat : pair[1] < pair[2]}

LEMMA LeastOf ==
  ASSUME NEW S \in SUBSET Nat, S # {}
  PROVE  \E m \in S : \A x \in S : m <= x
  <1>1. OpToRel(<, Nat) = Less
    BY Zenon DEF OpToRel, Less
  <1>2. IsWellFoundedOn(Less, Nat)
    BY <1>1, NatLessThanWellFounded, Zenon
  <1>3. S \subseteq Nat
    OBVIOUS
  <1>4. PICK m \in S : \A x \in S : <<x, m>> \notin Less
    BY <1>2, <1>3, WFMin, Zenon
  <1>5. \A x \in S : x < m => <<x, m>> \in Less
    BY DEF Less
  <1>6. \A x \in S : m <= x
    <2> SUFFICES ASSUME NEW x \in S PROVE m <= x
      OBVIOUS
    <2>1. m \in Nat /\ x \in Nat /\ ~(x < m)
      BY <1>4, <1>5
    <2>2. QED
      BY <2>1
  <1>7. QED
    BY <1>6

LEMMA GreatestBelow ==
  ASSUME NEW S \in SUBSET Nat, S # {}, NEW b \in Nat, \A x \in S : x < b
  PROVE  \E m \in S : \A x \in S : x <= m
  <1> DEFINE T == {b - x : x \in S}
  <1>1. T \in SUBSET Nat /\ T # {}
    <2>1. \A x \in S : b - x \in Nat
      <3> SUFFICES ASSUME NEW x \in S PROVE b - x \in Nat
        OBVIOUS
      <3>1. x \in Nat /\ x < b
        OBVIOUS
      <3>2. QED
        BY <3>1
    <2>2. QED
      BY <2>1
  <1>2. PICK y \in T : \A z \in T : y <= z
    BY <1>1, LeastOf
  <1>3. PICK m \in S : y = b - m
    OBVIOUS
  <1>4. \A x \in S : x <= m
    BY <1>2, <1>3
  <1>5. QED
    BY <1>4

\* How many of D come before d.
Rank(D, d) == Cardinality({e \in D : e < d})

LEMMA QuotientStep ==
  ASSUME NEW size \in Nat \ {0}, NEW r \in Nat, NEW n \in Nat, r \div size > n
  PROVE  r # 0 /\ (r - 1) \div size >= n
  BY SMT

LEMMA QuotientType ==
  ASSUME NEW size \in Nat \ {0}, NEW r \in Nat PROVE r \div size \in Nat
  BY SMT

\* Ranks leave no gap: when no document is on a page, none is on a later one.
LEMMA NoGap ==
  ASSUME NEW D \in SUBSET Nat, IsFiniteSet(D), NEW size \in Nat \ {0}, NEW n \in Nat,
         \A d \in D : Rank(D, d) \div size # n
  PROVE  \A d \in D : Rank(D, d) \div size < n
  <1> DEFINE B == {d \in D : Rank(D, d) \div size >= n}
  <1>1. \A d \in D : Rank(D, d) \in Nat /\ Rank(D, d) \div size \in Nat
    <2> SUFFICES ASSUME NEW d \in D PROVE Rank(D, d) \in Nat /\ Rank(D, d) \div size \in Nat
      OBVIOUS
    <2>1. {e \in D : e < d} \in SUBSET D
      OBVIOUS
    <2>2. Rank(D, d) \in Nat
      BY <2>1, FS_Subset, FS_CardinalityType DEF Rank
    <2>3. QED
      BY <2>2, QuotientType
  <1>2. SUFFICES ASSUME B # {} PROVE FALSE
    BY <1>1
  <1>3. PICK m \in B : \A d \in B : m <= d
    <2>1. B \in SUBSET Nat
      OBVIOUS
    <2>2. QED
      BY <1>2, <2>1, LeastOf
  <1>4. m \in D /\ Rank(D, m) \div size > n
    BY <1>1, <1>3
  <1> DEFINE L == {e \in D : e < m}
  <1>5. Cardinality(L) # 0 /\ (Cardinality(L) - 1) \div size >= n
    BY <1>1, <1>4, QuotientStep DEF Rank
  <1>6. IsFiniteSet(L) /\ L \in SUBSET Nat
    <2>1. L \in SUBSET D
      OBVIOUS
    <2>2. QED
      BY <2>1, FS_Subset
  <1>7. L # {}
    BY <1>5, FS_EmptySet
  <1>8. PICK f \in L : \A e \in L : e <= f
    BY <1>4, <1>6, <1>7, GreatestBelow
  <1>9. {e \in D : e < f} = L \ {f}
    <2>1. ASSUME NEW e \in D PROVE e < f <=> e < m /\ e # f
      <3>1. e \in Nat /\ f \in Nat /\ m \in Nat /\ f < m
        BY <1>4, <1>8
      <3>2. e < m => e <= f
        BY <1>8
      <3>3. QED
        BY <3>1, <3>2
    <2>2. QED
      BY <2>1
  <1>10. Rank(D, f) = Cardinality(L) - 1
    <2>1. Cardinality(L \ {f}) = Cardinality(L) - 1
      BY <1>6, <1>8, FS_RemoveElement
    <2>2. QED
      BY <1>9, <2>1 DEF Rank
  <1>11. f \in B /\ f < m
    BY <1>4, <1>5, <1>8, <1>10
  <1>12. QED
    BY <1>3, <1>4, <1>11

\* The documents on the first n pages.
Before(docs, n) == {d \in docs : Rank(docs, d) \div PageSize < n}

LEMMA FirstPages ==
  ASSUME NEW docs \in SUBSET Docs, NEW n \in Nat
  PROVE  /\ Before(docs, 0) = {}
         /\ Before(docs, n) \cup PageOf(docs, n + 1) = Before(docs, n + 1)
         /\ PageOf(docs, n + 1) = {} => Before(docs, n) = docs
  <1>1. docs \in SUBSET Nat /\ IsFiniteSet(docs) /\ PageSize \in Nat \ {0}
    BY DoneFolderAssumption, FS_Subset
  <1>2. \A d \in docs : Rank(docs, d) \div PageSize \in Nat
    <2> SUFFICES ASSUME NEW d \in docs PROVE Rank(docs, d) \div PageSize \in Nat
      OBVIOUS
    <2>1. {e \in docs : e < d} \in SUBSET docs
      OBVIOUS
    <2>2. Rank(docs, d) \in Nat
      BY <1>1, <2>1, FS_Subset, FS_CardinalityType DEF Rank
    <2>3. QED
      BY <1>1, <2>2, QuotientType
  <1>3. PageOf(docs, n + 1) = {d \in docs : Rank(docs, d) \div PageSize = n}
    BY DEF PageOf, Rank
  <1>4. ASSUME PageOf(docs, n + 1) = {} PROVE Before(docs, n) = docs
    <2>1. \A d \in docs : Rank(docs, d) \div PageSize # n
      BY <1>3, <1>4
    <2>2. \A d \in docs : Rank(docs, d) \div PageSize < n
      BY <1>1, <2>1, NoGap
    <2>3. QED
      BY <2>2 DEF Before
  <1>5. \A d \in docs : Rank(docs, d) \div PageSize < n + 1
                          <=> \/ Rank(docs, d) \div PageSize < n
                              \/ Rank(docs, d) \div PageSize = n
    BY <1>2
  <1>6. Before(docs, n) \cup PageOf(docs, n + 1) = Before(docs, n + 1)
    BY <1>3, <1>5 DEF Before
  <1>7. Before(docs, 0) = {}
    BY <1>2 DEF Before
  <1>8. QED
    BY <1>4, <1>6, <1>7

-----------------------------------------------------------------------------
(* Cached lists.                                                            *)

\* A thread holds the pages before the next one, unless pages shifted under it;
\* the list it has fetched is wrong about documents only that moved meanwhile.
Fetching(t) ==
    LET docs == Folder(job[t].share, job[t].folder)
    IN  /\ page[t] # 0
        /\ pc[t] \notin {"fetching", "fetched"} =>
               page[t] = 1 /\ got[t] = {}
        /\ pc[t] = "fetching" =>
               \/ page[t] # 1 /\ moved[t] = Docs
               \/ got[t] = Before(docs, page[t] - 1)
        /\ pc[t] = "fetched" =>
               \A d \in Docs : (d \in got[t] <=> d \in docs) \/ d \in moved[t]

\* The list under k is right about d, or need not be.
Settled(k, d) == \/ d \in lists[k] <=> d \in Folder(k[2], k[3])
                 \/ d \in excused[k]
                 \/ \E t \in Threads : AboutToDrop(t, k, d)

ListInv == /\ IInv
           /\ \A t \in Threads : Fetching(t)
           /\ \A k \in stored, d \in Docs : Settled(k, d)

LEMMA FolderDocs ==
  ASSUME NEW s, NEW role PROVE Folder(s, role) \in SUBSET Docs
  BY DEF Folder

LEMMA QuietFetching ==
  ASSUME NEW t \in Threads, Fetching(t), UNCHANGED tags, job'[t] = job[t], pc'[t] = pc[t],
         got'[t] = got[t], page'[t] = page[t], moved'[t] = moved[t]
  PROVE  Fetching(t)'
  BY DEF Fetching, Folder, Before, Rank

\* A thread that fetches nothing, or is about to.
LEMMA IdleFetching ==
  ASSUME ListInv, NEW t \in Threads,
         pc'[t] \notin {"fetching", "fetched"}, page'[t] = 1, got'[t] = {}
  PROVE  Fetching(t)'
  BY DEF Fetching

LEMMA PageFetched ==
  ASSUME ListInv, NEW t \in Threads, FetchPage(t)
  PROVE  Fetching(t)'
  <1> DEFINE docs == Folder(job[t].share, job[t].folder)
  <1>1. docs \in SUBSET Docs /\ page[t] \in Nat /\ page[t] # 0
    BY FolderDocs DEF ListInv, IInv, TypeOK, Fetching
  <1>2. Folder(job[t].share, job[t].folder)' = docs
    BY DEF FetchPage, Folder
  <1>3. page'[t] = page[t] + 1 /\ moved'[t] = moved[t]
        /\ got'[t] = got[t] \cup PageOf(docs, page[t])
        /\ pc'[t] = IF PageOf(docs, page[t] + 1) = {} THEN "fetched" ELSE "fetching"
    BY DEF FetchPage, Goto, ListInv, IInv, TypeOK
  <1>4. page'[t] # 0 /\ page'[t] # 1 /\ page'[t] - 1 = page[t]
    BY <1>1, <1>3
  <1>5. CASE page[t] # 1 /\ moved[t] = Docs
    BY <1>2, <1>3, <1>4, <1>5 DEF Fetching
  <1>6. CASE got[t] = Before(docs, page[t] - 1)
    <2>1. got'[t] = Before(docs, page[t])
      <3>1. page[t] - 1 \in Nat /\ (page[t] - 1) + 1 = page[t]
        BY <1>1
      <3>2. QED
        BY <1>1, <1>3, <1>6, <3>1, FirstPages
    <2>2. pc'[t] = "fetched" => got'[t] = docs
      BY <1>1, <1>3, <2>1, FirstPages
    <2>3. pc'[t] = "fetching" => got'[t] = Before(docs, page'[t] - 1)
      BY <1>4, <2>1
    <2>4. QED
      BY <1>2, <1>3, <1>4, <2>2, <2>3 DEF Fetching, Before, Rank
  <1>7. QED
    BY <1>5, <1>6 DEF ListInv, Fetching, FetchPage

\* A change of tags moves one document, and no other.
LEMMA ChangedFolder ==
  ASSUME IInv, NEW c, NEW ts, NEW dropped, Changed(c, ts, dropped),
         NEW s, NEW role, NEW d \in Docs, d # c
  PROVE  d \in Folder(s, role)' <=> d \in Folder(s, role)
  <1>1. tags'[d] = tags[d]
    BY DEF Changed, IInv, TypeOK
  <1>2. QED
    BY <1>1 DEF Folder

LEMMA ChangedFetching ==
  ASSUME ListInv, NEW c, NEW ts, NEW dropped, Changed(c, ts, dropped),
         NEW u \in Threads,
         {pc[u], pc'[u]} \cap {"fetching", "fetched"} # {} => pc'[u] = pc[u],
         UNCHANGED <<job, got, page>>
  PROVE  Fetching(u)'
  <1>1. page[u] # 0
    BY DEF ListInv, Fetching
  <1>2. CASE pc[u] \notin {"fetching", "fetched"}
    <2>1. pc'[u] \notin {"fetching", "fetched"}
      BY <1>2
    <2>2. page[u] = 1 /\ got[u] = {}
      BY <1>2 DEF ListInv, Fetching
    <2>3. QED
      BY <2>1, <2>2 DEF Fetching
  <1>3. CASE pc[u] = "fetching" /\ page[u] # 1
    <2>1. moved'[u] = Docs
      BY <1>3 DEF Changed
    <2>2. QED
      BY <1>1, <1>3, <2>1 DEF Fetching
  <1>4. CASE pc[u] = "fetching" /\ page[u] = 1
    <2>1. /\ Folder(job[u].share, job[u].folder) \in SUBSET Docs
          /\ Folder(job[u].share, job[u].folder)' \in SUBSET Docs
      BY DEF Folder
    <2>2. got[u] = {}
      BY <1>4, <2>1, FirstPages DEF ListInv, Fetching
    <2>3. Before(Folder(job[u].share, job[u].folder)', 0) = {}
      BY <2>1, FirstPages
    <2>4. pc'[u] = "fetching" /\ page'[u] = 1 /\ got'[u] = {}
      BY <1>4, <2>2
    <2>5. Before(Folder(job[u].share, job[u].folder)', page'[u] - 1) = {}
      BY <2>3, <2>4
    <2>6. QED
      BY <2>4, <2>5 DEF Fetching, Before, Rank
  <1>5. CASE pc[u] = "fetched"
    <2>1. ASSUME NEW d \in Docs
          PROVE  \/ d \in got[u] <=> d \in Folder(job[u].share, job[u].folder)'
                 \/ d \in moved'[u]
      <3>1. moved'[u] = moved[u] \cup {c}
        BY <1>5 DEF Changed
      <3>2. CASE d = c
        BY <3>1, <3>2
      <3>3. CASE d # c
        <4>1. d \in Folder(job[u].share, job[u].folder)'
                <=> d \in Folder(job[u].share, job[u].folder)
          BY <3>3, ChangedFolder DEF ListInv
        <4>2. QED
          BY <1>5, <3>1, <4>1 DEF ListInv, Fetching
      <3>4. QED
        BY <3>2, <3>3
    <2>2. QED
      BY <1>1, <1>5, <2>1 DEF Fetching
  <1>6. QED
    BY <1>2, <1>3, <1>4, <1>5

\* Threads that are about to drop a list still are after another thread's step.
LEMMA DropStays ==
  ASSUME NEW k, NEW d,
         \A u \in Threads : pc[u] = "changed" => pc'[u] = "changed",
         job' = job, \E u \in Threads : AboutToDrop(u, k, d)
  PROVE  (\E u \in Threads : AboutToDrop(u, k, d))'
  BY DEF AboutToDrop

LEMMA ChangedSettled ==
  ASSUME ListInv, NEW c, NEW ts, NEW dropped, Changed(c, ts, dropped),
         \A u \in Threads : pc[u] = "changed" => pc'[u] = "changed",
         UNCHANGED <<job, stored, lists>>,
         NEW k \in stored, k \in dropped => (\E u \in Threads : AboutToDrop(u, k, c))',
         NEW d \in Docs
  PROVE  Settled(k, d)'
  <1>1. k \in Keys
    BY DEF ListInv, IInv, TypeOK
  <1>2. excused'[k] = IF k \in dropped THEN excused[k] ELSE excused[k] \cup {c}
    BY <1>1 DEF Changed
  <1>3. CASE d = c /\ k \in dropped
    BY <1>3 DEF Settled
  <1>4. CASE d = c /\ k \notin dropped
    BY <1>2, <1>4 DEF Settled
  <1>5. CASE d # c
    <2>1. d \in Folder(k[2], k[3])' <=> d \in Folder(k[2], k[3])
      BY <1>5, ChangedFolder DEF ListInv
    <2>2. (\E u \in Threads : AboutToDrop(u, k, d))
             => (\E u \in Threads : AboutToDrop(u, k, d))'
      BY DropStays
    <2>3. Settled(k, d)
      BY DEF ListInv
    <2>4. QED
      BY <1>2, <2>1, <2>2, <2>3 DEF Settled
  <1>6. QED
    BY <1>3, <1>4, <1>5

\* A step that changes neither tags nor cache.
LEMMA QuietSettled ==
  ASSUME ListInv, UNCHANGED <<tags, stored, lists, excused>>,
         \A u \in Threads : pc[u] = "changed" => pc'[u] = "changed" /\ job'[u] = job[u],
         NEW k \in stored, NEW d \in Docs
  PROVE  Settled(k, d)'
  <1>1. Folder(k[2], k[3])' = Folder(k[2], k[3])
    BY DEF Folder
  <1>2. (\E u \in Threads : AboutToDrop(u, k, d))
           => (\E u \in Threads : AboutToDrop(u, k, d))'
    BY DEF AboutToDrop
  <1>3. QED
    BY <1>1, <1>2 DEF ListInv, Settled

Lists == /\ \A t \in Threads : Fetching(t)
         /\ \A k \in stored, d \in Docs : Settled(k, d)

\* The steps that leave the lists and the tags alone.
LEMMA QuietStep ==
  ASSUME ListInv, NEW t \in Threads,
         \/ Hit(t) \/ Miss(t) \/ FindTag(t) \/ ReadTags(t) \/ ReadFails(t)
         \/ \E r \in Asks[t] : Ask(t, r)
  PROVE  Lists'
  <1>1. /\ UNCHANGED <<tags, stored, lists, excused, got, page, moved>>
        /\ pc[t] \notin {"changed", "fetching", "fetched"}
        /\ pc'[t] # "fetched"
        /\ \A u \in Threads : u # t => pc'[u] = pc[u] /\ job'[u] = job[u]
    <2>1. CASE Hit(t)
      BY <2>1 DEF Hit, Listed, Answer, Goto, cache, fetch, ListInv, IInv, TypeOK
    <2>2. CASE Miss(t) \/ FindTag(t) \/ ReadTags(t) \/ ReadFails(t)
      BY <2>2, Outcome DEF Miss, FindTag, ReadTags, ReadFails, Goto, cache, fetch,
                           ListInv, IInv, TypeOK
    <2>3. CASE \E r \in Asks[t] : Ask(t, r)
      BY <2>3 DEF Ask, Goto, cache, fetch, ListInv, IInv, TypeOK
    <2>4. QED
      BY <2>1, <2>2, <2>3
  <1>2. page[t] = 1 /\ got[t] = {}
    BY <1>1 DEF ListInv, Fetching
  <1>3. ASSUME NEW u \in Threads PROVE Fetching(u)'
    <2>1. CASE u # t
      BY <1>1, <2>1, QuietFetching DEF ListInv
    <2>2. CASE u = t /\ pc'[t] # "fetching"
      BY <1>1, <1>2, <2>2, IdleFetching
    <2>3. CASE u = t /\ pc'[t] = "fetching"
      <3>1. Before(Folder(job[t].share, job[t].folder)', 0) = {}
        <4>1. Folder(job[t].share, job[t].folder)' \in SUBSET Docs
          BY DEF Folder
        <4>2. QED
          BY <4>1, FirstPages
      <3>2. page'[t] - 1 = 0 /\ page'[t] # 0 /\ got'[t] = {}
        BY <1>1, <1>2
      <3>3. QED
        BY <2>3, <3>1, <3>2 DEF Fetching, Before, Rank
    <2>4. QED
      BY <2>1, <2>2, <2>3
  <1>4. ASSUME NEW k \in stored', NEW d \in Docs PROVE Settled(k, d)'
    BY <1>1, QuietSettled
  <1>5. QED
    BY <1>3, <1>4 DEF Lists

LEMMA FetchStep ==
  ASSUME ListInv, NEW t \in Threads, FetchPage(t) \/ PageFails(t)
  PROVE  Lists'
  <1>1. /\ UNCHANGED <<tags, stored, lists, excused, job>>
        /\ pc[t] = "fetching"
        /\ \A u \in Threads : u # t => /\ pc'[u] = pc[u] /\ got'[u] = got[u]
                                       /\ page'[u] = page[u] /\ moved'[u] = moved[u]
    BY DEF FetchPage, PageFails, Fetched, Answer, Goto, cache, ListInv, IInv, TypeOK
  <1>2. ASSUME NEW u \in Threads PROVE Fetching(u)'
    <2>1. CASE u # t
      BY <1>1, <2>1, QuietFetching DEF ListInv
    <2>2. CASE u = t /\ FetchPage(t)
      BY <2>2, PageFetched
    <2>3. CASE u = t /\ PageFails(t)
      <3>1. pc'[t] = "idle" /\ page'[t] = 1 /\ got'[t] = {}
        BY <2>3 DEF PageFails, Fetched, Answer, Goto, ListInv, IInv, TypeOK
      <3>2. QED
        BY <2>3, <3>1, IdleFetching
    <2>4. QED
      BY <2>1, <2>2, <2>3
  <1>3. ASSUME NEW k \in stored', NEW d \in Docs PROVE Settled(k, d)'
    BY <1>1, QuietSettled
  <1>4. QED
    BY <1>2, <1>3 DEF Lists

LEMMA FillStep ==
  ASSUME ListInv, NEW t \in Threads, Fill(t)
  PROVE  Lists'
  <1>1. /\ UNCHANGED <<tags, job>> /\ pc[t] = "fetched"
        /\ \A u \in Threads : u # t => /\ pc'[u] = pc[u] /\ got'[u] = got[u]
                                       /\ page'[u] = page[u] /\ moved'[u] = moved[u]
        /\ pc'[t] \notin {"fetching", "fetched"} /\ page'[t] = 1 /\ got'[t] = {}
    BY DEF Fill, Listed, Fetched, Answer, Goto, ListInv, IInv, TypeOK
  <1>2. ASSUME NEW u \in Threads PROVE Fetching(u)'
    <2>1. CASE u # t
      BY <1>1, <2>1, QuietFetching DEF ListInv
    <2>2. CASE u = t
      BY <1>1, <2>2, IdleFetching
    <2>3. QED
      BY <2>1, <2>2
  <1>3. ASSUME NEW k \in stored', NEW d \in Docs PROVE Settled(k, d)'
    <2>1. CASE Cached /\ k = Key(t)
      <3>1. k \in Keys
        BY <1>1, <2>1, KeyIsKey DEF ListInv, IInv
      <3>2. lists'[k] = got[t] /\ excused'[k] = moved[t]
        BY <2>1, <3>1 DEF Fill, ListInv, IInv, TypeOK
      <3>3. k[2] = job[t].share /\ k[3] = job[t].folder
        BY <2>1 DEF Key
      <3>4. Folder(k[2], k[3])' = Folder(job[t].share, job[t].folder)
        BY <1>1, <3>3 DEF Folder
      <3>5. (d \in got[t] <=> d \in Folder(job[t].share, job[t].folder)) \/ d \in moved[t]
        BY <1>1 DEF ListInv, Fetching
      <3>6. QED
        BY <3>2, <3>4, <3>5 DEF Settled
    <2>2. CASE ~(Cached /\ k = Key(t))
      <3>1. k \in stored /\ lists'[k] = lists[k] /\ excused'[k] = excused[k]
        BY <2>2 DEF Fill, ListInv, IInv, TypeOK
      <3>2. Folder(k[2], k[3])' = Folder(k[2], k[3])
        BY <1>1 DEF Folder
      <3>3. (\E u \in Threads : AboutToDrop(u, k, d))
               => (\E u \in Threads : AboutToDrop(u, k, d))'
        BY <1>1, DropStays
      <3>4. Settled(k, d)
        BY <3>1 DEF ListInv
      <3>5. QED
        BY <3>1, <3>2, <3>3, <3>4 DEF Settled
    <2>3. QED
      BY <2>1, <2>2
  <1>4. QED
    BY <1>2, <1>3 DEF Lists

LEMMA WriteStep ==
  ASSUME ListInv, NEW t \in Threads, WriteTags(t) \/ WriteFails(t)
  PROVE  Lists'
  <1>1. /\ UNCHANGED <<stored, lists, job, got, page>>
        /\ pc[t] = "writing" /\ pc'[t] \in {"changed", "idle", "tagging"}
        /\ \A u \in Threads : u # t => pc'[u] = pc[u]
    BY Outcome DEF WriteTags, WriteFails, Goto, ListInv, IInv, TypeOK
  <1>2. job[t].doc # 0
    BY <1>1 DEF ListInv, IInv, NamesDocument, MoveSteps
  <1>3. ASSUME NEW heard \in BOOLEAN, Patched(t, heard), heard => pc'[t] = "changed"
        PROVE  Lists'
    <2> PICK c, ts, dropped : /\ c = job[t].doc /\ ts = NewTags(t)
                             /\ dropped = IF heard THEN Mine(t) ELSE {}
      OBVIOUS
    <2>1. Changed(c, ts, dropped)
      BY <1>3 DEF Patched
    <2>2. ASSUME NEW k \in stored, k \in dropped
          PROVE  (\E u \in Threads : AboutToDrop(u, k, c))'
      <3>1. heard /\ k[1] = CacheOf[t] /\ k[2] = job[t].share
        BY <2>2 DEF Mine
      <3>2. AboutToDrop(t, k, c)'
        BY <1>1, <1>3, <3>1 DEF AboutToDrop
      <3>3. QED
        BY <3>2
    <2>3. \A u \in Threads : Fetching(u)'
      <3>1. \A u \in Threads :
               {pc[u], pc'[u]} \cap {"fetching", "fetched"} # {} => pc'[u] = pc[u]
        BY <1>1
      <3>2. QED
        BY <1>1, <2>1, <3>1, ChangedFetching
    <2>4. ASSUME NEW k \in stored', NEW d \in Docs PROVE Settled(k, d)'
      <3>1. \A u \in Threads : pc[u] = "changed" => pc'[u] = "changed"
        BY <1>1
      <3>2. k \in stored
        BY <1>1
      <3>3. k \in dropped => (\E u \in Threads : AboutToDrop(u, k, c))'
        BY <2>2, <3>2
      <3>4. UNCHANGED <<job, stored, lists>>
        BY <1>1
      <3>5. QED
        BY <2>1, <3>1, <3>2, <3>3, <3>4, ChangedSettled
    <2>5. QED
      BY <2>3, <2>4 DEF Lists
  <1>4. ASSUME UNCHANGED <<tags, moved, since, excused>>
        PROVE  Lists'
    <2>1. page[t] = 1 /\ got[t] = {}
      BY <1>1 DEF ListInv, Fetching
    <2>2. ASSUME NEW u \in Threads PROVE Fetching(u)'
      <3>1. CASE u # t
        BY <1>1, <1>4, <3>1, QuietFetching DEF ListInv
      <3>2. CASE u = t
        BY <1>1, <2>1, <3>2, IdleFetching
      <3>3. QED
        BY <3>1, <3>2
    <2>3. ASSUME NEW k \in stored', NEW d \in Docs PROVE Settled(k, d)'
      BY <1>1, <1>4, QuietSettled
    <2>4. QED
      BY <2>2, <2>3 DEF Lists
  <1>5. CASE WriteTags(t)
    <2>1. Patched(t, TRUE) /\ pc'[t] = "changed"
      BY <1>5 DEF WriteTags, Goto, ListInv, IInv, TypeOK
    <2>2. QED
      BY <1>3, <2>1
  <1>6. CASE WriteFails(t)
    BY <1>3, <1>4, <1>6 DEF WriteFails
  <1>7. QED
    BY <1>5, <1>6

\* Lists that are dropped need not be right, the others are as they were.
LEMMA DropSettled ==
  ASSUME ListInv, NEW ks, Drop(ks), UNCHANGED <<tags, job>>,
         NEW k \in stored', NEW d \in Docs,
         \A u \in Threads : AboutToDrop(u, k, d) => k \in ks \/ pc'[u] = "changed"
  PROVE  Settled(k, d)'
  <1>1. k \in stored /\ k \notin ks /\ lists'[k] = lists[k] /\ excused'[k] = excused[k]
    BY DEF Drop, ListInv, IInv, TypeOK
  <1>2. Folder(k[2], k[3])' = Folder(k[2], k[3])
    BY DEF Folder
  <1>3. (\E u \in Threads : AboutToDrop(u, k, d))
           => (\E u \in Threads : AboutToDrop(u, k, d))'
    BY <1>1 DEF AboutToDrop
  <1>4. Settled(k, d)
    BY <1>1 DEF ListInv
  <1>5. QED
    BY <1>1, <1>2, <1>3, <1>4 DEF Settled

LEMMA InvalidateStep ==
  ASSUME ListInv, NEW t \in Threads, Invalidate(t)
  PROVE  Lists'
  <1> DEFINE ks == Mine(t)
  <1>1. /\ UNCHANGED <<tags, job, got, page, moved>> /\ Drop(ks)
        /\ pc[t] = "changed" /\ pc'[t] \in {"idle", "tagging"}
        /\ \A u \in Threads : u # t => pc'[u] = pc[u]
    BY Outcome DEF Invalidate, fetch, ListInv, IInv
  <1>2. page[t] = 1 /\ got[t] = {}
    BY <1>1 DEF ListInv, Fetching
  <1>3. ASSUME NEW u \in Threads PROVE Fetching(u)'
    <2>1. CASE u # t
      BY <1>1, <2>1, QuietFetching DEF ListInv
    <2>2. CASE u = t
      BY <1>1, <1>2, <2>2, IdleFetching
    <2>3. QED
      BY <2>1, <2>2
  <1>4. ASSUME NEW k \in stored', NEW d \in Docs PROVE Settled(k, d)'
    <2>1. k \in Keys
      BY <1>1 DEF Drop, ListInv, IInv, TypeOK
    <2>2. AboutToDrop(t, k, d) => k \in ks
      BY <2>1 DEF AboutToDrop, Mine
    <2>3. \A u \in Threads : AboutToDrop(u, k, d) => k \in ks \/ pc'[u] = "changed"
      BY <1>1, <2>2 DEF AboutToDrop
    <2>4. QED
      BY <1>1, <2>3, DropSettled
  <1>5. QED
    BY <1>3, <1>4 DEF Lists

LEMMA RetagStep ==
  ASSUME ListInv, NEW c \in Docs, NEW x \in Tags, Retag(c, x)
  PROVE  Lists'
  <1> DEFINE ts == IF x \in tags[c] THEN tags[c] \ {x} ELSE tags[c] \cup {x}
  <1>1. Changed(c, ts, {}) /\ UNCHANGED <<stored, lists, pc, job, got, page>>
    BY DEF Retag
  <1> HIDE DEF ts
  <1>2. \A u \in Threads : Fetching(u)'
    BY <1>1, ChangedFetching
  <1>3. ASSUME NEW k \in stored', NEW d \in Docs PROVE Settled(k, d)'
    <2>1. k \in stored /\ k \notin {}
      BY <1>1
    <2>2. QED
      BY <1>1, <2>1, ChangedSettled
  <1>4. QED
    BY <1>2, <1>3 DEF Lists

LEMMA ListInvStep == ListInv /\ [Next]_vars => ListInv'
  <1> SUFFICES ASSUME ListInv, [Next]_vars PROVE ListInv'
    OBVIOUS
  <1>1. IInv'
    BY StepInvariant DEF ListInv
  <1>2. ASSUME NEW t \in Threads, ThreadStep(t)
        PROVE  Lists'
    BY <1>2, QuietStep, FetchStep, FillStep, WriteStep, InvalidateStep DEF ThreadStep
  <1>3. ASSUME NEW t \in Threads, NEW r \in Asks[t], Ask(t, r)
        PROVE  Lists'
    BY <1>3, QuietStep
  <1>4. ASSUME NEW k \in Keys, Expire(k)
        PROVE  Lists'
    <2>1. /\ UNCHANGED <<tags, pc, job, got, page, moved>> /\ Drop({k})
      BY <1>4 DEF Expire, fetch
    <2>2. \A t \in Threads : Fetching(t)'
      BY <2>1, QuietFetching DEF ListInv
    <2>3. ASSUME NEW l \in stored', NEW d \in Docs PROVE Settled(l, d)'
      BY <2>1, DropSettled DEF AboutToDrop
    <2>4. QED
      BY <2>2, <2>3 DEF Lists
  <1>5. ASSUME UNCHANGED vars PROVE Lists'
    <2>1. \A t \in Threads : Fetching(t)'
      BY <1>5, QuietFetching DEF vars, ListInv
    <2>2. ASSUME NEW k \in stored', NEW d \in Docs PROVE Settled(k, d)'
      BY <1>5, QuietSettled DEF vars
    <2>3. QED
      BY <2>1, <2>2 DEF Lists
  <1>6. ASSUME NEW d \in Docs, NEW x \in Tags, Retag(d, x)
        PROVE  Lists'
    BY <1>6, RetagStep
  <1>7. Lists'
    BY <1>2, <1>3, <1>4, <1>5, <1>6 DEF Next
  <1>8. QED
    BY <1>1, <1>7 DEF ListInv, Lists

LEMMA InitLists == Init => ListInv
  <1> SUFFICES ASSUME Init PROVE ListInv
    OBVIOUS
  <1>1. IInv
    BY InitType DEF Init, IInv, NamesDocument, AsksServed, MoveSteps
  <1>2. \A t \in Threads : Fetching(t)
    BY DEF Init, Fetching
  <1>3. QED
    BY <1>1, <1>2 DEF Init, ListInv

\* A cached list is right about every document, except those whose move
\* overlapped with the fetch, was made elsewhere or got lost, or is about to drop
\* the list (_load_documents_cached, _invalidate_share_document_lists), for any
\* number of documents on pages of any size, threads, caches and shares.
THEOREM OnlyOverlappingMovesLeaveStaleLists == Spec => []OnlyOverlapsAreStale
  <1>1. ListInv => OnlyOverlapsAreStale
    BY DEF ListInv, Settled, OnlyOverlapsAreStale
  <1>2. QED
    BY <1>1, InitLists, ListInvStep, PTL DEF Spec

-----------------------------------------------------------------------------
(* Tags of other shares.                                                    *)

\* What a MOVE is to write back differs from what the document has by now in the
\* tag of the MOVE, and otherwise only where it changed since the MOVE was asked.
BaseSound(t) ==
    pc[t] = "writing" =>
        /\ ~Satisfied(t, base[t])
        /\ \A x \in Tags \ {Tag(t)} :
              (x \in base[t]) # (x \in tags[job[t].doc]) => x \in since[t]

BaseInv == IInv /\ \A t \in Threads : BaseSound(t)

\* A change of tags is remembered by whoever is to write the same tags back.
LEMMA ChangedBase ==
  ASSUME IInv, NEW c \in Docs, NEW ts \in SUBSET Tags, NEW dropped, Changed(c, ts, dropped),
         NEW t \in Threads, BaseSound(t),
         pc'[t] = pc[t], job' = job, base'[t] = base[t]
  PROVE  BaseSound(t)'
  <1> SUFFICES ASSUME pc[t] = "writing" PROVE BaseSound(t)'
    BY DEF BaseSound
  <1>1. job[t].doc \in Docs
    BY KeyIsKey DEF IInv, NamesDocument, MoveSteps, Request
  <1>2. Tag(t)' = Tag(t) /\ ~Satisfied(t, base[t])'
    BY DEF BaseSound, Satisfied, Tag, ToDone
  <1>3. ASSUME NEW x \in Tags \ {Tag(t)}, (x \in base[t]) # (x \in tags'[job[t].doc])
        PROVE  x \in since'[t]
    <2>1. CASE job[t].doc # c
      <3>1. tags'[job[t].doc] = tags[job[t].doc] /\ since'[t] = since[t]
        BY <1>1, <2>1 DEF Changed, IInv, TypeOK
      <3>2. QED
        BY <1>3, <3>1 DEF BaseSound
    <2>2. CASE job[t].doc = c
      <3>1. tags'[c] = ts
        BY DEF Changed, IInv, TypeOK
      <3>2. since'[t] = since[t] \cup (((ts \ tags[c]) \cup (tags[c] \ ts)) \ {Tag(t)})
        BY <2>2 DEF Changed
      <3>3. CASE (x \in ts) # (x \in tags[c])
        BY <1>3, <3>2, <3>3
      <3>4. CASE (x \in ts) = (x \in tags[c])
        <4>1. (x \in base[t]) # (x \in tags[c])
          BY <1>3, <2>2, <3>1, <3>4
        <4>2. x \in since[t]
          BY <1>3, <2>2, <4>1 DEF BaseSound
        <4>3. QED
          BY <3>2, <4>2
      <3>5. QED
        BY <3>3, <3>4
    <2>3. QED
      BY <2>1, <2>2
  <1>4. QED
    BY <1>2, <1>3 DEF BaseSound

LEMMA QuietBase ==
  ASSUME NEW t \in Threads, BaseSound(t), UNCHANGED tags,
         pc'[t] = pc[t], job'[t] = job[t], base'[t] = base[t], since'[t] = since[t]
  PROVE  BaseSound(t)'
  BY DEF BaseSound, Satisfied, Tag, ToDone

\* The tags change by a PATCH, which writes the document's other tags as they
\* were read.
LEMMA PatchBase ==
  ASSUME IInv, NEW t \in Threads, pc[t] = "writing", NEW heard \in BOOLEAN, Patched(t, heard),
         job' = job, NEW u \in Threads, BaseSound(u), pc'[u] = pc[u], base'[u] = base[u]
  PROVE  BaseSound(u)'
  <1> PICK c, ts, dropped : /\ c = job[t].doc /\ ts = NewTags(t)
                           /\ dropped = IF heard THEN Mine(t) ELSE {}
    OBVIOUS
  <1>1. Changed(c, ts, dropped)
    BY DEF Patched
  <1>2. job[t] \in Request /\ c \in Docs
    BY KeyIsKey DEF IInv, NamesDocument, MoveSteps, Request
  <1>3. ts \in SUBSET Tags
    BY <1>2, TagIsTag DEF IInv, TypeOK, NewTags
  <1>4. QED
    BY <1>1, <1>2, <1>3, ChangedBase

LEMMA ThreadBase ==
  ASSUME BaseInv, NEW t \in Threads, ThreadStep(t), NEW u \in Threads
  PROVE  BaseSound(u)'
  <1>1. BaseSound(u) /\ IInv
    BY DEF BaseInv
  <1>2. CASE Hit(t) \/ Miss(t) \/ FetchPage(t) \/ PageFails(t) \/ Fill(t)
    <2>1. /\ UNCHANGED <<tags, job, base, since>> /\ pc'[t] # "writing"
          /\ u # t => pc'[u] = pc[u]
      BY <1>1, <1>2 DEF Hit, Miss, FetchPage, PageFails, Fill, Fetched, Listed, Answer, Goto,
                       fetch, IInv, TypeOK
    <2>2. QED
      BY <1>1, <2>1, QuietBase DEF BaseSound
  <1>3. CASE FindTag(t) \/ ReadFails(t) \/ Invalidate(t)
    <2>1. /\ UNCHANGED <<tags, job, base, since>> /\ pc'[t] # "writing"
          /\ u # t => pc'[u] = pc[u]
      BY <1>1, <1>3, Outcome DEF FindTag, ReadFails, Invalidate, Goto, fetch, IInv, TypeOK
    <2>2. QED
      BY <1>1, <2>1, QuietBase DEF BaseSound
  <1>4. CASE ReadTags(t)
    <2>1. UNCHANGED <<tags, job, since>> /\ (u # t => pc'[u] = pc[u] /\ base'[u] = base[u])
      BY <1>1, <1>4 DEF ReadTags, Goto, fetch, IInv, TypeOK
    <2>2. pc'[t] = "writing" => base'[t] = tags[job[t].doc] /\ ~Satisfied(t, tags[job[t].doc])
      BY <1>1, <1>4 DEF ReadTags, Goto, IInv, TypeOK
    <2>3. CASE u = t
      <3>1. Satisfied(t, base[t])' <=> Satisfied(t, base'[t])
        BY <2>1 DEF Satisfied, Tag, ToDone
      <3>2. QED
        BY <2>1, <2>2, <2>3, <3>1 DEF BaseSound
    <2>4. CASE u # t
      BY <1>1, <2>1, <2>4, QuietBase
    <2>5. QED
      BY <2>3, <2>4
  <1>5. CASE WriteTags(t) \/ WriteFails(t)
    <2>1. /\ pc[t] = "writing" /\ pc'[t] # "writing" /\ job' = job
          /\ u # t => pc'[u] = pc[u] /\ base'[u] = base[u]
      BY <1>1, <1>5, Outcome DEF WriteTags, WriteFails, Goto, IInv, TypeOK
    <2>2. \/ \E heard \in BOOLEAN : Patched(t, heard)
          \/ UNCHANGED <<tags, since>>
      BY <1>5 DEF WriteTags, WriteFails
    <2>3. CASE u = t
      BY <2>1, <2>3 DEF BaseSound
    <2>4. CASE u # t /\ \E heard \in BOOLEAN : Patched(t, heard)
      BY <1>1, <2>1, <2>4, PatchBase
    <2>5. CASE u # t /\ UNCHANGED <<tags, since>>
      BY <1>1, <2>1, <2>5, QuietBase
    <2>6. QED
      BY <2>2, <2>3, <2>4, <2>5
  <1>6. QED
    BY <1>2, <1>3, <1>4, <1>5 DEF ThreadStep

LEMMA BaseStep == BaseInv /\ [Next]_vars => BaseInv'
  <1> SUFFICES ASSUME BaseInv, [Next]_vars, NEW u \in Threads PROVE BaseSound(u)'
    BY StepInvariant DEF BaseInv
  <1>1. BaseSound(u) /\ IInv
    BY DEF BaseInv
  <1>2. ASSUME NEW t \in Threads, ThreadStep(t)
        PROVE  BaseSound(u)'
    BY <1>2, ThreadBase
  <1>3. ASSUME NEW t \in Threads, NEW r \in Asks[t], Ask(t, r)
        PROVE  BaseSound(u)'
    <2>1. /\ UNCHANGED <<tags, base>> /\ pc'[t] = "lookup"
          /\ u # t => pc'[u] = pc[u] /\ job'[u] = job[u] /\ since'[u] = since[u]
      BY <1>1, <1>3 DEF Ask, Goto, IInv, TypeOK
    <2>2. QED
      BY <1>1, <2>1, QuietBase DEF BaseSound
  <1>4. ASSUME NEW k \in Keys, Expire(k)
        PROVE  BaseSound(u)'
    BY <1>1, <1>4, QuietBase DEF Expire, fetch
  <1>5. ASSUME NEW d \in Docs, NEW x \in Tags, Retag(d, x)
        PROVE  BaseSound(u)'
    <2> PICK ts : ts = IF x \in tags[d] THEN tags[d] \ {x} ELSE tags[d] \cup {x}
      OBVIOUS
    <2>1. ts \in SUBSET Tags
      BY <1>1 DEF IInv, TypeOK
    <2>2. Changed(d, ts, {}) /\ UNCHANGED <<pc, job, base>>
      BY <1>5 DEF Retag
    <2>3. QED
      BY <1>1, <2>1, <2>2, ChangedBase
  <1>6. CASE UNCHANGED vars
    BY <1>1, <1>6, QuietBase DEF vars
  <1>7. QED
    BY <1>2, <1>3, <1>4, <1>5, <1>6 DEF Next

\* A PATCH changes the tag of its own MOVE as it was asked to, and those that
\* changed since.
LEMMA PatchTakesBack ==
  ASSUME IInv, NEW t \in Threads, BaseSound(t), pc[t] = "writing", job' = job,
         NEW heard \in BOOLEAN, Patched(t, heard),
         NEW d \in Docs, NEW x \in Tags, (x \in tags'[d]) # (x \in tags[d])
  PROVE  /\ job[t].doc = d
         /\ x \in since[t] \/ (x = Tag(t) /\ Satisfied(t, tags'[d]))
  <1>1. job[t].doc = d /\ tags'[d] = NewTags(t)
    BY DEF Patched, Changed, IInv, TypeOK
  <1>2. Satisfied(t, NewTags(t))
    <2>1. CASE ToDone(t)
      BY <2>1 DEF Satisfied, NewTags, ToDone
    <2>2. CASE ~ToDone(t)
      BY <2>2 DEF Satisfied, NewTags, ToDone
    <2>3. QED
      BY <2>1, <2>2
  <1>3. ASSUME x # Tag(t) PROVE x \in since[t]
    <2>1. (x \in NewTags(t)) = (x \in base[t])
      BY <1>3 DEF NewTags
    <2>2. (x \in base[t]) # (x \in tags[job[t].doc])
      BY <1>1, <2>1
    <2>3. QED
      BY <1>3, <2>2 DEF BaseSound
  <1>4. QED
    BY <1>1, <1>2, <1>3

\* A MOVE never takes back another share's change, or somebody's in Paperless, that
\* was made before it was asked, although it writes back the whole list of tags
\* that it has read; and its own tag it changes only as it was asked to
\* (add_tag_to_document, remove_tag_from_document).
THEOREM MovesTakeBackOnlyOverlaps == Spec => TakesBackOnlyOverlaps
  <1>1. Init => BaseInv
    BY InitType DEF Init, BaseInv, BaseSound, IInv, NamesDocument, AsksServed,
                     MoveSteps
  <1>2. ASSUME BaseInv, Next, NEW d \in Docs, NEW x \in Tags,
               (x \in tags'[d]) # (x \in tags[d])
        PROVE  \/ d \in Edited /\ UNCHANGED pc
               \/ \E t \in Threads : /\ pc[t] = "writing" /\ job[t].doc = d
                                    /\ \/ x \in since[t]
                                       \/ x = Tag(t) /\ Satisfied(t, tags'[d])
    <2>1. ~(UNCHANGED tags)
      BY <1>2
    <2>2. ASSUME NEW t \in Threads, ThreadStep(t)
          PROVE  /\ pc[t] = "writing" /\ job' = job
                 /\ \E heard \in BOOLEAN : Patched(t, heard)
      BY <2>1, <2>2 DEF ThreadStep, Hit, Miss, FetchPage, PageFails, Fill, FindTag, ReadTags,
                        ReadFails, Invalidate, WriteTags, WriteFails
    <2>3. ASSUME NEW t \in Threads, ThreadStep(t)
          PROVE  /\ pc[t] = "writing" /\ job[t].doc = d
                 /\ x \in since[t] \/ (x = Tag(t) /\ Satisfied(t, tags'[d]))
      BY <1>2, <2>2, <2>3, PatchTakesBack DEF BaseInv
    <2>4. ASSUME NEW c \in Docs, NEW y \in Tags, Retag(c, y)
          PROVE  d \in Edited /\ UNCHANGED pc
      BY <1>2, <2>4 DEF Retag, Changed, BaseInv, IInv, TypeOK
    <2>5. QED
      BY <1>2, <2>1, <2>3, <2>4 DEF Next, Ask, Expire
  <1>3. BaseInv /\ [Next]_vars =>
          [\A d \in Docs, x \in Tags : (x \in tags'[d]) # (x \in tags[d]) =>
             \/ d \in Edited /\ UNCHANGED pc
             \/ \E t \in Threads : /\ pc[t] = "writing" /\ job[t].doc = d
                                  /\ \/ x \in since[t]
                                     \/ x = Tag(t) /\ Satisfied(t, tags'[d])]_vars
    BY <1>2
  <1>4. QED
    BY <1>1, <1>3, BaseStep, PTL DEF Spec, TakesBackOnlyOverlaps
=============================================================================
