----------------------------- MODULE DoneFolder -----------------------------
(***************************************************************************)
(* Listings of a share and its done folder, and the MOVEs between the two  *)
(* (ShareResource, DoneFolderResource and DocumentResource of              *)
(* webdav_provider.py, tags and pages of paperless_client.py, the document *)
(* lists of cache.py).                                                     *)
(*                                                                         *)
(* A document is done when it carries the share's done tag in Paperless.   *)
(* Every request first lists the folder that its path names, from the      *)
(* cache or page by page from Paperless.  A MOVE then reads the document's *)
(* tags, writes them back with or without the done tag, and drops the      *)
(* cached lists of the share.  Out of the done folder, wsgidav goes on to  *)
(* copy_move_single and delete when handle_move gives up, which do the     *)
(* same once more.  Threads of several processes do so at once, and people *)
(* may change the tags in Paperless meanwhile.                             *)
(***************************************************************************)
EXTENDS Naturals, FiniteSets

CONSTANTS Docs,         \* documents with all include tags of every share
          Shares,
          DoneTag,      \* DoneTag[s]: the tag of share s
          Threads,      \* threads that serve requests
          Caches,       \* the memory of a process each, or one Redis
          CacheOf,      \* CacheOf[t]: the cache of thread t
          Asks,         \* Asks[t]: the requests thread t is sent
          PageSize,     \* documents on a page
          Cached,       \* WEBDAV_DOCUMENT_LIST_TTL > 0
          Faults,       \* "tags", "read", "write", "page": requests that may fail
          Edited        \* documents whose tags people change in Paperless

Roles == {"root", "done"}

\* A request names a folder, and a document in it if it is a MOVE to the other
\* one (or a DELETE in the done folder); document 0 stands for none.
Request == [share : Shares, folder : Roles, doc : Docs \cup {0}]

ASSUME DoneFolderAssumption ==
    /\ Docs \subseteq Nat \ {0} /\ IsFiniteSet(Docs)
    /\ CacheOf \in [Threads -> Caches]
    /\ Asks \in [Threads -> SUBSET Request]
    /\ PageSize \in Nat \ {0}
    /\ Cached \in BOOLEAN
    /\ Edited \subseteq Docs

NoJob == [doc |-> 0]
Tags == {DoneTag[s] : s \in Shares}
Keys == Caches \X Shares \X Roles

VARIABLES tags,         \* tags[d]: the done tags that d carries
          stored,       \* the keys under which a list is cached
          lists,        \* lists[k]: the documents of the cached list
          pc, job,      \* job[t]: the request that thread t serves
          call,         \* call[t]: the method of the document that wsgidav is in
          got,          \* got[t]: documents of the pages fetched so far
          page,         \* page[t]: the page to fetch next
          base,         \* base[t]: the tags that were read
          reply,        \* reply[t]: the last answer of t
          moved,        \* moved[t]: documents that changed since t began to fetch
          since,        \* since[t]: other shares' tags of the document of t that
                        \* changed since t was asked
          excused       \* excused[k]: documents that lists[k] may be wrong about

fetch == <<got, page, moved, since>>
cache == <<stored, lists, excused>>
vars == <<tags, stored, lists, pc, job, call, got, page, base, reply, moved, since,
          excused>>

\* None yet, or handle_move, copy_move_single, delete.
Calls == {"none", "move", "copy", "delete"}

Goto(t, step) == pc' = [pc EXCEPT ![t] = step]
Answer(t, answer) == Goto(t, "idle") /\ reply' = [reply EXCEPT ![t] = answer]

\* The type invariant; no cache entry without the time to live.
TypeOK ==
    /\ tags \in [Docs -> SUBSET Tags]
    /\ stored \subseteq Keys /\ (stored # {} => Cached)
    /\ lists \in [Keys -> SUBSET Docs]
    /\ pc \in [Threads -> {"idle", "lookup", "fetching", "fetched",
                           "tagging", "reading", "writing", "changed"}]
    /\ job \in [Threads -> Request \cup {NoJob}]
    /\ \A t \in Threads : job[t] = NoJob => pc[t] = "idle"
    /\ call \in [Threads -> Calls]
    /\ got \in [Threads -> SUBSET Docs]
    /\ page \in [Threads -> Nat]
    /\ base \in [Threads -> SUBSET Tags]
    /\ reply \in [Threads -> {"none", "listing", "missing", "ok", "failed", "error"}]
    /\ moved \in [Threads -> SUBSET Docs]
    /\ since \in [Threads -> SUBSET Tags]
    /\ excused \in [Keys -> SUBSET Docs]

Init ==
    /\ tags = [d \in Docs |-> {}]
    /\ stored = {}
    /\ lists = [k \in Keys |-> {}]
    /\ pc = [t \in Threads |-> "idle"]
    /\ job = [t \in Threads |-> NoJob]
    /\ call = [t \in Threads |-> "none"]
    /\ got = [t \in Threads |-> {}]
    /\ page = [t \in Threads |-> 1]
    /\ base = [t \in Threads |-> {}]
    /\ reply = [t \in Threads |-> "none"]
    /\ moved = [t \in Threads |-> {}]
    /\ since = [t \in Threads |-> {}]
    /\ excused = [k \in Keys |-> {}]

-----------------------------------------------------------------------------
(* Listing the folder of the request.                                       *)

Key(t) == <<CacheOf[t], job[t].share, job[t].folder>>

\* What Paperless has in a folder: the done tag is among the excluded tags of
\* the root, and among the included tags of the done folder.
Folder(s, role) == {d \in Docs : (DoneTag[s] \in tags[d]) = (role = "done")}

Ask(t, r) ==
    /\ pc[t] = "idle"
    /\ r \in Asks[t]
    /\ job' = [job EXCEPT ![t] = r]
    /\ reply' = [reply EXCEPT ![t] = "none"]
    /\ since' = [since EXCEPT ![t] = {}]
    /\ Goto(t, "lookup")
    /\ UNCHANGED <<tags, cache, call, got, page, moved, base>>

\* A document is moved, or deleted from the done folder.
FirstCalls(t) == IF job[t].folder = "done" THEN {"move", "delete"} ELSE {"move"}

\* The folder has been listed: answer, or go on with the document that the path
\* names.
Listed(t, docs) ==
    \/ /\ job[t].doc = 0
       /\ Answer(t, "listing") /\ UNCHANGED call
    \/ /\ job[t].doc \in docs
       /\ \E c \in FirstCalls(t) : call' = [call EXCEPT ![t] = c]
       /\ Goto(t, "tagging") /\ UNCHANGED reply
    \/ /\ job[t].doc \notin docs \cup {0}
       /\ Answer(t, "missing") /\ UNCHANGED call

\* _load_documents_cached, a hit.
Hit(t) ==
    /\ pc[t] = "lookup"
    /\ Key(t) \in stored
    /\ Listed(t, lists[Key(t)])
    /\ UNCHANGED <<tags, cache, job, fetch, base>>

\* A miss.
Miss(t) ==
    /\ pc[t] = "lookup"
    /\ Key(t) \notin stored
    /\ Goto(t, "fetching")
    /\ UNCHANGED <<tags, cache, job, call, fetch, base, reply>>

\* Page n of a folder; Paperless keeps an order of its own, here that of the ids.
PageOf(docs, n) ==
    {d \in docs : Cardinality({e \in docs : e < d}) \div PageSize = n - 1}

\* _paginated_get: the next page of the folder as it is now, until a page has no
\* next one.
FetchPage(t) ==
    LET docs == Folder(job[t].share, job[t].folder)
    IN  /\ pc[t] = "fetching"
        /\ page[t] = 1 \/ PageOf(docs, page[t]) # {}
        /\ got' = [got EXCEPT ![t] = @ \cup PageOf(docs, page[t])]
        /\ page' = [page EXCEPT ![t] = @ + 1]
        /\ Goto(t, IF PageOf(docs, page[t] + 1) = {} THEN "fetched" ELSE "fetching")
        /\ UNCHANGED <<tags, cache, job, call, base, reply, moved, since>>

Fetched(t) == /\ got' = [got EXCEPT ![t] = {}]
              /\ page' = [page EXCEPT ![t] = 1]
              /\ moved' = [moved EXCEPT ![t] = {}]
              /\ UNCHANGED since

\* A request for a page fails, also when there is no such page any more (404).
PageFails(t) ==
    /\ pc[t] = "fetching"
    /\ \/ "page" \in Faults
       \/ page[t] # 1 /\ PageOf(Folder(job[t].share, job[t].folder), page[t]) = {}
    /\ Answer(t, "error")
    /\ Fetched(t)
    /\ UNCHANGED <<tags, cache, job, call, base>>

\* set_document_list, and on with the request.
Fill(t) ==
    /\ pc[t] = "fetched"
    /\ Listed(t, got[t])
    /\ stored' = IF Cached THEN stored \cup {Key(t)} ELSE stored
    /\ lists' = IF Cached THEN [lists EXCEPT ![Key(t)] = got[t]] ELSE lists
    /\ excused' = IF Cached THEN [excused EXCEPT ![Key(t)] = moved[t]] ELSE excused
    /\ Fetched(t)
    /\ UNCHANGED <<tags, job, base>>

-----------------------------------------------------------------------------
(* MOVE to the other folder.                                                *)

ToDone(t) == job[t].folder = "root"
Tag(t) == DoneTag[job[t].share]

\* The done tag is as the request wants it.
Satisfied(t, ts) == (Tag(t) \in ts) = ToDone(t)

\* wsgidav goes on: to copy_move_single when handle_move returns False, and after
\* copy_move_single, whatever it returns, to delete.
NextCall(t) == /\ call' = [call EXCEPT ![t] = IF @ = "move" THEN "copy" ELSE "delete"]
               /\ Goto(t, "tagging")
               /\ UNCHANGED reply

LastAnswer(t, answer) == Answer(t, answer) /\ call' = [call EXCEPT ![t] = "none"]

\* The method has done its work; copy_move_single is followed by delete.
Succeeded(t) == \/ call[t] # "copy" /\ LastAnswer(t, "ok")
                \/ call[t] = "copy" /\ NextCall(t)

\* The method has failed: handle_move into the done folder raises 403, and so
\* does delete.  Out of the done folder the other two return False, but wsgidav
\* does not go on from handle_move if it finds a document of that name in the
\* root, which it is not allowed to delete.
Failed(t) == \/ (ToDone(t) \/ call[t] # "copy") /\ LastAnswer(t, "failed")
             \/ ~ToDone(t) /\ call[t] # "delete" /\ NextCall(t)

\* _get_done_tag_id: without a tag there is nothing to do.
FindTag(t) ==
    /\ pc[t] = "tagging"
    /\ \E found \in {TRUE} \cup (IF "tags" \in Faults THEN {FALSE} ELSE {}) :
         IF found THEN Goto(t, "reading") /\ UNCHANGED <<reply, call>> ELSE Succeeded(t)
    /\ UNCHANGED <<tags, cache, job, fetch, base>>

\* add_tag_to_document, remove_tag_from_document: the tags are read; when they
\* are right already, nothing is written.
ReadTags(t) ==
    /\ pc[t] = "reading"
    /\ LET current == tags[job[t].doc]
       IN  IF Satisfied(t, current)
             THEN Goto(t, "changed") /\ UNCHANGED base
             ELSE Goto(t, "writing") /\ base' = [base EXCEPT ![t] = current]
    /\ UNCHANGED <<tags, cache, job, call, fetch, reply>>

ReadFails(t) ==
    /\ pc[t] = "reading"
    /\ "read" \in Faults
    /\ Failed(t)
    /\ UNCHANGED <<tags, cache, job, fetch, base>>

\* Mutant: the share is taken for its tag.
NewTagsByShare(t) == base[t] \cup {job[t].share}

\* Mutant: the list that is written has nothing but the done tag.
NewTagsAlone(t) == IF ToDone(t) THEN {Tag(t)} ELSE {}

NewTags(t) == IF ToDone(t) THEN base[t] \cup {Tag(t)} ELSE base[t] \ {Tag(t)}

\* Document d has the tags ts from now on.  The history variables: a list that is
\* being fetched may miss the change, or any document once the pages shift; a
\* cached list is wrong about it, unless it is going to be dropped; a thread that
\* serves a MOVE of d has been asked before.
Changed(d, ts, dropped) ==
    /\ tags' = [tags EXCEPT ![d] = ts]
    /\ moved' = [u \in Threads |->
          IF pc[u] = "fetching" /\ page[u] # 1 THEN Docs
          ELSE IF pc[u] = "fetched" THEN moved[u] \cup {d}
          ELSE moved[u]]
    /\ excused' = [k \in Keys |->
          IF k \in stored \ dropped THEN excused[k] \cup {d} ELSE excused[k]]
    /\ since' = [u \in Threads |->
          IF pc[u] # "idle" /\ job[u].doc = d
            THEN since[u] \cup (((ts \ tags[d]) \cup (tags[d] \ ts)) \ {Tag(u)})
            ELSE since[u]]

\* The cached lists that a MOVE is going to drop.
Mine(t) == {k \in Keys : k[1] = CacheOf[t] /\ k[2] = job[t].share}

\* Paperless takes the PATCH.  When its answer is lost, no list is dropped.
Patched(t, heard) ==
    Changed(job[t].doc, NewTags(t), IF heard THEN Mine(t) ELSE {})

\* Somebody sets or takes away a done tag in Paperless.
Retag(d, x) ==
    /\ d \in Edited
    /\ Changed(d, IF x \in tags[d] THEN tags[d] \ {x} ELSE tags[d] \cup {x}, {})
    /\ UNCHANGED <<stored, lists, pc, job, call, got, page, base, reply>>

WriteTags(t) ==
    /\ pc[t] = "writing"
    /\ Patched(t, TRUE)
    /\ base' = [base EXCEPT ![t] = {}]
    /\ Goto(t, "changed")
    /\ UNCHANGED <<stored, lists, job, call, got, page, reply>>

\* Mutant: the status of the answer is not looked at.
WriteErrorIgnored(t) ==
    /\ pc[t] = "writing"
    /\ "write" \in Faults
    /\ base' = [base EXCEPT ![t] = {}]
    /\ Goto(t, "changed")
    /\ UNCHANGED <<tags, cache, job, call, fetch, reply>>

\* The PATCH fails, or its answer is lost: raise_for_status or a timeout.
WriteFails(t) ==
    /\ pc[t] = "writing"
    /\ "write" \in Faults
    /\ \/ Patched(t, FALSE)
       \/ UNCHANGED <<tags, moved, since, excused>>
    /\ base' = [base EXCEPT ![t] = {}]
    /\ Failed(t)
    /\ UNCHANGED <<stored, lists, job, got, page>>

\* The lists under ks leave the cache.
Drop(ks) == /\ stored' = stored \ ks
            /\ lists' = [k \in Keys |-> IF k \in ks THEN {} ELSE lists[k]]
            /\ excused' = [k \in Keys |-> IF k \in ks THEN {} ELSE excused[k]]

\* Mutant: only the list that the request came by is dropped.
InvalidateOne(t) ==
    /\ pc[t] = "changed"
    /\ Drop({Key(t)})
    /\ Succeeded(t)
    /\ UNCHANGED <<tags, job, fetch, base>>

\* _invalidate_share_document_lists: both folders of the share.
Invalidate(t) ==
    /\ pc[t] = "changed"
    /\ Drop(Mine(t))
    /\ Succeeded(t)
    /\ UNCHANGED <<tags, job, fetch, base>>

\* Mutant: an empty list is taken for no entry, and never looked at.
ExpireUnlessEmpty(k) ==
    /\ k \in stored /\ lists[k] # {}
    /\ Drop({k})
    /\ UNCHANGED <<tags, pc, job, call, fetch, base, reply>>

\* The time to live of a list ends.
Expire(k) ==
    /\ k \in stored
    /\ Drop({k})
    /\ UNCHANGED <<tags, pc, job, call, fetch, base, reply>>

ThreadStep(t) ==
    \/ Hit(t) \/ Miss(t) \/ FetchPage(t) \/ PageFails(t) \/ Fill(t)
    \/ FindTag(t) \/ ReadTags(t) \/ ReadFails(t)
    \/ WriteTags(t) \/ WriteFails(t) \/ Invalidate(t)

Next ==
    \/ \E t \in Threads : ThreadStep(t) \/ \E r \in Asks[t] : Ask(t, r)
    \/ \E k \in Keys : Expire(k)
    \/ \E d \in Docs, x \in Tags : Retag(d, x)

Spec == Init /\ [][Next]_vars

\* Calls to Paperless time out, and so do cached lists.
FairSpec == /\ Spec
            /\ \A t \in Threads : WF_vars(ThreadStep(t))
            /\ \A k \in Keys : WF_vars(Expire(k))

-----------------------------------------------------------------------------

\* Thread t is about to drop the lists under k, and d is what it has changed.
AboutToDrop(t, k, d) == /\ pc[t] = "changed"
                        /\ job[t].doc = d /\ job[t].share = k[2] /\ CacheOf[t] = k[1]

\* A cached list is right about every document, unless it was fetched while the
\* document was being moved, or the document was moved by another process, in
\* another share, by somebody in Paperless or by a request whose outcome was lost,
\* or the request that moved it is just about to drop the list
\* (_invalidate_share_document_lists).
OnlyOverlapsAreStale ==
    \A k \in stored, d \in Docs :
        \/ d \in lists[k] <=> d \in Folder(k[2], k[3])
        \/ d \in excused[k]
        \/ \E t \in Threads : AboutToDrop(t, k, d)

\* A MOVE writes back all of the tags that it has read (add_tag_to_document,
\* remove_tag_from_document), and takes back by it what another share's MOVE or
\* somebody in Paperless has changed, but never a change that was made before the
\* MOVE was asked: a client that moves a document in two shares one after the
\* other gets both.  Its own tag it changes only to what it was asked for.
TakesBackOnlyOverlaps ==
    [][\A d \in Docs, x \in Tags : (x \in tags'[d]) # (x \in tags[d]) =>
         \/ d \in Edited /\ UNCHANGED pc
         \/ \E t \in Threads : /\ pc[t] = "writing" /\ job[t].doc = d
                              /\ \/ x \in since[t]
                                 \/ x = Tag(t) /\ Satisfied(t, tags'[d])]_vars

\* When tags change no more, the cached lists are right in the end, and stay so,
\* whatever was cached before.
ListsAreRight == \A k \in stored : lists[k] = Folder(k[2], k[3])
ListsSettle == <>[][FALSE]_tags => <>[]ListsAreRight

\* _invalidate_share_document_lists: "an in-WebDAV MOVE or DELETE never has to
\* wait for the TTL to expire before the change shows up in subsequent
\* listings": once it is answered, and as long as the document stays where it was
\* moved, no cached list of the share says otherwise.
MoveShowsAtOnce ==
    \A t \in Threads : reply[t] = "ok" =>
        \A k \in stored :
            k[1] = CacheOf[t] /\ k[2] = job[t].share /\ Satisfied(t, tags[job[t].doc])
            => (job[t].doc \in lists[k] <=> job[t].doc \in Folder(k[2], k[3]))

\* The promise of a MOVE, for documents that are moved for the sake of one tag and
\* that people leave alone.
MoveTags == [d \in Docs |->
    {DoneTag[r.share] : r \in {r \in UNION {Asks[t] : t \in Threads} : r.doc = d}}]
OneTagDocs == {d \in Docs \ Edited : \A x, y \in MoveTags[d] : x = y}
DoneDocs == {d \in OneTagDocs : MoveTags[d] \cap tags[d] # {}}
At(t) == IF pc[t] = "changed" /\ call[t] # "copy" THEN "effective"
         ELSE IF pc[t] # "idle" THEN "pending"
         ELSE IF reply[t] = "ok" THEN "ok" ELSE "failed"
Wishing == [t \in Threads |-> IF job[t].doc \in OneTagDocs
                THEN [doc |-> job[t].doc, value |-> ToDone(t), at |-> At(t)]
                ELSE [at |-> "none"]]
Promise == INSTANCE DoneSet WITH done <- DoneDocs, request <- Wishing
ImplementsDoneSet == Promise!DoneSpec
=============================================================================
