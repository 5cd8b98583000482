------------------------------ MODULE Catalog -------------------------------
(***************************************************************************)
(* A reader browses a share, as folders over WebDAV and as feeds over OPDS,*)
(* while the documents and tags change in Paperless (get_resource_inst and *)
(* get_member of webdav_provider.py, OpdsApp of opds.py, tag maps of       *)
(* cache.py).                                                              *)
(*                                                                         *)
(* A request reads the map of tag names, from the cache if it is there,    *)
(* fetches the documents that pass the filter of the share, and routes the *)
(* path or builds the feed, for which it reads the map again.  The reader  *)
(* remembers one listing, or one walk from page to page of a feed.         *)
(***************************************************************************)
EXTENDS ShareFolders

CONSTANTS Docs,         \* ids that documents may get, in that order
          InitialDocs,  \* the documents at the beginning, with their tags
          InitialNames, \* the names of the tags at the beginning
          NewTags,      \* sets of tags that a new document may carry
          Renames,      \* Renames[t]: names that tag t may be given
          MaxEdits      \* bound: changes in Paperless

NoMap == <<>>
NoCount == -1
Nothing == [kind |-> "nothing"]
Recent == Root          \* the feed of all documents
Search == <<"search", 0>>

IsList(l) == DOMAIN l \subseteq Docs /\ \A d \in DOMAIN l : l[d] \subseteq Tags

\* No two tags have one name.
NamesDiffer(map) == \A t, u \in Tags : map[t] = map[u] => t = u \/ map[t] = Unnamed

\* A share has one done tag, and documents have titles and are added at some time.
ASSUME CatalogAssumption ==
    /\ Tags \subseteq Nat \ {0} /\ Docs \subseteq Nat \ {0}
    /\ PageSize \in Nat \ {0} /\ MaxEdits \in Nat
    /\ IsFiniteSet(Docs)
    /\ \A d \in Docs : BaseName[d] \in Seq(Nat) /\ Added[d] \in Nat
    /\ IsList(InitialDocs) /\ InitialNames = [t \in Tags |-> InitialNames[t]]
    /\ \A ts \in NewTags : ts \subseteq Tags
    /\ NamesDiffer(InitialNames)
    /\ Unnamed \notin Share.include \cup Share.exclude \cup Share.done
    /\ \A m, n \in Share.done : m = n

VARIABLES docs,         \* docs[d]: the tags of document d, in Paperless
          tagName,      \* tagName[t]: the name of tag t, in Paperless
          edits,        \* changes in Paperless so far
          known,        \* the cached map of tag names, or NoMap
          pc, req,      \* the request that is served
          at,           \* the folder that has been resolved
          filter,       \* what to fetch
          hits,         \* what the search has found
          loaded,       \* the documents that were fetched
          memory,       \* what the reader knows of its last listing or walk
          reply         \* what it was told last

paperless == <<docs, tagName, edits>>
request == <<req, at, filter, hits, loaded>>
vars == <<paperless, known, pc, request, memory, reply>>

Maps == [Tags -> {Unnamed} \cup {InitialNames[t] : t \in Tags} \cup UNION {Renames[t] : t \in Tags}]

TypeOK ==
    /\ IsList(docs) /\ IsList(loaded)
    /\ tagName \in Maps
    /\ known = NoMap \/ known \in Maps
    /\ edits \in 0..MaxEdits
    /\ pc \in {"idle", "map", "search", "load", "route"}
    /\ pc = "idle" => req = Nothing
    /\ at \in {Root, Done, Unsorted} \cup {TagFolder(t) : t \in Tags}
    /\ filter \in [include : SUBSET Tags, exclude : SUBSET Tags]
    /\ hits \in Seq(Docs)
    /\ memory.kind \in {"nothing", "listing", "walk"}
    /\ reply.kind \in {"nothing", "missing", "listing", "opened", "feed", "served", "refused"}

NoFilter == [include |-> {}, exclude |-> {}]
NoDocs == [d \in {} |-> {}]

Init ==
    /\ docs = InitialDocs
    /\ tagName = InitialNames
    /\ edits = 0
    /\ known = NoMap
    /\ pc = "idle"
    /\ req = Nothing /\ at = Root /\ filter = NoFilter /\ hits = <<>> /\ loaded = NoDocs
    /\ memory = Nothing
    /\ reply = Nothing

-----------------------------------------------------------------------------
(* Paperless: documents arrive, are tagged, and tags are renamed.           *)

\* What a walk was told may be wrong now.
Disturbed(m) == IF m.kind = "walk" THEN [m EXCEPT !.quiet = FALSE] ELSE m

Edit == /\ edits < MaxEdits
        /\ edits' = edits + 1
        /\ memory' = Disturbed(memory)
        /\ UNCHANGED <<known, pc, request, reply>>

AddDocument ==
    \E d \in Docs, ts \in NewTags :
        /\ \A e \in DOMAIN docs : e < d
        /\ docs' = [e \in DOMAIN docs \cup {d} |-> IF e = d THEN ts ELSE docs[e]]
        /\ UNCHANGED tagName
        /\ Edit

Toggle(ts, t) == IF t \in ts THEN ts \ {t} ELSE ts \cup {t}

Retag ==
    \E d \in DOMAIN docs, t \in Tags :
        /\ docs' = [docs EXCEPT ![d] = Toggle(@, t)]
        /\ UNCHANGED tagName
        /\ Edit

RenameTag ==
    \E t \in Tags : \E n \in Renames[t] :
        /\ n = Unnamed \/ \A u \in Tags : tagName[u] # n
        /\ tagName' = [tagName EXCEPT ![t] = n]
        /\ UNCHANGED docs
        /\ Edit

-----------------------------------------------------------------------------
(* The map of tag names.                                                    *)

\* _get_tag_map: the cached map, or that of Paperless, which is then cached.
ReadMap(map) ==
    /\ map = IF known = NoMap THEN tagName ELSE known
    /\ known' = map

\* The time to live of the map ends.
ExpireMap ==
    /\ known # NoMap
    /\ known' = NoMap
    /\ memory' = IF known = tagName THEN memory ELSE Disturbed(memory)
    /\ UNCHANGED <<paperless, pc, request, reply>>

-----------------------------------------------------------------------------
(* A request.                                                               *)

\* The folder that a path begins with is the root, or found in it; the done
\* folder and the catch-all are found without a look at the documents.
Ask(r) ==
    /\ pc = "idle"
    /\ req' = r
    /\ at' = IF r.kind \in {"list", "open"} /\ r.folder # Root /\ Fixed(r.folder) # Missing
               THEN Fixed(r.folder) ELSE Root
    /\ pc' = IF r.kind = "feed" /\ r.key = Search THEN "search" ELSE "map"
    /\ reply' = Nothing
    /\ UNCHANGED <<paperless, known, filter, hits, loaded, memory>>

\* The reader lists the root, or a folder that it was shown.
AskList ==
    \E f \in {Root} \cup (IF memory.kind = "listing" /\ memory.folder = Root
                            THEN DOMAIN memory.index ELSE {}) :
        Ask([kind |-> "list", folder |-> f])

\* It opens or moves a document that it was shown.
AskOpen ==
    /\ memory.kind = "listing"
    /\ \E n \in DOMAIN memory.index, move \in BOOLEAN :
         /\ memory.index[n][1] = "document"
         /\ Ask([kind |-> "open", folder |-> memory.folder, name |-> n, move |-> move])

\* It opens a feed, follows a facet, or goes on to the next page.
AskFeed ==
    \/ \E key \in {Recent, Search} :
         Ask([kind |-> "feed", key |-> key, page |-> 1, count |-> NoCount])
    \/ /\ memory.kind = "walk"
       /\ \E key \in DOMAIN memory.facets :
            Ask([kind |-> "feed", key |-> key, page |-> 1, count |-> memory.facets[key]])
    \/ /\ memory.kind = "walk" /\ memory.next
       /\ Ask([kind |-> "feed", key |-> memory.key, page |-> memory.page + 1,
               count |-> memory.count])

\* It downloads a document, whether shown or not.
AskDownload == \E d \in Docs : Ask([kind |-> "download", doc |-> d])

GetMap ==
    /\ pc = "map"
    /\ \E map \in Maps : ReadMap(map) /\ filter' = Filter(map, at)
    /\ pc' = "load"
    /\ UNCHANGED <<paperless, req, at, hits, loaded, memory, reply>>

\* search_documents: the hits among the documents with the include tags, in
\* Paperless' order.
SearchPage ==
    /\ pc = "search"
    /\ \E map \in Maps :
         LET found == {d \in DOMAIN docs : ResolveTags(map, Share.include) \subseteq docs[d]}
         IN  /\ ReadMap(map)
             /\ hits' = InOrder(found, [d \in found |-> 1 .. (d - 1)])
    /\ pc' = "map"
    /\ UNCHANGED <<paperless, req, at, filter, loaded, memory, reply>>

\* What a request fetches that knows the present names.
Fetched(folder) ==
    [d \in {d \in DOMAIN docs : Passes(Filter(tagName, folder), docs[d])} |-> docs[d]]

\* The documents that pass the filter.
Load ==
    /\ pc = "load"
    /\ loaded' = [d \in {d \in DOMAIN docs : Passes(filter, docs[d])} |-> docs[d]]
    /\ pc' = "route"
    /\ UNCHANGED <<paperless, known, req, at, filter, hits, memory, reply>>

\* Mutant: the request is not done with.
AnswerAndKeep(r) ==
    /\ reply' = r
    /\ pc' = "idle"
    /\ at' = Root /\ filter' = NoFilter /\ hits' = <<>> /\ loaded' = NoDocs
    /\ UNCHANGED req

Answer(r) ==
    /\ reply' = r
    /\ pc' = "idle"
    /\ req' = Nothing /\ at' = Root /\ filter' = NoFilter /\ hits' = <<>> /\ loaded' = NoDocs

NotFound == Answer([kind |-> "missing", ids |-> {}])

\* The path goes on below a tag folder: the folder fetches for itself.
Enter ==
    /\ pc = "route" /\ req.kind \in {"list", "open"}
    /\ at = Root /\ req.folder # Root
    /\ \E map \in Maps :
         LET folder == Member(map, loaded, req.folder)
         IN  /\ ReadMap(map)
             /\ IF folder[1] = "tag"
                  THEN /\ at' = folder
                       /\ pc' = "map"
                       /\ loaded' = NoDocs
                       /\ UNCHANGED <<req, filter, hits, reply>>
                  ELSE NotFound
    /\ UNCHANGED <<paperless, memory>>

Here == pc = "route" /\ (at # Root \/ req.folder = Root)

\* The map, if the members of the folder depend on it.
FolderMap(map) == IF at = Unsorted \/ (at = Root /\ TagFolders)
                    THEN ReadMap(map)
                    ELSE map = tagName /\ UNCHANGED known

\* get_member_names and get_member of every name.
List ==
    /\ pc = "route" /\ req.kind = "list" /\ Here
    /\ \E map \in Maps :
         LET here == FolderDocs(map, loaded, at)
             index == IF at = Root
                        THEN [n \in MemberNames(map, loaded) |-> Member(map, loaded, n)]
                        ELSE [n \in DOMAIN Index(DOMAIN here) |-> Document(Index(DOMAIN here)[n])]
         IN  /\ FolderMap(map)
             /\ memory' = [kind |-> "listing", folder |-> req.folder, index |-> index,
                           ids |-> DOMAIN here]
    /\ Answer([kind |-> "listing"])
    /\ UNCHANGED paperless

\* get_member of the name; a MOVE adds or removes the tags of the done folder.
Open ==
    /\ pc = "route" /\ req.kind = "open" /\ Here
    /\ \E map \in Maps :
         LET here == FolderDocs(map, loaded, at)
             found == IF at = Root THEN Member(map, loaded, req.name)
                      ELSE IF req.name \in DOMAIN Index(DOMAIN here)
                             THEN Document(Index(DOMAIN here)[req.name])
                      ELSE Missing
             done == ResolveTags(tagName, DoneNames)
         IN  /\ FolderMap(map)
             /\ IF found[1] = "document"
                  THEN Answer([kind |-> "opened", doc |-> found[2], name |-> req.name,
                               ids |-> DOMAIN here])
                  ELSE Answer([kind |-> "missing", name |-> req.name, ids |-> DOMAIN here])
             /\ docs' = IF req.move /\ found[1] = "document"
                          THEN [docs EXCEPT ![found[2]] =
                                  IF at = Done THEN @ \ done ELSE @ \cup done]
                          ELSE docs
    /\ UNCHANGED <<tagName, edits, memory>>

\* Mutant: the document is looked for among those that have a file name.
DownloadByName ==
    /\ pc = "route" /\ req.kind = "download"
    /\ Answer([kind |-> IF req.doc \in Range(Index(DOMAIN loaded)) THEN "served" ELSE "refused",
               doc |-> req.doc])
    /\ UNCHANGED <<paperless, known, memory>>

\* _member: the document is sent if it is one of the share's.
Download ==
    /\ pc = "route" /\ req.kind = "download"
    /\ Answer([kind |-> IF req.doc \in DOMAIN loaded THEN "served" ELSE "refused",
               doc |-> req.doc])
    /\ UNCHANGED <<paperless, known, memory>>

\* The feed of a key, as a sequence; a search is what the hits and the share
\* have in common, but its pages are cut before.
FeedList(map) == IF req.key = Search THEN hits
                 ELSE NewestFirst(FolderDocs(map, loaded, req.key))

\* _acquisition_feed, one page, which the reader adds to its walk.  What it is
\* owed are the documents that were in the feed when it began.
Feed ==
    /\ pc = "route" /\ req.kind = "feed"
    /\ \E map \in Maps :
         LET list == FeedList(map)
             page == PageOf(list, req.page)
             entries == {i \in DOMAIN page : page[i] \in DOMAIN loaded}
             \* A page past the end of a search has no hits, and no total.
             total == IF req.key = Search /\ page = <<>> THEN 0 ELSE Len(list)
             first == req.page = 1
             kept == Range(memory.list) \subseteq Range(list)
         IN  /\ ReadMap(map)
             /\ \/ /\ req.key[1] = "tag" /\ req.key[2] \notin TopicTags(map, loaded)
                   /\ NotFound
                   /\ UNCHANGED memory
                \/ /\ req.key[1] = "tag" => req.key[2] \in TopicTags(map, loaded)
                   /\ Answer([kind |-> "feed"])
                   /\ memory' =
                        [kind |-> "walk", key |-> req.key, page |-> req.page, list |-> list,
                         count |-> req.count, next |-> HasNext(total, req.page),
                         shown |-> (IF first THEN {} ELSE memory.shown)
                                     \cup {page[i] : i \in entries},
                         entries |-> (IF first THEN 0 ELSE memory.entries) + Cardinality(entries),
                         owed |-> IF first THEN Range(list) \cap DOMAIN loaded
                                  ELSE memory.owed \cap DOMAIN loaded,
                         steady |-> first \/ (memory.steady /\ kept),
                         facets |-> IF req.count = NoCount THEN Facets(map, loaded)
                                    ELSE memory.facets,
                         quiet |-> IF first /\ req.count = NoCount
                                     THEN map = tagName /\ loaded = Fetched(Root)
                                     ELSE memory.quiet]
    /\ UNCHANGED paperless

ServeStep ==
    GetMap \/ SearchPage \/ Load \/ Enter \/ List \/ Open \/ Download \/ Feed

Next ==
    \/ AddDocument \/ Retag \/ RenameTag
    \/ ExpireMap
    \/ AskList \/ AskOpen \/ AskFeed \/ AskDownload
    \/ ServeStep

Spec == Init /\ [][Next]_vars

-----------------------------------------------------------------------------

\* Document d is named like the copy of a namesake of document e.
Hides(e, d) == BaseName[d] = Append(BaseName[e], e)

\* The documents that can be reached below the done folder, or the root.
Listed(folder) ==
    LET here == Fetched(folder)
        reached == {Member(tagName, here, n) : n \in MemberNames(tagName, here)}
    IN  IF folder = Done THEN Range(Index(DOMAIN here))
        ELSE {d \in DOMAIN here : Document(d) \in reached} \cup
             UNION {Range(Index(DOMAIN FolderDocs(tagName, here, f))) :
                       f \in {f \in reached : f[1] \in {"tag", "unsorted"}}}

\* The documents that the share is meant to hold, and which of them are done.
Shared == {d \in DOMAIN docs :
              /\ ResolveTags(tagName, Share.include) \subseteq docs[d]
              /\ ResolveTags(tagName, Share.exclude) \cap docs[d] = {}}
IsDone(d) == Share.enabled /\ ResolveTags(tagName, Share.done) \cap docs[d] # {}

\* What leads to document d is named like the done folder or the catch-all.
Eclipsed(d) ==
    LET here == Fetched(Root)
        topics == docs[d] \cap TopicTags(tagName, here)
    IN  /\ d \in DOMAIN here
        /\ IF ~TagFolders THEN Fixed(FileNames(DOMAIN here)[d]) # Missing
           ELSE IF topics = {} THEN Fixed(UnsortedName) # Unsorted
           ELSE \A t \in topics : Fixed(tagName[t]) # Missing

\* Every document of the share is under some name in a folder that the root
\* lists, or in the root, and in the done folder if and only if it is done
\* (get_member_names: "nothing is hidden"), but for three cases: another document
\* took its name when it was made unique, its folders are named like others, or
\* the done tag is gone, when the done folder shows what the root does.
HiddenOnlyByName ==
    LET below == [f \in {Root} \cup (IF Share.enabled THEN {Done} ELSE {}) |-> Listed(f)]
        Places(d) == {f \in DOMAIN below : d \in below[f]}
    IN  \A d \in Shared :
        \/ Places(d) = {IF IsDone(d) THEN Done ELSE Root}
        \/ Places(d) = {Root, Done} /\ ResolveTags(tagName, Share.done) = {}
        \/ \E e \in Shared : Hides(e, d)
        \/ Eclipsed(d)

\* "This ensures we only show documents that belong to this share and are marked
\* as done" (DoneFolderResource): the documents of the done folder.
DoneFolderShowsTheDone == Share.enabled => \A d \in DOMAIN Fetched(Done) : IsDone(d)

\* Nothing has left, and what has come has later ids.
OnlyLaterCame(old, new) == /\ old \subseteq new
                           /\ \A d \in old, e \in new \ old : d < e

\* A name that a listing gave for a document still opens that document when
\* only documents with later ids have come since ("The document with the LOWEST
\* ID always gets the base filename to ensure deterministic behavior across
\* requests"), and when others have come or gone it opens one with the same
\* title or none: a MOVE that is repeated by name does no worse.
NamesOpenTheirOwn ==
    reply.kind \in {"opened", "missing"} /\ memory.kind = "listing" /\ reply.ids # {} =>
        LET d == memory.index[reply.name][2]
        IN  \/ reply.kind = "opened" /\ reply.doc = d
            \/ \E e \in reply.ids : Hides(e, d)
            \/ /\ ~OnlyLaterCame(memory.ids, reply.ids)
               /\ reply.kind = "opened" =>
                    BaseName[reply.doc] = BaseName[d] \/ Hides(d, reply.doc)

\* A walk along the links to the next page shows every document that was in the
\* feed when it began and has stayed in the share, if nothing has left the feed
\* meanwhile; whatever has been added.
GrowingWalkMissesNothing ==
    memory.kind = "walk" /\ memory.steady /\ ~memory.next => memory.owed \subseteq memory.shown

\* A facet tells how many documents its feed will show, each of them once, as
\* long as nothing changes.
FacetTellsTheCount ==
    memory.kind = "walk" /\ memory.count # NoCount /\ memory.quiet /\ ~memory.next =>
        memory.entries = memory.count /\ Cardinality(memory.shown) = memory.count

\* What a feed has shown is not refused, as long as nothing changes.
ServesWhatItShowed ==
    memory.kind = "walk" /\ memory.quiet /\ reply.kind = "refused" => reply.doc \notin memory.shown

\* "Documents must have all selected tags": what a request has fetched for the
\* share carries every include tag.
FetchesOnlySelected ==
    [][pc = "load" /\ pc' = "route" =>
        \A d \in DOMAIN loaded', n \in Share.include : \E t \in loaded'[d] : tagName[t] = n]_vars

-----------------------------------------------------------------------------
(* The inductive invariant: what a request in progress, a listing and a     *)
(* walk have to do with each other and with the present documents.          *)

Keys == {Root, Unsorted, Search} \cup {TagFolder(t) : t \in Tags}

\* A list in the order of its feed.
Precedes(key, d, e) == IF key = Search THEN d < e ELSE Older(e, d)
Ranked(key, list) ==
    /\ list \in Seq(Docs)
    /\ \A i \in DOMAIN list : Cardinality({d \in Range(list) : Precedes(key, d, list[i])}) = i - 1

\* Names of documents were listed by the index of what was in the folder.
ListingSound ==
    memory.kind = "listing" =>
        /\ memory.ids \subseteq Docs
        /\ \A n \in DOMAIN memory.index : memory.index[n][1] = "document" =>
             /\ n \in DOMAIN Index(memory.ids)
             /\ memory.index[n] = Document(Index(memory.ids)[n])
             /\ memory.folder = Root => ~TagFolders /\ Fixed(n) = Missing

RequestSound ==
    /\ pc # "idle" => req.kind \in {"list", "open", "feed", "download"}
    /\ pc = "search" => req.kind = "feed"
    /\ req.kind \in {"feed", "download"} => at = Root
    /\ req.kind \in {"list", "open"} /\ req.folder = Root => at = Root
    /\ req.kind = "open" =>
         /\ memory.kind = "listing" /\ req.folder = memory.folder
         /\ req.name \in DOMAIN memory.index /\ memory.index[req.name][1] = "document"
    /\ req.kind = "feed" =>
         /\ req.key \in Keys /\ req.page \in Nat \ {0}
         /\ req.page # 1 => /\ memory.kind = "walk" /\ memory.next
                            /\ req.key = memory.key /\ req.page = memory.page + 1
                            /\ req.count = memory.count
         /\ req.page = 1 /\ req.count # NoCount =>
              /\ memory.kind = "walk" /\ req.key \in DOMAIN memory.facets
              /\ req.count = memory.facets[req.key]
         /\ req.key = Search /\ pc # "search" => Ranked(Search, hits)

WalkFields == {"kind", "key", "page", "list", "count", "next", "shown", "entries", "owed",
               "steady", "facets", "quiet"}

\* What a walk is owed has been shown or is on a page to come.
WalkSound ==
    memory.kind = "walk" =>
        /\ DOMAIN memory = WalkFields
        /\ memory.key \in Keys /\ memory.page \in Nat \ {0}
        /\ memory.next \in BOOLEAN /\ memory.steady \in BOOLEAN /\ memory.quiet \in BOOLEAN
        /\ DOMAIN memory.facets \subseteq Keys \ {Search}
        /\ Ranked(memory.key, memory.list)
        /\ memory.steady =>
             \A d \in memory.owed :
                d \in memory.shown \/ \E i \in DOMAIN memory.list :
                                         i > memory.page * PageSize /\ memory.list[i] = d
        /\ ~memory.next => Len(memory.list) <= memory.page * PageSize

\* While nothing changes, requests fetch the same documents, and the pages of a
\* facet's feed are those of one list.
QuietSound ==
    memory.kind = "walk" /\ memory.quiet =>
        /\ known \in {NoMap, tagName}
        /\ req.kind \in {"feed", "download"} =>
             /\ pc = "load" => filter = Filter(tagName, Root)
             /\ pc = "route" => loaded = Fetched(Root)
        /\ memory.shown \subseteq DOMAIN Fetched(Root)
        /\ memory.facets = Facets(tagName, Fetched(Root))
        /\ memory.count # NoCount =>
             /\ memory.key # Search
             /\ memory.list = NewestFirst(FolderDocs(tagName, Fetched(Root), memory.key))
             /\ memory.count = Len(memory.list)
             /\ memory.entries = Min({memory.page * PageSize, Len(memory.list)})
             /\ memory.shown = {memory.list[i] : i \in 1 .. memory.entries}

IInv ==
    /\ TypeOK /\ NamesDiffer(tagName)
    /\ RequestSound /\ ListingSound /\ WalkSound /\ QuietSound
    /\ NamesOpenTheirOwn /\ ServesWhatItShowed
=============================================================================
