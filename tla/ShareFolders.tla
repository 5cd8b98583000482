---------------------------- MODULE ShareFolders ----------------------------
(***************************************************************************)
(* How a share turns a list of documents into folders, file names, feeds   *)
(* and pages (ShareResource, DoneFolderResource and TagFolderResource of   *)
(* webdav_provider.py, opds.py).  Operators only.                          *)
(*                                                                         *)
(* A list of documents is a function from ids to the tags they carry.  A   *)
(* tag map gives the name of every tag that Paperless knows; the code has  *)
(* the inverse.  A name is a sequence of characters, a character a number, *)
(* so that an id written out is one character.  The names of files and     *)
(* folders are kept apart by ".pdf", which is left out.                    *)
(***************************************************************************)
EXTENDS Integers, Sequences, FiniteSets, FiniteSetsExt, Functions

CONSTANTS Tags,         \* ids of tags
          Unnamed,      \* the name of a tag that does not exist
          BaseName,     \* BaseName[d]: the title of document d, sanitized
          Lower,        \* Lower[n]: the name of a tag in lower case
          Share,        \* include, exclude, done: names of tags; enabled; folder
          TagFolders,   \* WEBDAV_TAG_FOLDERS
          UnsortedName, \* UNSORTED_FOLDER_NAME
          Added,        \* Added[d]: when d entered Paperless
          PageSize      \* entries on a page of a feed

Root == <<"root", 0>>
Done == <<"done", 0>>
Unsorted == <<"unsorted", 0>>
TagFolder(t) == <<"tag", t>>
Document(d) == <<"document", d>>
Missing == <<"missing", 0>>

DoneNames == IF Share.enabled THEN Share.done ELSE {}

\* _resolve_tag_ids_from_map: a name without a tag is dropped.
ResolveTags(map, names) == {t \in Tags : map[t] \in names}

\* Mutant: the done folder is filtered like the root.
OneFilter(map, folder) ==
    [include |-> ResolveTags(map, Share.include),
     exclude |-> ResolveTags(map, Share.exclude \cup DoneNames)]

\* The filters that the root and the done folder are fetched with.
Filter(map, folder) ==
    IF folder = Done
      THEN [include |-> ResolveTags(map, Share.include) \cup ResolveTags(map, Share.done),
            exclude |-> ResolveTags(map, Share.exclude)]
      ELSE [include |-> ResolveTags(map, Share.include),
            exclude |-> ResolveTags(map, Share.exclude \cup DoneNames)]

\* tags__id__all and tags__id__none; an empty list is no filter.
Passes(filter, tags) == filter.include \subseteq tags /\ filter.exclude \cap tags = {}

-----------------------------------------------------------------------------
(* Names.                                                                   *)

\* Mutant: the document that was added last keeps the title.
NamesFromTheLast(ids) ==
    [d \in ids |-> IF \E e \in ids : e > d /\ BaseName[e] = BaseName[d]
                     THEN Append(BaseName[d], d) ELSE BaseName[d]]

\* The file name of every document: by id, the title unless it is taken, then
\* the title with the id.
FileNames(ids) ==
    LET name[d \in ids] == IF BaseName[d] \in {name[e] : e \in {e \in ids : e < d}}
                             THEN Append(BaseName[d], d) ELSE BaseName[d]
    IN  name

\* The file name index: a name made unique replaces the document that has it
\* already.
Index(ids) ==
    LET name == FileNames(ids)
    IN  [n \in {name[d] : d \in ids} |-> Max({d \in ids : name[d] = n})]

-----------------------------------------------------------------------------
(* Folders.                                                                 *)

\* _topic_tag_ids: the tags of the documents, but for the share's own.
TopicTags(map, docs) ==
    LET own == {Lower[n] : n \in Share.include \cup DoneNames}
    IN  {t \in UNION {docs[d] : d \in DOMAIN docs} :
            map[t] # Unnamed /\ Lower[map[t]] \notin own}

\* _untagged_documents: those without a topic tag.
Untagged(map, docs) == {d \in DOMAIN docs : docs[d] \cap TopicTags(map, docs) = {}}

\* ShareResource.get_member_names.
MemberNames(map, docs) ==
    (IF Share.enabled THEN {Share.folder} ELSE {})
    \cup IF TagFolders
           THEN {map[t] : t \in TopicTags(map, docs)}
                \cup (IF Untagged(map, docs) # {} THEN {UnsortedName} ELSE {})
           ELSE DOMAIN Index(DOMAIN docs)

\* The folders that ShareResource.get_member finds before it looks at documents.
Fixed(name) ==
    IF Share.enabled /\ name = Share.folder THEN Done
    ELSE IF TagFolders /\ name = UnsortedName THEN Unsorted
    ELSE Missing

\* ShareResource.get_member.
Member(map, docs, name) ==
    LET topics == {t \in TopicTags(map, docs) : map[t] = name}
    IN  IF Fixed(name) # Missing THEN Fixed(name)
        ELSE IF TagFolders /\ topics # {} THEN TagFolder(CHOOSE t \in topics : TRUE)
        ELSE IF name \in DOMAIN Index(DOMAIN docs) THEN Document(Index(DOMAIN docs)[name])
        ELSE Missing

\* The documents of a folder, out of those that were fetched for it.
FolderDocs(map, docs, folder) ==
    LET in == CASE folder = Unsorted -> Untagged(map, docs)
                [] folder[1] = "tag" -> {d \in DOMAIN docs : folder[2] \in docs[d]}
                [] OTHER -> DOMAIN docs
    IN  [d \in in |-> docs[d]]

-----------------------------------------------------------------------------
(* Feeds.                                                                   *)

Older(d, e) == Added[d] < Added[e] \/ (Added[d] = Added[e] /\ d < e)

\* A set of documents as a list, given those that come before each of them.
InOrder(S, before) ==
    [i \in 1 .. Cardinality(S) |-> CHOOSE d \in S : Cardinality(S \cap before[d]) = i - 1]

\* _newest_first: by the time they were added, then by id.
NewestFirst(docs) ==
    InOrder(DOMAIN docs, [d \in DOMAIN docs |-> {e \in DOMAIN docs : Older(d, e)}])

\* Mutant: a page begins with the last entry of the page before.
OverlappingPage(list, page) ==
    SubSeq(list, Max({1, (page - 1) * PageSize}), Min({page * PageSize, Len(list)}))

\* One page of a list.
PageOf(list, page) ==
    SubSeq(list, (page - 1) * PageSize + 1, Min({page * PageSize, Len(list)}))

\* The number of pages.
Pages(total) == Max({1, (total + PageSize - 1) \div PageSize})

\* Mutant: pages are taken to be counted from zero.
HasNextFromZero(total, page) == page + 1 < Pages(total)

\* Whether there is a link to the next page.
HasNext(total, page) == page < Pages(total)

\* The facets of a feed: each filter with the number of its documents.
Facets(map, docs) ==
    LET keys == {Root} \cup {TagFolder(t) : t \in TopicTags(map, docs)}
                \cup (IF Untagged(map, docs) # {} THEN {Unsorted} ELSE {})
    IN  [k \in keys |-> Cardinality(DOMAIN FolderDocs(map, docs, k))]
=============================================================================
