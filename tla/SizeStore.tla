----------------------------- MODULE SizeStore ------------------------------
(***************************************************************************)
(* Document sizes (prefetch_document_sizes in webdav_provider.py,          *)
(* services/document_sizes.py, the size cache of cache.py).                *)
(*                                                                         *)
(* A listing of a share needs the size of every document.  A size is known *)
(* from the process's cache, from the durable document_sizes table, or     *)
(* only from Paperless, at one request per document; so measured sizes are *)
(* stored chunk by chunk, each under the version (Paperless' `modified`)   *)
(* that the listing saw.  Listings of several processes run at once,       *)
(* documents are edited meanwhile, processes restart and requests fail.    *)
(***************************************************************************)
EXTENDS Naturals, FiniteSets

CONSTANTS Docs,         \* the documents of a share, by id
          Procs,        \* server processes, each with its cache
          Listings,     \* threads that list the share
          Host,         \* Host[l]: the process of thread l
          Chunk,        \* SIZE_PROBE_CHUNK
          MaxVersion,   \* how often a document is edited, at most
          SizeOf,       \* SizeOf[d][v]: bytes Paperless serves for revision v
          Faults,       \* "measure", "load", "store": what may fail
          Patient       \* no attempt is cut off before its first chunk

Versions == 0 .. MaxVersion

ASSUME SizeStoreAssumption ==
    /\ Docs \subseteq Nat
    /\ Host \in [Listings -> Procs]
    /\ Chunk \in Nat \ {0}
    /\ MaxVersion \in Nat
    /\ SizeOf \in [Docs -> [Versions -> Nat \ {0}]]
    /\ Patient \in BOOLEAN

VARIABLES version,      \* version[d]: the revision Paperless holds
          cache,        \* cache[p][d]: the size entry of d in process p
          table,        \* table[d]: the document_sizes row of d
          pc,           \* pc[l]: how far the listing is
          seen,         \* seen[l][d]: the version of d in its document list
          todo,         \* todo[l]: documents to find, then to measure
          found,        \* found[l]: sizes measured by the current chunk
          walked        \* walked[l]: this attempt has stored a chunk

listing == <<pc, seen, todo, found, walked>>
sizeVars == <<version, cache, table, pc, seen, todo, found, walked>>

NoSize == [version |-> 0, size |-> 0]

\* Mutant: a row is read with its columns the wrong way round.
EntrySwapped(v, s) == [version |-> s, size |-> v]

Entry(v, s) == [version |-> v, size |-> s]
Entries == [version : Versions, size : Nat]

\* The type invariant; NoSize is the entry without bytes.
SizeTypeOK ==
    /\ version \in [Docs -> Versions]
    /\ cache \in [Procs -> [Docs -> Entries]]
    /\ table \in [Docs -> Entries]
    /\ pc \in [Listings -> {"idle", "listed", "loading", "measuring", "measured"}]
    /\ seen \in [Listings -> [Docs -> Versions]]
    /\ todo \in [Listings -> SUBSET Docs]
    /\ found \in [Listings -> [Docs -> Nat]]
    /\ walked \in [Listings -> BOOLEAN]

SizeInit ==
    /\ version = [d \in Docs |-> 0]
    /\ cache = [p \in Procs |-> [d \in Docs |-> NoSize]]
    /\ table = [d \in Docs |-> NoSize]
    /\ pc = [l \in Listings |-> "idle"]
    /\ seen = [l \in Listings |-> [d \in Docs |-> 0]]
    /\ todo = [l \in Listings |-> {}]
    /\ found = [l \in Listings |-> [d \in Docs |-> 0]]
    /\ walked = [l \in Listings |-> FALSE]

-----------------------------------------------------------------------------

\* A document is edited in Paperless: a new revision, of another size.
Edit(d) ==
    /\ version[d] < MaxVersion
    /\ version' = [version EXCEPT ![d] = @ + 1]
    /\ UNCHANGED <<cache, table, listing>>

\* An entry answers for a document at version v.
Answers(entry, v) == entry.size # 0 /\ entry.version = v

\* The document list is fetched from Paperless.
List(l) ==
    /\ pc[l] = "idle"
    /\ pc' = [pc EXCEPT ![l] = "listed"]
    /\ seen' = [seen EXCEPT ![l] = version]
    /\ walked' = [walked EXCEPT ![l] = FALSE]
    /\ UNCHANGED <<version, cache, table, todo, found>>

\* Which documents the process's cache does not answer for.
Lookup(l) ==
    LET missing == {d \in Docs : ~Answers(cache[Host[l]][d], seen[l][d])}
    IN  /\ pc[l] = "listed"
        /\ todo' = [todo EXCEPT ![l] = missing]
        /\ pc' = [pc EXCEPT ![l] = IF missing = {} THEN "idle" ELSE "loading"]
        /\ UNCHANGED <<version, cache, table, seen, found, walked>>

\* load_sizes; what the table answers for goes into the cache.
Load(l) ==
    /\ pc[l] = "loading"
    /\ \E stored \in { {d \in todo[l] : Answers(table[d], seen[l][d])} }
                     \cup (IF "load" \in Faults THEN {{}} ELSE {}) :
         /\ cache' = [cache EXCEPT ![Host[l]] =
                        [d \in Docs |-> IF d \in stored THEN table[d] ELSE @[d]]]
         /\ todo' = [todo EXCEPT ![l] = @ \ stored]
         /\ pc' = [pc EXCEPT ![l] = IF todo[l] = stored THEN "idle" ELSE "measuring"]
    /\ UNCHANGED <<version, table, seen, found, walked>>

\* get_document_sizes_batch: the chunk leaves todo, and a document whose
\* request fails has no size.  The sizes are those of the revisions there are
\* by now.
Measure(l) ==
    /\ pc[l] = "measuring"
    /\ \E chunk \in SUBSET todo[l], answered \in SUBSET todo[l] :
         /\ chunk # {}
         /\ Cardinality(chunk) = Chunk \/ (chunk = todo[l] /\ Cardinality(chunk) < Chunk)
         /\ answered \subseteq chunk
         /\ answered = chunk \/ "measure" \in Faults
         /\ todo' = [todo EXCEPT ![l] = @ \ chunk]
         /\ found' = [found EXCEPT ![l] =
                        [d \in Docs |-> IF d \in answered THEN SizeOf[d][version[d]] ELSE 0]]
    /\ pc' = [pc EXCEPT ![l] = "measured"]
    /\ UNCHANGED <<version, cache, table, seen, walked>>

\* The measured sizes of l, over the entries of old, each under version vs[d].
Measured(l, old, vs) ==
    [d \in Docs |-> IF found[l][d] # 0 THEN Entry(vs[d], found[l][d]) ELSE old[d]]

Stored(l) ==
    /\ found' = [found EXCEPT ![l] = [d \in Docs |-> 0]]
    /\ walked' = [walked EXCEPT ![l] = TRUE]
    /\ pc' = [pc EXCEPT ![l] = IF todo[l] = {} THEN "idle" ELSE "measuring"]
    /\ UNCHANGED <<version, seen, todo>>

\* Mutant: the version is looked up when the size is stored.
StoreAsLatest(l) ==
    /\ pc[l] = "measured"
    /\ cache' = [cache EXCEPT ![Host[l]] = Measured(l, @, version)]
    /\ table' = Measured(l, table, version)
    /\ Stored(l)

\* Mutant: the table is written once, by the last chunk.
StoreAtTheEnd(l) ==
    /\ pc[l] = "measured"
    /\ cache' = [cache EXCEPT ![Host[l]] = Measured(l, @, seen[l])]
    /\ table' = IF todo[l] = {}
                  THEN [d \in Docs |-> IF cache'[Host[l]][d].size # 0
                                         THEN cache'[Host[l]][d] ELSE table[d]]
                  ELSE table
    /\ Stored(l)

\* cache.set_size for each, then store_sizes: an upsert of one row per document,
\* whatever the row said; the database may refuse.
Store(l) ==
    /\ pc[l] = "measured"
    /\ cache' = [cache EXCEPT ![Host[l]] = Measured(l, @, seen[l])]
    /\ \/ table' = Measured(l, table, seen[l])
       \/ "store" \in Faults /\ UNCHANGED table
    /\ Stored(l)

\* A batch raises: the listing goes on without the sizes it lacks.
GiveUp(l) ==
    /\ pc[l] = "measuring"
    /\ Patient => walked[l]
    /\ pc' = [pc EXCEPT ![l] = "idle"]
    /\ UNCHANGED <<version, cache, table, seen, todo, found, walked>>

\* A process dies and starts again: its cache and its listings are gone.
Restart(p) ==
    /\ Patient => \A l \in Listings : Host[l] = p /\ pc[l] # "idle" => walked[l]
    /\ cache' = [cache EXCEPT ![p] = [d \in Docs |-> NoSize]]
    /\ pc' = [l \in Listings |-> IF Host[l] = p THEN "idle" ELSE pc[l]]
    /\ found' = [l \in Listings |-> IF Host[l] = p THEN [d \in Docs |-> 0] ELSE found[l]]
    /\ UNCHANGED <<version, table, seen, todo, walked>>

\* The time to live of a cache entry ends.
Expire(p, d) ==
    /\ cache[p][d] # NoSize
    /\ cache' = [cache EXCEPT ![p][d] = NoSize]
    /\ UNCHANGED <<version, table, listing>>

ListingStep(l) == List(l) \/ Lookup(l) \/ Load(l) \/ Measure(l) \/ Store(l)

SizeNext ==
    \/ \E d \in Docs : Edit(d) \/ \E p \in Procs : Expire(p, d)
    \/ \E l \in Listings : ListingStep(l) \/ GiveUp(l)
    \/ \E p \in Procs : Restart(p)

SizeSpec == SizeInit /\ [][SizeNext]_sizeVars

\* Clients list again and again, and a listing that is not cut off runs on.
FairSizeSpec == SizeSpec /\ \A l \in Listings : WF_sizeVars(ListingStep(l))

-----------------------------------------------------------------------------

\* A size held under a version is the size of that revision or of a later one,
\* up to the revision now.
Follows(d, entry, now) ==
    entry.size # 0 =>
        /\ entry.version <= now
        /\ \E v \in entry.version .. now : entry.size = SizeOf[d][v]

\* A row or a cache entry whose version is the document's has the document's
\* size, whatever was edited between listing, measuring and storing
\* (DocumentSize: a stale Content-Length must not be served).
CurrentIsExact ==
    \A d \in Docs : \A entry \in {table[d]} \cup {cache[p][d] : p \in Procs} :
        Answers(entry, version[d]) => entry.size = SizeOf[d][version[d]]

\* store_sizes: a row is superseded by a later revision, not by an earlier one.
RowsAreSuperseded ==
    [][\A d \in Docs : table[d].size # 0 => table'[d].version >= table[d].version]_sizeVars

\* prefetch_document_sizes: "a resumable walk that converges across attempts":
\* in the end every process knows every size, although listings are cut off
\* and processes restart for ever.
Known(p, d) == Answers(cache[p][d], version[d]) \/ Answers(table[d], version[d])
Converges == <>[](\A l \in Listings, d \in Docs : Known(Host[l], d))

\* What carries CurrentIsExact through a listing: what the listings have seen
\* and measured, what the table and the caches hold.
SeenFollow == \A l \in Listings, d \in Docs : seen[l][d] <= version[d]
FoundFollow == \A l \in Listings, d \in Docs :
                   Follows(d, Entry(seen[l][d], found[l][d]), version[d])
FoundInHand == \A l \in Listings : pc[l] # "measured" => \A d \in Docs : found[l][d] = 0
TableFollows == \A d \in Docs : Follows(d, table[d], version[d])
CachesFollow == \A p \in Procs, d \in Docs : Follows(d, cache[p][d], version[d])

SizeInv == /\ SizeTypeOK
           /\ SeenFollow
           /\ FoundFollow
           /\ FoundInHand
           /\ TableFollows
           /\ CachesFollow
=============================================================================
