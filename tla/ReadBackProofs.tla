--------------------------- MODULE ReadBackProofs ---------------------------
(***************************************************************************)
(* Proofs about ReadBack, SizeStore and Attribution: that a size held under*)
(* a document's version is the document's size, whatever is edited between *)
(* listing, measuring and storing, and what a verdict on an upload is worth*)
(* meanwhile.  The argument: an entry's size is that of the revision it    *)
(* names or of a later one, so that the candidates of an upload are exact  *)
(* for its source if the source has not changed, and then attribute_source *)
(* is right or says that it cannot tell.                                   *)
(***************************************************************************)
EXTENDS ReadBack, WellFoundedInduction, TLAPS

-----------------------------------------------------------------------------
(* Sizes.                                                                   *)

LEMMA SizeInitially == SizeInit => SizeInv
BY SizeStoreAssumption
DEF SizeInit, SizeInv, SizeTypeOK, SeenFollow, FoundFollow, FoundInHand, TableFollows,
    CachesFollow, Follows, NoSize, Entries, Entry, Versions

\* An entry that follows its document goes on doing so when versions advance.
LEMMA FollowsLater ==
    ASSUME NEW d \in Docs, NEW entry \in Entries, NEW now \in Versions,
           NEW later \in Versions, now <= later, Follows(d, entry, now)
    PROVE  Follows(d, entry, later)
BY SizeStoreAssumption DEF Follows, Versions, Entries

\* The size a document has now follows any version that it had.
LEMMA MeasuredFollows ==
    ASSUME NEW d \in Docs, NEW v \in Versions, NEW now \in Versions, v <= now
    PROVE  Follows(d, Entry(v, SizeOf[d][now]), now)
BY SizeStoreAssumption DEF Follows, Versions, Entry

LEMMA NothingFollows ==
    ASSUME NEW d, NEW v, NEW now
    PROVE  Follows(d, NoSize, now) /\ Follows(d, Entry(v, 0), now)
BY DEF Follows, NoSize, Entry

LEMMA EntryType == \A v \in Versions, s \in Nat : Entry(v, s) \in Entries
BY DEF Entry, Entries

LEMMA NoSizeType == NoSize \in Entries
BY SizeStoreAssumption DEF NoSize, Entries, Versions

\* Steps that change neither Paperless nor the table: a cache entry stays, is
\* dropped or comes from the table; a size in hand stays, is dropped or is new.
LEMMA QuietStep ==
    ASSUME SizeInv, SizeTypeOK', FoundInHand',
           UNCHANGED <<version, table>>,
           \A p \in Procs, d \in Docs : cache'[p][d] \in {cache[p][d], table[d], NoSize},
           \A l \in Listings, d \in Docs : seen'[l][d] \in {seen[l][d], version[d]},
           \A l \in Listings, d \in Docs :
             \/ found'[l][d] = 0
             \/ found'[l][d] = found[l][d] /\ seen'[l][d] = seen[l][d]
             \/ found'[l][d] = SizeOf[d][version[d]]
    PROVE  SizeInv'
<1>1. SeenFollow'
  <2> SUFFICES ASSUME NEW l \in Listings, NEW d \in Docs
               PROVE  seen'[l][d] <= version[d]
    BY DEF SeenFollow
  <2>1. seen[l][d] <= version[d] /\ version[d] \in Versions
    BY DEF SizeInv, SeenFollow, SizeTypeOK
  <2>2. version[d] \in Nat
    BY <2>1, SizeStoreAssumption DEF Versions
  <2>3. seen'[l][d] = seen[l][d] \/ seen'[l][d] = version[d]
    OBVIOUS
  <2> QED BY <2>1, <2>2, <2>3
<1>2. FoundFollow'
  <2> SUFFICES ASSUME NEW l \in Listings, NEW d \in Docs
               PROVE  Follows(d, Entry(seen'[l][d], found'[l][d]), version[d])
    BY DEF FoundFollow
  <2>1. seen'[l][d] \in Versions /\ version[d] \in Versions /\ seen'[l][d] <= version[d]
    BY <1>1 DEF SizeInv, SizeTypeOK, SeenFollow
  <2>2. Follows(d, Entry(seen[l][d], found[l][d]), version[d])
    BY DEF SizeInv, FoundFollow
  <2> QED BY <2>1, <2>2, MeasuredFollows, NothingFollows
<1>3. TableFollows'
  BY DEF SizeInv, TableFollows
<1>4. CachesFollow'
  BY NothingFollows DEF SizeInv, CachesFollow, TableFollows
<1> QED BY <1>1, <1>2, <1>3, <1>4 DEF SizeInv

LEMMA EditStep ==
    ASSUME SizeInv, NEW e \in Docs, Edit(e)
    PROVE  SizeInv'
<1> USE DEF SizeInv
<1>1. SizeTypeOK'
  <2>1. version[e] \in Nat /\ version[e] + 1 \in Versions
    BY SizeStoreAssumption DEF SizeTypeOK, Edit, Versions
  <2>2. version' \in [Docs -> Versions]
    BY <2>1 DEF SizeTypeOK, Edit
  <2> QED BY <2>2 DEF SizeTypeOK, Edit, listing
<1>2. \A d \in Docs : version[d] \in Versions /\ version'[d] \in Versions /\ version[d] <= version'[d]
  BY <1>1, SizeStoreAssumption DEF Edit, SizeTypeOK, Versions
<1>3. SeenFollow'
  <2> SUFFICES ASSUME NEW l \in Listings, NEW d \in Docs
               PROVE  seen[l][d] <= version'[d]
    BY DEF SeenFollow, Edit, listing
  <2>1. seen[l][d] <= version[d] /\ seen[l][d] \in Versions
    BY DEF SeenFollow, SizeTypeOK
  <2> QED BY <1>2, <2>1, SizeStoreAssumption DEF Versions
<1>4. FoundFollow'
  <2> SUFFICES ASSUME NEW l \in Listings, NEW d \in Docs
               PROVE  Follows(d, Entry(seen[l][d], found[l][d]), version'[d])
    BY DEF FoundFollow, Edit, listing
  <2> QED BY <1>2, FollowsLater, EntryType DEF FoundFollow, SizeTypeOK
<1>5. FoundInHand'
  BY DEF FoundInHand, Edit, listing
<1>6. TableFollows'
  BY <1>2, FollowsLater DEF TableFollows, Edit, SizeTypeOK
<1>7. CachesFollow'
  BY <1>2, FollowsLater DEF CachesFollow, Edit, SizeTypeOK
<1> QED BY <1>1, <1>3, <1>4, <1>5, <1>6, <1>7

LEMMA StoreStep ==
    ASSUME SizeInv, NEW l \in Listings, Store(l)
    PROVE  SizeInv'
<1> USE DEF SizeInv
<1>1. Host[l] \in Procs
  BY SizeStoreAssumption
<1>2. \A d \in Docs : Entry(seen[l][d], found[l][d]) \in Entries
  BY EntryType DEF SizeTypeOK
<1>3. \A d \in Docs : Follows(d, Entry(seen[l][d], found[l][d]), version[d])
  BY DEF FoundFollow
<1>4. SizeTypeOK'
  BY <1>1, <1>2 DEF Store, Stored, Measured, SizeTypeOK
<1>5. SeenFollow'
  BY DEF SeenFollow, Store, Stored
<1>6. FoundFollow'
  <2> SUFFICES ASSUME NEW m \in Listings, NEW d \in Docs
               PROVE  Follows(d, Entry(seen[m][d], found'[m][d]), version[d])
    BY DEF FoundFollow, Store, Stored
  <2>1. found'[m][d] = 0 \/ found'[m][d] = found[m][d]
    BY DEF Store, Stored, SizeTypeOK
  <2> QED BY <2>1, NothingFollows DEF FoundFollow
<1>7. FoundInHand'
  BY DEF FoundInHand, Store, Stored, SizeTypeOK
<1>8. TableFollows'
  BY <1>3 DEF TableFollows, Store, Stored, Measured, SizeTypeOK
<1>9. CachesFollow'
  BY <1>1, <1>3 DEF CachesFollow, Store, Stored, Measured, SizeTypeOK
<1> QED BY <1>4, <1>5, <1>6, <1>7, <1>8, <1>9

LEMMA SizeStep ==
    ASSUME SizeInv, [SizeNext]_sizeVars
    PROVE  SizeInv'
<1> USE SizeStoreAssumption
<1>0. SizeTypeOK /\ FoundInHand
  BY DEF SizeInv
<1>1. ASSUME NEW d \in Docs, Edit(d) PROVE SizeInv'
  BY <1>1, EditStep
<1>2. ASSUME NEW l \in Listings, List(l) PROVE SizeInv'
  <2>1. SizeTypeOK' /\ FoundInHand'
    BY <1>0, <1>2 DEF List, SizeTypeOK, FoundInHand
  <2>2. \A m \in Listings, d \in Docs : seen'[m][d] \in {seen[m][d], version[d]}
    BY <1>0, <1>2 DEF List, SizeTypeOK
  <2>3. \A m \in Listings, d \in Docs :
          found'[m][d] = 0 \/ (found'[m][d] = found[m][d] /\ seen'[m][d] = seen[m][d])
    <3> SUFFICES ASSUME NEW m \in Listings, NEW d \in Docs
                 PROVE  \/ found[m][d] = 0
                        \/ seen'[m][d] = seen[m][d]
      BY <1>2 DEF List
    <3>1. CASE m = l
      BY <1>0, <1>2, <3>1 DEF List, FoundInHand
    <3>2. CASE m # l
      <4>1. seen'[m] = seen[m]
        BY <1>0, <1>2, <3>2 DEF List, SizeTypeOK
      <4> QED BY <4>1
    <3> QED BY <3>1, <3>2
  <2> QED BY <1>2, <2>1, <2>2, <2>3, QuietStep DEF List
<1>3. ASSUME NEW l \in Listings, Lookup(l) PROVE SizeInv'
  <2>1. SizeTypeOK' /\ FoundInHand'
    BY <1>0, <1>3 DEF Lookup, SizeTypeOK, FoundInHand
  <2> QED BY <1>3, <2>1, QuietStep DEF Lookup
<1>4. ASSUME NEW l \in Listings, Load(l) PROVE SizeInv'
  <2>1. PICK stored \in SUBSET todo[l] :
          /\ cache' = [cache EXCEPT ![Host[l]] =
                        [d \in Docs |-> IF d \in stored THEN table[d] ELSE @[d]]]
          /\ todo' = [todo EXCEPT ![l] = @ \ stored]
          /\ pc' = [pc EXCEPT ![l] = IF todo[l] = stored THEN "idle" ELSE "measuring"]
    BY <1>4 DEF Load
  <2>2. Host[l] \in Procs
    OBVIOUS
  <2>3. SizeTypeOK' /\ FoundInHand'
    BY <1>0, <1>4, <2>1, <2>2 DEF Load, SizeTypeOK, FoundInHand
  <2>4. \A p \in Procs, d \in Docs : cache'[p][d] \in {cache[p][d], table[d]}
    BY <1>0, <2>1, <2>2 DEF SizeTypeOK
  <2> QED BY <1>4, <2>3, <2>4, QuietStep DEF Load
<1>5. ASSUME NEW l \in Listings, Measure(l) PROVE SizeInv'
  <2>1. PICK chunk \in SUBSET todo[l], answered \in SUBSET todo[l] :
          /\ todo' = [todo EXCEPT ![l] = @ \ chunk]
          /\ found' = [found EXCEPT ![l] =
                        [d \in Docs |-> IF d \in answered THEN SizeOf[d][version[d]] ELSE 0]]
    BY <1>5 DEF Measure
  <2>2. SizeTypeOK'
    BY <1>0, <1>5, <2>1 DEF Measure, SizeTypeOK
  <2>3. FoundInHand'
    BY <1>0, <1>5, <2>1 DEF Measure, SizeTypeOK, FoundInHand
  <2>4. \A m \in Listings, d \in Docs :
          found'[m][d] \in {0, found[m][d], SizeOf[d][version[d]]}
    BY <1>0, <2>1 DEF SizeTypeOK
  <2> QED BY <1>5, <2>2, <2>3, <2>4, QuietStep DEF Measure
<1>6. ASSUME NEW l \in Listings, Store(l) PROVE SizeInv'
  BY <1>6, StoreStep
<1>7. ASSUME NEW l \in Listings, GiveUp(l) PROVE SizeInv'
  <2>1. SizeTypeOK' /\ FoundInHand'
    BY <1>0, <1>7 DEF GiveUp, SizeTypeOK, FoundInHand
  <2> QED BY <1>7, <2>1, QuietStep DEF GiveUp
<1>8. ASSUME NEW p \in Procs, Restart(p) PROVE SizeInv'
  <2>1. SizeTypeOK'
    BY <1>0, <1>8, NoSizeType DEF Restart, SizeTypeOK
  <2>2. FoundInHand'
    BY <1>0, <1>8 DEF Restart, SizeTypeOK, FoundInHand
  <2>3. \A q \in Procs, d \in Docs : cache'[q][d] \in {cache[q][d], NoSize}
    BY <1>0, <1>8 DEF Restart, SizeTypeOK
  <2>4. \A m \in Listings, d \in Docs : found'[m][d] \in {0, found[m][d]}
    BY <1>0, <1>8 DEF Restart, SizeTypeOK
  <2> QED BY <1>8, <2>1, <2>2, <2>3, <2>4, QuietStep DEF Restart
<1>9. ASSUME NEW p \in Procs, NEW e \in Docs, Expire(p, e) PROVE SizeInv'
  <2>1. SizeTypeOK' /\ FoundInHand'
    BY <1>0, <1>9, NoSizeType DEF Expire, SizeTypeOK, FoundInHand, listing
  <2>2. \A q \in Procs, d \in Docs : cache'[q][d] \in {cache[q][d], NoSize}
    BY <1>0, <1>9 DEF Expire, SizeTypeOK
  <2> QED BY <1>9, <2>1, <2>2, QuietStep DEF Expire, listing
<1>10. CASE UNCHANGED sizeVars
  BY <1>10 DEF sizeVars, listing, SizeInv, SizeTypeOK, SeenFollow, FoundFollow, FoundInHand,
               TableFollows, CachesFollow
<1> QED BY <1>1, <1>2, <1>3, <1>4, <1>5, <1>6, <1>7, <1>8, <1>9, <1>10
        DEF SizeNext, ListingStep

\* Everything held about sizes follows the documents, at all times.
THEOREM SizesFollow == SizeSpec => []SizeInv
BY SizeInitially, SizeStep, PTL DEF SizeSpec

LEMMA FollowsIsExact ==
    ASSUME NEW d \in Docs, NEW entry \in Entries, NEW now \in Versions,
           Follows(d, entry, now), Answers(entry, now)
    PROVE  entry.size = SizeOf[d][now]
BY SizeStoreAssumption DEF Follows, Answers, Versions, Entries

LEMMA SizeInvIsExact == SizeInv => CurrentIsExact
BY FollowsIsExact DEF SizeInv, SizeTypeOK, TableFollows, CachesFollow, CurrentIsExact

\* A size stored or cached under the version that a document has is the size of
\* the document: no race of listings, edits and restarts makes a listing, or
\* the candidates of an upload, use the size of another revision.
THEOREM CurrentSizesAreExact == SizeSpec => []CurrentIsExact
BY SizesFollow, SizeInvIsExact, PTL

\* Whatever listings, edits, restarts and expiries interleave, every size held
\* is one of the sizes its document has had, or none, and every version stored
\* is one that exists.
THEOREM SizeTypes == SizeSpec => []SizeTypeOK
<1>1. SizeInv => SizeTypeOK
  BY DEF SizeInv
<1> QED BY <1>1, SizesFollow, PTL

-----------------------------------------------------------------------------
(* What attribute_source is worth, for every size, every set of candidates  *)
(* and every path.                                                          *)

LEMMA SmallestExists ==
    ASSUME NEW T, T \subseteq Nat, T # {}
    PROVE  \E x \in T : \A y \in T : x <= y
<1>1. PICK x \in T : \A y \in T : ~ (<<y, x>> \in OpToRel(<, Nat))
  BY NatLessThanWellFounded, WFMin
<1>2. \A y \in T : ~ (y < x)
  BY <1>1 DEF OpToRel
<1> QED BY <1>2

\* Candidates are document ids with sizes.
Sound(sizes) == DOMAIN sizes \subseteq Nat /\ \A d \in DOMAIN sizes : sizes[d] \in Nat

LEMMA ToleranceType ==
    ASSUME NEW size \in Nat
    PROVE  Tolerance(size) \in Nat /\ Window <= Tolerance(size)
<1>1. size \div Ratio \in Nat
  BY AttributionAssumption
<1> QED BY <1>1, AttributionAssumption DEF Tolerance

\* The best candidate: of the least delta, and of those the least id.
LEMMA BestIsBest ==
    ASSUME NEW size \in Nat, NEW sizes, Sound(sizes), Within(size, sizes) # {}
    PROVE  /\ Best(size, sizes) \in Within(size, sizes)
           /\ \A e \in Within(size, sizes) : NoFarther(size, sizes, Best(size, sizes), e)
<1> DEFINE W == Within(size, sizes)
           Deltas == {Delta(size, sizes, d) : d \in W}
<1>1. \A d \in W : d \in Nat /\ Delta(size, sizes, d) \in Nat
  BY ToleranceType DEF Within, Sound
<1>2. PICK x \in Deltas : \A y \in Deltas : x <= y
  <2>1. Deltas \subseteq Nat /\ Deltas # {}
    BY <1>1
  <2> QED BY <2>1, SmallestExists
<1>3. PICK d \in {c \in W : Delta(size, sizes, c) = x} :
          \A c \in {c \in W : Delta(size, sizes, c) = x} : d <= c
  <2>1. {c \in W : Delta(size, sizes, c) = x} \subseteq Nat
    BY <1>1
  <2>2. {c \in W : Delta(size, sizes, c) = x} # {}
    OBVIOUS
  <2> QED BY <2>1, <2>2, SmallestExists
<1>4. \A e \in W : NoFarther(size, sizes, d, e)
  <2> SUFFICES ASSUME NEW e \in W PROVE NoFarther(size, sizes, d, e)
    OBVIOUS
  <2>1. x <= Delta(size, sizes, e) /\ x \in Nat /\ Delta(size, sizes, e) \in Nat
    BY <1>1, <1>2
  <2> QED BY <1>3, <2>1 DEF NoFarther
<1>5. d \in W
  BY <1>3
<1> QED BY <1>4, <1>5 DEF Best

\* A document that the upload exceeds by no more than the window is either named
\* by the verdict "size", or the verdict is "ambiguous".
THEOREM SmallAppend ==
    ASSUME NEW size \in Nat, NEW sizes, Sound(sizes), NEW path,
           NEW source \in DOMAIN sizes, Delta(size, sizes, source) \in 0 .. Window
    PROVE  AttributeSource(size, sizes, path)
             \in {Verdict(source, "size"), Verdict(Best(size, sizes), "ambiguous")}
<1> DEFINE b == Best(size, sizes)
           W == Within(size, sizes)
<1>1. source \in W
  BY ToleranceType, AttributionAssumption DEF Within, Sound, Delta
<1>2. b \in W /\ NoFarther(size, sizes, b, source)
  BY <1>1, BestIsBest
<1>3. Delta(size, sizes, b) \in Nat /\ Delta(size, sizes, b) <= Delta(size, sizes, source)
  BY <1>2, ToleranceType DEF NoFarther, Within
<1>4. ~ Contradicted(size, sizes, path)
  BY <1>3, AttributionAssumption DEF Contradicted
<1>5. CASE b = source
  BY <1>1, <1>4, <1>5 DEF AttributeSource
<1>6. CASE b # source
  <2>1. Delta(size, sizes, source) - Delta(size, sizes, b) <= Window
    BY <1>3, AttributionAssumption
  <2>2. Ambiguous(size, sizes)
    BY <1>1, <1>6, <2>1 DEF Ambiguous
  <2> QED BY <1>1, <2>2 DEF AttributeSource
<1> QED BY <1>5, <1>6

\* When no document but the one at the path ends within the window below the
\* upload, the verdict names the path's document or is "ambiguous".
THEOREM TruthfulPath ==
    ASSUME NEW size \in Nat, NEW sizes, Sound(sizes), NEW path,
           \A d \in DOMAIN sizes \ {path} : Delta(size, sizes, d) \notin 0 .. Window
    PROVE  LET verdict == AttributeSource(size, sizes, path)
           IN  verdict.doc = path \/ verdict.trust = "ambiguous"
<1> DEFINE b == Best(size, sizes)
           W == Within(size, sizes)
<1>1. CASE W = {}
  BY <1>1 DEF AttributeSource, Verdict
<1>2. CASE W # {}
  <2>1. b \in W
    BY <1>2, BestIsBest
  <2>2. CASE b = path
    BY <1>2, <2>2 DEF AttributeSource, Verdict
  <2>3. CASE b # path
    <3>1. Delta(size, sizes, b) \in Nat /\ Delta(size, sizes, b) \notin 0 .. Window
      BY <2>1, <2>3, ToleranceType DEF Within
    <3>2. Contradicted(size, sizes, path)
      BY <2>3, <3>1, AttributionAssumption DEF Contradicted
    <3> QED BY <1>2, <3>2 DEF AttributeSource, Verdict
  <2> QED BY <2>2, <2>3
<1> QED BY <1>1, <1>2

-----------------------------------------------------------------------------
(* The copies and the uploads.                                              *)

LEMMA ReadInitially == ReadInit => ReadInv
BY SizeInitially DEF ReadInit, ReadInv, CopyOK, AskedOK, PutOK

\* Versions only advance.
LEMMA VersionsAdvance ==
    ASSUME SizeTypeOK, [SizeNext]_sizeVars
    PROVE  \A d \in Docs : /\ version[d] \in Nat /\ version'[d] \in Nat
                           /\ version[d] <= version'[d]
<1>1. \A d \in Docs : version[d] \in Nat
  BY SizeStoreAssumption DEF SizeTypeOK, Versions
<1>2. CASE UNCHANGED version
  BY <1>1, <1>2
<1>3. ASSUME NEW e \in Docs, Edit(e) PROVE \A d \in Docs : version'[d] \in Nat /\ version[d] <= version'[d]
  BY <1>1, <1>3 DEF Edit, SizeTypeOK
<1> QED BY <1>1, <1>2, <1>3
        DEF SizeNext, ListingStep, sizeVars, List, Lookup, Load, Measure, Store, Stored,
            GiveUp, Restart, Expire

LEMMA SizesMove ==
    ASSUME ReadInv, [SizeNext]_sizeVars, UNCHANGED <<copy, asked, put>>
    PROVE  ReadInv'
<1>1. SizeInv'
  BY SizeStep DEF ReadInv
<1>2. \A d \in Docs : version[d] \in Nat /\ version'[d] \in Nat /\ version[d] <= version'[d]
  BY VersionsAdvance DEF ReadInv, SizeInv
<1>3. CopyOK'
  <2> SUFFICES ASSUME copy # NoCopy PROVE CopyOK'
    BY DEF CopyOK
  <2>1. /\ copy \in [source : Docs, version : Versions, appended : Nat]
        /\ copy.version <= version[copy.source]
    BY DEF ReadInv, CopyOK
  <2>2. copy.source \in Docs /\ copy.version \in Nat
    BY <2>1, SizeStoreAssumption DEF Versions
  <2>3. copy.version <= version'[copy.source]
    BY <1>2, <2>1, <2>2
  <2> QED BY <2>1, <2>3 DEF CopyOK
<1>4. AskedOK'
  <2> SUFFICES ASSUME asked # NotAsked PROVE AskedOK'
    BY DEF AskedOK
  <2>1. /\ asked \in [path : Docs, version : [Docs -> Versions]]
        /\ \A d \in Docs : asked.version[d] <= version[d]
    BY DEF ReadInv, AskedOK
  <2>2. \A d \in Docs : asked.version[d] <= version'[d]
    <3> SUFFICES ASSUME NEW d \in Docs PROVE asked.version[d] <= version'[d]
      OBVIOUS
    <3>1. asked.version[d] \in Nat
      BY <2>1, SizeStoreAssumption DEF Versions
    <3> QED BY <1>2, <2>1, <3>1
  <2> QED BY <2>2 DEF ReadInv, AskedOK
<1>5. PutOK'
  <2> SUFFICES ASSUME put # NoPut PROVE PutOK'
    BY DEF PutOK
  <2>1. copy # NoCopy /\ copy.source \in Docs /\ copy.version \in Nat
        /\ copy.version <= version[copy.source]
    BY SizeStoreAssumption DEF ReadInv, PutOK, CopyOK, Versions
  <2>2. SourceUnchanged' => SourceUnchanged
    BY <1>2, <2>1 DEF SourceUnchanged
  <2> QED BY <2>2 DEF ReadInv, PutOK, UploadSize
<1> QED BY <1>1, <1>3, <1>4, <1>5 DEF ReadInv

LEMMA FetchStep ==
    ASSUME ReadInv, NEW d \in Docs, Fetch(d)
    PROVE  ReadInv'
<1>1. SizeInv'
  BY SizeStep DEF ReadInv, Fetch, sizeVars
<1>2. CopyOK'
  <2>1. PICK v \in 0 .. version[d] : copy' = [source |-> d, version |-> v, appended |-> 0]
    BY DEF Fetch
  <2>2. version[d] \in Versions /\ version' = version
    BY DEF Fetch, sizeVars, ReadInv, SizeInv, SizeTypeOK
  <2> QED BY <2>1, <2>2, SizeStoreAssumption DEF CopyOK, Versions
<1> QED BY <1>1, <1>2 DEF Fetch, ReadInv, AskedOK, PutOK

LEMMA AnnotateStep ==
    ASSUME ReadInv, NEW n \in Appends, Annotate(n)
    PROVE  ReadInv'
<1>1. SizeInv'
  BY SizeStep DEF ReadInv, Annotate, sizeVars
<1>2. CopyOK'
  BY ReadBackAssumption DEF ReadInv, Annotate, CopyOK, sizeVars
<1> QED BY <1>1, <1>2 DEF Annotate, ReadInv, AskedOK, PutOK

LEMMA PutStep ==
    ASSUME ReadInv, NEW path \in Docs, Put(path)
    PROVE  ReadInv'
<1>1. SizeInv'
  BY SizeStep DEF ReadInv, Put, sizeVars
<1>2. CopyOK'
  BY DEF ReadInv, Put, CopyOK, sizeVars
<1>3. AskedOK'
  <2>1. version \in [Docs -> Versions]
    BY DEF ReadInv, SizeInv, SizeTypeOK
  <2> QED BY <2>1, SizeStoreAssumption DEF ReadInv, CopyOK, Put, AskedOK, sizeVars, Versions
<1> QED BY <1>1, <1>2, <1>3 DEF Put, ReadInv, PutOK

LEMMA JudgeStep ==
    ASSUME ReadInv, Judge
    PROVE  ReadInv'
<1>1. SizeInv' /\ CopyOK' /\ AskedOK'
  BY SizeStep DEF ReadInv, Judge, sizeVars, CopyOK, AskedOK
<1>2. PICK known \in {Candidates(asked.version)} \cup (IF "load" \in Faults THEN {{}} ELSE {}) :
        LET sizes == [d \in known |-> table[d].size]
            verdict == AttributeSource(UploadSize, sizes, asked.path)
        IN  put' = [path |-> asked.path, sizes |-> sizes,
                    doc |-> verdict.doc, trust |-> verdict.trust]
  BY DEF Judge
<1> DEFINE sizes == [d \in known |-> table[d].size]
           verdict == AttributeSource(UploadSize, sizes, asked.path)
<1>3. known \subseteq Candidates(asked.version) /\ known \subseteq Docs
  BY DEF Candidates
<1>4. \A d \in known : sizes[d] \in Nat
  BY <1>3 DEF ReadInv, SizeInv, SizeTypeOK, Entries
<1>5. copy # NoCopy /\ UNCHANGED <<sizeVars, copy>>
  BY DEF ReadInv, AskedOK, Judge
<1>6. put'.path = asked.path /\ put'.sizes = sizes /\ put'.doc = verdict.doc /\ put'.trust = verdict.trust
  BY <1>2
<1>7. Verdict(verdict.doc, verdict.trust) = verdict
  BY DEF AttributeSource, Verdict
<1>8. ASSUME SourceUnchanged, copy.source \in known
      PROVE  sizes[copy.source] = SizeOf[copy.source][copy.version]
  <2> DEFINE d == copy.source
  <2>1. d \in Docs /\ copy.version \in Versions /\ version[d] = copy.version
    BY <1>5, <1>8 DEF ReadInv, CopyOK, SourceUnchanged
  <2>2. asked.version[d] \in Versions /\ asked.version[d] <= version[d]
        /\ copy.version <= asked.version[d]
    BY <2>1 DEF ReadInv, AskedOK, Judge
  <2>3. asked.version[d] = version[d]
    BY <2>1, <2>2, SizeStoreAssumption DEF Versions
  <2>4. Answers(table[d], version[d])
    BY <1>3, <1>8, <2>3 DEF Candidates
  <2>5. table[d].size = SizeOf[d][version[d]]
    BY <2>1, <2>4, SizeInvIsExact DEF ReadInv, CurrentIsExact
  <2> QED BY <1>8, <2>1, <2>5
<1>9. UploadSize' = UploadSize /\ (SourceUnchanged' <=> SourceUnchanged)
  BY <1>5 DEF UploadSize, SourceUnchanged, sizeVars
<1>10. PutOK'
  BY <1>3, <1>4, <1>5, <1>6, <1>7, <1>8, <1>9 DEF PutOK
<1> QED BY <1>1, <1>10 DEF ReadInv

LEMMA ReadStep ==
    ASSUME ReadInv, [ReadNext]_readVars
    PROVE  ReadInv'
<1>1. CASE SizeNext /\ UNCHANGED <<copy, asked, put>>
  BY <1>1, SizesMove
<1>2. CASE UNCHANGED readVars
  BY <1>2, SizesMove DEF readVars
<1> QED BY <1>1, <1>2, FetchStep, PutStep, AnnotateStep, JudgeStep DEF ReadNext

THEOREM ReadBackInvariance == ReadSpec => []ReadInv
BY ReadInitially, ReadStep, PTL DEF ReadSpec

LEMMA UploadSizeType ==
    ASSUME ReadInv, copy # NoCopy
    PROVE  /\ UploadSize \in Nat /\ copy.source \in Docs
           /\ SizeOf[copy.source][copy.version] \in Nat
           /\ copy.appended \in Nat
BY SizeStoreAssumption DEF ReadInv, CopyOK, UploadSize

LEMMA SmallAnnotationStep == ReadInv => SmallAnnotationFound
<1> SUFFICES ASSUME ReadInv, put # NoPut, put.trust = "size", SourceUnchanged,
                    copy.source \in DOMAIN put.sizes, copy.appended <= Window
             PROVE  put.doc = copy.source
  BY DEF SmallAnnotationFound
<1>1. copy # NoCopy /\ Sound(put.sizes)
      /\ put.sizes[copy.source] = SizeOf[copy.source][copy.version]
      /\ Verdict(put.doc, put.trust) = AttributeSource(UploadSize, put.sizes, put.path)
  BY SizeStoreAssumption DEF ReadInv, PutOK, Sound
<1>2. Delta(UploadSize, put.sizes, copy.source) \in 0 .. Window
  BY <1>1, UploadSizeType, AttributionAssumption DEF Delta, UploadSize
<1>3. AttributeSource(UploadSize, put.sizes, put.path)
        \in {Verdict(copy.source, "size"), Verdict(Best(UploadSize, put.sizes), "ambiguous")}
  BY <1>1, <1>2, UploadSizeType, SmallAppend
<1> QED BY <1>1, <1>3 DEF Verdict

\* A small annotation of a document that has been measured and has not changed:
\* the verdict "size" names it, whatever the path and the rest of the share.
THEOREM SmallAnnotationsAreFound == ReadSpec => []SmallAnnotationFound
BY ReadBackInvariance, SmallAnnotationStep, PTL

LEMMA TruthfulPathStep == ReadInv => TruthfulPathHonoured
<1> SUFFICES ASSUME ReadInv, put # NoPut, put.path = copy.source,
                    \A d \in DOMAIN put.sizes \ {copy.source} :
                      Delta(UploadSize, put.sizes, d) \notin 0 .. Window
             PROVE  put.doc = copy.source \/ put.trust = "ambiguous"
  BY DEF TruthfulPathHonoured
<1>1. copy # NoCopy /\ Sound(put.sizes)
      /\ Verdict(put.doc, put.trust) = AttributeSource(UploadSize, put.sizes, put.path)
  BY SizeStoreAssumption DEF ReadInv, PutOK, Sound
<1>2. LET verdict == AttributeSource(UploadSize, put.sizes, put.path)
      IN  verdict.doc = put.path \/ verdict.trust = "ambiguous"
  BY <1>1, UploadSizeType, TruthfulPath
<1> QED BY <1>1, <1>2 DEF Verdict

\* A truthful path is honoured unless another document ends within the window
\* below the upload.
THEOREM TruthfulPathsAreHonoured == ReadSpec => []TruthfulPathHonoured
BY ReadBackInvariance, TruthfulPathStep, PTL
=============================================================================
