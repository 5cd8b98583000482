------------------------- MODULE ContentServeProofs -------------------------
(***************************************************************************)
(* Theorems of ContentServe, for any readers, versions, sizes, settings    *)
(* and failures: an answer is as new as its tag when it is streamed, whole *)
(* when nothing comes in between, and a failure is answered once.          *)
(***************************************************************************)
EXTENDS ContentServe, FiniteSetTheorems, TLAPS

-----------------------------------------------------------------------------
(* Data.                                                                    *)

LEMMA MinOfTwo ==
  ASSUME NEW a \in Nat, NEW b \in Nat
  PROVE  Min({a, b}) \in {a, b} /\ Min({a, b}) <= a /\ Min({a, b}) <= b
  <1>1. \E x \in {a, b} : \A y \in {a, b} : x <= y
    <2>1. CASE a <= b
      BY <2>1
    <2>2. CASE b <= a
      BY <2>2
    <2>3. QED
      BY <2>1, <2>2
  <1>2. QED
    BY <1>1 DEF Min

LEMMA MinOfOne ==
  ASSUME NEW a \in Nat
  PROVE  Min({a}) = a
  BY DEF Min

LEMMA Versioned ==
  /\ Empty \notin Versions /\ None \notin Bodies /\ None \notin Nat /\ Versions \subseteq Nat
  /\ \A v \in Versions : Size[v] \in Nat \ {0} /\ SizeOf(v) = Size[v] /\ Modified[v] \in Nat
  /\ SizeOf(Empty) = 0
  /\ \A b \in Bodies : SizeOf(b) \in Nat
  /\ \A v, w \in Versions : v <= w => Modified[v] <= Modified[w]
  <1>1. Versions \subseteq Nat /\ Empty \notin Versions /\ None \notin Nat
    BY ContentAssumption DEF Empty
  <1>2. None \notin Bodies
    <2>1. Bodies \subseteq Nat
      BY <1>1 DEF Bodies, Empty
    <2>2. QED
      BY <1>1, <2>1
  <1>3. \A v \in Versions : Size[v] \in Nat \ {0} /\ Modified[v] \in Nat
    <2>1. Size \in [Versions -> Nat \ {0}] /\ Modified \in [Versions -> Nat]
      BY ContentAssumption
    <2>2. QED
      BY <2>1
  <1>4. SizeOf(Empty) = 0 /\ \A v \in Versions : SizeOf(v) = Size[v]
    BY <1>1 DEF SizeOf
  <1>5. \A b \in Bodies : SizeOf(b) \in Nat
    BY <1>3, <1>4 DEF Bodies
  <1>6. \A v, w \in Versions : v <= w => Modified[v] <= Modified[w]
    <2> SUFFICES ASSUME NEW v \in Versions, NEW w \in Versions, v <= w
                 PROVE  Modified[v] <= Modified[w]
      OBVIOUS
    <2>1. CASE v = w
      BY <1>3, <2>1
    <2>2. CASE v # w
      <3>1. v < w
        BY <1>1, <2>2
      <3>2. QED
        BY <3>1, ContentAssumption
    <2>3. QED
      BY <2>1, <2>2
  <1>7. QED
    BY <1>1, <1>2, <1>3, <1>4, <1>5, <1>6

Pcs == {"idle", "length", "fetch", "store", "content", "opening", "send", "cut"}

Lengths == {SizeOf(b) : b \in Bodies} \cup {None}

RequestKeys == {"pc", "listed", "content", "length", "body", "sent", "parts", "calm", "failed"}

LEMMA RequestFields ==
  ASSUME NEW g
  PROVE  g \in Request <=>
           /\ g = [k \in RequestKeys |-> g[k]]
           /\ g.pc \in Pcs /\ g.listed \in Versions /\ g.content \in Bodies \cup {None}
           /\ g.length \in Lengths /\ g.body \in Bodies \cup {None} /\ g.sent \in Nat
           /\ g.parts \in SUBSET Versions /\ g.calm \in BOOLEAN /\ g.failed \in BOOLEAN
  BY DEF Request, Pcs, Lengths, RequestKeys

\* A step of one reader, which changes some fields of its request.
LEMMA GoesOn ==
  ASSUME TypeOK, NEW r \in Readers, NEW p \in Pcs, NEW f, Go(r, p, f),
         DOMAIN f \subseteq {"content", "length", "body", "sent", "parts", "failed"},
         "content" \in DOMAIN f => f["content"] \in Bodies \cup {None},
         "length" \in DOMAIN f => f["length"] \in Lengths,
         "body" \in DOMAIN f => f["body"] \in Bodies \cup {None},
         "sent" \in DOMAIN f => f["sent"] \in Nat,
         "parts" \in DOMAIN f => f["parts"] \subseteq Versions,
         "failed" \in DOMAIN f => f["failed"] \in BOOLEAN
  PROVE  /\ get' \in [Readers -> Request]
         /\ \A u \in Readers : u # r => get'[u] = get[u]
         /\ get'[r].pc = p /\ get'[r].listed = get[r].listed /\ get'[r].calm = get[r].calm
         /\ get'[r].content = IF "content" \in DOMAIN f THEN f["content"] ELSE get[r].content
         /\ get'[r].length = IF "length" \in DOMAIN f THEN f["length"] ELSE get[r].length
         /\ get'[r].body = IF "body" \in DOMAIN f THEN f["body"] ELSE get[r].body
         /\ get'[r].sent = IF "sent" \in DOMAIN f THEN f["sent"] ELSE get[r].sent
         /\ get'[r].parts = IF "parts" \in DOMAIN f THEN f["parts"] ELSE get[r].parts
         /\ get'[r].failed = IF "failed" \in DOMAIN f THEN f["failed"] ELSE get[r].failed
  <1>1. get[r] \in Request
    BY DEF TypeOK
  <1>2. DOMAIN get[r] = RequestKeys
    BY <1>1, RequestFields
  <1>3. get'[r] = [k \in RequestKeys |-> IF k = "pc" THEN p
                                         ELSE IF k \in DOMAIN f THEN f[k] ELSE get[r][k]]
    BY <1>2 DEF Go, TypeOK
  <1>4. /\ get'[r].pc = p /\ get'[r].listed = get[r].listed /\ get'[r].calm = get[r].calm
        /\ get'[r].content = IF "content" \in DOMAIN f THEN f["content"] ELSE get[r].content
        /\ get'[r].length = IF "length" \in DOMAIN f THEN f["length"] ELSE get[r].length
        /\ get'[r].body = IF "body" \in DOMAIN f THEN f["body"] ELSE get[r].body
        /\ get'[r].sent = IF "sent" \in DOMAIN f THEN f["sent"] ELSE get[r].sent
        /\ get'[r].parts = IF "parts" \in DOMAIN f THEN f["parts"] ELSE get[r].parts
        /\ get'[r].failed = IF "failed" \in DOMAIN f THEN f["failed"] ELSE get[r].failed
    BY <1>3 DEF RequestKeys
  <1>5. get'[r] = [k \in RequestKeys |-> get'[r][k]]
    BY <1>3
  <1>6. get'[r] \in Request
    <2>1. /\ get[r].listed \in Versions /\ get[r].content \in Bodies \cup {None}
          /\ get[r].length \in Lengths /\ get[r].body \in Bodies \cup {None}
          /\ get[r].sent \in Nat /\ get[r].parts \in SUBSET Versions
          /\ get[r].calm \in BOOLEAN /\ get[r].failed \in BOOLEAN
      BY <1>1, RequestFields
    <2>2. QED
      BY <1>4, <1>5, <2>1, RequestFields
  <1>7. \A u \in Readers : u # r => get'[u] = get[u]
    BY DEF Go, TypeOK
  <1>8. get' \in [Readers -> Request]
    BY <1>6, <1>7 DEF Go, TypeOK
  <1>9. QED
    BY <1>4, <1>7, <1>8

-----------------------------------------------------------------------------
(* Steps of a reader.                                                       *)

Typed(r) == /\ get[r].pc = "store" => get[r].content \in Versions
            /\ get[r].pc = "send" <=> get[r].body # None
            /\ get[r].body # None => get[r].sent <= SizeOf(get[r].body)

AsNew(r) == streaming /\ get[r].pc = "send" /\ get[r].body # Empty =>
              Modified[get[r].body] >= Tag(get[r].listed)

Sound(r) == StepSound(r) /\ FailureSound(r) /\ StreamSound(r) /\ CalmSound(r) /\ AsNew(r)

\* The cache as the readers know it: nothing, what it was, or the latest.
CacheEvolves == cached' \in {cached, None} \/ (~streaming /\ cached' = version)

LEMMA KeepsSound ==
  ASSUME IInv, NEW u \in Readers, UNCHANGED <<version, streaming>>, CacheEvolves,
         get'[u] = get[u]
  PROVE  Sound(u)' /\ Typed(u)'
  <1>1. Sound(u) /\ Typed(u)
    BY DEF IInv, TypeOK, Sound, AsNew, StreamedBodyIsAsNewAsItsTag, Typed
  <1>2. Typed(u)' /\ StepSound(u)' /\ FailureSound(u)' /\ AsNew(u)'
    BY <1>1 DEF Sound, Typed, StepSound, FailureSound, AsNew, Tag
  <1>3. StreamSound(u)' /\ CalmSound(u)'
    BY <1>1 DEF Sound, StreamSound, CalmSound, Busy, CacheEvolves
  <1>4. QED
    BY <1>2, <1>3 DEF Sound

LEMMA ReaderStepOf ==
  ASSUME IInv, NEW r \in Readers, UNCHANGED <<version, streaming>>, CacheEvolves,
         cached' \in Versions \cup {None},
         sizes' \in [Versions -> {Size[w] : w \in Versions} \cup {None}], SizesSound',
         open' \subseteq Readers,
         get' \in [Readers -> Request], \A u \in Readers : u # r => get'[u] = get[u],
         Typed(r)', Sound(r)'
  PROVE  IInv'
  <1>1. ASSUME NEW u \in Readers PROVE Sound(u)' /\ Typed(u)'
    BY KeepsSound
  <1>2. TypeOK'
    BY <1>1 DEF IInv, TypeOK, Typed
  <1>3. QED
    BY <1>1, <1>2 DEF IInv, Sound, AsNew, StreamedBodyIsAsNewAsItsTag

\* The caches are left alone.
LEMMA PlainStepOf ==
  ASSUME IInv, NEW r \in Readers, UNCHANGED <<version, streaming, cached, sizes>>,
         open' \subseteq Readers,
         get' \in [Readers -> Request], \A u \in Readers : u # r => get'[u] = get[u],
         Typed(r)', Sound(r)'
  PROVE  IInv'
  <1>1. CacheEvolves /\ SizesSound'
    BY DEF CacheEvolves, IInv, SizesSound
  <1>2. QED
    BY <1>1, ReaderStepOf DEF IInv, TypeOK

LEMMA ReaderTyped ==
  ASSUME IInv, NEW r \in Readers
  PROVE  /\ Sound(r) /\ Typed(r)
         /\ get[r].listed \in Versions /\ get[r].content \in Bodies \cup {None}
         /\ get[r].length \in Lengths /\ get[r].body \in Bodies \cup {None}
         /\ get[r].sent \in Nat /\ get[r].parts \in SUBSET Versions
         /\ get[r].calm \in BOOLEAN /\ get[r].failed \in BOOLEAN
         /\ version \in Versions /\ cached \in Versions \cup {None}
         /\ streaming \in BOOLEAN
  BY ContentAssumption, RequestFields
     DEF IInv, TypeOK, Sound, AsNew, StreamedBodyIsAsNewAsItsTag, Typed

LEMMA IdleIsRequest ==
  /\ Idle \in Request /\ Idle.pc = "idle" /\ Idle.content = None /\ Idle.length = None
  /\ Idle.body = None /\ Idle.failed = FALSE /\ Idle.parts = {} /\ Idle.calm = TRUE
  /\ Idle.listed = 1
  BY ContentAssumption DEF Idle, Request

\* Where the tags are the same and nothing came in between, the part that was cut
\* is of the version that is listed.
LEMMA ResolveStep ==
  ASSUME IInv, NEW r \in Readers, Resolve(r)
  PROVE  IInv'
  <1>1. PICK v \in {v \in Versions : v <= version} :
          LET more == get[r].pc = "cut" /\ Tag(get[r].listed) = Tag(v)
          IN  get' = [get EXCEPT ![r] =
                        [Idle EXCEPT !.pc = "length", !.listed = v,
                                     !.sent = IF more THEN get[r].sent ELSE 0,
                                     !.parts = IF more THEN get[r].parts ELSE {},
                                     !.calm = (v = version) /\ (more => get[r].calm)]]
    BY DEF Resolve
  <1> DEFINE more == get[r].pc = "cut" /\ Tag(get[r].listed) = Tag(v)
             sent == IF more THEN get[r].sent ELSE 0
             parts == IF more THEN get[r].parts ELSE {}
             calm == (v = version) /\ (more => get[r].calm)
             g == [Idle EXCEPT !.pc = "length", !.listed = v, !.sent = sent,
                               !.parts = parts, !.calm = calm]
  <1>2. sent \in Nat /\ parts \in SUBSET Versions /\ calm \in BOOLEAN
    BY ReaderTyped
  <1>3. get' = [get EXCEPT ![r] = g]
    BY <1>1
  <1>4. streaming /\ calm => parts \subseteq {v}
    <2> SUFFICES ASSUME streaming, calm, more PROVE get[r].parts \subseteq {v}
      OBVIOUS
    <2>1. get[r].calm /\ v = version
      OBVIOUS
    <2>2. get[r].parts \subseteq {get[r].listed}
      BY <2>1, ReaderTyped DEF Sound, StreamSound
    <2>3. get[r].listed = version \/ Modified[get[r].listed] < Modified[version]
      BY <2>1, ReaderTyped DEF Sound, CalmSound
    <2>4. Modified[get[r].listed] = Modified[version] /\ Modified[version] \in Nat
      BY <2>1, ReaderTyped, Versioned DEF Tag
    <2>5. get[r].listed = version
      BY <2>3, <2>4
    <2>6. QED
      BY <2>1, <2>2, <2>5
  <1>5. calm => v = version
    OBVIOUS
  <1> HIDE DEF sent, parts, calm
  <1>6. /\ g \in Request /\ g.pc = "length" /\ g.listed = v /\ g.content = None
        /\ g.length = None /\ g.body = None /\ g.sent = sent /\ g.parts = parts
        /\ g.calm = calm /\ g.failed = FALSE
    BY <1>2, IdleIsRequest DEF Request
  <1> HIDE DEF g
  <1>7. /\ get' \in [Readers -> Request] /\ get'[r] = g
        /\ \A u \in Readers : u # r => get'[u] = get[u]
    BY <1>3, <1>6 DEF IInv, TypeOK
  <1>8. UNCHANGED <<version, streaming, cached, sizes, open>>
    BY DEF Resolve
  <1>9. Typed(r)'
    BY <1>6, <1>7 DEF Typed
  <1>10. StepSound(r)' /\ FailureSound(r)' /\ AsNew(r)'
    BY <1>6, <1>7, <1>8, Versioned DEF StepSound, FailureSound, AsNew, Empty
  <1>11. StreamSound(r)'
    BY <1>4, <1>6, <1>7, <1>8, ReaderTyped DEF Sound, StreamSound
  <1>12. CalmSound(r)'
    BY <1>5, <1>6, <1>7, <1>8 DEF CalmSound, Busy
  <1>13. QED
    BY <1>7, <1>8, <1>9, <1>10, <1>11, <1>12, PlainStepOf DEF Sound, IInv, TypeOK

-----------------------------------------------------------------------------
(* get_content_length                                                       *)

\* What is at hand: a body of the request, or of the cache.
LEMMA HeldIsBody ==
  ASSUME IInv, NEW r \in Readers, Held(r) # None
  PROVE  Held(r) \in Bodies /\ ~streaming /\ SizeOf(Held(r)) \in Nat /\ SizeOf(Held(r)) \in Lengths
  BY ReaderTyped, Versioned DEF Held, Sound, StreamSound, Bodies, Lengths

\* Steps to the content whose length is now known, or is not to be known.
LEMMA LengthOfContentStep ==
  ASSUME IInv, NEW r \in Readers, LengthOfContent(r)
  PROVE  IInv'
  <1> DEFINE b == Held(r)
             f == [content |-> b, length |-> SizeOf(b)]
  <1>1. /\ Go(r, "content", f) /\ get[r].pc = "length"
        /\ UNCHANGED <<version, streaming, cached, sizes, open>>
    BY DEF LengthOfContent
  <1>2. b \in Bodies /\ ~streaming /\ SizeOf(b) \in Nat /\ SizeOf(b) \in Lengths
    BY HeldIsBody DEF LengthOfContent
  <1>3. get[r].failed <=> b = Empty
    BY ReaderTyped, Versioned, <1>1 DEF Held, Sound, FailureSound, Typed, Bodies, LengthOfContent
  <1> HIDE DEF b
  <1>4. DOMAIN f = {"content", "length"} /\ f["content"] = b /\ f["length"] = SizeOf(b)
    OBVIOUS
  <1> HIDE DEF f
  <1>5. /\ get' \in [Readers -> Request] /\ \A u \in Readers : u # r => get'[u] = get[u]
        /\ get'[r].pc = "content" /\ get'[r].listed = get[r].listed
        /\ get'[r].calm = get[r].calm /\ get'[r].content = b /\ get'[r].length = SizeOf(b)
        /\ get'[r].body = get[r].body /\ get'[r].sent = get[r].sent
        /\ get'[r].parts = get[r].parts /\ get'[r].failed = get[r].failed
    BY <1>1, <1>2, <1>4, GoesOn DEF Pcs, IInv
  <1>6. Typed(r)' /\ AsNew(r)'
    BY <1>1, <1>2, <1>5, ReaderTyped DEF Typed, AsNew
  <1>7. StepSound(r)' /\ FailureSound(r)' /\ StreamSound(r)'
    BY <1>1, <1>2, <1>3, <1>5, ReaderTyped, Versioned
       DEF Sound, StepSound, FailureSound, StreamSound, Typed
  <1>8. CalmSound(r)'
    <2>1. b # Empty => SizeOf(b) = Size[b]
      BY <1>2, Versioned DEF Bodies
    <2>2. QED
      BY <1>1, <1>2, <1>3, <1>5, <2>1, ReaderTyped, Versioned DEF Sound, CalmSound, Busy
  <1>9. QED
    BY <1>1, <1>5, <1>6, <1>7, <1>8, PlainStepOf DEF Sound, IInv, TypeOK

\* A length that comes from the size cache or from Paperless.
LEMMA LengthKnownStep ==
  ASSUME IInv, NEW r \in Readers, NEW length \in Lengths, Go(r, "content", [length |-> length]),
         get[r].pc = "length", Held(r) = None, UNCHANGED <<version, streaming, cached, open>>,
         sizes' \in [Versions -> {Size[w] : w \in Versions} \cup {None}], SizesSound',
         get[r].listed = version /\ length # None => length = Size[version]
  PROVE  IInv'
  <1> DEFINE f == [length |-> length]
  <1>1. get[r].content = None /\ cached = None
    BY DEF Held
  <1>2. DOMAIN f = {"length"} /\ f["length"] = length /\ Go(r, "content", f)
    OBVIOUS
  <1> HIDE DEF f
  <1>3. /\ get' \in [Readers -> Request] /\ \A u \in Readers : u # r => get'[u] = get[u]
        /\ get'[r].pc = "content" /\ get'[r].listed = get[r].listed
        /\ get'[r].calm = get[r].calm /\ get'[r].content = None /\ get'[r].length = length
        /\ get'[r].body = get[r].body /\ get'[r].sent = get[r].sent
        /\ get'[r].parts = get[r].parts /\ get'[r].failed = get[r].failed
    BY <1>1, <1>2, GoesOn DEF Pcs, IInv
  <1>4. Typed(r)' /\ AsNew(r)'
    BY <1>3, ReaderTyped DEF Typed, AsNew
  <1>5. StepSound(r)' /\ FailureSound(r)' /\ StreamSound(r)'
    BY <1>1, <1>3, ReaderTyped DEF Sound, StepSound, FailureSound, StreamSound
  <1>6. CalmSound(r)'
    BY <1>1, <1>3, ReaderTyped DEF Sound, CalmSound, Busy
  <1>7. CacheEvolves
    BY DEF CacheEvolves
  <1>8. QED
    BY <1>3, <1>4, <1>5, <1>6, <1>7, ReaderStepOf DEF Sound, IInv, TypeOK

\* set_size, with the size of the version that is listed or of a later one.
LEMMA SetSizeSound ==
  ASSUME IInv, NEW v \in Versions, NEW w \in Versions, v <= w, w <= version,
         SetSize(v, Size[w]), version' = version
  PROVE  /\ sizes' \in [Versions -> {Size[x] : x \in Versions} \cup {None}]
         /\ SizesSound'
  BY DEF SetSize, SizesSound

LEMMA LengthSteps ==
  ASSUME IInv, NEW r \in Readers, LengthFromCache(r) \/ ProbeSize(r) \/ ProbeFails(r)
  PROVE  IInv'
  <1>1. \A v \in Versions : Size[v] \in Lengths
    BY Versioned DEF Lengths, Bodies
  <1>2. CASE LengthFromCache(r)
    <2> DEFINE size == sizes[get[r].listed]
    <2>1. PICK w \in Versions : get[r].listed <= w /\ w <= version /\ size = Size[w]
      BY <1>2, ReaderTyped DEF LengthFromCache, IInv, SizesSound
    <2>2. get[r].listed = version => w = version
      BY <2>1, ReaderTyped, Versioned
    <2>3. QED
      BY <1>1, <1>2, <2>1, <2>2, LengthKnownStep, ReaderTyped
         DEF LengthFromCache, IInv, TypeOK, SizesSound
  <1>3. CASE ProbeSize(r)
    <2>1. get[r].listed <= version /\ version <= version
      BY ReaderTyped, Versioned DEF Sound, StepSound
    <2>2. /\ Go(r, "content", [length |-> Size[version]]) /\ get[r].pc = "length" /\ Held(r) = None
          /\ SetSize(get[r].listed, Size[version]) /\ UNCHANGED <<version, streaming, cached, open>>
      BY <1>3 DEF ProbeSize, Unknown
    <2>3. /\ sizes' \in [Versions -> {Size[w] : w \in Versions} \cup {None}]
          /\ SizesSound'
      BY <2>1, <2>2, SetSizeSound, ReaderTyped
    <2>4. QED
      BY <1>1, <2>2, <2>3, LengthKnownStep, ReaderTyped
  <1>4. CASE ProbeFails(r)
    BY <1>4, LengthKnownStep DEF ProbeFails, Unknown, Lengths, IInv, TypeOK, SizesSound
  <1>5. QED
    BY <1>2, <1>3, <1>4

-----------------------------------------------------------------------------
(* _download_content                                                        *)

\* Without streaming, and with nothing at hand, the content is downloaded.
LEMMA DownloadSteps ==
  ASSUME IInv, NEW r \in Readers, LengthByDownload(r) \/ ContentByDownload(r)
  PROVE  IInv'
  <1>1. /\ Go(r, "fetch", <<>>) /\ get[r].pc \in {"length", "content"} /\ Held(r) = None
        /\ ~streaming /\ UNCHANGED <<version, streaming, cached, sizes, open>>
    BY DEF LengthByDownload, ContentByDownload, Unknown
  <1>2. get[r].content = None
    BY <1>1 DEF Held
  <1>3. /\ get' \in [Readers -> Request] /\ \A u \in Readers : u # r => get'[u] = get[u]
        /\ get'[r].pc = "fetch" /\ get'[r].listed = get[r].listed
        /\ get'[r].calm = get[r].calm /\ get'[r].content = None
        /\ get'[r].length = get[r].length
        /\ get'[r].body = get[r].body /\ get'[r].sent = get[r].sent
        /\ get'[r].parts = get[r].parts /\ get'[r].failed = get[r].failed
    BY <1>1, <1>2, GoesOn DEF Pcs, IInv
  <1>4. Typed(r)' /\ AsNew(r)'
    BY <1>1, <1>3, ReaderTyped DEF Typed, AsNew
  <1>5. StepSound(r)' /\ FailureSound(r)' /\ StreamSound(r)'
    BY <1>1, <1>2, <1>3, ReaderTyped DEF Sound, StepSound, FailureSound, StreamSound
  <1>6. CalmSound(r)'
    BY <1>1, <1>2, <1>3, ReaderTyped DEF Sound, StepSound, CalmSound, Busy
  <1>7. QED
    BY <1>1, <1>3, <1>4, <1>5, <1>6, PlainStepOf DEF Sound, IInv, TypeOK

LEMMA FetchStep ==
  ASSUME IInv, NEW r \in Readers, Fetch(r)
  PROVE  IInv'
  <1> DEFINE f == [content |-> version]
  <1>1. /\ Go(r, "store", f) /\ get[r].pc = "fetch"
        /\ UNCHANGED <<version, streaming, cached, sizes, open>>
    BY DEF Fetch
  <1>2. DOMAIN f = {"content"} /\ f["content"] = version
    OBVIOUS
  <1> HIDE DEF f
  <1>3. version \in Bodies /\ version # None /\ version # Empty
    BY ReaderTyped, Versioned DEF Bodies
  <1>4. /\ get' \in [Readers -> Request] /\ \A u \in Readers : u # r => get'[u] = get[u]
        /\ get'[r].pc = "store" /\ get'[r].listed = get[r].listed
        /\ get'[r].calm = get[r].calm /\ get'[r].content = version
        /\ get'[r].length = get[r].length
        /\ get'[r].body = get[r].body /\ get'[r].sent = get[r].sent
        /\ get'[r].parts = get[r].parts /\ get'[r].failed = get[r].failed
    BY <1>1, <1>2, <1>3, GoesOn DEF Pcs, IInv
  <1>5. get[r].content = None /\ get[r].body = None /\ ~streaming
    BY <1>1, ReaderTyped DEF Sound, StepSound, StreamSound, Typed
  <1>6. Typed(r)' /\ AsNew(r)'
    BY <1>1, <1>4, <1>5, ReaderTyped DEF Typed, AsNew
  <1>7. StepSound(r)' /\ FailureSound(r)' /\ StreamSound(r)'
    BY <1>1, <1>3, <1>4, <1>5, ReaderTyped, Versioned
       DEF Sound, StepSound, FailureSound, StreamSound, Empty
  <1>8. CalmSound(r)'
    BY <1>1, <1>3, <1>4, <1>5, ReaderTyped DEF Sound, CalmSound, Busy
  <1>9. QED
    BY <1>1, <1>4, <1>6, <1>7, <1>8, PlainStepOf DEF Sound, IInv, TypeOK

LEMMA FetchFailsStep ==
  ASSUME IInv, NEW r \in Readers, FetchFails(r)
  PROVE  IInv'
  <1> DEFINE f == [content |-> Empty, failed |-> TRUE]
             p == Return(r)
  <1>1. /\ Go(r, p, f) /\ get[r].pc = "fetch"
        /\ UNCHANGED <<version, streaming, cached, sizes, open>>
    BY DEF FetchFails
  <1>2. DOMAIN f = {"content", "failed"} /\ f["content"] = Empty /\ f["failed"] = TRUE
    OBVIOUS
  <1>3. p \in {"length", "content"} /\ (p = "length" => get[r].length = None)
    BY DEF Return
  <1> HIDE DEF f, p
  <1>4. Empty \in Bodies /\ Empty # None
    BY Versioned DEF Bodies
  <1>5. /\ get' \in [Readers -> Request] /\ \A u \in Readers : u # r => get'[u] = get[u]
        /\ get'[r].pc = p /\ get'[r].listed = get[r].listed
        /\ get'[r].calm = get[r].calm /\ get'[r].content = Empty
        /\ get'[r].length = get[r].length
        /\ get'[r].body = get[r].body /\ get'[r].sent = get[r].sent
        /\ get'[r].parts = get[r].parts /\ get'[r].failed = TRUE
    <2>1. p \in Pcs /\ TypeOK
      BY <1>3 DEF Pcs, IInv
    <2>2. QED
      BY <1>1, <1>2, <1>4, <2>1, GoesOn
  <1>6. get[r].body = None /\ ~streaming
    BY <1>1, ReaderTyped DEF Sound, StreamSound, Typed
  <1>7. Typed(r)' /\ AsNew(r)'
    BY <1>1, <1>3, <1>5, <1>6, ReaderTyped DEF Typed, AsNew
  <1>8. StepSound(r)' /\ FailureSound(r)' /\ StreamSound(r)'
    BY <1>1, <1>3, <1>5, <1>6, ReaderTyped DEF Sound, StepSound, FailureSound, StreamSound
  <1>9. CalmSound(r)'
    BY <1>1, <1>3, <1>5, <1>6, ReaderTyped DEF Sound, CalmSound, Busy
  <1>10. QED
    BY <1>1, <1>5, <1>7, <1>8, <1>9, PlainStepOf DEF Sound, IInv, TypeOK

\* set_content: what is stored is the latest, or whoever is busy is disturbed.
LEMMA StoreStep ==
  ASSUME IInv, NEW r \in Readers, Store(r)
  PROVE  IInv'
  <1> DEFINE late == IF get[r].content = version THEN {} ELSE {s \in Readers : Busy(s)}
             p == Return(r)
  <1>1. /\ get[r].pc = "store" /\ cached' = get[r].content
        /\ UNCHANGED <<version, streaming, sizes, open>>
        /\ get' = [Disturb(late) EXCEPT ![r].pc = p]
    BY DEF Store
  <1>2. /\ p \in {"length", "content"} /\ (p = "length" => get[r].length = None)
        /\ get[r].content \in Versions /\ ~streaming /\ get[r].body = None
    BY <1>1, ReaderTyped DEF Return, Sound, StreamSound, Typed
  <1>3. late \subseteq Readers /\ (get[r].content # version => \A s \in Readers : Busy(s) => s \in late)
    OBVIOUS
  <1> HIDE DEF late, p
  <1>4. ASSUME NEW g \in Request, NEW q \in {"length", "content"}
        PROVE  /\ [g EXCEPT !.calm = FALSE] \in Request
               /\ [g EXCEPT !.pc = q] \in Request
    BY <1>4 DEF Request
  <1>5. Disturb(late) \in [Readers -> Request]
    BY <1>4 DEF Disturb, IInv, TypeOK
  <1>6. get' \in [Readers -> Request]
    <2>1. [Disturb(late)[r] EXCEPT !.pc = p] \in Request
      BY <1>2, <1>4, <1>5
    <2>2. QED
      BY <1>1, <1>5, <2>1
  <1>7. ASSUME NEW u \in Readers
        PROVE  /\ get'[u].pc = IF u = r THEN p ELSE get[u].pc
               /\ get'[u].listed = get[u].listed
               /\ get'[u].content = get[u].content /\ get'[u].length = get[u].length
               /\ get'[u].body = get[u].body /\ get'[u].sent = get[u].sent
               /\ get'[u].parts = get[u].parts /\ get'[u].failed = get[u].failed
               /\ get'[u].calm = IF u \in late THEN FALSE ELSE get[u].calm
    <2>1. get[u] \in Request
      BY DEF IInv, TypeOK
    <2>2. ASSUME NEW g \in Request, NEW q
          PROVE  /\ [g EXCEPT !.calm = FALSE].pc = g.pc
                 /\ [g EXCEPT !.calm = FALSE].listed = g.listed
                 /\ [g EXCEPT !.calm = FALSE].content = g.content
                 /\ [g EXCEPT !.calm = FALSE].length = g.length
                 /\ [g EXCEPT !.calm = FALSE].body = g.body
                 /\ [g EXCEPT !.calm = FALSE].sent = g.sent
                 /\ [g EXCEPT !.calm = FALSE].parts = g.parts
                 /\ [g EXCEPT !.calm = FALSE].failed = g.failed
                 /\ [g EXCEPT !.calm = FALSE].calm = FALSE
                 /\ [g EXCEPT !.pc = q].pc = q
                 /\ [g EXCEPT !.pc = q].listed = g.listed
                 /\ [g EXCEPT !.pc = q].content = g.content
                 /\ [g EXCEPT !.pc = q].length = g.length
                 /\ [g EXCEPT !.pc = q].body = g.body
                 /\ [g EXCEPT !.pc = q].sent = g.sent
                 /\ [g EXCEPT !.pc = q].parts = g.parts
                 /\ [g EXCEPT !.pc = q].failed = g.failed
                 /\ [g EXCEPT !.pc = q].calm = g.calm
      BY <2>2 DEF Request
    <2>3. Disturb(late)[u] = IF u \in late THEN [get[u] EXCEPT !.calm = FALSE] ELSE get[u]
      BY DEF Disturb
    <2>4. Disturb(late)[u] \in Request
      BY <1>5
    <2>5. get'[u] = IF u = r THEN [Disturb(late)[u] EXCEPT !.pc = p] ELSE Disturb(late)[u]
      BY <1>1, <1>5
    <2>6. QED
      BY <2>1, <2>2, <2>3, <2>4, <2>5
  <1>8. ASSUME NEW u \in Readers
        PROVE  Typed(u)' /\ Sound(u)'
    <2>1. /\ get'[u].pc = IF u = r THEN p ELSE get[u].pc
          /\ get'[u].listed = get[u].listed
          /\ get'[u].content = get[u].content /\ get'[u].length = get[u].length
          /\ get'[u].body = get[u].body /\ get'[u].sent = get[u].sent
          /\ get'[u].parts = get[u].parts /\ get'[u].failed = get[u].failed
          /\ get'[u].calm = IF u \in late THEN FALSE ELSE get[u].calm
      BY <1>7
    <2>2. Sound(u) /\ Typed(u) /\ get[u].calm \in BOOLEAN
      BY ReaderTyped
    <2>3. Typed(u)'
      BY <1>1, <1>2, <2>1, <2>2 DEF Typed
    <2>4. AsNew(u)' /\ StreamSound(u)'
      BY <1>1, <1>2, <2>1, <2>2 DEF AsNew, Sound, StreamSound
    <2>5. StepSound(u)' /\ FailureSound(u)'
      BY <1>1, <1>2, <2>1, <2>2 DEF Sound, StepSound, FailureSound
    <2>6. CalmSound(u)'
      <3>1. CASE u = r
        <4>1. get[r].content # None
          BY <1>2, Versioned DEF Bodies
        <4>2. QED
          BY <1>1, <1>2, <1>3, <2>1, <2>2, <3>1, <4>1 DEF Sound, CalmSound, Busy
      <3>2. CASE u # r /\ get[r].content = version
        BY <1>1, <1>2, <2>1, <2>2, <3>2 DEF Sound, CalmSound, Busy
      <3>3. CASE u # r /\ get[r].content # version
        <4>1. Busy(u) => ~get'[u].calm
          BY <1>3, <2>1, <3>3
        <4>2. QED
          BY <1>1, <1>2, <2>1, <2>2, <3>3, <4>1 DEF Sound, CalmSound, Busy
      <3>4. QED
        BY <3>1, <3>2, <3>3
    <2>7. QED
      BY <2>3, <2>4, <2>5, <2>6 DEF Sound
  <1>9. TypeOK' /\ SizesSound'
    BY <1>1, <1>2, <1>6, <1>8 DEF IInv, TypeOK, SizesSound, Typed
  <1>10. QED
    BY <1>8, <1>9 DEF IInv, Sound, AsNew, StreamedBodyIsAsNewAsItsTag

-----------------------------------------------------------------------------
(* get_content, and wsgidav's loop.                                         *)

LEMMA SendFields ==
  ASSUME IInv, NEW r \in Readers, NEW body \in Bodies, NEW failed \in BOOLEAN,
         Send(r, body, failed)
  PROVE  /\ get' \in [Readers -> Request] /\ \A u \in Readers : u # r => get'[u] = get[u]
         /\ get'[r].pc = "send" /\ get'[r].listed = get[r].listed
         /\ get'[r].calm = get[r].calm /\ get'[r].content = None
         /\ get'[r].length = get[r].length /\ get'[r].body = body
         /\ get'[r].sent \in Nat /\ get'[r].sent <= SizeOf(body)
         /\ get'[r].parts \subseteq get[r].parts /\ get'[r].failed = failed
  <1> DEFINE start == IF get[r].length # None /\ get[r].sent < get[r].length THEN get[r].sent ELSE 0
             sent == Min({start, SizeOf(body)})
             parts == IF start = 0 THEN {} ELSE get[r].parts
             f == [body |-> body, content |-> None, sent |-> sent, parts |-> parts,
                   failed |-> failed]
  <1>1. Go(r, "send", f)
    BY DEF Send
  <1>2. start \in Nat /\ SizeOf(body) \in Nat
    BY ReaderTyped, Versioned
  <1>3. parts \subseteq get[r].parts /\ get[r].parts \in SUBSET Versions
    BY ReaderTyped
  <1> HIDE DEF start, parts
  <1>4. sent \in Nat /\ sent <= SizeOf(body)
    BY <1>2, MinOfTwo
  <1> HIDE DEF sent
  <1>5. /\ DOMAIN f = {"body", "content", "sent", "parts", "failed"} /\ f["body"] = body
        /\ f["content"] = None /\ f["sent"] = sent /\ f["parts"] = parts /\ f["failed"] = failed
    OBVIOUS
  <1> HIDE DEF f
  <1>6. "send" \in Pcs /\ TypeOK
    BY DEF Pcs, IInv
  <1>7. /\ get' \in [Readers -> Request] /\ \A u \in Readers : u # r => get'[u] = get[u]
        /\ get'[r].pc = "send" /\ get'[r].listed = get[r].listed
        /\ get'[r].calm = get[r].calm /\ get'[r].content = None
        /\ get'[r].length = get[r].length /\ get'[r].body = body /\ get'[r].sent = sent
        /\ get'[r].parts = parts /\ get'[r].failed = failed
    BY <1>1, <1>3, <1>4, <1>5, <1>6, GoesOn
  <1>8. QED
    BY <1>3, <1>4, <1>7

\* Sending starts on a body whose length is the one that was told.
LEMMA SendingStepOf ==
  ASSUME IInv, NEW r \in Readers, NEW body \in Bodies, NEW failed \in BOOLEAN,
         Send(r, body, failed), get[r].pc \in {"content", "opening"},
         UNCHANGED <<version, streaming, cached, sizes>>, open' \subseteq Readers,
         failed <=> body = Empty,
         streaming => body \in {Empty, version},
         get[r].calm /\ get[r].length # None /\ ~failed => get[r].length = Size[body]
  PROVE  IInv'
  <1>1. /\ get' \in [Readers -> Request] /\ \A u \in Readers : u # r => get'[u] = get[u]
        /\ get'[r].pc = "send" /\ get'[r].listed = get[r].listed
        /\ get'[r].calm = get[r].calm /\ get'[r].content = None
        /\ get'[r].length = get[r].length /\ get'[r].body = body
        /\ get'[r].sent <= SizeOf(body)
        /\ get'[r].parts \subseteq get[r].parts /\ get'[r].failed = failed
    BY SendFields
  <1>2. body # None /\ None # Empty
    BY Versioned DEF Bodies
  <1>3. Sound(r) /\ get[r].listed \in Versions /\ version \in Versions
    BY ReaderTyped
  <1>4. Typed(r)'
    BY <1>1, <1>2 DEF Typed
  <1>5. StepSound(r)' /\ FailureSound(r)'
    BY <1>1, <1>2, <1>3 DEF Sound, StepSound, FailureSound
  <1>6. StreamSound(r)'
    BY <1>1, <1>3 DEF Sound, StreamSound
  <1>7. CalmSound(r)'
    BY <1>1, <1>3 DEF Sound, CalmSound, Busy
  <1>8. AsNew(r)'
    <2>1. Modified[version] >= Modified[get[r].listed]
      BY <1>3, Versioned DEF Sound, StepSound
    <2>2. QED
      BY <1>1, <2>1 DEF AsNew, Tag
  <1>9. QED
    BY <1>1, <1>4, <1>5, <1>6, <1>7, <1>8, PlainStepOf DEF Sound

LEMMA ServeHeldStep ==
  ASSUME IInv, NEW r \in Readers, ServeHeld(r)
  PROVE  IInv'
  <1>1. /\ get[r].pc = "content" /\ Held(r) # None /\ Send(r, Held(r), get[r].failed)
        /\ UNCHANGED <<version, streaming, cached, sizes, open>>
    BY DEF ServeHeld
  <1>2. Held(r) \in Bodies /\ ~streaming
    BY <1>1, HeldIsBody
  <1>3. /\ Sound(r) /\ Typed(r) /\ get[r].failed \in BOOLEAN /\ cached \in Versions \cup {None}
        /\ get[r].calm \in BOOLEAN
    BY ReaderTyped
  <1>4. get[r].failed <=> Held(r) = Empty
    BY <1>1, <1>3, Versioned DEF Held, Sound, FailureSound, Typed, Bodies
  <1>5. get[r].calm /\ get[r].length # None /\ ~get[r].failed => get[r].length = Size[Held(r)]
    BY <1>1, <1>3 DEF Held, Sound, CalmSound
  <1>6. open' \subseteq Readers
    BY <1>1 DEF IInv, TypeOK
  <1> HIDE DEF Held
  <1>7. QED
    BY <1>1, <1>2, <1>3, <1>4, <1>5, <1>6, SendingStepOf

\* open_stream: the client is made.
LEMMA OpenStep ==
  ASSUME IInv, NEW r \in Readers, Open(r)
  PROVE  IInv'
  <1>1. /\ Go(r, "opening", <<>>) /\ get[r].pc = "content" /\ Held(r) = None
        /\ streaming /\ UNCHANGED <<version, streaming, cached, sizes>>
        /\ open' = open \cup {r}
    BY DEF Open
  <1>2. get[r].content = None
    BY <1>1 DEF Held
  <1>3. /\ get' \in [Readers -> Request] /\ \A u \in Readers : u # r => get'[u] = get[u]
        /\ get'[r].pc = "opening" /\ get'[r].listed = get[r].listed
        /\ get'[r].calm = get[r].calm /\ get'[r].content = None
        /\ get'[r].length = get[r].length
        /\ get'[r].body = get[r].body /\ get'[r].sent = get[r].sent
        /\ get'[r].parts = get[r].parts /\ get'[r].failed = get[r].failed
    BY <1>1, <1>2, GoesOn DEF Pcs, IInv
  <1>4. Typed(r)' /\ AsNew(r)'
    BY <1>1, <1>3, ReaderTyped DEF Typed, AsNew
  <1>5. StepSound(r)' /\ FailureSound(r)' /\ StreamSound(r)'
    BY <1>1, <1>2, <1>3, ReaderTyped DEF Sound, StepSound, FailureSound, StreamSound
  <1>6. CalmSound(r)'
    BY <1>1, <1>2, <1>3, ReaderTyped DEF Sound, StepSound, CalmSound, Busy
  <1>7. open' \subseteq Readers
    BY <1>1 DEF IInv, TypeOK
  <1>8. QED
    BY <1>1, <1>3, <1>4, <1>5, <1>6, <1>7, PlainStepOf DEF Sound

\* The latest version, if the call succeeds.
LEMMA OpenedSteps ==
  ASSUME IInv, NEW r \in Readers, Opened(r) \/ OpenFails(r)
  PROVE  IInv'
  <1>1. get[r].pc = "opening" /\ UNCHANGED <<version, streaming, cached, sizes>>
    BY DEF Opened, OpenFails
  <1>2. /\ Sound(r) /\ version \in Versions /\ open \subseteq Readers /\ get[r].calm \in BOOLEAN
        /\ Typed(r)
    BY ReaderTyped DEF IInv, TypeOK
  <1>3. get[r].content = None
    BY <1>1, <1>2 DEF Sound, StepSound
  <1>4. CASE Opened(r)
    <2>1. version \in Bodies /\ version # Empty
      BY <1>2, Versioned DEF Bodies
    <2>2. ~get[r].failed
      BY <1>1, <1>2, <1>3, Versioned DEF Sound, FailureSound, Typed, Bodies
    <2>3. get[r].calm /\ get[r].length # None => get[r].length = Size[version]
      BY <1>1, <1>2, <1>3, <2>2 DEF Sound, CalmSound
    <2>4. Send(r, version, FALSE) /\ open' \subseteq Readers
      BY <1>2, <1>4 DEF Opened
    <2>5. QED
      BY <1>1, <2>1, <2>3, <2>4, SendingStepOf
  <1>5. CASE OpenFails(r)
    <2>1. Empty \in Bodies
      BY DEF Bodies
    <2>2. Send(r, Empty, TRUE) /\ open' \subseteq Readers
      BY <1>2, <1>5 DEF OpenFails
    <2>3. QED
      BY <1>1, <2>1, <2>2, SendingStepOf
  <1>6. QED
    BY <1>4, <1>5

LEMMA EndBounds ==
  ASSUME IInv, NEW r \in Readers, get[r].body \in Bodies
  PROVE  /\ End(r) \in Nat /\ End(r) <= SizeOf(get[r].body)
         /\ get[r].length = None => End(r) = SizeOf(get[r].body)
  <1>1. SizeOf(get[r].body) \in Nat
    BY Versioned
  <1>2. CASE get[r].length = None
    <2>1. {SizeOf(get[r].body)} \cup ({get[r].length} \ {None}) = {SizeOf(get[r].body)}
      BY <1>2
    <2>2. QED
      BY <1>1, <2>1, MinOfOne DEF End
  <1>3. CASE get[r].length # None
    <2>1. {SizeOf(get[r].body)} \cup ({get[r].length} \ {None})
             = {SizeOf(get[r].body), get[r].length}
      BY <1>3
    <2>2. get[r].length \in Nat
      BY <1>3, ReaderTyped, Versioned DEF Lengths
    <2>3. Min({SizeOf(get[r].body), get[r].length}) \in Nat
          /\ Min({SizeOf(get[r].body), get[r].length}) <= SizeOf(get[r].body)
      BY <1>1, <2>2, MinOfTwo
    <2>4. QED
      BY <1>3, <2>1, <2>3 DEF End
  <1>4. QED
    BY <1>2, <1>3

LEMMA ReadStep ==
  ASSUME IInv, NEW r \in Readers, Read(r)
  PROVE  IInv'
  <1> DEFINE sent == get[r].sent + 1
             parts == get[r].parts \cup {get[r].body}
             f == [sent |-> sent, parts |-> parts]
  <1>1. /\ Go(r, "send", f) /\ get[r].pc = "send" /\ get[r].sent < End(r)
        /\ UNCHANGED <<version, streaming, cached, sizes, open>>
    BY DEF Read
  <1>2. /\ Sound(r) /\ Typed(r) /\ get[r].sent \in Nat /\ get[r].parts \in SUBSET Versions
        /\ get[r].body \in Bodies \cup {None}
    BY ReaderTyped
  <1>3. get[r].body \in Bodies /\ get[r].body # None
    BY <1>1, <1>2 DEF Typed
  <1>4. sent \in Nat /\ sent <= SizeOf(get[r].body) /\ get[r].body \in Versions
    <2>1. /\ End(r) \in Nat /\ End(r) <= SizeOf(get[r].body) /\ SizeOf(get[r].body) \in Nat
      BY <1>3, EndBounds, Versioned
    <2>2. SizeOf(get[r].body) # 0
      BY <1>1, <1>2, <2>1
    <2>3. QED
      BY <1>1, <1>2, <1>3, <2>1, <2>2, Versioned DEF Bodies
  <1>5. parts \subseteq Versions
    BY <1>2, <1>4
  <1>6. streaming /\ get[r].calm => parts \subseteq {get[r].listed}
    BY <1>1, <1>2, <1>4, Versioned DEF Sound, StreamSound, CalmSound
  <1> HIDE DEF sent, parts
  <1>7. DOMAIN f = {"sent", "parts"} /\ f["sent"] = sent /\ f["parts"] = parts
    OBVIOUS
  <1> HIDE DEF f
  <1>8. "send" \in Pcs /\ TypeOK
    BY DEF Pcs, IInv
  <1>9. /\ get' \in [Readers -> Request] /\ \A u \in Readers : u # r => get'[u] = get[u]
        /\ get'[r].pc = "send" /\ get'[r].listed = get[r].listed
        /\ get'[r].calm = get[r].calm /\ get'[r].content = get[r].content
        /\ get'[r].length = get[r].length /\ get'[r].body = get[r].body
        /\ get'[r].sent = sent /\ get'[r].parts = parts /\ get'[r].failed = get[r].failed
    BY <1>1, <1>4, <1>5, <1>7, <1>8, GoesOn
  <1>10. Typed(r)' /\ AsNew(r)'
    BY <1>1, <1>2, <1>3, <1>4, <1>9 DEF Typed, Sound, AsNew, Tag
  <1>11. StepSound(r)' /\ FailureSound(r)' /\ StreamSound(r)' /\ CalmSound(r)'
    BY <1>1, <1>2, <1>6, <1>9 DEF Sound, StepSound, FailureSound, StreamSound, CalmSound, Busy
  <1>12. QED
    BY <1>1, <1>9, <1>10, <1>11, PlainStepOf DEF Sound, IInv, TypeOK

\* The request ends.
LEMMA EndsStep ==
  ASSUME IInv, NEW r \in Readers, get' = [get EXCEPT ![r] = Idle],
         UNCHANGED <<version, streaming, cached, sizes>>, open' \subseteq Readers
  PROVE  IInv'
  <1>1. /\ get' \in [Readers -> Request] /\ get'[r] = Idle
        /\ \A u \in Readers : u # r => get'[u] = get[u]
    BY IdleIsRequest DEF IInv, TypeOK
  <1>2. 1 <= version /\ None # Empty
    <2>1. version \in Nat \ {0} /\ None \notin Nat
      BY ReaderTyped, ContentAssumption
    <2>2. QED
      BY <2>1 DEF Empty
  <1>3. Sound(r) /\ (streaming => cached = None)
    BY ReaderTyped DEF Sound, StreamSound
  <1>4. Typed(r)' /\ Sound(r)'
    BY <1>1, <1>2, <1>3, IdleIsRequest
       DEF Typed, Sound, StepSound, FailureSound, StreamSound, CalmSound, AsNew, Busy
  <1>5. QED
    BY <1>1, <1>4, PlainStepOf

LEMMA LeaveStep ==
  ASSUME IInv, NEW r \in Readers, get[r].pc = "send", Leave(r),
         UNCHANGED <<version, streaming, cached, sizes>>, open' \subseteq Readers
  PROVE  IInv'
  <1> DEFINE f == [body |-> None, failed |-> FALSE]
  <1>1. CASE get' = [get EXCEPT ![r] = Idle]
    BY <1>1, EndsStep
  <1>2. CASE Go(r, "cut", f)
    <2>1. DOMAIN f = {"body", "failed"} /\ f["body"] = None /\ f["failed"] = FALSE
      OBVIOUS
    <2> HIDE DEF f
    <2>2. "cut" \in Pcs /\ TypeOK
      BY DEF Pcs, IInv
    <2>3. /\ get' \in [Readers -> Request] /\ \A u \in Readers : u # r => get'[u] = get[u]
          /\ get'[r].pc = "cut" /\ get'[r].listed = get[r].listed
          /\ get'[r].calm = get[r].calm /\ get'[r].content = get[r].content
          /\ get'[r].body = None
          /\ get'[r].parts = get[r].parts /\ get'[r].failed = FALSE
      BY <1>2, <2>1, <2>2, GoesOn
    <2>4. Sound(r) /\ Typed(r) /\ None # Empty
      BY ReaderTyped, ContentAssumption DEF Empty
    <2>5. Typed(r)' /\ AsNew(r)'
      BY <2>3 DEF Typed, AsNew
    <2>6. StepSound(r)' /\ FailureSound(r)' /\ StreamSound(r)'
      BY <2>3, <2>4 DEF Sound, StepSound, FailureSound, StreamSound
    <2>7. CalmSound(r)'
      BY <2>3, <2>4 DEF Sound, StepSound, CalmSound, Busy
    <2>8. QED
      BY <2>3, <2>5, <2>6, <2>7, PlainStepOf DEF Sound
  <1>3. QED
    BY <1>1, <1>2 DEF Leave

LEMMA EndingSteps ==
  ASSUME IInv, NEW r \in Readers, Headers(r) \/ Finish(r) \/ Cut(r)
  PROVE  IInv'
  <1>1. open \subseteq Readers
    BY DEF IInv, TypeOK
  <1>2. CASE Headers(r)
    BY <1>1, <1>2, EndsStep DEF Headers
  <1>3. CASE Finish(r) \/ Cut(r)
    <2>1. /\ get[r].pc = "send" /\ Leave(r) /\ open' \subseteq Readers
          /\ UNCHANGED <<version, streaming, cached, sizes>>
      BY <1>1, <1>3 DEF Finish, Cut, Close
    <2>2. QED
      BY <2>1, LeaveStep
  <1>4. QED
    BY <1>2, <1>3

-----------------------------------------------------------------------------
(* The world, and the caches' times to live.                                *)

\* An edit disturbs whoever is under way, and a part of a version that the next
\* one cannot be told from.
LEMMA EditStep ==
  ASSUME IInv, Edit
  PROVE  IInv'
  <1> DEFINE rs == {r \in Readers : \/ Busy(r)
                                    \/ /\ get[r].pc = "cut"
                                       /\ Modified[version] = Modified[version + 1]}
  <1>1. /\ version' = version + 1 /\ version' \in Versions /\ version \in Versions
        /\ get' = Disturb(rs) /\ UNCHANGED <<streaming, cached, sizes, open>>
    BY DEF Edit, IInv, TypeOK
  <1>2. /\ version \in Nat /\ version <= version' /\ Modified[version] \in Nat
        /\ Modified[version'] \in Nat /\ Modified[version] <= Modified[version']
    BY <1>1, Versioned
  <1>3. \A r \in Readers : r \in rs <=> \/ Busy(r)
                                        \/ /\ get[r].pc = "cut"
                                           /\ Modified[version] = Modified[version']
    BY <1>1
  <1> HIDE DEF rs
  <1>4. ASSUME NEW g \in Request
        PROVE  /\ [g EXCEPT !.calm = FALSE] \in Request
               /\ [g EXCEPT !.calm = FALSE].pc = g.pc
               /\ [g EXCEPT !.calm = FALSE].listed = g.listed
               /\ [g EXCEPT !.calm = FALSE].content = g.content
               /\ [g EXCEPT !.calm = FALSE].length = g.length
               /\ [g EXCEPT !.calm = FALSE].body = g.body
               /\ [g EXCEPT !.calm = FALSE].sent = g.sent
               /\ [g EXCEPT !.calm = FALSE].parts = g.parts
               /\ [g EXCEPT !.calm = FALSE].failed = g.failed
               /\ [g EXCEPT !.calm = FALSE].calm = FALSE
    BY DEF Request
  <1>5. get' \in [Readers -> Request]
    BY <1>1, <1>4 DEF Disturb, IInv, TypeOK
  <1>6. ASSUME NEW r \in Readers
        PROVE  Typed(r)' /\ Sound(r)'
    <2>1. get[r] \in Request
      BY DEF IInv, TypeOK
    <2>2. get'[r] = IF r \in rs THEN [get[r] EXCEPT !.calm = FALSE] ELSE get[r]
      BY <1>1 DEF Disturb
    <2>3. /\ get'[r].pc = get[r].pc /\ get'[r].listed = get[r].listed
          /\ get'[r].content = get[r].content /\ get'[r].length = get[r].length
          /\ get'[r].body = get[r].body /\ get'[r].sent = get[r].sent
          /\ get'[r].parts = get[r].parts /\ get'[r].failed = get[r].failed
          /\ get'[r].calm = IF r \in rs THEN FALSE ELSE get[r].calm
      BY <1>4, <2>1, <2>2
    <2>4. Sound(r) /\ Typed(r) /\ get[r].listed \in Versions
      BY ReaderTyped
    <2>5. Typed(r)' /\ AsNew(r)'
      BY <1>1, <2>3, <2>4 DEF Typed, Sound, AsNew, Tag
    <2>6. get[r].listed <= version'
      BY <1>1, <2>4, Versioned DEF Sound, StepSound
    <2>7. StepSound(r)' /\ FailureSound(r)' /\ StreamSound(r)'
      BY <1>1, <2>3, <2>4, <2>6 DEF Sound, StepSound, FailureSound, StreamSound
    <2>8. CalmSound(r)'
      <3>1. CASE Busy(r)
        BY <1>3, <2>3, <3>1 DEF CalmSound
      <3>2. CASE get[r].pc = "idle"
        BY <2>3, <2>4, <3>2 DEF Sound, CalmSound, StepSound, Busy
      <3>3. CASE get[r].pc = "cut" /\ Modified[version] = Modified[version']
        BY <1>3, <2>3, <3>3 DEF CalmSound
      <3>4. CASE get[r].pc = "cut" /\ Modified[version] # Modified[version']
        <4>1. get[r].calm => \/ get[r].listed = version
                             \/ Modified[get[r].listed] < Modified[version]
          BY <2>4, <3>4 DEF Sound, CalmSound
        <4>2. Modified[get[r].listed] \in Nat
          BY <2>4, Versioned
        <4>3. get[r].calm => Modified[get[r].listed] < Modified[version']
          BY <1>2, <3>4, <4>1, <4>2
        <4>4. get[r].content = None
          BY <2>4, <3>4 DEF Sound, StepSound
        <4>5. QED
          BY <2>3, <3>4, <4>3, <4>4 DEF CalmSound, Busy
      <3>5. QED
        BY <3>1, <3>2, <3>3, <3>4 DEF Busy
    <2>9. QED
      BY <2>5, <2>7, <2>8 DEF Sound
  <1>7. SizesSound'
    <2> SUFFICES ASSUME NEW v \in Versions, sizes[v] # None
                 PROVE  \E w \in Versions : v <= w /\ w <= version' /\ sizes[v] = Size[w]
      BY <1>1 DEF SizesSound
    <2>1. PICK w \in Versions : v <= w /\ w <= version /\ sizes[v] = Size[w]
      BY DEF IInv, SizesSound
    <2>2. w <= version'
      BY <1>1, <1>2, <2>1, Versioned
    <2>3. QED
      BY <2>1, <2>2
  <1>8. TypeOK'
    BY <1>1, <1>5, <1>6 DEF IInv, TypeOK, Typed
  <1>9. QED
    BY <1>6, <1>7, <1>8 DEF IInv, Sound, AsNew, StreamedBodyIsAsNewAsItsTag

LEMMA CacheSteps ==
  ASSUME IInv, Prefetch \/ ExpireContent \/ ExpireSizes
  PROVE  IInv'
  <1>1. /\ UNCHANGED <<version, streaming, get, open>> /\ cached' \in {cached, None}
    BY DEF Prefetch, ExpireContent, ExpireSizes
  <1>2. /\ sizes' \in [Versions -> {Size[w] : w \in Versions} \cup {None}] /\ SizesSound'
    <2>1. CASE Prefetch
      <3>1. PICK v \in Versions, w \in Versions :
              v <= w /\ w <= version /\ SetSize(v, Size[w])
        BY <2>1 DEF Prefetch
      <3>2. QED
        BY <1>1, <3>1, SetSizeSound
    <2>2. CASE ExpireContent
      BY <1>1, <2>2 DEF ExpireContent, IInv, TypeOK, SizesSound
    <2>3. CASE ExpireSizes
      BY <2>3 DEF ExpireSizes, SizesSound
    <2>4. QED
      BY <2>1, <2>2, <2>3
  <1>3. ASSUME NEW u \in Readers PROVE Sound(u)' /\ Typed(u)'
    BY <1>1, KeepsSound DEF CacheEvolves
  <1>4. TypeOK'
    BY <1>1, <1>2, <1>3 DEF IInv, TypeOK, Typed
  <1>5. QED
    BY <1>2, <1>3, <1>4 DEF IInv, Sound, AsNew, StreamedBodyIsAsNewAsItsTag

-----------------------------------------------------------------------------
(* The theorems.                                                            *)

LEMMA InitInvariant == Init => IInv
  <1> SUFFICES ASSUME Init PROVE IInv
    OBVIOUS
  <1>1. /\ version = 1 /\ cached = None /\ open = {} /\ streaming \in Modes
        /\ sizes = [v \in Versions |-> None] /\ get = [r \in Readers |-> Idle]
    BY DEF Init
  <1>2. 1 \in Versions /\ None # Empty
    BY ContentAssumption DEF Empty
  <1>3. \A r \in Readers : Typed(r) /\ Sound(r)
    BY <1>1, <1>2, IdleIsRequest
       DEF Typed, Sound, StepSound, FailureSound, StreamSound, CalmSound, AsNew, Busy
  <1>4. SizesSound
    BY <1>1 DEF SizesSound
  <1>5. TypeOK
    BY <1>1, <1>2, <1>3, IdleIsRequest DEF TypeOK, Typed
  <1>6. QED
    BY <1>3, <1>4, <1>5 DEF IInv, Sound, AsNew, StreamedBodyIsAsNewAsItsTag

LEMMA StepInvariant == IInv /\ [Next]_vars => IInv'
  <1> SUFFICES ASSUME IInv, [Next]_vars PROVE IInv'
    OBVIOUS
  <1>1. ASSUME NEW r \in Readers, ServeStep(r)
        PROVE  IInv'
    BY <1>1, LengthOfContentStep, LengthSteps, DownloadSteps, FetchStep, FetchFailsStep,
       StoreStep, ServeHeldStep, OpenStep, OpenedSteps, ReadStep, EndingSteps
       DEF ServeStep, StreamStep
  <1>2. CASE UNCHANGED vars
    <2>1. UNCHANGED <<version, streaming, cached, sizes, get, open>>
      BY <1>2 DEF vars
    <2>2. \A u \in Readers : Sound(u)' /\ Typed(u)'
      BY <2>1, KeepsSound DEF CacheEvolves
    <2>3. TypeOK' /\ SizesSound'
      BY <2>1 DEF IInv, TypeOK, SizesSound
    <2>4. QED
      BY <2>2, <2>3 DEF IInv, Sound, AsNew, StreamedBodyIsAsNewAsItsTag
  <1>3. QED
    BY <1>1, <1>2, ResolveStep, EditStep, CacheSteps DEF Next

\* The inductive invariant: what is known of length, content and body between the
\* calls that look for them.
THEOREM ContentInvariance == Spec => []IInv
  BY InitInvariant, StepInvariant, PTL DEF Spec

\* Every variable keeps its type, and no more is sent than the body has.
THEOREM ContentTypes == Spec => []TypeOK
  <1>1. IInv => TypeOK
    BY DEF IInv
  <1>2. QED
    BY <1>1, ContentInvariance, PTL

\* With streaming, a body is never older than the ETag it is sent under
\* (get_etag, open_stream), whatever is edited, cached and expired meanwhile.
THEOREM StreamedIsAsNewAsItsTag == Spec => []StreamedBodyIsAsNewAsItsTag
  <1>1. IInv => StreamedBodyIsAsNewAsItsTag
    BY DEF IInv
  <1>2. QED
    BY <1>1, ContentInvariance, PTL

\* The empty body of a failed download goes to the request whose own call failed
\* and to no other (_download_content, open_stream).
THEOREM FailuresAreTheirOwn == Spec => []FailureIsNotServedAgain
  <1>1. IInv => FailureIsNotServedAgain
    BY DEF IInv, FailureSound, FailureIsNotServedAgain
  <1>2. QED
    BY <1>1, ContentInvariance, PTL

\* What a reader takes for the whole document is all of it, when nothing came in
\* between and no call failed: the length and the body are of one version,
\* although they come from caches with times to live of their own
\* (get_content_length, get_content).
THEOREM CalmAnswersAreWhole == Spec => []CalmAnswerIsWhole
  <1>1. ASSUME IInv PROVE CalmAnswerIsWhole
    <2> SUFFICES ASSUME NEW r \in Readers, Whole(r), get[r].calm, ~get[r].failed
                 PROVE  get[r].sent = Size[get[r].body]
      BY DEF CalmAnswerIsWhole
    <2>1. Sound(r) /\ Typed(r) /\ get[r].body \in Bodies \cup {None}
      BY <1>1, ReaderTyped
    <2>2. get[r].body \in Versions
      BY <2>1 DEF Whole, Typed, Sound, FailureSound, Bodies
    <2>3. CASE get[r].length # None
      BY <2>1, <2>3 DEF Whole, Sound, CalmSound
    <2>4. CASE get[r].length = None
      BY <1>1, <2>2, <2>4, EndBounds, Versioned DEF Whole, Bodies
    <2>5. QED
      BY <2>3, <2>4
  <1>2. QED
    BY <1>1, ContentInvariance, PTL

\* With streaming, a download that is put together from several requests under one
\* ETag is of one version, when no edit came within one of them, nor between them
\* within the second that the ETag tells: it tells any other edit between them
\* (get_etag, support_ranges).  Of buffered mode, which is the default, and of edits
\* during a request it says nothing.
THEOREM ResumedDownloadsAreOneVersion == Spec => []ResumedIsOneVersion
  <1>1. ASSUME IInv PROVE ResumedIsOneVersion
    <2> SUFFICES ASSUME streaming, NEW r \in Readers, get[r].calm
                 PROVE  Cardinality(get[r].parts) <= 1
      BY DEF ResumedIsOneVersion
    <2>1. get[r].parts \in SUBSET {get[r].listed}
      BY <1>1, ReaderTyped DEF Sound, StreamSound
    <2>2. IsFiniteSet({get[r].listed}) /\ Cardinality({get[r].listed}) = 1
      BY FS_Singleton
    <2>3. Cardinality(get[r].parts) <= Cardinality({get[r].listed})
      BY <2>1, <2>2, FS_Subset
    <2>4. QED
      BY <2>2, <2>3
  <1>2. QED
    BY <1>1, ContentInvariance, PTL
=============================================================================
