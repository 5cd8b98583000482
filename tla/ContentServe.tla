---------------------------- MODULE ContentServe ----------------------------
(***************************************************************************)
(* Readers download one document (DocumentResource of webdav_provider.py,  *)
(* content and size caches of cache.py, streams of paperless_client.py)    *)
(* while it is edited in Paperless.                                        *)
(*                                                                         *)
(* A GET takes the document from a listing, which gives the ETag, then     *)
(* asks for the content length, then for the content, each of them from    *)
(* the caches or from Paperless.  With stream_downloads the body is passed *)
(* on as it comes; otherwise it is downloaded whole and cached under the   *)
(* id of the document.  A download that is cut is taken up by the reader   *)
(* with a range request on condition that the ETag is the same.            *)
(***************************************************************************)
EXTENDS Naturals, FiniteSets, FiniteSetsExt

CONSTANTS Readers,
          Versions,     \* the document's versions in Paperless: 1, 2, ...
          Size,         \* Size[v]: blocks in version v
          Modified,     \* Modified[v]: the second in which v was stored
          Modes,        \* the settings of stream_downloads to consider
          Failing,      \* calls to Paperless may fail
          None

Empty == 0              \* the body b""
Bodies == {Empty} \cup Versions
SizeOf(b) == IF b = Empty THEN 0 ELSE Size[b]

ASSUME ContentAssumption ==
    /\ Versions \subseteq Nat \ {0} /\ 1 \in Versions
    /\ Size \in [Versions -> Nat \ {0}]
    /\ Modified \in [Versions -> Nat]
    /\ \A v, w \in Versions : v < w => Modified[v] <= Modified[w]
    /\ Modes \subseteq BOOLEAN /\ Failing \in BOOLEAN
    /\ None \notin Nat

VARIABLES version,      \* the version in Paperless
          streaming,    \* stream_downloads
          cached,       \* the content cache: a version, or None
          sizes,        \* the size cache: sizes[v], or None
          get,          \* get[r]: the request of reader r
          open          \* readers for whom a client to stream from Paperless is open

vars == <<version, streaming, cached, sizes, get, open>>

\* listed: the version in the listing; content: _content; body: what is sent,
\* of which sent blocks; parts: the versions that what the reader holds is from;
\* calm: no edit came in between; failed: a call to Paperless has.
Idle == [pc |-> "idle", listed |-> 1, content |-> None, length |-> None, body |-> None,
         sent |-> 0, parts |-> {}, calm |-> TRUE, failed |-> FALSE]

Request == [pc : {"idle", "length", "fetch", "store", "content", "opening", "send", "cut"},
            listed : Versions, content : Bodies \cup {None},
            length : {SizeOf(b) : b \in Bodies} \cup {None}, body : Bodies \cup {None},
            sent : Nat, parts : SUBSET Versions, calm : BOOLEAN, failed : BOOLEAN]

TypeOK ==
    /\ version \in Versions
    /\ streaming \in Modes
    /\ cached \in Versions \cup {None}
    /\ sizes \in [Versions -> {Size[w] : w \in Versions} \cup {None}]
    /\ open \subseteq Readers
    /\ get \in [Readers -> Request]
    /\ \A r \in Readers :
         /\ get[r].pc = "store" => get[r].content \in Versions
         /\ get[r].pc = "send" <=> get[r].body # None
         /\ get[r].body # None => get[r].sent <= SizeOf(get[r].body)

Init ==
    /\ version = 1
    /\ streaming \in Modes
    /\ cached = None
    /\ sizes = [v \in Versions |-> None]
    /\ get = [r \in Readers |-> Idle]
    /\ open = {}

Busy(r) == get[r].pc \notin {"idle", "cut"}

\* Mutant: the ETag is the id alone.
TagOfId(v) == 0

\* get_etag: the id and the second of the last change.
Tag(v) == Modified[v]

\* The request of r goes on at p, with the fields of f.
Go(r, p, f) ==
    get' = [get EXCEPT ![r] = [k \in DOMAIN @ |-> IF k = "pc" THEN p
                                                  ELSE IF k \in DOMAIN f THEN f[k] ELSE @[k]]]

Disturb(rs) == [r \in Readers |-> IF r \in rs THEN [get[r] EXCEPT !.calm = FALSE] ELSE get[r]]

\* The document is edited.  A reader who goes on within the same second cannot
\* tell.
Edit ==
    /\ version + 1 \in Versions
    /\ version' = version + 1
    /\ get' = Disturb({r \in Readers : \/ Busy(r)
                                       \/ /\ get[r].pc = "cut"
                                          /\ Modified[version] = Modified[version + 1]})
    /\ UNCHANGED <<streaming, cached, sizes, open>>

\* A new request: the document as a listing has it, which may be a cached one.
\* A reader whose download was cut asks for the rest if the ETag is the same.
Resolve(r) ==
    /\ ~Busy(r)
    /\ \E v \in {v \in Versions : v <= version} :
         LET more == get[r].pc = "cut" /\ Tag(get[r].listed) = Tag(v)
         IN  get' = [get EXCEPT ![r] =
                       [Idle EXCEPT !.pc = "length", !.listed = v,
                                    !.sent = IF more THEN get[r].sent ELSE 0,
                                    !.parts = IF more THEN get[r].parts ELSE {},
                                    !.calm = (v = version) /\ (more => get[r].calm)]]
    /\ UNCHANGED <<version, streaming, cached, sizes, open>>

\* What is at hand without a call to Paperless.
Held(r) == IF get[r].content # None THEN get[r].content ELSE cached

-----------------------------------------------------------------------------
(* get_content_length                                                       *)

LengthOfContent(r) ==
    /\ get[r].pc = "length"
    /\ Held(r) # None
    /\ Go(r, "content", [content |-> Held(r), length |-> SizeOf(Held(r))])
    /\ UNCHANGED <<version, streaming, cached, sizes, open>>

LengthFromCache(r) ==
    /\ get[r].pc = "length"
    /\ Held(r) = None /\ sizes[get[r].listed] # None
    /\ Go(r, "content", [length |-> sizes[get[r].listed]])
    /\ UNCHANGED <<version, streaming, cached, sizes, open>>

Unknown(r) == get[r].pc = "length" /\ Held(r) = None /\ sizes[get[r].listed] = None

\* set_size: the sizes of other versions are dropped.
SetSize(v, size) == sizes' = [w \in Versions |-> IF w = v THEN size ELSE None]

\* prefetch_document_sizes, by some listing: it has listed one version, and
\* Paperless has told the size of that one or a later one.
Prefetch ==
    /\ \E v, w \in {v \in Versions : v <= version} :
         /\ sizes[v] = None /\ v <= w
         /\ SetSize(v, Size[w])
    /\ UNCHANGED <<version, streaming, cached, get, open>>

\* One call for the size; it is cached for the version that was listed.
ProbeSize(r) ==
    /\ Unknown(r) /\ streaming
    /\ Go(r, "content", [length |-> Size[version]])
    /\ SetSize(get[r].listed, Size[version])
    /\ UNCHANGED <<version, streaming, cached, open>>

\* Mutant: a call that failed leaves a size of 0 in the cache.
ProbeFailsCached(r) ==
    /\ Unknown(r) /\ streaming /\ Failing
    /\ Go(r, "content", [length |-> None])
    /\ SetSize(get[r].listed, 0)
    /\ UNCHANGED <<version, streaming, cached, open>>

\* It fails: the length is None, the body goes out in chunks.
ProbeFails(r) ==
    /\ Unknown(r) /\ streaming /\ Failing
    /\ Go(r, "content", [length |-> None])
    /\ UNCHANGED <<version, streaming, cached, sizes, open>>

\* Without streaming the length is that of the downloaded body.
LengthByDownload(r) ==
    /\ Unknown(r) /\ ~streaming
    /\ Go(r, "fetch", <<>>)
    /\ UNCHANGED <<version, streaming, cached, sizes, open>>

-----------------------------------------------------------------------------
(* _download_content                                                        *)

Return(r) == IF get[r].length = None THEN "length" ELSE "content"

Fetch(r) ==
    /\ get[r].pc = "fetch"
    /\ Go(r, "store", [content |-> version])
    /\ UNCHANGED <<version, streaming, cached, sizes, open>>

\* Mutant: the empty body of a failed download is cached.
FetchFailsCached(r) ==
    /\ get[r].pc = "fetch" /\ Failing
    /\ Go(r, Return(r), [content |-> Empty, failed |-> TRUE])
    /\ cached' = Empty
    /\ UNCHANGED <<version, streaming, sizes, open>>

\* The download fails: the body is b"", for this request only.
FetchFails(r) ==
    /\ get[r].pc = "fetch" /\ Failing
    /\ Go(r, Return(r), [content |-> Empty, failed |-> TRUE])
    /\ UNCHANGED <<version, streaming, cached, sizes, open>>

\* set_content: under the id, whatever the version.  It disturbs the others if
\* it comes late.
Store(r) ==
    /\ get[r].pc = "store"
    /\ cached' = get[r].content
    /\ LET late == IF get[r].content = version THEN {} ELSE {s \in Readers : Busy(s)}
       IN  get' = [Disturb(late) EXCEPT ![r].pc = Return(r)]
    /\ UNCHANGED <<version, streaming, sizes, open>>

-----------------------------------------------------------------------------
(* get_content                                                              *)

\* Sending starts, at the beginning or by a seek past the blocks the reader has;
\* a range is of no use without a length, or past it.
Send(r, body, failed) ==
    LET start == IF get[r].length # None /\ get[r].sent < get[r].length THEN get[r].sent ELSE 0
    IN  Go(r, "send", [body |-> body, content |-> None,
                       sent |-> Min({start, SizeOf(body)}),
                       parts |-> IF start = 0 THEN {} ELSE get[r].parts,
                       failed |-> failed])

\* Mutant: the content is looked up in the cache again.
ServeCached(r) ==
    /\ get[r].pc = "content"
    /\ cached # None
    /\ Send(r, cached, get[r].failed)
    /\ UNCHANGED <<version, streaming, cached, sizes, open>>

ServeHeld(r) ==
    /\ get[r].pc = "content"
    /\ Held(r) # None
    /\ Send(r, Held(r), get[r].failed)
    /\ UNCHANGED <<version, streaming, cached, sizes, open>>

\* open_stream: a client is made, and asked for the document.
Open(r) ==
    /\ get[r].pc = "content" /\ Held(r) = None /\ streaming
    /\ Go(r, "opening", <<>>)
    /\ open' = open \cup {r}
    /\ UNCHANGED <<version, streaming, cached, sizes>>

\* Mutant: what is streamed is cached as well.
OpenedAndKept(r) ==
    /\ get[r].pc = "opening"
    /\ Send(r, version, FALSE)
    /\ cached' = version
    /\ UNCHANGED <<version, streaming, sizes, open>>

\* The answer begins: with the version that Paperless has by now.
Opened(r) ==
    /\ get[r].pc = "opening"
    /\ Send(r, version, FALSE)
    /\ UNCHANGED <<version, streaming, cached, sizes, open>>

\* Mutant: the client is not closed on the way out.
OpenFailsUnclosed(r) ==
    /\ get[r].pc = "opening" /\ Failing
    /\ Send(r, Empty, TRUE)
    /\ UNCHANGED <<version, streaming, cached, sizes, open>>

\* The call fails, by an error or a status: its client is closed, the body is b"".
OpenFails(r) ==
    /\ get[r].pc = "opening" /\ Failing
    /\ Send(r, Empty, TRUE)
    /\ open' = open \ {r}
    /\ UNCHANGED <<version, streaming, cached, sizes>>

ContentByDownload(r) ==
    /\ get[r].pc = "content" /\ Held(r) = None /\ ~streaming
    /\ Go(r, "fetch", <<>>)
    /\ UNCHANGED <<version, streaming, cached, sizes, open>>

\* A HEAD or a PROPFIND ends here.
Headers(r) ==
    /\ get[r].pc = "content"
    /\ get' = [get EXCEPT ![r] = Idle]
    /\ UNCHANGED <<version, streaming, cached, sizes, open>>

-----------------------------------------------------------------------------
(* wsgidav's loop: blocks are read until the length is sent or none comes.  *)

End(r) == Min({SizeOf(get[r].body)} \cup ({get[r].length} \ {None}))

\* The file that is closed is the stream, with its client, or the body b"", which
\* closes nothing.
Close(r) == open' = IF get[r].body = Empty THEN open ELSE open \ {r}

\* A reader that has a part remembers what it is a part of.
Leave(r) == IF get[r].length # None /\ get[r].sent \in 1..(get[r].length - 1)
              THEN Go(r, "cut", [body |-> None, failed |-> FALSE])
              ELSE get' = [get EXCEPT ![r] = Idle]

Read(r) ==
    /\ get[r].pc = "send" /\ get[r].sent < End(r)
    /\ Go(r, "send", [sent |-> get[r].sent + 1, parts |-> get[r].parts \cup {get[r].body}])
    /\ UNCHANGED <<version, streaming, cached, sizes, open>>

Finish(r) ==
    /\ get[r].pc = "send" /\ get[r].sent >= End(r)
    /\ Leave(r)
    /\ Close(r)
    /\ UNCHANGED <<version, streaming, cached, sizes>>

\* The reader goes away, or the stream from Paperless breaks.
Cut(r) ==
    /\ get[r].pc = "send"
    /\ Leave(r)
    /\ Close(r)
    /\ UNCHANGED <<version, streaming, cached, sizes>>

\* Times to live end.
ExpireContent ==
    /\ cached # None
    /\ cached' = None
    /\ UNCHANGED <<version, streaming, sizes, get, open>>

ExpireSizes ==
    /\ \E v \in Versions : sizes[v] # None
    /\ sizes' = [v \in Versions |-> None]
    /\ UNCHANGED <<version, streaming, cached, get, open>>

\* A stream opens, or does not; a body is sent.
StreamStep(r) == Opened(r) \/ OpenFails(r) \/ Read(r) \/ Finish(r) \/ Cut(r)

ServeStep(r) ==
    \/ LengthOfContent(r) \/ LengthFromCache(r)
    \/ ProbeSize(r) \/ ProbeFails(r) \/ LengthByDownload(r)
    \/ Fetch(r) \/ FetchFails(r) \/ Store(r)
    \/ ServeHeld(r) \/ Open(r) \/ ContentByDownload(r) \/ Headers(r)
    \/ StreamStep(r)

Next ==
    \/ Edit
    \/ \E r \in Readers : Resolve(r) \/ ServeStep(r)
    \/ Prefetch \/ ExpireContent \/ ExpireSizes

Spec == Init /\ [][Next]_vars

\* A handler that opens a stream or sends a body goes on: reads and writes of
\* sockets time out.
FairSpec == Spec /\ \A r \in Readers : WF_vars(StreamStep(r))

-----------------------------------------------------------------------------
(* Properties.                                                              *)

\* The reader takes what it has been sent for the whole document.
Whole(r) == /\ get[r].pc = "send" /\ get[r].sent = End(r)
            /\ get[r].length # None => get[r].sent = get[r].length

\* With streaming, an answer's body is never older than its ETag says: a reader
\* that keeps the body under the ETag is told when there is a newer one.
StreamedBodyIsAsNewAsItsTag ==
    streaming => \A r \in Readers :
        get[r].pc = "send" /\ get[r].body # Empty =>
            Modified[get[r].body] >= Tag(get[r].listed)

\* What a reader takes for the whole document is all of it, when no edit and no
\* late entry of the cache came in between and no call failed, although length
\* and body are looked up one after the other, in caches with times to live of
\* their own.
CalmAnswerIsWhole ==
    \A r \in Readers :
        Whole(r) /\ get[r].calm /\ ~get[r].failed => get[r].sent = Size[get[r].body]

\* With streaming (not the default), a download that is put together from several
\* requests under one ETag is of one version, provided that no edit came within one
\* of the requests, nor between two of them within the second that the ETag tells
\* (calm, and Edit).  In buffered mode, and with such edits, it may be of several.
ResumedIsOneVersion ==
    streaming => \A r \in Readers : Whole(r) /\ get[r].calm => Cardinality(get[r].parts) <= 1

\* An empty body is the answer only to the request whose own call failed.
FailureIsNotServedAgain ==
    \A r \in Readers : get[r].body = Empty => get[r].failed

\* What was opened to stream from Paperless is closed in the end: the call failed
\* before the first byte, the body was read to its end, the stream broke, or the
\* reader went away.
StreamsAreClosed == \A r \in Readers : r \in open ~> r \notin open

\* get_etag: "allowing clients to detect when documents have changed": what is
\* sent under an ETag is not older than the ETag.
BodyIsAsNewAsItsTag ==
    [][\A r \in Readers :
         get[r].pc # "send" /\ get'[r].pc = "send" /\ get'[r].body # Empty =>
            Modified[get'[r].body] >= Tag(get[r].listed)]_vars

-----------------------------------------------------------------------------
(* The inductive invariant: what is known of length, content and body       *)
(* between the calls that look for them.                                    *)

\* A size is that of the version it is cached for, or of a later one.
SizesSound ==
    \A v \in Versions :
        sizes[v] # None => \E w \in Versions : v <= w /\ w <= version /\ sizes[v] = Size[w]

StepSound(r) ==
    /\ get[r].listed <= version
    /\ get[r].pc \in {"idle", "length"} => get[r].length = None
    /\ get[r].pc \in {"idle", "fetch", "opening", "send", "cut"} => get[r].content = None
    /\ get[r].pc = "opening" => streaming

\* The body b"" is that of the request whose call failed.
FailureSound(r) ==
    get[r].failed <=> get[r].content = Empty \/ get[r].body = Empty

\* With streaming, content comes from Paperless only.
StreamSound(r) ==
    streaming => /\ cached = None /\ get[r].content = None
                 /\ get[r].pc \notin {"fetch", "store"}
                 /\ get[r].calm => get[r].parts \subseteq {get[r].listed}

\* With nothing in between, the version that was listed is still the latest, and
\* the length is that of what is, or will be, sent.
CalmSound(r) ==
    get[r].calm =>
        /\ Busy(r) => get[r].listed = version
        /\ get[r].pc = "cut" => \/ get[r].listed = version
                                \/ Modified[get[r].listed] < Modified[version]
        /\ get[r].pc = "store" => get[r].content = version
        /\ streaming /\ get[r].pc = "send" => get[r].body \in {Empty, get[r].listed}
        /\ get[r].length # None /\ ~get[r].failed =>
             /\ get[r].content # None => get[r].length = Size[get[r].content]
             /\ get[r].pc \in {"fetch", "content", "opening"} /\ get[r].content = None =>
                  get[r].length = Size[version]
             /\ get[r].pc = "content" /\ get[r].content = None => cached \in {None, version}
             /\ get[r].pc = "send" => get[r].length = Size[get[r].body]

IInv ==
    /\ TypeOK
    /\ SizesSound
    /\ \A r \in Readers : StepSound(r) /\ FailureSound(r) /\ StreamSound(r) /\ CalmSound(r)
    /\ StreamedBodyIsAsNewAsItsTag
=============================================================================
