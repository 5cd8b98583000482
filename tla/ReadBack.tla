------------------------------ MODULE ReadBack ------------------------------
(***************************************************************************)
(* From a document to its annotated copy: a device fetches a document,     *)
(* annotates it and puts it back, and the provider judges which document   *)
(* it came from (_attribute_source and _share_document_sizes).  Composes   *)
(* SizeStore, which supplies the candidates, with Attribution, which       *)
(* judges; the documents are edited, listed and measured meanwhile.        *)
(***************************************************************************)
EXTENDS SizeStore, Attribution

CONSTANTS Appends,      \* bytes an annotation may add
          MaxAppended   \* bound on the annotations of one copy

ASSUME ReadBackAssumption == Appends \subseteq Nat /\ MaxAppended \in Nat

VARIABLES copy,         \* the copy on the device, or NoCopy
          asked,        \* the versions the provider has listed for a PUT
          put           \* the last PUT that was judged, or NoPut

readVars == <<sizeVars, copy, asked, put>>

NoCopy == [source |-> 0]
NoPut == [trust |-> "none"]
NotAsked == [path |-> 0]

\* Bytes the device sends: the revision it fetched and what was appended.
UploadSize == SizeOf[copy.source][copy.version] + copy.appended

ReadInit == SizeInit /\ copy = NoCopy /\ asked = NotAsked /\ put = NoPut

\* A device downloads document d; the content cache, which knows no versions,
\* may serve an earlier revision.
Fetch(d) ==
    /\ asked = NotAsked
    /\ \E v \in 0 .. version[d] :
         copy' = [source |-> d, version |-> v, appended |-> 0]
    /\ put' = NoPut
    /\ UNCHANGED <<sizeVars, asked>>

\* A reader appends an annotation.
Annotate(n) ==
    /\ copy # NoCopy /\ asked = NotAsked
    /\ copy.appended + n <= MaxAppended
    /\ copy' = [copy EXCEPT !.appended = @ + n]
    /\ put' = NoPut
    /\ UNCHANGED <<sizeVars, asked>>

\* The device puts its copy at a path: the source's, or another one that is the
\* same file to a case-insensitive client.  The body is received; the share's
\* documents are listed.
Put(path) ==
    /\ copy # NoCopy /\ asked = NotAsked /\ put = NoPut
    /\ asked' = [path |-> path, version |-> version]
    /\ UNCHANGED <<sizeVars, copy, put>>

\* Mutant: sizes are used whatever revision they were measured for.
CandidatesOfAnyVersion(vs) == {d \in Docs : table[d].size # 0}

\* Rows whose version is still the document's.
Candidates(vs) == {d \in Docs : Answers(table[d], vs[d])}

\* load_sizes, and the verdict.  A failed query leaves no candidates.
Judge ==
    /\ asked # NotAsked
    /\ \E known \in {Candidates(asked.version)} \cup (IF "load" \in Faults THEN {{}} ELSE {}) :
         LET sizes == [d \in known |-> table[d].size]
             verdict == AttributeSource(UploadSize, sizes, asked.path)
         IN  put' = [path |-> asked.path, sizes |-> sizes,
                     doc |-> verdict.doc, trust |-> verdict.trust]
    /\ asked' = NotAsked
    /\ UNCHANGED <<sizeVars, copy>>

ReadNext ==
    \/ SizeNext /\ UNCHANGED <<copy, asked, put>>
    \/ \E d \in Docs : Fetch(d) \/ Put(d)
    \/ \E n \in Appends : Annotate(n)
    \/ Judge

ReadSpec == ReadInit /\ [][ReadNext]_readVars

-----------------------------------------------------------------------------

\* The device has the revision of its source that Paperless holds.
SourceUnchanged == version[copy.source] = copy.version

\* A small annotation of a document that has been measured: a verdict of "size"
\* names the right document, whatever path the client wrote to and whatever
\* else is in the share (the incident of 52,421,533 bytes put at document 698).
SmallAnnotationFound ==
    put # NoPut /\ put.trust = "size" /\ SourceUnchanged
      /\ copy.source \in DOMAIN put.sizes /\ copy.appended <= Window
    => put.doc = copy.source

\* The client wrote to the right path and no other document ends within the
\* window below the upload: the source is named, or a review is asked for (the
\* incident of 8,200,062 bytes of document 722).
TruthfulPathHonoured ==
    put # NoPut /\ put.path = copy.source
      /\ (\A d \in DOMAIN put.sizes \ {copy.source} :
            Delta(UploadSize, put.sizes, d) \notin 0 .. Window)
    => put.doc = copy.source \/ put.trust = "ambiguous"

\* The invariant behind the two: a copy is of a revision there was, a share is
\* listed after the copy was fetched, a verdict was passed on sound candidates.
CopyOK ==
    \/ copy = NoCopy
    \/ /\ copy \in [source : Docs, version : Versions, appended : Nat]
       /\ copy.version <= version[copy.source]

AskedOK ==
    \/ asked = NotAsked
    \/ /\ copy # NoCopy
       /\ asked \in [path : Docs, version : [Docs -> Versions]]
       /\ \A d \in Docs : asked.version[d] <= version[d]
       /\ copy.version <= asked.version[copy.source]

PutOK ==
    \/ put = NoPut
    \/ /\ copy # NoCopy
       /\ DOMAIN put.sizes \subseteq Docs
       /\ \A d \in DOMAIN put.sizes : put.sizes[d] \in Nat
       /\ Verdict(put.doc, put.trust) = AttributeSource(UploadSize, put.sizes, put.path)
       /\ SourceUnchanged /\ copy.source \in DOMAIN put.sizes
            => put.sizes[copy.source] = SizeOf[copy.source][copy.version]

ReadInv == SizeInv /\ CopyOK /\ AskedOK /\ PutOK

\* attribute_source: "only "size" is safe to act on without review", here for a
\* client that wrote to the right path, a source that has not changed and a
\* share whose documents have all been measured.
SizeIsSafe ==
    put # NoPut /\ put.trust = "size" /\ put.path = copy.source
      /\ SourceUnchanged /\ DOMAIN put.sizes = Docs
    => put.doc = copy.source
=============================================================================
