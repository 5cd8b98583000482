# A verification project for paperless-webdav

paperless-webdav serves the documents of a Paperless-ngx instance over WebDAV
and OPDS. Readers (e-ink devices, PDF annotators) list a share, download
documents, annotate them and PUT the annotated file back. The server keeps an
upload safe in a *spool*, decides which document it came from, and leaves it to
an ingest worker, which is not in the repository, to file it in Paperless.

The modules here model the parts of that system where a mistake is expensive
and a test is weak: many threads of several replicas share a spool volume, a
database and Paperless, any of which fails at any moment. All source paths are
under `src/src/paperless_webdav/` unless they say otherwise.

## 1. Inventory

Status: **M** modelled, **P** partly, **x** not, for the reason in section 6.

| Component | Source | State | Status |
|---|---|---|---|
| Upload spool | `spool.py`, `webdav_provider.py` 1704-1865 | files of the spool volume, one handler per PUT | M: `Spool`, `UploadLedger` |
| Annotation index | `services/annotations.py`, `models.py` 83-118 | one row per md5 | M: in `Spool` |
| Source attribution | `spool.py` 443-553, `webdav_provider.py` 579-615, 1867-1874 | none | M: `Attribution`, `ReadBack` |
| Document sizes | `webdav_provider.py` 117-198, `services/document_sizes.py` | table of sizes, cache per process | M: `SizeStore` |
| Metadata cache | `cache.py` | sizes, contents, tag maps, document lists; memory or Redis | P: in-process back end, in `SizeStore`, `DoneFolder`, `Catalog`, `ContentServe` |
| Paperless client | `paperless_client.py` | none of its own; the documents and tags of Paperless; open streams | P: sizes, pages, search, tag changes, downloads and streams |
| Document content | `webdav_provider.py` 1446-1702 | the content cache, a stream | M: `ContentServe`; `Fetch` in `ReadBack` |
| Done folder and moves | `webdav_provider.py` 1060-1310, 2037-2298 | tags of documents, cached lists | M: `DoneFolder`, `DoneSet` |
| Share listings and names | `webdav_provider.py` 736-1035, 1313-1443 | file name index per request, tag map | P: `ShareFolders`, `Catalog` |
| OPDS catalog | `opds.py` | none of its own | P: `ShareFolders`, `Catalog` |
| WebDAV authentication | `webdav_auth.py`, `database.py` 77-108 | cache of checked credentials, session factory | M: `Access` |
| Share management | `services/shares.py`, `api/shares.py`, `schemas.py`, `ui/routes.py` | users and shares tables | M: `Registry` |
| Database start-up | `database.py`, `src/scripts/entrypoint.py`, `src/alembic/` | schema, advisory locks | M: `StartUp` |
| Admin pages and API | `ui/`, `api/` | none | P: what changes shares, in `Registry` |
| Sessions, login, OIDC | `auth/` | signed cookie | x |
| Set-up, configuration | `main.py`, `app.py`, `config.py`, ... | none | x |

### What each component does, and what makes it correct

**Upload spool.** `begin_write` refuses a PUT to an annotated copy or over the
quota, else opens `incoming/<id>.part`. The stream writes to it. `end_write`
then drops, parks (`partial/`), discards as a duplicate, or publishes: a rename
into `pending/`, a JSON sidecar, an index row. A start of any replica sweeps
`.part` files that were not written for an hour and prunes old files of
`ingested/`. *Hard:* each of these is a separate system call that the other
replicas and the worker see; any may fail, the process may die between any two;
a client that hangs up looks like the end of the file. *Correct:* a client is
told "saved" only of bytes that are on the volume or in Paperless from then on, until
a person or Paperless removes them; a failure after the body has arrived leaves
the bytes on disk; the quota bounds what the spool can hold.

**Annotation index.** `record_pending` inserts a row unless there is one,
`mark_ingested` and `mark_failed` change it, `upload_ingested` is the first half
of the duplicate test. *Correct:* a row that says "ingested" is evidence that
these bytes are a document, since a re-upload is thrown away on the strength of
it.

**Source attribution.** `attribute_source` compares the upload's size with the
sizes of the share's documents. Two incidents are recorded in its docstring.
*Correct:* a small annotation of a measured document is never taken for another
document's with full confidence, whatever path the client named; a truthful
path is not overruled by a coincidence of sizes.

**Document sizes.** A listing asks the cache, then the `document_sizes` table,
then Paperless in chunks of 100; each chunk is stored at once. *Hard:* a
document may be edited between being listed, measured and stored; listings of
several processes overlap; clients give up, and the walk must still end.
*Correct:* a size is never served for another revision; in the end all sizes
are known.

**Metadata cache.** Entries with a time to live, in the process or in Redis;
sizes are keyed by version, contents by document id alone. *Hard:* an entry
fetched before a change can be stored after the change has invalidated it.
*Correct:* what is cached under a version belongs to that version; a MOVE shows
in the next listing.

**Paperless client.** Paged lists, sizes, streams; adds and removes a tag by
reading the document's tags and writing the whole list back. *Hard:* two writers
lose an update. *Correct:* a tag change adds or removes that tag, and takes back
nothing that was there when it was asked for.

**Document content.** Length, ETag and body come from different requests and
caches; a body is passed on as it comes (`stream_downloads`) or downloaded whole
and cached by document id. *Hard:* the document may be edited, an entry may
expire or arrive between any two of these look-ups; any call may fail; a client
goes away, or comes back for the rest with a Range request. *Correct:* the body
is not older than its ETag; what a client takes for the whole document is; a
failure is not remembered; a stream is always closed.

**Done folder and moves.** MOVE into and out of the done folder tags and untags
a document, everything else is accepted and ignored. *Correct:* a document that
was moved is in exactly one of the two folders; success means the tag changed.

**Share listings and names.** A share is a filter on tags. Titles become file
names, clashes are resolved with the document id; every tag becomes a folder,
and documents without one go to a catch-all. Each request fetches and computes
all of this anew, from a map of tag names that may be cached. *Hard:* a name made
unique may be taken, a tag may have the name of a folder, and everything may
change between listing a name and using it. *Correct:* each document of a share
can be reached, in the done folder if and only if it is done; a name that was
listed does not mean an unrelated document later.

**OPDS catalog.** The same documents as feeds in pages, with facets and a
search. *Correct:* a walk from page to page misses nothing that was there all
along; a facet's count is that of its feed; what was shown can be downloaded.

**WebDAV authentication.** A credential is checked against LDAP, Paperless or the
stored token, and then cached for five minutes, in a dictionary that all threads
share without a lock. *Correct:* a withdrawn credential stops working within the
time to live; a right one is refused only because something it needs is down.

**Share management.** Create, update and delete, through the API and the forms;
a handler awaits between looking at a row and writing it. *Correct:* whoever
changes a share had the right to when it was looked up (the API and every delete
ask for the owner; the edit form only for someone who may use the share, see
`RegistryForm.cfg` in section 4), whatever happens in between; what is deleted stays
deleted; an acknowledged update took effect, and overwrote nothing else.

**Database start-up.** The entry point takes an advisory lock, migrates and
releases it; the application then creates missing tables under another lock.
*Hard:* replicas start together, locks go with their connections, and the second
lock is released before its transaction commits. *Correct:* a replica that serves
finds the schema its code expects; in the end every replica serves.

**Sessions, login, OIDC; set-up** have no state beyond a signed cookie, and are
left out.

### How they interact

    reader --PUT--> DocumentResource --> SpooledUpload --> spool volume <--> ingest worker
                        |    |                                                 |
                        |    +--> attribute_source <-- sizes                   v
                        |                               ^                  Paperless
    reader --PROPFIND-> ShareResource --> prefetch -----+---- measure ---------^
                        |                  cache / document_sizes              |
    reader --MOVE-----> handle_move --> add_tag / remove_tag ------------------+
    reader --GET------> length, ETag, content <-- content / size cache, stream-+
    reader --OPDS-----> feeds over the same ShareResource ---------------------+
       every request -> basic_auth_user <-- credential cache, LDAP, tokens
    browser, API -----> create / update / delete share --> shares table --> ShareResource
    container --------> entrypoint --> migrations --> init_database --> all of the above

Everything a thread shares with another goes through the spool volume, the
database, Paperless, or the cache of its process.

## 2. The modules and the code

| Module | What it is |
|---|---|
| `UploadLedger` | abstract: what the spool promises a device, `INSTANCE`d by `Spool` |
| `Spool` | PUT handlers, spool volume, index, worker, replicas |
| `Attribution` | `attribute_source` as operators, without state |
| `SizeStore` | listings that measure and store sizes |
| `ReadBack` | fetch, annotate, put, judge: composes `SizeStore` and `Attribution` |
| `DoneSet` | abstract: what a MOVE promises, `INSTANCE`d by `DoneFolder` |
| `DoneFolder` | listings of a share and its done folder, MOVEs between them |
| `ShareFolders` | folders, file names, feeds and pages of a list of documents, as operators |
| `Catalog` | requests that list, open, move, page and download: extends `ShareFolders` |
| `ContentServe` | downloads of a document that is edited meanwhile |
| `StartUp` | replicas that come up on one database |
| `Access` | authentication by several threads |
| `Registry` | requests that change shares |
| `MCSpool`, `MCSizeStore`, `MCReadBack`, `MCDoneFolder`, `MCCatalog`, `MCContentServe`, `MCStartUp`, `MCAccess`, `MCRegistry` | instances for TLC |
| `SpoolProofs`, `ReadBackProofs`, `DoneFolderProofs`, `CatalogProofs`, `ContentServeProofs`, `StartUpProofs`, `AccessProofs`, `RegistryProofs` | theorems and their proofs; `ReadBackProofs` has those about `SizeStore` and `Attribution` too |

### Spool

One action is one system call or database statement that another process can
see: a rename, a sidecar written, a row written. The variables:

- `req`, `pc`, `got`, `reply`: the PUT handlers; `got` counts chunks.
- `part`: the `.part` files of `incoming/`, by age, since the sweep asks whether
  a file was written in the last hour.
- `pdf`, `json`: the PDFs and sidecars of the other directories, as *stems*. A
  stem is what the code puts in a file name: an owner (the source document or
  the spool id) and twelve digits of the md5. Two uploads of the same bytes with
  the same source meet in one file, as in the code.
- `row`: the `annotated_uploads` table; `paperless`: what is a document there.
- `job`: the ingest worker, an external program, modelled from the functions the
  repository gives it (`list_pending`, `mark_ingested`, `mark_failed`).
- `up`: which replicas run.

`begin_write` is `RefuseAnnotatedCopy`, `RefuseFull` or `BeginWrite`; the stream
is `Write`, `WriteTooLarge`, `StreamError` and `EndOfBody`; `end_write` is the
rest of `HandlerStep`, in the order of the code. `Start` is the provider's
constructor with its sweep and prune. `Faults` says which calls may fail:
`"replace"` the renames, `"sidecar"` the sidecars, `"db"` the index, `"tags"`
the lookup of the annotation tag. `Clearing` and `Trashing` say whether people
empty the directories kept for them and whether Paperless trashes documents (which
it does with superseded revisions, `models.py:109`); `cleared` and `trashed` are
history and record of which bytes that happened to.

Abstracted: names and bytes (md5 is injective; the owner "unknown" is just
another document), the contents of a sidecar other than its md5, and its few
hundred bytes in the quota; the search of the directories for a digest is one
step, since files move through them in the order in which they are searched; the
source of an upload is chosen with its request, and `Attribution` says how.

### Attribution and ReadBack

`Attribution` is the pure function, with its constants (1 MiB, 5 percent,
64 MiB, 64 KiB) as parameters. `sorted(...)[0]` is `Best`, the least pair of
delta and id; the runner-up test is `Ambiguous`: some other candidate within the
window, which is the same as the second of the sorted list being within it. The
fifth verdict, "none", needs a request without a document and cannot arise.
`int(upload_size * 0.05)` is computed in floating point in the code and as
`size \div 20` here; the two agree but for rounding at multiples of 20.

`ReadBack` adds a device: `Fetch` (perhaps an old revision, out of the content
cache, which has no versions), `Annotate`, `Put` (the provider lists the share)
and `Judge` (rows are loaded and the verdict passed). Edits and listings go on
in between.

### SizeStore

`List` fetches the documents, `Lookup` asks the cache, `Load` asks the table,
`Measure` is one chunk of requests to Paperless, `Store` writes its sizes to
cache and table. `Edit` is a new revision. `version` is Paperless' `modified`;
the code compares versions for equality only, and so does the model, which
numbers them. `GiveUp` is a batch that raises, `Restart` a process that dies.

Two simplifications: a listing always fetches the documents
(`WEBDAV_DOCUMENT_LIST_TTL=0`, the default), and the cache holds one entry per
document, as the in-memory back end does (`set_size` drops the others). With
Redis several versions of a size live side by side under keys of their own, so
that less is forgotten.

### DoneFolder

A request names a folder of a share and perhaps a document in it. Every request
first lists that folder: `Hit`, or `Miss`, `FetchPage` until there is no next
page, and `Fill`. A MOVE (or a DELETE in the done folder, which does the same)
then needs the done tag's id (`FindTag`), reads the document's tags
(`ReadTags`), writes the whole list back (`WriteTags`, `WriteFails`) and drops
the cached lists of the share (`Invalidate`). The steps of different threads
interleave between any two requests to Paperless.

`Retag` is somebody who sets or takes away a done tag in Paperless itself, of a
document in `Edited`. What `DoneSet` promises concerns the documents that are moved
for one tag and are not in `Edited` (`OneTagDocs`). `moved`, `excused` and `since` are history variables, which no
action reads: which documents were moved while a list was fetched, or in a way
that does not drop it, and which tags of a document changed since a MOVE of it was
asked. `Docs` carry the include tags of every share; `tags` are the done
tags only. Requests that are refused for their destination, renames and MOVEs
with the done folder switched off change nothing and are left out.

`call` is the method of the document that wsgidav is in. When it fails to put a
document into the done folder, `handle_move` raises, and the request ends. Out of
the done folder it returns False, and wsgidav, within the same request, calls
`copy_move_single`, which does all of it again, ignores what that returns, and
calls `delete`, which does it once more and raises when it fails (`Succeeded`,
`Failed`, `NextCall`). So one request may write the tags up to three times, and is
answered with success after a failed first attempt; an early success of
`copy_move_single` is repeated by `delete`. `DoneSet` has `Try` for this. What
wsgidav does is external (`NextCall`). Where the root has a document of the
destination's name, wsgidav deletes that one before it goes on to
`copy_move_single`; `delete` refuses (2293-2298) and the request fails. Names are not
in this module: a failed `handle_move` out of the done folder may end either way.

### ShareFolders and Catalog

`ShareFolders` is what the provider and the OPDS application compute from a list
of documents: `FileNames` and `Index` are the loop of `_get_documents` (by id,
the title unless taken, then title and id, and the later entry replaces the
earlier); `TopicTags`, `Untagged`, `MemberNames`, `Member` the methods of
`ShareResource`; `PageOf`, `HasNext`, `Facets` those of `OpdsApp`. A name is a
sequence of characters in which an id is one character, so that "a" with id 3
can equal the title "a_3"; that is what the properties on names are about.

`Catalog` is the request around it, in the steps between which Paperless or the
caches may change: the tag map is read (`GetMap`), the documents are fetched
(`Load`), a path enters a tag folder, which fetches for itself (`Enter`), and the
answer is computed (`List`, `Open`, `Feed`, `Download`), for which the map is
read again. The reader (`memory`) remembers one listing or one walk; its fields
`owed`, `steady` and `quiet` are history. There is one request at a time: a
request has no effect but the tag map and the tags of a MOVE, whose own
interleavings `DoneFolder` has. With `WEBDAV_DOCUMENT_LIST_TTL` at its default of
0 every request fetches the documents, and this is what `Load` does.

### ContentServe

`Resolve` is the listing's entry, which fixes the ETag; `LengthOfContent`,
`LengthFromCache`, `ProbeSize`, `ProbeFails` and `LengthByDownload` are the
branches of `get_content_length`; `Fetch`, `FetchFails` and `Store` are
`_download_content`; `ServeHeld`, `Open` and `ContentByDownload` are `get_content`.
Opening a stream takes two steps: `Open` makes the client, and while Paperless is
asked, edits and expiry go on; then the answer begins (`Opened`) or the call fails
and closes the client (`OpenFails`). `Prefetch` is what a listing leaves in the size cache, of which
`SizeStore` has the detail. wsgidav's loop around the file it is given is external: `Read`,
`Finish`, `Cut`, and `Headers` for a HEAD. A body is the version it is from, its
length a number of blocks. `set_content` also stores a size, without a version;
`get_size` asks by version and never finds it, so that this is left out.
`calm`, `failed` and `parts` are history.

### StartUp

`TryLock`, `LockIsHeld`, `GiveUp`, `Migrate`, `MigrateFails` and `LoseLock` are
the entry point's loop; a schema is the alembic revision, the tables, and the one
column that a migration drops. `Upgrades` says from which schemas the migrations
go through. `CreateAll`, `UnlockTables`, `CommitTables` and `CommitFails` are
`init_database`. PostgreSQL is external: a transaction that created a table fails
when another has committed the table meanwhile. A bare start skips the entry
point; it is modelled on a database that is new or up to date.

### Access

`Begin` to `KeyError` are the three looks at the credential cache, each a step
since no lock is held. `_load_token_from_db` is `NoKey` (an encryption key need not
be set; `keyed` says whether it is), `MakeEngine`, `HasEngine` and `LoadToken`, which
has the token or, when the database fails or the token was encrypted with another
key, none (`WithoutToken`); within it, `get_sync_session` sets the engine before its
factory. `Verify` covers LDAP and Paperless, and chooses whether they are up. The map of tokens by user that
`get_token` reads is written in the same step as the environment and read by
nobody in the repository. `until` is history: when a credential ceased to be
valid; so is `missed`: which of the database and the server (LDAP or Paperless) a
request asked in vain.

### Registry

A step is a database statement: `BeginUpdate`, `Select`, `Write` (or
`WriteFails`) and `Refresh` are an update. SQLAlchemy keeps the row that the
request read first and writes the fields that differ from it; `Differing` and
`Over` say so. A share has the three fields that matter to rights and to
validation. `due`, `ever` and the field `asked` of a request are history.

## 3. The runs

| Run | Question | States | Result |
|---|---|---|---|
| `spool` | is anything lost that was answered with success, whatever fails? | 1.7M | holds |
| `spool_quota` | how far is the quota overshot? | 1.2M | holds |
| `sizes` | is every size right, and known in the end? | 545k | holds |
| `readback` | are uploads given to their source? | 2.3M | holds |
| `done_folder` | do cached lists go wrong, does a MOVE do what it says, and what does it undo? | 607k | holds |
| `catalog` | is anything hidden, misnamed, or missed by a walk? | 1.2M | holds |
| `content` | do length, ETag and body fit, and are streams closed? | 1.0M | holds |
| `startup` | does every replica come up, on a complete schema? | 108k | holds |
| `access` | is anyone let in too late, or turned away for nothing? | 3.3M | holds |
| `registry` | do requests change only the shares they may, and only the fields they were asked to? | 2.5M | holds |
| `content_stale` | is a buffered body as new as its ETag? | | violated |
| `auth_race` | does every request end with an answer? | | violated |

### Properties

- `SavedBytesHeld`: an upload that was answered with success is on the volume or
  in Paperless, unless a person cleared these bytes out of a directory kept for
  people or Paperless trashed their document. It takes a duplicate judged by a file
  that moves on, is pruned, or was never there to break it.
- `ShortBodyNeverSaved`: a body shorter than its Content-Length is never
  answered with success.
- `IngestedRowIsADocument`: the premise of `upload_ingested`, except that the
  document may have been trashed since; nothing else makes the row untrue.
- `FailureKeepsBytes`: once the body is there, no failing answer and no crash
  takes it away.
- `ImplementsLedger`: the spool implements `UploadLedger` with `kept` the bytes
  held anywhere, `removed` those that people or Paperless removed, and `saved` what
  the devices were told.
- `QuotaOvershoot`: check and upload are not atomic; the excess is at most one
  upload per handler thread, and what crashed replicas left in `incoming/` counts.
- `CurrentIsExact`: a size that answers for the document's version is its size.
  Between listing and storing the document may change, and then a later size is
  stored under the earlier version; that is harmless because versions do not
  come back, and `StoreAsLatest` (its mutant) shows that nothing else makes it so.
- `Converges`: every size is known in the end, for clients that give up after
  the first chunk and processes that restart for ever.
- `SmallAnnotationFound`, `TruthfulPathHonoured`: what the two incidents ask for.
- `OnlyOverlapsAreStale`: a cached list is wrong about a document only if the
  list was being fetched when the document was moved, or the move was another
  process's, another share's, somebody's in Paperless or one whose outcome was
  lost, or is just about to drop the list. With lists in several pages, a move
  between two pages shifts the rest, so that any document may be missing.
- `ListsSettle`: when tags change no more, the cached lists are right in the end.
- `ImplementsDoneSet`: a MOVE that is answered with success took effect between
  its arrival and its answer (at more than one moment if wsgidav tried again), and
  nothing but a MOVE or a DELETE changes what is done, whoever else reads and writes the document's tags.
- `TakesBackOnlyOverlaps`: a tag is changed by reading the document's tags and
  writing the whole list back, so that two MOVEs of a document in shares with
  different done tags, or a MOVE and an edit in Paperless, may undo each other
  (without `since` the property fails). What a MOVE undoes is never older than the
  request, although it lists a folder, perhaps from the cache, before it reads the
  tags.
- `HiddenOnlyByName`: every document of the share is below the root or, if it is
  done, below the done folder, and not below both. The three exceptions are the
  code's: a title equal to another document's unique name; tags (or files, when
  there are no tag folders) named like the done folder or the catch-all; and a
  done tag that is gone, when the done folder shows the whole share.
- `NamesOpenTheirOwn`: a listed name opens its document when only later documents
  have come since; otherwise it opens a namesake or nothing. A MOVE that a client
  repeats by name may therefore move a namesake, and nothing else.
- `GrowingWalkMissesNothing`: pages are cut anew out of a list that is sorted
  newest first; additions push entries to later pages, where the reader sees them
  twice, and only removals make it miss one.
- `FacetTellsTheCount`, `ServesWhatItShowed`: filters, counts, feeds and
  downloads are computed by different code in different requests and agree.
- `StreamedBodyIsAsNewAsItsTag`: holds when streaming, and says why: the ETag is
  that of a listing, which may be old, but Paperless is asked for the body
  afterwards. `BodyIsAsNewAsItsTag` is the same of both modes.
- `ResumedIsOneVersion`: for streaming, which is not the default, and with two
  kinds of edits left out: those within a request, and those between two requests
  that fall within the second which the ETag tells. What is left is that the ETag
  tells every other edit, whatever listings and sizes were cached. In buffered mode,
  and with the edits left out, a resumed download may be of several versions.
- `CalmAnswerIsWhole`: length and body may come from different caches, yet
  agree unless an edit, a late cache entry or a failure came in between.
- `FailureIsNotServedAgain`: a failed download leaves b"" on the resource, which
  lives as long as the request, and not in the cache.
- `StreamsAreClosed`: by whichever way an answer ends, and when it never begins:
  once the client is made, an error before the first byte leaves nothing for wsgidav
  to close (`OpenFailsUnclosed`, its mutant).
- `ServesCompleteSchema`, `EveryReplicaServes`: although two replicas may create
  the same tables, and a lost lock lets two migrate at once.
- `AcceptedWasValidLately`: the expiry counts from before the verification, so
  that a slow one does not add to the time to live (`SaveFromNow`, its mutant).
- `RefusedForAReason`: a right credential is refused only if somebody whose answer
  it takes was not there: Paperless for a password in that mode, LDAP or the database
  where LDAP is used, the database for a token, for which LDAP may be down. A
  database that fails, a token that no longer decrypts and a missing key all count as
  the database, since the code treats them alike; so does the missing session factory
  for a thread that comes between engine and factory. Losing a race about the cache is
  no reason.
- `WritesByRight`: the right is checked by name and the row written by
  identifier, so that a share created anew under the name is not touched. Which
  right is what the code asks for: the API and both deletes ask for the owner, the
  edit form only whether the user may use the share. A design document would have
  the form refuse non-owners as well; this property does not say so, and
  `RegistryForm.cfg` shows that it is not so.
- `ChangesOnlyWhatWasAsked`: a request holds a copy of the row over several awaits,
  and yet what others write to other fields meanwhile survives it, since the UPDATE
  names only fields that differ from the copy (`WholeRow`, its mutant, names all).
- `DeletedStaysDeleted`, `AcknowledgedFieldsHeld`: an UPDATE names the fields that
  differ from the row read, finds the row gone or writes them.

### Bounds

- `Spool`: two PUTs through two replicas of a file of two chunks are enough for
  a prefix and a whole, for a duplicate and for two files with one stem. In
  `spool_quota` the quota is one chunk, an upload at most one, there are two threads
  and three uploads: two may pass the check together, or one after another whose
  replica died, and the bound of two chunks is reached; a third upload passes it as
  soon as the check is dropped. The ledger's promise concerns one upload's bytes at a
  time, and interference needs one other.
- `SizeStore`: two documents in chunks of one (a walk with a middle), one edit of
  each, a listing in each of two processes.
- `ReadBack`: two documents, whose sizes are 20 and 24, 22 and 16, with a
  tolerance of 4 to 6 and a window of 1: a copy grows through the window, through
  the tolerance and past it, and either document may lie within or beyond.
- `DoneFolder`: two documents on pages of one, two threads of one process that
  move document 1 in and out, and two shares of the same documents with a done tag
  each. One thread also moves document 2, of which people change either tag at any
  moment, and the other lists the second share: a page may shift, a move may meet
  its opposite, a list may belong to another share, a write may undo an edit. MOVEs
  that write in both shares at once are not in this instance: what the other share's
  MOVE does to the tags of a document, at whatever moment, people do here. The
  theorems have both.
- `Catalog`: documents "a_3", "a" and, arriving as number 3, "a", so that the
  unique name of the third is the title of the first; the include tag, which
  may be deleted and made again, the done tag, which may be deleted, and one that
  may take the name of the done folder; two edits (an arrival and a change of tags,
  a rename and its reversal); pages of one entry. A third
  namesake or a third edit repeats what two show.
- `ContentServe`: three versions, of which the first two share a second (an ETag
  with two bodies) and differ in size, and the last two share a size and differ
  in time; two readers, one of which fills the caches for the other.
- `StartUp`: three replicas, two attempts at the lock, two faults, every
  revision as a start: one replica holds the lock, one waits, one gives up.
- `Access`: two threads, two passwords, two tokens, a time to live of one tick
  and one more tick: an entry is fresh, expires, and is made anew. `del` and
  `read` need two threads, and no third changes what they find.
- `Registry`: two requests, two users, one name, two shares ever created, so that
  the name can change hands while a request is under way. Rights and uniqueness
  concern one name at a time.

Symmetry is used where only invariants and step properties are checked: of
uploads, threads, handlers, users, passwords and tokens, which the specifications
treat alike. The theorems of section 5 hold without these bounds.

### Fairness

`FairSizeSpec` asks that clients list again and that a listing not cut off goes
on (WF of `ListingStep`). `Patient` is the assumption of `Converges` about those
that are cut off: at least one chunk is stored before. Without it nothing could
converge, and the comment in the code promises no more ("the next attempt picks
up from there").

`DoneFolder!FairSpec` asks that a thread which waits for Paperless is answered or
times out, and that a cached list expires. Nothing is asked of people or of
requests to begin; `ListsSettle` assumes that tags stop changing.

`ContentServe!FairSpec` asks that a handler that opens a stream or sends goes on
(WF of `StreamStep`): the calls to Paperless have time-outs of 30 and 300 seconds
(`paperless_client.py:419`), and writes to the client time out. `StartUp!Spec` asks that a
replica takes its next step, which includes that the container runtime starts
again what has exited; faults are bounded, since nothing comes up while crashes
go on for ever. `startup` does not check for deadlock: when all replicas serve and
the faults are spent there is nothing left to do.

## 4. What the violations show

- **`content_stale`.** In buffered mode (the default) the content cache is keyed
  by document id alone, and the ETag comes from the listing. After an edit, until
  the entry expires, a GET is answered with the old body under the new ETag. The
  docstring of `get_etag` says that the ETag is there for "allowing clients to
  detect when documents have changed" (`webdav_provider.py:1696`); such a client
  believes its old copy current until the next edit.
- **`auth_race`.** `basic_auth_user` looks into the shared cache three times
  without a lock. When an entry expires under two requests of one user, the
  second `del` (or read) raises `KeyError`, and the request ends in an error
  instead of the "Username string if authenticated, False otherwise"
  (`webdav_auth.py:227-228`).

### Further configurations

Each of these checks one sentence of a docstring or comment that the code does
not keep; the shortest counterexample takes seconds. `tlc -config <cfg> <module>`.

| Configuration | Module | Property | What happens |
|---|---|---|---|
| `SpoolCrash.cfg` | `MCSpool` | `PendingHasProvenance` | "a crash cannot leave a pending file whose provenance is unknown" (`spool.py:324-326`): between the rename (355) and the sidecar it can |
| `SpoolCleared.cfg` | `MCSpool` | `DiscardOnlyWhatIsHeld` | "Only discard when the bytes are provably still held somewhere" (`webdav_provider.py:1846`): a sidecar counts as proof (636), and may be written after its PDF has been taken away and a person has cleared it |
| `SpoolTrashed.cfg` | `MCSpool` | `DiscardOnlyWhatIsHeld` | "Only an ingested row proves the bytes survive somewhere" (`services/annotations.py:31-33`): the row outlives its document, which Paperless trashes once it is superseded (`models.py:109`), and `ingested/` is pruned; a re-upload of those bytes is then dropped although nothing holds them |
| `SizesBack.cfg` | `MCSizeStore` | `RowsAreSuperseded` | "superseding any earlier revision" (`services/document_sizes.py:55`): the upsert (78) replaces later ones too |
| `ReadBackSafe.cfg` | `MCReadBack` | `SizeIsSafe` | "size" is called safe without review and said to require the path to agree (`spool.py:466-468`): below the window (532) it overrules a truthful path |
| `DoneStale.cfg` | `MCDoneFolder` | `MoveShowsAtOnce` | a MOVE "never has to wait" for a cached list to expire (`webdav_provider.py:2249-2251`): a listing under way stores its list (111) after the MOVE dropped the lists. Only with `WEBDAV_DOCUMENT_LIST_TTL` above 0 |
| `Selected.cfg` | `MCCatalog` | `FetchesOnlySelected` | "Documents must have all selected tags" (`ui/templates/shares/form.html:83`): an include tag that was deleted or renamed in Paperless is dropped from the filter, and the share grows by the documents without it |
| `DoneGone.cfg` | `MCCatalog` | `DoneFolderShowsTheDone` | "This ensures we only show documents that belong to this share and are marked as done" (`webdav_provider.py:1157-1158`): a done tag that was deleted or renamed in Paperless is dropped from the filter (736-756), and the done folder shows all of the share |
| `RegistryForm.cfg` | `MCRegistry` | `OnlyOwnersWrite` | "Edit/delete non-owned share: 403, Not authorized" (`src/docs/plans/2026-01-24-admin-ui-design.md:103-104`): `edit_share_submit` takes the share that `get_share_by_name` finds (`ui/routes.py:272-278`), which is also one that only allows the user, and lets this user change it; deletes, by page or API, are the owner's |
| `RegistryDone.cfg` | `MCRegistry` | `DoneFolderHasItsTag` | "done_tag is required when done_folder_enabled is True" (`schemas.py:43`, of `ShareCreate`): an update may leave a share with a done folder and no tag |

### Observations

What the models made explicit, where no sentence of the repository says otherwise:

- A buffered download that fails when the size is unknown is answered with 200
  and an empty body, of length 0.
- `_download_content` says that it keeps the size cache consistent
  (`webdav_provider.py:1504`, 1539). `set_content` stores that size without a
  version, and `get_size` asks with one.
- A form that edits a share which was deleted meanwhile redirects as if it had
  succeeded; the API fails with a server error.
- A name owned by another user whom the creator cannot see is not found by the
  check, and the INSERT then fails with a server error. So does the first request
  of a user when another one of the same user creates the row.
- An update or a create whose row is deleted right after its commit is answered
  with an error although it took effect. The fields of an acknowledged update may
  never have held all at once.
- A database that a bare start created, without the entry point, is at no
  revision; `alembic upgrade` then fails on it at 002, since the `shares` table it
  finds has no `read_only` column to drop. `StartUp!Upgrades` says so, and bare and
  ordinary starts are therefore not mixed in one run.
- The first requests of a replica may come while another thread is between
  setting the engine and the session factory (`database.py:101-102`); their right
  credential is then refused, since a missing factory is taken for a missing token
  (`Access!HasEngine`).
- The expiry date of a share is stored and shown, and nothing in the code compares
  it with the clock, although the repository's `README.md:18` names "temporary
  access". There is no behaviour to model; `Registry` has no clock for that reason.
- A MOVE to the done folder of a share whose done tag cannot be found is answered
  with success and does nothing, on purpose (`webdav_provider.py:2173`).

## 5. What is proved

All theorems are for every value of the constants that the named assumptions
admit, and the assumptions say no more than what the code or its environment
gives: types; that a window is no wider than the tolerance's floor and sizes are
positive; that versions have times that do not run backwards; that passwords and
tokens differ; that threads are finitely many where their number bounds something
(`Registry`, `Spool`); that `None` is none of the values it stands beside. Each
safety proof has the same shape: an inductive invariant defined at the end of the
module it is about, one lemma per action, a theorem `...Invariance`, and the
properties as its consequences. TLC checked each inductive invariant first on the
instance of the module's run.

**`SpoolProofs`.** `TypeCorrect` is type correctness. `Invariance` is
`Spec => []IndInv`, whatever people clear and Paperless trashes. `SavedBytesHeld`
alone is not inductive: a PUT is answered in its last step about a file that was renamed
several steps before and has been moved by the worker since, or about a file
that another PUT put there. `IndInv` adds that

- bytes of a handler between its rename and its answer are accounted for, that is,
  held or removed by somebody outside the program (`UnderWay`),
- so are bytes named by a sidecar (`SidecarsHeld`), since a sidecar is evidence
  for `Duplicate`,
- what is in `ingested/` is or was a document (`IngestedAreDocuments`), since
  `Prune` deletes it, and an ingested row too (`IngestedRowIsADocument`),
- the worker's file is where it thinks it is (`JobInHand`),
- a handler answers last (`AnsweredIsDone`).

The heart of the proof is `ProgramKeepsBytes`: no step of a handler, a replica or
the worker loses bytes that are held, unless they are bytes that had been removed
before; and `PeopleRemoveOne`, what clearing and trashing take away is recorded. Together
they are `StepAccounts`, from which follow `SavedBytesAreHeld`,
`IngestedRowsAreDocuments` and `SpoolImplementsLedger`, which maps each step to one
of the ledger: a step that adds bytes to `Keep`, an answer to `Acknowledge`,
clearing and trashing to `Remove`, a prune of what was trashed to `Forget`, the
others to a stutter. `DiscardsAreHeld` says that a duplicate is discarded only while
its bytes are held; it alone assumes `~Clearing` and `~Trashing`, and without either
it is false, as `SpoolCleared.cfg` and `SpoolTrashed.cfg` show.

Two more invariants. `WholeInv` says that
a handler past the length check has its whole body, which gives
`ShortBodiesAreNeverSaved`; `FailuresKeepBytes` is a theorem about steps and uses
the rescue in `end_write` only. `QuotaInv` is about the quota. The volume's usage
says nothing about uploads that are being received, so the bound is not inductive;
`Claims` gives each of those all of `MaxUpload` from the moment it passed the
check, and what has been received stands for itself. A claim is made below the
quota, there are no more of them than handler threads, and moving a file to
`pending/` hands its claim over: claims and pending files together never exceed
the quota by more than an upload per handler. `QuotaIsOvershotByHandlers` follows,
since usage is at most claims and pending files. The sets are counted with the
theorems of `FiniteSetTheorems`.

**`ReadBackProofs`.** Sizes first. `SizesFollow`: `SizeInv`, of which the main part is that
any size held under a version is the size of that revision or of a later one, up
to the present (`Follows`). When the version is the present one, there is only
one such revision: `CurrentSizesAreExact`. `SizeTypes` is type correctness.

Then lemmas about `Attribution`: the least pair of delta and
id exists (by well-founded induction on naturals) and is least (`BestIsBest`).
`SmallAppend`: if the source is among the candidates with at most a window
appended, a verdict of "size" is for the source. `TruthfulPath`: if no other
candidate ends within the window below the upload, the verdict names the path or
is "ambiguous". Then `ReadInv`, which carries `SizeInv` and says of a judged PUT
that the candidate size of the source is that of the copy's revision when the
source is unchanged. With the two lemmas this gives `SmallAnnotationsAreFound` and
`TruthfulPathsAreHonoured`.

**`DoneFolderProofs`.** `DoneTypes` is type correctness; it needs that a MOVE
under way names a document (`NamesDocument`). `MoveImplementsDoneSet` assumes
that the id of the done tag is found (`"tags" \notin Faults`; without it the code
answers a MOVE with success that did nothing, on purpose), and speaks of the
documents in `OneTagDocs` while others are moved for several tags and edited. That a
MOVE of such a document is for its one tag needs that threads serve what they were
sent (`AsksServed`). Each step of a thread is an attempt, the effect, the success or
the failure of its own request, or a stutter; reading tags that are right already is an effect,
`PatchGrants` says the same of writing them, `AttemptMaps` that a write whose success
is not known, or which `delete` follows, is a `Try`, and `UnwishedMaps` that requests for
other documents are stutters.
`OnlyOverlappingMovesLeaveStaleLists` rests on `ListInv`: a thread that fetches
holds the pages before the next one unless pages shifted under it, and a fetched
list is wrong only about documents that moved since (`Fetching`). The lemma under
it is about pages: an empty page has no page after it (`NoGap`, by taking the
least document of a later page), so that a fetch that stops has every document.
`MovesTakeBackOnlyOverlaps` is without any assumption on `Faults`, shares or people. It concerns one step, but
what the step writes was read several steps before: `BaseSound` says that a thread
about to write holds a list of tags which the document has by now, up to the tag of
the MOVE and to those that changed since it was asked, whoever changed them.

**`ContentServeProofs`.** `ContentInvariance`. What a download will send is decided
in several calls, and each part of `IInv` is what one call may assume of those
before it: a cached size is that of its version or of a later one (`SizesSound`,
as in `SizeStore`, here with edits between the calls); the body `b""` belongs to
the request whose call failed and to no cache (`FailureSound`); with streaming
nothing comes from the content cache (`StreamSound`); and while nothing intervened
(`calm`, history), the version that was listed is the latest and the announced
length is that of the body which is, or will be, sent (`CalmSound`). From it
follow `ContentTypes`, `StreamedIsAsNewAsItsTag`, `FailuresAreTheirOwn`,
`CalmAnswersAreWhole` and `ResumedDownloadsAreOneVersion`. The second and the last
need that versions do not come back and that their times are monotone, which is
assumed of Paperless; that two versions may share a second is not excluded. The last
is about streaming only, and about downloads with no edit within a request or within
the second of the ETag.

**`StartUpProofs`.** `StartUpInvariance`. `ServesCompleteSchema` depends on a
schema that a transaction read several steps before it commits: `BaseStands` says
that tables it saw are still there, `MigratedIsHead` that after the migrations
none goes back behind the head although the lock may be lost, `BareIsPlain` that
replicas started without the entry point find no column to drop.

**`AccessProofs`.** `AccessInvariance`, `AccessTypes`, `NoStaleAcceptance`,
`NoRefusalWithoutReason`. An entry of the cache outlives the step that verified
it, and the verification outlives the password: `CacheSound` says of an entry, and
`AuthSound` of a thread that is to make one, that credential and token were valid
at most a time to live before its expiry. A thread that has looked up the token in
the database, with nothing changed since, has the present one or has been told that
there is none to be had (`AuthSound`). `NothingGranted` then says for each mode that a
right credential which is granted nothing lacked the database, or the server that
`Needed` asks for.

**`RegistryProofs`.** `RegistryInvariance`. `RemovedForGood` needs that
identifiers are not used again, which is counted: shares made and requests about
to insert one are at most `MaxShares`. `OnlyRightfulWrites` is a theorem about
steps: the right was checked on a row found by name, and the row is written by its
identifier several statements later; `UpdateSound` and `DeleteSound` say that the
row which has the identifier, if there still is one, has the owner that was found.
`UpdatesAreHeld`: the fields that an update owes are among those it still has to
write, until it writes them or they are what the table holds. `OnlyAskedFieldsChange`
needs that a request about to write still has the fields for which it was asked.

**`CatalogProofs`.** First the operators of `ShareFolders`, for any list.
`FileNames` is a recursive function: that it has its equation (`FileNamesIs`) is
proved by extending a naming below `k` to one below `k + 1`, and taking the least
`k` for which there is none. `NamesStay`: documents with later ids rename nothing.
`OwnName`: the index leads back to a document unless another hides it. `InOrderIs`:
a finite set listed by rank has each element once, in that order; `FurtherBack`:
in a larger list of the same order, an entry is not further to the front.
`PageGoesOn`: a page begins where the one before ended, and `HasNextIs` says when
there is one more.

`CatalogInvariance` is the invariant of the requests. The properties relate an
answer to what an earlier request told the reader, while requests decide in
several steps; so `RequestSound` says what a request under way has from the
reader's memory, `ListingSound` that a listed name is the one that the documents
present then gave it, `WalkSound` that what a walk owes has been shown or lies
behind the page it is at, and `QuietSound` that, while nothing has changed, the
cached map is the present one, every filter and every fetch is that of the present
names, and the facet's list and the entries shown are a prefix of one list. Those
give `NamesAlwaysOpenTheirOwn`, `NothingIsMissed`, `FacetsTellTheCount` and
`ShownIsServed`. `HiddenByNameAlone` holds in any state with the types and distinct
names of tags (`NamesDiffer`, which Paperless keeps). It is assumed that documents
are finitely many, that a share has one done tag, and that the name of a deleted
tag is not a name the share uses.

**Model-checked only.** Liveness (`Converges`, `ListsSettle`, `StreamsAreClosed`, `EveryReplicaServes`), since the prover has no
rules for fairness here; the violations.

## 6. What is left out, and why

- Power loss: `fsync` is taken to work; a crash is the death of a process.
- The write-back modes other than the spool ("off", "shadow").
- A second ingest worker: the repository's functions assume one.
- The verdict of the md5 prefix: twelve digits are taken to identify bytes.
- Wall clocks: ages are "young" or "old", entries expire at any moment.
- The retry of a device whose PUT was rescued into `failed/`: it is answered as a
  duplicate (the bytes are held) and waits for a person. This is what the code
  does, and `SavedBytesHeld` allows it.
- The Redis back end of the cache, which keeps several versions of a size side by
  side and forgets less. Times to live are an expiry at any moment.
- The provider's static mode, in which tests hand it the documents, and its
  answers to the metadata names that macOS asks for.
- The XML of feeds, thumbnails and the OpenSearch description: functions of one
  document, without state.
- Sessions, login and OIDC: cookie signing and redirects; the state is in the
  cookie and at the identity provider. Health and tag look-ups, templates.
- Set-up, configuration, logging, the token cipher: no state that changes between
  requests.

## 7. What is left to do

Every safety property that a passing run checks is a theorem. What would come next:

1. The hazards without a property (`PROJECT.json`): of two concurrent PUTs of the
   same bytes with different attributions the code and its docs do not say what
   should happen.
2. Several requests of a reader at once in `Catalog`, should a request come to
   write more than a tag map and the tags of a MOVE.
3. A refinement of `Catalog` to an abstract share, a map from names to documents,
   on the strength of `NamesStay` and `OwnName`.
