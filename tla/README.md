# FileFerry: a TLA+ model and its proofs

FileFerry is an HTTP service that lists the files of two storage backends, a
local directory (FS) and an S3 bucket (S3), and copies a file from one to the
other. This directory holds the specifications of the parts of it where order
and failure matter, the TLC configurations that check them on small instances,
and TLAPS proofs of the main results for instances of any size.

    tlc -workers 2 -config TransferSafety.cfg MCTransfer     # one run
    tlapm TransferProof.tla                                  # one proof module

All paths below are relative to the crate (`src/` of it is the Rust source).

## 1. Inventory of the system

| Part | State it keeps | Operations | Meets |
|---|---|---|---|
| `backend/mod.rs`: `Backends`, `stream_copy`, `LimitedReader` | per copy: byte counter, reader with an inactivity timeout | `pick`, `stream_copy` (open source, wrap, write destination, audit line), `poll_read` under a cap | called by `copy_file`; drives two backends |
| `backend/fs.rs` | the data directory (shared by all requests); an open file and its offset per copy; writes in tokio's blocking pool | `resolve`, `list`, `open_read`, `write_all` | the operating system, other copies, other programs |
| `backend/s3.rs` | the bucket (shared); per upload a temporary file and PUT requests in flight | `key`, `strip_prefix`, `list`, `open_read`, `write_all` | the S3 service, the client's retries |
| `backend/offline.rs` | none | 502 for everything | stands in for S3 if `FILEFERRY_OFFLINE` is set |
| `router.rs` | none (shared, immutable `AppState`) | `list_files`, `copy_file`, `/`, `/health`, `/api`; the stack of layers with the request timeout | all of the above |
| `extract.rs`, `model.rs`, `validate.rs`, `error.rs` | none | typed query and JSON (body read timeout), path rules, error to status and JSON envelope | the handlers |
| `auth.rs`, `access_log.rs`, `trace_headers.rs`, `security_headers.rs` | a global request counter (two of them) | bearer gate, log line, trace ids, constant headers | layers around the handlers |
| `config.rs`, `boot_warnings.rs`, `doctor.rs`, `diagnose.rs` | the configuration, fixed after boot | load, defaults, validation, checks | `main.rs` |
| `main.rs`, `shutdown.rs` | listener, shutdown signal | boot, serve, drain on SIGTERM/SIGINT; SIGKILL after the grace period | everything |

How they interact: requests run as independent futures on one runtime. They
share no Rust state but the backends, and the backends keep no state of their
own: what copies share is the directory and the bucket, without locks. A
handler can be dropped at every `await`, by the request timeout or when the
client hangs up; jobs it gave to the blocking pool and PUTs it sent to S3 live
on.

The behaviours that are hard, and what correctness means there:

* **Copy.** 204 must mean that the destination is the source; a failure must
  leave nothing that is over the cap, no part of an undisturbed source as an
  object, and (if the source was refused) no change at all; a copy must not hang on a silent peer; what a
  dropped handler or a killed process left behind must not spoil a later copy.
* **Paths.** A request reads and writes what its path names and nothing else,
  though directories and links change between the check and the open; a copied
  object is listed under its own path.
* **Listing.** Walking the pages must deliver every file that stays, once, in
  order, while others come and go; it must come to an end.
* **Middleware and clocks.** No gated handler runs without the token; every
  reply has the headers and one log line; three timeouts (30 s for the body,
  inactivity, total) run over each other, and the client must get the right
  code from the right one.
* **Ids.** Concurrent requests draw trace ids from a clock and a counter: which
  of them can be equal?
* **Boot and shutdown.** No start with less protection than the configuration
  names; doctor tells what the server will do; requests in flight at a signal
  finish, and the process ends.

## 2. Modules

| Module | Models | Instances | Theorems in |
|---|---|---|---|
| `Transfer` | concurrent `POST /v1/files/copy` over both backends | `MCTransfer` | `TransferProof` |
| `AtomicPut` | what a copy into S3 promises: the abstract specification | (in `Transfer`, `Crash`) | (in `TransferProof`) |
| `Crash` | `Transfer` composed with a process that is killed and started again | `MCCrash` | `CrashProof` |
| `Paths` | operators: `validate_path`, `resolve`'s join, `key`, `strip_prefix` | (in `FsBackend`) | |
| `FsBackend` | one FS open against other programs that change the directory | `MCFsBackend` | `FsProof` |
| `Listing` | a walk over `GET /v1/files` while the store changes | `MCListing` | `ListingProof` |
| `Walk` | what a listing promises a client: the abstract specification | (in `Listing`) | (in `ListingProof`) |
| `Pipeline` | one request through layers, gate, extractors and handlers, with time | `MCPipeline` | `PipelineProof` |
| `TraceIds` | the ids of concurrent requests | `MCTraceIds` | `TraceProof` |
| `Boot` | from the command line to a listening socket; `fileferry doctor` | `MCBoot` | `BootProof` |
| `Server` | listener, connections, signals, drain, SIGKILL | (itself) | `ServerProof` |

How they fit together: `Boot` decides what the others take as given (`s3kind` of
`Transfer`, `cfg` of `Pipeline`). `Server` starts where `Boot` binds, and treats
a handler as a few steps. `Pipeline` is one request in detail and treats a copy
as stages; `Transfer` is the copies in detail and treats a path as a name, which
`FsBackend` opens up. An operator `X_Something` in a module is `X` with a
plausible bug, for the mutants of PROJECT.json; no specification uses it.

### Transfer

The stores are `fs` and `s3`: each path names content (a sequence of blocks),
nothing (`Absent`) or, in the directory, an entry that `resolve` refuses
(`Link`). `s3kind` is what boot made of the configuration: a live S3 backend,
the offline stub, or none. Each copy has a request and a stage `pc`, which at
the end is its outcome; `Reply` maps outcomes to what the client is told, as
`FerryError::status` and `code` do.

| Code | Actions |
|---|---|
| `copy_file` up to its first await, `Backends::pick` | `Admit` (`Verdict`) |
| `open_read` of FS / S3 / offline | `OpenReadFs`, `OpenReadS3` |
| FS `write_all` up to `io::copy`: `resolve`, `create_dir_all`, open with truncate | `OpenWriteFs` |
| S3 `write_all`: `NamedTempFile::new`, `File::create` | `OpenTmp`, then the pool's `CreateTmp` / `CreateTmpFails` |
| `tokio::io::copy` polling `LimitedReader` over `TimeoutReader` | `Read` (a chunk of any size; over the cap it is dropped and the copy fails), `ReadEof`, `ReadFails`, `Stall` |
| `tokio::fs::File`: buffer to the pool, pool to the file | `Write`, `Land`, `LandFails` |
| the two flushes of FS `write_all` | `FinishFs` |
| S3 `write_all`: fill the temporary file, `ByteStream::from_path`, `put_object` | `WriteTmp`, `WriteTmpFails`, `StartPut`, `PrepareFails`, `PutOk`, `PutFails` |
| the S3 client's retries, the S3 service | `Resend`, `S3Apply`, `S3Drop` |
| `TimeoutLayer`; hyper on a closed connection | `Timeout`, `Disconnect` |

What is external is modelled by how the code uses it: a file opened by several
copies is one inode, written at each handle's own offset (`WriteAt`, a gap reads
as `Hole`); an S3 PUT replaces the object as a whole, at some time between its
sending and never, even after the client was told otherwise; a GET's body is the
object as it was when it was answered, an open file is read live. `End` is what
dropping the future does: the buffer goes and `NamedTempFile` unlinks its path,
jobs of the pool stay.

`snap`, `calm` and `solo` are history variables for properties (`snap` is also
the body of an S3 GET): what the source was when it was opened, whether another
copy changed a file or object this copy relies on, and which copies ran alone.

### AtomicPut

An upload offers one body, which can take effect as a whole or not at all;
success is told only after it took effect; failure tells nothing once a body was
offered, and means no effect before. `Transfer` implements it for its S3
destinations (`UploadRefinement`): `obj` is `s3`, `body` is `upload`, `pending`
is `flying`, `done` is `stored`, and steps at FS destinations stutter. `Crash`
implements it as well: `Kill` is `Abandon`, in which any number of open uploads
fail at once. There is
no such promise for FS destinations, and the violated run `leftover_write` shows why.

### Listing

One client walks the pages: `cursor` is the `startAfter` of its next request,
`phase` says whose turn it is. Requests share nothing but the store, so one walk
is enough; everything else that runs is in `Create` and `Delete`, which may
happen at any time, also between two entries of a directory scan and between two
answers of S3. Names are naturals: both backends order names by their bytes, and
only the order matters. `Exotic` names are those that `validate_path` refuses
(the listing returns them all the same), `Nested` those that are keys with a
slash.

| Code | Actions |
|---|---|
| `list_files` up to its await (pick, limit, cursor check) | `Request` (`Verdict`, `EffectiveLimit`) |
| FS `list`: `read_dir`, `next_entry`, `symlink_metadata` | `Request` (opens), `ScanEntry` |
| FS `list`: end of the loop, sort, filter, take; the handler's reply | `ScanEnd` |
| S3 `list`: one round of its loop, with the reply if it is the last | `S3Answer` |
| any failure, timeout or hang-up in between | `Fails` |

readdir delivers each entry that is there during the whole scan, and may or may
not deliver others; an entry made again may be delivered again. `found` is kept
sorted while it grows (`InsertSorted`), which is the same as sorting it at the
end; `FirstAfter` is where a sorted sequence passes a name, to insert it there or
to skip up to the cursor (`After`). An answer of
S3 holds at most `PageSize` keys after the token (or `start_after`), and at
least one if there are any, in the order of the names (`InNameOrder`).

### Walk

What `ListOptions` and `ListFilesMeta` promise a client, whichever backend
answers: a page holds names after the cursor, in order, of files that were there
while the request ran; a file that was there since the walk began is missing
from it only if it comes after the last name of a full page; a full page has a
next cursor, and no other has one. `Answer` picks any page of this kind; scans,
answers of S3, tokens and due entries do not exist here. `Listing` implements it
(`WalkRefinement`): `files` are the regular files in the root, `status` is
`asked` while a backend scans or pages, and `ScanEntry`, an answer of S3 that is
not the last one, and whatever happens to links, directories and nested keys
stutter.

### Crash

`Kill` ends every handler and empties the blocking pool; the directory, the
temporary files and the PUTs that S3 has received stay. FileFerry writes nothing
down about a copy, so a restart recovers nothing, and a copy that is received
afterwards may be the client's retry. `since` (history) are the copies admitted
since the last kill.

### Paths and FsBackend

A path is the sequence of its segments between slashes, so that empty segments,
a leading slash and a trailing one are kept apart. `Joined` is
`root.join(path)`: an absolute path replaces the root, and `resolve` lets it
pass when it lies below the root. A place in the tree is the names that lead to
it from the root, or from the one directory outside to which links lead; `Depth`
is the most names that a request has below the root. `Taken`, `Named` and `Found`
are the kernel's walk: it follows every link on the way and, with `O_NOFOLLOW` or
`lstat`, not the last one, unless a trailing slash asks for a directory.
`Resolve`, `OpenRead`, `MakeDirs` (a job of the pool, one `mkdir` in a step) and
`OpenWrite` are the code's system calls; `Change` puts anything at any place below
the root in between. A chain of links (a link outside that leads on) is left
out: the walk is outside after the first one.

`OpensWhatItNames` says what the code achieves. The last component is never a
link. A *directory* on the way can be one: `resolve` looks only at the last
component, so behind a linked directory the opened file lies outside of the root
(section 4), and `create_dir_all` may create directories there. A path
such as `d/` escapes `O_NOFOLLOW`, but reaches only directories, which cannot be
read or written (500).

### Pipeline

`Layers` is the stack in order, outermost first; what is answered at some depth
passes through the layers outside of it (`Leave`). `Arrive` is the first poll:
gate, routing, query, content type, everything before the first await. After
that `phase` says what the handler waits for. `Tick` is one second and waits for
timers that are due; a timer that is due does not have to win over bytes that
arrived in the same instant, except for `TimeoutLayer`'s, which is polled before
the handler (`Expired`). `Err` gives status, code and the length of the message,
which `clip_user_message` bounds.

A path that no route matches may be answered 401 or 404 if a token is
configured: which of the two fallbacks `Router::merge` keeps is axum's choice.
`request_timeout_secs: 0`, with which every request that waits is answered 408
at once, is left out.

### TraceIds

The access log draws an id when a request arrives without a valid
`traceparent`, the headers layer draws another one and a span; each draw is two
steps, the clock and `fetch_add`. The access log adds the counter, the headers
combine by XOR. `Drawn` carries the seed: sixteen low bytes of successive
xorshift64 states determine it (the linear map from the seed has rank 64), eight
do not (rank 57), so equal seeds give equal spans and nothing is claimed of the
converse.

What holds: a later request gets another log id than all those answered before
it arrived (`FreshLogIds`), and draws at one clock reading differ
(`SameInstantDiffers`). What does not hold, and is not claimed: requests that
overlap can get the same log id (the later clock reading can take the earlier
counter), and the XOR ids of two requests one after the other can be equal.
Without an inbound `traceparent` the access line and the response name
different ids and cannot be matched.

With a valid one the access log keeps the 32 digits as they came, and the headers
layer puts them in lower case (`Lower`), so there are two ids: `CallersTrace` says
what each of them is. They are equal for a header in lower case and differ for
one with capital letters (section 4).

### Boot

An `Option` is a set with at most one member. A document has the fields that
decide something; `Launch` is the command line and the environment. Server and
doctor each take two steps to their configuration, `Resolve` (which tests the
default file for existence) and `Load` (which reads it), while `Edit` changes the
files. `W1` to `W6` are the preflight conditions; `main` binds 0.0.0.0, so
`Loopback` is false. `ExitCode` is what the caller of doctor sees: 2 stands for a
configuration that `load` refuses and for a report that could not be written
(`refused` and `torn`), so `DoctorAgrees` claims nothing of a server after 2.

### Server

`Bind` to `Exit` are `main`; `Install`, `Signal`, `ShutdownTask` are
`shutdown_signal`, which `axum::serve` polls in a task of its own. Until that
task's first poll a signal has its default action. `CloseListener` and `Notice`
are axum's and hyper's graceful shutdown: the accept loop ends, an idle
connection is closed, one with a request gets its reply first. A handler has an
effect in two parts, writes the audit line, replies, and the access log adds its
line. `lost` (history) is what cut requests that had touched a destination and
have no line.

## 3. Runs

| Run | Configuration | Checks | Shows |
|---|---|---|---|
| `safety` | `TransferSafety` | `TypeOK`, `CapRespected`, `Faithful`, `WholeUpload`, `RefusedChangesNothing`, `BlockedChangesNothing`, `UploadRefinement` | two arbitrary concurrent copies: replies are true, nothing illegal is left behind, uploads are atomic |
| `crash` | `Crash` | `Faithful`, `RetryHeals`, `UploadRefinement` | three copies in a ring (two writers of a file, which a third one uploads over the source of the first) and a SIGKILL anywhere |
| `liveness` | `TransferLiveness` | `CopyLoopEnds`, `TimeoutAnswersAll` | what the inactivity guard ends alone, and what the request timeout ends |
| `fs` | `FsBackend` | `TypeOK`, `KeyRoundTrip`, `OpensWhatItNames` | opens name what they should under races; keys and paths correspond |
| `listing` | `ListingWalk` | `TypeOK`, `StableListedOnce`, `InOrder`, `NothingInvented`, `WalkEnds`, `WalkRefinement` | the walk is complete, without repetition, ordered, real and finite, under changes, and each page is what `Walk` promises |
| `pipeline` | `Pipeline` | `TypeOK`, `GateExact`, `EveryLayerSeesIt`, `FailuresExplained`, `ClocksAgree`, `Answered` | who passes the gate, which clock answers, what each reply carries, and that there is one |
| `trace` | `TraceIds` | `TypeOK`, `FreshLogIds`, `SameInstantDiffers`, `CallersTrace` | which ids can collide, and which name the caller's trace |
| `boot` | `Boot` | `TypeOK`, `NoSilentDowngrade`, `OpenGateAnnounced`, `DoctorAgrees` | what a server that listens runs with, what it has said, and what doctor's exit code says of it |
| `server` | `Server` | `TypeOK`, `DrainRecords`, `SignalsSpareRequests`, `DrainEnds` | what a graceful shutdown spares, records and ends |
| `leftover_write` | violated | `ReplacesPriorObject` | a failed copy's last write lands in a file that a later copy, answered 204, has replaced |
| `temp_leak` | violated | `NoTempLeak` | a handler dropped while `File::create` is queued leaks its temporary file |
| `cursor_refused` | violated | `CursorAccepted` | a `nextCursor` that the service itself refuses |

A violated run states what a comment or document of the repository says; the
counterexample is the disagreement, and PROJECT.json quotes the line under
"findings".

**Bounds.** `safety`: 2 copies, 4 paths (a file, a free path, a link, a refused
path), a cap of 2 blocks, chunks of up to 2, 2 PUT attempts; objects of 0 (none),
2 (at the cap) and 3 (over it) blocks. Two copies give every pairwise
interference: two writers, a writer and a reader of a file, an upload and a
download of an object. `crash` adds the third copy, with fixed requests, since
interference that needs three needs exactly this dependency, and one kill: after
it the process is as after any other. `liveness` and the violated runs use
chunks of one block and one PUT.
`fs`: all paths of up to two segments and all valid ones of three, which name up
to three components below the root (`create_dir_all` then has two directories to
make), 2 changes (one before the check and one before the open, or both between). `listing`: 5 names, 2 changes, limits 0 to 3 (0 is
the default of 1, 3 is over the maximum of 2), 2 keys per answer of S3; so pages
end inside and at the end of answers, answers hold only nested keys, and changes
fall before, at and after the cursor.
`pipeline`: one request (requests share no state there), all methods, paths,
tokens and headers; 3 s for the body against request timeouts of 2, 3 and 5 and
inactivities of 1, 2 and 6, which is every order of the three clocks; texts of 0,
233 (message exactly at the limit), 256 and 100000 characters. `trace`: two
requests, clock up to 3, counters up to 4, one setting back; a collision needs
no more than two draws; two spellings of one id. `boot`: documents and environments that vary one concern
at a time around a full and a bare one, files at all three places, one edit.
`server`: two connections of up to two requests, two signals.

`MaxChanges`, `Attempts` (PUTs outstanding at once), `MaxCrashes`, `MaxClock`,
`MaxDraws`, `MaxSteps`, `MaxEdits`, `MaxRequests` and `MaxSignals` are the only
bounds put on counters. `Symmetry` permutes copies, which are alike, and is used
only in safety runs with free requests. The runs set `CHECK_DEADLOCK FALSE`: a
behaviour has a finite number of requests, and stops when all are answered.

**Fairness.** `Transfer!LiveSpec` is weakly fair to what the process runs itself
(`Driver`), to the blocking pool (`Pool`) and to the inactivity timer (`Stall`):
tokio polls what is ready. Nobody is obliged to deliver a byte and S3 owes no
answer. `TimeoutAnswersAll` adds fairness of `Timeout`, which is the timer of
`TimeoutLayer`. `Listing!FairSpec` assumes that the client goes on, scans run on
and S3 answers; `WalkEnds` assumes in addition that failures cease. `Pipeline`
assumes that what arrived is polled, that timers fire and that time goes on; no
client and no backend owes anything. `Server` assumes that tokio polls its
tasks, that a handler ends (`Pipeline!Answered`) and that a client which began
the head of a request completes it or leaves: the code has no timeout there, and
without this assumption the drain does not end before SIGKILL.

## 4. Where code and documents differ

Three have a violated run, whose counterexample shows the disagreement:

* `backend/mod.rs:56` has `write_all` replace any prior object: the last write of
  a copy that failed can land in the file after that (`leftover_write`).
* `backend/s3.rs:230` has `NamedTempFile` unlink on drop: `File::create` can make
  the file again afterwards (`temp_leak`).
* `model.rs:41` tells clients to go on with `nextCursor`: `validate_path` refuses
  some of them (`cursor_refused`).

The others were met while modelling. The specifications do what the code does,
and the properties claim no more than that:

* `SECURITY.md:95-98` has symbolic links refused outright, so that operators "do
  not need to sanitise the data directory", and `backend/fs.rs:13-17` roots every
  operation and rejects what escapes. The root is compared by text, and only the
  last component is checked: behind a linked directory files outside of the root
  are read, created and truncated, and directories made (`Linked` and the second
  disjunct of `OpensWhatItNames`).
* `validate.rs:8-9` has redundant slashes refused. Empty segments pass (`Valid`):
  `a//b` opens the file `a/b`, and a leading or a trailing slash passes as well.
* `README.md:106-108` has doctor exit with 2 for an invalid configuration. It also
  does when its report cannot be written (`ExitCode`, `torn`), and the server
  then starts: `DoctorAgrees` claims nothing after 2.
* `trace_headers.rs:5` has the same trace id echoed, to correlate logs. It is
  echoed in lower case (`trace_headers.rs:48`), while the access line keeps it as
  it came (`access_log.rs:64`): with capital letters in the header the two differ,
  and the caller's own differs from the response (`Lower`, `CallersTrace`).
* `backend/mod.rs:35` wants every method safe to call concurrently: two copies
  to one file can both be answered 204 and leave a mixture of their sources
  (`OpenWriteFs`, `Land`; `Faithful` therefore excludes disturbed copies).
* A file is read live while it is uploaded: if another copy truncates or rewrites
  it meanwhile, the object is a part of it or a mixture, and the upload is still
  answered 204 (`Read`; `Faithful` and `WholeUpload` claim the whole source only
  of undisturbed copies).
* `book/src/failure-modes.md:16` has the same JSON envelope on every 4xx and
  5xx: the 408 of `TimeoutLayer`, 405, the 404 of an unknown path and of a
  disabled `/api` have none (`Bare` in `Pipeline`).
* `book/src/failure-modes.md:34,36`: a network failure of an S3 source during
  the copy is 500 `io_error`, not 502 (`source_failed` in `Transfer`).
* `SECURITY.md:104` has a stalled peer abort within the inactivity budget: the
  guard covers reads, not `open_read` of S3 or `put_object` (`Failures` and
  `Tick` in `Pipeline`).
* `backend/fs.rs:87` speaks of a hard cap on what `list` collects: it collects
  the directory and cuts afterwards (`ScanEntry`).
* `backend/s3.rs:229-232`: the comment has `tmp.close()` surface errors; its
  result is discarded.
* `backend/s3.rs:57-61`: `key` inserts the slash that the comment denies.
* `model.rs:42` has `nextCursor` absent on the tail: a last page that is full
  carries one. The next page is then empty, which does no harm.
* `book/src/failure-modes.md:140` has the audit line carry a `trace_id`;
  `stream_copy` logs none.

## 5. Proofs

Every theorem is for all values of the constants that satisfy the named
assumptions of its module, which TLC evaluates in the runs.

### Transfer (`ConstantsAssumption`, `InitialStores`)

Any set of copies, paths and blocks, even infinite, any cap, chunk size, number
of PUTs and initial stores.

* `TypeCorrect` (`Spec => []TypeOK`). `TypeOK` is not inductive: a write of the
  pool keeps a file a file only if there is a file. `Files` adds that the source
  of an open copy, the destination of a copy that writes and the temporary file
  of an upload hold content. `WriteAtContent` and `ContentClosed` are the facts
  on sequences.
* `CapCorrect` (`Spec => []CapRespected`). Not inductive either: blocks in the
  buffers are on their way to a sink, and a write of a dropped handler lands
  later. `CapInv` adds, per copy, that what is in the file up to its offset, in
  the pool and in the buffer together is at most the counter and the cap, the
  same for the temporary file, and that every file open for writing is within
  the cap, whatever its initial content was. The last part is what makes two
  writers of one file harmless to the cap: `WriteAt` never makes a file longer
  than the longer of the two.
* `UploadsAtomic` (`Spec => UploadRefinement`). Each
  step is mapped: `StartPut` offers, `Resend` offers again, `S3Apply` and
  `S3Drop` apply and lose, `PutOk` succeeds, a failure of a copy into S3 gives
  up, all else stutters. It needs `Uploads` (a body is offered exactly from
  `put_object` on, and only by a copy into S3), the types, since a temporary
  file must be content to be uploaded, and `CapInv`, since `AtomicPut` admits
  only bodies within the cap.
* `PromisedObjects` (`UploadRefinement => []ObjectsTraceable`) says what that is
  worth: every object is the one from the start or a body that some copy offered
  for its key, unaltered, and 204 is told only of a body that took effect. The
  proof speaks of `AtomicPut`'s actions alone; its invariant `PutInv` adds that
  only a body that was offered can be pending or done. `ObjectsOfCopies` is the
  same for `Transfer`, by the refinement.
* `FaithfulCorrect` and `WholeUploadCorrect`. A reply is about the past, so the invariant `FaithInv` follows the blocks: for a calm
  copy into the directory, file, pool and buffer joined are the first `counter`
  blocks of `snap` (`FileSink`), for one into S3 the temporary file and the
  buffer are (`TmpSink`); at the end of the source these are all of it
  (`Progress`), so what is uploaded is the source (`PutKept`). `WriteAtEnd` is
  the fact it turns on: a write at the end of a file appends. Other copies meet
  a calm copy only through stores that they may not touch without ending its
  calm, which is one lemma (`OtherSound`) for all of their steps.
* `RefusalCorrect` and `BlockedCorrect`. `MarkInv`: only a copy that has opened
  its destination, and so can no longer be answered as refused (`Marked`), has
  work in the pool or at S3, and a store that changed has such a copy to show
  for it. `BlockInv`: without a live S3 no copy gets further than its open
  source.

### Crash (`CrashAssumption` and those of Transfer)

`CrashInv` joins the invariants above; what is left to prove is that `Kill`
keeps each of them. `CapAcrossCrashes`, `FaithfulAcrossCrashes`,
`WholeUploadAcrossCrashes`, `RefusalAcrossCrashes`, `BlockedAcrossCrashes` and
`TypesAcrossCrashes` follow for any number of kills, and
`UploadsAtomicAcrossCrashes` maps `Kill` to `AtomicPut`'s `Abandon`, from which
`ObjectsAcrossCrashes` follows as `ObjectsOfCopies` does. `RetryCorrect`
(`CrashSpec => []RetryHeals`) needs an invariant of its own, `HealInv`: after a
crash no job of the old process is left in the pool, so the only writer of the
retried file is the retry, nobody ends its calm, and `Faithful` applies to it.

### Server (`ServerAssumption`)

`TypeOK` is not inductive for the count of requests; `Room` adds that a request
whose head is arriving still fits. `DrainCorrect` follows from `DrainInv`: the
order of `installed`, `caught` and `told`, that a process which a signal has
ended had no handlers, and for each connection that a request under way has no
reply yet and an audit line only when its destination is whole (`Recorded`).
`SignalsCorrect` is the action property from the same invariant.

### Pipeline (`PipelineAssumption`)

`Inv` says of a request that waits what the layers have already decided about it
(`Admitted`: past the gate only if the gate lets it; `Clocks`: no timer is
overdue) and of one that is answered what its reply is (`Settled`, `Sound`:
which gate or clock it can have come from). Each action
ends in `Wire`, which the lemma `Stack` derives from the order of `Layers`, so
the five theorems share one proof per action. `Table` and `ClipBounds` are the
facts on `FerryError` and `clip_user_message`.

### TraceIds (`TraceAssumption`, `MixAssumption`)

* `FreshCorrect`: `DrawInv` gives every request a `Floor`: what it has drawn, or
  what it will draw at least, which is its clock reading (or the clock, before
  it reads) plus the counter. While the clock is not set back all draws so far
  are below clock plus counter, so a request that arrives has a floor above all
  answered ones, and keeps it because the counter only grows. It does not use
  `MixAssumption`.
* `InstantCorrect`: every seed was mixed with a counter value below the present
  one (`Below`), and two mixes of one clock reading with different counters
  differ. The last is `MixAssumption`, all that is assumed of exclusive or, which
  TLC evaluates with the real one (`Bitwise`).
* `CallersTraceCorrect` and `TraceTypes`: `Stages` says which ids a request has at
  each stage, and where they come from. `LowerAssumption` is used for the types
  only: an id in lower case is an id.

### Boot (`InputsAreTyped`)

A process's configuration is a function of the path it resolved, the text it
found there and the environment (`Configured`, `Loaded`), whatever `Edit` does
afterwards; warnings and backend are functions of the configuration (`Reported`,
`Connected`). `OneConfig` and `RunningIs` say so of a process that is past
`load`; the three properties are consequences. `VerdictCorrect` is about exit
codes: doctor's 0 and 1 and the server's refusal each determine the other side,
and 2 does not.

### Listing (`ListingAssumption`)

Any finite set of names, any limits and page sizes, and any number of changes
to the store. The four invariants follow from `ListingInv`, whose parts are:

* `PagesInv`: until the walk ends, the pages hold no name after the cursor, and
  every file that stays up to there (`Covers`); in order, and nothing that stays
  twice (`Tidy`).
* `ScanInv`: during a directory scan each file that stays is either still due or
  collected, and once it is collected `readdir` does not deliver it again. So at
  the end of the directory the collection is complete.
* `PageInv`: between two answers of S3 what is out covers the names from the
  cursor to the token, and is shorter than the limit.

A reply is a `Page`: at most the limit of names after the cursor, and none that
stays is missing up to its last one if it is full, or at all if it is not.
`JoinedPage` shows what such a page adds to the pages before it, so that the two
backends have only to show that they make one (`ScanEndPage`, `S3AnswerPage`).
Changes by others keep everything, because what goes no longer stays and what
comes has not stayed (`ChangeKeeps`). The facts on sequences (`FirstAfterIs`,
`Inserted`, `AfterIs`, `TakeIs`, `JoinedIs`) say what inserting, skipping,
taking and joining do to an ordered sequence.

`PagesAsPromised` (`Spec => WalkRefinement`) maps each step to one of `Walk` or
to a stutter. A page of either backend is a `PageReply`, which `PagePromised`
turns into what `Answer` asks of a page; the names in it were seen during the
request (`StoreInv`). `PromiseSuffices` (`Promise!Spec => [](StableListedOnce /\
InOrder)`) is the converse: `Walk` is strong enough for a client, with an
invariant (`PromiseInv`) that speaks of no backend and rests on `JoinedPage`.

### FsBackend and Paths (`PathsAssumption`, `FsAssumption`)

Any set of names, any data directory, any changes by other programs; paths of
any length, with any number (`Depth`) of components below the root.

* `OpensCorrect` (`Spec => OpensWhatItNames`). `FsInv` keeps what `resolve` has
  checked of the path, and nothing of what it saw in the directory, since that
  may have changed; `FoundIs` derives from the open itself that what it found is
  at the place that the path names. `TakenIs` is the walk (directories up to where
  it stops, by a least number), and `NamedIs` says when that place lies outside:
  exactly behind the first component that is a linked directory.
* `KeysLeadBack` (`Spec => []KeyRoundTrip`). `StripUndoesKey` holds for every
  prefix and every path that are not empty, whatever is in their segments, and
  `KeysDiffer` follows: different paths have different keys.
* `FsTypes` needs that the components of a valid path are names
  (`ComponentsAre`). `Components` is a recursive function over the segments; that
  it exists, and what its values are, is shown by a least counterexample.

### What stays with TLC

Liveness (`CopyLoopEnds`, `TimeoutAnswersAll`, `WalkEnds`, `Answered`,
`DrainEnds`): fairness and ENABLED are out of the prover's reach. Every other
property of a passing run is a theorem: every safety invariant, every action
property and both refinements. The library's induction theorems cannot be
instantiated here; where a proof needs induction it goes by a least
counterexample, from the well-foundedness of `<` (`Least`). `WholeUpload` and the invariants other than `Faithful` and `RetryHeals` are
checked in the run `safety` and proved with kills as well. The violated
runs are counterexamples and stay what they are.

## 6. Not modelled, and the plan

Left out for good: the wording of messages and log lines, path hashes, sizes
and times of list entries, the constant values of the security headers, the
layout of doctor's report, the constant-time comparison of tokens, port and
bucket names, names that are not UTF-8 (`to_string_lossy` may map two files to
one name), `diagnose.rs` (its table is empty) and `lib.rs`. A temporary file
that cannot be removed leaks without any interleaving, and is noted in section 4.

What would carry the project further:

1. **Pipeline and Server**: an abstract request that `Pipeline` implements and
   `Server` is built on. That a handler ends is shown by the run `pipeline` and
   assumed by the fairness of `Server`; the two are joined in words only.
2. **FsBackend in Transfer**: `Transfer` opens a file in one step, `FsBackend`
   in several, against directories that change. Composed, copies would race with
   other programs as well as with each other.
