------------------------------ MODULE Transfer ------------------------------
(***************************************************************************)
(* Concurrent POST /v1/files/copy requests over the two storage backends:  *)
(* copy_file (router.rs), stream_copy and LimitedReader (backend/mod.rs),  *)
(* open_read / write_all of the FS, S3 and offline backends, and the parts *)
(* of tokio, the operating system and S3 they rest on.                     *)
(*                                                                         *)
(* A handler is a future: it can be dropped at every await, by the request *)
(* timeout or by a client that hangs up.  Work it handed to tokio's        *)
(* blocking pool (a file write, a file creation) or to S3 (a PUT) is not   *)
(* undone by that, and may take effect after the reply.                    *)
(***************************************************************************)
EXTENDS Naturals, Sequences

CONSTANTS
    Copies,      \* the copy requests of a behaviour
    Paths,       \* the paths requests may name, in either backend
    Invalid,     \* the paths among them that validate_path refuses
    Block,       \* the units of file content
    Hole,        \* what a file holds where nobody wrote (a sparse gap)
    Absent,      \* no file, object, temporary file or upload
    Link,        \* an entry resolve refuses: a symbolic link, or what an
                 \* absolute path names, outside of the root
    MaxBytes,    \* limits.max_response_bytes, in blocks
    BufSize,     \* the buffer of tokio::io::copy, in blocks
    Attempts,    \* PUT requests the S3 client may send for one upload
    FsInit,      \* the data directory at the start
    S3Init       \* the bucket at the start

Data     == Block \cup {Hole}
Content  == Seq(Data)
FsEntry  == Content \cup {Absent, Link}
Object   == Content \cup {Absent}
Store    == {"FS", "S3"}
Request  == [src : Store, from : Paths, dst : Store, to : Paths]

ASSUME ConstantsAssumption ==
    /\ Invalid \subseteq Paths
    /\ Hole \notin Block
    /\ Absent \notin Content /\ Link \notin Content /\ Absent # Link
    /\ MaxBytes \in Nat
    /\ BufSize \in Nat \ {0}
    /\ Attempts \in Nat \ {0}

ASSUME InitialStores ==
    /\ FsInit \in [Paths -> FsEntry]
    /\ S3Init \in [Paths -> Object]

-----------------------------------------------------------------------------
(* The stages of a handler.                                                *)

Stage == {"received",    \* the request is parsed
          "opening",     \* stream_copy: awaiting src.open_read
          "opened",      \* the source is open, dst.write_all begins
          "creating",    \* S3 write_all: awaiting File::create on the temp path
          "copying",     \* in tokio::io::copy
          "flushing",    \* io::copy saw the end of the source
          "putting"}     \* S3 write_all: awaiting put_object

(* How it ends: what the client is told, by FerryError::status and code    *)
(* (error.rs).  An empty code is a reply without the JSON envelope; status *)
(* 0 is no reply at all.                                                   *)
Answer(status, code) == [status |-> status, code |-> code]
Reply ==
  [ copied        |-> Answer(204, ""),
    same_type     |-> Answer(400, "same_storage_type"),
    invalid_path  |-> Answer(400, "invalid_path"),
    no_backend    |-> Answer(503, "backend_not_configured"),
    missing       |-> Answer(404, "not_found"),
    symlink       |-> Answer(400, "invalid_path"),
    upstream      |-> Answer(502, "upstream_error"),
    open_failed   |-> Answer(500, "io_error"),
    too_large     |-> Answer(500, "io_error"),   \* LimitedReader: io::Error::other
    stalled       |-> Answer(500, "io_error"),   \* TimeoutReader: io::ErrorKind::TimedOut
    source_failed |-> Answer(500, "io_error"),
    sink_failed   |-> Answer(500, "io_error"),
    timeout       |-> Answer(408, ""),           \* TimeoutLayer's empty body
    disconnected  |-> Answer(0, "") ]
Outcome == DOMAIN Reply

VARIABLES
    fs,        \* the data directory
    s3,        \* the bucket, under bucket_path
    s3kind,    \* Backends.s3 since boot: "live", "offline" (stub) or "none"
    req,       \* the request of each copy
    pc,        \* its stage, then its outcome
    snap,      \* the source at open_read: the body of the S3 GET; for an FS
               \* source a history variable
    counter,   \* blocks taken from the source: LimitedReader.counter
    buf,       \* read by io::copy, not yet given to the sink
    sent,      \* FS sink: a write in the blocking pool, not yet in the file
    off,       \* FS sink: the offset of the open file
    tmp,       \* S3 sink: the temporary file, or Absent
    making,    \* S3 sink: a File::create of it is in the blocking pool
    upload,    \* the body given to put_object, or Absent
    flying,    \* PUT requests of it that S3 has neither applied nor dropped
    stored,    \* S3 applied one of them
    calm,      \* history: no other copy wrote the source while this one read
               \* it, nor the destination since this one opened it
    solo       \* history: copies admitted when no other was running, and
               \* with none admitted since

stores   == <<fs, s3, s3kind>>
reading  == <<snap, counter, buf>>
fileSink == <<sent, off>>
tmpSink  == <<tmp, making>>
putSink  == <<upload, flying, stored>>
vars == <<stores, req, pc, reading, fileSink, tmpSink, putSink, calm, solo>>

-----------------------------------------------------------------------------
Running(c) == pc[c] \in Stage
Draining(c) == pc[c] \in {"copying", "flushing"}
FromFs(c) == req[c].src = "FS"
ToFs(c)   == req[c].dst = "FS"

(* What the open source yields: an open file is read live, an S3 body is   *)
(* the object as it was when the GET was answered.                         *)
Source(c) == IF FromFs(c) THEN fs[req[c].from] ELSE snap[c]
Dest(c)   == IF ToFs(c) THEN fs[req[c].to] ELSE s3[req[c].to]

(* pwrite: content s with b written at offset o, a gap reads as Hole.      *)
WriteAt(s, o, b) ==
    [i \in 1..(IF o + Len(b) > Len(s) THEN o + Len(b) ELSE Len(s)) |->
        IF i > o /\ i <= o + Len(b) THEN b[i - o]
        ELSE IF i <= Len(s) THEN s[i] ELSE Hole]

(* The copies other than d that a change d makes to file p can mislead.    *)
FileUsers(p, d) ==
    {e \in Copies \ {d} :
        \/ /\ FromFs(e) /\ req[e].from = p
           /\ Running(e) /\ pc[e] \notin {"received", "opening"}
        \/ /\ ToFs(e) /\ req[e].to = p
           /\ pc[e] \notin {"received", "opening", "opened"}}
(* The same for an object: those whose upload it replaces.                 *)
ObjectUsers(p, d) ==
    {e \in Copies \ {d} : ~ToFs(e) /\ req[e].to = p /\ stored[e]}
(* OfflineBackend stands in for the bucket: FILEFERRY_OFFLINE at boot.     *)
Offline == s3kind = "offline"

(* FsBackend::resolve looks at the final component without following it;   *)
(* O_NOFOLLOW makes the open that comes after do the same.                 *)
IsLink(path) == fs[path] = Link

Disturb(users) == calm' = [e \in Copies |-> calm[e] /\ e \notin users]

Init ==
    /\ fs = FsInit /\ s3 = S3Init
    /\ s3kind \in {"live", "offline", "none"}
    /\ req \in [Copies -> Request]
    /\ pc = [c \in Copies |-> "received"]
    /\ snap = [c \in Copies |-> <<>>]
    /\ counter = [c \in Copies |-> 0]
    /\ buf = [c \in Copies |-> <<>>]
    /\ sent = [c \in Copies |-> <<>>]
    /\ off = [c \in Copies |-> 0]
    /\ tmp = [c \in Copies |-> Absent]
    /\ making = [c \in Copies |-> FALSE]
    /\ upload = [c \in Copies |-> Absent]
    /\ flying = [c \in Copies |-> 0]
    /\ stored = [c \in Copies |-> FALSE]
    /\ calm = [c \in Copies |-> TRUE]
    /\ solo = {}

(* The handler returns or is dropped: its buffer goes, NamedTempFile       *)
(* unlinks the temporary file; jobs of the pool and PUTs in flight stay.   *)
End(c, outcome) ==
    /\ pc' = [pc EXCEPT ![c] = outcome]
    /\ buf' = [buf EXCEPT ![c] = <<>>]
    /\ tmp' = [tmp EXCEPT ![c] = Absent]

(* End, and nothing else happens in the step.                              *)
Conclude(c, outcome) ==
    /\ End(c, outcome)
    /\ UNCHANGED <<stores, req, snap, counter, fileSink, making, putSink,
                   calm, solo>>

-----------------------------------------------------------------------------
(* An operator X_Something is X with a plausible bug.  Nothing uses it:    *)
(* PROJECT.json pairs each with the property that finds it.                *)

(* copy_file up to its first await.                                        *)
Verdict_NoPick(r) ==
    IF r.src = r.dst THEN "same_type"
    ELSE IF {r.from, r.to} \cap Invalid # {} THEN "invalid_path"
    ELSE "opening"

Verdict(r) ==
    IF r.src = r.dst THEN "same_type"
    ELSE IF {r.from, r.to} \cap Invalid # {} THEN "invalid_path"
    ELSE IF s3kind = "none" THEN "no_backend"     \* one side is S3
    ELSE "opening"

Admit(c) ==
    /\ pc[c] = "received"
    /\ pc' = [pc EXCEPT ![c] = Verdict(req[c])]
    /\ solo' = IF \A e \in Copies : Running(e) => pc[e] = "received"
               THEN {c} ELSE {}
    /\ UNCHANGED <<stores, req, reading, fileSink, tmpSink, putSink, calm>>

(* src.open_read: the file, or the GET and the headers of its answer.      *)
Opened(c, content) ==
    /\ snap' = [snap EXCEPT ![c] = content]
    /\ pc' = [pc EXCEPT ![c] = "opened"]
    /\ UNCHANGED <<stores, req, counter, buf, fileSink, tmpSink, putSink,
                   calm, solo>>

OpenReadFs(c) ==
    LET file == fs[req[c].from] IN
    /\ pc[c] = "opening" /\ FromFs(c)
    /\ \/ IsLink(req[c].from) /\ Conclude(c, "symlink")
       \/ file = Absent /\ Conclude(c, "missing")
       \/ Conclude(c, "open_failed")
       \/ file # Absent /\ ~IsLink(req[c].from) /\ Opened(c, file)

OpenReadS3_TruncatesFirst(c) ==
    LET object == s3[req[c].from] IN
    /\ pc[c] = "opening" /\ ~FromFs(c)
    /\ \/ object # Absent /\ Opened(c, object)
       \/ /\ object = Absent /\ ~IsLink(req[c].to)
          /\ fs' = [fs EXCEPT ![req[c].to] = <<>>]
          /\ End(c, "missing")
          /\ UNCHANGED <<s3, s3kind, req, snap, counter, fileSink, making, putSink,
                         calm, solo>>

OpenReadS3_NoSuchKeyOpens(c) ==
    LET object == s3[req[c].from] IN
    /\ pc[c] = "opening" /\ ~FromFs(c)
    /\ \/ Conclude(c, "upstream")
       \/ s3kind = "live" /\ Opened(c, object)

OpenReadS3(c) ==
    LET object == s3[req[c].from] IN
    /\ pc[c] = "opening" /\ ~FromFs(c)
    /\ \/ Conclude(c, "upstream")
       \/ /\ s3kind = "live"
          /\ \/ object = Absent /\ Conclude(c, "missing")
             \/ object # Absent /\ Opened(c, object)

(* FS write_all up to io::copy: the destination is created or truncated.   *)
OpenWriteFs(c) ==
    LET p == req[c].to IN
    /\ pc[c] = "opened" /\ ToFs(c)
    /\ \/ IsLink(p) /\ Conclude(c, "symlink")
       \/ Conclude(c, "open_failed")
       \/ /\ ~IsLink(p)
          /\ fs' = [fs EXCEPT ![p] = <<>>]
          /\ pc' = [pc EXCEPT ![c] = "copying"]
          /\ Disturb(FileUsers(p, c))
          /\ UNCHANGED <<s3, s3kind, req, reading, fileSink, tmpSink, putSink, solo>>

(* S3 write_all: NamedTempFile::new creates the temporary file, and        *)
(* File::create, a job of the blocking pool, opens it once more.           *)
OpenTmp(c) ==
    /\ pc[c] = "opened" /\ ~ToFs(c)
    /\ \/ Offline /\ Conclude(c, "upstream")
       \/ ~Offline /\ Conclude(c, "open_failed")
       \/ /\ ~Offline
          /\ tmp' = [tmp EXCEPT ![c] = <<>>]
          /\ making' = [making EXCEPT ![c] = TRUE]
          /\ pc' = [pc EXCEPT ![c] = "creating"]
          /\ UNCHANGED <<stores, req, reading, fileSink, putSink, calm, solo>>

(* The job runs; if the handler is gone the file is already unlinked, and  *)
(* the job creates it anew.                                                *)
CreateTmp(c) ==
    /\ making[c]
    /\ making' = [making EXCEPT ![c] = FALSE]
    /\ tmp' = [tmp EXCEPT ![c] = <<>>]
    /\ pc' = [pc EXCEPT ![c] = IF @ = "creating" THEN "copying" ELSE @]
    /\ UNCHANGED <<stores, req, reading, fileSink, putSink, calm, solo>>

CreateTmpFails(c) ==
    /\ making[c]
    /\ making' = [making EXCEPT ![c] = FALSE]
    /\ IF pc[c] = "creating" THEN End(c, "open_failed")
       ELSE UNCHANGED <<pc, buf, tmp>>
    /\ UNCHANGED <<stores, req, snap, counter, fileSink, putSink, calm, solo>>

(* One poll of the reader by io::copy, through LimitedReader, which drops  *)
(* the whole chunk that goes over the cap.                                 *)
Wants(c) == pc[c] = "copying" /\ Len(buf[c]) < BufSize

Read_ChecksBeforeAdding(c) ==
    \E n \in 1..(BufSize - Len(buf[c])) :
        /\ Wants(c)
        /\ counter[c] + n <= Len(Source(c))
        /\ counter' = [counter EXCEPT ![c] = @ + n]
        /\ IF counter[c] > MaxBytes THEN End(c, "too_large")
           ELSE /\ buf' = [buf EXCEPT ![c] = @ \o
                             SubSeq(Source(c), counter[c] + 1, counter[c] + n)]
                /\ UNCHANGED <<pc, tmp>>
        /\ UNCHANGED <<stores, req, snap, fileSink, making, putSink, calm,
                       solo>>

Read(c) ==
    \E n \in 1..(BufSize - Len(buf[c])) :
        /\ Wants(c)
        /\ counter[c] + n <= Len(Source(c))
        /\ counter' = [counter EXCEPT ![c] = @ + n]
        /\ IF counter[c] + n > MaxBytes THEN End(c, "too_large")
           ELSE /\ buf' = [buf EXCEPT ![c] = @ \o
                             SubSeq(Source(c), counter[c] + 1, counter[c] + n)]
                /\ UNCHANGED <<pc, tmp>>
        /\ UNCHANGED <<stores, req, snap, fileSink, making, putSink, calm,
                       solo>>

ReadEof(c) ==
    /\ Wants(c)
    /\ counter[c] >= Len(Source(c))
    /\ pc' = [pc EXCEPT ![c] = "flushing"]
    /\ UNCHANGED <<stores, req, reading, fileSink, tmpSink, putSink, calm,
                   solo>>

ReadFails(c) == Wants(c) /\ Conclude(c, "source_failed")

(* TimeoutReader: no byte for copy_inactivity_secs.                        *)
Stall_FirstByteOnly(c) ==
    Wants(c) /\ counter[c] = 0 /\ Conclude(c, "stalled")

Stall(c) == Wants(c) /\ Conclude(c, "stalled")

(* The file sink takes the buffer once its previous write is done.         *)
Write_DropsPending(c) ==
    /\ Draining(c) /\ ToFs(c)
    /\ buf[c] # <<>>
    /\ sent' = [sent EXCEPT ![c] = buf[c]]
    /\ buf' = [buf EXCEPT ![c] = <<>>]
    /\ UNCHANGED <<stores, req, pc, snap, counter, off, tmpSink, putSink,
                   calm, solo>>

Write(c) ==
    /\ Draining(c) /\ ToFs(c)
    /\ buf[c] # <<>> /\ sent[c] = <<>>
    /\ sent' = [sent EXCEPT ![c] = buf[c]]
    /\ buf' = [buf EXCEPT ![c] = <<>>]
    /\ UNCHANGED <<stores, req, pc, snap, counter, off, tmpSink, putSink,
                   calm, solo>>

(* The pool performs the write, or n blocks of it before it fails; the     *)
(* handler, if there is one, sees the failure at its next write or flush.  *)
PutDown(c, n) ==
    LET p == req[c].to IN
    /\ fs' = [fs EXCEPT ![p] = WriteAt(@, off[c], SubSeq(sent[c], 1, n))]
    /\ off' = [off EXCEPT ![c] = @ + n]
    /\ sent' = [sent EXCEPT ![c] = <<>>]
    /\ Disturb(FileUsers(p, c))
    /\ UNCHANGED <<s3, s3kind, req, snap, counter, making, putSink, solo>>

Land(c) ==
    /\ sent[c] # <<>>
    /\ PutDown(c, Len(sent[c]))
    /\ UNCHANGED <<pc, buf, tmp>>

LandFails(c) ==
    \E n \in 0..(Len(sent[c]) - 1) :
        /\ PutDown(c, n)
        /\ IF Running(c) THEN End(c, "sink_failed") ELSE UNCHANGED <<pc, buf, tmp>>

(* io::copy's and write_all's flush: nothing is left in the pool.          *)
FinishFs_NoFlush(c) ==
    /\ pc[c] = "flushing" /\ ToFs(c)
    /\ buf[c] = <<>>
    /\ Conclude(c, "copied")

FinishFs(c) ==
    /\ pc[c] = "flushing" /\ ToFs(c)
    /\ buf[c] = <<>> /\ sent[c] = <<>>
    /\ Conclude(c, "copied")

WriteTmp(c) ==
    /\ Draining(c) /\ ~ToFs(c)
    /\ buf[c] # <<>>
    /\ tmp' = [tmp EXCEPT ![c] = @ \o buf[c]]
    /\ buf' = [buf EXCEPT ![c] = <<>>]
    /\ UNCHANGED <<stores, req, pc, snap, counter, fileSink, making, putSink,
                   calm, solo>>

WriteTmpFails(c) ==
    /\ Draining(c) /\ ~ToFs(c)
    /\ buf[c] # <<>>
    /\ Conclude(c, "sink_failed")

(* ByteStream over the complete temporary file, then put_object.           *)
StartPut_NoEof(c) ==
    /\ Draining(c) /\ ~ToFs(c)
    /\ buf[c] = <<>>
    /\ upload' = [upload EXCEPT ![c] = tmp[c]]
    /\ flying' = [flying EXCEPT ![c] = 1]
    /\ pc' = [pc EXCEPT ![c] = "putting"]
    /\ UNCHANGED <<stores, req, reading, fileSink, tmpSink, stored, calm, solo>>

StartPut(c) ==
    /\ pc[c] = "flushing" /\ ~ToFs(c)
    /\ buf[c] = <<>>
    /\ upload' = [upload EXCEPT ![c] = tmp[c]]
    /\ flying' = [flying EXCEPT ![c] = 1]
    /\ pc' = [pc EXCEPT ![c] = "putting"]
    /\ UNCHANGED <<stores, req, reading, fileSink, tmpSink, stored, calm, solo>>

PrepareFails(c) ==
    /\ pc[c] = "flushing" /\ ~ToFs(c)
    /\ buf[c] = <<>>
    /\ Conclude(c, "upstream")

(* The S3 client gives up on a request and sends it again.                 *)
Resend(c) ==
    /\ pc[c] = "putting"
    /\ flying[c] < Attempts
    /\ flying' = [flying EXCEPT ![c] = @ + 1]
    /\ UNCHANGED <<stores, req, pc, reading, fileSink, tmpSink, upload, stored,
                   calm, solo>>

(* S3: a PUT replaces the object as a whole, or comes to nothing.  Neither *)
(* waits for a handler that has gone.                                      *)
S3Apply(c) ==
    LET p == req[c].to IN
    /\ flying[c] > 0
    /\ flying' = [flying EXCEPT ![c] = @ - 1]
    /\ s3' = [s3 EXCEPT ![p] = upload[c]]
    /\ stored' = [stored EXCEPT ![c] = TRUE]
    /\ Disturb(ObjectUsers(p, c))
    /\ UNCHANGED <<fs, s3kind, req, pc, reading, fileSink, tmpSink, upload, solo>>

S3Drop(c) ==
    /\ flying[c] > 0
    /\ flying' = [flying EXCEPT ![c] = @ - 1]
    /\ UNCHANGED <<stores, req, pc, reading, fileSink, tmpSink, upload, stored,
                   calm, solo>>

PutOk_Unconfirmed(c) == pc[c] = "putting" /\ Conclude(c, "copied")

PutOk(c)    == pc[c] = "putting" /\ stored[c] /\ Conclude(c, "copied")
PutFails(c) == pc[c] = "putting" /\ Conclude(c, "upstream")

(* TimeoutLayer drops the handler; hyper drops it when the client leaves.  *)
Timeout_CopyLoopOnly(c) == Draining(c) /\ Conclude(c, "timeout")

Timeout(c)    == Running(c) /\ Conclude(c, "timeout")
Disconnect(c) == Running(c) /\ Conclude(c, "disconnected")

Next == \E c \in Copies :
    \/ Admit(c)
    \/ OpenReadFs(c) \/ OpenReadS3(c)
    \/ OpenWriteFs(c) \/ OpenTmp(c) \/ CreateTmp(c) \/ CreateTmpFails(c)
    \/ Read(c) \/ ReadEof(c) \/ ReadFails(c) \/ Stall(c)
    \/ Write(c) \/ Land(c) \/ LandFails(c) \/ FinishFs(c)
    \/ WriteTmp(c) \/ WriteTmpFails(c) \/ StartPut(c) \/ PrepareFails(c)
    \/ Resend(c) \/ S3Apply(c) \/ S3Drop(c) \/ PutOk(c) \/ PutFails(c)
    \/ Timeout(c) \/ Disconnect(c)

Spec == Init /\ [][Next]_vars

-----------------------------------------------------------------------------
(* Properties.                                                             *)

TypeOK ==
    /\ fs \in [Paths -> FsEntry]
    /\ s3 \in [Paths -> Object]
    /\ s3kind \in {"live", "offline", "none"}
    /\ req \in [Copies -> Request]
    /\ pc \in [Copies -> Stage \cup Outcome]
    /\ snap \in [Copies -> Content]
    /\ counter \in [Copies -> Nat]
    /\ buf \in [Copies -> Content]
    /\ sent \in [Copies -> Content]
    /\ off \in [Copies -> Nat]
    /\ tmp \in [Copies -> Object]
    /\ making \in [Copies -> BOOLEAN]
    /\ upload \in [Copies -> Object]
    /\ flying \in [Copies -> 0..Attempts]
    /\ stored \in [Copies -> BOOLEAN]
    /\ calm \in [Copies -> BOOLEAN]
    /\ solo \in SUBSET Copies

(* LimitedReader's cap is a cap on what a copy can leave behind, whatever  *)
(* copies run together and however they end: a file, object or temporary   *)
(* file that was not there at the start never exceeds MaxBytes.            *)
CapRespected ==
    /\ \A p \in Paths :
        /\ fs[p] \notin {FsInit[p], Absent, Link} => Len(fs[p]) <= MaxBytes
        /\ s3[p] \notin {S3Init[p], Absent} => Len(s3[p]) <= MaxBytes
    /\ \A c \in Copies : tmp[c] # Absent => Len(tmp[c]) <= MaxBytes

(* 204 from POST /v1/files/copy: unless another copy wrote to the same     *)
(* file or object meanwhile, the destination is exactly the source as it   *)
(* was opened, and nothing of this copy is still under way that would      *)
(* change it (stream_copy and both write_all with their flushes).          *)
Faithful ==
    \A c \in Copies : pc[c] = "copied" /\ calm[c] => Dest(c) = snap[c]

(* A PUT carries everything that the copy has read up to the end of its    *)
(* source, or is not sent (S3 write_all buffers to the temporary file      *)
(* first): however the copy ends for the client, and whichever attempt S3  *)
(* applies, no object is ever a part of an undisturbed source.  (A source  *)
(* that another copy truncates meanwhile does end early, and the object is *)
(* then what was read of it.)                                              *)
WholeUpload ==
    \A c \in Copies : flying[c] > 0 \/ stored[c] =>
        /\ Len(upload[c]) = counter[c]
        /\ calm[c] => upload[c] = snap[c]

(* The replies that reject a request or do not find its source (400, 404,  *)
(* 503 in error.rs) mean that it changed neither backend: the destination  *)
(* is opened only after the source.                                        *)
Refused == {"same_type", "invalid_path", "no_backend", "missing", "symlink"}
RefusedChangesNothing ==
    (\A c \in Copies : pc[c] \in Refused \cup {"received", "opening", "opened"})
        => fs = FsInit /\ s3 = S3Init

(* FILEFERRY_OFFLINE, and a configuration without an s3: block, keep every *)
(* copy from having any effect, a temporary file included: one of its two  *)
(* sides is always S3 (backend/offline.rs, Backends::pick).                *)
BlockedChangesNothing ==
    s3kind # "live" =>
        /\ fs = FsInit /\ s3 = S3Init
        /\ \A c \in Copies : tmp[c] = Absent /\ ~making[c]

(* For its S3 destinations the service implements AtomicPut, whatever      *)
(* happens at its FS destinations.                                         *)
Result(c) == IF ToFs(c) \/ Running(c) THEN "open"
             ELSE IF pc[c] = "copied" THEN "ok" ELSE "failed"
Abs == INSTANCE AtomicPut WITH
         Bodies  <- UNION {[1..n -> Data] : n \in 0..MaxBytes},
         ObjInit <- S3Init,
         obj     <- s3,
         dest    <- [c \in Copies |-> req[c].to],
         body    <- upload,
         pending <- flying,
         done    <- stored,
         result  <- [c \in Copies |-> Result(c)]
UploadRefinement == Abs!Spec

(* Nothing is left to run: every handler is gone, the pool is idle.        *)
Settled ==
    \A c \in Copies : ~Running(c) /\ sent[c] = <<>> /\ ~making[c] /\ flying[c] = 0

(* backend/mod.rs:56 has write_all "replacing any prior object": a copy    *)
(* into the directory that ran alone, after every earlier one was          *)
(* answered, and was answered 204 leaves exactly its source in the file.   *)
ReplacesPriorObject ==
    Settled => \A c \in solo : ToFs(c) /\ pc[c] = "copied" => Dest(c) = snap[c]

(* backend/s3.rs:229: the temporary file is unlinked before write_all      *)
(* returns, "NamedTempFile also unlinks on Drop": none outlives its copy.  *)
NoTempLeak == Settled => \A c \in Copies : tmp[c] = Absent

(* Fairness.  What FileFerry runs itself makes progress, the blocking pool *)
(* runs its jobs, and TimeoutReader fires when the source delivers nothing *)
(* for copy_inactivity_secs.  Nobody has to deliver a byte of the source,  *)
(* and S3 owes no answer.                                                  *)
Pool(c) == CreateTmp(c) \/ CreateTmpFails(c) \/ Land(c) \/ LandFails(c)
Driver(c) == Admit(c) \/ OpenReadFs(c) \/ OpenWriteFs(c) \/ OpenTmp(c)
             \/ Write(c) \/ FinishFs(c) \/ WriteTmp(c) \/ WriteTmpFails(c)
             \/ StartPut(c) \/ PrepareFails(c)
LiveSpec == Spec /\ \A c \in Copies :
    WF_vars(Stall(c)) /\ WF_vars(Driver(c)) /\ WF_vars(Pool(c))

(* The inactivity guard alone ends every copy loop (TimeoutReader around   *)
(* the source in stream_copy), even if nobody delivers another byte and    *)
(* the request timeout never fires.                                        *)
CopyLoopEnds ==
    \A c \in Copies : pc[c] = "copying" ~> pc[c] \notin {"copying", "flushing"}

(* With the request timeout (TimeoutLayer around every handler) each       *)
(* request is answered, wherever it hangs, and the pool comes to rest.     *)
TimeoutAnswersAll ==
    (\A c \in Copies : WF_vars(Timeout(c))) =>
        <>[](\A c \in Copies : ~Running(c) /\ sent[c] = <<>> /\ ~making[c])
=============================================================================
