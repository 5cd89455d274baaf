------------------------------ MODULE CrashProof ------------------------------
(***************************************************************************)
(* What holds with a process that is killed and started again: the         *)
(* properties of Transfer that a crash does not take away, and what a      *)
(* retry after a crash achieves.                                           *)
(***************************************************************************)
EXTENDS Crash, TransferProof

-----------------------------------------------------------------------------
(* A kill.  It ends handlers where they are, as a client that hangs up     *)
(* would, and takes their buffers and jobs with it; stores, temporary      *)
(* files and PUTs stay.                                                    *)

(* What a kill does to one copy.                                           *)
LEMMA Killed ==
    ASSUME TypeInv, Kill, NEW c \in Copies
    PROVE  /\ pc'[c] = IF pc[c] \in Stage \ {"received"} THEN "disconnected"
                       ELSE pc[c]
           /\ pc'[c] \in Outcome \cup {"received"}
           /\ buf'[c] = <<>> /\ sent'[c] = <<>> /\ making'[c] = FALSE
BY OutcomeNames DEF Kill, TypeInv, TypeOK, Stage

LEMMA KillTypes == TypeInv /\ Kill => TypeInv'
<1> SUFFICES ASSUME TypeInv, Kill PROVE TypeInv'
  OBVIOUS
<1>1. TypeOK'
  BY OutcomeNames, ContentClosed DEF Kill, TypeInv, TypeOK, stores, putSink
<1>2. Files'
  BY Killed, OutcomeNames DEF Files, Draining
<1> QED BY <1>1, <1>2 DEF TypeInv

LEMMA KillCap == TypeInv /\ CapInv /\ Kill => CapInv'
<1> SUFFICES ASSUME TypeInv, CapInv, Kill PROVE CapInv'
  OBVIOUS
<1>1. UNCHANGED <<fs, s3, req, counter, off, tmp, upload>>
  BY DEF Kill, stores, putSink
<1>2. CapStores'
  BY <1>1 DEF CapInv, CapStores
<1>3. ASSUME NEW c \in Copies PROVE CapSinks(c)' /\ CapFile(c)'
  <2>1. /\ buf'[c] = <<>> /\ sent'[c] = <<>> /\ Len(<<>>) = 0
        /\ pc'[c] = pc[c] \/ ~Running(c)'
        /\ ~Draining(c)'
    BY Killed, OutcomeNames DEF Running, Draining, Stage
  <2>2. /\ Len(buf[c]) \in Nat /\ Len(sent[c]) \in Nat /\ off[c] \in Nat
        /\ tmp[c] # Absent => Len(tmp[c]) \in Nat
        /\ MaxBytes \in Nat /\ counter[c] \in Nat
    BY ContentClosed, ConstantsAssumption DEF TypeInv, TypeOK, Object
  <2>3. CapSinks(c)
    BY DEF CapInv
  <2>4. Used(c)' = off[c] /\ Used(c)' <= Used(c) /\ Used(c) \in Nat
    <3> DEFINE o == off[c]
               x == Len(sent[c])
               y == Len(buf[c])
    <3>1. o \in Nat /\ x \in Nat /\ y \in Nat
      BY <2>2
    <3>2. Used(c) = o + x + y
      BY DEF Used
    <3>3. Used(c)' = o + 0 + 0
      BY <1>1, <2>1 DEF Used
    <3> HIDE DEF o, x, y
    <3>4. o + 0 + 0 = o /\ o <= o + x + y /\ o + x + y \in Nat
      BY <3>1
    <3> QED BY <3>2, <3>3, <3>4 DEF o
  <2>5. CapSinks(c)'
    <3>1. Running(c)' => Running(c)
      BY <2>1 DEF Running
    <3>2. Used(c)' <= MaxBytes /\ (Running(c)' => Used(c)' <= counter'[c] /\ counter'[c] <= MaxBytes)
      BY <1>1, <2>2, <2>3, <2>4, <3>1 DEF CapSinks
    <3>3. tmp'[c] # Absent =>
            /\ Len(tmp'[c]) + Len(buf'[c]) <= MaxBytes
            /\ Running(c)' => Len(tmp'[c]) + Len(buf'[c]) <= counter'[c]
      <4>1. tmp[c] # Absent =>
              /\ Len(tmp[c]) <= MaxBytes
              /\ Running(c) => Len(tmp[c]) <= counter[c]
        <5>1. tmp[c] # Absent =>
                /\ Len(tmp[c]) + Len(buf[c]) <= MaxBytes
                /\ Running(c) => Len(tmp[c]) + Len(buf[c]) <= counter[c]
          BY <2>3 DEF CapSinks
        <5>2. \A i, j, k \in Nat : i + j <= k => i <= k
          OBVIOUS
        <5> QED BY <2>2, <5>1, <5>2
      <4>2. tmp[c] # Absent => Len(tmp[c]) + Len(<<>>) = Len(tmp[c])
        BY <2>1, <2>2
      <4> QED BY <1>1, <2>1, <3>1, <4>1, <4>2
    <3>4. upload'[c] # Absent => Len(upload'[c]) <= MaxBytes
      BY <1>1, <2>3 DEF CapSinks
    <3> QED BY <3>2, <3>3, <3>4 DEF CapSinks
  <2>6. CapFile(c)'
    BY <2>1 DEF CapFile, Writing
  <2> QED BY <2>5, <2>6
<1> QED BY <1>2, <1>3 DEF CapInv

(* The copies that were open get no answer: AtomicPut's Abandon.           *)
LEMMA KillAtomic == TypeInv /\ Uploads /\ Kill => Abs!Abandon /\ Uploads'
<1> SUFFICES ASSUME TypeInv, Uploads, Kill PROVE Abs!Abandon /\ Uploads'
  OBVIOUS
<1>1. UNCHANGED <<s3, req, upload, flying, stored>>
  BY DEF Kill, stores, putSink
<1>2. ASSUME NEW c \in Copies
      PROVE  Result(c)' = Result(c) \/ (Result(c) = "open" /\ Result(c)' = "failed")
  BY <1>1, Killed, OutcomeNames DEF Result, Running, ToFs, Stage
<1>3. Abs!Abandon
  BY <1>1, <1>2 DEF Abs!Abandon
<1>4. Uploads'
  BY <1>1, Killed, OutcomeNames DEF Uploads, Running, ToFs, Stage
<1> QED BY <1>3, <1>4

LEMMA KillFaith == TypeInv /\ FaithInv /\ Kill => FaithInv'
<1> SUFFICES ASSUME TypeInv, FaithInv, Kill, NEW c \in Copies PROVE Sound(c)'
  BY DEF FaithInv
<1>1. UNCHANGED <<fs, s3, req, snap, counter, off, tmp, calm, upload, flying, stored>>
  BY DEF Kill, stores, putSink
<1>2. /\ pc'[c] = IF pc[c] \in Stage \ {"received"} THEN "disconnected" ELSE pc[c]
      /\ pc'[c] \notin Stage \ {"received"}
      /\ pc'[c] = "copied" => pc[c] = "copied"
      /\ buf'[c] = <<>> /\ sent'[c] = <<>> /\ making'[c] = FALSE
  BY Killed, OutcomeNames DEF Stage
<1>3. NotBegun(c)'
  BY <1>1, <1>2 DEF FaithInv, Sound, NotBegun, Before, Stage
<1>4. SourceKept(c)' /\ FileSink(c)' /\ TmpSink(c)' /\ Progress(c)'
  BY <1>2 DEF SourceKept, FileSink, TmpSink, Progress, Open, Draining, Stage
<1>5. PutKept(c)' /\ Settles(c)'
  BY <1>1, <1>2 DEF FaithInv, Sound, PutKept, Settles, ToFs, Stage
<1> QED BY <1>3, <1>4, <1>5 DEF Sound

LEMMA KillMark == TypeInv /\ MarkInv /\ Kill => MarkInv'
<1> SUFFICES ASSUME TypeInv, MarkInv, Kill PROVE MarkInv'
  OBVIOUS
<1>1. UNCHANGED <<fs, s3, flying>>
  BY DEF Kill, stores, putSink
<1>2. \A c \in Copies : sent'[c] = <<>> /\ (Marked(c) => Marked(c)')
  BY Killed DEF Marked, Refused
<1> QED BY <1>1, <1>2 DEF MarkInv

(* A copy that is blocked got no further than its open source.             *)
LEMMA KillBlock == TypeInv /\ BlockInv /\ Kill => BlockInv'
<1> SUFFICES ASSUME TypeInv, BlockInv, Kill, s3kind # "live" PROVE BlockInv'
  BY DEF BlockInv, Kill, stores
<1>1. UNCHANGED <<fs, s3, s3kind, req, tmp, flying>>
  BY DEF Kill, stores, putSink
<1>2. ASSUME NEW c \in Copies PROVE Blocked(c)'
  <2>1. Blocked(c)
    BY DEF BlockInv
  <2> QED BY <1>1, <2>1, Killed, OutcomeNames DEF Blocked, Offline, FromFs, ToFs, Stage
<1> QED BY <1>1, <1>2 DEF BlockInv


-----------------------------------------------------------------------------
(* All of it together.                                                     *)
CrashInv == TypeInv /\ CapInv /\ Uploads /\ FaithInv /\ MarkInv /\ BlockInv

(* A step of Transfer, or a kill.                                          *)
LEMMA CrashSteps == [CrashNext]_crashVars => [Next]_vars \/ Kill
BY DEF CrashNext, crashVars

LEMMA CrashInvStart == CrashInit => CrashInv
<1>1. Init => MarkInv
  BY DEF Init, MarkInv
<1>2. Init => BlockInv
  BY DEF Init, BlockInv, Blocked
<1> QED BY <1>1, <1>2, InitTypes, CapInit, UploadsInit, FaithInit DEF CrashInit, CrashInv

LEMMA CrashInvNext == CrashInv /\ [CrashNext]_crashVars => CrashInv'
<1> SUFFICES ASSUME CrashInv, [CrashNext]_crashVars PROVE CrashInv'
  OBVIOUS
<1>1. CASE [Next]_vars
  BY <1>1, NextTypes, CapNext, AtomicNext, FaithNext, MarkNext, BlockNext DEF CrashInv
<1>2. CASE Kill
  BY <1>2, KillTypes, KillCap, KillAtomic, KillFaith, KillMark, KillBlock DEF CrashInv
<1> QED BY <1>1, <1>2, CrashSteps

LEMMA CrashInvariant == CrashSpec => []CrashInv
BY CrashInvStart, CrashInvNext, PTL DEF CrashSpec

(* A crash leaves no file, object or temporary file beyond the cap, what   *)
(* was answered with 204 before it stays true, and no PUT that outlives    *)
(* the process carries a part of an undisturbed source.                    *)
THEOREM CapAcrossCrashes == CrashSpec => []CapRespected
<1>1. CrashInv => CapRespected
  BY CapImplies DEF CrashInv
<1> QED BY <1>1, CrashInvariant, PTL

THEOREM FaithfulAcrossCrashes == CrashSpec => []Faithful
<1>1. CrashInv => Faithful
  BY FaithImplies DEF CrashInv
<1> QED BY <1>1, CrashInvariant, PTL

THEOREM WholeUploadAcrossCrashes == CrashSpec => []WholeUpload
<1>1. CrashInv => WholeUpload
  BY FaithImplies DEF CrashInv
<1> QED BY <1>1, CrashInvariant, PTL

(* Refused requests change nothing, with a crash in between as well.       *)
THEOREM RefusalAcrossCrashes == CrashSpec => []RefusedChangesNothing
<1>1. CrashInv => RefusedChangesNothing
  BY DEF CrashInv, MarkInv, Marked, RefusedChangesNothing
<1> QED BY <1>1, CrashInvariant, PTL

(* Without a live S3 nothing changes, and no temporary file stays, however *)
(* often the process is killed.                                            *)
THEOREM BlockedAcrossCrashes == CrashSpec => []BlockedChangesNothing
<1>1. CrashInv => BlockedChangesNothing
  BY DEF CrashInv, BlockInv, Blocked, BlockedChangesNothing
<1> QED BY <1>1, CrashInvariant, PTL

(* The types of Transfer survive a kill.                                   *)
THEOREM TypesAcrossCrashes == CrashSpec => []TypeOK
<1>1. CrashInv => TypeOK
  BY DEF CrashInv, TypeInv
<1> QED BY <1>1, CrashInvariant, PTL

(* Uploads implement AtomicPut with crashes too: a kill is its Abandon.    *)
THEOREM UploadsAtomicAcrossCrashes == CrashSpec => UploadRefinement
<1>1. CrashInv /\ [CrashNext]_crashVars => [Abs!Next]_(Abs!vars)
  <2>1. Abs!Abandon => Abs!Next
    BY DEF Abs!Next
  <2> QED BY <2>1, CrashSteps, AtomicNext, KillAtomic DEF CrashInv
<1>2. CrashInit => Abs!Init
  BY AtomicInit DEF CrashInit
<1>3. Abs!Init /\ [][Abs!Next]_(Abs!vars) => Abs!Spec
  BY DEF Abs!Spec
<1> QED BY <1>1, <1>2, <1>3, CrashInvariant, PTL DEF CrashSpec, UploadRefinement

(* A kill leaves no part of a sent body in the bucket: the next one finds  *)
(* objects from the start, or bodies that copies of this one or an earlier *)
(* one sent, among them PUTs that S3 applied after the kill.               *)
THEOREM ObjectsAcrossCrashes == CrashSpec => []ObjectsTraceable
<1> QED BY UploadsAtomicAcrossCrashes, PromisedObjects, PTL

-----------------------------------------------------------------------------
(* A retry.  After a crash only copies of the new process still write      *)
(* files; as long as there is one such copy, nobody disturbs it, unless it *)
(* is an upload, which PUTs of the old process may follow.                 *)
Quiet(e) ==
    /\ pc[e] \notin Stage \ {"received"}
    /\ sent[e] = <<>> /\ making[e] = FALSE
HealInv ==
    /\ \A c \in Copies : ToFs(c) /\ pc[c] = "received" => calm[c]
    /\ crashes > 0 =>
         /\ \A e \in Copies \ since : Quiet(e)
         /\ \A c \in Copies : since = {c} /\ ToFs(c) => calm[c]

(* A request is what it was, and is admitted at most once.                 *)
LEMMA ReqStays == ASSUME [Next]_vars PROVE req' = req
<1>1. CASE UNCHANGED vars
  BY <1>1 DEF vars
<1>2. ASSUME NEW c \in Copies,
             \/ Admit(c) \/ OpenReadFs(c) \/ OpenReadS3(c) \/ OpenWriteFs(c)
             \/ OpenTmp(c) \/ CreateTmp(c) \/ CreateTmpFails(c)
      PROVE  req' = req
  BY <1>2 DEF Admit, OpenReadFs, OpenReadS3, OpenWriteFs, OpenTmp, CreateTmp, CreateTmpFails,
     Conclude, Opened
<1>3. ASSUME NEW c \in Copies,
             \/ Read(c) \/ ReadEof(c) \/ ReadFails(c) \/ Stall(c)
             \/ Write(c) \/ Land(c) \/ LandFails(c) \/ FinishFs(c)
      PROVE  req' = req
  BY <1>3 DEF Conclude, Read, ReadEof, ReadFails, Stall, Write, Land, LandFails, PutDown, FinishFs
<1>4. ASSUME NEW c \in Copies,
             \/ WriteTmp(c) \/ WriteTmpFails(c) \/ StartPut(c) \/ PrepareFails(c)
             \/ Resend(c) \/ S3Apply(c) \/ S3Drop(c) \/ PutOk(c) \/ PutFails(c)
             \/ Timeout(c) \/ Disconnect(c)
      PROVE  req' = req
  BY <1>4 DEF Conclude, WriteTmp, WriteTmpFails, StartPut, PrepareFails, Resend, S3Apply, S3Drop,
     PutOk, PutFails, Timeout, Disconnect
<1> QED BY <1>1, <1>2, <1>3, <1>4 DEF Next
LEMMA ReceivedFirst ==
    ASSUME TypeInv, [Next]_vars, NEW e \in Copies, pc'[e] = "received"
    PROVE  pc[e] = "received"
<1>0. pc \in [Copies -> Stage \cup Outcome]
  BY DEF TypeInv, TypeOK
<1>1. CASE UNCHANGED vars
  BY <1>1 DEF vars
<1>2. ASSUME NEW c \in Copies,
             \/ Admit(c) \/ OpenReadFs(c) \/ OpenReadS3(c) \/ OpenWriteFs(c)
             \/ OpenTmp(c) \/ CreateTmp(c) \/ CreateTmpFails(c)
      PROVE  pc[e] = "received"
  BY <1>0, <1>2, OutcomeNames DEF Admit, Verdict, OpenReadFs, OpenReadS3, OpenWriteFs, OpenTmp,
     CreateTmp, CreateTmpFails, Conclude, End, Opened
<1>3. ASSUME NEW c \in Copies,
             \/ Read(c) \/ ReadEof(c) \/ ReadFails(c) \/ Stall(c)
             \/ Write(c) \/ Land(c) \/ LandFails(c) \/ FinishFs(c)
      PROVE  pc[e] = "received"
  BY <1>0, <1>3, OutcomeNames DEF Conclude, Read, ReadEof, ReadFails, Stall, Write, Land, LandFails,
     PutDown, FinishFs, End
<1>4. ASSUME NEW c \in Copies,
             \/ WriteTmp(c) \/ WriteTmpFails(c) \/ StartPut(c) \/ PrepareFails(c)
             \/ Resend(c) \/ S3Apply(c) \/ S3Drop(c) \/ PutOk(c) \/ PutFails(c)
             \/ Timeout(c) \/ Disconnect(c)
      PROVE  pc[e] = "received"
  BY <1>0, <1>4, OutcomeNames DEF Conclude, WriteTmp, WriteTmpFails, StartPut, PrepareFails, Resend,
     S3Apply, S3Drop, PutOk, PutFails, Timeout, Disconnect, End
<1> QED BY <1>1, <1>2, <1>3, <1>4 DEF Next

(* Who is disturbed by a step: users of the file that a running copy, or a *)
(* job of the pool, writes, and uploads.                                   *)
LEMMA Disturbance ==
    ASSUME TypeInv, [Next]_vars
    PROVE  \/ \A e \in Copies : ToFs(e) => calm'[e] = calm[e]
           \/ \E d \in Copies :
                /\ pc[d] = "opened" \/ sent[d] # <<>>
                /\ \A e \in Copies : calm'[e] = (calm[e] /\ e \notin FileUsers(req[d].to, d))
<1> DEFINE Goal == \/ \A e \in Copies : ToFs(e) => calm'[e] = calm[e]
                   \/ \E d \in Copies :
                        /\ pc[d] = "opened" \/ sent[d] # <<>>
                        /\ \A e \in Copies : calm'[e] = (calm[e] /\ e \notin FileUsers(req[d].to, d))
<1>1. UNCHANGED calm => Goal
  OBVIOUS
<1>2. ASSUME NEW c \in Copies, OpenWriteFs(c) \/ Land(c) \/ LandFails(c) PROVE Goal
  <2>1. pc[c] = "opened" \/ sent[c] # <<>>
    BY <1>2, ContentClosed DEF OpenWriteFs, Land, LandFails, TypeInv, TypeOK
  <2>2. UNCHANGED calm \/ Disturb(FileUsers(req[c].to, c))
    BY <1>2 DEF OpenWriteFs, Land, LandFails, PutDown, Conclude
  <2> QED BY <1>1, <2>1, <2>2 DEF Disturb
<1>3. ASSUME NEW c \in Copies, S3Apply(c) PROVE Goal
  <2>1. \A e \in Copies : calm'[e] = (calm[e] /\ e \notin ObjectUsers(req[c].to, c))
    BY <1>3 DEF S3Apply, Disturb
  <2>2. \A e \in Copies : ToFs(e) => e \notin ObjectUsers(req[c].to, c)
    BY DEF ObjectUsers
  <2> QED BY <2>1, <2>2 DEF TypeInv, TypeOK
<1> HIDE DEF Goal
<1>4. ASSUME NEW c \in Copies,
             \/ Admit(c) \/ OpenReadFs(c) \/ OpenReadS3(c) \/ OpenTmp(c)
             \/ CreateTmp(c) \/ CreateTmpFails(c)
             \/ Read(c) \/ ReadEof(c) \/ ReadFails(c) \/ Stall(c)
             \/ Write(c) \/ FinishFs(c)
      PROVE  UNCHANGED calm
  BY <1>4 DEF Admit, Conclude, OpenReadFs, OpenReadS3, OpenTmp, CreateTmp, CreateTmpFails, Read, ReadEof,
     ReadFails, Stall, Write, FinishFs, Opened
<1>5. ASSUME NEW c \in Copies,
             \/ WriteTmp(c) \/ WriteTmpFails(c) \/ StartPut(c) \/ PrepareFails(c)
             \/ Resend(c) \/ S3Drop(c) \/ PutOk(c) \/ PutFails(c)
             \/ Timeout(c) \/ Disconnect(c)
      PROVE  UNCHANGED calm
  BY <1>5 DEF Conclude, WriteTmp, WriteTmpFails, StartPut, PrepareFails, Resend, S3Drop, PutOk, PutFails,
     Timeout, Disconnect
<1>6. CASE UNCHANGED vars
  BY <1>1, <1>6 DEF vars
<1>7. ASSUME Next PROVE Goal
  <2>1. \/ \E c \in Copies : OpenWriteFs(c) \/ Land(c) \/ LandFails(c) \/ S3Apply(c)
        \/ UNCHANGED calm
    BY <1>4, <1>5, <1>7 DEF Next
  <2> QED BY <1>1, <1>2, <1>3, <2>1
<1> QED BY <1>6, <1>7 DEF Goal

(* A copy of the old process does nothing any more to files.               *)
LEMMA QuietStays ==
    ASSUME TypeInv, [Next]_vars, NEW e \in Copies, Quiet(e),
           ~(pc[e] = "received" /\ pc'[e] # "received")
    PROVE  Quiet(e)'
<1>1. CASE UNCHANGED vars
  BY <1>1 DEF vars, fileSink, tmpSink, Quiet
<1>2. ASSUME NEW c \in Copies, c # e, Next,
             \/ Admit(c) \/ OpenReadFs(c) \/ OpenReadS3(c) \/ OpenWriteFs(c)
             \/ OpenTmp(c) \/ CreateTmp(c) \/ CreateTmpFails(c)
             \/ Read(c) \/ ReadEof(c) \/ ReadFails(c) \/ Stall(c)
             \/ Write(c) \/ Land(c) \/ LandFails(c) \/ FinishFs(c)
             \/ WriteTmp(c) \/ WriteTmpFails(c) \/ StartPut(c) \/ PrepareFails(c)
             \/ Resend(c) \/ S3Apply(c) \/ S3Drop(c) \/ PutOk(c) \/ PutFails(c)
             \/ Timeout(c) \/ Disconnect(c)
      PROVE  Quiet(e)'
  <2>1. pc'[e] = pc[e] /\ sent'[e] = sent[e] /\ making'[e] = making[e]
    <3>0. /\ pc \in [Copies -> Stage \cup Outcome] /\ sent \in [Copies -> Content]
          /\ making \in [Copies -> BOOLEAN]
      BY DEF TypeInv, TypeOK
    <3>1. CASE \/ Admit(c) \/ OpenReadFs(c) \/ OpenReadS3(c) \/ OpenWriteFs(c)
               \/ OpenTmp(c) \/ CreateTmp(c) \/ CreateTmpFails(c)
      BY <1>2, <3>0, <3>1
      DEF Admit, OpenReadFs, OpenReadS3, OpenWriteFs, OpenTmp, CreateTmp, CreateTmpFails,
          Conclude, End, Opened, fileSink, tmpSink
    <3>2. CASE \/ Read(c) \/ ReadEof(c) \/ ReadFails(c) \/ Stall(c)
               \/ Write(c) \/ Land(c) \/ LandFails(c) \/ FinishFs(c)
      BY <1>2, <3>0, <3>2
      DEF Read, ReadEof, ReadFails, Stall, Write, Land, LandFails, PutDown, FinishFs, Conclude,
          End, fileSink, tmpSink
    <3>3. CASE \/ WriteTmp(c) \/ WriteTmpFails(c) \/ StartPut(c) \/ PrepareFails(c)
               \/ Resend(c) \/ S3Apply(c) \/ S3Drop(c) \/ PutOk(c) \/ PutFails(c)
               \/ Timeout(c) \/ Disconnect(c)
      BY <1>2, <3>0, <3>3
      DEF WriteTmp, WriteTmpFails, StartPut, PrepareFails, Resend, S3Apply, S3Drop, PutOk,
          PutFails, Timeout, Disconnect, Conclude, End, fileSink, tmpSink
    <3> QED BY <1>2, <3>1, <3>2, <3>3
  <2> QED BY <2>1 DEF Quiet
<1>3. ASSUME \/ Admit(e) \/ Timeout(e) \/ Disconnect(e) PROVE FALSE
  BY <1>3, OutcomeNames
  DEF Admit, Verdict, Timeout, Disconnect, Conclude, End, Running, Quiet, Stage, TypeInv,
      TypeOK
<1>4. ASSUME \/ OpenReadFs(e) \/ OpenReadS3(e) \/ OpenWriteFs(e) \/ OpenTmp(e)
             \/ CreateTmp(e) \/ CreateTmpFails(e)
             \/ Read(e) \/ ReadEof(e) \/ ReadFails(e) \/ Stall(e)
             \/ Write(e) \/ Land(e) \/ LandFails(e) \/ FinishFs(e)
             \/ WriteTmp(e) \/ WriteTmpFails(e) \/ StartPut(e) \/ PrepareFails(e)
             \/ Resend(e) \/ PutOk(e) \/ PutFails(e)
      PROVE  FALSE
  <2>1. /\ pc[e] \notin {"opening", "opened", "creating", "copying", "flushing", "putting"}
        /\ sent[e] = <<>> /\ making[e] = FALSE
    BY DEF Quiet, Stage
  <2>2. CASE Land(e) \/ LandFails(e)
    <3>1. Len(sent[e]) = 0
      BY <2>1, ContentClosed
    <3>2. 0..(Len(sent[e]) - 1) = {}
      BY <3>1
    <3> QED BY <2>1, <2>2, <3>2 DEF Land, LandFails
  <2> QED BY <1>4, <2>1, <2>2
      DEF OpenReadFs, OpenReadS3, OpenWriteFs, OpenTmp, CreateTmp, CreateTmpFails, Read, ReadEof,
          ReadFails, Stall, Write, FinishFs, WriteTmp, WriteTmpFails, StartPut,
          PrepareFails, Resend, PutOk, PutFails, Wants, Draining
<1>5. ASSUME S3Apply(e) \/ S3Drop(e) PROVE Quiet(e)'
  BY <1>5 DEF S3Apply, S3Drop, fileSink, tmpSink, Quiet
<1> QED BY <1>1, <1>2, <1>3, <1>4, <1>5 DEF Next

LEMMA HealNext ==
    TypeInv /\ HealInv /\ [CrashNext]_crashVars => HealInv'
<1> SUFFICES ASSUME TypeInv, HealInv, [CrashNext]_crashVars PROVE HealInv'
  OBVIOUS
<1>1. CASE Kill
  <2>1. UNCHANGED <<req, calm>> /\ since' = {}
    BY <1>1 DEF Kill
  <2>2. \A e \in Copies : Quiet(e)' /\ (pc'[e] = "received" => pc[e] = "received")
    BY <1>1, Killed, OutcomeNames DEF Quiet, Stage
  <2> QED BY <2>1, <2>2 DEF HealInv, ToFs
<1>2. CASE UNCHANGED crashVars
  BY <1>2 DEF HealInv, Quiet, ToFs, crashVars, vars, fileSink, tmpSink
<1>3. CASE /\ Next /\ UNCHANGED crashes
           /\ since' = since \cup {c \in Copies : pc[c] = "received" /\ pc'[c] # "received"}
  <2>1. req' = req
    BY <1>3, ReqStays
  <2>2. ASSUME NEW e \in Copies, ToFs(e), pc'[e] = "received" PROVE calm'[e]
    <3>1. pc[e] = "received"
      BY <1>3, <2>2, ReceivedFirst
    <3>2. \A d \in Copies : e \notin FileUsers(req[d].to, d)
      BY <3>1 DEF FileUsers
    <3> QED BY <1>3, <2>2, <3>1, <3>2, Disturbance DEF HealInv
  <2>3. ASSUME crashes > 0, NEW e \in Copies, e \notin since' PROVE Quiet(e)'
    BY <1>3, <2>3, QuietStays DEF HealInv
  <2>4. ASSUME crashes > 0, NEW c \in Copies, since' = {c}, ToFs(c) PROVE calm'[c]
    <3>1. calm[c]
      <4>1. CASE c \in since
        BY <1>3, <2>4, <4>1 DEF HealInv
      <4>2. CASE c \notin since
        BY <1>3, <2>4, <4>2 DEF HealInv
      <4> QED BY <4>1, <4>2
    <3>2. \A d \in Copies \ {c} : pc[d] # "opened" /\ sent[d] = <<>>
      BY <1>3, <2>4 DEF HealInv, Quiet, Stage
    <3>3. \A p : c \notin FileUsers(p, c)
      BY DEF FileUsers
    <3> QED BY <1>3, <2>4, <3>1, <3>2, <3>3, Disturbance
  <2> QED BY <1>3, <2>1, <2>2, <2>3, <2>4 DEF HealInv, ToFs
<1> QED BY <1>1, <1>2, <1>3 DEF CrashNext

(* FS write_all truncates its destination, and a crash ends the pool: a    *)
(* copy into the directory that is sent again after a crash, and is the    *)
(* only one since, leaves exactly its source when it is answered 204,      *)
(* whatever the crash left behind.                                         *)
THEOREM RetryCorrect == CrashSpec => []RetryHeals
<1>1. CrashInit => HealInv
  BY DEF CrashInit, Init, HealInv
<1>2. CrashInv /\ HealInv => RetryHeals
  BY FaithImplies DEF CrashInv, HealInv, RetryHeals, Faithful, Dest
<1>3. CrashInv => TypeInv
  BY DEF CrashInv
<1> QED BY <1>1, <1>2, <1>3, CrashInvariant, HealNext, PTL DEF CrashSpec
===============================================================================
