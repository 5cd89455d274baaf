---------------------------- MODULE TransferProof ----------------------------
(***************************************************************************)
(* Proofs about Transfer, for every set of copies, paths and blocks, every *)
(* cap, buffer size and number of PUT attempts, and every initial state of *)
(* the two stores, in three parts.  First the types, and that the cap of   *)
(* LimitedReader is a cap on what copies leave behind.                     *)
(*                                                                         *)
(* Then what a reply says of the two stores: 204, and the PUTs behind it:  *)
(* what a copy has taken from its source is, block by block and in order,  *)
(* in its sink and its buffers, so a copy that is answered 204 has copied  *)
(* its source, and a PUT carries the whole of it, unless another copy      *)
(* wrote to the same file or object meanwhile; and the replies that refuse *)
(* a request, and the offline mode: nothing has changed.                   *)
(*                                                                         *)
(* Last, uploads implement AtomicPut: the initial states map to initial    *)
(* states, and every step of Transfer maps to a step of AtomicPut or to    *)
(* none.                                                                   *)
(***************************************************************************)
EXTENDS Transfer, SequenceTheorems, TLAPS

-----------------------------------------------------------------------------
(* Facts about the constants and the sequence operators.                   *)

(* Stages and outcomes are told apart by their names.                      *)
LEMMA OutcomeNames ==
    Outcome = {"copied", "same_type", "invalid_path", "no_backend", "missing",
               "symlink", "upstream", "open_failed", "too_large", "stalled",
               "source_failed", "sink_failed", "timeout", "disconnected"}
BY DEF Outcome, Reply

(* The empty content, a concatenation and a part of content are content.   *)
LEMMA ContentClosed ==
    /\ <<>> \in Content /\ Len(<<>>) = 0
    /\ \A s, t \in Content : s \o t \in Content /\ Len(s \o t) = Len(s) + Len(t)
    /\ \A s \in Content : \A m, n \in Nat :
         m <= n /\ n <= Len(s) =>
            /\ SubSeq(s, m + 1, n) \in Content
            /\ Len(SubSeq(s, m + 1, n)) = n - m
    /\ \A s \in Content : Len(s) \in Nat /\ (s = <<>> <=> Len(s) = 0)
BY ConcatProperties, SubSeqProperties, EmptySeq, LenProperties DEF Content

LEMMA EmptyContent == <<>> \in Content /\ Len(<<>>) = 0
BY ContentClosed

(* A write into content gives content, as long as the longer of the old    *)
(* content and the end of the write.                                       *)
LEMMA WriteAtContent ==
    ASSUME NEW s \in Content, NEW o \in Nat, NEW b \in Content
    PROVE  /\ WriteAt(s, o, b) \in Content
           /\ Len(WriteAt(s, o, b)) =
                IF o + Len(b) > Len(s) THEN o + Len(b) ELSE Len(s)
<1> DEFINE n == IF o + Len(b) > Len(s) THEN o + Len(b) ELSE Len(s)
           e(i) == IF i > o /\ i <= o + Len(b) THEN b[i - o]
                   ELSE IF i <= Len(s) THEN s[i] ELSE Hole
<1>1. n \in Nat /\ Len(b) \in Nat /\ Len(s) \in Nat
  BY ContentClosed
<1>2. ASSUME NEW i \in 1..n
      PROVE  e(i) \in Data
  <2>1. CASE i > o /\ i <= o + Len(b)
    <3>1. i - o \in 1..Len(b)
      BY <1>1, <2>1
    <3> QED BY <2>1, <3>1, ElementOfSeq DEF Content
  <2>2. CASE ~(i > o /\ i <= o + Len(b)) /\ i <= Len(s)
    <3>1. i \in 1..Len(s)
      BY <1>1, <2>2
    <3> QED BY <2>2, <3>1, ElementOfSeq DEF Content
  <2>3. CASE ~(i > o /\ i <= o + Len(b)) /\ ~(i <= Len(s))
    BY <2>3 DEF Data
  <2> QED BY <2>1, <2>2, <2>3
<1>3. WriteAt(s, o, b) = [i \in 1..n |-> e(i)]
  BY DEF WriteAt
<1>4. [i \in 1..n |-> e(i)] \in [1..n -> Data]
  BY <1>2
<1>5. WriteAt(s, o, b) \in Seq(Data) /\ Len(WriteAt(s, o, b)) = n
  <2> HIDE DEF n, e
  <2> QED BY <1>1, <1>3, <1>4
<1> QED BY <1>5 DEF Content

-----------------------------------------------------------------------------
(* Type correctness.  TypeOK is not inductive: a write needs a file under  *)
(* it, a read needs one in an open source, io::copy needs its temporary    *)
(* file.  An entry of the data directory, once content, stays content.     *)
Files ==
    /\ \A c \in Copies :
         FromFs(c) /\ pc[c] \in {"opened", "creating", "copying", "flushing"}
            => fs[req[c].from] \in Content
    /\ \A c \in Copies :
         (ToFs(c) /\ Draining(c)) \/ sent[c] # <<>> => fs[req[c].to] \in Content
    /\ \A c \in Copies :
         ~ToFs(c) /\ pc[c] \in {"creating", "copying", "flushing"}
            => tmp[c] \in Content
    /\ \A c \in Copies : pc[c] = "creating" => ~ToFs(c)
TypeInv == TypeOK /\ Files

(* A handler that ends in any way, and does nothing else.                  *)
LEMMA ConcludeTypes ==
    ASSUME TypeInv, NEW c \in Copies, NEW o \in Outcome, Conclude(c, o)
    PROVE  TypeInv'
<1>1. TypeOK'
  BY ContentClosed DEF TypeInv, TypeOK, Conclude, End, Object, stores, fileSink,
     putSink
<1>2. Files'
  BY OutcomeNames
  DEF TypeInv, TypeOK, Files, Conclude, End, Draining, FromFs, ToFs, stores,
      fileSink, putSink
<1> QED BY <1>1, <1>2 DEF TypeInv

(* The initial state.                                                      *)
LEMMA InitTypes == Init => TypeInv
BY InitialStores, ConstantsAssumption, ContentClosed, OutcomeNames
DEF Init, TypeInv, TypeOK, Files, Stage, Object, FromFs, ToFs, Draining

(* The steps up to the copy loop.                                          *)
LEMMA OpenTypes ==
    ASSUME TypeInv, NEW c \in Copies
    PROVE  /\ Admit(c) => TypeInv'
           /\ OpenReadFs(c) => TypeInv'
           /\ OpenReadS3(c) => TypeInv'
           /\ OpenWriteFs(c) => TypeInv'
           /\ OpenTmp(c) => TypeInv'
           /\ CreateTmp(c) => TypeInv'
           /\ CreateTmpFails(c) => TypeInv'
<1> USE OutcomeNames, EmptyContent
<1>1. ASSUME Admit(c) PROVE TypeInv'
  <2>1. Verdict(req[c]) \in {"same_type", "invalid_path", "no_backend", "opening"}
    BY DEF Verdict
  <2>2. TypeOK'
    BY <1>1, <2>1 DEF Admit, TypeInv, TypeOK, Stage, stores, reading, fileSink,
       tmpSink, putSink
  <2>3. Files'
    BY <1>1, <2>1 DEF Admit, TypeInv, TypeOK, Files, FromFs, ToFs, Draining,
       stores, reading, fileSink, tmpSink, putSink
  <2> QED BY <2>2, <2>3 DEF TypeInv
<1>2. ASSUME NEW s \in Content, Opened(c, s), pc[c] = "opening",
             FromFs(c) => fs[req[c].from] \in Content
      PROVE  TypeInv'
  <2>1. TypeOK'
    BY <1>2 DEF Opened, TypeInv, TypeOK, Stage, stores, fileSink, tmpSink, putSink
  <2>2. Files'
    BY <1>2 DEF Opened, TypeInv, TypeOK, Files, FromFs, ToFs, Draining, stores,
       fileSink, tmpSink, putSink
  <2> QED BY <2>1, <2>2 DEF TypeInv
<1>3. ASSUME OpenReadFs(c) PROVE TypeInv'
  <2>1. fs[req[c].from] \in FsEntry
    BY DEF TypeInv, TypeOK, Request
  <2>2. CASE \E o \in Outcome : Conclude(c, o)
    BY <2>2, ConcludeTypes
  <2>3. CASE /\ fs[req[c].from] \notin {Absent, Link}
             /\ Opened(c, fs[req[c].from])
    <3>1. fs[req[c].from] \in Content
      BY <2>1, <2>3 DEF FsEntry
    <3> QED BY <1>2, <1>3, <2>3, <3>1 DEF OpenReadFs
  <2> QED BY <1>3, <2>2, <2>3 DEF OpenReadFs, IsLink
<1>4. ASSUME OpenReadS3(c) PROVE TypeInv'
  <2>1. s3[req[c].from] \in Object
    BY DEF TypeInv, TypeOK, Request
  <2>2. CASE \E o \in Outcome : Conclude(c, o)
    BY <2>2, ConcludeTypes
  <2>3. CASE s3[req[c].from] # Absent /\ Opened(c, s3[req[c].from])
    <3>1. s3[req[c].from] \in Content
      BY <2>1, <2>3 DEF Object
    <3> QED BY <1>2, <1>4, <2>3, <3>1 DEF OpenReadS3
  <2> QED BY <1>4, <2>2, <2>3 DEF OpenReadS3
<1>5. ASSUME OpenWriteFs(c) PROVE TypeInv'
  <2>2. CASE \E o \in Outcome : Conclude(c, o)
    BY <2>2, ConcludeTypes
  <2>3. CASE /\ fs' = [fs EXCEPT ![req[c].to] = <<>>]
             /\ pc' = [pc EXCEPT ![c] = "copying"]
             /\ calm' = [e \in Copies |-> calm[e] /\ e \notin FileUsers(req[c].to, c)]
             /\ UNCHANGED <<s3, s3kind, req, reading, fileSink, tmpSink,
                            putSink, solo>>
    <3>1. TypeOK'
      BY <2>3 DEF TypeInv, TypeOK, Stage, FsEntry, Request, reading, fileSink,
         tmpSink, putSink
    <3>2. \A q \in Paths : fs[q] \in Content \/ q = req[c].to => fs'[q] \in Content
      BY <2>3 DEF TypeInv, TypeOK, Request
    <3>3. Files'
      BY <1>5, <2>3, <3>2 DEF OpenWriteFs, TypeInv, TypeOK, Files, FromFs, ToFs,
         Draining, Request, reading, fileSink, tmpSink, putSink
    <3> QED BY <3>1, <3>3 DEF TypeInv
  <2> QED BY <1>5, <2>2, <2>3 DEF OpenWriteFs, Disturb
<1>6. ASSUME OpenTmp(c) PROVE TypeInv'
  <2>1. CASE \E o \in Outcome : Conclude(c, o)
    BY <2>1, ConcludeTypes
  <2>2. CASE /\ tmp' = [tmp EXCEPT ![c] = <<>>]
             /\ making' = [making EXCEPT ![c] = TRUE]
             /\ pc' = [pc EXCEPT ![c] = "creating"]
             /\ UNCHANGED <<stores, req, reading, fileSink, putSink, calm, solo>>
    <3>1. TypeOK'
      BY <2>2 DEF TypeInv, TypeOK, Stage, Object, stores, reading, fileSink, putSink
    <3>2. Files'
      BY <1>6, <2>2 DEF OpenTmp, TypeInv, TypeOK, Files, FromFs, ToFs, Draining,
         stores, reading, fileSink, putSink
    <3> QED BY <3>1, <3>2 DEF TypeInv
  <2> QED BY <1>6, <2>1, <2>2 DEF OpenTmp
<1>7. ASSUME CreateTmp(c) PROVE TypeInv'
  <2>1. TypeOK'
    BY <1>7 DEF CreateTmp, TypeInv, TypeOK, Stage, Object, stores, reading,
       fileSink, putSink
  <2>2. Files'
    BY <1>7 DEF CreateTmp, TypeInv, TypeOK, Files, FromFs, ToFs, Draining,
       stores, reading, fileSink, putSink
  <2> QED BY <2>1, <2>2 DEF TypeInv
<1>8. ASSUME CreateTmpFails(c) PROVE TypeInv'
  <2>1. TypeOK'
    <3>1. /\ making' = [making EXCEPT ![c] = FALSE]
          /\ UNCHANGED <<fs, s3, s3kind, req, snap, counter, sent, off, upload,
                         flying, stored, calm, solo>>
      BY <1>8 DEF CreateTmpFails, stores, fileSink, putSink
    <3>2. CASE UNCHANGED <<pc, buf, tmp>>
      BY <3>1, <3>2 DEF TypeInv, TypeOK
    <3>3. CASE End(c, "open_failed")
      <4>1. /\ pc' \in [Copies -> Stage \cup Outcome]
            /\ buf' \in [Copies -> Content]
            /\ tmp' \in [Copies -> Object]
        BY <3>3 DEF End, TypeInv, TypeOK, Object
      <4> QED BY <3>1, <4>1 DEF TypeInv, TypeOK
    <3> QED BY <1>8, <3>2, <3>3 DEF CreateTmpFails
  <2>2. Files'
    <3>1. CASE pc[c] = "creating"
      <4>1. /\ pc' = [pc EXCEPT ![c] = "open_failed"]
            /\ tmp' = [tmp EXCEPT ![c] = Absent]
            /\ UNCHANGED <<fs, req, sent>>
        BY <1>8, <3>1 DEF CreateTmpFails, End, stores, fileSink
      <4> QED BY <4>1 DEF TypeInv, TypeOK, Files, FromFs, ToFs, Draining
    <3>2. CASE pc[c] # "creating"
      BY <1>8, <3>2 DEF CreateTmpFails, TypeInv, TypeOK, Files, FromFs, ToFs,
         Draining, stores, fileSink, putSink
    <3> QED BY <3>1, <3>2
  <2> QED BY <2>1, <2>2 DEF TypeInv
<1> QED BY <1>1, <1>3, <1>4, <1>5, <1>6, <1>7, <1>8

(* What an open source yields is content.                                  *)
LEMMA SourceContent ==
    ASSUME TypeInv, NEW c \in Copies, pc[c] \in {"copying", "flushing"}
    PROVE  Source(c) \in Content
BY DEF TypeInv, TypeOK, Files, Source, FromFs

(* The steps of the copy loop.                                             *)
LEMMA CopyTypes ==
    ASSUME TypeInv, NEW c \in Copies
    PROVE  /\ Read(c) => TypeInv'
           /\ ReadEof(c) => TypeInv'
           /\ Write(c) => TypeInv'
           /\ Land(c) => TypeInv'
           /\ LandFails(c) => TypeInv'
           /\ WriteTmp(c) => TypeInv'
<1> USE OutcomeNames, EmptyContent
<1>1. ASSUME Read(c) PROVE TypeInv'
  <2>1. PICK n \in 1..(BufSize - Len(buf[c])) :
          /\ Wants(c)
          /\ counter[c] + n <= Len(Source(c))
          /\ counter' = [counter EXCEPT ![c] = @ + n]
          /\ IF counter[c] + n > MaxBytes THEN End(c, "too_large")
             ELSE /\ buf' = [buf EXCEPT ![c] = @ \o
                               SubSeq(Source(c), counter[c] + 1, counter[c] + n)]
                  /\ UNCHANGED <<pc, tmp>>
          /\ UNCHANGED <<fs, s3, s3kind, req, snap, sent, off, making, upload,
                         flying, stored, calm, solo>>
    BY <1>1 DEF Read, stores, fileSink, putSink
  <2>2. n \in Nat /\ counter[c] \in Nat /\ counter[c] + n \in Nat
    BY DEF TypeInv, TypeOK
  <2>3. CASE counter[c] + n > MaxBytes
    <3>1. TypeOK'
      <4>0. End(c, "too_large")
        BY <2>1, <2>3
      <4>1. /\ pc' \in [Copies -> Stage \cup Outcome]
            /\ buf' \in [Copies -> Content]
            /\ tmp' \in [Copies -> Object]
        BY <4>0 DEF End, TypeInv, TypeOK, Object
      <4>2. counter' \in [Copies -> Nat]
        BY <2>1, <2>2 DEF TypeInv, TypeOK
      <4> QED BY <2>1, <4>1, <4>2 DEF TypeInv, TypeOK
    <3>2. /\ pc' = [pc EXCEPT ![c] = "too_large"]
          /\ tmp' = [tmp EXCEPT ![c] = Absent]
          /\ UNCHANGED <<fs, req, sent>>
      BY <2>1, <2>3 DEF End
    <3>3. Files'
      BY <3>2 DEF TypeInv, TypeOK, Files, FromFs, ToFs, Draining
    <3> QED BY <3>1, <3>3 DEF TypeInv
  <2>4. CASE ~(counter[c] + n > MaxBytes)
    <3>1. Source(c) \in Content
      BY <2>1, SourceContent DEF Wants
    <3>2. buf[c] \o SubSeq(Source(c), counter[c] + 1, counter[c] + n) \in Content
      <4>1. SubSeq(Source(c), counter[c] + 1, counter[c] + n) \in Content
        BY <2>1, <2>2, <3>1, ContentClosed
      <4> QED BY <4>1, ContentClosed DEF TypeInv, TypeOK
    <3>3. TypeOK'
      BY <2>1, <2>2, <2>4, <3>2 DEF TypeInv, TypeOK
    <3>4. Files'
      BY <2>1, <2>4 DEF TypeInv, TypeOK, Files, FromFs, ToFs, Draining
    <3> QED BY <3>3, <3>4 DEF TypeInv
  <2> QED BY <2>3, <2>4
<1>2. ASSUME ReadEof(c) PROVE TypeInv'
  <2>1. TypeOK'
    BY <1>2 DEF ReadEof, TypeInv, TypeOK, Stage, stores, reading, fileSink,
       tmpSink, putSink
  <2>2. Files'
    BY <1>2 DEF ReadEof, Wants, TypeInv, TypeOK, Files, FromFs, ToFs, Draining,
       stores, reading, fileSink, tmpSink, putSink
  <2> QED BY <2>1, <2>2 DEF TypeInv
<1>3. ASSUME Write(c) PROVE TypeInv'
  <2>1. TypeOK'
    BY <1>3 DEF Write, TypeInv, TypeOK, stores, tmpSink, putSink
  <2>2. Files'
    BY <1>3 DEF Write, TypeInv, TypeOK, Files, FromFs, ToFs, Draining, stores,
       tmpSink, putSink
  <2> QED BY <2>1, <2>2 DEF TypeInv
<1>4. ASSUME NEW n \in 0..Len(sent[c]), sent[c] # <<>>, PutDown(c, n),
             \/ UNCHANGED <<pc, buf, tmp>>
             \/ End(c, "sink_failed")
      PROVE  TypeInv'
  <2>1. /\ sent[c] \in Content /\ off[c] \in Nat /\ n \in Nat
        /\ req[c].to \in Paths /\ fs[req[c].to] \in Content
    BY <1>4 DEF TypeInv, TypeOK, Files, Request
  <2>2. SubSeq(sent[c], 1, n) \in Content
    <3>1. 0 \in Nat /\ 0 <= n /\ n <= Len(sent[c]) /\ 0 + 1 = 1
      BY <2>1
    <3>2. SubSeq(sent[c], 0 + 1, n) \in Content
      BY <2>1, <3>1, ContentClosed
    <3> QED BY <3>1, <3>2
  <2> DEFINE w == WriteAt(fs[req[c].to], off[c], SubSeq(sent[c], 1, n))
  <2>3. w \in Content
    BY <2>1, <2>2, WriteAtContent
  <2>4. /\ fs' = [fs EXCEPT ![req[c].to] = w]
        /\ off' = [off EXCEPT ![c] = @ + n]
        /\ sent' = [sent EXCEPT ![c] = <<>>]
        /\ calm' = [e \in Copies |-> calm[e] /\ e \notin FileUsers(req[c].to, c)]
        /\ UNCHANGED <<s3, s3kind, req, snap, counter, making, upload, flying,
                       stored, solo>>
    BY <1>4 DEF PutDown, Disturb, putSink
  <2> HIDE DEF w
  <2>5. /\ pc' \in [Copies -> Stage \cup Outcome]
        /\ buf' \in [Copies -> Content]
        /\ tmp' \in [Copies -> Object]
    <3>1. CASE UNCHANGED <<pc, buf, tmp>>
      BY <3>1 DEF TypeInv, TypeOK
    <3>2. CASE End(c, "sink_failed")
      BY <3>2 DEF End, TypeInv, TypeOK, Object
    <3> QED BY <1>4, <3>1, <3>2
  <2>6. TypeOK'
    <3>1. fs' \in [Paths -> FsEntry]
      BY <2>1, <2>3, <2>4 DEF TypeInv, TypeOK, FsEntry
    <3>2. off' \in [Copies -> Nat] /\ sent' \in [Copies -> Content]
      BY <2>1, <2>4 DEF TypeInv, TypeOK
    <3>3. calm' \in [Copies -> BOOLEAN]
      BY <2>4 DEF TypeInv, TypeOK
    <3> QED BY <2>4, <2>5, <3>1, <3>2, <3>3 DEF TypeInv, TypeOK
  <2>7. \A q \in Paths : fs[q] \in Content => fs'[q] \in Content
    BY <2>3, <2>4 DEF TypeInv, TypeOK
  <2>8. \A e \in Copies : pc'[e] \in Stage => pc'[e] = pc[e] /\ tmp'[e] = tmp[e]
    BY <1>4 DEF End, Stage, TypeInv, TypeOK
  <2>9. \A e \in Copies : sent'[e] # <<>> => sent[e] # <<>>
    BY <2>4 DEF TypeInv, TypeOK
  <2>10. \A e \in Copies : req[e].from \in Paths /\ req[e].to \in Paths
    BY DEF TypeInv, TypeOK, Request
  <2>11. Files'
    <3>1. ASSUME NEW e \in Copies, FromFs(e)',
                 pc'[e] \in {"opened", "creating", "copying", "flushing"}
          PROVE  fs'[req'[e].from] \in Content
      <4>1. pc'[e] = pc[e]
        BY <2>8, <3>1 DEF Stage
      <4>2. fs[req[e].from] \in Content
        BY <2>4, <3>1, <4>1 DEF TypeInv, Files, FromFs
      <4> QED BY <2>4, <2>7, <2>10, <4>2
    <3>2. ASSUME NEW e \in Copies, (ToFs(e)' /\ Draining(e)') \/ sent'[e] # <<>>
          PROVE  fs'[req'[e].to] \in Content
      <4>1. (ToFs(e) /\ Draining(e)) \/ sent[e] # <<>>
        BY <2>4, <2>8, <2>9, <3>2 DEF ToFs, Draining, Stage
      <4>2. fs[req[e].to] \in Content
        BY <4>1 DEF TypeInv, Files
      <4> QED BY <2>4, <2>7, <2>10, <4>2
    <3>3. ASSUME NEW e \in Copies, pc'[e] \in {"creating", "copying", "flushing"}
          PROVE  pc'[e] = pc[e] /\ tmp'[e] = tmp[e] /\ ToFs(e)' = ToFs(e)
      BY <2>4, <2>8, <3>3 DEF Stage, ToFs
    <3> QED BY <3>1, <3>2, <3>3 DEF TypeInv, Files
  <2> QED BY <2>6, <2>11 DEF TypeInv
<1>5. Len(sent[c]) \in Nat
  BY DEF TypeInv, TypeOK
<1>6. ASSUME Land(c) PROVE TypeInv'
  <2>1. Len(sent[c]) \in 0..Len(sent[c])
    BY <1>5
  <2> QED BY <1>4, <1>6, <2>1 DEF Land
<1>7. ASSUME LandFails(c) PROVE TypeInv'
  <2>1. PICK n \in 0..(Len(sent[c]) - 1) :
          /\ PutDown(c, n)
          /\ IF Running(c) THEN End(c, "sink_failed") ELSE UNCHANGED <<pc, buf, tmp>>
    BY <1>7 DEF LandFails
  <2>2. n \in 0..Len(sent[c]) /\ sent[c] # <<>>
    BY <1>5, <2>1 DEF TypeInv, TypeOK
  <2> QED BY <1>4, <2>1, <2>2
<1>8. ASSUME WriteTmp(c) PROVE TypeInv'
  <2>1. tmp[c] \in Content
    BY <1>8 DEF WriteTmp, Draining, ToFs, TypeInv, Files
  <2>2. tmp[c] \o buf[c] \in Content
    BY <2>1, ContentClosed DEF TypeInv, TypeOK
  <2>3. TypeOK'
    BY <1>8, <2>2 DEF WriteTmp, TypeInv, TypeOK, Object, stores, fileSink, putSink
  <2>4. Files'
    BY <1>8, <2>2 DEF WriteTmp, TypeInv, TypeOK, Files, FromFs, ToFs, Draining,
       stores, fileSink, putSink
  <2> QED BY <2>3, <2>4 DEF TypeInv
<1> QED BY <1>1, <1>2, <1>3, <1>6, <1>7, <1>8

(* The steps of an upload, inside S3 included.                             *)
LEMMA PutTypes ==
    ASSUME TypeInv, NEW c \in Copies
    PROVE  /\ StartPut(c) => TypeInv'
           /\ Resend(c) => TypeInv'
           /\ S3Apply(c) => TypeInv'
           /\ S3Drop(c) => TypeInv'
<1> USE ConstantsAssumption, OutcomeNames
<1>1. ASSUME StartPut(c) PROVE TypeInv'
  <2>1. TypeOK'
    BY <1>1 DEF StartPut, TypeInv, TypeOK, Stage, stores, reading, fileSink, tmpSink
  <2>2. Files'
    BY <1>1 DEF StartPut, TypeInv, TypeOK, Files, FromFs, ToFs, Draining, stores,
       reading, fileSink, tmpSink
  <2> QED BY <2>1, <2>2 DEF TypeInv
<1>2. ASSUME Resend(c) PROVE TypeInv'
  BY <1>2 DEF Resend, TypeInv, TypeOK, Files, FromFs, ToFs, Draining, stores,
     reading, fileSink, tmpSink
<1>3. ASSUME S3Apply(c) PROVE TypeInv'
  BY <1>3 DEF S3Apply, Disturb, TypeInv, TypeOK, Files, FromFs, ToFs, Draining,
     Request, reading, fileSink, tmpSink
<1>4. ASSUME S3Drop(c) PROVE TypeInv'
  BY <1>4 DEF S3Drop, TypeInv, TypeOK, Files, FromFs, ToFs, Draining, stores,
     reading, fileSink, tmpSink
<1> QED BY <1>1, <1>2, <1>3, <1>4

(* Every step keeps types and files.                                       *)
LEMMA NextTypes == TypeInv /\ [Next]_vars => TypeInv'
<1> SUFFICES ASSUME TypeInv, [Next]_vars PROVE TypeInv'
  OBVIOUS
<1>1. CASE UNCHANGED vars
  BY <1>1 DEF vars, stores, reading, fileSink, tmpSink, putSink, TypeInv,
     TypeOK, Files, FromFs, ToFs, Draining
<1>2. ASSUME NEW c \in Copies,
             \/ Admit(c) \/ OpenReadFs(c) \/ OpenReadS3(c) \/ OpenWriteFs(c)
             \/ OpenTmp(c) \/ CreateTmp(c) \/ CreateTmpFails(c)
      PROVE  TypeInv'
  BY <1>2, OpenTypes
<1>3. ASSUME NEW c \in Copies,
             \/ Read(c) \/ ReadEof(c) \/ Write(c) \/ Land(c) \/ LandFails(c)
             \/ WriteTmp(c)
      PROVE  TypeInv'
  BY <1>3, CopyTypes
<1>4. ASSUME NEW c \in Copies,
             StartPut(c) \/ Resend(c) \/ S3Apply(c) \/ S3Drop(c)
      PROVE  TypeInv'
  BY <1>4, PutTypes
<1>5. ASSUME NEW c \in Copies,
             \/ ReadFails(c) \/ Stall(c) \/ FinishFs(c) \/ WriteTmpFails(c)
             \/ PrepareFails(c) \/ PutOk(c) \/ PutFails(c)
             \/ Timeout(c) \/ Disconnect(c)
      PROVE  TypeInv'
  <2>1. PICK o \in Outcome : Conclude(c, o)
    BY <1>5, OutcomeNames DEF ReadFails, Stall, FinishFs, WriteTmpFails,
       PrepareFails, PutOk, PutFails, Timeout, Disconnect
  <2> QED BY <2>1, ConcludeTypes
<1> QED BY <1>1, <1>2, <1>3, <1>4, <1>5 DEF Next

(* So they hold in every state.                                           *)
LEMMA TypeInvariant == Spec => []TypeInv
<1> QED BY InitTypes, NextTypes, PTL DEF Spec

(* Every state of every instance is typed: what a store, a buffer or a     *)
(* temporary file holds is content wherever the code takes it for content. *)
THEOREM TypeCorrect == Spec => []TypeOK
<1>1. TypeInv => TypeOK
  BY DEF TypeInv
<1> QED BY <1>1, TypeInvariant, PTL

-----------------------------------------------------------------------------
(* The cap.                                                                *)

(* CapRespected is not inductive: the blocks on their way to a sink count  *)
(* as well.  All the blocks a running copy has taken are in counter; its   *)
(* sink and its buffers never hold more.  A file that is open for writing  *)
(* was truncated, so it is within the cap even if it equals its initial    *)
(* content, which may be longer.                                           *)
Used(c) == off[c] + Len(sent[c]) + Len(buf[c])
Writing(c) == (ToFs(c) /\ Draining(c)) \/ sent[c] # <<>>
CapSinks(c) ==
    /\ Used(c) <= MaxBytes
    /\ Running(c) => Used(c) <= counter[c] /\ counter[c] <= MaxBytes
    /\ tmp[c] # Absent =>
         /\ Len(tmp[c]) + Len(buf[c]) <= MaxBytes
         /\ Running(c) => Len(tmp[c]) + Len(buf[c]) <= counter[c]
    /\ upload[c] # Absent => Len(upload[c]) <= MaxBytes
CapFile(c) == Writing(c) => Len(fs[req[c].to]) <= MaxBytes
CapStores ==
    \A p \in Paths :
        /\ fs[p] \notin {FsInit[p], Absent, Link} => Len(fs[p]) <= MaxBytes
        /\ s3[p] \notin {S3Init[p], Absent} => Len(s3[p]) <= MaxBytes
CapInv == CapStores /\ \A c \in Copies : CapSinks(c) /\ CapFile(c)

(* The lengths the arithmetic is about are natural numbers.                *)
LEMMA Lengths ==
    ASSUME TypeInv, NEW c \in Copies
    PROVE  /\ Len(buf[c]) \in Nat /\ Len(sent[c]) \in Nat
           /\ off[c] \in Nat /\ counter[c] \in Nat /\ MaxBytes \in Nat
           /\ tmp[c] # Absent => tmp[c] \in Content /\ Len(tmp[c]) \in Nat
           /\ upload[c] # Absent => upload[c] \in Content /\ Len(upload[c]) \in Nat
           /\ req[c].to \in Paths /\ req[c].from \in Paths
           /\ buf[c] \in Content /\ sent[c] \in Content
BY ContentClosed, ConstantsAssumption DEF TypeInv, TypeOK, Object, Request

(* A part of what fits does.                                               *)
LEMMA PartFits ==
    ASSUME NEW x \in Nat, NEW y \in Nat, NEW z \in Nat
    PROVE  /\ \A m \in Nat : x + y <= m => x <= m /\ y <= m
           /\ \A m \in Nat : x + y + z <= m => 0 + z <= m
           /\ \A m \in Nat : x + y <= m => x + 0 <= m
OBVIOUS

(* A chunk that is read fits if the counter with it does.                  *)
LEMMA ChunkFits ==
    ASSUME NEW x \in Nat, NEW y \in Nat, NEW z \in Nat, NEW k \in Nat,
           NEW m \in Nat, x + y <= k, k + z <= m
    PROVE  x + (y + z) <= k + z /\ x + (y + z) <= m
OBVIOUS

(* Blocks that leave the pool for the file take no more room.              *)
LEMMA LandedFits ==
    ASSUME NEW x \in Nat, NEW n \in Nat, NEW l \in Nat, NEW y \in Nat, n <= l,
           NEW z, z = 0
    PROVE  \A m \in Nat : x + l + y <= m => x + n + z + y <= m
OBVIOUS

(* What the invariant says of temporary files and stores is the property.  *)
LEMMA CapImplies == TypeInv /\ CapInv => CapRespected
<1> SUFFICES ASSUME TypeInv, CapInv PROVE CapRespected
  OBVIOUS
<1>1. ASSUME NEW c \in Copies, tmp[c] # Absent
      PROVE  Len(tmp[c]) <= MaxBytes
  <2>1. Len(tmp[c]) \in Nat /\ Len(buf[c]) \in Nat /\ MaxBytes \in Nat
    BY <1>1, Lengths
  <2>2. Len(tmp[c]) + Len(buf[c]) <= MaxBytes
    BY <1>1 DEF CapInv, CapSinks
  <2> QED BY <2>1, <2>2, PartFits
<1>2. CapStores
  BY DEF CapInv
<1> QED BY <1>1, <1>2 DEF CapStores, CapRespected

(* Nothing is on its way to a sink at the start.                           *)
LEMMA CapInit == Init => CapInv
<1> SUFFICES ASSUME Init PROVE CapInv
  OBVIOUS
<1>1. CapStores
  BY DEF Init, CapStores
<1>2. ASSUME NEW c \in Copies PROVE CapSinks(c) /\ CapFile(c)
  BY ContentClosed, ConstantsAssumption
  DEF Init, CapSinks, CapFile, Used, Writing, Running, Draining
<1> QED BY <1>1, <1>2 DEF CapInv

(* A step of c that leaves the stores alone only has to keep c's sinks.    *)
LEMMA CapFrame ==
    ASSUME TypeInv, CapInv, NEW c \in Copies,
           UNCHANGED <<fs, s3, req>>,
           \A e \in Copies \ {c} :
              /\ pc'[e] = pc[e] /\ buf'[e] = buf[e] /\ tmp'[e] = tmp[e]
              /\ sent'[e] = sent[e] /\ off'[e] = off[e]
              /\ counter'[e] = counter[e] /\ upload'[e] = upload[e],
           CapSinks(c)',
           Writing(c)' => Writing(c)
    PROVE  CapInv'
<1>1. CapStores'
  BY DEF CapInv, CapStores
<1>2. ASSUME NEW e \in Copies \ {c} PROVE CapSinks(e)' /\ CapFile(e)'
  BY <1>2 DEF CapInv, CapSinks, CapFile, Used, Writing, Running, Draining, ToFs
<1>3. CapFile(c)'
  BY DEF CapInv, CapFile
<1> QED BY <1>1, <1>2, <1>3 DEF CapInv

(* A handler that ends: its buffer and its temporary file only shrink.     *)
LEMMA EndCap ==
    ASSUME TypeInv, CapInv, NEW c \in Copies, NEW o \in Outcome, End(c, o),
           UNCHANGED <<fs, s3, req, sent, off, upload>>,
           \A e \in Copies \ {c} : counter'[e] = counter[e]
    PROVE  CapInv'
<1>1. /\ \A e \in Copies \ {c} : pc'[e] = pc[e] /\ buf'[e] = buf[e] /\ tmp'[e] = tmp[e]
      /\ pc'[c] = o /\ buf'[c] = <<>> /\ tmp'[c] = Absent
  BY DEF End, TypeInv, TypeOK
<1>2. o \notin Stage
  BY OutcomeNames DEF Stage
<1>3. CapSinks(c)'
  <2>1. /\ off[c] \in Nat /\ Len(sent[c]) \in Nat /\ Len(buf[c]) \in Nat
        /\ MaxBytes \in Nat
    BY Lengths
  <2>2. off[c] + Len(sent[c]) + Len(buf[c]) <= MaxBytes
    BY DEF CapInv, CapSinks, Used
  <2>3. off[c] + Len(sent[c]) + Len(<<>>) <= MaxBytes
    BY <2>1, <2>2, ContentClosed
  <2> QED BY <1>1, <1>2, <2>3 DEF CapInv, CapSinks, Used, Running
<1>4. Writing(c)' => Writing(c)
  BY <1>1, <1>2 DEF Writing, Draining, Stage
<1> QED BY <1>1, <1>3, <1>4, CapFrame

(* Steps that take or drop nothing: sinks, buffers and stores stay.        *)
LEMMA QuietCap ==
    ASSUME TypeInv, CapInv, NEW c \in Copies,
           UNCHANGED <<fs, s3, req, buf, tmp, sent, off, counter>>,
           \A e \in Copies \ {c} : pc'[e] = pc[e] /\ upload'[e] = upload[e],
           upload'[c] # Absent => Len(upload'[c]) <= MaxBytes,
           Running(c)' => Running(c),
           Draining(c)' => Draining(c) \/ ~ToFs(c)
    PROVE  CapInv'
<1>1. CapSinks(c)'
  BY DEF CapInv, CapSinks, Used
<1>2. Writing(c)' => Writing(c)
  BY DEF Writing, ToFs
<1> QED BY <1>1, <1>2, CapFrame

(* The steps up to the copy loop.                                          *)
LEMMA OpenCap ==
    ASSUME TypeInv, CapInv, NEW c \in Copies
    PROVE  /\ Admit(c) => CapInv'
           /\ OpenReadFs(c) => CapInv'
           /\ OpenReadS3(c) => CapInv'
           /\ OpenWriteFs(c) => CapInv'
           /\ OpenTmp(c) => CapInv'
           /\ CreateTmp(c) => CapInv'
           /\ CreateTmpFails(c) => CapInv'
<1> USE OutcomeNames
<1>0. ASSUME NEW o \in Outcome, Conclude(c, o) PROVE CapInv'
  BY <1>0, EndCap DEF Conclude, stores, fileSink, putSink
<1>1. ASSUME Admit(c) PROVE CapInv'
  <2>1. /\ pc' = [pc EXCEPT ![c] = Verdict(req[c])]
        /\ Verdict(req[c]) # "copying" /\ Verdict(req[c]) # "flushing"
        /\ pc[c] = "received"
        /\ UNCHANGED <<fs, s3, req, buf, tmp, sent, off, counter, upload>>
    BY <1>1 DEF Admit, Verdict, stores, reading, fileSink, tmpSink, putSink
  <2>2. /\ \A e \in Copies \ {c} : pc'[e] = pc[e] /\ upload'[e] = upload[e]
        /\ ~Draining(c)' /\ Running(c)
    BY <2>1 DEF TypeInv, TypeOK, Draining, Running, Stage
  <2>3. upload'[c] # Absent => Len(upload'[c]) <= MaxBytes
    BY <2>1 DEF CapInv, CapSinks
  <2> QED BY <2>1, <2>2, <2>3, QuietCap
<1>2. ASSUME NEW s, Opened(c, s), pc[c] = "opening" PROVE CapInv'
  <2>1. /\ pc' = [pc EXCEPT ![c] = "opened"]
        /\ UNCHANGED <<fs, s3, req, buf, tmp, sent, off, counter, upload>>
    BY <1>2 DEF Opened, stores, fileSink, tmpSink, putSink
  <2>2. /\ \A e \in Copies \ {c} : pc'[e] = pc[e] /\ upload'[e] = upload[e]
        /\ ~Draining(c)' /\ Running(c)
    BY <1>2, <2>1 DEF TypeInv, TypeOK, Draining, Running, Stage
  <2>3. upload'[c] # Absent => Len(upload'[c]) <= MaxBytes
    BY <2>1 DEF CapInv, CapSinks
  <2> QED BY <2>1, <2>2, <2>3, QuietCap
<1>3. ASSUME OpenReadFs(c) PROVE CapInv'
  BY <1>0, <1>2, <1>3 DEF OpenReadFs
<1>4. ASSUME OpenReadS3(c) PROVE CapInv'
  BY <1>0, <1>2, <1>4 DEF OpenReadS3
<1>5. ASSUME OpenWriteFs(c) PROVE CapInv'
  <2>1. CASE \E o \in Outcome : Conclude(c, o)
    BY <1>0, <2>1
  <2>2. CASE /\ fs' = [fs EXCEPT ![req[c].to] = <<>>]
             /\ pc' = [pc EXCEPT ![c] = "copying"]
             /\ UNCHANGED <<s3, req, buf, tmp, sent, off, counter, upload>>
    <3>1. /\ MaxBytes \in Nat /\ Len(<<>>) = 0 /\ req[c].to \in Paths
          /\ fs \in [Paths -> FsEntry] /\ pc \in [Copies -> Stage \cup Outcome]
          /\ pc[c] = "opened"
      BY <1>5, Lengths, ContentClosed DEF OpenWriteFs, TypeInv, TypeOK
    <3>2. /\ fs'[req[c].to] = <<>>
          /\ \A p \in Paths \ {req[c].to} : fs'[p] = fs[p]
      BY <2>2, <3>1
    <3>3. CapStores'
      BY <2>2, <3>1, <3>2 DEF CapInv, CapStores
    <3>4. ASSUME NEW e \in Copies PROVE CapSinks(e)' /\ CapFile(e)'
      <4>1. Running(e)' => Running(e)
        BY <2>2, <3>1 DEF Running, Stage
      <4>2. CapSinks(e)'
        BY <2>2, <4>1 DEF CapInv, CapSinks, Used
      <4>3. CASE req[e].to = req[c].to
        <5>1. fs'[req'[e].to] = <<>> /\ 0 <= MaxBytes
          BY <2>2, <3>1, <3>2, <4>3
        <5> QED BY <3>1, <4>2, <5>1 DEF CapFile
      <4>4. CASE req[e].to # req[c].to
        <5>1. e # c /\ req[e].to \in Paths /\ pc'[e] = pc[e]
          BY <2>2, <3>1, <4>4, Lengths
        <5> QED BY <2>2, <3>2, <4>2, <4>4, <5>1
                DEF CapInv, CapFile, Writing, ToFs, Draining
      <4> QED BY <4>2, <4>3, <4>4
    <3> QED BY <3>3, <3>4 DEF CapInv
  <2> QED BY <1>5, <2>1, <2>2
          DEF OpenWriteFs, reading, fileSink, tmpSink, putSink
<1>6. ASSUME /\ tmp' = [tmp EXCEPT ![c] = <<>>]
             /\ pc' = [pc EXCEPT ![c] = "creating"]
                \/ (pc[c] = "creating" /\ pc' = [pc EXCEPT ![c] = "copying"])
                \/ pc' = pc,
             Running(c)' => Running(c), Draining(c)' => Draining(c) \/ ~ToFs(c),
             UNCHANGED <<fs, s3, req, buf, sent, off, counter, upload>>
      PROVE  CapInv'
  <2>1. /\ \A e \in Copies \ {c} : pc'[e] = pc[e] /\ tmp'[e] = tmp[e]
        /\ tmp'[c] = <<>>
    BY <1>6 DEF TypeInv, TypeOK
  <2>2. /\ off[c] \in Nat /\ Len(sent[c]) \in Nat /\ Len(buf[c]) \in Nat
        /\ counter[c] \in Nat /\ MaxBytes \in Nat /\ Len(<<>>) = 0
    BY Lengths, ContentClosed
  <2>3. /\ Len(<<>>) + Len(buf[c]) <= MaxBytes
        /\ Running(c) => Len(<<>>) + Len(buf[c]) <= counter[c]
    <3>1. /\ off[c] + Len(sent[c]) + Len(buf[c]) <= MaxBytes
          /\ Running(c) => off[c] + Len(sent[c]) + Len(buf[c]) <= counter[c]
      BY DEF CapInv, CapSinks, Used
    <3> QED BY <2>2, <3>1, PartFits
  <2>4. CapSinks(c)'
    BY <1>6, <2>1, <2>3 DEF CapInv, CapSinks, Used
  <2>5. Writing(c)' => Writing(c)
    BY <1>6 DEF Writing, ToFs
  <2> QED BY <1>6, <2>1, <2>4, <2>5, CapFrame
<1>7. ASSUME OpenTmp(c) PROVE CapInv'
  <2>1. CASE \E o \in Outcome : Conclude(c, o)
    BY <1>0, <2>1
  <2>2. CASE /\ tmp' = [tmp EXCEPT ![c] = <<>>]
             /\ pc' = [pc EXCEPT ![c] = "creating"]
             /\ UNCHANGED <<fs, s3, req, buf, sent, off, counter, upload>>
    <3>1. Running(c) /\ ~Draining(c)'
      BY <1>7, <2>2 DEF OpenTmp, Running, Draining, Stage, TypeInv, TypeOK
    <3> QED BY <1>6, <2>2, <3>1
  <2> QED BY <1>7, <2>1, <2>2 DEF OpenTmp, stores, reading, fileSink, putSink
<1>8. ASSUME CreateTmp(c) PROVE CapInv'
  <2>1. /\ tmp' = [tmp EXCEPT ![c] = <<>>]
        /\ pc' = [pc EXCEPT ![c] = IF pc[c] = "creating" THEN "copying" ELSE pc[c]]
        /\ UNCHANGED <<fs, s3, req, buf, sent, off, counter, upload>>
    BY <1>8 DEF CreateTmp, stores, reading, fileSink, putSink
  <2>2. CASE pc[c] = "creating"
    <3>1. Running(c) /\ ~ToFs(c)
      BY <2>2 DEF Running, Stage, TypeInv, Files
    <3> QED BY <1>6, <2>1, <2>2, <3>1
  <2>3. CASE pc[c] # "creating"
    <3>1. pc' = pc
      BY <2>1, <2>3 DEF TypeInv, TypeOK
    <3> QED BY <1>6, <2>1, <3>1 DEF Running, Draining
  <2> QED BY <2>2, <2>3
<1>9. ASSUME CreateTmpFails(c) PROVE CapInv'
  <2>1. CASE pc[c] = "creating"
    BY <1>9, <2>1, EndCap DEF CreateTmpFails, stores, fileSink, putSink
  <2>2. CASE pc[c] # "creating"
    <3>1. UNCHANGED <<fs, s3, req, pc, buf, tmp, sent, off, counter, upload>>
      BY <1>9, <2>2 DEF CreateTmpFails, stores, fileSink, putSink
    <3>2. upload'[c] # Absent => Len(upload'[c]) <= MaxBytes
      BY <3>1 DEF CapInv, CapSinks
    <3> QED BY <3>1, <3>2, QuietCap DEF Running, Draining
  <2> QED BY <2>1, <2>2
<1> QED BY <1>1, <1>3, <1>4, <1>5, <1>7, <1>8, <1>9

(* A write of the pool: the n blocks it puts down fit, whoever else writes *)
(* the same file.                                                          *)
LEMMA PutDownCap ==
    ASSUME TypeInv, CapInv, NEW c \in Copies, NEW n \in 0..Len(sent[c]),
           sent[c] # <<>>, PutDown(c, n),
           UNCHANGED <<pc, buf, tmp>> \/ End(c, "sink_failed")
    PROVE  CapInv'
<1> DEFINE p == req[c].to
           w == WriteAt(fs[p], off[c], SubSeq(sent[c], 1, n))
<1>1. /\ sent[c] \in Content /\ off[c] \in Nat /\ n \in Nat /\ p \in Paths
      /\ MaxBytes \in Nat /\ Len(buf[c]) \in Nat /\ Len(sent[c]) \in Nat
      /\ Len(<<>>) = 0
  BY Lengths, ContentClosed
<1>2. fs[p] \in Content /\ Len(fs[p]) <= MaxBytes
  BY DEF TypeInv, Files, CapInv, CapFile, Writing
<1>3. SubSeq(sent[c], 1, n) \in Content /\ Len(SubSeq(sent[c], 1, n)) = n
  <2>1. 0 \in Nat /\ 0 <= n /\ n <= Len(sent[c]) /\ 0 + 1 = 1 /\ n - 0 = n
    BY <1>1
  <2>2. /\ SubSeq(sent[c], 0 + 1, n) \in Content
        /\ Len(SubSeq(sent[c], 0 + 1, n)) = n - 0
    BY <1>1, <2>1, ContentClosed
  <2> QED BY <2>1, <2>2
<1>4. off[c] + Len(sent[c]) + Len(buf[c]) <= MaxBytes
  BY DEF CapInv, CapSinks, Used
<1>5. off[c] + n <= MaxBytes
  BY <1>1, <1>4
<1>6. Len(w) <= MaxBytes
  <2>1. Len(w) = IF off[c] + Len(SubSeq(sent[c], 1, n)) > Len(fs[p])
                 THEN off[c] + Len(SubSeq(sent[c], 1, n)) ELSE Len(fs[p])
    <3>1. /\ fs[p] \in Content /\ off[c] \in Nat
          /\ SubSeq(sent[c], 1, n) \in Content
      BY <1>1, <1>2, <1>3
    <3> QED BY ONLY <3>1, WriteAtContent
  <2> HIDE DEF w
  <2> QED BY <1>2, <1>3, <1>5, <2>1
<1>7. /\ fs' = [fs EXCEPT ![p] = w]
      /\ off' = [off EXCEPT ![c] = @ + n]
      /\ sent' = [sent EXCEPT ![c] = <<>>]
      /\ UNCHANGED <<s3, req, counter, upload>>
  BY DEF PutDown, putSink
<1> HIDE DEF w
<1>8. /\ fs'[p] = w /\ \A r \in Paths \ {p} : fs'[r] = fs[r]
      /\ off'[c] = off[c] + n /\ sent'[c] = <<>>
      /\ \A e \in Copies \ {c} : /\ off'[e] = off[e] /\ sent'[e] = sent[e]
                                 /\ pc'[e] = pc[e] /\ buf'[e] = buf[e]
                                 /\ tmp'[e] = tmp[e]
  BY <1>1, <1>7 DEF End, TypeInv, TypeOK
<1>9. CapStores'
  BY <1>6, <1>7, <1>8 DEF CapInv, CapStores
<1>10. ASSUME NEW e \in Copies PROVE CapFile(e)'
  <2>1. CASE req[e].to = p
    BY <1>6, <1>7, <1>8, <2>1 DEF CapFile
  <2>2. CASE req[e].to # p
    <3>1. e # c /\ req[e].to \in Paths
      BY <2>2, Lengths
    <3> QED BY <1>7, <1>8, <2>2, <3>1
            DEF CapInv, CapFile, Writing, ToFs, Draining
  <2> QED BY <2>1, <2>2
<1>11. ASSUME NEW e \in Copies \ {c} PROVE CapSinks(e)'
  BY <1>7, <1>8 DEF CapInv, CapSinks, Used, Running
<1>12. CapSinks(c)'
  <2>1. CASE UNCHANGED <<pc, buf, tmp>>
    <3>1. counter[c] \in Nat /\ n <= Len(sent[c])
      BY <1>1, Lengths
    <3>2. Running(c) => off[c] + Len(sent[c]) + Len(buf[c]) <= counter[c]
      BY DEF CapInv, CapSinks, Used
    <3>3. /\ off[c] + n + Len(<<>>) + Len(buf[c]) <= MaxBytes
          /\ Running(c) => off[c] + n + Len(<<>>) + Len(buf[c]) <= counter[c]
      BY <1>1, <1>4, <3>1, <3>2, LandedFits
    <3>4. Used(c)' = off[c] + n + Len(<<>>) + Len(buf[c])
      BY <1>8, <2>1 DEF Used
    <3> QED BY <1>7, <2>1, <3>3, <3>4 DEF CapInv, CapSinks, Running
  <2>2. CASE End(c, "sink_failed")
    <3>1. buf'[c] = <<>> /\ tmp'[c] = Absent /\ ~Running(c)'
      BY <2>2 DEF End, Running, Stage, TypeInv, TypeOK
    <3>2. off[c] + n + Len(<<>>) + Len(<<>>) <= MaxBytes
      BY <1>1, <1>5
    <3>3. Used(c)' <= MaxBytes
      BY <1>8, <3>1, <3>2 DEF Used
    <3> QED BY <1>7, <3>1, <3>3 DEF CapInv, CapSinks
  <2> QED BY <2>1, <2>2
<1> QED BY <1>9, <1>10, <1>11, <1>12 DEF CapInv

(* The steps of the copy loop.                                             *)
LEMMA CopyCap ==
    ASSUME TypeInv, CapInv, NEW c \in Copies
    PROVE  /\ Read(c) => CapInv'
           /\ ReadEof(c) => CapInv'
           /\ Write(c) => CapInv'
           /\ Land(c) => CapInv'
           /\ LandFails(c) => CapInv'
           /\ WriteTmp(c) => CapInv'
<1>0. /\ Len(buf[c]) \in Nat /\ Len(sent[c]) \in Nat /\ off[c] \in Nat
      /\ counter[c] \in Nat /\ MaxBytes \in Nat /\ Len(<<>>) = 0
      /\ buf[c] \in Content
      /\ tmp[c] # Absent => Len(tmp[c]) \in Nat
  BY Lengths, ContentClosed
<1>1. ASSUME Read(c) PROVE CapInv'
  <2>1. PICK n \in 1..(BufSize - Len(buf[c])) :
          /\ Wants(c)
          /\ counter[c] + n <= Len(Source(c))
          /\ counter' = [counter EXCEPT ![c] = @ + n]
          /\ IF counter[c] + n > MaxBytes THEN End(c, "too_large")
             ELSE /\ buf' = [buf EXCEPT ![c] = @ \o
                               SubSeq(Source(c), counter[c] + 1, counter[c] + n)]
                  /\ UNCHANGED <<pc, tmp>>
          /\ UNCHANGED <<fs, s3, req, sent, off, upload>>
    BY <1>1 DEF Read, stores, fileSink, putSink
  <2>2. /\ n \in Nat /\ counter[c] + n \in Nat /\ counter'[c] = counter[c] + n
        /\ \A e \in Copies \ {c} : counter'[e] = counter[e]
    BY <1>0, <2>1 DEF TypeInv, TypeOK
  <2>3. CASE counter[c] + n > MaxBytes
    BY <2>1, <2>2, <2>3, OutcomeNames, EndCap
  <2>4. CASE ~(counter[c] + n > MaxBytes)
    <3> DEFINE new == SubSeq(Source(c), counter[c] + 1, counter[c] + n)
    <3>1. new \in Content /\ Len(new) = n
      <4>1. Source(c) \in Content
        BY <2>1, SourceContent DEF Wants
      <4>2. /\ counter[c] <= counter[c] + n
            /\ counter[c] + n - counter[c] = n
        BY <1>0, <2>2
      <4> QED BY <1>0, <2>1, <2>2, <4>1, <4>2, ContentClosed
    <3>2. /\ buf' = [buf EXCEPT ![c] = @ \o new]
          /\ UNCHANGED <<pc, tmp>>
      BY <2>1, <2>4
    <3> HIDE DEF new
    <3>3. /\ \A e \in Copies \ {c} : buf'[e] = buf[e]
          /\ buf'[c] = buf[c] \o new
      BY <3>2 DEF TypeInv, TypeOK
    <3>4. Len(buf'[c]) = Len(buf[c]) + n
      <4>1. buf[c] \in Content /\ new \in Content
        BY <1>0, <3>1
      <4>2. Len(buf[c] \o new) = Len(buf[c]) + Len(new)
        BY <4>1, ContentClosed
      <4> QED BY <3>1, <3>3, <4>2
    <3>5. Running(c)
      BY <2>1 DEF Wants, Running, Stage
    <3>6. Used(c) <= counter[c] /\ Used(c) \in Nat /\ Used(c)' = Used(c) + n
      <4>1. Used(c) <= counter[c]
        BY <3>5 DEF CapInv, CapSinks
      <4>2. Used(c) = off[c] + Len(sent[c]) + Len(buf[c])
        BY DEF Used
      <4>3. Used(c)' = off[c] + Len(sent[c]) + (Len(buf[c]) + n)
        BY <2>1, <3>4 DEF Used
      <4> QED BY <1>0, <2>2, <4>1, <4>2, <4>3
    <3>7. tmp[c] # Absent => Len(tmp[c]) + Len(buf[c]) <= counter[c]
      BY <3>5 DEF CapInv, CapSinks
    <3>8. counter'[c] <= MaxBytes /\ Used(c)' <= counter'[c] /\ Used(c)' <= MaxBytes
      BY <1>0, <2>2, <2>4, <3>6
    <3>9. ASSUME tmp[c] # Absent
          PROVE  /\ Len(tmp[c]) + Len(buf'[c]) <= counter'[c]
                 /\ Len(tmp[c]) + Len(buf'[c]) <= MaxBytes
      <4>1. Len(tmp[c]) \in Nat
        BY <1>0, <3>9
      <4>2. counter'[c] = counter[c] + n /\ counter[c] + n <= MaxBytes
        BY <1>0, <2>2, <2>4
      <4>3. Len(tmp[c]) + Len(buf[c]) <= counter[c]
        BY <3>7, <3>9
      <4>4. /\ Len(tmp[c]) + (Len(buf[c]) + n) <= counter[c] + n
            /\ Len(tmp[c]) + (Len(buf[c]) + n) <= MaxBytes
        BY <1>0, <2>2, <4>1, <4>2, <4>3, ChunkFits
      <4> QED BY <3>4, <4>2, <4>4
    <3>10. CapSinks(c)'
      BY <2>1, <3>2, <3>8, <3>9 DEF CapInv, CapSinks
    <3>11. Writing(c)' => Writing(c)
      BY <2>1, <3>2 DEF Writing, ToFs, Draining
    <3> QED BY <2>1, <2>2, <3>2, <3>3, <3>10, <3>11, CapFrame
  <2> QED BY <2>3, <2>4
<1>2. ASSUME ReadEof(c) PROVE CapInv'
  <2>1. /\ pc' = [pc EXCEPT ![c] = "flushing"]
        /\ UNCHANGED <<fs, s3, req, buf, tmp, sent, off, counter, upload>>
    BY <1>2 DEF ReadEof, stores, reading, fileSink, tmpSink, putSink
  <2>2. Draining(c) /\ Running(c)
    BY <1>2 DEF ReadEof, Wants, Draining, Running, Stage
  <2>3. upload'[c] # Absent => Len(upload'[c]) <= MaxBytes
    BY <2>1 DEF CapInv, CapSinks
  <2>4. \A e \in Copies \ {c} : pc'[e] = pc[e] /\ upload'[e] = upload[e]
    BY <2>1 DEF TypeInv, TypeOK
  <2> QED BY <2>1, <2>2, <2>3, <2>4, QuietCap
<1>3. ASSUME Write(c) PROVE CapInv'
  <2>1. /\ sent[c] = <<>> /\ Draining(c) /\ ToFs(c)
        /\ sent' = [sent EXCEPT ![c] = buf[c]]
        /\ buf' = [buf EXCEPT ![c] = <<>>]
        /\ UNCHANGED <<fs, s3, req, pc, tmp, off, counter, upload>>
    BY <1>3 DEF Write, stores, tmpSink, putSink
  <2>2. /\ \A e \in Copies \ {c} : sent'[e] = sent[e] /\ buf'[e] = buf[e]
        /\ sent'[c] = buf[c] /\ buf'[c] = <<>>
    BY <2>1 DEF TypeInv, TypeOK
  <2>3. Used(c)' = Used(c)
    BY <1>0, <2>1, <2>2 DEF Used
  <2>4. ASSUME tmp[c] # Absent
        PROVE  /\ Len(tmp[c]) + Len(<<>>) <= MaxBytes
               /\ Running(c) => Len(tmp[c]) + Len(<<>>) <= counter[c]
    <3>1. /\ Len(tmp[c]) + Len(buf[c]) <= MaxBytes
          /\ Running(c) => Len(tmp[c]) + Len(buf[c]) <= counter[c]
      BY <2>4 DEF CapInv, CapSinks
    <3>2. Len(tmp[c]) \in Nat
      BY <1>0, <2>4
    <3> QED BY <1>0, <3>1, <3>2, PartFits
  <2>6. CapSinks(c)'
    <3>1. /\ Used(c)' <= MaxBytes
          /\ Running(c)' => Used(c)' <= counter'[c] /\ counter'[c] <= MaxBytes
      BY <2>1, <2>3 DEF CapInv, CapSinks, Running
    <3>2. tmp'[c] = tmp[c] /\ counter'[c] = counter[c] /\ Running(c)' = Running(c)
      BY <2>1 DEF Running
    <3>3. tmp'[c] # Absent =>
             /\ Len(tmp'[c]) + Len(buf'[c]) <= MaxBytes
             /\ Running(c)' => Len(tmp'[c]) + Len(buf'[c]) <= counter'[c]
      BY <2>2, <2>4, <3>2
    <3> QED BY <2>1, <3>1, <3>3 DEF CapInv, CapSinks
  <2> QED BY <2>1, <2>2, <2>6, CapFrame DEF Writing
<1>4. ASSUME Land(c) PROVE CapInv'
  <2>1. Len(sent[c]) \in 0..Len(sent[c])
    BY <1>0
  <2> QED BY <1>4, <2>1, PutDownCap DEF Land
<1>5. ASSUME LandFails(c) PROVE CapInv'
  <2>1. PICK n \in 0..(Len(sent[c]) - 1) :
          /\ PutDown(c, n)
          /\ IF Running(c) THEN End(c, "sink_failed") ELSE UNCHANGED <<pc, buf, tmp>>
    BY <1>5 DEF LandFails
  <2>2. n \in 0..Len(sent[c]) /\ sent[c] # <<>>
    BY <1>0, <2>1
  <2> QED BY <2>1, <2>2, PutDownCap
<1>6. ASSUME WriteTmp(c) PROVE CapInv'
  <2>1. /\ Draining(c) /\ ~ToFs(c)
        /\ tmp' = [tmp EXCEPT ![c] = @ \o buf[c]]
        /\ buf' = [buf EXCEPT ![c] = <<>>]
        /\ UNCHANGED <<fs, s3, req, pc, sent, off, counter, upload>>
    BY <1>6 DEF WriteTmp, stores, fileSink, putSink
  <2>2. /\ \A e \in Copies \ {c} : tmp'[e] = tmp[e] /\ buf'[e] = buf[e]
        /\ tmp'[c] = tmp[c] \o buf[c] /\ buf'[c] = <<>>
    BY <2>1 DEF TypeInv, TypeOK
  <2>3. tmp[c] \in Content /\ tmp[c] # Absent
    BY <2>1, ConstantsAssumption DEF TypeInv, Files, Draining
  <2>4. Len(tmp'[c]) = Len(tmp[c]) + Len(buf[c])
    BY <1>0, <2>2, <2>3, ContentClosed
  <2>5. Len(tmp[c]) \in Nat /\ Running(c)
    BY <1>0, <2>1, <2>3 DEF Draining, Running, Stage
  <2>6. /\ Len(tmp[c]) + Len(buf[c]) <= MaxBytes
        /\ Len(tmp[c]) + Len(buf[c]) <= counter[c]
        /\ Used(c) <= MaxBytes /\ Used(c) <= counter[c] /\ counter[c] <= MaxBytes
    BY <2>3, <2>5 DEF CapInv, CapSinks
  <2>7. /\ Len(tmp'[c]) + Len(buf'[c]) <= MaxBytes
        /\ Len(tmp'[c]) + Len(buf'[c]) <= counter[c]
    <3>1. Len(buf'[c]) = 0
      BY <1>0, <2>2
    <3>2. Len(tmp'[c]) + Len(buf'[c]) = Len(tmp[c]) + Len(buf[c])
      BY <1>0, <2>4, <2>5, <3>1
    <3> QED BY <2>6, <3>2
  <2>8. Used(c)' <= Used(c) /\ Used(c) \in Nat /\ Used(c)' \in Nat
    BY <1>0, <2>1, <2>2 DEF Used
  <2>9. Used(c)' <= MaxBytes /\ Used(c)' <= counter[c]
    BY <1>0, <2>6, <2>8
  <2>10. CapSinks(c)'
    BY <2>1, <2>6, <2>7, <2>9 DEF CapInv, CapSinks
  <2> QED BY <2>1, <2>2, <2>10, CapFrame DEF Writing, ToFs, Draining
<1> QED BY <1>1, <1>2, <1>3, <1>4, <1>5, <1>6

(* The steps of an upload: S3 gets the temporary file, nothing more.       *)
LEMMA PutCap ==
    ASSUME TypeInv, CapInv, NEW c \in Copies
    PROVE  /\ StartPut(c) => CapInv'
           /\ Resend(c) => CapInv'
           /\ S3Apply(c) => CapInv'
           /\ S3Drop(c) => CapInv'
<1>1. ASSUME StartPut(c) PROVE CapInv'
  <2>1. /\ pc[c] = "flushing" /\ ~ToFs(c)
        /\ upload' = [upload EXCEPT ![c] = tmp[c]]
        /\ pc' = [pc EXCEPT ![c] = "putting"]
        /\ UNCHANGED <<fs, s3, req, buf, tmp, sent, off, counter>>
    BY <1>1 DEF StartPut, stores, reading, fileSink, tmpSink
  <2>2. /\ \A e \in Copies \ {c} : pc'[e] = pc[e] /\ upload'[e] = upload[e]
        /\ upload'[c] = tmp[c] /\ Running(c)
    BY <2>1 DEF TypeInv, TypeOK, Running, Stage
  <2>3. upload'[c] # Absent => Len(upload'[c]) <= MaxBytes
    BY <2>2, CapImplies DEF CapRespected
  <2> QED BY <2>1, <2>2, <2>3, QuietCap
<1>2. ASSUME UNCHANGED <<fs, s3, req, pc, buf, tmp, sent, off, counter, upload>>
      PROVE  CapInv'
  <2>1. upload'[c] # Absent => Len(upload'[c]) <= MaxBytes
    BY <1>2 DEF CapInv, CapSinks
  <2> QED BY <1>2, <2>1, QuietCap DEF Running, Draining
<1>3. ASSUME Resend(c) PROVE CapInv'
  BY <1>2, <1>3 DEF Resend, stores, reading, fileSink, tmpSink
<1>4. ASSUME S3Apply(c) PROVE CapInv'
  <2>1. /\ s3' = [s3 EXCEPT ![req[c].to] = upload[c]]
        /\ UNCHANGED <<fs, req, pc, buf, tmp, sent, off, counter, upload>>
    BY <1>4 DEF S3Apply, reading, fileSink, tmpSink
  <2>2. upload[c] # Absent => Len(upload[c]) <= MaxBytes
    BY DEF CapInv, CapSinks
  <2>3. \A p \in Paths : s3'[p] = s3[p] \/ s3'[p] = upload[c]
    BY <2>1 DEF TypeInv, TypeOK
  <2>4. CapStores'
    BY <2>1, <2>2, <2>3 DEF CapInv, CapStores
  <2>5. ASSUME NEW e \in Copies PROVE CapSinks(e)' /\ CapFile(e)'
    BY <2>1 DEF CapInv, CapSinks, CapFile, Used, Writing, Running, Draining, ToFs
  <2> QED BY <2>4, <2>5 DEF CapInv
<1>5. ASSUME S3Drop(c) PROVE CapInv'
  BY <1>2, <1>5 DEF S3Drop, stores, reading, fileSink, tmpSink
<1> QED BY <1>1, <1>3, <1>4, <1>5

(* Every step keeps the strengthened invariant.                            *)
LEMMA CapNext == TypeInv /\ CapInv /\ [Next]_vars => CapInv'
<1> SUFFICES ASSUME TypeInv, CapInv, [Next]_vars PROVE CapInv'
  OBVIOUS
<1>1. CASE UNCHANGED vars
  BY <1>1 DEF vars, stores, reading, fileSink, tmpSink, putSink, CapInv,
     CapStores, CapSinks, CapFile, Used, Writing, Running, Draining, ToFs
<1>2. ASSUME NEW c \in Copies,
             \/ Admit(c) \/ OpenReadFs(c) \/ OpenReadS3(c) \/ OpenWriteFs(c)
             \/ OpenTmp(c) \/ CreateTmp(c) \/ CreateTmpFails(c)
      PROVE  CapInv'
  BY <1>2, OpenCap
<1>3. ASSUME NEW c \in Copies,
             \/ Read(c) \/ ReadEof(c) \/ Write(c) \/ Land(c) \/ LandFails(c)
             \/ WriteTmp(c)
      PROVE  CapInv'
  BY <1>3, CopyCap
<1>4. ASSUME NEW c \in Copies,
             StartPut(c) \/ Resend(c) \/ S3Apply(c) \/ S3Drop(c)
      PROVE  CapInv'
  BY <1>4, PutCap
<1>5. ASSUME NEW c \in Copies,
             \/ ReadFails(c) \/ Stall(c) \/ FinishFs(c) \/ WriteTmpFails(c)
             \/ PrepareFails(c) \/ PutOk(c) \/ PutFails(c)
             \/ Timeout(c) \/ Disconnect(c)
      PROVE  CapInv'
  <2>1. PICK o \in Outcome : Conclude(c, o)
    BY <1>5, OutcomeNames DEF ReadFails, Stall, FinishFs, WriteTmpFails,
       PrepareFails, PutOk, PutFails, Timeout, Disconnect
  <2> QED BY <2>1, EndCap DEF Conclude, stores, fileSink, putSink
<1> QED BY <1>1, <1>2, <1>3, <1>4, <1>5 DEF Next

(* LimitedReader's cap bounds whatever copies leave behind: for any number *)
(* of copies in any order, with any outcome, no file, object or temporary  *)
(* file they create or change is longer than MaxBytes.                     *)
THEOREM CapCorrect == Spec => []CapRespected
<1> QED BY TypeInvariant, CapInit, CapNext, CapImplies, PTL DEF Spec

-----------------------------------------------------------------------------
(* What a reply says of the two stores.                                    *)
(*                                                                         *)
(* The inductive invariant, of each copy by itself.  calm[c] tells the     *)
(* copies that nobody interfered with: others change files and objects of  *)
(* c only together with calm[c].                                           *)

(* Nothing was taken before the sink is open, nothing uploaded before      *)
(* put_object; a temporary file is created anew only before the loop.      *)
Before == {"received", "opening", "opened", "creating"}
NotBegun(c) ==
    /\ pc[c] \in Before =>
         counter[c] = 0 /\ off[c] = 0 /\ buf[c] = <<>> /\ sent[c] = <<>>
    /\ pc[c] \in Before \cup {"copying", "flushing"} => flying[c] = 0 /\ ~stored[c]
    /\ making[c] /\ Running(c) => pc[c] = "creating"

(* One side of an admitted copy is S3; its source is what it opened.       *)
Open(c) == pc[c] \in {"opened", "creating", "copying", "flushing", "putting"}
SourceKept(c) ==
    /\ Open(c) \/ pc[c] = "opening" => (FromFs(c) <=> ~ToFs(c))
    /\ Open(c) /\ calm[c] => Source(c) = snap[c]

(* File, pool and buffer joined, or temporary file and buffer, are the     *)
(* blocks taken; at the end of the source these are all of it.             *)
Taken(c) == SubSeq(snap[c], 1, counter[c])
FileSink(c) ==
    /\ sent[c] # <<>> => ToFs(c)
    /\ Draining(c) /\ ToFs(c) /\ calm[c] =>
         /\ Len(fs[req[c].to]) = off[c]
         /\ (fs[req[c].to] \o sent[c]) \o buf[c] = Taken(c)
TmpSink(c) ==
    Draining(c) /\ ~ToFs(c) =>
        /\ Len(tmp[c]) + Len(buf[c]) = counter[c]
        /\ calm[c] => tmp[c] \o buf[c] = Taken(c)
Progress(c) ==
    calm[c] => /\ Draining(c) => counter[c] <= Len(snap[c])
               /\ pc[c] = "flushing" => counter[c] = Len(snap[c])

(* What is uploaded is the whole source, and stays it after the reply.     *)
PutKept(c) ==
    /\ pc[c] = "putting" \/ flying[c] > 0 \/ stored[c] =>
         /\ ~ToFs(c)
         /\ Len(upload[c]) = counter[c]
         /\ calm[c] => upload[c] = snap[c]
    /\ stored[c] /\ calm[c] => s3[req[c].to] = upload[c]

(* A copy that was answered 204 has nothing left to do.                    *)
Settles(c) ==
    pc[c] = "copied" =>
        IF ToFs(c) THEN sent[c] = <<>> /\ (calm[c] => fs[req[c].to] = snap[c])
        ELSE stored[c]

Sound(c) ==
    /\ NotBegun(c) /\ SourceKept(c) /\ FileSink(c) /\ TmpSink(c)
    /\ Progress(c) /\ PutKept(c) /\ Settles(c)
FaithInv == \A c \in Copies : Sound(c)

-----------------------------------------------------------------------------
(* Facts about sequences.                                                  *)

(* Content that is taken on in order: the blocks after the first m are     *)
(* joined to them; all blocks are the content.                             *)
LEMMA Joins ==
    /\ \A s, t, u \in Content : (s \o t) \o u = s \o (t \o u)
    /\ \A s \in Content : s \o <<>> = s /\ <<>> \o s = s
    /\ \A s \in Content : SubSeq(s, 1, 0) = <<>> /\ SubSeq(s, 1, Len(s)) = s
    /\ \A s \in Content : \A m, n \in Nat : m + n <= Len(s) =>
         SubSeq(s, 1, m) \o SubSeq(s, m + 1, m + n) = SubSeq(s, 1, m + n)
<1>1. \A s, t, u \in Content : (s \o t) \o u = s \o (t \o u)
  BY ConcatAssociative DEF Content
<1>2. \A s \in Content : s \o <<>> = s /\ <<>> \o s = s
  BY ConcatEmptySeq DEF Content
<1>3. \A s \in Content : SubSeq(s, 1, 0) = <<>> /\ SubSeq(s, 1, Len(s)) = s
  BY SubSeqEmpty, SubSeqFull DEF Content
<1>4. ASSUME NEW s \in Content, NEW m \in Nat, NEW n \in Nat, m + n <= Len(s)
      PROVE  SubSeq(s, 1, m) \o SubSeq(s, m + 1, m + n) = SubSeq(s, 1, m + n)
  <2>1. /\ Len(s) \in Nat /\ 1 \in 1..Len(s) + 1
        /\ m \in 1 - 1..Len(s) /\ m + n \in m..Len(s)
    BY <1>4, ContentClosed
  <2> QED BY <2>1, ConcatAdjacentSubSeq DEF Content
<1> QED BY <1>1, <1>2, <1>3, <1>4

(* The first of them, of three given contents.                             *)
LEMMA Regroup ==
    ASSUME NEW s \in Content, NEW t \in Content, NEW u \in Content
    PROVE  (s \o t) \o u = s \o (t \o u)
BY Joins

(* A write at the end of a file appends.                                   *)
LEMMA WriteAtEnd ==
    ASSUME NEW s \in Content, NEW b \in Content
    PROVE  WriteAt(s, Len(s), b) = s \o b
<1> DEFINE w == WriteAt(s, Len(s), b)
           n == Len(s) + Len(b)
<1>1. Len(s) \in Nat /\ Len(b) \in Nat /\ n \in Nat
  BY ContentClosed
<1>2. w \in Content /\ Len(w) = n
  <2>1. /\ w \in Content
        /\ Len(w) = IF Len(s) + Len(b) > Len(s) THEN Len(s) + Len(b) ELSE Len(s)
    BY <1>1, WriteAtContent
  <2> QED BY <1>1, <2>1
<1>3. s \o b \in Content /\ Len(s \o b) = n
  BY ContentClosed
<1>4. ASSUME NEW i \in 1..n PROVE w[i] = (s \o b)[i]
  <2>1. (s \o b)[i] = IF i <= Len(s) THEN s[i] ELSE b[i - Len(s)]
    BY <1>1, ConcatProperties DEF Content
  <2>2. w[i] = IF i > Len(s) /\ i <= n THEN b[i - Len(s)]
               ELSE IF i <= Len(s) THEN s[i] ELSE Hole
    <3>1. i \in 1..(IF Len(s) + Len(b) > Len(s) THEN Len(s) + Len(b) ELSE Len(s))
      BY <1>1
    <3> QED BY <3>1 DEF WriteAt
  <2> QED BY <1>1, <2>1, <2>2
<1> HIDE DEF w, n
<1>5. w = s \o b
  BY <1>1, <1>2, <1>3, <1>4, SeqEqual DEF Content
<1> QED BY <1>5 DEF w

-----------------------------------------------------------------------------
(* Frames: what a step of c leaves to the other copies.                    *)

(* The variables of a copy that only its own steps change.                 *)
Same(e) ==
    /\ pc'[e] = pc[e] /\ snap'[e] = snap[e] /\ counter'[e] = counter[e]
    /\ buf'[e] = buf[e] /\ sent'[e] = sent[e] /\ off'[e] = off[e]
    /\ tmp'[e] = tmp[e] /\ making'[e] = making[e] /\ upload'[e] = upload[e]
    /\ flying'[e] = flying[e] /\ stored'[e] = stored[e]

(* A copy whose own variables stay is still sound, if the files and the    *)
(* objects it relies on stay as well or calm[e] falls.                     *)
LEMMA OtherSound ==
    ASSUME NEW e \in Copies, Sound(e), Same(e), req' = req,
           calm'[e] => calm[e],
           calm'[e] /\ Open(e) /\ FromFs(e) => fs'[req[e].from] = fs[req[e].from],
           calm'[e] /\ ToFs(e) /\ (Draining(e) \/ pc[e] = "copied")
              => fs'[req[e].to] = fs[req[e].to],
           calm'[e] /\ ~ToFs(e) /\ stored[e] => s3'[req[e].to] = s3[req[e].to]
    PROVE  Sound(e)'
<1>1. NotBegun(e)'
  BY DEF Sound, NotBegun, Same, Running
<1>2. SourceKept(e)'
  BY DEF Sound, SourceKept, Same, Open, FromFs, ToFs, Source
<1>3. FileSink(e)'
  BY DEF Sound, FileSink, Same, Draining, ToFs, Taken
<1>4. TmpSink(e)'
  BY DEF Sound, TmpSink, Same, Draining, ToFs, Taken
<1>5. Progress(e)'
  BY DEF Sound, Progress, Same, Draining
<1>6. PutKept(e)'
  BY DEF Sound, PutKept, Same, ToFs
<1>7. Settles(e)'
  BY DEF Sound, Settles, Same, ToFs
<1> QED BY <1>1, <1>2, <1>3, <1>4, <1>5, <1>6, <1>7 DEF Sound

(* A step of c that changes neither store keeps the invariant if it keeps  *)
(* c sound.                                                                *)
LEMMA LocalFrame ==
    ASSUME FaithInv, NEW c \in Copies, UNCHANGED <<fs, s3, req, calm>>,
           \A e \in Copies \ {c} : Same(e),
           Sound(c)'
    PROVE  FaithInv'
<1>1. ASSUME NEW e \in Copies \ {c} PROVE Sound(e)'
  BY <1>1, OtherSound DEF FaithInv
<1> QED BY <1>1 DEF FaithInv

(* A step of c that changes one file keeps the other copies sound: those   *)
(* that rely on it are told (calm).                                        *)
LEMMA FileFrame ==
    ASSUME TypeInv, FaithInv, NEW c \in Copies, NEW p \in Paths,
           \A q \in Paths \ {p} : fs'[q] = fs[q],
           UNCHANGED <<s3, req>>, Disturb(FileUsers(p, c)),
           \A e \in Copies \ {c} : Same(e),
           Sound(c)'
    PROVE  FaithInv'
<1>1. ASSUME NEW e \in Copies \ {c} PROVE Sound(e)'
  <2>1. calm'[e] <=> calm[e] /\ e \notin FileUsers(p, c)
    BY DEF Disturb
  <2>2. req[e].from \in Paths /\ req[e].to \in Paths
    BY DEF TypeInv, TypeOK, Request
  <2>3. calm'[e] /\ Open(e) /\ FromFs(e) => req[e].from # p
    BY <2>1 DEF FileUsers, Open, Running, Stage
  <2>4. calm'[e] /\ ToFs(e) /\ (Draining(e) \/ pc[e] = "copied") => req[e].to # p
    BY <2>1 DEF FileUsers, Draining
  <2> QED BY <2>1, <2>2, <2>3, <2>4, OtherSound DEF FaithInv
<1> QED BY <1>1 DEF FaithInv

-----------------------------------------------------------------------------
(* The steps.                                                              *)

(* A handler that ends otherwise than with 204: what it has handed over    *)
(* stays as it is.                                                         *)
LEMMA EndSound ==
    ASSUME TypeInv, FaithInv, NEW c \in Copies, NEW o \in Outcome \ {"copied"},
           End(c, o),
           UNCHANGED <<fs, s3, req, calm, snap, sent, off, putSink>>,
           \A e \in Copies \ {c} : making'[e] = making[e] /\ counter'[e] = counter[e],
           Draining(c) \/ counter'[c] = counter[c]
    PROVE  FaithInv'
<1>1. /\ pc'[c] = o /\ o \notin Stage /\ o # "copied"
      /\ \A e \in Copies \ {c} : Same(e)
  BY OutcomeNames DEF End, Stage, TypeInv, TypeOK, Same, putSink
<1>2. NotBegun(c)' /\ SourceKept(c)' /\ TmpSink(c)' /\ Progress(c)' /\ Settles(c)'
  BY <1>1 DEF NotBegun, SourceKept, TmpSink, Progress, Settles, Before, Open,
     Draining, Running, Stage
<1>3. FileSink(c)'
  BY <1>1 DEF FaithInv, Sound, FileSink, Draining, ToFs, Stage
<1>4. PutKept(c)'
  <2>1. CASE counter'[c] = counter[c]
    BY <1>1, <2>1 DEF FaithInv, Sound, PutKept, ToFs, putSink, Stage
  <2>2. CASE Draining(c)
    <3>1. flying[c] = 0 /\ ~stored[c]
      BY <2>2 DEF FaithInv, Sound, NotBegun, Draining
    <3> QED BY <1>1, <3>1 DEF PutKept, putSink, Stage
  <2> QED BY <2>1, <2>2
<1> QED BY <1>1, <1>2, <1>3, <1>4, LocalFrame DEF Sound

LEMMA ConcludeSound ==
    ASSUME TypeInv, FaithInv, NEW c \in Copies, NEW o \in Outcome \ {"copied"},
           Conclude(c, o)
    PROVE  FaithInv'
BY EndSound DEF Conclude, stores, fileSink

(* A step in which the copy only moves to another stage before the loop.   *)
LEMMA OpenSound ==
    ASSUME TypeInv, FaithInv, NEW c \in Copies
    PROVE  /\ Admit(c) => FaithInv'
           /\ OpenReadFs(c) => FaithInv'
           /\ OpenReadS3(c) => FaithInv'
           /\ OpenWriteFs(c) => FaithInv'
           /\ OpenTmp(c) => FaithInv'
           /\ CreateTmp(c) => FaithInv'
           /\ CreateTmpFails(c) => FaithInv'
<1> USE OutcomeNames, ContentClosed
<1>1. ASSUME Admit(c) PROVE FaithInv'
  <2>1. /\ pc[c] = "received" /\ pc'[c] = Verdict(req[c])
        /\ Verdict(req[c]) \in {"same_type", "invalid_path", "no_backend", "opening"}
        /\ Verdict(req[c]) = "opening" => (FromFs(c) <=> ~ToFs(c))
        /\ UNCHANGED <<fs, s3, req, calm>> /\ \A e \in Copies \ {c} : Same(e)
        /\ UNCHANGED <<snap, counter, buf, sent, off, tmp, making, upload, flying, stored>>
    BY <1>1 DEF Admit, Verdict, TypeInv, TypeOK, Request, Store, FromFs, ToFs, Same,
       stores, reading, fileSink, tmpSink, putSink
  <2>2. Sound(c)'
    BY <2>1 DEF FaithInv, Sound, NotBegun, SourceKept, FileSink, TmpSink, Progress,
       PutKept, Settles, Before, Open, Draining, Running, Stage, FromFs, ToFs
  <2> QED BY <2>1, <2>2, LocalFrame
<1>2. ASSUME NEW s, Opened(c, s), pc[c] = "opening",
             s = IF FromFs(c) THEN fs[req[c].from] ELSE s3[req[c].from]
      PROVE  FaithInv'
  <2>1. /\ pc'[c] = "opened" /\ snap'[c] = s
        /\ UNCHANGED <<fs, s3, req, calm>> /\ \A e \in Copies \ {c} : Same(e)
        /\ UNCHANGED <<counter, buf, sent, off, tmp, making, upload, flying, stored>>
    BY <1>2 DEF Opened, TypeInv, TypeOK, Same, stores, fileSink, tmpSink, putSink
  <2>2. SourceKept(c)'
    BY <1>2, <2>1 DEF FaithInv, Sound, SourceKept, Open, FromFs, ToFs, Source
  <2>3. NotBegun(c)'
    BY <1>2, <2>1 DEF FaithInv, Sound, NotBegun, Before, Running, Stage
  <2>4. FileSink(c)' /\ TmpSink(c)' /\ Progress(c)' /\ Settles(c)'
    BY <1>2, <2>1 DEF FaithInv, Sound, FileSink, TmpSink, Progress, Settles, Draining, ToFs
  <2>5. PutKept(c)'
    BY <1>2, <2>1 DEF FaithInv, Sound, NotBegun, PutKept, Before
  <2> QED BY <2>1, <2>2, <2>3, <2>4, <2>5, LocalFrame DEF Sound
<1>3. ASSUME OpenReadFs(c) PROVE FaithInv'
  BY <1>2, <1>3, ConcludeSound DEF OpenReadFs
<1>4. ASSUME OpenReadS3(c) PROVE FaithInv'
  BY <1>2, <1>4, ConcludeSound DEF OpenReadS3
<1>5. ASSUME OpenWriteFs(c) PROVE FaithInv'
  <2>1. CASE \E o \in Outcome \ {"copied"} : Conclude(c, o)
    BY <2>1, ConcludeSound
  <2>2. CASE /\ fs' = [fs EXCEPT ![req[c].to] = <<>>]
             /\ pc' = [pc EXCEPT ![c] = "copying"]
             /\ Disturb(FileUsers(req[c].to, c))
             /\ UNCHANGED <<s3, s3kind, req, reading, fileSink, tmpSink, putSink, solo>>
    <3>1. /\ pc[c] = "opened" /\ ToFs(c) /\ ~FromFs(c) /\ req[c].to \in Paths
          /\ snap[c] \in Content
      BY <1>5 DEF OpenWriteFs, FaithInv, Sound, SourceKept, Open, TypeInv, TypeOK, Request
    <3>2. /\ pc'[c] = "copying" /\ fs'[req[c].to] = <<>>
          /\ \A q \in Paths \ {req[c].to} : fs'[q] = fs[q]
          /\ \A e \in Copies \ {c} : Same(e)
          /\ calm'[c] = calm[c] /\ req' = req
          /\ UNCHANGED <<snap, counter, buf, sent, off, tmp, making, upload, flying, stored>>
      BY <2>2, <3>1 DEF TypeInv, TypeOK, Same, reading, fileSink, tmpSink, putSink,
         Disturb, FileUsers
    <3>3. counter[c] = 0 /\ off[c] = 0 /\ buf[c] = <<>> /\ sent[c] = <<>>
          /\ flying[c] = 0 /\ ~stored[c] /\ making[c] = FALSE
      BY <3>1 DEF FaithInv, Sound, NotBegun, Before, TypeInv, TypeOK, Running, Stage
    <3>4. FileSink(c)'
      <4>1. (<<>> \o <<>>) \o <<>> = SubSeq(snap[c], 1, 0)
        BY <3>1, Joins
      <4> QED BY <3>2, <3>3, <4>1 DEF FileSink, Taken
    <3>5. Sound(c)'
      BY <3>1, <3>2, <3>3, <3>4 DEF FaithInv, Sound, NotBegun, SourceKept, TmpSink, Progress,
         PutKept, Settles, Before, Open, Draining, Running, Stage, FromFs, ToFs, Source
    <3> QED BY <2>2, <3>1, <3>2, <3>5, FileFrame
  <2> QED BY <1>5, <2>1, <2>2 DEF OpenWriteFs
<1>6. ASSUME OpenTmp(c) PROVE FaithInv'
  <2>1. CASE \E o \in Outcome \ {"copied"} : Conclude(c, o)
    BY <2>1, ConcludeSound
  <2>2. CASE /\ tmp' = [tmp EXCEPT ![c] = <<>>]
             /\ making' = [making EXCEPT ![c] = TRUE]
             /\ pc' = [pc EXCEPT ![c] = "creating"]
             /\ UNCHANGED <<stores, req, reading, fileSink, putSink, calm, solo>>
    <3>1. /\ pc[c] = "opened" /\ pc'[c] = "creating"
          /\ UNCHANGED <<fs, s3, req, calm>> /\ \A e \in Copies \ {c} : Same(e)
          /\ UNCHANGED <<snap, counter, buf, sent, off, upload, flying, stored>>
      BY <1>6, <2>2 DEF OpenTmp, TypeInv, TypeOK, Same, stores, reading, fileSink, putSink
    <3>2. Sound(c)'
      BY <3>1 DEF FaithInv, Sound, NotBegun, SourceKept, FileSink, TmpSink, Progress,
         PutKept, Settles, Before, Open, Draining, Running, Stage, FromFs, ToFs, Source
    <3> QED BY <3>1, <3>2, LocalFrame
  <2> QED BY <1>6, <2>1, <2>2 DEF OpenTmp
<1>7. ASSUME CreateTmp(c) PROVE FaithInv'
  <2>1. /\ making[c] /\ making'[c] = FALSE /\ tmp'[c] = <<>>
        /\ pc'[c] = IF pc[c] = "creating" THEN "copying" ELSE pc[c]
        /\ UNCHANGED <<fs, s3, req, calm>> /\ \A e \in Copies \ {c} : Same(e)
        /\ UNCHANGED <<snap, counter, buf, sent, off, upload, flying, stored>>
    BY <1>7 DEF CreateTmp, TypeInv, TypeOK, Same, stores, reading, fileSink, putSink
  <2>2. CASE pc[c] = "creating"
    <3>1. counter[c] = 0 /\ buf[c] = <<>> /\ ~ToFs(c) /\ snap[c] \in Content
      BY <2>2 DEF FaithInv, Sound, NotBegun, Before, TypeInv, TypeOK, Files
    <3>2. TmpSink(c)'
      <4>1. <<>> \o <<>> = SubSeq(snap[c], 1, 0) /\ 0 + 0 = 0
        BY <3>1, Joins
      <4> QED BY <2>1, <3>1, <4>1 DEF TmpSink, Taken
    <3>3. Progress(c)'
      <4>1. Len(snap[c]) \in Nat
        BY <3>1
      <4> QED BY <2>1, <2>2, <3>1, <4>1 DEF Progress, Draining
    <3>4. Sound(c)'
      BY <2>1, <2>2, <3>1, <3>2, <3>3 DEF FaithInv, Sound, NotBegun, SourceKept, FileSink,
         PutKept, Settles, Before, Open, Draining, Running, Stage, FromFs, ToFs, Source
    <3> QED BY <2>1, <3>4, LocalFrame
  <2>3. CASE pc[c] # "creating"
    <3>1. ~Running(c) /\ pc'[c] = pc[c]
      BY <2>1, <2>3 DEF FaithInv, Sound, NotBegun
    <3>2. Sound(c)'
      BY <2>1, <3>1 DEF FaithInv, Sound, NotBegun, SourceKept, FileSink, TmpSink,
         Progress, PutKept, Settles, Before, Open, Draining, Running, Stage, FromFs, ToFs
    <3> QED BY <2>1, <3>2, LocalFrame
  <2> QED BY <2>2, <2>3
<1>8. ASSUME CreateTmpFails(c) PROVE FaithInv'
  <2>1. CASE pc[c] = "creating"
    BY <1>8, <2>1, EndSound DEF CreateTmpFails, stores, fileSink, TypeInv, TypeOK
  <2>2. CASE pc[c] # "creating"
    <3>1. /\ making'[c] = FALSE
          /\ UNCHANGED <<fs, s3, req, calm>> /\ \A e \in Copies \ {c} : Same(e)
          /\ UNCHANGED <<pc, snap, counter, buf, sent, off, tmp, upload, flying, stored>>
      BY <1>8, <2>2 DEF CreateTmpFails, TypeInv, TypeOK, Same, stores, fileSink, putSink
    <3>2. Sound(c)'
      BY <3>1 DEF FaithInv, Sound, NotBegun, SourceKept, FileSink, TmpSink,
         Progress, PutKept, Settles, Open, Draining, Running, FromFs, ToFs,
         Source, Taken
    <3> QED BY <3>1, <3>2, LocalFrame
  <2> QED BY <2>1, <2>2
<1> QED BY <1>1, <1>3, <1>4, <1>5, <1>6, <1>7, <1>8

(* The copy loop: what is read is the next part of the source, and it goes *)
(* on to the sink in order.                                                *)
LEMMA ReadSound ==
    ASSUME TypeInv, FaithInv, NEW c \in Copies, Read(c)
    PROVE  FaithInv'
<1>1. PICK n \in 1..(BufSize - Len(buf[c])) :
        /\ Wants(c)
        /\ counter[c] + n <= Len(Source(c))
        /\ counter' = [counter EXCEPT ![c] = @ + n]
        /\ IF counter[c] + n > MaxBytes THEN End(c, "too_large")
           ELSE /\ buf' = [buf EXCEPT ![c] = @ \o
                             SubSeq(Source(c), counter[c] + 1, counter[c] + n)]
                /\ UNCHANGED <<pc, tmp>>
        /\ UNCHANGED <<fs, s3, req, snap, sent, off, making, upload, flying, stored, calm>>
  BY DEF Read, stores, fileSink, putSink
<1>2. /\ pc[c] = "copying" /\ Draining(c) /\ n \in Nat /\ counter[c] \in Nat
      /\ buf[c] \in Content /\ sent[c] \in Content /\ snap[c] \in Content
      /\ Source(c) \in Content
  BY <1>1, SourceContent DEF Wants, Draining, TypeInv, TypeOK
<1>3. CASE counter[c] + n > MaxBytes
  <2>1. "too_large" \in Outcome \ {"copied"}
    BY OutcomeNames
  <2>2. \A e \in Copies \ {c} : making'[e] = making[e] /\ counter'[e] = counter[e]
    BY <1>1 DEF TypeInv, TypeOK
  <2> QED BY <1>1, <1>2, <1>3, <2>1, <2>2, EndSound DEF putSink
<1>4. CASE ~(counter[c] + n > MaxBytes)
  <2> DEFINE part == SubSeq(Source(c), counter[c] + 1, counter[c] + n)
  <2>1. part \in Content /\ Len(part) = n
    <3>1. counter[c] + n \in Nat /\ counter[c] <= counter[c] + n /\ (counter[c] + n) - counter[c] = n
      BY <1>2
    <3> QED BY <1>1, <1>2, <3>1, ContentClosed
  <2>2. calm[c] => Source(c) = snap[c] /\ Taken(c) \o part = SubSeq(snap[c], 1, counter[c] + n)
    <3>1. calm[c] => Source(c) = snap[c]
      BY <1>2 DEF FaithInv, Sound, SourceKept, Open
    <3>2. counter[c] + n <= Len(snap[c]) =>
            Taken(c) \o SubSeq(snap[c], counter[c] + 1, counter[c] + n)
              = SubSeq(snap[c], 1, counter[c] + n)
      BY <1>2, Joins DEF Taken
    <3> QED BY <1>1, <3>1, <3>2
  <2> HIDE DEF part
  <2>3. /\ counter'[c] = counter[c] + n /\ buf'[c] = buf[c] \o part
        /\ \A e \in Copies \ {c} : Same(e)
        /\ UNCHANGED <<pc, tmp>>
    BY <1>1, <1>4 DEF TypeInv, TypeOK, Same, part
  <2>4. Len(buf[c] \o part) = Len(buf[c]) + n /\ Len(buf[c]) \in Nat
    BY <1>2, <2>1, ContentClosed
  <2>5. FileSink(c)'
    <3>1. ASSUME ToFs(c), calm[c]
          PROVE  (fs[req[c].to] \o sent[c]) \o (buf[c] \o part)
                   = SubSeq(snap[c], 1, counter[c] + n)
      <4>1. fs[req[c].to] \in Content
        BY <1>2, <3>1 DEF TypeInv, Files
      <4>2. (fs[req[c].to] \o sent[c]) \o buf[c] = Taken(c)
        BY <1>2, <3>1 DEF FaithInv, Sound, FileSink
      <4>3. fs[req[c].to] \o sent[c] \in Content
        BY <1>2, <4>1, ContentClosed
      <4>4. ((fs[req[c].to] \o sent[c]) \o buf[c]) \o part
              = (fs[req[c].to] \o sent[c]) \o (buf[c] \o part)
        <5> DEFINE front == fs[req[c].to] \o sent[c]
        <5>1. front \in Content
          BY <4>3
        <5> HIDE DEF front
        <5>2. (front \o buf[c]) \o part = front \o (buf[c] \o part)
          BY <1>2, <2>1, <5>1, Regroup
        <5> QED BY <5>2 DEF front
      <4> QED BY <2>2, <3>1, <4>2, <4>4
    <3> QED BY <1>1, <1>2, <2>3, <3>1 DEF FaithInv, Sound, FileSink, Draining, ToFs, Taken
  <2>6. TmpSink(c)'
    <3>1. ASSUME ~ToFs(c)
          PROVE  /\ Len(tmp[c]) + (Len(buf[c]) + n) = counter[c] + n
                 /\ calm[c] => tmp[c] \o (buf[c] \o part) = SubSeq(snap[c], 1, counter[c] + n)
      <4>1. tmp[c] \in Content /\ Len(tmp[c]) \in Nat
        BY <1>2, <3>1, ContentClosed DEF TypeInv, Files
      <4>2. Len(tmp[c]) + Len(buf[c]) = counter[c]
        BY <1>2, <3>1 DEF FaithInv, Sound, TmpSink
      <4>3. calm[c] => tmp[c] \o buf[c] = Taken(c)
        BY <1>2, <3>1 DEF FaithInv, Sound, TmpSink
      <4>4. Len(tmp[c]) + (Len(buf[c]) + n) = counter[c] + n
        <5>1. \A x, y \in Nat : x + (y + n) = (x + y) + n
          BY <1>2
        <5> QED BY <2>4, <4>1, <4>2, <5>1
      <4>5. (tmp[c] \o buf[c]) \o part = tmp[c] \o (buf[c] \o part)
        <5> DEFINE a == tmp[c]
                   b == buf[c]
        <5>1. a \in Content /\ b \in Content /\ part \in Content
          BY <1>2, <2>1, <4>1
        <5> HIDE DEF a, b
        <5>2. (a \o b) \o part = a \o (b \o part)
          BY <5>1, Regroup
        <5> QED BY <5>2 DEF a, b
      <4> QED BY <2>2, <4>3, <4>4, <4>5
    <3> QED BY <1>1, <2>3, <2>4, <3>1 DEF TmpSink, ToFs, Taken
  <2>7. Progress(c)'
    BY <1>1, <1>2, <2>2, <2>3 DEF Progress, Draining
  <2>8. NotBegun(c)' /\ SourceKept(c)' /\ PutKept(c)' /\ Settles(c)'
    <3>1. NotBegun(c)' /\ Settles(c)'
      BY <1>1, <1>2, <2>3 DEF FaithInv, Sound, NotBegun, Settles, Before, Running, Stage
    <3>2. SourceKept(c)'
      BY <1>1, <1>2, <2>3 DEF FaithInv, Sound, SourceKept, Before, Open, FromFs, ToFs, Source
    <3>3. PutKept(c)'
      <4>1. flying[c] = 0 /\ ~stored[c]
        BY <1>2 DEF FaithInv, Sound, NotBegun, Before, Running, Stage
      <4>2. flying'[c] = 0 /\ ~stored'[c] /\ pc'[c] = "copying"
        BY <1>1, <1>2, <2>3, <4>1
      <4> QED BY <4>2 DEF PutKept
    <3> QED BY <3>1, <3>2, <3>3
  <2> QED BY <1>1, <2>3, <2>5, <2>6, <2>7, <2>8, LocalFrame DEF Sound
<1> QED BY <1>3, <1>4

LEMMA ReadEofSound ==
    ASSUME TypeInv, FaithInv, NEW c \in Copies, ReadEof(c)
    PROVE  FaithInv'
<1>1. /\ pc[c] = "copying" /\ pc'[c] = "flushing" /\ counter[c] >= Len(Source(c))
      /\ UNCHANGED <<fs, s3, req, calm>> /\ \A e \in Copies \ {c} : Same(e)
      /\ UNCHANGED <<snap, counter, buf, sent, off, tmp, making, upload, flying, stored>>
  BY DEF ReadEof, Wants, TypeInv, TypeOK, Same, stores, reading, fileSink, tmpSink, putSink
<1>2. Progress(c)'
  <2>1. calm[c] => Source(c) = snap[c] /\ counter[c] <= Len(snap[c])
    BY <1>1 DEF FaithInv, Sound, SourceKept, Progress, Open, Draining
  <2>2. counter[c] \in Nat /\ Len(snap[c]) \in Nat
    BY ContentClosed DEF TypeInv, TypeOK
  <2> QED BY <1>1, <2>1, <2>2 DEF Progress, Draining
<1>3. Sound(c)'
  BY <1>1, <1>2 DEF FaithInv, Sound, NotBegun, SourceKept, FileSink, TmpSink, PutKept, Settles,
     Before, Open, Draining, Running, Stage, FromFs, ToFs, Source, Taken
<1> QED BY <1>1, <1>3, LocalFrame

LEMMA WriteSound ==
    ASSUME TypeInv, FaithInv, NEW c \in Copies, Write(c)
    PROVE  FaithInv'
<1>1. /\ Draining(c) /\ ToFs(c) /\ sent[c] = <<>>
      /\ sent'[c] = buf[c] /\ buf'[c] = <<>>
      /\ UNCHANGED <<fs, s3, req, calm>> /\ \A e \in Copies \ {c} : Same(e)
      /\ UNCHANGED <<pc, snap, counter, off, tmp, making, upload, flying, stored>>
  BY DEF Write, TypeInv, TypeOK, Same, stores, tmpSink, putSink
<1>2. FileSink(c)'
  <2>1. buf[c] \in Content /\ fs[req[c].to] \in Content
    BY <1>1 DEF TypeInv, TypeOK, Files
  <2>2. (fs[req[c].to] \o buf[c]) \o <<>> = (fs[req[c].to] \o <<>>) \o buf[c]
    BY <2>1, Joins, ContentClosed
  <2> QED BY <1>1, <2>2 DEF FaithInv, Sound, FileSink, Draining, ToFs, Taken
<1>3. Sound(c)'
  BY <1>1, <1>2 DEF FaithInv, Sound, NotBegun, SourceKept, TmpSink, Progress, PutKept, Settles,
     Before, Open, Draining, Running, Stage, FromFs, ToFs, Source
<1> QED BY <1>1, <1>3, LocalFrame

(* The pool writes n blocks of what it was given: all of them at the end   *)
(* of the file, or the handler, if there is one, is over.                  *)
LEMMA PutDownSound ==
    ASSUME TypeInv, FaithInv, NEW c \in Copies, NEW n \in 0..Len(sent[c]),
           sent[c] # <<>>, PutDown(c, n),
           \/ n = Len(sent[c]) /\ UNCHANGED <<pc, buf, tmp>>
           \/ IF Running(c) THEN End(c, "sink_failed") ELSE UNCHANGED <<pc, buf, tmp>>
    PROVE  FaithInv'
<1> DEFINE p == req[c].to
           w == WriteAt(fs[p], off[c], SubSeq(sent[c], 1, n))
<1>1. /\ ToFs(c) /\ p \in Paths /\ fs[p] \in Content /\ sent[c] \in Content
      /\ buf[c] \in Content /\ off[c] \in Nat /\ pc[c] # "copied"
  BY DEF TypeInv, TypeOK, Files, Request, FaithInv, Sound, FileSink, Settles
<1> HIDE DEF w
<1>2. /\ fs'[p] = w /\ \A q \in Paths \ {p} : fs'[q] = fs[q]
      /\ off'[c] = off[c] + n /\ sent'[c] = <<>>
      /\ UNCHANGED <<s3, req>> /\ Disturb(FileUsers(p, c)) /\ calm'[c] = calm[c]
      /\ \A e \in Copies \ {c} : Same(e)
      /\ UNCHANGED <<snap, counter, making, upload, flying, stored>>
  BY <1>1 DEF PutDown, w, Disturb, FileUsers, TypeInv, TypeOK, Same, End, putSink
<1>3. /\ Running(c)' => Running(c) /\ n = Len(sent[c]) /\ UNCHANGED <<pc, buf, tmp>>
      /\ pc'[c] \in {"copied", "putting", "opening", "received"} => pc'[c] = pc[c]
  BY OutcomeNames DEF End, Running, Stage, TypeInv, TypeOK
<1>4. FileSink(c)'
  <2>1. ASSUME Draining(c)', calm[c]
        PROVE  /\ Len(w) = off[c] + n
               /\ (w \o <<>>) \o buf[c] = Taken(c) /\ buf'[c] = buf[c]
    <3>1. Draining(c) /\ n = Len(sent[c]) /\ buf'[c] = buf[c]
      BY <1>3, <2>1 DEF Draining, Running, Stage
    <3>2. Len(fs[p]) = off[c] /\ (fs[p] \o sent[c]) \o buf[c] = Taken(c)
      BY <1>1, <2>1, <3>1 DEF FaithInv, Sound, FileSink
    <3>3. w = fs[p] \o sent[c]
      <4>1. SubSeq(sent[c], 1, n) = sent[c]
        BY <1>1, <3>1, Joins
      <4>2. w = WriteAt(fs[p], Len(fs[p]), sent[c])
        BY <3>2, <4>1 DEF w
      <4> QED BY <1>1, <4>2, WriteAtEnd
    <3>4. w \in Content /\ Len(w) = Len(fs[p]) + Len(sent[c])
      BY <1>1, <3>3, ContentClosed
    <3> QED BY <3>1, <3>2, <3>3, <3>4, Joins
  <2> QED BY <1>2, <2>1 DEF FileSink, Taken
<1>5. NotBegun(c)' /\ SourceKept(c)'
  <2>1. pc'[c] \in Before => pc'[c] = pc[c] /\ sent[c] = <<>>
    BY <1>3 DEF Before, Running, Stage, FaithInv, Sound, NotBegun
  <2>2. pc'[c] \notin Before
    BY <2>1
  <2>3. Open(c)' => Open(c) /\ ~FromFs(c)
    BY <1>1, <1>3, <2>2 DEF Open, Before, Running, Stage, FaithInv, Sound, SourceKept
  <2>4. SourceKept(c)'
    BY <1>1, <1>2, <1>3, <2>2, <2>3 DEF FaithInv, Sound, SourceKept, Before, Open, FromFs, ToFs,
       Source
  <2>5. NotBegun(c)'
    BY <1>2, <1>3, <2>2 DEF FaithInv, Sound, NotBegun, Before, Running, Stage
  <2> QED BY <2>4, <2>5
<1>6. TmpSink(c)' /\ Settles(c)'
  BY <1>1, <1>2, <1>3 DEF TmpSink, Settles, ToFs
<1>7. Progress(c)'
  BY <1>2, <1>3 DEF FaithInv, Sound, Progress, Draining, Running, Stage
<1>8. PutKept(c)'
  BY <1>1, <1>2, <1>3 DEF FaithInv, Sound, PutKept, ToFs
<1> QED BY <1>1, <1>2, <1>4, <1>5, <1>6, <1>7, <1>8, FileFrame DEF Sound

LEMMA LandSound ==
    ASSUME TypeInv, FaithInv, NEW c \in Copies, Land(c) \/ LandFails(c)
    PROVE  FaithInv'
<1>1. Len(sent[c]) \in Nat /\ (sent[c] = <<>> <=> Len(sent[c]) = 0)
  BY ContentClosed DEF TypeInv, TypeOK
<1>2. CASE Land(c)
  <2>1. Len(sent[c]) \in 0..Len(sent[c])
    BY <1>1
  <2> QED BY <1>2, <2>1, PutDownSound DEF Land
<1>3. CASE LandFails(c)
  <2>1. PICK n \in 0..(Len(sent[c]) - 1) :
          /\ PutDown(c, n)
          /\ IF Running(c) THEN End(c, "sink_failed") ELSE UNCHANGED <<pc, buf, tmp>>
    BY <1>3 DEF LandFails
  <2>2. n \in 0..Len(sent[c]) /\ sent[c] # <<>>
    BY <1>1, <2>1
  <2> QED BY <2>1, <2>2, PutDownSound
<1> QED BY <1>2, <1>3

(* The copy answers 204 when nothing is left in the pool.                  *)
LEMMA FinishFsSound ==
    ASSUME TypeInv, FaithInv, NEW c \in Copies, FinishFs(c)
    PROVE  FaithInv'
<1>1. /\ pc[c] = "flushing" /\ ToFs(c) /\ buf[c] = <<>> /\ sent[c] = <<>>
      /\ pc'[c] = "copied"
      /\ UNCHANGED <<fs, s3, req, calm>> /\ \A e \in Copies \ {c} : Same(e)
      /\ UNCHANGED <<snap, counter, sent, off, making, upload, flying, stored>>
  BY DEF FinishFs, Conclude, End, TypeInv, TypeOK, Same, stores, fileSink, putSink
<1>2. calm[c] => fs[req[c].to] = snap[c]
  <2>1. fs[req[c].to] \in Content /\ snap[c] \in Content
    BY <1>1 DEF TypeInv, TypeOK, Files, Draining
  <2>2. (fs[req[c].to] \o <<>>) \o <<>> = fs[req[c].to]
    BY <2>1, Joins
  <2>3. SubSeq(snap[c], 1, Len(snap[c])) = snap[c]
    BY <2>1, Joins
  <2> QED BY <1>1, <2>2, <2>3 DEF FaithInv, Sound, FileSink, Progress, Draining, Taken
<1>3. Settles(c)'
  BY <1>1, <1>2 DEF Settles, ToFs
<1>4. Sound(c)'
  BY <1>1, <1>3, OutcomeNames DEF FaithInv, Sound, NotBegun, SourceKept, FileSink, TmpSink, Progress,
     PutKept, Before, Open, Draining, Running, Stage, ToFs
<1> QED BY <1>1, <1>4, LocalFrame

LEMMA WriteTmpSound ==
    ASSUME TypeInv, FaithInv, NEW c \in Copies, WriteTmp(c)
    PROVE  FaithInv'
<1>1. /\ Draining(c) /\ ~ToFs(c)
      /\ tmp'[c] = tmp[c] \o buf[c] /\ buf'[c] = <<>>
      /\ UNCHANGED <<fs, s3, req, calm>> /\ \A e \in Copies \ {c} : Same(e)
      /\ UNCHANGED <<pc, snap, counter, sent, off, making, upload, flying, stored>>
  BY DEF WriteTmp, TypeInv, TypeOK, Same, stores, fileSink, putSink
<1>2. TmpSink(c)'
  <2>1. buf[c] \in Content /\ tmp[c] \in Content /\ tmp[c] \o buf[c] \in Content
    BY <1>1, ContentClosed DEF TypeInv, TypeOK, Files, Draining
  <2>2. /\ (tmp[c] \o buf[c]) \o <<>> = tmp[c] \o buf[c]
        /\ Len(tmp[c] \o buf[c]) + Len(<<>>) = Len(tmp[c]) + Len(buf[c])
    BY <2>1, Joins, ContentClosed
  <2> QED BY <1>1, <2>2 DEF FaithInv, Sound, TmpSink, Draining, ToFs, Taken
<1>3. Sound(c)'
  BY <1>1, <1>2 DEF FaithInv, Sound, NotBegun, SourceKept, FileSink, Progress, PutKept, Settles,
     Before, Open, Draining, Running, Stage, FromFs, ToFs, Source
<1> QED BY <1>1, <1>3, LocalFrame

(* put_object gets the whole source.                                       *)
LEMMA StartPutSound ==
    ASSUME TypeInv, FaithInv, NEW c \in Copies, StartPut(c)
    PROVE  FaithInv'
<1>1. /\ pc[c] = "flushing" /\ ~ToFs(c) /\ buf[c] = <<>>
      /\ upload'[c] = tmp[c] /\ flying'[c] = 1 /\ pc'[c] = "putting"
      /\ UNCHANGED <<fs, s3, req, calm>> /\ \A e \in Copies \ {c} : Same(e)
      /\ UNCHANGED <<snap, counter, buf, sent, off, tmp, making, stored>>
  BY DEF StartPut, TypeInv, TypeOK, Same, stores, reading, fileSink, tmpSink
<1>2. Len(tmp[c]) = counter[c] /\ (calm[c] => tmp[c] = snap[c])
  <2>1. /\ tmp[c] \in Content /\ snap[c] \in Content /\ Len(tmp[c]) \in Nat
    BY <1>1, ContentClosed DEF TypeInv, TypeOK, Files
  <2>2. /\ tmp[c] \o <<>> = tmp[c] /\ Len(tmp[c]) + Len(<<>>) = Len(tmp[c])
        /\ SubSeq(snap[c], 1, Len(snap[c])) = snap[c]
    BY <2>1, Joins, ContentClosed
  <2> QED BY <1>1, <2>2 DEF FaithInv, Sound, TmpSink, Progress, Draining, Taken
<1>3. PutKept(c)'
  BY <1>1, <1>2 DEF PutKept, ToFs, FaithInv, Sound, NotBegun
<1>4. Sound(c)'
  BY <1>1, <1>3 DEF FaithInv, Sound, NotBegun, SourceKept, FileSink, TmpSink, Progress, Settles,
     Before, Open, Draining, Running, Stage, FromFs, ToFs, Source
<1> QED BY <1>1, <1>4, LocalFrame

LEMMA PutSound ==
    ASSUME TypeInv, FaithInv, NEW c \in Copies
    PROVE  /\ Resend(c) => FaithInv'
           /\ S3Apply(c) => FaithInv'
           /\ S3Drop(c) => FaithInv'
           /\ PutOk(c) => FaithInv'
<1>1. ASSUME Resend(c) \/ S3Drop(c) PROVE FaithInv'
  <2>1. /\ pc[c] = "putting" \/ flying[c] > 0
        /\ UNCHANGED <<fs, s3, req, calm>> /\ \A e \in Copies \ {c} : Same(e)
        /\ UNCHANGED <<pc, snap, counter, buf, sent, off, tmp, making, upload, stored>>
    BY <1>1 DEF Resend, S3Drop, TypeInv, TypeOK, Same, stores, reading, fileSink, tmpSink
  <2>2. PutKept(c)'
    BY <2>1 DEF FaithInv, Sound, PutKept, ToFs
  <2>3. pc[c] \notin Before \cup {"copying", "flushing"}
    BY <2>1 DEF FaithInv, Sound, NotBegun, Before
  <2>4. Sound(c)'
    BY <2>1, <2>2, <2>3 DEF FaithInv, Sound, NotBegun, SourceKept, FileSink, TmpSink, Progress,
       Settles, Before, Open, Draining, Running, FromFs, ToFs, Source, Taken
  <2> QED BY <2>1, <2>4, LocalFrame
<1>2. ASSUME S3Apply(c) PROVE FaithInv'
  <2>1. /\ flying[c] > 0 /\ stored'[c] = TRUE /\ s3'[req[c].to] = upload[c]
        /\ \A q \in Paths \ {req[c].to} : s3'[q] = s3[q]
        /\ UNCHANGED <<fs, req>> /\ Disturb(ObjectUsers(req[c].to, c)) /\ calm'[c] = calm[c]
        /\ \A e \in Copies \ {c} : Same(e)
        /\ UNCHANGED <<pc, snap, counter, buf, sent, off, tmp, making, upload>>
    BY <1>2 DEF S3Apply, Disturb, ObjectUsers, TypeInv, TypeOK, Same, Request, reading, fileSink,
       tmpSink
  <2>2. PutKept(c)'
    BY <2>1 DEF FaithInv, Sound, PutKept, ToFs
  <2>3. pc[c] \notin Before \cup {"copying", "flushing"}
    BY <2>1 DEF FaithInv, Sound, NotBegun, Before
  <2>4. Sound(c)'
    BY <2>1, <2>2, <2>3 DEF FaithInv, Sound, NotBegun, SourceKept, FileSink, TmpSink, Progress,
       Settles, Before, Open, Draining, Running, FromFs, ToFs, Source, Taken
  <2>5. ASSUME NEW e \in Copies \ {c} PROVE Sound(e)'
    <3>1. calm'[e] <=> calm[e] /\ e \notin ObjectUsers(req[c].to, c)
      BY <2>1 DEF Disturb
    <3>2. req[e].to \in Paths
      BY DEF TypeInv, TypeOK, Request
    <3>3. calm'[e] /\ ~ToFs(e) /\ stored[e] => s3'[req[e].to] = s3[req[e].to]
      BY <2>1, <3>1, <3>2 DEF ObjectUsers
    <3> QED BY <2>1, <3>1, <3>3, OtherSound DEF FaithInv
  <2> QED BY <2>4, <2>5 DEF FaithInv
<1>3. ASSUME PutOk(c) PROVE FaithInv'
  <2>1. /\ pc[c] = "putting" /\ stored[c] /\ pc'[c] = "copied"
        /\ UNCHANGED <<fs, s3, req, calm>> /\ \A e \in Copies \ {c} : Same(e)
        /\ UNCHANGED <<snap, counter, sent, off, making, upload, flying, stored>>
    BY <1>3 DEF PutOk, Conclude, End, TypeInv, TypeOK, Same, stores, fileSink, putSink
  <2>2. ~ToFs(c)
    BY <2>1 DEF FaithInv, Sound, PutKept
  <2>3. Sound(c)'
    BY <2>1, <2>2 DEF FaithInv, Sound, NotBegun, SourceKept, FileSink, TmpSink, Progress, PutKept,
       Settles, Before, Open, Draining, Running, Stage, ToFs
  <2> QED BY <2>1, <2>3, LocalFrame
<1> QED BY <1>1, <1>2, <1>3

LEMMA FaithInit == Init => FaithInv
<1> SUFFICES ASSUME Init, NEW c \in Copies PROVE Sound(c)
  BY DEF FaithInv
<1> QED BY DEF Init, Sound, NotBegun, SourceKept, FileSink, TmpSink, Progress, PutKept, Settles,
     Before, Open, Draining, Running, Stage

LEMMA FaithNext == TypeInv /\ FaithInv /\ [Next]_vars => FaithInv'
<1> SUFFICES ASSUME TypeInv, FaithInv, [Next]_vars PROVE FaithInv'
  OBVIOUS
<1>1. CASE UNCHANGED vars
  <2>1. \A e \in Copies : Same(e)
    BY <1>1 DEF vars, stores, reading, fileSink, tmpSink, putSink, Same
  <2> QED BY <1>1, <2>1, OtherSound DEF FaithInv, vars, stores
<1>2. ASSUME NEW c \in Copies,
             \/ Admit(c) \/ OpenReadFs(c) \/ OpenReadS3(c) \/ OpenWriteFs(c)
             \/ OpenTmp(c) \/ CreateTmp(c) \/ CreateTmpFails(c)
      PROVE  FaithInv'
  BY <1>2, OpenSound
<1>3. ASSUME NEW c \in Copies,
             \/ Read(c) \/ ReadEof(c) \/ Write(c) \/ Land(c) \/ LandFails(c)
             \/ FinishFs(c) \/ WriteTmp(c)
      PROVE  FaithInv'
  BY <1>3, ReadSound, ReadEofSound, WriteSound, LandSound, FinishFsSound, WriteTmpSound
<1>4. ASSUME NEW c \in Copies,
             StartPut(c) \/ Resend(c) \/ S3Apply(c) \/ S3Drop(c) \/ PutOk(c)
      PROVE  FaithInv'
  BY <1>4, StartPutSound, PutSound
<1>5. ASSUME NEW c \in Copies,
             \/ ReadFails(c) \/ Stall(c) \/ WriteTmpFails(c) \/ PrepareFails(c)
             \/ PutFails(c) \/ Timeout(c) \/ Disconnect(c)
      PROVE  FaithInv'
  <2>1. PICK o \in Outcome \ {"copied"} : Conclude(c, o)
    BY <1>5, OutcomeNames DEF ReadFails, Stall, WriteTmpFails, PrepareFails, PutFails, Timeout,
       Disconnect
  <2> QED BY <2>1, ConcludeSound
<1> QED BY <1>1, <1>2, <1>3, <1>4, <1>5 DEF Next

(* Soundness gives both properties.                                        *)
LEMMA FaithImplies == FaithInv => Faithful /\ WholeUpload
<1> SUFFICES ASSUME FaithInv, NEW c \in Copies
             PROVE  /\ pc[c] = "copied" /\ calm[c] => Dest(c) = snap[c]
                    /\ flying[c] > 0 \/ stored[c] =>
                         Len(upload[c]) = counter[c] /\ (calm[c] => upload[c] = snap[c])
  BY DEF Faithful, WholeUpload
<1>1. Sound(c)
  BY DEF FaithInv
<1> QED BY <1>1 DEF Sound, PutKept, Settles, Dest

(* stream_copy and both write_all: whatever runs next to it, a copy that   *)
(* is answered 204 and that nobody else wrote over has made its            *)
(* destination its source, with nothing under way that changes it.         *)
THEOREM FaithfulCorrect == Spec => []Faithful
<1>1. FaithInv => Faithful
  BY FaithImplies
<1> QED BY <1>1, TypeInvariant, FaithInit, FaithNext, PTL DEF Spec

(* S3 write_all: no PUT that is sent or was applied carries a part of an   *)
(* undisturbed source, or a part of what was read of a disturbed one,      *)
(* whatever became of the request that asked for it.                       *)
THEOREM WholeUploadCorrect == Spec => []WholeUpload
<1>1. FaithInv => WholeUpload
  BY FaithImplies
<1> QED BY <1>1, TypeInvariant, FaithInit, FaithNext, PTL DEF Spec

-----------------------------------------------------------------------------
(* Refusals.  A copy that has opened its destination, whatever became of   *)
(* it, can no longer be answered as refused; only such copies have work in *)
(* the pool or at S3, and without one the stores are what they were.       *)
Marked(c) == pc[c] \notin Refused \cup {"received", "opening", "opened"}
MarkInv ==
    /\ \A c \in Copies : sent[c] # <<>> \/ flying[c] > 0 => Marked(c)
    /\ fs # FsInit \/ s3 # S3Init => \E c \in Copies : Marked(c)

(* What a step can do to marks and to what they stand for.                 *)
LEMMA MarkStep ==
    ASSUME TypeInv, MarkInv, NEW c \in Copies,
           \A e \in Copies \ {c} : /\ pc'[e] = pc[e] /\ sent'[e] = sent[e]
                                   /\ flying'[e] = flying[e],
           Marked(c) => Marked(c)',
           sent'[c] # <<>> \/ flying'[c] > 0 \/ fs' # fs \/ s3' # s3 => Marked(c)'
    PROVE  MarkInv'
<1>1. \A e \in Copies : Marked(e) => Marked(e)'
  BY DEF Marked
<1>2. ASSUME NEW e \in Copies, sent'[e] # <<>> \/ flying'[e] > 0 PROVE Marked(e)'
  BY <1>1, <1>2 DEF MarkInv
<1>3. fs' # FsInit \/ s3' # S3Init => \E e \in Copies : Marked(e)'
  BY <1>1 DEF MarkInv
<1> QED BY <1>2, <1>3 DEF MarkInv

LEMMA MarkNext == TypeInv /\ MarkInv /\ [Next]_vars => MarkInv'
<1> SUFFICES ASSUME TypeInv, MarkInv, [Next]_vars PROVE MarkInv'
  OBVIOUS
<1> USE OutcomeNames
<1>1. CASE UNCHANGED vars
  BY <1>1 DEF vars, stores, fileSink, putSink, MarkInv, Marked
<1>2. ASSUME NEW c \in Copies, NEW x \in Stage \cup Outcome,
             pc' = [pc EXCEPT ![c] = x],
             Marked(c) => x \notin Refused \cup {"received", "opening", "opened"},
             UNCHANGED <<fs, s3, sent, flying>>
      PROVE  MarkInv'
  <2>1. pc'[c] = x /\ \A e \in Copies \ {c} : pc'[e] = pc[e]
    BY <1>2 DEF TypeInv, TypeOK
  <2> QED BY <1>2, <2>1, MarkStep DEF MarkInv, Marked
<1>3. ASSUME NEW c \in Copies, NEW o \in Outcome, Conclude(c, o),
             Marked(c) => o \notin Refused
      PROVE  MarkInv'
  <2>1. o \notin {"received", "opening", "opened"}
    OBVIOUS
  <2> QED BY <1>2, <1>3, <2>1 DEF Conclude, End, stores, fileSink, putSink
<1>4. ASSUME NEW c \in Copies, Admit(c) PROVE MarkInv'
  <2>1. pc[c] = "received" /\ Verdict(req[c]) \in Stage \cup Outcome
    BY <1>4 DEF Admit, Verdict, Stage
  <2> QED BY <1>2, <1>4, <2>1 DEF Admit, Marked, stores, fileSink, putSink
<1>5. ASSUME NEW c \in Copies, OpenReadFs(c) \/ OpenReadS3(c) PROVE MarkInv'
  <2>1. pc[c] = "opening" /\ ~Marked(c)
    BY <1>5 DEF OpenReadFs, OpenReadS3, Marked
  <2>2. ASSUME NEW s, Opened(c, s) PROVE MarkInv'
    BY <1>2, <2>1, <2>2 DEF Opened, Stage, stores, fileSink, putSink
  <2> QED BY <1>3, <1>5, <2>1, <2>2 DEF OpenReadFs, OpenReadS3
<1>6. ASSUME NEW c \in Copies, OpenWriteFs(c) PROVE MarkInv'
  <2>1. pc[c] = "opened" /\ ~Marked(c)
    BY <1>6 DEF OpenWriteFs, Marked
  <2>2. CASE /\ pc' = [pc EXCEPT ![c] = "copying"]
             /\ UNCHANGED <<s3, sent, flying>>
    <3>1. Marked(c)' /\ \A e \in Copies \ {c} : pc'[e] = pc[e]
      BY <2>2 DEF TypeInv, TypeOK, Marked, Refused
    <3> QED BY <2>1, <2>2, <3>1, MarkStep
  <2> QED BY <1>3, <1>6, <2>1, <2>2 DEF OpenWriteFs, fileSink, putSink
<1>7. ASSUME NEW c \in Copies, OpenTmp(c) PROVE MarkInv'
  <2>1. pc[c] = "opened" /\ ~Marked(c)
    BY <1>7 DEF OpenTmp, Marked
  <2> QED BY <1>2, <1>3, <1>7, <2>1 DEF OpenTmp, Stage, Refused, stores, fileSink, putSink
<1>8. ASSUME NEW c \in Copies, CreateTmp(c) PROVE MarkInv'
  BY <1>2, <1>8 DEF CreateTmp, Stage, Refused, Marked, TypeInv, TypeOK, stores, fileSink, putSink
<1>9. ASSUME NEW c \in Copies,
             \/ UNCHANGED pc
             \/ End(c, "open_failed") \/ End(c, "too_large") \/ End(c, "sink_failed"),
             UNCHANGED <<fs, s3, sent, flying>>
      PROVE  MarkInv'
  <2>1. CASE UNCHANGED pc
    BY <1>9, <2>1 DEF MarkInv, Marked
  <2>2. CASE ~UNCHANGED pc
    BY <1>2, <1>9, <2>2 DEF End, Refused
  <2> QED BY <2>1, <2>2
<1>10. ASSUME NEW c \in Copies, CreateTmpFails(c) \/ Read(c) PROVE MarkInv'
  BY <1>9, <1>10 DEF CreateTmpFails, Read, stores, fileSink, putSink
<1>11. ASSUME NEW c \in Copies, ReadEof(c) \/ StartPut(c) PROVE MarkInv'
  <2>1. /\ Marked(c) /\ Marked(c)'
        /\ \A e \in Copies \ {c} : /\ pc'[e] = pc[e] /\ sent'[e] = sent[e]
                                   /\ flying'[e] = flying[e]
        /\ UNCHANGED <<fs, s3>>
    BY <1>11 DEF ReadEof, StartPut, Wants, Marked, Refused, TypeInv, TypeOK, stores, fileSink,
       putSink
  <2> QED BY <2>1, MarkStep
<1>12. ASSUME NEW c \in Copies,
              \/ Write(c) \/ WriteTmp(c) \/ Land(c) \/ Resend(c) \/ S3Apply(c) \/ S3Drop(c)
       PROVE  MarkInv'
  <2>1. Draining(c) \/ sent[c] # <<>> \/ pc[c] = "putting" \/ flying[c] > 0
    BY <1>12 DEF Write, WriteTmp, Land, Resend, S3Apply, S3Drop
  <2>2. Marked(c)
    BY <2>1 DEF MarkInv, Marked, Draining, Refused
  <2>3. /\ UNCHANGED pc
        /\ \A e \in Copies \ {c} : sent'[e] = sent[e] /\ flying'[e] = flying[e]
    BY <1>12 DEF Write, WriteTmp, Land, PutDown, Resend, S3Apply, S3Drop, TypeInv, TypeOK, fileSink,
       putSink
  <2> QED BY <2>2, <2>3, MarkStep DEF Marked
<1>13. ASSUME NEW c \in Copies, LandFails(c) PROVE MarkInv'
  <2>1. PICK n \in 0..(Len(sent[c]) - 1) :
          /\ PutDown(c, n)
          /\ IF Running(c) THEN End(c, "sink_failed") ELSE UNCHANGED <<pc, buf, tmp>>
    BY <1>13 DEF LandFails
  <2>2. sent[c] # <<>>
    BY <2>1, ContentClosed DEF TypeInv, TypeOK
  <2>3. Marked(c) /\ Marked(c)'
    BY <2>1, <2>2 DEF MarkInv, Marked, End, Refused, TypeInv, TypeOK
  <2>4. \A e \in Copies \ {c} : /\ pc'[e] = pc[e] /\ sent'[e] = sent[e]
                                /\ flying'[e] = flying[e]
    BY <2>1 DEF PutDown, End, TypeInv, TypeOK, putSink
  <2> QED BY <2>3, <2>4, MarkStep
<1>14. ASSUME NEW c \in Copies,
              \/ ReadFails(c) \/ Stall(c) \/ FinishFs(c) \/ WriteTmpFails(c)
              \/ PrepareFails(c) \/ PutOk(c) \/ PutFails(c)
              \/ Timeout(c) \/ Disconnect(c)
       PROVE  MarkInv'
  <2>1. PICK o \in Outcome \ Refused : Conclude(c, o)
    BY <1>14 DEF ReadFails, Stall, FinishFs, WriteTmpFails, PrepareFails, PutOk, PutFails, Timeout,
       Disconnect, Refused
  <2> QED BY <1>3, <2>1
<1> QED BY <1>1, <1>4, <1>5, <1>6, <1>7, <1>8, <1>10, <1>11, <1>12, <1>13, <1>14 DEF Next

(* error.rs: when every request so far was refused, or was not found, or   *)
(* has not opened its destination yet, neither store has changed.          *)
THEOREM RefusalCorrect == Spec => []RefusedChangesNothing
<1>1. Init => MarkInv
  BY DEF Init, MarkInv
<1>2. MarkInv => RefusedChangesNothing
  BY DEF MarkInv, Marked, RefusedChangesNothing
<1> QED BY <1>1, <1>2, TypeInvariant, InitTypes, MarkNext, PTL DEF Spec

-----------------------------------------------------------------------------
(* Without a live bucket no copy gets further than its open source, and    *)
(* that only if the source is a file and the bucket a stub.                *)
Blocked(c) ==
    /\ sent[c] = <<>> /\ flying[c] = 0 /\ tmp[c] = Absent /\ ~making[c]
    /\ pc[c] \notin {"creating", "copying", "flushing", "putting"}
    /\ pc[c] = "opening" => Offline /\ (FromFs(c) <=> ~ToFs(c))
    /\ pc[c] = "opened" => Offline /\ ~ToFs(c)
BlockInv ==
    s3kind # "live" => /\ fs = FsInit /\ s3 = S3Init
                       /\ \A c \in Copies : Blocked(c)

(* A step that moves a blocked copy on, if it is one of these at all.      *)
LEMMA BlockStep ==
    ASSUME TypeInv, BlockInv, s3kind # "live", NEW c \in Copies,
           \/ Admit(c) \/ OpenReadFs(c) \/ OpenReadS3(c) \/ OpenWriteFs(c)
           \/ OpenTmp(c) \/ CreateTmp(c) \/ CreateTmpFails(c)
           \/ Read(c) \/ ReadEof(c) \/ ReadFails(c) \/ Stall(c)
           \/ Write(c) \/ Land(c) \/ LandFails(c) \/ FinishFs(c)
           \/ WriteTmp(c) \/ WriteTmpFails(c) \/ StartPut(c) \/ PrepareFails(c)
           \/ Resend(c) \/ S3Apply(c) \/ S3Drop(c) \/ PutOk(c) \/ PutFails(c)
           \/ Timeout(c) \/ Disconnect(c)
    PROVE  /\ UNCHANGED <<fs, s3, s3kind, req, sent, flying, making>>
           /\ \E x \in Outcome \cup {"opening", "opened"} :
                /\ pc' = [pc EXCEPT ![c] = x]
                /\ x = "opening" => Offline /\ (FromFs(c) <=> ~ToFs(c))
                /\ x = "opened" => Offline /\ ~ToFs(c)
           /\ tmp' = tmp \/ tmp' = [tmp EXCEPT ![c] = Absent]
<1> USE OutcomeNames
<1>1. Blocked(c)
  BY DEF BlockInv
<1>2. ASSUME NEW o \in Outcome, Conclude(c, o)
      PROVE  /\ UNCHANGED <<fs, s3, s3kind, req, sent, flying, making>>
             /\ pc' = [pc EXCEPT ![c] = o]
             /\ o # "opening" /\ o # "opened"
             /\ tmp' = [tmp EXCEPT ![c] = Absent]
  BY <1>2 DEF Conclude, End, stores, fileSink, putSink
<1>3. CASE Admit(c)
  <2>1. /\ Verdict(req[c]) \in Outcome \cup {"opening"}
        /\ Verdict(req[c]) = "opening" => Offline /\ (FromFs(c) <=> ~ToFs(c))
    BY DEF Verdict, TypeInv, TypeOK, Offline, FromFs, ToFs, Request, Store
  <2> QED BY <1>3, <2>1 DEF Admit, stores, fileSink, tmpSink, putSink
<1>4. CASE OpenReadFs(c)
  <2>1. Offline /\ ~ToFs(c)
    BY <1>1, <1>4 DEF OpenReadFs, Blocked
  <2>2. ASSUME Opened(c, fs[req[c].from])
        PROVE  /\ UNCHANGED <<fs, s3, s3kind, req, sent, flying, making, tmp>>
               /\ pc' = [pc EXCEPT ![c] = "opened"]
    BY <2>2 DEF Opened, stores, fileSink, tmpSink, putSink
  <2> QED BY <1>2, <1>4, <2>1, <2>2 DEF OpenReadFs
<1>5. CASE OpenReadS3(c)
  BY <1>2, <1>5 DEF OpenReadS3
<1>6. CASE OpenWriteFs(c) \/ OpenTmp(c)
  BY <1>1, <1>2, <1>6 DEF OpenWriteFs, OpenTmp, Blocked
<1>7. CASE CreateTmp(c) \/ CreateTmpFails(c)
  BY <1>1, <1>7 DEF CreateTmp, CreateTmpFails, Blocked
<1>8. CASE \/ Read(c) \/ ReadEof(c) \/ ReadFails(c) \/ Stall(c) \/ Write(c) \/ FinishFs(c)
           \/ WriteTmp(c) \/ WriteTmpFails(c) \/ StartPut(c) \/ PrepareFails(c)
  BY <1>1, <1>8 DEF Read, ReadEof, ReadFails, Stall, Write, FinishFs, WriteTmp, WriteTmpFails,
     StartPut, PrepareFails, Wants, Draining, Blocked
<1>9. CASE Land(c) \/ LandFails(c)
  BY <1>1, <1>9, ContentClosed DEF Land, LandFails, Blocked
<1>10. CASE Resend(c) \/ S3Apply(c) \/ S3Drop(c) \/ PutOk(c) \/ PutFails(c)
  BY <1>1, <1>10 DEF Resend, S3Apply, S3Drop, PutOk, PutFails, Blocked
<1>11. CASE Timeout(c) \/ Disconnect(c)
  BY <1>2, <1>11 DEF Timeout, Disconnect
<1> QED BY <1>3, <1>4, <1>5, <1>6, <1>7, <1>8, <1>9, <1>10, <1>11

(* Which kind of S3 backend there is was decided at boot.                  *)
LEMMA KindStays == ASSUME [Next]_vars PROVE s3kind' = s3kind
<1>1. CASE UNCHANGED vars
  BY <1>1 DEF vars, stores
<1>2. ASSUME NEW c \in Copies,
             \/ Admit(c) \/ OpenReadFs(c) \/ OpenReadS3(c) \/ OpenWriteFs(c)
             \/ OpenTmp(c) \/ CreateTmp(c) \/ CreateTmpFails(c)
      PROVE  s3kind' = s3kind
  BY <1>2 DEF stores, Admit, OpenReadFs, OpenReadS3, OpenWriteFs, OpenTmp, CreateTmp,
     CreateTmpFails, Conclude, Opened
<1>3. ASSUME NEW c \in Copies,
             \/ Read(c) \/ ReadEof(c) \/ ReadFails(c) \/ Stall(c)
             \/ Write(c) \/ Land(c) \/ LandFails(c) \/ FinishFs(c)
      PROVE  s3kind' = s3kind
  BY <1>3 DEF stores, Conclude, Read, ReadEof, ReadFails, Stall, Write, Land, LandFails, PutDown, FinishFs
<1>4. ASSUME NEW c \in Copies,
             \/ WriteTmp(c) \/ WriteTmpFails(c) \/ StartPut(c) \/ PrepareFails(c)
             \/ Resend(c) \/ S3Apply(c) \/ S3Drop(c) \/ PutOk(c) \/ PutFails(c)
             \/ Timeout(c) \/ Disconnect(c)
      PROVE  s3kind' = s3kind
  BY <1>4 DEF stores, Conclude, WriteTmp, WriteTmpFails, StartPut, PrepareFails, Resend, S3Apply, S3Drop,
     PutOk, PutFails, Timeout, Disconnect
<1> QED BY <1>1, <1>2, <1>3, <1>4 DEF Next

LEMMA BlockNext == TypeInv /\ BlockInv /\ [Next]_vars => BlockInv'
<1> SUFFICES ASSUME TypeInv, BlockInv, [Next]_vars, s3kind' # "live" PROVE BlockInv'
  BY DEF BlockInv
<1>0. s3kind' = s3kind
  BY KindStays
<1>1. CASE UNCHANGED vars
  BY <1>1 DEF vars, stores, reading, fileSink, tmpSink, putSink, BlockInv, Blocked, Offline, FromFs,
     ToFs
<1>2. ASSUME NEW c \in Copies,
             UNCHANGED <<fs, s3, s3kind, req, sent, flying, making>>,
             NEW x \in Outcome \cup {"opening", "opened"},
             pc' = [pc EXCEPT ![c] = x],
             x = "opening" => Offline /\ (FromFs(c) <=> ~ToFs(c)),
             x = "opened" => Offline /\ ~ToFs(c),
             tmp' = tmp \/ tmp' = [tmp EXCEPT ![c] = Absent]
      PROVE  BlockInv'
  <2>1. /\ pc'[c] = x /\ x \notin {"creating", "copying", "flushing", "putting"}
        /\ \A e \in Copies \ {c} : pc'[e] = pc[e]
    BY <1>2, OutcomeNames DEF TypeInv, TypeOK
  <2>2. \A e \in Copies : tmp'[e] = Absent
    BY <1>0, <1>2 DEF BlockInv, Blocked, TypeInv, TypeOK
  <2> QED BY <1>0, <1>2, <2>1, <2>2 DEF BlockInv, Blocked, Offline, FromFs, ToFs
<1>3. ASSUME NEW c \in Copies,
             \/ Admit(c) \/ OpenReadFs(c) \/ OpenReadS3(c) \/ OpenWriteFs(c)
             \/ OpenTmp(c) \/ CreateTmp(c) \/ CreateTmpFails(c)
             \/ Read(c) \/ ReadEof(c) \/ ReadFails(c) \/ Stall(c)
             \/ Write(c) \/ Land(c) \/ LandFails(c) \/ FinishFs(c)
             \/ WriteTmp(c) \/ WriteTmpFails(c) \/ StartPut(c) \/ PrepareFails(c)
             \/ Resend(c) \/ S3Apply(c) \/ S3Drop(c) \/ PutOk(c) \/ PutFails(c)
             \/ Timeout(c) \/ Disconnect(c)
      PROVE  BlockInv'
  BY <1>0, <1>2, <1>3, BlockStep
<1> QED BY <1>1, <1>3 DEF Next

(* backend/offline.rs, Backends::pick: with the stub, or without an s3:    *)
(* block, no copy ever changes a store or leaves a temporary file.         *)
THEOREM BlockedCorrect == Spec => []BlockedChangesNothing
<1>1. Init => BlockInv
  BY DEF Init, BlockInv, Blocked
<1>2. BlockInv => BlockedChangesNothing
  BY DEF BlockInv, Blocked, BlockedChangesNothing
<1> QED BY <1>1, <1>2, TypeInvariant, InitTypes, BlockNext, PTL DEF Spec

-----------------------------------------------------------------------------
(* Uploads implement AtomicPut.                                            *)

(* A body is offered exactly when put_object is called, and only by a copy *)
(* into S3.  (AtomicPut lets a copy offer one body, while it is open.)     *)
Uploads ==
    \A c \in Copies :
        /\ pc[c] = "putting" => ~ToFs(c) /\ upload[c] # Absent
        /\ Running(c) /\ pc[c] # "putting" => upload[c] = Absent

(* At the start no copy uploads.                                           *)
LEMMA UploadsInit == Init => Uploads
BY DEF Init, Uploads, Running, Stage

(* Content within the cap is one of AtomicPut's bodies.                    *)
LEMMA BodyOf ==
    ASSUME NEW s \in Content, Len(s) <= MaxBytes
    PROVE  s \in UNION {[1..n -> Data] : n \in 0..MaxBytes}
<1>1. Len(s) \in Nat /\ MaxBytes \in Nat
  BY ContentClosed, ConstantsAssumption
<1>2. Len(s) \in 0..MaxBytes
  BY <1>1
<1>3. s \in [1..Len(s) -> Data]
  BY LenProperties DEF Content
<1> QED BY <1>2, <1>3

(* A step in which nothing happens to objects and uploads: the copy may    *)
(* move on, give up, or, if its destination is the directory, succeed.     *)
LEMMA QuietStep ==
    ASSUME TypeInv, Uploads, NEW c \in Copies, NEW x \in Stage \cup Outcome,
           Running(c), pc' = [pc EXCEPT ![c] = x],
           x \in Stage => (x = "putting" <=> pc[c] = "putting"),
           x = "copied" => ToFs(c),
           UNCHANGED <<s3, req, upload, flying, stored>>
    PROVE  [Abs!Next]_(Abs!vars) /\ Uploads'
<1>1. /\ pc'[c] = x /\ \A e \in Copies \ {c} : pc'[e] = pc[e]
      /\ pc \in [Copies -> Stage \cup Outcome]
  BY DEF TypeInv, TypeOK
<1>2. Uploads'
  <2>1. ASSUME NEW e \in Copies \ {c}
        PROVE  /\ pc'[e] = "putting" => ~ToFs(e)' /\ upload'[e] # Absent
               /\ Running(e)' /\ pc'[e] # "putting" => upload'[e] = Absent
    BY <1>1 DEF Uploads, Running, ToFs
  <2>2. /\ pc'[c] = "putting" => ~ToFs(c)' /\ upload'[c] # Absent
        /\ Running(c)' /\ pc'[c] # "putting" => upload'[c] = Absent
    <3>1. "putting" \in Stage
      BY DEF Stage
    <3> QED BY <1>1, <3>1 DEF Uploads, Running, ToFs
  <2> QED BY <2>1, <2>2 DEF Uploads
<1>3. \A e \in Copies \ {c} : Result(e)' = Result(e)
  BY <1>1 DEF Result, Running, ToFs
<1>4. CASE x \in Stage \/ ToFs(c)
  <2>1. Result(c)' = Result(c)
    BY <1>1, <1>4 DEF Result, Running, ToFs
  <2>2. [e \in Copies |-> Result(e)]' = [e \in Copies |-> Result(e)]
    BY <1>3, <2>1
  <2>3. UNCHANGED Abs!vars
    BY <2>2 DEF Abs!vars
  <2> QED BY <1>2, <2>3
<1>5. CASE x \notin Stage /\ ~ToFs(c)
  <2>1. Result(c) = "open" /\ Result(c)' = "failed"
    BY <1>1, <1>5 DEF Result, Running, ToFs
  <2>2. [e \in Copies |-> Result(e)]' =
          [[e \in Copies |-> Result(e)] EXCEPT ![c] = "failed"]
    BY <1>3, <2>1
  <2>3. Abs!GiveUp(c)
    BY <2>1, <2>2 DEF Abs!GiveUp
  <2> QED BY <1>2, <2>3 DEF Abs!Next
<1> QED BY <1>4, <1>5

(* A step of the copy's surroundings, outside of objects and uploads.      *)
LEMMA StillStep ==
    ASSUME Uploads, UNCHANGED <<s3, req, pc, upload, flying, stored>>
    PROVE  [Abs!Next]_(Abs!vars) /\ Uploads'
<1>1. [e \in Copies |-> Result(e)]' = [e \in Copies |-> Result(e)]
  BY DEF Result, Running, ToFs
<1>2. UNCHANGED Abs!vars
  BY <1>1 DEF Abs!vars
<1>3. Uploads'
  BY DEF Uploads, Running, ToFs
<1> QED BY <1>2, <1>3

(* put_object is called: the temporary file becomes the copy's one body.   *)
LEMMA OfferStep ==
    ASSUME TypeInv, CapInv, Uploads, NEW c \in Copies, StartPut(c)
    PROVE  Abs!Offer(c) /\ Uploads'
<1>1. /\ pc[c] = "flushing" /\ ~ToFs(c)
      /\ upload' = [upload EXCEPT ![c] = tmp[c]]
      /\ flying' = [flying EXCEPT ![c] = 1]
      /\ pc' = [pc EXCEPT ![c] = "putting"]
      /\ UNCHANGED <<s3, req, stored>>
  BY DEF StartPut, stores
<1>2. tmp[c] \in Content /\ tmp[c] # Absent
  BY <1>1, ConstantsAssumption DEF TypeInv, Files
<1>3. Len(tmp[c]) <= MaxBytes
  BY <1>2, CapImplies DEF CapRespected
<1>4. /\ pc'[c] = "putting" /\ upload'[c] = tmp[c]
      /\ \A e \in Copies \ {c} : pc'[e] = pc[e] /\ upload'[e] = upload[e]
  BY <1>1 DEF TypeInv, TypeOK
<1>5. Uploads'
  BY <1>1, <1>2, <1>4 DEF Uploads, Running, ToFs
<1>6. Running(c) /\ Running(c)'
  BY <1>1, <1>4 DEF Running, Stage
<1>7. \A e \in Copies : Result(e)' = Result(e)
  BY <1>1, <1>4, <1>6 DEF Result, Running, ToFs
<1>8. Result(c) = "open" /\ upload[c] = Absent
  BY <1>1, <1>6 DEF Result, Uploads
<1>9. \E s \in UNION {[1..n -> Data] : n \in 0..MaxBytes} :
        upload' = [upload EXCEPT ![c] = s]
  BY <1>1, <1>2, <1>3, BodyOf
<1>10. Abs!Offer(c)
  BY <1>1, <1>7, <1>8, <1>9 DEF Abs!Offer
<1> QED BY <1>5, <1>10

(* The client sends the body again.                                        *)
LEMMA OfferAgainStep ==
    ASSUME TypeInv, Uploads, NEW c \in Copies, Resend(c)
    PROVE  Abs!OfferAgain(c) /\ Uploads'
<1>1. /\ pc[c] = "putting" /\ flying[c] < Attempts
      /\ flying' = [flying EXCEPT ![c] = @ + 1]
      /\ UNCHANGED <<s3, req, pc, upload, stored>>
  BY DEF Resend, stores
<1>2. Uploads'
  BY <1>1 DEF Uploads, Running, ToFs
<1>3. [e \in Copies |-> Result(e)]' = [e \in Copies |-> Result(e)]
  BY <1>1 DEF Result, Running, ToFs
<1>4. Result(c) = "open" /\ upload[c] # Absent
  BY <1>1 DEF Result, Uploads, Running, Stage
<1>5. Abs!OfferAgain(c)
  BY <1>1, <1>3, <1>4 DEF Abs!OfferAgain
<1> QED BY <1>2, <1>5

(* S3 applies a PUT, or loses it.                                          *)
LEMMA ServiceStep ==
    ASSUME TypeInv, Uploads, NEW c \in Copies
    PROVE  /\ S3Apply(c) => Abs!Apply(c) /\ Uploads'
           /\ S3Drop(c) => Abs!Lose(c) /\ Uploads'
<1>1. ASSUME UNCHANGED <<req, pc, upload>>
      PROVE  /\ [e \in Copies |-> Result(e)]' = [e \in Copies |-> Result(e)]
             /\ [e \in Copies |-> req[e].to]' = [e \in Copies |-> req[e].to]
             /\ Uploads'
  BY <1>1 DEF Result, Running, ToFs, Uploads
<1>2. ASSUME S3Apply(c) PROVE Abs!Apply(c) /\ Uploads'
  <2>1. /\ flying[c] > 0
        /\ flying' = [flying EXCEPT ![c] = @ - 1]
        /\ s3' = [s3 EXCEPT ![req[c].to] = upload[c]]
        /\ stored' = [stored EXCEPT ![c] = TRUE]
        /\ UNCHANGED <<req, pc, upload>>
    BY <1>2 DEF S3Apply
  <2> QED BY <1>1, <2>1 DEF Abs!Apply
<1>3. ASSUME S3Drop(c) PROVE Abs!Lose(c) /\ Uploads'
  <2>1. /\ flying[c] > 0
        /\ flying' = [flying EXCEPT ![c] = @ - 1]
        /\ UNCHANGED <<s3, req, pc, upload, stored>>
    BY <1>3 DEF S3Drop, stores
  <2> QED BY <1>1, <2>1 DEF Abs!Lose
<1> QED BY <1>2, <1>3

(* 204 for an upload: S3 has confirmed it.                                 *)
LEMMA SucceedStep ==
    ASSUME TypeInv, Uploads, NEW c \in Copies, PutOk(c)
    PROVE  Abs!Succeed(c) /\ Uploads'
<1>1. /\ pc[c] = "putting" /\ stored[c]
      /\ pc' = [pc EXCEPT ![c] = "copied"]
      /\ UNCHANGED <<s3, req, upload, flying, stored>>
  BY DEF PutOk, Conclude, End, stores, putSink
<1>2. /\ pc'[c] = "copied" /\ \A e \in Copies \ {c} : pc'[e] = pc[e]
  BY <1>1 DEF TypeInv, TypeOK
<1>3. "putting" \in Stage /\ "copied" \notin Stage /\ ~ToFs(c)
  BY <1>1 DEF Stage, Uploads
<1>4. Result(c) = "open" /\ Result(c)' = "ok"
  BY <1>1, <1>2, <1>3 DEF Result, Running, ToFs
<1>5. \A e \in Copies \ {c} : Result(e)' = Result(e)
  BY <1>1, <1>2 DEF Result, Running, ToFs
<1>6. [e \in Copies |-> Result(e)]' =
        [[e \in Copies |-> Result(e)] EXCEPT ![c] = "ok"]
  BY <1>4, <1>5
<1>7. Abs!Succeed(c)
  BY <1>1, <1>4, <1>6 DEF Abs!Succeed
<1>8. Uploads'
  BY <1>1, <1>2, <1>3 DEF Uploads, Running, ToFs
<1> QED BY <1>7, <1>8

(* Every other step keeps objects and uploads as they are.                 *)
LEMMA OtherStep ==
    ASSUME TypeInv, Uploads, NEW c \in Copies,
           \/ Admit(c) \/ OpenReadFs(c) \/ OpenReadS3(c) \/ OpenWriteFs(c)
           \/ OpenTmp(c) \/ CreateTmp(c) \/ CreateTmpFails(c)
           \/ Read(c) \/ ReadEof(c) \/ ReadFails(c) \/ Stall(c)
           \/ Write(c) \/ Land(c) \/ LandFails(c) \/ FinishFs(c)
           \/ WriteTmp(c) \/ WriteTmpFails(c) \/ PrepareFails(c)
           \/ PutFails(c) \/ Timeout(c) \/ Disconnect(c)
    PROVE  [Abs!Next]_(Abs!vars) /\ Uploads'
<1> DEFINE Goal == [Abs!Next]_(Abs!vars) /\ Uploads'
           Quiet == UNCHANGED <<s3, req, upload, flying, stored>>
           Failure == Outcome \ {"copied"}
<1>1. ASSUME NEW o \in Failure, Conclude(c, o), Running(c) PROVE Goal
  <2>1. Quiet /\ pc' = [pc EXCEPT ![c] = o] /\ o \notin Stage
    BY <1>1, OutcomeNames DEF Conclude, End, stores, putSink, Stage
  <2> QED BY <1>1, <2>1, QuietStep
<1>2. ASSUME NEW x \in Stage \ {"putting"}, Running(c), pc[c] # "putting",
             pc' = [pc EXCEPT ![c] = x], Quiet
      PROVE  Goal
  <2>1. x # "copied"
    BY DEF Stage
  <2> QED BY <1>2, <2>1, QuietStep
<1>3. ASSUME UNCHANGED pc, Quiet PROVE Goal
  BY <1>3, StillStep
<1> HIDE DEF Goal
<1>4. ASSUME Admit(c) PROVE Goal
  <2>1. Quiet /\ pc' = [pc EXCEPT ![c] = Verdict(req[c])] /\ pc[c] = "received"
    BY <1>4 DEF Admit, stores, putSink
  <2>2. Running(c)
    BY <2>1 DEF Running, Stage
  <2>3. CASE Verdict(req[c]) = "opening"
    BY <1>2, <2>1, <2>2, <2>3 DEF Stage
  <2>4. CASE Verdict(req[c]) # "opening"
    <3>1. Verdict(req[c]) \in Failure /\ Verdict(req[c]) \notin Stage
      BY <2>4, OutcomeNames DEF Verdict, Stage
    <3> QED BY <2>1, <2>2, <3>1, QuietStep DEF Goal
  <2> QED BY <2>3, <2>4
<1>5. ASSUME OpenReadFs(c) \/ OpenReadS3(c) PROVE Goal
  <2>1. pc[c] = "opening" /\ Running(c)
    BY <1>5 DEF OpenReadFs, OpenReadS3, Running, Stage
  <2>2. ASSUME NEW s, Opened(c, s) PROVE Goal
    BY <1>2, <2>1, <2>2 DEF Opened, Stage, stores, putSink
  <2>3. {"symlink", "missing", "open_failed", "upstream"} \subseteq Failure
    BY OutcomeNames
  <2> QED BY <1>1, <1>5, <2>1, <2>2, <2>3 DEF OpenReadFs, OpenReadS3
<1>6. ASSUME OpenWriteFs(c) \/ OpenTmp(c) PROVE Goal
  <2>1. pc[c] = "opened" /\ Running(c)
    BY <1>6 DEF OpenWriteFs, OpenTmp, Running, Stage
  <2>2. {"symlink", "open_failed", "upstream"} \subseteq Failure
    BY OutcomeNames
  <2>3. ASSUME NEW x \in {"creating", "copying"}, pc' = [pc EXCEPT ![c] = x], Quiet
        PROVE  Goal
    BY <1>2, <2>1, <2>3 DEF Stage
  <2> QED BY <1>1, <1>6, <2>1, <2>2, <2>3
          DEF OpenWriteFs, OpenTmp, stores, putSink
<1>7. ASSUME CreateTmp(c) PROVE Goal
  <2>1. Quiet /\ pc' = [pc EXCEPT ![c] = IF @ = "creating" THEN "copying" ELSE @]
    BY <1>7 DEF CreateTmp, stores, putSink
  <2>2. CASE pc[c] = "creating"
    BY <1>2, <2>1, <2>2 DEF Running, Stage
  <2>3. CASE pc[c] # "creating"
    BY <1>3, <2>1, <2>3 DEF TypeInv, TypeOK
  <2> QED BY <2>2, <2>3
<1>8. ASSUME NEW o \in Failure, End(c, o), Running(c), Quiet PROVE Goal
  <2>1. pc' = [pc EXCEPT ![c] = o] /\ o \notin Stage
    BY <1>8, OutcomeNames DEF End, Stage
  <2> QED BY <1>8, <2>1, QuietStep DEF Goal
<1>9. ASSUME CreateTmpFails(c) PROVE Goal
  <2>1. Quiet
    BY <1>9 DEF CreateTmpFails, stores, putSink
  <2>2. CASE pc[c] = "creating"
    <3>1. "open_failed" \in Failure /\ Running(c) /\ End(c, "open_failed")
      BY <1>9, <2>2, OutcomeNames DEF CreateTmpFails, Running, Stage
    <3> QED BY <1>8, <2>1, <3>1
  <2>3. CASE pc[c] # "creating"
    BY <1>3, <1>9, <2>1, <2>3 DEF CreateTmpFails
  <2> QED BY <2>2, <2>3
<1>10. ASSUME Read(c) PROVE Goal
  <2>1. Quiet /\ (UNCHANGED pc \/ End(c, "too_large")) /\ Running(c)
    BY <1>10 DEF Read, Wants, Running, Stage, stores, putSink
  <2>2. "too_large" \in Failure
    BY OutcomeNames
  <2> QED BY <1>3, <1>8, <2>1, <2>2
<1>11. ASSUME ReadEof(c) PROVE Goal
  <2>1. Quiet /\ pc[c] = "copying" /\ pc' = [pc EXCEPT ![c] = "flushing"]
    BY <1>11 DEF ReadEof, Wants, stores, putSink
  <2> QED BY <1>2, <2>1 DEF Running, Stage
<1>12. ASSUME Write(c) \/ Land(c) \/ WriteTmp(c) PROVE Goal
  <2>1. Quiet /\ UNCHANGED pc
    BY <1>12 DEF Write, Land, PutDown, WriteTmp, stores, putSink
  <2> QED BY <1>3, <2>1
<1>13. ASSUME LandFails(c) PROVE Goal
  <2>1. Quiet /\ IF Running(c) THEN End(c, "sink_failed") ELSE UNCHANGED pc
    BY <1>13 DEF LandFails, PutDown, putSink
  <2>2. "sink_failed" \in Failure
    BY OutcomeNames
  <2> QED BY <1>3, <1>8, <2>1, <2>2
<1>14. ASSUME FinishFs(c) PROVE Goal
  <2>1. /\ Quiet /\ pc[c] = "flushing" /\ ToFs(c)
        /\ pc' = [pc EXCEPT ![c] = "copied"]
    BY <1>14 DEF FinishFs, Conclude, End, stores, putSink
  <2>2. Running(c) /\ "copied" \in Outcome /\ "copied" \notin Stage
    BY <2>1, OutcomeNames DEF Running, Stage
  <2> QED BY <2>1, <2>2, QuietStep DEF Goal
<1>15. ASSUME \/ ReadFails(c) \/ Stall(c) \/ WriteTmpFails(c) \/ PrepareFails(c)
              \/ PutFails(c) \/ Timeout(c) \/ Disconnect(c)
       PROVE  Goal
  <2>1. Running(c)
    BY <1>15 DEF ReadFails, Stall, WriteTmpFails, PrepareFails, PutFails,
       Timeout, Disconnect, Wants, Draining, Running, Stage
  <2>2. PICK o \in Failure : Conclude(c, o)
    BY <1>15, OutcomeNames DEF ReadFails, Stall, WriteTmpFails, PrepareFails,
       PutFails, Timeout, Disconnect
  <2> QED BY <1>1, <2>1, <2>2
<1> QED BY <1>4, <1>5, <1>6, <1>7, <1>9, <1>10, <1>11, <1>12, <1>13, <1>14, <1>15
        DEF Goal

(* Every step maps to a step of AtomicPut, or to none.                     *)
LEMMA AtomicNext ==
    TypeInv /\ CapInv /\ Uploads /\ [Next]_vars => [Abs!Next]_(Abs!vars) /\ Uploads'
<1> SUFFICES ASSUME TypeInv, CapInv, Uploads, [Next]_vars
             PROVE  [Abs!Next]_(Abs!vars) /\ Uploads'
  OBVIOUS
<1>1. CASE UNCHANGED vars
  BY <1>1, StillStep DEF vars, stores, putSink
<1>2. ASSUME NEW c \in Copies, StartPut(c)
      PROVE  [Abs!Next]_(Abs!vars) /\ Uploads'
  BY <1>2, OfferStep DEF Abs!Next
<1>3. ASSUME NEW c \in Copies, Resend(c) \/ S3Apply(c) \/ S3Drop(c) \/ PutOk(c)
      PROVE  [Abs!Next]_(Abs!vars) /\ Uploads'
  BY <1>3, OfferAgainStep, ServiceStep, SucceedStep DEF Abs!Next
<1>4. ASSUME NEW c \in Copies,
             \/ Admit(c) \/ OpenReadFs(c) \/ OpenReadS3(c) \/ OpenWriteFs(c)
             \/ OpenTmp(c) \/ CreateTmp(c) \/ CreateTmpFails(c)
             \/ Read(c) \/ ReadEof(c) \/ ReadFails(c) \/ Stall(c)
             \/ Write(c) \/ Land(c) \/ LandFails(c) \/ FinishFs(c)
             \/ WriteTmp(c) \/ WriteTmpFails(c) \/ PrepareFails(c)
             \/ PutFails(c) \/ Timeout(c) \/ Disconnect(c)
      PROVE  [Abs!Next]_(Abs!vars) /\ Uploads'
  BY <1>4, OtherStep
<1> QED BY <1>1, <1>2, <1>3, <1>4 DEF Next

(* The initial states map to initial states.                               *)
LEMMA AtomicInit == Init => Abs!Init
<1> SUFFICES ASSUME Init PROVE Abs!Init
  OBVIOUS
<1>1. \A c \in Copies : Result(c) = "open"
  BY DEF Init, Result, Running, Stage
<1>2. [c \in Copies |-> req[c].to] \in [Copies -> Paths]
  BY DEF Init, Request
<1> QED BY <1>1, <1>2 DEF Init, Abs!Init

(* For its S3 destinations the service implements AtomicPut: objects       *)
(* change only as a whole and only to what a copy offered, within the cap, *)
(* 204 comes after the object took effect, and a copy that is refused or   *)
(* fails before put_object has no effect (S3 write_all).                   *)
THEOREM UploadsAtomic == Spec => UploadRefinement
<1>1. Abs!Init /\ [][Abs!Next]_(Abs!vars) => Abs!Spec
  BY DEF Abs!Spec
<1> QED BY <1>1, TypeInvariant, InitTypes, NextTypes, CapInit, CapNext, UploadsInit,
           AtomicInit, AtomicNext, PTL DEF Spec, UploadRefinement

-----------------------------------------------------------------------------
(* What AtomicPut implies of the bucket, whatever implements it.           *)

(* Every object is the one from the start or a body that some copy offered *)
(* for its key, unaltered; and 204 says that such a body took effect.      *)
ObjectsTraceable ==
    /\ \A p \in Paths : s3[p] # S3Init[p] =>
         \E c \in Copies : req[c].to = p /\ stored[c] /\ upload[c] \in Content /\ s3[p] = upload[c]
    /\ \A c \in Copies : pc[c] = "copied" /\ ~ToFs(c) => stored[c]

BucketTypes ==
    /\ s3 \in [Paths -> Object] /\ upload \in [Copies -> Object]
    /\ flying \in [Copies -> Nat] /\ stored \in [Copies -> BOOLEAN]
    /\ \A c \in Copies : req[c].to \in Paths
(* What was sent is a body, and does not change any more.                  *)
Bodied == \A c \in Copies : flying[c] > 0 \/ stored[c] => upload[c] \in Content
Traced ==
    \A p \in Paths : s3[p] = S3Init[p] \/
        \E c \in Copies : req[c].to = p /\ stored[c] /\ s3[p] = upload[c]
Told == \A c \in Copies : Result(c) = "ok" => stored[c]
PutInv == BucketTypes /\ Bodied /\ Traced /\ Told

LEMMA PutInit == Abs!Init => PutInv
<1> SUFFICES ASSUME Abs!Init PROVE PutInv
  OBVIOUS
<1> DEFINE to == [c \in Copies |-> req[c].to]
           results == [c \in Copies |-> Result(c)]
<1>1. /\ s3 = S3Init /\ upload = [c \in Copies |-> Absent] /\ flying = [c \in Copies |-> 0]
      /\ stored = [c \in Copies |-> FALSE] /\ to \in [Copies -> Paths]
      /\ results = [c \in Copies |-> "open"]
  BY DEF Abs!Init
<1>2. \A c \in Copies : req[c].to \in Paths
  <2>1. ASSUME NEW c \in Copies PROVE req[c].to \in Paths
    <3>1. to[c] = req[c].to
      OBVIOUS
    <3> HIDE DEF to
    <3> QED BY <1>1, <3>1
  <2> QED BY <2>1
<1>3. \A c \in Copies : Result(c) = "open"
  <2>1. ASSUME NEW c \in Copies PROVE Result(c) = "open"
    <3>1. results[c] = Result(c)
      OBVIOUS
    <3> HIDE DEF results
    <3> QED BY <1>1, <3>1
  <2> QED BY <2>1
<1> HIDE DEF to, results
<1>4. BucketTypes
  BY <1>1, <1>2, InitialStores DEF BucketTypes, Object
<1>5. Bodied
  BY <1>1 DEF Bodied
<1>6. Traced
  BY <1>1 DEF Traced
<1>7. Told
  BY <1>3 DEF Told
<1> QED BY <1>4, <1>5, <1>6, <1>7 DEF PutInv

(* Where a copy writes, and what it is told, read off the mapped functions. *)
LEMMA SameKeys ==
    ASSUME [c \in Copies |-> req[c].to]' = [c \in Copies |-> req[c].to]
    PROVE  \A c \in Copies : req'[c].to = req[c].to
<1> DEFINE to == [c \in Copies |-> req[c].to]
<1>1. \A c \in Copies : to[c] = req[c].to /\ to'[c] = req'[c].to
  OBVIOUS
<1>2. to' = to
  OBVIOUS
<1> HIDE DEF to
<1> QED BY <1>1, <1>2

LEMMA SameResults ==
    ASSUME [c \in Copies |-> Result(c)]' = [c \in Copies |-> Result(c)]
    PROVE  \A c \in Copies : Result(c)' = Result(c)
<1> DEFINE results == [c \in Copies |-> Result(c)]
<1>1. \A c \in Copies : results[c] = Result(c) /\ results'[c] = Result(c)'
  OBVIOUS
<1>2. results' = results
  OBVIOUS
<1> HIDE DEF results
<1> QED BY <1>1, <1>2

(* A step that changes neither objects nor bodies.                         *)
LEMMA PutRest ==
    ASSUME PutInv, UNCHANGED <<s3, upload, stored>>, flying' \in [Copies -> Nat],
           \A c \in Copies : req'[c].to = req[c].to,
           \A c \in Copies : flying'[c] > 0 => upload[c] \in Content,
           \A c \in Copies : Result(c)' = "ok" => stored[c]
    PROVE  PutInv'
<1>1. BucketTypes'
  BY DEF PutInv, BucketTypes
<1>2. Bodied'
  BY DEF PutInv, Bodied
<1>3. Traced'
  BY DEF PutInv, Traced
<1>4. Told'
  BY DEF Told
<1> QED BY <1>1, <1>2, <1>3, <1>4 DEF PutInv

LEMMA PutOffer == ASSUME PutInv, NEW c \in Copies, Abs!Offer(c) PROVE PutInv'
<1>1. /\ upload[c] = Absent /\ flying' = [flying EXCEPT ![c] = 1]
      /\ UNCHANGED <<s3, stored>>
      /\ [e \in Copies |-> req[e].to]' = [e \in Copies |-> req[e].to]
      /\ [e \in Copies |-> Result(e)]' = [e \in Copies |-> Result(e)]
  BY DEF Abs!Offer
<1>2. PICK s \in UNION {[1..n -> Data] : n \in 0..MaxBytes} : upload' = [upload EXCEPT ![c] = s]
  BY DEF Abs!Offer
<1>3. s \in Content
  <2>1. PICK n \in 0..MaxBytes : s \in [1..n -> Data]
    BY <1>2
  <2>2. n \in Nat
    BY <2>1, ConstantsAssumption
  <2> QED BY <2>1, <2>2, SeqDef DEF Content
<1>4. \A e \in Copies : req'[e].to = req[e].to
  BY <1>1, SameKeys
<1>5. \A e \in Copies : Result(e)' = Result(e)
  BY <1>1, SameResults
<1>6. BucketTypes /\ ~stored[c]
  BY <1>1, ConstantsAssumption DEF PutInv, Bodied
<1>7. BucketTypes'
  BY <1>1, <1>2, <1>3, <1>4, <1>6 DEF BucketTypes, Object
<1>8. \A e \in Copies : e # c => upload'[e] = upload[e] /\ flying'[e] = flying[e]
  BY <1>1, <1>2, <1>6 DEF BucketTypes
<1>9. upload'[c] = s
  BY <1>2, <1>6 DEF BucketTypes
<1>10. Bodied'
  BY <1>1, <1>3, <1>8, <1>9 DEF PutInv, Bodied
<1>11. Traced'
  BY <1>1, <1>4, <1>6, <1>8 DEF PutInv, Traced
<1>12. Told'
  BY <1>1, <1>5 DEF PutInv, Told
<1> QED BY <1>7, <1>10, <1>11, <1>12 DEF PutInv

LEMMA PutApply == ASSUME PutInv, NEW c \in Copies, Abs!Apply(c) PROVE PutInv'
<1> DEFINE to == [e \in Copies |-> req[e].to]
<1>1. /\ flying[c] > 0 /\ s3' = [s3 EXCEPT ![to[c]] = upload[c]]
      /\ flying' = [flying EXCEPT ![c] = @ - 1] /\ stored' = [stored EXCEPT ![c] = TRUE]
      /\ to' = to /\ upload' = upload
      /\ [e \in Copies |-> Result(e)]' = [e \in Copies |-> Result(e)]
  BY DEF Abs!Apply
<1>2. to[c] = req[c].to
  OBVIOUS
<1>3. \A e \in Copies : req'[e].to = req[e].to
  BY <1>1, SameKeys
<1> HIDE DEF to
<1>4. \A e \in Copies : Result(e)' = Result(e)
  BY <1>1, SameResults
<1>5. BucketTypes /\ upload[c] \in Content
  BY <1>1 DEF PutInv, Bodied
<1>6. PICK p \in Paths : p = req[c].to
  BY <1>5 DEF BucketTypes
<1>7. s3' = [s3 EXCEPT ![p] = upload[c]]
  BY <1>1, <1>2, <1>6
<1>8. \A e \in Copies : flying'[e] \in Nat /\ (flying'[e] > 0 => flying[e] > 0)
  <2>1. \A e \in Copies : flying'[e] = IF e = c THEN flying[c] - 1 ELSE flying[e]
    BY <1>1, <1>5 DEF BucketTypes
  <2>2. \A e \in Copies : flying[e] \in Nat
    BY <1>5 DEF BucketTypes
  <2> QED BY <1>1, <2>1, <2>2
<1>9. flying' \in [Copies -> Nat]
  <2>1. DOMAIN flying' = Copies /\ flying' = [e \in Copies |-> flying'[e]]
    BY <1>1, <1>5 DEF BucketTypes
  <2> QED BY <1>8, <2>1
<1>10. BucketTypes'
  BY <1>1, <1>3, <1>5, <1>7, <1>9 DEF BucketTypes, Object
<1>11. stored'[c] /\ \A e \in Copies : stored[e] => stored'[e]
  BY <1>1, <1>5 DEF BucketTypes
<1>12. \A e \in Copies : stored'[e] => e = c \/ stored[e]
  BY <1>1, <1>5 DEF BucketTypes
<1>13. Bodied'
  BY <1>1, <1>5, <1>8, <1>12 DEF PutInv, Bodied
<1>14. Traced'
  <2>1. ASSUME NEW q \in Paths
        PROVE  s3'[q] = S3Init[q] \/ \E e \in Copies : req'[e].to = q /\ stored'[e] /\ s3'[q] = upload'[e]
    <3>1. CASE q = p
      <4>1. s3'[q] = upload[c]
        BY <1>5, <1>7, <3>1 DEF BucketTypes
      <4> QED BY <1>1, <1>3, <1>6, <1>11, <3>1, <4>1
    <3>2. CASE q # p
      <4>1. s3'[q] = s3[q]
        BY <1>5, <1>7, <3>2 DEF BucketTypes
      <4> QED BY <1>1, <1>3, <1>11, <4>1 DEF PutInv, Traced
    <3> QED BY <3>1, <3>2
  <2> QED BY <2>1 DEF Traced
<1>15. Told'
  BY <1>4, <1>11 DEF PutInv, Told
<1> QED BY <1>10, <1>13, <1>14, <1>15 DEF PutInv

(* Another attempt, or one that is lost.                                   *)
LEMMA PutAttempts ==
    ASSUME PutInv, NEW c \in Copies, Abs!OfferAgain(c) \/ Abs!Lose(c) PROVE PutInv'
<1>1. /\ UNCHANGED <<s3, upload, stored>>
      /\ [e \in Copies |-> req[e].to]' = [e \in Copies |-> req[e].to]
      /\ [e \in Copies |-> Result(e)]' = [e \in Copies |-> Result(e)]
  BY DEF Abs!OfferAgain, Abs!Lose
<1>2. BucketTypes /\ flying[c] \in Nat
  BY DEF PutInv, BucketTypes
<1>3. PICK k \in Nat : flying' = [flying EXCEPT ![c] = k]
  <2>1. CASE Abs!OfferAgain(c)
    <3>1. flying[c] + 1 \in Nat /\ flying' = [flying EXCEPT ![c] = flying[c] + 1]
      BY <1>2, <2>1 DEF Abs!OfferAgain
    <3> QED BY <3>1
  <2>2. CASE Abs!Lose(c)
    <3>1. flying[c] - 1 \in Nat /\ flying' = [flying EXCEPT ![c] = flying[c] - 1]
      BY <1>2, <2>2 DEF Abs!Lose
    <3> QED BY <3>1
  <2> QED BY <2>1, <2>2
<1>4. upload[c] \in Content
  <2>1. upload[c] # Absent \/ flying[c] > 0
    BY DEF Abs!OfferAgain, Abs!Lose
  <2> QED BY <1>2, <2>1 DEF PutInv, Bodied, BucketTypes, Object
<1>5. flying' \in [Copies -> Nat] /\ \A e \in Copies : e # c => flying'[e] = flying[e]
  BY <1>2, <1>3 DEF BucketTypes
<1>6. \A e \in Copies : flying'[e] > 0 => upload[e] \in Content
  BY <1>4, <1>5 DEF PutInv, Bodied
<1>7. \A e \in Copies : req'[e].to = req[e].to
  BY <1>1, SameKeys
<1>8. \A e \in Copies : Result(e)' = "ok" => stored[e]
  BY <1>1, SameResults DEF PutInv, Told
<1> QED BY <1>1, <1>5, <1>6, <1>7, <1>8, PutRest

(* A reply, or many that will not come.                                    *)
LEMMA PutReplies ==
    ASSUME PutInv, (\E c \in Copies : Abs!Succeed(c) \/ Abs!GiveUp(c)) \/ Abs!Abandon
    PROVE  PutInv'
<1> DEFINE results == [c \in Copies |-> Result(c)]
<1>1. /\ UNCHANGED <<s3, upload, stored, flying>>
      /\ [c \in Copies |-> req[c].to]' = [c \in Copies |-> req[c].to]
  BY DEF Abs!Succeed, Abs!GiveUp, Abs!Abandon
<1>2. \A e \in Copies : results[e] = Result(e) /\ results'[e] = Result(e)'
  OBVIOUS
<1>3. results \in [Copies -> {"open", "ok", "failed"}]
  BY DEF Result
<1>4. \/ \E c \in Copies : stored[c] /\ results' = [results EXCEPT ![c] = "ok"]
      \/ \E c \in Copies : results' = [results EXCEPT ![c] = "failed"]
      \/ \A c \in Copies : results'[c] = results[c] \/ results'[c] = "failed"
  BY DEF Abs!Succeed, Abs!GiveUp, Abs!Abandon
<1> HIDE DEF results
<1>5. \A e \in Copies : results'[e] = "ok" => results[e] = "ok" \/ stored[e]
  BY <1>3, <1>4
<1>6. \A e \in Copies : Result(e)' = "ok" => stored[e]
  BY <1>2, <1>5 DEF PutInv, Told
<1>7. \A e \in Copies : req'[e].to = req[e].to
  BY <1>1, SameKeys
<1>8. flying' \in [Copies -> Nat] /\ \A e \in Copies : flying'[e] > 0 => upload[e] \in Content
  BY <1>1 DEF PutInv, BucketTypes, Bodied
<1> QED BY <1>1, <1>6, <1>7, <1>8, PutRest

LEMMA PutStep == PutInv /\ [Abs!Next]_(Abs!vars) => PutInv'
<1> SUFFICES ASSUME PutInv, [Abs!Next]_(Abs!vars) PROVE PutInv'
  OBVIOUS
<1>1. ASSUME NEW c \in Copies, Abs!Offer(c) PROVE PutInv'
  BY <1>1, PutOffer
<1>2. ASSUME NEW c \in Copies, Abs!Apply(c) PROVE PutInv'
  BY <1>2, PutApply
<1>3. ASSUME NEW c \in Copies, Abs!OfferAgain(c) \/ Abs!Lose(c) PROVE PutInv'
  BY <1>3, PutAttempts
<1>4. CASE UNCHANGED Abs!vars
  <2>1. /\ UNCHANGED <<s3, upload, stored, flying>>
        /\ [c \in Copies |-> req[c].to]' = [c \in Copies |-> req[c].to]
        /\ [c \in Copies |-> Result(c)]' = [c \in Copies |-> Result(c)]
    BY <1>4 DEF Abs!vars
  <2>2. \A e \in Copies : req'[e].to = req[e].to
    BY <2>1, SameKeys
  <2>3. \A e \in Copies : Result(e)' = "ok" => stored[e]
    BY <2>1, SameResults DEF PutInv, Told
  <2>4. flying' \in [Copies -> Nat] /\ \A e \in Copies : flying'[e] > 0 => upload[e] \in Content
    BY <2>1 DEF PutInv, BucketTypes, Bodied
  <2> QED BY <2>1, <2>2, <2>3, <2>4, PutRest
<1> QED BY <1>1, <1>2, <1>3, <1>4, PutReplies DEF Abs!Next

(* Whoever implements AtomicPut keeps the bucket traceable: every object   *)
(* is the one from the start or a body that some copy sent, unaltered, and *)
(* 204 is never told of a body that did not reach the bucket.              *)
THEOREM PromisedObjects == UploadRefinement => []ObjectsTraceable
<1>1. Abs!Spec => []PutInv
  BY PutInit, PutStep, PTL DEF Abs!Spec
<1>2. PutInv => ObjectsTraceable
  <2> SUFFICES ASSUME PutInv PROVE ObjectsTraceable
    OBVIOUS
  <2>1. ASSUME NEW p \in Paths, s3[p] # S3Init[p]
        PROVE  \E c \in Copies : req[c].to = p /\ stored[c] /\ upload[c] \in Content /\ s3[p] = upload[c]
    BY <2>1 DEF PutInv, Traced, Bodied
  <2>2. ASSUME NEW c \in Copies, pc[c] = "copied", ~ToFs(c) PROVE stored[c]
    <3>1. Result(c) = "ok"
      BY <2>2 DEF Result, Running, Stage
    <3> QED BY <3>1 DEF PutInv, Told
  <2> QED BY <2>1, <2>2 DEF ObjectsTraceable
<1> QED BY <1>1, <1>2, PTL DEF UploadRefinement

(* An object is the one from the start or a body that some copy sent to    *)
(* its key, whatever S3 applies, loses or repeats and however copies end   *)
(* (put_object in S3 write_all).                                           *)
THEOREM ObjectsOfCopies == Spec => []ObjectsTraceable
<1> QED BY UploadsAtomic, PromisedObjects, PTL
===============================================================================
