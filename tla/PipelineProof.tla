---------------------------- MODULE PipelineProof ----------------------------
(***************************************************************************)
(* The gate, the layers, the error envelope and the three clocks, for all  *)
(* tokens, limits and timeouts.                                            *)
(***************************************************************************)
EXTENDS Pipeline, TLAPS

-----------------------------------------------------------------------------
(* Replies.                                                                *)

(* Of what is inside of the timeout, and of the timeout itself, every      *)
(* outer layer sees the reply.                                             *)
Wire(answer) ==
    /\ phase' = "replied"
    /\ reply' = {[answer |-> answer, headers |-> {"security_headers", "traceparent"}]}
    /\ lines' = Append(lines, answer.status)

LEMMA Stack ==
    ASSUME NEW depth \in {Len(Layers) + 1} \cup
                         {d \in 1..Len(Layers) : Layers[d] = "timeout"},
           NEW answer, Leave(depth, answer)
    PROVE  Wire(answer)
<1>1. Len(Layers) = 6
  BY DEF Layers
<1>2. depth \in {6, 7}
  BY <1>1 DEF Layers
<1>3. /\ Layers[1] = "access_log" /\ 1 \in 1..(depth - 1)
      /\ Layers[3] = "security_headers" /\ 3 \in 1..(depth - 1)
      /\ Layers[4] = "traceparent" /\ 4 \in 1..(depth - 1)
  BY <1>2 DEF Layers
<1>4. {"access_log", "security_headers", "traceparent"} \subseteq Outside(depth)
  BY <1>3 DEF Outside
<1>5. Outside(depth) \cap {"security_headers", "traceparent"} = {"security_headers", "traceparent"}
  BY <1>4
<1> QED BY <1>4, <1>5 DEF Leave, Wire

(* A message that is clipped is no longer than the limit, and not empty.   *)
LEMMA ClipBounds ==
    /\ \A n \in Nat : Clip(n) \in Nat
    /\ \A n \in Nat : n > 0 => Clip(n) \in 1..MaxMessage
BY PipelineAssumption DEF Clip

Variants == {"InvalidPath", "SameStorageType", "BackendNotConfigured", "NotFound",
             "ListLimitTooLarge", "BadQuery", "BadBody", "BodyTooLarge",
             "BodyReadTimeout", "Upstream", "Io"}

(* FerryError: status, code and message of every variant.                  *)
Row(v, status, error, message) ==
    /\ FerryError[v] = Answer(status, error, message)
    /\ status \in 400..599 /\ status # 401
    /\ error # "" /\ (error = "body_read_timeout" => v = "BodyReadTimeout")
    /\ message \in 1..48

LEMMA Table ==
    ASSUME NEW v \in Variants
    PROVE  \E status, error, message : Row(v, status, error, message)
<1>1. /\ Row("InvalidPath", 400, "invalid_path", 19)
      /\ Row("SameStorageType", 400, "same_storage_type", 48)
      /\ Row("BackendNotConfigured", 503, "backend_not_configured", 36)
      /\ Row("NotFound", 404, "not_found", 14)
  BY DEF FerryError, Row
<1>2. /\ Row("ListLimitTooLarge", 413, "list_limit_too_large", 48)
      /\ Row("BadQuery", 400, "bad_query", 22)
      /\ Row("BadBody", 400, "bad_body", 22)
  BY DEF FerryError, Row
<1>3. /\ Row("BodyTooLarge", 413, "body_too_large", 42)
      /\ Row("BodyReadTimeout", 408, "body_read_timeout", 34)
      /\ Row("Upstream", 502, "upstream_error", 24)
      /\ Row("Io", 500, "io_error", 11)
  BY DEF FerryError, Row
<1> QED BY <1>1, <1>2, <1>3 DEF Variants

LEMMA DetailsNat == ASSUME NEW v PROVE DetailsOf(v) \subseteq Nat
BY ClipBounds, PipelineAssumption DEF DetailsOf

(* What the client gets for an error: a code, and a message that fits.     *)
Told(v, status, error, message) ==
    /\ Wire(Answer(status, error, message))
    /\ status \in 400..599 /\ status # 401
    /\ error # "" /\ (error = "body_read_timeout" => v = "BodyReadTimeout")
    /\ message \in 1..MaxMessage

LEMMA ErrReply ==
    ASSUME NEW v \in Variants, Err(v)
    PROVE  \E status, error, message : Told(v, status, error, message)
<1>1. PICK n \in DetailsOf(v) :
        Reply([FerryError[v] EXCEPT !.message = Clip(@ + n)])
  BY DEF Err
<1>2. n \in Nat
  BY <1>1, DetailsNat
<1>3. PICK s, e, k : Row(v, s, e, k)
  BY Table
<1> DEFINE m == Clip(k + n)
<1>4. m \in 1..MaxMessage
  <2>1. k \in 1..48
    BY <1>3 DEF Row
  <2>2. k + n \in Nat /\ k + n > 0
    BY <1>2, <2>1
  <2> QED BY <2>2, ClipBounds
<1>5. [FerryError[v] EXCEPT !.message = Clip(@ + n)] = Answer(s, e, m)
  <2>1. FerryError[v] = [status |-> s, error |-> e, message |-> k]
    BY <1>3 DEF Row, Answer
  <2> QED BY <2>1 DEF Answer
<1> HIDE DEF m
<1>6. Leave(Len(Layers) + 1, Answer(s, e, m))
  BY <1>1, <1>5 DEF Reply
<1>7. Wire(Answer(s, e, m))
  BY <1>6, Stack
<1>8. Told(v, s, e, m)
  <2>1. /\ s \in 400..599 /\ s # 401
        /\ e # "" /\ (e = "body_read_timeout" => v = "BodyReadTimeout")
    BY <1>3 DEF Row
  <2> QED BY <1>4, <1>7, <2>1 DEF Told
<1> QED BY <1>8

-----------------------------------------------------------------------------
(* The gate.                                                               *)

(* Who passes the gate is an owner of the token, and the other way round:  *)
(* the comparison trims what the client presents, and only that.           *)
LEMMA GateIsOwner ==
    ASSUME cfg \in Config, rq \in Request
    PROVE  Passes <=> Owner
<1>1. CASE cfg.token = {}
  BY <1>1 DEF Passes, Owner
<1>2. CASE cfg.token # {}
  <2>1. PICK t \in Secret : cfg.token = {t}
    BY <1>2 DEF Config, Option
  <2>2. CASE rq.auth = {}
    BY <1>2, <2>2 DEF Passes, Presented, Owner
  <2>3. CASE rq.auth # {}
    <3>1. PICK a \in Secret : rq.auth = {a}
      BY <2>3 DEF Request, Option
    <3>2. Presented = {[a EXCEPT !.blanks = FALSE]}
      BY <3>1 DEF Presented
    <3>3. [a EXCEPT !.blanks = FALSE] = [value |-> a.value, blanks |-> FALSE]
      <4> DEFINE p == [a EXCEPT !.blanks = FALSE]
      <4>1. p \in Secret /\ p.value = a.value /\ p.blanks = FALSE
        BY DEF Secret
      <4> HIDE DEF p
      <4>2. p = [value |-> p.value, blanks |-> p.blanks]
        BY <4>1 DEF Secret
      <4>3. p = [value |-> a.value, blanks |-> FALSE]
        BY <4>1, <4>2
      <4> QED BY <4>3 DEF p
    <3>4. t = [value |-> t.value, blanks |-> t.blanks] /\ t.blanks \in BOOLEAN
      BY DEF Secret
    <3>5. [value |-> a.value, blanks |-> FALSE] = t <=> a.value = t.value /\ ~t.blanks
      BY <3>4
    <3>6. Passes <=> a.value = t.value /\ ~t.blanks /\ a.value # Empty
      BY <1>2, <2>1, <3>2, <3>3, <3>5 DEF Passes
    <3>7. Owner <=> a.value = t.value /\ ~t.blanks /\ t.value # Empty
      BY <1>2, <2>1, <3>1 DEF Owner
    <3> QED BY <3>6, <3>7
  <2> QED BY <2>2, <2>3
<1> QED BY <1>1, <1>2

-----------------------------------------------------------------------------
(* The inductive invariant: what is known of a request before it is        *)
(* answered, by the gate and the clocks, and what every answer says then.  *)
Fresh == now = 0 /\ idle = 0 /\ got = 0 /\ touched = FALSE
Admitted == rq.path \in Gated /\ Passes
Clocks ==
    /\ now <= cfg.limit
    /\ phase = "body" => now <= BodyReadTimeout /\ got <= MaxBody
    /\ phase = "reading" => idle <= cfg.inactivity
Explained(status, error, message) ==
    \/ status < 400
    \/ error # "" /\ message \in 1..MaxMessage
    \/ status = 408 /\ error = "" /\ now = cfg.limit
    \/ status = 405 /\ rq.method = "wrong"
    \/ status = 404 /\ rq.path = "unmatched"
    \/ status = 404 /\ rq.path = "/api" /\ ~(cfg.admin /\ cfg.docs)
Sound(status, error, message) ==
    /\ status \in 200..599 /\ message \in Nat
    /\ status = 401 => Fresh /\ ~Passes /\ rq.path \notin Open
    /\ status # 401 /\ rq.path \in Gated => Passes
    /\ Explained(status, error, message)
    /\ error = "body_read_timeout" => now = BodyReadTimeout /\ BodyReadTimeout < cfg.limit
    /\ status = 408 /\ error = "" => now = cfg.limit
Settled ==
    \E a : /\ reply = {[answer |-> a, headers |-> {"security_headers", "traceparent"}]}
           /\ lines = <<a.status>>
           /\ Sound(a.status, a.error, a.message)
Types ==
    /\ cfg \in Config /\ rq \in Request
    /\ phase \in {"arrived", "replied", "dropped"} \cup Waiting
    /\ now \in Nat /\ idle \in 0..now /\ got \in 0..(MaxBody + 1)
    /\ touched \in BOOLEAN
Inv ==
    /\ Types
    /\ phase = "arrived" => Fresh
    /\ phase \in Waiting \cup {"dropped"} => Admitted
    /\ phase \in Waiting => Clocks
    /\ IF phase = "replied" THEN Settled ELSE reply = {} /\ lines = <<>>

(* The numbers of a configuration.                                         *)
LEMMA Limits ==
    ASSUME cfg \in Config
    PROVE  /\ cfg.limit \in Nat \ {0} /\ cfg.inactivity \in Nat \ {0}
           /\ BodyReadTimeout \in Nat \ {0} /\ MaxBody \in Nat
           /\ MaxMessage \in Nat /\ MaxMessage >= 100
BY PipelineAssumption DEF Config

LEMMA InvImplies ==
    Inv => TypeOK /\ GateExact /\ EveryLayerSeesIt /\ FailuresExplained /\ ClocksAgree
<1> SUFFICES ASSUME Inv
             PROVE  TypeOK /\ GateExact /\ EveryLayerSeesIt /\ FailuresExplained /\ ClocksAgree
  OBVIOUS
<1>1. Passes <=> Owner
  BY GateIsOwner DEF Inv, Types
<1>2. CASE phase # "replied"
  <2>1. reply = {} /\ lines = <<>> /\ Types
    BY <1>2 DEF Inv
  <2>2. TypeOK
    BY <1>2, <2>1 DEF TypeOK, Types
  <2>3. GateExact
    BY <1>1, <1>2, <2>1 DEF GateExact, Inv, Types, Fresh, Admitted
  <2>4. EveryLayerSeesIt /\ FailuresExplained
    BY <2>1 DEF EveryLayerSeesIt, FailuresExplained
  <2>5. ClocksAgree
    BY <2>1 DEF ClocksAgree, Inv, Clocks, Waiting
  <2> QED BY <2>2, <2>3, <2>4, <2>5
<1>3. CASE phase = "replied"
  <2>1. PICK a : /\ reply = {[answer |-> a, headers |-> {"security_headers", "traceparent"}]}
                 /\ lines = <<a.status>>
                 /\ Sound(a.status, a.error, a.message)
    BY <1>3 DEF Inv, Settled
  <2>2. \A r \in reply : r.answer = a /\ r.headers = {"security_headers", "traceparent"}
    BY <2>1
  <2>3. reply # {} /\ Types
    BY <2>1 DEF Inv
  <2>4. TypeOK
    <3>1. \A r \in reply : r.answer.status \in 200..599 /\ r.answer.message \in Nat
      <4>1. a.status \in 200..599 /\ a.message \in Nat
        BY <2>1 DEF Sound
      <4>2. ASSUME NEW r \in reply PROVE r.answer = a
        BY <2>2
      <4> QED BY <4>1, <4>2
    <3>2. Len(lines) <= 1
      BY <2>1
    <3> QED BY <1>3, <2>3, <3>1, <3>2 DEF TypeOK, Types
  <2>5. GateExact
    <3>1. (\E r \in reply : r.answer.status = 401) <=> a.status = 401
      BY <2>2, <2>3
    <3>2. rq.path \in Gated /\ ~Owner => a.status = 401
      BY <1>1, <2>1 DEF Sound
    <3>3. a.status = 401 => Fresh /\ ~Owner /\ rq.path \notin Open
      BY <1>1, <2>1 DEF Sound
    <3> QED BY <1>3, <3>1, <3>2, <3>3 DEF GateExact, Gated, Fresh
  <2>6. EveryLayerSeesIt
    BY <2>1, <2>2, <2>3 DEF EveryLayerSeesIt
  <2>7. FailuresExplained
    <3>0. Sound(a.status, a.error, a.message)
      BY <2>1
    <3>1. a.status \in 200..599
      BY <3>0 DEF Sound
    <3>5. a.status >= 400 => ~(a.status < 400)
      BY <3>1
    <3>2. ASSUME NEW r \in reply, r.answer.status >= 400, ~Bare(r)
          PROVE  r.answer.error # "" /\ r.answer.message \in 1..MaxMessage
      <4>1. r.answer = a
        BY <2>2
      <4>2. ~(a.status < 400)
        BY <3>2, <3>5, <4>1
      <4>3. a.error # "" /\ a.message \in 1..MaxMessage
        <5> DEFINE st == a.status
                   er == a.error
                   me == a.message
        <5>1. ~(st < 400) /\ Explained(st, er, me)
          BY <3>0, <4>2 DEF Sound
        <5>2. /\ ~(st = 408 /\ now = cfg.limit)
              /\ ~(st = 405 /\ rq.method = "wrong")
              /\ ~(st = 404 /\ rq.path = "unmatched")
              /\ ~(st = 404 /\ rq.path = "/api" /\ ~(cfg.admin /\ cfg.docs))
          BY <3>2, <4>1 DEF Bare
        <5> HIDE DEF st, er, me
        <5>3. er # "" /\ me \in 1..MaxMessage
          BY <5>1, <5>2 DEF Explained
        <5> QED BY <5>3 DEF er, me
      <4> QED BY <4>1, <4>3
    <3> QED BY <3>2 DEF FailuresExplained
  <2>8. ClocksAgree
    <3>1. \A r \in reply :
            /\ r.answer.error = "body_read_timeout" =>
                 now = BodyReadTimeout /\ BodyReadTimeout < cfg.limit
            /\ r.answer.status = 408 /\ r.answer.error = "" => now = cfg.limit
      <4>1. Sound(a.status, a.error, a.message)
        BY <2>1
      <4>2. /\ a.error = "body_read_timeout" =>
                 now = BodyReadTimeout /\ BodyReadTimeout < cfg.limit
            /\ a.status = 408 /\ a.error = "" => now = cfg.limit
        BY <4>1 DEF Sound
      <4>3. ASSUME NEW r \in reply PROVE r.answer = a
        BY <2>2
      <4> QED BY <4>2, <4>3
    <3> QED BY <1>3, <3>1 DEF ClocksAgree, Waiting
  <2> QED BY <2>4, <2>5, <2>6, <2>7, <2>8
<1> QED BY <1>2, <1>3

-----------------------------------------------------------------------------
(* The steps.                                                              *)

LEMMA InvInit == Init => Inv
<1> SUFFICES ASSUME Init PROVE Inv
  OBVIOUS
<1>1. 0 \in 0..0 /\ 0 \in 0..(MaxBody + 1)
  BY PipelineAssumption
<1>2. Types
  BY <1>1 DEF Init, Types
<1> QED BY <1>2 DEF Init, Inv, Fresh, Waiting

(* A step that answers.                                                    *)
LEMMA AnswerStep ==
    ASSUME Inv, phase # "replied", NEW s, NEW e, NEW m, Wire(Answer(s, e, m)),
           UNCHANGED <<cfg, rq, now>>,
           idle' \in 0..now, got' \in 0..(MaxBody + 1), touched' \in BOOLEAN,
           Sound(s, e, m)'
    PROVE  Inv'
<1> DEFINE a == Answer(s, e, m)
<1>1. a.status = s /\ a.error = e /\ a.message = m
  BY DEF Answer
<1>2. Wire(a)
  OBVIOUS
<1> HIDE DEF a
<1>3. lines' = <<a.status>>
  BY <1>2 DEF Wire, Inv
<1>4. phase' = "replied" /\ Settled'
  BY <1>1, <1>2, <1>3 DEF Wire, Settled
<1>5. Types'
  BY <1>4 DEF Inv, Types
<1> QED BY <1>4, <1>5 DEF Inv, Waiting

(* It answers with an error behind the gate.                               *)
LEMMA ErrStep ==
    ASSUME Inv, phase # "replied", NEW v \in Variants, Err(v), UNCHANGED <<cfg, rq, now>>,
           idle' \in 0..now, got' \in 0..(MaxBody + 1), touched' \in BOOLEAN,
           Passes,
           v = "BodyReadTimeout" => now = BodyReadTimeout /\ BodyReadTimeout < cfg.limit
    PROVE  Inv'
<1>1. PICK s, e, m : Told(v, s, e, m)
  BY ErrReply
<1>2. /\ s \in 200..599 /\ s # 401 /\ m \in Nat
      /\ e # "" /\ m \in 1..MaxMessage
      /\ e = "body_read_timeout" => now' = BodyReadTimeout /\ BodyReadTimeout < cfg'.limit
  <2>1. s \in 400..599 /\ m \in 1..MaxMessage
    BY <1>1 DEF Told
  <2>2. s \in 200..599 /\ m \in Nat
    BY <2>1, PipelineAssumption
  <2>3. /\ s # 401 /\ e # ""
        /\ e = "body_read_timeout" => now' = BodyReadTimeout /\ BodyReadTimeout < cfg'.limit
    BY <1>1 DEF Told
  <2> QED BY <2>1, <2>2, <2>3
<1>3. Passes'
  BY DEF Passes, Presented
<1>4. Sound(s, e, m)'
  BY <1>2, <1>3 DEF Sound, Explained
<1>5. Wire(Answer(s, e, m))
  BY <1>1 DEF Told
<1> QED BY <1>4, <1>5, AnswerStep

(* It answers otherwise, and nothing else happens.                         *)
LEMMA OtherStep ==
    ASSUME Inv, phase # "replied", NEW s, NEW e, NEW m, Reply(Answer(s, e, m)),
           UNCHANGED <<cfg, rq, now, idle, got, touched>>, Sound(s, e, m)
    PROVE  Inv'
<1>1. Wire(Answer(s, e, m))
  BY Stack DEF Reply
<1>2. Sound(s, e, m)'
  <2>1. Passes' = Passes /\ Fresh' = Fresh /\ Explained(s, e, m)' = Explained(s, e, m)
    BY DEF Passes, Presented, Fresh, Explained
  <2>2. /\ s \in 200..599 /\ m \in Nat
        /\ s = 401 => Fresh' /\ ~Passes' /\ rq'.path \notin Open
        /\ s # 401 /\ rq'.path \in Gated => Passes'
    BY <2>1 DEF Sound
  <2>3. /\ Explained(s, e, m)'
        /\ e = "body_read_timeout" => now' = BodyReadTimeout /\ BodyReadTimeout < cfg'.limit
        /\ s = 408 /\ e = "" => now' = cfg'.limit
    BY <2>1 DEF Sound
  <2> QED BY <2>2, <2>3 DEF Sound
<1>3. idle' \in 0..now /\ got' \in 0..(MaxBody + 1) /\ touched' \in BOOLEAN
  BY DEF Inv, Types
<1> QED BY <1>1, <1>2, <1>3, AnswerStep

(* A request before its first await.                                       *)
LEMMA ArriveStep == ASSUME Inv, Arrive PROVE Inv'
<1>1. phase = "arrived" /\ Fresh /\ Types
  BY DEF Inv, Arrive, Unauthorized, Unmatched, WrongMethod, Root, Openapi, ListFiles,
     CopyFile, At
<1>2. phase # "replied"
  BY <1>1
<1>3. Passes' <=> Passes
  BY DEF Arrive, Unauthorized, Unmatched, WrongMethod, Root, Openapi, ListFiles,
     CopyFile, Passes, Presented
<1>4. 0 \in Nat /\ 20 \in Nat /\ 20 \in 1..MaxMessage
      /\ {200, 401, 404, 405} \subseteq 200..599 /\ 200 < 400
  BY PipelineAssumption
<1>5. CASE Unauthorized
  <2>1. rq.path \notin Open /\ ~Passes
    BY <1>5 DEF Unauthorized, Gated, Open
  <2>2. Sound(401, "unauthorized", 20)
    BY <1>1, <1>4, <2>1 DEF Sound, Explained
  <2> QED BY <1>2, <1>5, <2>2, OtherStep DEF Unauthorized
<1>6. CASE Unmatched
  <2>1. rq.path = "unmatched" /\ rq.path \notin Gated
    BY <1>6 DEF Unmatched, Gated
  <2>2. Sound(404, "", 0)
    BY <1>4, <2>1 DEF Sound, Explained
  <2> QED BY <1>2, <1>6, <2>2, OtherStep DEF Unmatched
<1>7. CASE WrongMethod
  <2>1. rq.method = "wrong" /\ (rq.path \in Gated => Passes)
    BY <1>7 DEF WrongMethod
  <2>2. Sound(405, "", 0)
    BY <1>4, <2>1 DEF Sound, Explained
  <2> QED BY <1>2, <1>7, <2>2, OtherStep DEF WrongMethod
<1>8. ASSUME rq.path \notin Gated PROVE Sound(200, "", 0)
  BY <1>4, <1>8 DEF Sound, Explained
<1>9. CASE Root
  <2>1. rq.path \notin Gated
    BY <1>9 DEF Root, At, Gated
  <2> QED BY <1>2, <1>8, <1>9, <2>1, OtherStep DEF Root
<1>10. CASE Openapi
  <2>1. rq.path = "/api" /\ rq.path \notin Gated
    BY <1>10 DEF Openapi, At, Gated
  <2>2. ASSUME ~(cfg.admin /\ cfg.docs)
        PROVE  Sound(404, "", 0) /\ Sound(404, "documentation_disabled", 0)
    <3>1. 404 \in 200..599 /\ 0 \in Nat
      OBVIOUS
    <3>2. Sound(404, "", 0)
      BY <2>1, <2>2, <3>1 DEF Sound, Explained
    <3>3. Sound(404, "documentation_disabled", 0)
      BY <2>1, <2>2, <3>1 DEF Sound, Explained
    <3> QED BY <3>2, <3>3
  <2>3. UNCHANGED <<cfg, rq, now, idle, got, touched>>
    BY <1>10 DEF Openapi
  <2>4. CASE ~(cfg.admin /\ cfg.docs) /\ Reply(Answer(404, "", 0))
    BY <1>2, <2>2, <2>3, <2>4, OtherStep
  <2>5. CASE ~(cfg.admin /\ cfg.docs) /\ Reply(Answer(404, "documentation_disabled", 0))
    BY <1>2, <2>2, <2>3, <2>5, OtherStep
  <2>6. CASE Reply(Answer(200, "", 0))
    BY <1>2, <1>8, <2>1, <2>3, <2>6, OtherStep
  <2> QED BY <1>10, <2>4, <2>5, <2>6 DEF Openapi
<1>11. ASSUME NEW v \in Variants \ {"BodyReadTimeout"}, Err(v), Passes,
              UNCHANGED <<cfg, rq, now, idle, got, touched>>
       PROVE  Inv'
  BY <1>1, <1>11, ErrStep DEF Types
<1>12. ASSUME NEW next \in {"listing", "body"}, Await(next), Admitted,
              UNCHANGED <<cfg, rq, now, idle, got>>, touched' \in BOOLEAN
       PROVE  Inv'
  <2>1. phase' \in Waiting /\ phase' = next /\ UNCHANGED <<reply, lines>>
    BY <1>12 DEF Await, Waiting
  <2>2. Types' /\ Admitted'
    BY <1>1, <1>3, <1>12, <2>1 DEF Types, Admitted
  <2>3. Clocks'
    BY <1>1, <1>12, <2>1, Limits DEF Clocks, Fresh, Types
  <2> QED BY <1>1, <2>1, <2>2, <2>3 DEF Inv, Waiting
<1>13. CASE ListFiles
  <2>1. Admitted
    BY <1>13 DEF ListFiles, At, Admitted, Gated
  <2>2. CASE \E v \in Variants \ {"BodyReadTimeout"} : Err(v) /\ UNCHANGED touched
    BY <1>11, <1>13, <2>1, <2>2 DEF ListFiles, Admitted
  <2>3. CASE Await("listing") /\ touched' = TRUE
    BY <1>12, <1>13, <2>1, <2>3 DEF ListFiles
  <2> QED BY <1>13, <2>2, <2>3 DEF ListFiles, Variants
<1>14. CASE CopyFile
  <2>1. Admitted
    BY <1>14 DEF CopyFile, At, Admitted, Gated
  <2>2. "BadBody" \in Variants \ {"BodyReadTimeout"}
    BY DEF Variants
  <2>3. touched' \in BOOLEAN
    BY <1>1, <1>14 DEF CopyFile, Types
  <2> QED BY <1>11, <1>12, <1>14, <2>1, <2>2, <2>3 DEF CopyFile, Admitted
<1> QED BY <1>5, <1>6, <1>7, <1>9, <1>10, <1>13, <1>14 DEF Arrive

(* The stages of a request that waits.                                     *)
LEMMA WaitStep ==
    ASSUME Inv,
           \/ BodyChunk \/ BodyEnds \/ BodyTimeout
           \/ BackendFails \/ BackendMoves \/ SourceReads \/ SourceStalls \/ Finish
           \/ Timeout \/ Disconnect \/ Tick
    PROVE  Inv'
<1>1. phase \in Waiting
  BY DEF BodyChunk, BodyEnds, BodyTimeout, BackendFails, BackendMoves, SourceReads,
     SourceStalls, Finish, Timeout, Disconnect, Tick, Polled, Expired, Failures, Waiting
<1>2. /\ Admitted /\ Passes /\ Clocks /\ Types
      /\ phase # "replied" /\ reply = {} /\ lines = <<>>
  BY <1>1 DEF Inv, Admitted, Waiting
<1>3. UNCHANGED <<cfg, rq>> /\ (Admitted' <=> Admitted)
  BY DEF BodyChunk, BodyEnds, BodyTimeout, BackendFails, BackendMoves, SourceReads,
     SourceStalls, Finish, Timeout, Disconnect, Tick, Admitted, Passes, Presented
<1>4. /\ cfg.limit \in Nat \ {0} /\ cfg.inactivity \in Nat \ {0}
      /\ BodyReadTimeout \in Nat \ {0} /\ MaxBody \in Nat
      /\ now \in Nat /\ idle \in 0..now /\ 0 \in 0..now /\ got \in 0..(MaxBody + 1)
  BY <1>2, Limits DEF Types
<1>5. ASSUME NEW v \in Variants \ {"BodyReadTimeout"}, Err(v), UNCHANGED now,
             idle' \in 0..now, got' \in 0..(MaxBody + 1), touched' \in BOOLEAN
      PROVE  Inv'
  BY <1>2, <1>3, <1>5, ErrStep
<1>6. ASSUME NEW v \in Variants \ {"BodyReadTimeout"}, Err(v),
             UNCHANGED <<now, idle, got, touched>>
      PROVE  Inv'
  BY <1>2, <1>5, <1>6 DEF Types
<1>7. ASSUME phase' \in Waiting, UNCHANGED <<reply, lines, now>>,
             idle' \in 0..now, got' \in 0..(MaxBody + 1), touched' \in BOOLEAN,
             phase' = "body" => now <= BodyReadTimeout /\ got' <= MaxBody,
             phase' = "reading" => idle' <= cfg.inactivity
      PROVE  Inv'
  <2>1. Types' /\ Clocks'
    BY <1>2, <1>3, <1>7 DEF Types, Clocks
  <2> QED BY <1>2, <1>3, <1>7, <2>1 DEF Inv, Waiting
<1>8. CASE BodyChunk
  <2>1. /\ phase = "body" /\ got' = got + 1 /\ idle' = 0 /\ UNCHANGED <<now, touched>>
        /\ IF got' > MaxBody THEN Err("BodyTooLarge") ELSE UNCHANGED <<phase, reply, lines>>
    BY <1>8 DEF BodyChunk, Polled
  <2>2. got <= MaxBody /\ now <= BodyReadTimeout
    BY <1>2, <2>1 DEF Clocks
  <2>3. got' \in 0..(MaxBody + 1) /\ touched' \in BOOLEAN
    BY <1>2, <1>4, <2>1, <2>2 DEF Types
  <2>4. CASE got' > MaxBody
    BY <1>4, <1>5, <2>1, <2>3, <2>4 DEF Variants
  <2>5. CASE ~(got' > MaxBody)
    BY <1>1, <1>4, <1>7, <2>1, <2>2, <2>3, <2>5
  <2> QED BY <2>4, <2>5
<1>9. CASE BodyEnds
  <2>1. UNCHANGED <<now, got>> /\ idle' = 0
    BY <1>9 DEF BodyEnds
  <2>2. CASE /\ Err("BadBody") \/ Err("SameStorageType") \/ Err("InvalidPath")
                \/ Err("BackendNotConfigured")
             /\ UNCHANGED touched
    BY <1>2, <1>4, <1>5, <2>1, <2>2 DEF Variants, Types
  <2>3. CASE Await("opening") /\ touched' = TRUE
    BY <1>4, <1>7, <2>1, <2>3 DEF Await, Waiting
  <2> QED BY <1>9, <2>2, <2>3 DEF BodyEnds
<1>10. CASE BodyTimeout
  <2>1. now <= BodyReadTimeout /\ now >= BodyReadTimeout /\ ~(now >= cfg.limit)
    BY <1>1, <1>2, <1>10 DEF BodyTimeout, Polled, BodyLate, Expired, Clocks
  <2>2. now = BodyReadTimeout /\ BodyReadTimeout < cfg.limit
    BY <1>4, <2>1
  <2>3. UNCHANGED <<now, idle, got, touched>> /\ Err("BodyReadTimeout")
    BY <1>10 DEF BodyTimeout
  <2> QED BY <1>2, <1>3, <2>2, <2>3, ErrStep DEF Variants, Types
<1>11. CASE BackendFails \/ SourceStalls
  BY <1>6, <1>11 DEF BackendFails, SourceStalls, Failures, Variants
<1>12. CASE BackendMoves \/ SourceReads
  <2>1. /\ phase' \in {"writing", "reading", "finishing"} /\ idle' = 0
        /\ UNCHANGED <<now, got, touched, reply, lines>>
    BY <1>12 DEF BackendMoves, SourceReads, Following, Await
  <2> QED BY <1>2, <1>4, <1>7, <2>1 DEF Waiting, Types
<1>13. CASE Finish
  <2>1. PICK s \in {200, 204} : Reply(Answer(s, "", 0))
    BY <1>13 DEF Finish
  <2>2. s \in 200..599 /\ s < 400 /\ s # 401 /\ s # 408
    OBVIOUS
  <2>3. Sound(s, "", 0)
    BY <1>2, <2>2 DEF Sound, Explained
  <2>4. UNCHANGED <<cfg, rq, now, idle, got, touched>>
    BY <1>13 DEF Finish
  <2> QED BY ONLY Inv, <1>2, <2>1, <2>3, <2>4, OtherStep
<1>14. CASE Timeout
  <2>1. PICK depth \in 1..Len(Layers) :
          Layers[depth] = "timeout" /\ Leave(depth, Answer(408, "", 0))
    BY <1>14 DEF Timeout
  <2>2. Wire(Answer(408, "", 0))
    BY <2>1, Stack
  <2>3. now = cfg.limit
    <3>1. now >= cfg.limit /\ now <= cfg.limit
      BY <1>2, <1>14 DEF Timeout, Expired, Clocks
    <3> QED BY <1>4, <3>1
  <2>4. UNCHANGED <<cfg, rq, now, idle, got, touched>>
    BY <1>14 DEF Timeout
  <2>5. Passes' /\ 408 \in 200..599 /\ 0 \in Nat
    BY <1>2, <2>4 DEF Passes, Presented
  <2>6. Sound(408, "", 0)'
    BY <2>3, <2>4, <2>5 DEF Sound, Explained
  <2> QED BY <1>2, <1>4, <2>2, <2>4, <2>6, AnswerStep DEF Types
<1>15. CASE Disconnect
  <2>1. phase' = "dropped" /\ UNCHANGED <<now, idle, got, touched, reply, lines>>
    BY <1>15 DEF Disconnect
  <2>2. Types'
    BY <1>2, <1>3, <2>1 DEF Types
  <2> QED BY <1>2, <1>3, <2>1, <2>2 DEF Inv, Waiting
<1>16. CASE Tick
  <2>1. /\ now' = now + 1 /\ idle' = idle + 1
        /\ UNCHANGED <<phase, got, touched, reply, lines>>
        /\ ~(now >= cfg.limit)
        /\ phase = "body" => ~(now >= BodyReadTimeout)
        /\ phase = "reading" => ~(idle >= cfg.inactivity)
    BY <1>1, <1>16 DEF Tick, Expired, BodyLate, Stalled
  <2>2. now' \in Nat /\ idle' \in 0..now'
    BY <1>4, <2>1
  <2>3. Types'
    BY <1>2, <1>3, <2>1, <2>2 DEF Types
  <2>4. Clocks'
    BY <1>2, <1>3, <1>4, <2>1 DEF Clocks
  <2> QED BY <1>1, <1>2, <1>3, <2>1, <2>3, <2>4 DEF Inv, Waiting
<1> QED BY <1>8, <1>9, <1>10, <1>11, <1>12, <1>13, <1>14, <1>15, <1>16

LEMMA InvNext == Inv /\ [Next]_vars => Inv'
<1> SUFFICES ASSUME Inv, [Next]_vars PROVE Inv'
  OBVIOUS
<1>1. CASE UNCHANGED vars
  <2>1. UNCHANGED <<cfg, rq, phase, now, idle, got, touched, reply, lines>>
    BY <1>1 DEF vars
  <2>2. \A s, e, m : Sound(s, e, m) => Sound(s, e, m)'
    <3>1. Passes' = Passes /\ Fresh' = Fresh
      BY <2>1 DEF Passes, Presented, Fresh
    <3> TAKE s, e, m
    <3>2. Explained(s, e, m)' = Explained(s, e, m)
      BY <2>1 DEF Explained
    <3>3. cfg' = cfg /\ rq' = rq /\ now' = now
      BY <2>1
    <3>4. ASSUME Sound(s, e, m) PROVE Sound(s, e, m)'
      <4>1. /\ s \in 200..599 /\ m \in Nat
            /\ s = 401 => Fresh' /\ ~Passes' /\ rq'.path \notin Open
            /\ s # 401 /\ rq'.path \in Gated => Passes'
        BY <3>1, <3>3, <3>4 DEF Sound
      <4>2. /\ Explained(s, e, m)'
            /\ e = "body_read_timeout" => now' = BodyReadTimeout /\ BodyReadTimeout < cfg'.limit
            /\ s = 408 /\ e = "" => now' = cfg'.limit
        BY <3>2, <3>3, <3>4 DEF Sound
      <4> QED BY <4>1, <4>2 DEF Sound
    <3> QED BY <3>4
  <2> QED BY <2>1, <2>2 DEF Inv, Types, Fresh, Admitted, Passes, Presented, Clocks, Settled
<1>2. CASE Arrive
  BY <1>2, ArriveStep
<1>3. CASE ~Arrive /\ Next
  BY <1>3, WaitStep DEF Next
<1> QED BY <1>1, <1>2, <1>3

LEMMA Invariant == Spec => []Inv
BY InvInit, InvNext, PTL DEF Spec

-----------------------------------------------------------------------------
(* The properties, for every configuration and every request.              *)

(* A request is in one stage, and answered at most once.                   *)
THEOREM PipelineTypes == Spec => []TypeOK
<1>1. Inv => TypeOK
  BY InvImplies
<1> QED BY <1>1, Invariant, PTL

(* require_bearer, build_router: on the gated routes 401 goes to those,    *)
(* and only to those, who do not present the token, before anything else.  *)
THEOREM GateCorrect == Spec => []GateExact
<1>1. Inv => GateExact
  BY InvImplies
<1> QED BY <1>1, Invariant, PTL

(* build_router's order of layers: every reply has the headers and exactly *)
(* one access line.                                                        *)
THEOREM LayersCorrect == Spec => []EveryLayerSeesIt
<1>1. Inv => EveryLayerSeesIt
  BY InvImplies
<1> QED BY <1>1, Invariant, PTL

(* error.rs: every failure but the bare ones has a code and a message of   *)
(* at most MAX_USER_MESSAGE_LEN characters, whatever goes into it.         *)
THEOREM ErrorsCorrect == Spec => []FailuresExplained
<1>1. Inv => FailuresExplained
  BY InvImplies
<1> QED BY <1>1, Invariant, PTL

(* Which of the three clocks answers, for every setting of them.           *)
THEOREM ClocksCorrect == Spec => []ClocksAgree
<1>1. Inv => ClocksAgree
  BY InvImplies
<1> QED BY <1>1, Invariant, PTL
===============================================================================
