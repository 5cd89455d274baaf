------------------------------ MODULE TraceProof ------------------------------
(***************************************************************************)
(* Access-log ids are fresh for any number of requests, however they       *)
(* interleave: clock plus counter is above every id that was drawn so far, *)
(* as long as the clock is not set back, because the clock never falls and *)
(* the counter grows with each draw.  A request keeps that advantage over  *)
(* those answered before it arrived while others draw in between.          *)
(* Seeds are different: they are mixed, not added, and two are told apart  *)
(* by the counter, which a draw advances and no draw leaves in place.      *)
(***************************************************************************)
EXTENDS TraceIds, TLAPS

LogTypes ==
    /\ inbound \in [Requests -> Option(Header)]
    /\ clock \in 0..MaxClock /\ setBack \in Nat /\ logCount \in 0..MaxDraws
    /\ pc \in [Requests -> Stage]
    /\ reading \in [Requests -> 0..MaxClock]
    /\ logId \in [Requests -> Id]
    /\ earlier \in [Requests -> SUBSET Requests]

Early == {"new", "logClock", "logCount"}
HasDrawn(r) == logId[r].kind = "drawn"

\* What r will draw at least, or what it has drawn.
Floor(r) == IF HasDrawn(r) THEN logId[r].value
            ELSE (IF pc[r] = "logCount" THEN reading[r] ELSE clock) + logCount

\* The draws so far are below clock plus counter, and those of requests that
\* were answered before r arrived are below the draw of r.
DrawInv ==
    /\ \A r \in Requests : pc[r] \in Early => logId[r] = None
    /\ \A r \in Requests : pc[r] = "new" \/ setBack # 0 => earlier[r] = {}
    /\ setBack = 0 => \A r \in Requests :
         /\ reading[r] <= clock
         /\ HasDrawn(r) => logId[r].value < clock + logCount
    /\ \A r \in Requests : \A q \in earlier[r] :
         /\ pc[q] = "answered"
         /\ (HasDrawn(r) \/ pc[r] \in Early) /\ HasDrawn(q) =>
              logId[q].value < Floor(r)

Inv == LogTypes /\ DrawInv

(* At the start nothing is drawn.                                          *)
LEMMA DrawInit == Init => Inv
BY TraceAssumption DEF Init, Inv, LogTypes, DrawInv, HasDrawn, None, Id, Stage, Early, Option

(* An id that is drawn has a number, and one that is not drawn has none.   *)
LEMMA Kinds ==
    /\ None \in Id /\ None.kind # "drawn"
    /\ \A i \in Ids : Kept(i) \in Id /\ Kept(i).kind # "drawn"
    /\ \A n \in Nat, t \in 0..MaxClock :
         Drawn(n, t) \in Id /\ Drawn(n, t).kind = "drawn" /\ Drawn(n, t).value = n
    /\ \A i \in Id : i.kind = "drawn" => i.value \in Nat
BY DEF None, Kept, Drawn, Id

(* The clock moves on (SystemTime::now()): what a request will draw only   *)
(* grows.                                                                  *)
LEMMA AdvanceKeeps == ASSUME Inv, Advance PROVE Inv'
<1>1. LogTypes'
  BY TraceAssumption DEF Inv, LogTypes, Advance, ids, counts
<1>2. DrawInv'
  BY TraceAssumption, Kinds
     DEF Inv, LogTypes, DrawInv, Advance, ids, counts, HasDrawn, Floor
<1> QED BY <1>1, <1>2 DEF Inv

(* The clock is set back: nothing is claimed any more.                     *)
LEMMA SetBackKeeps == ASSUME Inv, SetBack PROVE Inv'
<1>1. LogTypes'
  BY TraceAssumption DEF Inv, LogTypes, SetBack, ids, counts
<1>2. DrawInv'
  BY <1>1, TraceAssumption DEF Inv, LogTypes, DrawInv, SetBack, ids, counts
<1> QED BY <1>1, <1>2 DEF Inv

(* The id in a valid traceparent is one.                                   *)
LEMMA ValidIds == ASSUME Inv, NEW r \in Requests, NEW h \in Valid(r) PROVE h.id \in Ids
<1>1. inbound[r] \in Option(Header) /\ h \in inbound[r]
  BY DEF Inv, LogTypes, Valid
<1>2. h \in Header
  BY <1>1 DEF Option
<1> QED BY <1>2 DEF Header

(* A request arrives: every draw so far, and so every draw of a request    *)
(* that has been answered, is below clock plus counter.                    *)
LEMMA ArriveKeeps == ASSUME Inv, NEW r \in Requests, Arrive(r) PROVE Inv'
<1>1. pc[r] = "new" /\ UNCHANGED <<inbound, clock, setBack, logCount, reading>>
  BY DEF Arrive, clocks, counts
<1>2. PICK x \in Id, s \in {"logClock", "idClock"} :
        /\ logId' = [logId EXCEPT ![r] = x] /\ pc' = [pc EXCEPT ![r] = s]
        /\ x.kind # "drawn" /\ (s = "logClock" => x = None)
  <2>1. CASE Valid(r) = {}
    <3>1. pc' = [pc EXCEPT ![r] = "logClock"] /\ logId' = logId /\ logId[r] = None
      BY <1>1, <2>1 DEF Arrive, Inv, DrawInv, Early
    <3>2. logId' = [logId EXCEPT ![r] = None]
      BY <3>1 DEF Inv, LogTypes
    <3> QED BY <3>1, <3>2, Kinds
  <2>2. CASE Valid(r) # {}
    <3>1. PICK h \in Valid(r) : logId' = [logId EXCEPT ![r] = Kept(h.id)]
      BY <2>2 DEF Arrive
    <3>2. h.id \in Ids
      BY ValidIds
    <3> QED BY <2>2, <3>1, <3>2, Kinds DEF Arrive
  <2> QED BY <2>1, <2>2
<1>3. PICK S \in SUBSET Requests :
        /\ earlier' = [earlier EXCEPT ![r] = S]
        /\ \A q \in S : setBack = 0 /\ pc[q] = "answered"
  <2> DEFINE S == IF setBack = 0 THEN {q \in Requests : pc[q] = "answered"} ELSE {}
  <2>1. earlier' = [earlier EXCEPT ![r] = S]
    BY DEF Arrive
  <2>2. S \in SUBSET Requests /\ \A q \in S : setBack = 0 /\ pc[q] = "answered"
    OBVIOUS
  <2> HIDE DEF S
  <2> QED BY <2>1, <2>2
<1>4. LogTypes'
  BY <1>1, <1>2, <1>3 DEF Inv, LogTypes, Stage
<1>5. DrawInv'
  BY <1>1, <1>2, <1>3, Kinds, TraceAssumption
     DEF Inv, LogTypes, DrawInv, Early, HasDrawn, Floor
<1> QED BY <1>4, <1>5 DEF Inv

(* The access log reads the clock for the draw of request r.               *)
LEMMA LogClockKeeps == ASSUME Inv, NEW r \in Requests, LogClock(r) PROVE Inv'
<1>1. /\ pc[r] = "logClock" /\ pc' = [pc EXCEPT ![r] = "logCount"]
      /\ reading' = [reading EXCEPT ![r] = clock]
      /\ UNCHANGED <<inbound, clock, setBack, logCount, logId, earlier>>
  BY DEF LogClock, ReadClock, clocks, counts, ids
<1>2. LogTypes'
  BY <1>1 DEF Inv, LogTypes, Stage
<1>3. DrawInv'
  BY <1>1, Kinds, TraceAssumption
     DEF Inv, LogTypes, DrawInv, Early, HasDrawn, Floor
<1> QED BY <1>2, <1>3 DEF Inv

(* fetch_add of the access log: the draw is at least what was promised,    *)
(* and below the clock plus the counter, which has grown.                  *)
LEMMA LogCountKeeps == ASSUME Inv, NEW r \in Requests, LogCount(r) PROVE Inv'
<1> DEFINE n == reading[r] + logCount
<1>1. /\ pc[r] = "logCount" /\ pc' = [pc EXCEPT ![r] = "idClock"]
      /\ logCount < MaxDraws
      /\ UNCHANGED <<inbound, clock, setBack, reading, earlier>>
  BY DEF LogCount, clocks
<1>2. n \in Nat /\ n < Modulus /\ logCount + 1 < Modulus /\ logCount + 1 \in 0..MaxDraws
  BY <1>1, TraceAssumption DEF Inv, LogTypes
<1>3. n % Modulus = n /\ (logCount + 1) % Modulus = logCount + 1
  BY <1>2, TraceAssumption
<1>4. logId' = [logId EXCEPT ![r] = Drawn(n, reading[r])] /\ logCount' = logCount + 1
  BY <1>3 DEF LogCount
<1>5. Drawn(n, reading[r]) \in Id
  BY <1>2, Kinds DEF Inv, LogTypes
<1>6. Drawn(n, reading[r]).kind = "drawn" /\ Drawn(n, reading[r]).value = n
  BY <1>2 DEF Drawn
<1>7. LogTypes'
  BY <1>1, <1>2, <1>4, <1>5 DEF Inv, LogTypes, Stage
<1>8. DrawInv'
  <2> HIDE DEF n
  <2>1. n = reading[r] + logCount
    BY DEF n
  <2> QED BY <1>1, <1>2, <1>4, <1>6, <2>1, Kinds, TraceAssumption
       DEF Inv, LogTypes, DrawInv, Early, HasDrawn, Floor
<1> QED BY <1>7, <1>8 DEF Inv

(* The steps after the access log's draw do not touch it.                  *)
LEMMA LateKeeps ==
    ASSUME Inv, NEW r \in Requests,
           pc[r] \notin Early, pc[r] # "answered",
           NEW s \in Stage \ Early, pc' = [pc EXCEPT ![r] = s],
           NEW t \in {reading[r], clock}, reading' = [reading EXCEPT ![r] = t],
           UNCHANGED <<inbound, clock, setBack, logCount, logId, earlier>>
    PROVE  Inv'
<1>1. LogTypes'
  BY DEF Inv, LogTypes
<1>2. DrawInv'
  BY Kinds, TraceAssumption DEF Inv, LogTypes, DrawInv, Early, HasDrawn, Floor
<1> QED BY <1>1, <1>2 DEF Inv

(* One step of the middleware of request r.                                *)
LEMMA RequestKeeps ==
    ASSUME Inv, NEW r \in Requests,
           \/ Arrive(r) \/ LogClock(r) \/ LogCount(r)
           \/ IdClock(r) \/ IdCount(r) \/ SpanClock(r) \/ SpanCount(r) \/ Answer(r)
    PROVE  Inv'
<1> DEFINE Late(from) ==
      /\ pc[r] \in from
      /\ \E s \in Stage \ Early : pc' = [pc EXCEPT ![r] = s]
      /\ \E t \in {reading[r], clock} : reading' = [reading EXCEPT ![r] = t]
      /\ UNCHANGED <<inbound, clock, setBack, logCount, logId, earlier>>
<1>0. reading = [reading EXCEPT ![r] = reading[r]]
  BY DEF Inv, LogTypes
<1>1. ASSUME Late({"idClock", "idCount", "spanClock", "spanCount", "handling"}) PROVE Inv'
  BY <1>1, LateKeeps DEF Early
<1>2. CASE IdClock(r)
  <2>1. CASE Valid(r) = {} /\ ReadClock(r, "idClock", "idCount")
    <3>1. Late({"idClock"})
      BY <2>1 DEF ReadClock, clocks, counts, ids, Stage, Early
    <3> QED BY <1>1, <3>1
  <2>2. CASE pc[r] = "idClock" /\ pc' = [pc EXCEPT ![r] = "spanClock"]
               /\ UNCHANGED <<inbound, clocks, counts, reading, logId, span, earlier>>
    <3>1. Late({"idClock"})
      BY <1>0, <2>2 DEF clocks, counts, Stage, Early
    <3> QED BY <1>1, <3>1
  <2> QED BY <1>2, <2>1, <2>2 DEF IdClock
<1>3. CASE IdCount(r)
  <2>1. Late({"idCount"})
    BY <1>0, <1>3 DEF IdCount, clocks, Stage, Early
  <2> QED BY <1>1, <2>1
<1>4. CASE SpanClock(r)
  <2>1. Late({"spanClock"})
    BY <1>4 DEF SpanClock, ReadClock, clocks, counts, ids, Stage, Early
  <2> QED BY <1>1, <2>1
<1>5. CASE SpanCount(r)
  <2>1. Late({"spanCount"})
    BY <1>0, <1>5 DEF SpanCount, clocks, Stage, Early
  <2> QED BY <1>1, <2>1
<1>6. CASE Answer(r)
  <2>1. Late({"handling"})
    BY <1>0, <1>6 DEF Answer, clocks, counts, ids, Stage, Early
  <2> QED BY <1>1, <2>1
<1> QED BY <1>2, <1>3, <1>4, <1>5, <1>6, ArriveKeeps, LogClockKeeps, LogCountKeeps

(* The invariant gives the property: the later request's draw is its floor. *)
LEMMA InvFresh == Inv => FreshLogIds
<1> SUFFICES ASSUME Inv, NEW r \in Requests, NEW q \in earlier[r],
                    logId[r].kind = "drawn", logId[q].kind = "drawn"
             PROVE  logId[r].value # logId[q].value
  BY DEF FreshLogIds
<1>1. q \in Requests /\ logId[q] \in Id /\ logId[r] \in Id
  BY DEF Inv, LogTypes
<1>2. logId[q].value < logId[r].value
  BY <1>1 DEF Inv, DrawInv, HasDrawn, Floor
<1> QED BY <1>1, <1>2, Kinds

(* Every step keeps it.                                                    *)
LEMMA InvNext == ASSUME Inv, [Next]_vars PROVE Inv'
<1>1. CASE Advance
  BY <1>1, AdvanceKeeps
<1>2. CASE SetBack
  BY <1>2, SetBackKeeps
<1>3. ASSUME NEW r \in Requests,
             \/ Arrive(r) \/ LogClock(r) \/ LogCount(r)
             \/ IdClock(r) \/ IdCount(r) \/ SpanClock(r) \/ SpanCount(r) \/ Answer(r)
      PROVE  Inv'
  BY <1>3, RequestKeeps
<1>4. CASE UNCHANGED vars
  BY <1>4 DEF vars, clocks, counts, ids, Inv, LogTypes, DrawInv, HasDrawn, Floor
<1> QED BY <1>1, <1>2, <1>3, <1>4 DEF Next

(* access_log.rs, generate_short_id: for any number of requests and any    *)
(* interleaving of their draws, a generated id differs from those of all   *)
(* requests answered before, while the clock is not set back.              *)
THEOREM FreshCorrect == Spec => []FreshLogIds
<1>1. Init => Inv
  BY DrawInit
<1>2. Inv /\ [Next]_vars => Inv'
  BY InvNext
<1>3. Inv => FreshLogIds
  BY InvFresh
<1> QED BY <1>1, <1>2, <1>3, PTL DEF Spec

-----------------------------------------------------------------------------
(* The other ids: what a request has at each stage, and which counter      *)
(* values the drawn ones can come from.                                    *)
LogDone   == {"idClock", "idCount", "spanClock", "spanCount", "handling", "answered"}
TraceDone == {"spanClock", "spanCount", "handling", "answered"}
SpanDone  == {"handling", "answered"}

\* The caller's id, as it came or in lower case, if there is one; else a drawn one.
LogNamed(r, id) ==
    IF Valid(r) = {} THEN id.kind = "drawn" ELSE \E h \in Valid(r) : id = Kept(h.id)
TraceNamed(r, id) ==
    IF Valid(r) = {} THEN id.kind = "drawn" ELSE \E h \in Valid(r) : id = Kept(Lower(h.id))
Stages ==
    \A r \in Requests :
        /\ pc[r] \in {"logClock", "logCount", "idCount"} => Valid(r) = {}
        /\ pc[r] \in LogDone => LogNamed(r, logId[r])
        /\ pc[r] \in TraceDone => TraceNamed(r, traceId[r])
        /\ pc[r] \in SpanDone => span[r].kind = "drawn"

\* A seed that was drawn before the counter reached n.
Below(id, n) ==
    id.kind = "drawn" =>
        id.at \in 0..MaxClock /\ \E m \in 0..(n - 1) : id.value = Mix(id.at, m)
IdInv ==
    /\ setBack \in 0..MaxSteps /\ idCount \in 0..MaxDraws
    /\ traceId \in [Requests -> Id] /\ span \in [Requests -> Id]
    /\ Stages
    /\ \A r \in Requests : Below(traceId[r], idCount) /\ Below(span[r], idCount)
    /\ SameInstantDiffers

LEMMA IdInit == Init => IdInv
<1> SUFFICES ASSUME Init PROVE IdInv
  OBVIOUS
<1>1. /\ traceId \in [Requests -> Id] /\ span \in [Requests -> Id]
      /\ \A r \in Requests : traceId[r].kind # "drawn" /\ span[r].kind # "drawn"
  BY Kinds DEF Init
<1>2. Stages
  BY DEF Init, Stages, LogDone, TraceDone, SpanDone
<1>3. /\ SameInstantDiffers
      /\ \A r \in Requests : Below(traceId[r], idCount) /\ Below(span[r], idCount)
  BY <1>1 DEF SameInstantDiffers, Below
<1>4. setBack \in 0..MaxSteps /\ idCount \in 0..MaxDraws
  BY TraceAssumption DEF Init
<1> QED BY <1>1, <1>2, <1>3, <1>4 DEF IdInv

(* At most one header, and then one id in it.                              *)
LEMMA OneValid == ASSUME Inv, NEW r \in Requests, NEW g \in Valid(r), NEW h \in Valid(r)
                  PROVE  g = h
<1>1. inbound[r] \in Option(Header)
  BY DEF Inv, LogTypes
<1> QED BY <1>1 DEF Valid, Option

(* A step that draws no trace id and no span.                              *)
LEMMA QuietIds ==
    ASSUME IdInv, UNCHANGED <<idCount, traceId, span>>, setBack' \in 0..MaxSteps, Stages'
    PROVE  IdInv'
BY DEF IdInv, SameInstantDiffers

(* A seed is drawn: it differs from every earlier one of the same reading, *)
(* for the counter value it is mixed with has not been used.               *)
LEMMA SeedDiffers ==
    ASSUME Inv, IdInv, NEW r \in Requests, idCount < MaxDraws,
           NEW id, Below(id, idCount), id.kind = "drawn", id.at = Seed(r).at
    PROVE  id.value # Seed(r).value
<1>1. Seed(r).at = reading[r] /\ Seed(r).value = Mix(reading[r], idCount)
  BY DEF Seed, Drawn
<1>2. reading[r] \in 0..MaxClock /\ idCount \in 0..MaxDraws
  BY DEF Inv, LogTypes, IdInv
<1>3. PICK m \in 0..(idCount - 1) : id.value = Mix(reading[r], m)
  BY <1>1 DEF Below
<1>4. m \in 0..MaxDraws /\ m # idCount
  BY <1>2, TraceAssumption
<1> QED BY <1>1, <1>2, <1>3, <1>4, MixAssumption

(* And it is below the counter from then on, as the earlier ones are.      *)
LEMMA SeedBelow ==
    ASSUME Inv, IdInv, NEW r \in Requests, idCount < MaxDraws
    PROVE  /\ Seed(r) \in Id /\ Seed(r).kind = "drawn"
           /\ (idCount + 1) % Modulus = idCount + 1 /\ idCount + 1 \in 0..MaxDraws
           /\ Below(Seed(r), idCount + 1)
           /\ \A id : Below(id, idCount) => Below(id, idCount + 1)
<1>1. reading[r] \in 0..MaxClock /\ idCount \in 0..MaxDraws
  BY DEF Inv, LogTypes, IdInv
<1>2. Mix(reading[r], idCount) \in Nat
  BY <1>1, MixAssumption
<1>3. Seed(r) \in Id /\ Seed(r).kind = "drawn"
  BY <1>1, <1>2, Kinds DEF Seed
<1>4. (idCount + 1) % Modulus = idCount + 1 /\ idCount + 1 \in 0..MaxDraws
  BY <1>1, TraceAssumption
<1>5. Seed(r).at = reading[r] /\ Seed(r).value = Mix(reading[r], idCount)
  BY DEF Seed, Drawn
<1>6. idCount \in 0..(idCount + 1 - 1) /\ 0..(idCount - 1) \subseteq 0..(idCount + 1 - 1)
  BY <1>1
<1>7. Below(Seed(r), idCount + 1)
  BY <1>1, <1>5, <1>6 DEF Below
<1>8. \A id : Below(id, idCount) => Below(id, idCount + 1)
  BY <1>6 DEF Below
<1> QED BY <1>3, <1>4, <1>7, <1>8

(* An id that a request takes over comes from no counter.                  *)
LEMMA KeptIds == \A i \in Ids, n \in Nat : Kept(i) \in Id /\ Kept(i).kind # "drawn" /\ Below(Kept(i), n)
BY Kinds DEF Below

(* The access log's part of the route of a request.                        *)
LEMMA LogStages ==
    ASSUME Inv, IdInv, NEW r \in Requests, Arrive(r) \/ LogClock(r) \/ LogCount(r)
    PROVE  IdInv'
<1>1. /\ UNCHANGED <<inbound, setBack, idCount, traceId, span>>
      /\ setBack \in 0..MaxSteps /\ Stages
  BY DEF Arrive, LogClock, ReadClock, LogCount, clocks, counts, ids, IdInv
<1>2. \A q \in Requests : Valid(q)' = Valid(q)
  BY <1>1 DEF Valid
<1>3. pc \in [Requests -> Stage] /\ logId \in [Requests -> Id]
  BY DEF Inv, LogTypes
<1>4. PICK s \in Stage : /\ pc' = [pc EXCEPT ![r] = s]
                         /\ s \in {"logClock", "logCount", "idClock"}
                         /\ s \in {"logClock", "logCount"} => Valid(r) = {}
                         /\ s = "idClock" => LogNamed(r, logId'[r])
  <2>1. CASE Arrive(r) /\ Valid(r) = {}
    BY <2>1 DEF Arrive, Stage
  <2>2. CASE Arrive(r) /\ Valid(r) # {}
    <3>1. PICK h \in Valid(r) : logId' = [logId EXCEPT ![r] = Kept(h.id)]
      BY <2>2 DEF Arrive
    <3>2. LogNamed(r, logId'[r])
      BY <1>3, <2>2, <3>1 DEF LogNamed
    <3> QED BY <2>2, <3>2 DEF Arrive, Stage
  <2>3. CASE LogClock(r)
    BY <1>1, <2>3 DEF LogClock, ReadClock, Stages, Stage
  <2>4. CASE LogCount(r)
    <3>1. Valid(r) = {} /\ logId'[r].kind = "drawn"
      BY <1>1, <1>3, <2>4 DEF LogCount, Stages, Drawn
    <3> QED BY <2>4, <3>1 DEF LogCount, LogNamed, Stage
  <2> QED BY <2>1, <2>2, <2>3, <2>4
<1>5. \A q \in Requests : q # r => logId'[q] = logId[q] /\ pc'[q] = pc[q]
  BY <1>3 DEF Arrive, LogClock, ReadClock, LogCount, ids
<1>6. Stages'
  BY <1>1, <1>2, <1>3, <1>4, <1>5 DEF Stages, LogNamed, TraceNamed, LogDone, TraceDone, SpanDone
<1> QED BY <1>1, <1>6, QuietIds

(* What a step of the headers' layer does to the stages of the request.    *)
LEMMA HeaderStages ==
    ASSUME Inv, IdInv, NEW r \in Requests,
           IdClock(r) \/ IdCount(r) \/ SpanClock(r) \/ SpanCount(r) \/ Answer(r)
    PROVE  Stages'
<1>1. UNCHANGED <<inbound, logId>> /\ Stages
  BY DEF IdClock, IdCount, SpanClock, SpanCount, Answer, ReadClock, clocks, counts, ids, IdInv
<1>2. \A q \in Requests : Valid(q)' = Valid(q)
  BY <1>1 DEF Valid
<1>3. /\ pc \in [Requests -> Stage]
      /\ traceId \in [Requests -> Id] /\ span \in [Requests -> Id]
  BY DEF Inv, LogTypes, IdInv
<1>4. PICK s \in Stage : /\ pc' = [pc EXCEPT ![r] = s] /\ pc[r] \in LogDone
                         /\ s \in LogDone /\ (s = "idCount" => Valid(r) = {})
                         /\ s \in TraceDone => TraceNamed(r, traceId'[r])
                         /\ s \in SpanDone => span'[r].kind = "drawn"
  <2>1. CASE IdClock(r) /\ Valid(r) = {}
    BY <2>1 DEF IdClock, ReadClock, Stage, LogDone, TraceDone, SpanDone
  <2>2. CASE IdClock(r) /\ Valid(r) # {}
    <3>1. PICK h \in Valid(r) : traceId' = [traceId EXCEPT ![r] = Kept(Lower(h.id))]
      BY <2>2 DEF IdClock
    <3>2. TraceNamed(r, traceId'[r])
      BY <1>3, <2>2, <3>1 DEF TraceNamed
    <3> QED BY <2>2, <3>2 DEF IdClock, Stage, LogDone, TraceDone, SpanDone
  <2>3. CASE IdCount(r)
    <3>1. Valid(r) = {} /\ traceId'[r].kind = "drawn"
      BY <1>1, <1>3, <2>3 DEF IdCount, Stages, Seed, Drawn
    <3> QED BY <2>3, <3>1 DEF IdCount, TraceNamed, Stage, LogDone, TraceDone, SpanDone
  <2>4. CASE SpanClock(r)
    BY <1>1, <2>4 DEF SpanClock, ReadClock, ids, Stages, Stage, LogDone, TraceDone, SpanDone
  <2>5. CASE SpanCount(r)
    <3>1. span'[r].kind = "drawn"
      BY <1>3, <2>5 DEF SpanCount, Seed, Drawn
    <3> QED BY <1>1, <2>5, <3>1 DEF SpanCount, Stages, Stage, LogDone, TraceDone, SpanDone
  <2>6. CASE Answer(r)
    BY <1>1, <2>6 DEF Answer, ids, Stages, Stage, LogDone, TraceDone, SpanDone
  <2> QED BY <2>1, <2>2, <2>3, <2>4, <2>5, <2>6
<1>5. \A q \in Requests : q # r =>
        traceId'[q] = traceId[q] /\ span'[q] = span[q] /\ pc'[q] = pc[q]
  BY <1>3 DEF IdClock, IdCount, SpanClock, SpanCount, Answer, ReadClock, ids
<1> QED BY <1>1, <1>2, <1>3, <1>4, <1>5
     DEF Stages, LogNamed, TraceNamed, LogDone, TraceDone, SpanDone
(* The headers' layer draws or takes over the trace id, and draws the span. *)
LEMMA HeaderIds ==
    ASSUME Inv, IdInv, NEW r \in Requests,
           IdClock(r) \/ IdCount(r) \/ SpanClock(r) \/ SpanCount(r) \/ Answer(r)
    PROVE  IdInv'
<1>1. Stages'
  BY HeaderStages
<1>2. /\ setBack \in 0..MaxSteps /\ idCount \in 0..MaxDraws
      /\ traceId \in [Requests -> Id] /\ span \in [Requests -> Id]
      /\ \A q \in Requests : Below(traceId[q], idCount) /\ Below(span[q], idCount)
      /\ SameInstantDiffers
  BY DEF IdInv
<1>3. CASE UNCHANGED <<setBack, idCount, traceId, span>>
  BY <1>1, <1>2, <1>3, QuietIds
<1>4. CASE IdClock(r) /\ Valid(r) # {}
  <2>1. PICK h \in Valid(r) : traceId' = [traceId EXCEPT ![r] = Kept(Lower(h.id))]
    BY <1>4 DEF IdClock
  <2>0. Lower(h.id) \in Ids
    BY ValidIds, LowerAssumption
  <2>2. /\ Kept(Lower(h.id)) \in Id /\ Kept(Lower(h.id)).kind # "drawn"
        /\ Below(Kept(Lower(h.id)), idCount)
    BY <1>2, <2>0, KeptIds, TraceAssumption
  <2>3. UNCHANGED <<setBack, idCount, span>>
    BY <1>4 DEF IdClock, clocks, counts
  <2>4. SameInstantDiffers'
    BY <1>2, <2>1, <2>2, <2>3 DEF SameInstantDiffers
  <2>5. traceId' \in [Requests -> Id]
    BY <1>2, <2>1, <2>2
  <2>6. \A q \in Requests : Below(traceId'[q], idCount)
    BY <1>2, <2>1, <2>2
  <2> QED BY <1>1, <1>2, <2>3, <2>4, <2>5, <2>6 DEF IdInv
<1>5. ASSUME idCount < MaxDraws, idCount' = (idCount + 1) % Modulus, UNCHANGED setBack,
             \/ traceId' = [traceId EXCEPT ![r] = Seed(r)] /\ UNCHANGED span
             \/ span' = [span EXCEPT ![r] = Seed(r)] /\ UNCHANGED traceId
      PROVE  IdInv'
  <2>1. PICK seed \in Id : seed = Seed(r)
    BY <1>5, SeedBelow
  <2>2. /\ seed.kind = "drawn" /\ Below(seed, idCount + 1)
        /\ idCount' = idCount + 1 /\ idCount + 1 \in 0..MaxDraws
        /\ \A id : Below(id, idCount) => Below(id, idCount + 1)
    BY <1>5, <2>1, SeedBelow
  <2>3. \A q \in Requests :
          /\ traceId[q].kind = "drawn" /\ traceId[q].at = seed.at => traceId[q].value # seed.value
          /\ span[q].kind = "drawn" /\ span[q].at = seed.at => span[q].value # seed.value
    BY <1>2, <1>5, <2>1, SeedDiffers
  <2>4. traceId' \in [Requests -> Id] /\ span' \in [Requests -> Id]
    BY <1>2, <1>5, <2>1
  <2>5. \A q \in Requests : Below(traceId'[q], idCount + 1) /\ Below(span'[q], idCount + 1)
    BY <1>2, <1>5, <2>1, <2>2
  <2>6. SameInstantDiffers'
    BY <1>2, <1>5, <2>1, <2>3 DEF SameInstantDiffers
  <2> QED BY <1>1, <1>2, <1>5, <2>2, <2>4, <2>5, <2>6 DEF IdInv
<1>6. CASE IdCount(r)
  BY <1>5, <1>6 DEF IdCount, clocks
<1>7. CASE SpanCount(r)
  BY <1>5, <1>7 DEF SpanCount, clocks
<1>8. CASE SpanClock(r) \/ Answer(r) \/ (IdClock(r) /\ Valid(r) = {})
  BY <1>3, <1>8 DEF SpanClock, Answer, IdClock, ReadClock, clocks, counts, ids
<1> QED BY <1>4, <1>6, <1>7, <1>8

(* The clock moves: no id does.                                            *)
LEMMA ClockIds == ASSUME Inv, IdInv, Advance \/ SetBack PROVE IdInv'
<1>1. UNCHANGED <<inbound, pc, idCount, logId, traceId, span>> /\ Stages
  BY DEF Advance, SetBack, counts, ids, IdInv
<1>2. setBack' \in 0..MaxSteps
  BY TraceAssumption DEF Advance, SetBack, IdInv
<1>3. Stages'
  BY <1>1 DEF Stages, LogNamed, TraceNamed, Valid
<1> QED BY <1>1, <1>2, <1>3, QuietIds

LEMMA Steps == Spec => [](Inv /\ IdInv)
<1>1. Init => Inv /\ IdInv
  BY DrawInit, IdInit
<1>2. Inv /\ IdInv /\ [Next]_vars => Inv' /\ IdInv'
  <2> SUFFICES ASSUME Inv, IdInv, [Next]_vars PROVE Inv' /\ IdInv'
    OBVIOUS
  <2>1. Inv'
    BY InvNext
  <2>2. CASE Advance \/ SetBack
    BY <2>1, <2>2, ClockIds
  <2>3. ASSUME NEW r \in Requests, Arrive(r) \/ LogClock(r) \/ LogCount(r) PROVE IdInv'
    BY <2>3, LogStages
  <2>4. ASSUME NEW r \in Requests,
               IdClock(r) \/ IdCount(r) \/ SpanClock(r) \/ SpanCount(r) \/ Answer(r)
        PROVE  IdInv'
    BY <2>4, HeaderIds
  <2>5. CASE UNCHANGED vars
    <3>1. /\ UNCHANGED <<inbound, pc, idCount, logId, traceId, span>> /\ Stages
          /\ setBack' \in 0..MaxSteps
      BY <2>5 DEF vars, clocks, counts, ids, IdInv
    <3>2. Stages'
      BY <3>1 DEF Stages, LogNamed, TraceNamed, Valid
    <3> QED BY <2>1, <3>1, <3>2, QuietIds
  <2> QED BY <2>1, <2>2, <2>3, <2>4, <2>5 DEF Next
<1> QED BY <1>1, <1>2, PTL DEF Spec

(* Every id is one that the code can have made, and an answered request    *)
(* has all three of them.                                                  *)
THEOREM TraceTypes == Spec => []TypeOK
<1>1. Inv /\ IdInv => TypeOK
  <2> SUFFICES ASSUME Inv, IdInv, NEW r \in Requests, pc[r] = "answered"
               PROVE  logId[r] # None /\ traceId[r] # None /\ span[r] # None
    BY DEF Inv, LogTypes, IdInv, TypeOK
  <2>1. LogNamed(r, logId[r]) /\ TraceNamed(r, traceId[r]) /\ span[r].kind = "drawn"
    BY DEF IdInv, Stages, LogDone, TraceDone, SpanDone
  <2>2. \A id : LogNamed(r, id) \/ TraceNamed(r, id) => id # None
    BY DEF LogNamed, TraceNamed, None, Kept
  <2> QED BY <2>1, <2>2, Kinds
<1> QED BY <1>1, Steps, PTL

(* trace_headers.rs, random_bytes: seeds drawn from one reading of the     *)
(* clock differ, for one counter serves them all and is mixed in.          *)
THEOREM InstantCorrect == Spec => []SameInstantDiffers
BY Steps, PTL DEF IdInv

(* With a valid traceparent the access line names the caller's trace id as *)
(* it came (extract_trace_id) and the response names it in lower case      *)
(* (extract_or_generate_trace_id); without one both are drawn.             *)
THEOREM CallersTraceCorrect == Spec => []CallersTrace
<1>1. Inv /\ IdInv => CallersTrace
  <2> SUFFICES ASSUME Inv, IdInv, NEW r \in Requests, pc[r] = "answered"
               PROVE  LET own == {h.id : h \in Valid(r)} IN
                      IF own = {} THEN logId[r].kind = "drawn" /\ traceId[r].kind = "drawn"
                      ELSE /\ {logId[r]} = {Kept(i) : i \in own}
                           /\ {traceId[r]} = {Kept(Lower(i)) : i \in own}
    BY DEF CallersTrace, Valid
  <2>1. LogNamed(r, logId[r]) /\ TraceNamed(r, traceId[r])
    BY DEF IdInv, Stages, LogDone, TraceDone
  <2>2. \A g, h \in Valid(r) : g = h
    BY OneValid
  <2>3. CASE Valid(r) = {}
    BY <2>1, <2>3 DEF LogNamed, TraceNamed
  <2>4. CASE Valid(r) # {}
    <3>1. PICK h \in Valid(r) : Valid(r) = {h}
      BY <2>2, <2>4
    <3>2. {g.id : g \in Valid(r)} = {h.id}
      BY <3>1
    <3>3. logId[r] = Kept(h.id) /\ traceId[r] = Kept(Lower(h.id))
      BY <2>1, <2>4, <3>1 DEF LogNamed, TraceNamed
    <3> QED BY <3>2, <3>3
  <2> QED BY <2>3, <2>4
<1> QED BY <1>1, Steps, PTL
===============================================================================
