------------------------------- MODULE TraceIds -------------------------------
(***************************************************************************)
(* The identifiers of concurrent requests: the trace_id of the access line *)
(* (access_log.rs), x-trace-id and the span of traceparent                 *)
(* (trace_headers.rs).  A request that carries a valid traceparent keeps   *)
(* its id, on the access line as it came and on the response in lower      *)
(* case; otherwise each side draws one from the wall clock and a counter   *)
(* of its own, the access log by addition, the headers by XOR.  A draw is  *)
(* two steps, the reading of the clock and the fetch_add, and the requests *)
(* of all worker threads interleave between them.                          *)
(*                                                                         *)
(* Sixteen low bytes of successive xorshift64 states determine the seed    *)
(* (the linear map from the seed has rank 64), so a drawn trace id stands  *)
(* for its seed.  A span has eight of them, which do not (rank 57).        *)
(***************************************************************************)
EXTENDS Integers

CONSTANTS
    Requests,       \* the requests of a behaviour
    Ids,            \* the 32 hex digits of inbound traceparent headers
    Modulus,        \* 2^64: clock readings and counters are u64
    MaxClock,       \* the clock's last value: a bound for TLC
    MaxDraws,       \* the counters' last value: a bound for TLC
    MaxSteps,       \* how often the clock is set back: a bound for TLC
    Mix(_, _),      \* bitwise exclusive or
    Lower(_)        \* to_ascii_lowercase on the digits of an inbound header

\* The clock runs over in the year 2554, the counters never do.
ASSUME TraceAssumption ==
    /\ MaxClock \in Nat /\ MaxDraws \in Nat /\ MaxSteps \in Nat
    /\ Modulus \in Nat /\ MaxClock + MaxDraws < Modulus

\* The counter is in the low bits: it can be told from the mix and the clock.
ASSUME MixAssumption ==
    \A t \in 0..MaxClock : \A m, n \in 0..MaxDraws :
        Mix(t, m) \in Nat /\ (Mix(t, m) = Mix(t, n) => m = n)

\* Hex digits in lower case are hex digits, and lower case already.
ASSUME LowerAssumption ==
    \A i \in Ids : Lower(i) \in Ids /\ Lower(Lower(i)) = Lower(i)

\* The header of a request, and whether it has four parts with 32 hex digits in
\* the second.  An option has at most one element.
Header == [id : Ids, valid : BOOLEAN]
Option(S) == {{}} \cup {{x} : x \in S}

VARIABLES
    inbound,     \* the traceparent header of each request
    clock,       \* SystemTime::now(), in nanoseconds since the epoch
    setBack,     \* how often it was set back
    logCount,    \* COUNTER of access_log.rs
    idCount,     \* COUNTER of trace_headers.rs: one static for all N
    pc,          \* the stage of each request
    reading,     \* the clock as its current draw has read it
    logId,       \* trace_id of its access line
    traceId,     \* x-trace-id of its response
    span,        \* the seed of its span
    earlier      \* history: answered before it arrived, clock never set back

clocks == <<clock, setBack>>
counts == <<logCount, idCount>>
ids    == <<logId, traceId, span>>
vars == <<inbound, clocks, counts, pc, reading, ids, earlier>>

\* No id yet; one that was taken over; one that was drawn at a clock reading.
None == [kind |-> "none"]
Kept(id) == [kind |-> "kept", id |-> id]
Drawn(n, at) == [kind |-> "drawn", value |-> n, at |-> at]

Stage == {"new", "logClock", "logCount", "idClock", "idCount",
          "spanClock", "spanCount", "handling", "answered"}

Init ==
    /\ inbound \in [Requests -> Option(Header)]
    /\ clock = 0 /\ setBack = 0 /\ logCount = 0 /\ idCount = 0
    /\ pc = [r \in Requests |-> "new"]
    /\ reading = [r \in Requests |-> 0]
    /\ logId = [r \in Requests |-> None]
    /\ traceId = [r \in Requests |-> None]
    /\ span = [r \in Requests |-> None]
    /\ earlier = [r \in Requests |-> {}]

-----------------------------------------------------------------------------
\* The clock moves, or is set back by NTP or an operator.
Advance ==
    /\ clock < MaxClock
    /\ clock' = clock + 1
    /\ UNCHANGED <<inbound, setBack, counts, pc, reading, ids, earlier>>
SetBack ==
    /\ setBack < MaxSteps
    /\ \E t \in 0..(clock - 1) : clock' = t
    /\ setBack' = setBack + 1
    /\ earlier' = [r \in Requests |-> {}]
    /\ UNCHANGED <<inbound, counts, pc, reading, ids>>

Valid(r) == {h \in inbound[r] : h.valid}

ReadClock(r, from, to) ==
    /\ pc[r] = from
    /\ pc' = [pc EXCEPT ![r] = to]
    /\ reading' = [reading EXCEPT ![r] = clock]
    /\ UNCHANGED <<inbound, clocks, counts, ids, earlier>>

\* access_log_middleware is the outermost layer: its id comes first.
Arrive_LeftToHeaders(r) ==
    /\ pc[r] = "new"
    /\ pc' = [pc EXCEPT ![r] = IF Valid(r) = {} THEN "logClock" ELSE "idClock"]
    /\ UNCHANGED <<inbound, clocks, counts, reading, ids, earlier>>
Arrive(r) ==
    /\ pc[r] = "new"
    /\ IF Valid(r) = {}
       THEN pc' = [pc EXCEPT ![r] = "logClock"] /\ UNCHANGED logId
       ELSE /\ pc' = [pc EXCEPT ![r] = "idClock"]
            /\ \E h \in Valid(r) : logId' = [logId EXCEPT ![r] = Kept(h.id)]
    /\ earlier' = [earlier EXCEPT ![r] =
                     IF setBack = 0 THEN {q \in Requests : pc[q] = "answered"} ELSE {}]
    /\ UNCHANGED <<inbound, clocks, counts, reading, traceId, span>>

LogClock(r) == ReadClock(r, "logClock", "logCount")

LogCount_Xor(r) ==
    /\ pc[r] = "logCount" /\ logCount < MaxDraws
    /\ logId' = [logId EXCEPT ![r] = Drawn(Mix(reading[r], logCount), reading[r])]
    /\ logCount' = (logCount + 1) % Modulus
    /\ pc' = [pc EXCEPT ![r] = "idClock"]
    /\ UNCHANGED <<inbound, clocks, idCount, reading, traceId, span, earlier>>
LogCount(r) ==
    /\ pc[r] = "logCount" /\ logCount < MaxDraws
    /\ logId' = [logId EXCEPT ![r] = Drawn((reading[r] + logCount) % Modulus, reading[r])]
    /\ logCount' = (logCount + 1) % Modulus
    /\ pc' = [pc EXCEPT ![r] = "idClock"]
    /\ UNCHANGED <<inbound, clocks, idCount, reading, traceId, span, earlier>>

\* The traceparent layer: extract, in lower case, or draw; and then a span.
IdClock_AsItCame(r) ==
    \/ /\ Valid(r) = {}
       /\ ReadClock(r, "idClock", "idCount")
    \/ /\ pc[r] = "idClock"
       /\ \E h \in Valid(r) : traceId' = [traceId EXCEPT ![r] = Kept(h.id)]
       /\ pc' = [pc EXCEPT ![r] = "spanClock"]
       /\ UNCHANGED <<inbound, clocks, counts, reading, logId, span, earlier>>
IdClock(r) ==
    \/ /\ Valid(r) = {}
       /\ ReadClock(r, "idClock", "idCount")
    \/ /\ pc[r] = "idClock"
       /\ \E h \in Valid(r) : traceId' = [traceId EXCEPT ![r] = Kept(Lower(h.id))]
       /\ pc' = [pc EXCEPT ![r] = "spanClock"]
       /\ UNCHANGED <<inbound, clocks, counts, reading, logId, span, earlier>>

Seed(r) == Drawn(Mix(reading[r], idCount), reading[r])

IdCount(r) ==
    /\ pc[r] = "idCount" /\ idCount < MaxDraws
    /\ traceId' = [traceId EXCEPT ![r] = Seed(r)]
    /\ idCount' = (idCount + 1) % Modulus
    /\ pc' = [pc EXCEPT ![r] = "spanClock"]
    /\ UNCHANGED <<inbound, clocks, logCount, reading, logId, span, earlier>>

SpanClock(r) == ReadClock(r, "spanClock", "spanCount")

SpanCount_LoadOnly(r) ==
    /\ pc[r] = "spanCount" /\ idCount < MaxDraws
    /\ span' = [span EXCEPT ![r] = Seed(r)]
    /\ pc' = [pc EXCEPT ![r] = "handling"]
    /\ UNCHANGED <<inbound, clocks, counts, reading, logId, traceId, earlier>>
SpanCount(r) ==
    /\ pc[r] = "spanCount" /\ idCount < MaxDraws
    /\ span' = [span EXCEPT ![r] = Seed(r)]
    /\ idCount' = (idCount + 1) % Modulus
    /\ pc' = [pc EXCEPT ![r] = "handling"]
    /\ UNCHANGED <<inbound, clocks, logCount, reading, logId, traceId, earlier>>

Answer(r) ==
    /\ pc[r] = "handling"
    /\ pc' = [pc EXCEPT ![r] = "answered"]
    /\ UNCHANGED <<inbound, clocks, counts, reading, ids, earlier>>

Next ==
    \/ Advance \/ SetBack
    \/ \E r \in Requests :
         \/ Arrive(r) \/ LogClock(r) \/ LogCount(r)
         \/ IdClock(r) \/ IdCount(r) \/ SpanClock(r) \/ SpanCount(r) \/ Answer(r)

Spec == Init /\ [][Next]_vars

-----------------------------------------------------------------------------
(* Properties.                                                             *)

Id == [kind : {"none"}] \cup [kind : {"kept"}, id : Ids]
        \cup [kind : {"drawn"}, value : Nat, at : 0..MaxClock]
TypeOK ==
    /\ inbound \in [Requests -> Option(Header)]
    /\ clock \in 0..MaxClock /\ setBack \in 0..MaxSteps
    /\ logCount \in 0..MaxDraws /\ idCount \in 0..MaxDraws
    /\ pc \in [Requests -> Stage]
    /\ reading \in [Requests -> 0..MaxClock]
    /\ \A r \in Requests : {logId[r], traceId[r], span[r]} \subseteq Id
    /\ earlier \in [Requests -> SUBSET Requests]
    /\ \A r \in Requests : pc[r] = "answered" =>
         logId[r] # None /\ traceId[r] # None /\ span[r] # None

\* access_log.rs falls back to clock plus counter, and its test wants fresh ids
\* to be distinct across calls: a request has another id than every request
\* that was answered before it arrived, whatever other requests draw in
\* between, as long as the clock is not set back.  (Requests that overlap can
\* draw the same id: the one with the later reading can take the counter first.)
FreshLogIds ==
    \A r \in Requests : \A q \in earlier[r] :
        logId[r].kind = "drawn" /\ logId[q].kind = "drawn" =>
            logId[r].value # logId[q].value

\* What XOR with the counter does achieve: draws from one reading of the clock
\* differ, a trace id and a span included (random_bytes, one COUNTER for both).
SameInstantDiffers ==
    LET differ(a, b) == a.kind = "drawn" /\ b.kind = "drawn" /\ a.at = b.at
                          => a.value # b.value
    IN /\ \A q, r \in Requests : differ(traceId[q], span[r])
       /\ \A q, r \in Requests : q # r =>
            differ(traceId[q], traceId[r]) /\ differ(span[q], span[r])

\* With a valid traceparent the access line names the caller's trace id as it
\* came, and the response names it in lower case; with no or another header
\* neither names one that came in.  Both sides decide by themselves which of
\* these it is, and never differently.
CallersTrace ==
    \A r \in Requests : pc[r] = "answered" =>
        LET own == {h.id : h \in {g \in inbound[r] : g.valid}} IN
        IF own = {} THEN logId[r].kind = "drawn" /\ traceId[r].kind = "drawn"
        ELSE /\ {logId[r]} = {Kept(i) : i \in own}
             /\ {traceId[r]} = {Kept(Lower(i)) : i \in own}
=============================================================================
