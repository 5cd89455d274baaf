------------------------------- MODULE Pipeline -------------------------------
(***************************************************************************)
(* One request on its way through the router (router.rs): the stack of     *)
(* layers, the bearer gate (auth.rs), the extractors (extract.rs), the     *)
(* handlers as far as they wait for a backend, the replies (error.rs), and *)
(* the three clocks that run over each other: the request timeout, the     *)
(* time to read the body, and the inactivity of a copy's source.           *)
(*                                                                         *)
(* Time is discrete.  A timer that has expired is served before time goes  *)
(* on; at one instant TimeoutLayer polls its own timer before the handler, *)
(* while tokio's timeout and TimeoutReader poll what they wrap first.      *)
(***************************************************************************)
EXTENDS Naturals, Sequences

CONSTANTS
    Tokens,             \* bearer tokens, without surrounding blanks
    Empty,              \* the empty string
    BodyReadTimeout,    \* BODY_READ_TIMEOUT
    RequestTimeouts,    \* values of limits.request_timeout_secs
    Inactivities,       \* values of limits.copy_inactivity_secs
    MaxBody,            \* limits.max_request_bytes, in chunks of the body
    MaxMessage,         \* MAX_USER_MESSAGE_LEN
    Details             \* lengths of texts that others put into a message

ASSUME PipelineAssumption ==
    /\ Empty \notin Tokens
    /\ BodyReadTimeout \in Nat \ {0} /\ MaxBody \in Nat
    /\ RequestTimeouts \subseteq Nat \ {0} /\ Inactivities \subseteq Nat \ {0}
    /\ MaxMessage \in Nat /\ MaxMessage >= 100 /\ Details \subseteq Nat

\* A secret as it is written; an option is a set of at most one.
Secret == [value : Tokens \cup {Empty}, blanks : BOOLEAN]
Option(S) == {{}} \cup {{x} : x \in S}

Gated_ListOnly == {"/v1/files"}
Gated == {"/v1/files", "/v1/files/copy"}
Open  == {"/", "/health", "/api"}

\* What require_env lets through as a token: anything but the empty string.
Config == [token : Option(Secret \ {[value |-> Empty, blanks |-> FALSE]}),
           limit : RequestTimeouts, inactivity : Inactivities,
           admin : BOOLEAN, docs : BOOLEAN, s3 : BOOLEAN]
\* auth: what follows "Bearer ", if the header is there and has that form.
Request == [path : Open \cup {"/v1/files", "/v1/files/copy", "unmatched"},
            method : {"right", "wrong"},
            auth : Option(Secret)]

Waiting == {"body", "listing", "opening", "reading", "writing", "finishing"}

VARIABLES
    cfg, rq,
    phase,      \* "arrived", what the handler waits for, "replied", "dropped"
    now,        \* seconds since the request arrived
    idle,       \* seconds since the last byte, of the body or of the source
    got,        \* chunks of the body that were read
    touched,    \* a backend was called
    reply,      \* the reply on the wire, or none
    lines       \* the lines of the access log

vars == <<cfg, rq, phase, now, idle, got, touched, reply, lines>>

Init ==
    /\ cfg \in Config /\ rq \in Request
    /\ phase = "arrived" /\ now = 0 /\ idle = 0 /\ got = 0
    /\ touched = FALSE /\ reply = {} /\ lines = <<>>

-----------------------------------------------------------------------------
(***************************************************************************)
(* Replies.  error is "" without the JSON envelope, message is the length  *)
(* of the text in it.                                                      *)
(***************************************************************************)
Answer(status, error, message) == [status |-> status, error |-> error, message |-> message]

Clip_MarkerOnTop(n) == IF n <= MaxMessage THEN n ELSE MaxMessage + 3
Clip(n) == IF n <= MaxMessage THEN n ELSE (MaxMessage - 3) + 3

\* status, code and the length of the fixed part of the message
FerryError ==
  [ InvalidPath          |-> Answer(400, "invalid_path", 19),
    SameStorageType      |-> Answer(400, "same_storage_type", 48),
    BackendNotConfigured |-> Answer(503, "backend_not_configured", 36),
    NotFound             |-> Answer(404, "not_found", 14),
    ListLimitTooLarge    |-> Answer(413, "list_limit_too_large", 48),
    BadQuery             |-> Answer(400, "bad_query", 22),
    BadBody              |-> Answer(400, "bad_body", 22),
    BodyTooLarge         |-> Answer(413, "body_too_large", 42),
    BodyReadTimeout      |-> Answer(408, "body_read_timeout", 34),
    Upstream             |-> Answer(502, "upstream_error", 24),
    Io                   |-> Answer(500, "io_error", 11) ]

\* The variants that carry a text; the extractors have clipped theirs.
DetailsOf(v) ==
    CASE v \in {"BadQuery", "BadBody"}           -> {Clip(n) : n \in Details}
      [] v \in {"Upstream", "Io"}               -> Details
      [] OTHER                                   -> {0}

(* The layers of build_router, outermost first.  What a layer or something *)
(* inside of it answers passes through the ones outside of it.             *)
Layers_TimeoutOutside ==
    <<"access_log", "timeout", "trace", "security_headers", "traceparent", "body_limit">>
Layers ==
    <<"access_log", "trace", "security_headers", "traceparent", "body_limit", "timeout">>
Outside(depth) == {Layers[i] : i \in 1..(depth - 1)}

Leave(depth, answer) ==
    /\ phase' = "replied"
    /\ reply' = {[answer |-> answer,
                  headers |-> Outside(depth) \cap {"security_headers", "traceparent"}]}
    /\ lines' = IF "access_log" \in Outside(depth) THEN Append(lines, answer.status) ELSE lines

Reply(answer) == Leave(Len(Layers) + 1, answer)

Err(v) ==
    \E n \in DetailsOf(v) :
        Reply([FerryError[v] EXCEPT !.message = Clip(@ + n)])

-----------------------------------------------------------------------------
(***************************************************************************)
(* From the arrival to the first await: one poll of the request's future.  *)
(***************************************************************************)
At(path, method) == phase = "arrived" /\ rq.path = path /\ rq.method = method
Await(next) == phase' = next /\ UNCHANGED <<reply, lines>>

\* require_bearer: a header that is missing or has another form presents "".
Presented == {[a EXCEPT !.blanks = FALSE] : a \in rq.auth}     \* .trim()
Passes ==
    \/ cfg.token = {}
    \/ Presented = cfg.token /\ \A a \in Presented : a.value # Empty

\* For a path that no route matches, merge takes the fallback of one of the
\* two routers, with or without the gate: axum's choice.
Unauthorized ==
    /\ phase = "arrived" /\ rq.path \in Gated \cup {"unmatched"}
    /\ ~Passes
    /\ Reply(Answer(401, "unauthorized", 20))
    /\ UNCHANGED <<cfg, rq, now, idle, got, touched>>

Unmatched ==
    /\ phase = "arrived" /\ rq.path = "unmatched"
    /\ Reply(Answer(404, "", 0))
    /\ UNCHANGED <<cfg, rq, now, idle, got, touched>>

\* The method is refused by the route itself, behind the gate if it is gated.
WrongMethod ==
    /\ phase = "arrived" /\ rq.path # "unmatched" /\ rq.method = "wrong"
    /\ rq.path \in Gated => Passes
    /\ Reply(Answer(405, "", 0))
    /\ UNCHANGED <<cfg, rq, now, idle, got, touched>>

Root == \E path \in {"/", "/health"} :
    /\ At(path, "right")
    /\ Reply(Answer(200, "", 0))
    /\ UNCHANGED <<cfg, rq, now, idle, got, touched>>

Openapi ==
    /\ At("/api", "right")
    /\ \/ ~cfg.admin /\ Reply(Answer(404, "", 0))
       \/ cfg.admin /\ ~cfg.docs /\ Reply(Answer(404, "documentation_disabled", 0))
       \/ cfg.admin /\ cfg.docs /\ Reply(Answer(200, "", 0))
    /\ UNCHANGED <<cfg, rq, now, idle, got, touched>>

\* TypedQuery, and list_files up to backend.list.
ListFiles ==
    /\ At("/v1/files", "right") /\ ("/v1/files" \in Gated => Passes)
    /\ \/ /\ \/ Err("BadQuery") \/ Err("ListLimitTooLarge") \/ Err("InvalidPath")
             \/ ~cfg.s3 /\ Err("BackendNotConfigured")
          /\ UNCHANGED touched
       \/ Await("listing") /\ touched' = TRUE
    /\ UNCHANGED <<cfg, rq, now, idle, got>>

\* TypedJson looks at the content type, then reads the body.
CopyFile ==
    /\ At("/v1/files/copy", "right") /\ ("/v1/files/copy" \in Gated => Passes)
    /\ Err("BadBody") \/ Await("body")
    /\ UNCHANGED <<cfg, rq, now, idle, got, touched>>

-----------------------------------------------------------------------------
(***************************************************************************)
(* The polls after that.  TimeoutLayer's timer comes before the handler.   *)
(***************************************************************************)
Expired == phase \in Waiting /\ now >= cfg.limit
Polled(stage) == phase = stage /\ ~Expired

BodyChunk_Uncapped ==
    /\ Polled("body")
    /\ got' = got + 1 /\ idle' = 0
    /\ UNCHANGED <<cfg, rq, phase, now, touched, reply, lines>>
BodyChunk ==
    /\ Polled("body")
    /\ got' = got + 1 /\ idle' = 0
    /\ IF got' > MaxBody THEN Err("BodyTooLarge") ELSE UNCHANGED <<phase, reply, lines>>
    /\ UNCHANGED <<cfg, rq, now, touched>>

\* The body is complete: its JSON, then copy_file up to src.open_read.
BodyEnds ==
    /\ Polled("body")
    /\ \/ /\ \/ Err("BadBody") \/ Err("SameStorageType") \/ Err("InvalidPath")
             \/ ~cfg.s3 /\ Err("BackendNotConfigured")
          /\ UNCHANGED touched
       \/ cfg.s3 /\ Await("opening") /\ touched' = TRUE
    /\ idle' = 0
    /\ UNCHANGED <<cfg, rq, now, got>>

BodyLate_SinceLastChunk == phase = "body" /\ idle >= BodyReadTimeout
BodyLate == phase = "body" /\ now >= BodyReadTimeout

BodyTimeout ==
    /\ Polled("body") /\ BodyLate
    /\ Err("BodyReadTimeout")
    /\ UNCHANGED <<cfg, rq, now, idle, got, touched>>

\* What the backend answers while the handler is in a stage.
Failures ==
  [ listing   |-> {"Io", "Upstream"},
    opening   |-> {"NotFound", "InvalidPath", "Io", "Upstream"},
    reading   |-> {"Io"},
    writing   |-> {"InvalidPath", "Io", "Upstream"},   \* the open of the destination too
    finishing |-> {"Io", "Upstream"} ]
Following == [opening |-> "writing", writing |-> "reading"]

BackendFails ==
    /\ phase \in DOMAIN Failures /\ ~Expired
    /\ \E v \in Failures[phase] : Err(v)
    /\ UNCHANGED <<cfg, rq, now, idle, got, touched>>

\* A stage of the copy is over; TimeoutReader's timer starts with a read.
BackendMoves ==
    /\ phase \in {"opening", "writing"} /\ ~Expired
    /\ Await(Following[phase])
    /\ idle' = 0
    /\ UNCHANGED <<cfg, rq, now, got, touched>>

\* The source delivers bytes, or its end.
SourceReads ==
    /\ Polled("reading")
    /\ Await("writing") \/ Await("finishing")
    /\ idle' = 0
    /\ UNCHANGED <<cfg, rq, now, got, touched>>

Stalled == phase = "reading" /\ idle >= cfg.inactivity

SourceStalls ==
    /\ Polled("reading") /\ Stalled
    /\ Err("Io")
    /\ UNCHANGED <<cfg, rq, now, idle, got, touched>>

Finish ==
    /\ \/ Polled("listing") /\ Reply(Answer(200, "", 0))
       \/ Polled("finishing") /\ Reply(Answer(204, "", 0))
    /\ UNCHANGED <<cfg, rq, now, idle, got, touched>>

\* TimeoutLayer answers by itself and drops the handler.
Timeout_HandlerOnly ==
    /\ Expired /\ phase # "body"
    /\ \E depth \in 1..Len(Layers) :
         Layers[depth] = "timeout" /\ Leave(depth, Answer(408, "", 0))
    /\ UNCHANGED <<cfg, rq, now, idle, got, touched>>
Timeout ==
    /\ Expired
    /\ \E depth \in 1..Len(Layers) :
         Layers[depth] = "timeout" /\ Leave(depth, Answer(408, "", 0))
    /\ UNCHANGED <<cfg, rq, now, idle, got, touched>>

\* The client hangs up: hyper drops the future with all of its layers.
Disconnect ==
    /\ phase \in Waiting
    /\ phase' = "dropped"
    /\ UNCHANGED <<cfg, rq, now, idle, got, touched, reply, lines>>

Tick ==
    /\ phase \in Waiting
    /\ ~Expired /\ ~BodyLate /\ ~Stalled
    /\ now' = now + 1 /\ idle' = idle + 1
    /\ UNCHANGED <<cfg, rq, phase, got, touched, reply, lines>>

Arrive == Unauthorized \/ Unmatched \/ WrongMethod \/ Root \/ Openapi \/ ListFiles \/ CopyFile

Next ==
    \/ Arrive
    \/ BodyChunk \/ BodyEnds \/ BodyTimeout
    \/ BackendFails \/ BackendMoves \/ SourceReads \/ SourceStalls \/ Finish
    \/ Timeout \/ Disconnect \/ Tick

\* The executor polls what arrived, timers fire, time goes on; no client and
\* no backend owes anything.
Spec == Init /\ [][Next]_vars /\ WF_vars(Arrive) /\ WF_vars(Timeout) /\ WF_vars(Tick)
             /\ WF_vars(BodyTimeout) /\ WF_vars(SourceStalls)

-----------------------------------------------------------------------------
(* Properties.                                                             *)

TypeOK ==
    /\ cfg \in Config /\ rq \in Request
    /\ phase \in {"arrived", "replied", "dropped"} \cup Waiting
    /\ now \in Nat /\ idle \in 0..now /\ got \in 0..(MaxBody + 1)
    /\ touched \in BOOLEAN
    /\ \A r \in reply :
         r.answer.status \in 200..599 /\ r.answer.message \in Nat
    /\ Len(lines) <= 1
    /\ phase = "replied" <=> reply # {}

\* With a token configured, a request to /v1/files or /v1/files/copy, by
\* whatever method, that does not present that token is answered 401 before a
\* byte of its body is read, before time passes and before a backend is called;
\* one that presents it is never answered 401, nor is an open route
\* (require_bearer, build_router).  A configured token with blanks around it
\* can be presented by nobody: the gate trims only what the client sends.
Owner ==
    \/ cfg.token = {}
    \/ \E t \in cfg.token, a \in rq.auth :
         a.value = t.value /\ ~t.blanks /\ t.value # Empty
GateExact ==
    LET refused == \E r \in reply : r.answer.status = 401 IN
    /\ rq.path \in {"/v1/files", "/v1/files/copy"} /\ ~Owner =>
         /\ phase \in {"arrived", "replied"} /\ now = 0 /\ got = 0 /\ ~touched
         /\ phase = "replied" => refused
    /\ rq.path \in Open \/ Owner => ~refused

\* Every reply, TimeoutLayer's and the router's own included, carries the
\* security headers and the trace headers and has exactly one access line, with
\* its status; a request whose client left has none (build_router's order of
\* layers, security_headers.rs, trace_headers.rs, access_log.rs).
EveryLayerSeesIt ==
    /\ \A r \in reply : /\ r.headers = {"security_headers", "traceparent"}
                        /\ lines = <<r.answer.status>>
    /\ reply = {} => lines = <<>>

\* Every failure has a code and a message of at most MAX_USER_MESSAGE_LEN
\* characters, whatever texts go into it (error.rs, failure-modes.md), except
\* for these: the request timeout, a wrong method, an unknown path, /api when it
\* is off, and /api's documentation_disabled, which has no message.
Bare(r) ==
    \/ r.answer.status = 408 /\ now = cfg.limit
    \/ r.answer.status = 405 /\ rq.method = "wrong"
    \/ r.answer.status = 404 /\ rq.path = "unmatched"
    \/ r.answer.status = 404 /\ rq.path = "/api" /\ ~(cfg.admin /\ cfg.docs)
FailuresExplained ==
    \A r \in reply : r.answer.status >= 400 /\ ~Bare(r) =>
        r.answer.error # "" /\ r.answer.message \in 1..MaxMessage

\* Which clock answers.  However a client drips its body, it is waited for no
\* longer than the shorter of BODY_READ_TIMEOUT and the request timeout, and
\* only if the former is strictly shorter does it hear body_read_timeout; no
\* read of a source lasts longer than copy_inactivity_secs; nothing is open
\* beyond the request timeout, and the bare 408 comes exactly then.
ClocksAgree ==
    /\ phase \in Waiting => now <= cfg.limit
    /\ phase = "body" => now <= BodyReadTimeout
    /\ phase = "reading" => idle <= cfg.inactivity
    /\ \A r \in reply :
         /\ r.answer.error = "body_read_timeout" =>
              now = BodyReadTimeout /\ BodyReadTimeout < cfg.limit
         /\ r.answer.status = 408 /\ r.answer.error = "" => now = cfg.limit

\* Every request is answered or its client is gone, in whatever stage it hangs:
\* the request timeout bounds the stages that no other clock watches (list,
\* open_read, a write, put_object).
Answered == <>(phase \in {"replied", "dropped"})
=============================================================================
