------------------------------- MODULE Server -------------------------------
(***************************************************************************)
(* The life of a FileFerry process from main to its end: the listener, the *)
(* connections and their requests, SIGTERM and SIGINT (shutdown.rs), the   *)
(* graceful shutdown that axum::serve performs on them (main.rs), SIGKILL  *)
(* after the grace period, and what the log knows of the requests that are *)
(* under way meanwhile (access_log.rs, stream_copy).                       *)
(***************************************************************************)
EXTENDS Naturals, FiniteSets

CONSTANTS Conns,         \* the connections of a behaviour
          MaxRequests,   \* requests on one connection: a bound for TLC
          MaxSignals     \* SIGTERM and SIGINT that are sent: a bound for TLC

ASSUME ServerAssumption ==
  /\ IsFiniteSet(Conns)
  /\ MaxRequests \in Nat \ {0}
  /\ MaxSignals \in Nat

VARIABLES
  proc,        \* "booting", "bound", "serving", then how it ended
  installed,   \* the signal handlers are in place
  signals,     \* signals sent so far
  caught,      \* one of them reached a handler
  told,        \* the shutdown future completed: its watch channel is closed
  listening,   \* the listener exists
  conn,        \* state of each connection
  keep,        \* its task has not seen told
  begun,       \* requests begun on it
  effect,      \* what its latest request did to a destination
  lines,       \* the log lines of that request
  answer,      \* its reply: "none", "ok" or "error"
  lost         \* history: what cut off requests that had an effect, no line

server == <<proc, installed, signals, caught, told, listening>>
request == <<begun, effect, lines, answer>>
vars == <<server, conn, keep, request, lost>>

Alive == proc \in {"booting", "bound", "serving"}
Open(c) == conn[c] \in {"idle", "head", "busy"}
Unrecorded(c) == conn[c] = "busy" /\ effect[c] # "none" /\ "access" \notin lines[c]

Init ==
  /\ proc = "booting"
  /\ installed = FALSE /\ caught = FALSE /\ told = FALSE /\ listening = FALSE
  /\ signals = 0
  /\ conn = [c \in Conns |-> "new"]
  /\ keep = [c \in Conns |-> TRUE]
  /\ begun = [c \in Conns |-> 0]
  /\ effect = [c \in Conns |-> "none"]
  /\ lines = [c \in Conns |-> {}]
  /\ answer = [c \in Conns |-> "none"]
  /\ lost = {}

-----------------------------------------------------------------------------
(***************************************************************************)
(* The process.  Its end, by whatever cause, takes every connection along. *)
(***************************************************************************)
End_ForgetsQueue(cause) ==
  /\ proc' = cause
  /\ listening' = FALSE
  /\ conn' = [c \in Conns |-> IF conn[c] \in {"head", "busy"} THEN "cut" ELSE conn[c]]
  /\ lost' = IF \E c \in Conns : Unrecorded(c) THEN lost \cup {cause} ELSE lost
  /\ UNCHANGED <<installed, told, keep, request>>
End(cause) ==
  /\ proc' = cause
  /\ listening' = FALSE
  /\ conn' = [c \in Conns |-> IF Open(c) \/ conn[c] = "backlog" THEN "cut" ELSE conn[c]]
  /\ lost' = IF \E c \in Conns : Unrecorded(c) THEN lost \cup {cause} ELSE lost
  /\ UNCHANGED <<installed, told, keep, request>>

\* TcpListener::bind: from here on the kernel takes connections.
Bind ==
  /\ proc = "booting"
  /\ proc' = "bound" /\ listening' = TRUE
  /\ UNCHANGED <<installed, signals, caught, told, conn, keep, request, lost>>

\* axum::serve spawns a task for the shutdown future and accepts.
Serve ==
  /\ proc = "bound"
  /\ proc' = "serving"
  /\ UNCHANGED <<installed, signals, caught, told, listening, conn, keep, request, lost>>

\* The first poll of shutdown_signal; tokio's handlers then stay for good.
Install ==
  /\ proc = "serving" /\ ~installed
  /\ installed' = TRUE
  /\ UNCHANGED <<proc, signals, caught, told, listening, conn, keep, request, lost>>

\* SIGTERM or SIGINT: the default action until then, and afterwards a mark.
Signal ==
  /\ Alive /\ signals < MaxSignals
  /\ signals' = signals + 1
  /\ \/ /\ installed
        /\ caught' = TRUE
        /\ UNCHANGED <<proc, installed, told, listening, conn, keep, request, lost>>
     \/ /\ ~installed
        /\ End("terminated")
        /\ UNCHANGED caught

Kill == Alive /\ End("killed") /\ UNCHANGED <<signals, caught>>

\* select! over the two signals: the first one completes the future.
ShutdownTask_NeedsBoth ==
  /\ proc = "serving" /\ caught /\ ~told /\ signals > 1
  /\ told' = TRUE
  /\ UNCHANGED <<proc, installed, signals, caught, listening, conn, keep, request, lost>>
ShutdownTask_HandlersOnce ==
  /\ proc = "serving" /\ caught /\ ~told
  /\ told' = TRUE /\ installed' = FALSE
  /\ UNCHANGED <<proc, signals, caught, listening, conn, keep, request, lost>>
ShutdownTask ==
  /\ proc = "serving" /\ caught /\ ~told
  /\ told' = TRUE
  /\ UNCHANGED <<proc, installed, signals, caught, listening, conn, keep, request, lost>>

\* The accept loop ends and drops the listener with what is queued in it.
CloseListener ==
  /\ proc = "serving" /\ told /\ listening
  /\ listening' = FALSE
  /\ conn' = [c \in Conns |-> IF conn[c] = "backlog" THEN "cut" ELSE conn[c]]
  /\ UNCHANGED <<proc, installed, signals, caught, told, keep, request, lost>>

\* serve(..).await returns when every connection is gone, and main with it.
Exit_AtOnce ==
  /\ proc = "serving" /\ told /\ ~listening
  /\ End("exited")
  /\ UNCHANGED <<signals, caught>>
Exit ==
  /\ proc = "serving" /\ told /\ ~listening
  /\ \A c \in Conns : ~Open(c)
  /\ End("exited")
  /\ UNCHANGED <<signals, caught>>

-----------------------------------------------------------------------------
(***************************************************************************)
(* A connection: the kernel's queue, its task, and the client.             *)
(***************************************************************************)
Move(c, to) == conn' = [conn EXCEPT ![c] = to]

Connect(c) ==
  /\ listening /\ conn[c] = "new"
  /\ Move(c, "backlog")
  /\ UNCHANGED <<server, keep, request, lost>>

Accept(c) ==
  /\ proc = "serving" /\ listening /\ conn[c] = "backlog"
  /\ Move(c, "idle")
  /\ UNCHANGED <<server, keep, request, lost>>

\* The client sends the first bytes of a request, and then the rest of its head.
StartHead(c) ==
  /\ proc = "serving" /\ conn[c] = "idle" /\ begun[c] < MaxRequests
  /\ Move(c, "head")
  /\ UNCHANGED <<server, keep, request, lost>>
EndHead(c) ==
  /\ proc = "serving" /\ conn[c] = "head"
  /\ Move(c, "busy")
  /\ begun' = [begun EXCEPT ![c] = @ + 1]
  /\ effect' = [effect EXCEPT ![c] = "none"]
  /\ lines' = [lines EXCEPT ![c] = {}]
  /\ answer' = [answer EXCEPT ![c] = "none"]
  /\ UNCHANGED <<server, keep, lost>>

\* A client that leaves: hyper drops the handler, and the access log with it.
Leave(c) ==
  /\ proc = "serving" /\ Open(c)
  /\ Move(c, "left")
  /\ lost' = IF Unrecorded(c) THEN lost \cup {"left"} ELSE lost
  /\ UNCHANGED <<server, keep, request>>

\* The task of a connection sees told: an idle one is closed, a request that
\* has begun is the last one.
Notice(c) ==
  /\ proc = "serving" /\ told /\ Open(c) /\ keep[c]
  /\ keep' = [keep EXCEPT ![c] = FALSE]
  /\ Move(c, IF conn[c] = "idle" THEN "closed" ELSE conn[c])
  /\ UNCHANGED <<server, request, lost>>

-----------------------------------------------------------------------------
(***************************************************************************)
(* A handler.  A copy opens and fills its destination, and writes the      *)
(* audit line; access_log_middleware writes its line around everything.    *)
(***************************************************************************)
Busy(c) == proc = "serving" /\ conn[c] = "busy"

WriteSome(c) ==
  /\ Busy(c) /\ effect[c] = "none"
  /\ effect' = [effect EXCEPT ![c] = "part"]
  /\ UNCHANGED <<server, conn, keep, begun, lines, answer, lost>>
WriteRest(c) ==
  /\ Busy(c) /\ effect[c] = "part"
  /\ effect' = [effect EXCEPT ![c] = "whole"]
  /\ UNCHANGED <<server, conn, keep, begun, lines, answer, lost>>

Audit(c) ==
  /\ Busy(c) /\ effect[c] = "whole" /\ lines[c] = {}
  /\ lines' = [lines EXCEPT ![c] = {"audit"}]
  /\ UNCHANGED <<server, conn, keep, begun, effect, answer, lost>>

\* The reply passes the access log and goes out; an error, the request
\* timeout's included, can come at any time before the audit line.
Reply(c, a) ==
  /\ lines' = [lines EXCEPT ![c] = @ \cup {"access"}]
  /\ answer' = [answer EXCEPT ![c] = a]
  /\ Move(c, IF keep[c] THEN "idle" ELSE "closed")
  /\ UNCHANGED <<server, keep, begun, effect, lost>>
Succeed(c) == Busy(c) /\ "audit" \in lines[c] /\ Reply(c, "ok")
Fail(c) == Busy(c) /\ lines[c] = {} /\ Reply(c, "error")

Next ==
  \/ Bind \/ Serve \/ Install \/ Signal \/ Kill
  \/ ShutdownTask \/ CloseListener \/ Exit
  \/ \E c \in Conns :
       \/ Connect(c) \/ Accept(c) \/ StartHead(c) \/ EndHead(c) \/ Leave(c) \/ Notice(c)
       \/ WriteSome(c) \/ WriteRest(c) \/ Audit(c) \/ Succeed(c) \/ Fail(c)

\* The runtime polls its tasks, and the request timeout ends every handler.
\* Clients owe a complete head, or to go away: nothing in the code ends a
\* connection whose client stops in the middle of one.
Handler(c) == Audit(c) \/ Succeed(c) \/ Fail(c)
Fairness ==
  /\ WF_vars(Install) /\ WF_vars(ShutdownTask) /\ WF_vars(CloseListener) /\ WF_vars(Exit)
  /\ \A c \in Conns : WF_vars(Notice(c)) /\ WF_vars(Handler(c)) /\ WF_vars(EndHead(c))

Spec == Init /\ [][Next]_vars /\ Fairness

-----------------------------------------------------------------------------
\* Types; a process that has ended holds no connection.
TypeOK ==
  /\ proc \in {"booting", "bound", "serving", "exited", "terminated", "killed"}
  /\ {installed, caught, told, listening} \subseteq BOOLEAN
  /\ signals \in 0..MaxSignals
  /\ conn \in [Conns -> {"new", "backlog", "idle", "head", "busy", "closed", "left", "cut"}]
  /\ keep \in [Conns -> BOOLEAN]
  /\ begun \in [Conns -> 0..MaxRequests]
  /\ effect \in [Conns -> {"none", "part", "whole"}]
  /\ lines \in [Conns -> SUBSET {"audit", "access"}]
  /\ answer \in [Conns -> {"none", "ok", "error"}]
  /\ lost \subseteq {"exited", "terminated", "killed", "left"}
  /\ ~Alive => \A c \in Conns : ~Open(c)

\* shutdown.rs: a graceful shutdown leaves no "partial-transfer with no
\* record": a request that touched a destination and has no access line was
\* cut by SIGKILL, by its own client, or by a signal before the handlers; and a
\* copy that was answered 204 is whole and has both of its lines.
DrainRecords ==
  /\ "exited" \notin lost /\ ("terminated" \in lost => ~installed)
  /\ \A c \in Conns :
       answer[c] = "ok" => effect[c] = "whole" /\ lines[c] = {"audit", "access"}

\* Once the handlers are in place a signal, the second one included, never
\* cuts a request: only SIGKILL and the client do.
SignalsSpareRequests ==
  [][\A c \in Conns : (conn[c] = "busy" /\ conn'[c] = "cut") =>
        proc' = "killed" \/ ~(installed \/ told)]_vars

\* A signal that was caught ends the process, drained, if SIGKILL does not
\* come first.
DrainEnds == caught ~> proc \in {"exited", "killed"}
=============================================================================
