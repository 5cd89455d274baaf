----------------------------- MODULE ServerProof -----------------------------
(***************************************************************************)
(* A graceful shutdown leaves no request behind, for every number of       *)
(* connections, requests and signals.                                      *)
(***************************************************************************)
EXTENDS Server, TLAPS

(* TypeOK is inductive but for the count of requests: one that has begun   *)
(* to arrive still fits.                                                   *)
Room == \A c \in Conns : conn[c] = "head" => begun[c] < MaxRequests
TypeInv == TypeOK /\ Room

LEMMA TypesInit == Init => TypeInv
<1> SUFFICES ASSUME Init PROVE TypeOK /\ Room
  BY DEF TypeInv
<1>1. {installed, caught, told, listening} \subseteq BOOLEAN
  BY DEF Init
<1>2. begun \in [Conns -> 0..MaxRequests] /\ signals \in 0..MaxSignals
  BY ServerAssumption DEF Init
<1>3. lines \in [Conns -> SUBSET {"audit", "access"}]
  BY DEF Init
<1> QED BY <1>1, <1>2, <1>3 DEF Init, TypeOK, Room, Alive, Open

LEMMA EndTypes ==
  ASSUME TypeOK, NEW cause \in {"exited", "terminated", "killed"}, End(cause),
         signals' \in 0..MaxSignals, caught' \in BOOLEAN
  PROVE  TypeOK'
BY DEF TypeOK, End, request, Alive, Open

LEMMA RoomNext ==
  ASSUME TypeInv, [Next]_vars
  PROVE  Room'
<1>1. ASSUME NEW c \in Conns, StartHead(c) PROVE Room'
  BY <1>1 DEF StartHead, Move, request, TypeInv, TypeOK, Room
<1>2. ASSUME NEW c \in Conns, EndHead(c) PROVE Room'
  BY <1>2 DEF EndHead, Move, TypeInv, TypeOK, Room
<1>3. ASSUME UNCHANGED begun, \A c \in Conns : conn'[c] = "head" => conn[c] = "head"
      PROVE  Room'
  BY <1>3 DEF TypeInv, Room
<1>4. ASSUME NEW c \in Conns,
             \/ Connect(c) \/ Accept(c) \/ Leave(c) \/ Notice(c)
             \/ WriteSome(c) \/ WriteRest(c) \/ Audit(c) \/ Succeed(c) \/ Fail(c)
      PROVE  Room'
  BY <1>3, <1>4 DEF Connect, Accept, Leave, Notice, WriteSome, WriteRest, Audit, Succeed,
     Fail, Reply, Move, request, TypeInv, TypeOK
<1>5. ASSUME Signal \/ Kill \/ CloseListener \/ Exit PROVE Room'
  BY <1>3, <1>5 DEF Signal, Kill, CloseListener, Exit, End, request, TypeInv, TypeOK
<1> QED BY <1>1, <1>2, <1>3, <1>4, <1>5
        DEF Next, vars, Bind, Serve, Install, ShutdownTask, request

LEMMA TypesNext == TypeInv /\ [Next]_vars => TypeInv'
<1> SUFFICES ASSUME TypeInv, TypeOK, Room, [Next]_vars PROVE TypeOK'
  BY RoomNext DEF TypeInv
<1> USE ServerAssumption
<1>1. CASE UNCHANGED vars
  BY <1>1 DEF vars, server, request, TypeOK, Alive, Open
<1>2. CASE Bind \/ Serve \/ Install \/ ShutdownTask \/ CloseListener
  <2>1. CASE Bind \/ Serve
    BY <2>1 DEF Bind, Serve, TypeOK, Alive, Open, request
  <2>2. CASE Install \/ ShutdownTask
    BY <2>2 DEF Install, ShutdownTask, TypeOK, Alive, Open, request
  <2>3. CASE CloseListener
    BY <2>3 DEF CloseListener, TypeOK, Alive, Open, request
  <2> QED BY <1>2, <2>1, <2>2, <2>3
<1>3. CASE Signal
  <2>1. signals' \in 0..MaxSignals
    BY <1>3 DEF Signal, TypeOK
  <2>2. CASE installed
    BY <1>3, <2>1, <2>2 DEF Signal, TypeOK, Alive, Open, request
  <2>3. CASE ~installed
    BY <1>3, <2>1, <2>3, EndTypes DEF Signal, TypeOK
  <2> QED BY <2>2, <2>3
<1>4. CASE Kill \/ Exit
  BY <1>4, EndTypes DEF Kill, Exit, TypeOK
<1>5. ASSUME NEW c \in Conns,
             Connect(c) \/ Accept(c) \/ StartHead(c) \/ Leave(c) \/ Notice(c)
      PROVE  TypeOK'
  <2>1. CASE Connect(c) \/ Accept(c) \/ StartHead(c)
    BY <2>1 DEF Connect, Accept, StartHead, Move, server, request, TypeOK, Alive, Open
  <2>2. CASE Leave(c)
    BY <2>2 DEF Leave, Move, server, request, TypeOK, Alive, Open, Unrecorded
  <2>3. CASE Notice(c)
    BY <2>3 DEF Notice, Move, server, request, TypeOK, Alive, Open
  <2> QED BY <1>5, <2>1, <2>2, <2>3
<1>6. ASSUME NEW c \in Conns, EndHead(c) PROVE TypeOK'
  <2>1. lines' \in [Conns -> SUBSET {"audit", "access"}]
    BY <1>6 DEF EndHead, TypeOK
  <2>2. begun[c] \in Nat /\ begun[c] < MaxRequests
    BY <1>6 DEF EndHead, TypeOK, Room
  <2>3. begun' \in [Conns -> 0..MaxRequests]
    BY <1>6, <2>2 DEF EndHead, TypeOK
  <2> QED BY <1>6, <2>1, <2>3 DEF EndHead, Move, server, TypeOK, Alive, Open
<1>7. ASSUME NEW c \in Conns,
             WriteSome(c) \/ WriteRest(c) \/ Audit(c) \/ Succeed(c) \/ Fail(c)
      PROVE  TypeOK'
  <2>1. lines' \in [Conns -> SUBSET {"audit", "access"}]
    BY <1>7 DEF WriteSome, WriteRest, Audit, Succeed, Fail, Reply, TypeOK
  <2>2. CASE WriteSome(c) \/ WriteRest(c) \/ Audit(c)
    BY <2>1, <2>2 DEF WriteSome, WriteRest, Audit, Busy, server, TypeOK, Alive, Open
  <2>3. ASSUME NEW a \in {"ok", "error"}, Busy(c), Reply(c, a) PROVE TypeOK'
    BY <2>1, <2>3 DEF Reply, Busy, Move, server, TypeOK, Alive, Open
  <2> QED BY <1>7, <2>2, <2>3 DEF Succeed, Fail
<1> QED BY <1>1, <1>2, <1>3, <1>4, <1>5, <1>6, <1>7 DEF Next

(* Server.TypeOK, for all bounds.                                          *)
THEOREM ServerTypes == Spec => []TypeOK
<1>1. TypeInv => TypeOK
  BY DEF TypeInv
<1> QED BY <1>1, TypesInit, TypesNext, PTL DEF Spec

-----------------------------------------------------------------------------
(* DrainRecords is not inductive: a request that is under way has no reply *)
(* yet, and its audit line only when its destination is whole; a process   *)
(* that a signal has ended had no handlers then and gets none later; and   *)
(* the shutdown future completes only after a signal was caught by one.    *)
Recorded(c) ==
  /\ conn[c] = "busy" => answer[c] = "none" /\ "access" \notin lines[c]
  /\ "audit" \in lines[c] => effect[c] = "whole"
  /\ answer[c] = "ok" => effect[c] = "whole" /\ lines[c] = {"audit", "access"}
DrainInv ==
  /\ told => caught
  /\ caught => installed
  /\ installed => proc \notin {"booting", "bound"}
  /\ "exited" \notin lost
  /\ "terminated" \in lost => ~installed /\ ~Alive
  /\ \A c \in Conns : Recorded(c)

LEMMA DrainInit == Init => DrainInv
BY DEF Init, DrainInv, Recorded

(* The end of the process touches neither replies nor lines.               *)
LEMMA EndDrain ==
  ASSUME TypeOK, DrainInv, NEW cause \in {"exited", "terminated", "killed"}, End(cause),
         UNCHANGED caught,
         cause = "terminated" => ~installed,
         cause = "exited" => \A c \in Conns : ~Open(c)
  PROVE  DrainInv'
<1>1. \A c \in Conns : conn'[c] = "busy" => conn[c] = "busy"
  BY DEF End, TypeOK, Open
<1>2. \A c \in Conns : Recorded(c)'
  BY <1>1 DEF End, request, DrainInv, Recorded
<1>3. lost' = lost \/ (lost' = lost \cup {cause} /\ \E c \in Conns : Open(c))
  BY DEF End, Unrecorded, Open
<1> QED BY <1>2, <1>3 DEF End, DrainInv, Alive

LEMMA DrainNext == TypeOK /\ DrainInv /\ [Next]_vars => DrainInv'
<1> SUFFICES ASSUME TypeOK, DrainInv, [Next]_vars PROVE DrainInv'
  OBVIOUS
<1>1. CASE UNCHANGED vars
  BY <1>1 DEF vars, server, request, DrainInv, Recorded, Alive
<1>2. CASE Bind \/ Serve \/ Install \/ ShutdownTask
  BY <1>2 DEF Bind, Serve, Install, ShutdownTask, DrainInv, Recorded, Alive, request
<1>3. CASE CloseListener
  <2>1. \A c \in Conns : conn'[c] = "busy" => conn[c] = "busy"
    BY <1>3 DEF CloseListener, TypeOK
  <2> QED BY <1>3, <2>1 DEF CloseListener, DrainInv, Recorded, Alive, request
<1>4. CASE Signal
  <2>1. CASE installed
    BY <1>4, <2>1 DEF Signal, DrainInv, Recorded, Alive, request
  <2>2. CASE ~installed
    BY <1>4, <2>2, EndDrain DEF Signal
  <2> QED BY <2>1, <2>2
<1>5. CASE Kill \/ Exit
  BY <1>5, EndDrain DEF Kill, Exit
<1>6. ASSUME NEW c \in Conns,
             Connect(c) \/ Accept(c) \/ StartHead(c) \/ Leave(c) \/ Notice(c)
      PROVE  DrainInv'
  <2>1. /\ UNCHANGED <<server, effect, lines, answer>>
        /\ lost' = lost \/ lost' = lost \cup {"left"}
        /\ \A e \in Conns : conn'[e] = "busy" => conn[e] = "busy"
    BY <1>6 DEF Connect, Accept, StartHead, Leave, Notice, Move, TypeOK, request, Unrecorded
  <2> QED BY <2>1 DEF server, DrainInv, Recorded, Alive
<1>7. ASSUME NEW c \in Conns,
             EndHead(c) \/ WriteSome(c) \/ WriteRest(c) \/ Audit(c) \/ Succeed(c) \/ Fail(c)
      PROVE  DrainInv'
  <2>1. /\ UNCHANGED <<server, lost>>
        /\ \A e \in Conns \ {c} :
             /\ conn'[e] = conn[e] /\ effect'[e] = effect[e]
             /\ lines'[e] = lines[e] /\ answer'[e] = answer[e]
    BY <1>7 DEF EndHead, WriteSome, WriteRest, Audit, Succeed, Fail, Reply, Move, TypeOK
  <2>2. Recorded(c)'
    BY <1>7 DEF EndHead, WriteSome, WriteRest, Audit, Succeed, Fail, Reply, Busy, Move,
       TypeOK, DrainInv, Recorded
  <2> QED BY <2>1, <2>2 DEF server, DrainInv, Recorded, Alive
<1> QED BY <1>1, <1>2, <1>3, <1>4, <1>5, <1>6, <1>7 DEF Next

LEMMA DrainInvariant == Spec => [](TypeOK /\ DrainInv)
<1>1. TypeInv => TypeOK
  BY DEF TypeInv
<1> QED BY <1>1, TypesInit, TypesNext, DrainInit, DrainNext, PTL DEF Spec

(* shutdown.rs: after a graceful shutdown there is no partial transfer     *)
(* without a record, and 204 means a whole copy with both of its lines.    *)
THEOREM DrainCorrect == Spec => []DrainRecords
<1>1. DrainInv => DrainRecords
  BY DEF DrainInv, Recorded, DrainRecords
<1> QED BY <1>1, DrainInvariant, PTL

(* shutdown.rs: with the handlers in place no signal cuts a request; the   *)
(* shutdown that it starts waits for every connection.                     *)
THEOREM SignalsCorrect == Spec => SignalsSpareRequests
<1>1. ASSUME TypeOK, DrainInv, [Next]_vars, NEW c \in Conns,
             conn[c] = "busy", conn'[c] = "cut"
      PROVE  proc' = "killed" \/ ~(installed \/ told)
  <2>1. CASE Signal
    BY <1>1, <2>1 DEF Signal, DrainInv
  <2>2. CASE Kill
    BY <2>2 DEF Kill, End
  <2>3. ASSUME ~Signal, ~Kill PROVE FALSE
    <3>1. ~UNCHANGED conn
      BY <1>1
    <3>2. CASE Exit
      BY <1>1, <3>2 DEF Exit, Open
    <3>3. CASE CloseListener
      BY <1>1, <3>3 DEF CloseListener
    <3>4. ASSUME NEW e \in Conns,
                 \/ Connect(e) \/ Accept(e) \/ StartHead(e) \/ EndHead(e) \/ Leave(e)
                 \/ Notice(e) \/ Succeed(e) \/ Fail(e)
          PROVE  FALSE
      BY <1>1, <3>4 DEF Connect, Accept, StartHead, EndHead, Leave, Notice, Succeed, Fail,
         Reply, Move, TypeOK
    <3> QED BY <1>1, <2>3, <3>1, <3>2, <3>3, <3>4
        DEF Next, vars, Bind, Serve, Install, ShutdownTask, WriteSome, WriteRest, Audit
  <2> QED BY <2>1, <2>2, <2>3
<1>2. TypeOK /\ DrainInv /\ [Next]_vars =>
        [\A c \in Conns : (conn[c] = "busy" /\ conn'[c] = "cut") =>
            proc' = "killed" \/ ~(installed \/ told)]_vars
  BY <1>1
<1> QED BY <1>2, DrainInvariant, PTL DEF Spec, SignalsSpareRequests
===============================================================================
