---------------------------- MODULE MCPipeline ----------------------------
(* The clocks in all orders: the request timeout shorter than, equal to    *)
(* and longer than the time for the body, and the inactivity below and     *)
(* above it.                                                               *)
EXTENDS Pipeline

CONSTANTS t1, t2   \* two tokens

TwoTokens == {t1, t2}
=============================================================================
