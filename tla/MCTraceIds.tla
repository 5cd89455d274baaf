----------------------------- MODULE MCTraceIds -----------------------------
(* TraceIds with the exclusive or of numbers, and one id that comes in two *)
(* spellings.                                                              *)
EXTENDS TraceIds, Bitwise, TLC

CONSTANTS upper, lower    \* the same digits in upper and in lower case

XorBits(a, b) == a ^^ b
LowerOf(i) == lower
Symmetry == Permutations(Requests)
=============================================================================
