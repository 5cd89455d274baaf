------------------------------ MODULE MCCrash -------------------------------
(***************************************************************************)
(* Three copies that feed each other and a process that is killed once:    *)
(* c1 and c2 write the file p2, c3 uploads it over the object that c1      *)
(* reads.  c2 may be a retry of c1's destination after the crash.          *)
(***************************************************************************)
EXTENDS Crash

CONSTANTS c1, c2, c3, p1, p2, b1, b2

TwoPaths == {p1, p2}
MCFsInit == [x \in Paths |-> IF x = p1 THEN <<b1, b2>> ELSE Absent]
MCS3Init == [x \in Paths |-> IF x = p1 THEN <<b2, b2>> ELSE <<b1>>]
ChainRequests ==
    [c \in Copies |->
        CASE c = c1 -> [src |-> "S3", from |-> p1, dst |-> "FS", to |-> p2]
          [] c = c2 -> [src |-> "S3", from |-> p2, dst |-> "FS", to |-> p2]
          [] c = c3 -> [src |-> "FS", from |-> p2, dst |-> "S3", to |-> p1]]
ChainInit ==
    CrashInit /\ req = ChainRequests /\ s3kind = "live"
ChainSpec == ChainInit /\ [][CrashNext]_crashVars
=============================================================================
