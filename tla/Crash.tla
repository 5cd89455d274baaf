-------------------------------- MODULE Crash -------------------------------
(***************************************************************************)
(* Transfer with a process that is killed (SIGKILL after the grace period, *)
(* src/shutdown.rs, the OOM killer, a power cut of the container) and      *)
(* started again.  Nothing is written down about a copy, so a restart      *)
(* recovers nothing: the handlers, their buffers and the jobs of the       *)
(* blocking pool are gone, files and temporary files stay as they are, and *)
(* S3 still has the PUTs that were sent.  A copy that has not been         *)
(* received may be the client's retry.                                     *)
(***************************************************************************)
EXTENDS Transfer

CONSTANT MaxCrashes   \* how often the process is killed: a bound for TLC
ASSUME CrashAssumption == MaxCrashes \in Nat

VARIABLES crashes,   \* kills so far
          since      \* history: copies admitted since the last one

crashVars == <<vars, crashes, since>>

CrashInit == Init /\ crashes = 0 /\ since = {}

Kill ==
    /\ crashes < MaxCrashes
    /\ crashes' = crashes + 1
    /\ since' = {}
    /\ pc' = [c \in Copies |->
                IF pc[c] \in Stage \ {"received"} THEN "disconnected" ELSE pc[c]]
    /\ buf' = [c \in Copies |-> <<>>]
    /\ sent' = [c \in Copies |-> <<>>]
    /\ making' = [c \in Copies |-> FALSE]
    /\ solo' = {}
    /\ UNCHANGED <<stores, req, snap, counter, off, tmp, putSink, calm>>

CrashNext ==
    \/ /\ Next
       /\ UNCHANGED crashes
       /\ since' = since \cup {c \in Copies : pc[c] = "received" /\ pc'[c] # "received"}
    \/ Kill

CrashSpec == CrashInit /\ [][CrashNext]_crashVars

-----------------------------------------------------------------------------
\* After a crash the data directory belongs to the new process alone: when one
\* copy has been admitted since and is answered 204, the file is its source,
\* and nothing of the old process changes that any more (contrast with a copy
\* after a failure that the process survives: ReplacesPriorObject).
RetryHeals ==
    \A c \in Copies :
        crashes > 0 /\ since = {c} /\ ToFs(c) /\ pc[c] = "copied" => fs[req[c].to] = snap[c]
=============================================================================
