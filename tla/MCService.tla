------------------------------ MODULE MCService ------------------------------
(***************************************************************************)
(* Calls of the runner and of the replay service at one replica for TLC.   *)
(***************************************************************************)
EXTENDS ServiceProperties

CONSTANTS Battles, Replays, MaxAttempts

MCRequests == Battles \cup Replays
MCAttempts == [r \in MCRequests |-> IF r \in Replays THEN 1 ELSE MaxAttempts]
MCJobs == UNION {{r} \X (1..MCAttempts[r]) : r \in MCRequests}
==============================================================================
