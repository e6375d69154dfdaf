-------------------------- MODULE ControlProperties --------------------------
(***************************************************************************)
(* What the control API guarantees about the runs it admits.               *)
(***************************************************************************)
EXTENDS RunControl

Exists(n) == job[n].state # "absent" \/ pods[n] # "none"

(* Only the run that holds the slot has Jobs or Pods, and it keeps the     *)
(* slot until the last of them is gone: no two tournaments ever run or     *)
(* publish at the same time, and nothing is left behind by a released one. *)
SlotCoversJobs ==
  \A n \in Names : Exists(n) => slot # NoRun /\ slot.run = n[1]

(* The publisher reads a state directory nobody writes: when it exists,    *)
(* the runner and all earlier publishers are gone, Pods included.          *)
PublisherIsAlone ==
  \A r \in Runs : \A a \in 1..MaxAttempts :
    Exists(Publisher(r, a)) => \A n \in Names : Exists(n) => n = Publisher(r, a)

(* A run is reported as archived only if a publisher succeeded.            *)
CompletedIsArchived == \A r \in Runs : record[r].phase = "completed" => r \in archived

(* The slot changes hands only through a release, and is released only by  *)
(* a run that is archived or that failed and was let go by the operator.   *)
ReleasedOnlyWhenOver ==
  [][slot # NoRun /\ slot' # slot =>
       /\ slot' = NoRun
       /\ \/ record[slot.run].phase = "completed"
          \/ record[slot.run].phase = "failed" /\ record[slot.run].desired = "released"]_vars

(* Calls that act on an old reading of the record cannot undo a decision:  *)
(* completed and failed are final, the settings never change, and only a   *)
(* retry of a failed publication counts another attempt.                   *)
DecisionsStand ==
  [][\A r \in Runs : record[r] # NoRecord =>
       /\ record[r].phase \in {"completed", "failed"} => record'[r].phase = record[r].phase
       /\ record'[r].settings = record[r].settings
       /\ record'[r].attempt # record[r].attempt =>
            /\ record[r].phase = "publication-failed"
            /\ record'[r].attempt = record[r].attempt + 1]_vars

------------------------------------------------------------------------------
(* docs/tournament-controls.md: "Same-ID/same-settings requests return     *)
(* existing status".  A create that went through finds the run's record.   *)
CreateReturnsStatus ==
  \A q \in Calls : call[q].pc = "status" /\ call[q].kind = "create" =>
                     record[call[q].run] # NoRecord

(* manager.test.js: "unfinished Pods prevent premature paused state".      *)
PausedIsDrained ==
  \A r \in Runs :
    record[r].phase = "paused" /\ record[r].desired = "paused"
      => pods[Runner(r)] # "active"
==============================================================================
