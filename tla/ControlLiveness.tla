--------------------------- MODULE ControlLiveness ---------------------------
(***************************************************************************)
(* What the control API must eventually do, once its environment calms     *)
(* down.  A request that fails can look like one that ends the tick, so a  *)
(* flag says which it is: while calm, no request fails, no process dies    *)
(* and no operator starts a call.                                          *)
(***************************************************************************)
EXTENDS ControlProperties

VARIABLE calm

liveVars == <<vars, calm>>

Goes(A) == A /\ UNCHANGED calm

CalmDown == ~calm /\ calm' = TRUE /\ UNCHANGED vars

LiveNext ==
  \/ Goes(Timer) \/ Goes(TickStep)
  \/ \E q \in Calls : Goes(CallStep(q))
  \/ Goes(Cluster)
  \/ ~calm /\ Goes(Operator)
  \/ ~calm /\ Goes(Trouble)
  \/ CalmDown

(* The timer ticks every three seconds, requests to the cluster are        *)
(* answered within ten, and the controllers do their work.  Nothing has to *)
(* calm down, and no battle has to end.                                    *)
LiveSpec ==
  /\ Init /\ calm = FALSE /\ [][LiveNext]_liveVars
  /\ WF_liveVars(Goes(Timer)) /\ WF_liveVars(Goes(TickStep))
  /\ \A q \in Calls : WF_liveVars(Goes(CallStep(q)))
  /\ \A n \in Names : /\ WF_liveVars(Goes(PodStarts(n)))
                      /\ WF_liveVars(Goes(PodsRemoved(n)))
                      /\ WF_liveVars(Goes(JobRemoved(n)))

(* A Job whose Pods start again and again ends (backoffLimit).             *)
JobsEnd == \A n \in Names : SF_liveVars(Goes(JobEnds(n)))

GotThrough ==
  slot # NoRun =>
    /\ record[slot.run] # NoRecord
    /\ \/ record[slot.run].desired = "paused"
       \/ /\ record[slot.run].phase \in {"failed", "publication-failed"}
          /\ record[slot.run].desired # "released"

(* If Jobs end, the run in the slot gets through: to its archive and out   *)
(* of the slot, unless it is paused, or has failed and waits for the       *)
(* operator's decision.  No early return of the tick is a dead end.        *)
RunGetsThrough == JobsEnd => (<>calm => <>[]GotThrough)

(* A pause that nobody revokes takes hold, however long the runner would   *)
(* go on: in the end none of its Pods is active.                           *)
PauseTakesHold ==
  \A r \in Runs :
    <>[](calm /\ record[r].phase \in Unfinished /\ record[r].desired = "paused")
      => <>[](pods[Runner(r)] # "active")
==============================================================================
