-------------------------- MODULE ServiceProperties --------------------------
(***************************************************************************)
(* What callers and replica guarantee together.  The properties of the     *)
(* budget (AdmissionProperties) are checked here under the requests that   *)
(* the clients really send.                                                *)
(***************************************************************************)
EXTENDS BattleService, AdmissionProperties

(* A battle that the replica has not finished is the current attempt of a  *)
(* caller that waits for it, or its connection is closed already and will  *)
(* be noticed: however often a caller times out, at most one of its        *)
(* battles competes with those of others for long.                         *)
OneLiveAttempt ==
  \A j \in Jobs : promise[j] = "pending" =>
    \/ link[j] = "dropped"
    \/ link[j] = "held" /\ caller[j[1]] = "asking" /\ j = Current(j[1])

(* What a call returns is a battle that was computed for its own last      *)
(* attempt, and a call fails only after it made every attempt and its      *)
(* last connection is closed.                                              *)
AnswersAreOwn ==
  \A r \in Requests :
    /\ caller[r] = "returned" => promise[Current(r)] = "resolved"
    /\ caller[r] = "failed" => attempt[r] = Attempts[r]
    /\ caller[r] \in {"returned", "failed", "retrying"} =>
         link[Current(r)] \in {"dropped", "over"}

(* The timers of a caller run, and so does the event loop of the server:   *)
(* it reads what was sent, notices what was closed and runs its callbacks; *)
(* battles end.  No answer has to arrive.                                  *)
ServiceLiveSpec ==
  /\ ServiceSpec
  /\ \A r \in Requests : WF_service(Ask(r) /\ attempt[r] > 0) /\ WF_service(GiveUp(r))
  /\ \A j \in Jobs : WF_service(Notice(j)) /\ WF_service(FinishAndAnswer(j))
  /\ WF_service(EventLoop)

(* Every call that was made comes to its end, even if no answer ever       *)
(* arrives, and everything the budget admitted leaves it.                  *)
NobodyWaitsForEver ==
  /\ \A r \in Requests : caller[r] = "asking" ~> caller[r] \in {"returned", "failed"}
  /\ \A j \in Jobs : promise[j] = "pending" ~> promise[j] # "pending"
==============================================================================
