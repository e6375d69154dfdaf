---------------------------- MODULE BattleService ----------------------------
(***************************************************************************)
(* Callers of one simulator replica: the runner's client (runBattle, which *)
(* asks up to four times) and the replay service (which asks once), with   *)
(* the HTTP handler between them and the admission budget.                 *)
(*                                                                         *)
(* Each attempt opens a connection of its own, so a job of the budget is a *)
(* request and the number of the attempt.  What a caller gives up and what *)
(* the server knows of it are two things: it closes its end at once, and   *)
(* the server notices later.  The budget and its steps are those of        *)
(* BattleAdmission.                                                        *)
(***************************************************************************)
EXTENDS BattleAdmission

CONSTANTS
  Requests,   \* calls of runBattle and of the replay client
  Attempts    \* how often each may ask

HttpRequests == UNION {{r} \X (1..Attempts[r]) : r \in Requests}

ASSUME ServiceAssumption ==
  /\ Attempts \in [Requests -> Nat \ {0}]
  /\ Jobs = HttpRequests

VARIABLES
  caller,    \* "idle", "asking", "retrying" (its delay runs), or over:
             \* "returned" a result, "failed"
  attempt,   \* the attempts it has made
  link       \* per attempt: "none", "sent" (the handler has not read it),
             \* "held" (the handler awaits the budget), "answered" (status
             \* and body are on their way), "dropped" (closed by the caller,
             \* unnoticed by the server), "over"

clients == <<caller, attempt, link>>
service == <<admission, clients>>

Current(r) == <<r, attempt[r]>>

LinkStates == {"none", "sent", "held", "answered", "dropped", "over"}
CallerStates == {"idle", "asking", "retrying", "returned", "failed"}

ServiceTypeOK ==
  /\ AdmissionTypeOK
  /\ caller \in [Requests -> CallerStates]
  /\ attempt \in [Requests -> Nat]
  /\ \A r \in Requests : attempt[r] <= Attempts[r]
  /\ link \in [Jobs -> LinkStates]

ServiceInit ==
  /\ AdmissionInit
  /\ caller = [r \in Requests |-> "idle"]
  /\ attempt = [r \in Requests |-> 0]
  /\ link = [j \in Jobs |-> "none"]

(***************************************************************************)
(* Callers                                                                 *)
(***************************************************************************)

(* The first attempt, or the next one after its delay.                     *)
Ask(r) ==
  /\ caller[r] \in {"idle", "retrying"}
  /\ attempt' = [attempt EXCEPT ![r] = @ + 1]
  /\ caller' = [caller EXCEPT ![r] = "asking"]
  /\ link' = [link EXCEPT ![<<r, attempt[r] + 1>>] = "sent"]
  /\ UNCHANGED admission

(* This attempt has failed: another one follows, or none is left.          *)
AttemptFails(r) ==
  caller' = [caller EXCEPT ![r] = IF attempt[r] < Attempts[r] THEN "retrying"
                                  ELSE "failed"]

(* Deliberate bug: the attempt is abandoned without aborting its request.  *)
GiveUpSilently(r) ==
  /\ caller[r] = "asking" /\ AttemptFails(r)
  /\ UNCHANGED <<admission, attempt, link>>

(* Deliberate bug: the timeout ends with the headers, so that a body that  *)
(* never comes is awaited for ever.                                        *)
GiveUpBeforeHeaders(r) ==
  /\ caller[r] = "asking" /\ link[Current(r)] = "sent"
  /\ AttemptFails(r)
  /\ link' = [link EXCEPT ![Current(r)] = "dropped"]
  /\ UNCHANGED <<admission, attempt>>

(* The timeout, which aborts the request, or the loss of the connection,   *)
(* at any moment until the body has been read.                             *)
GiveUp(r) ==
  /\ caller[r] = "asking"
  /\ AttemptFails(r)
  /\ link' = [link EXCEPT ![Current(r)] = IF @ = "answered" THEN "over" ELSE "dropped"]
  /\ UNCHANGED <<admission, attempt>>

(* Deliberate bug: the status is not looked at.                            *)
TakeAnyAnswer(r) ==
  /\ caller[r] = "asking" /\ link[Current(r)] = "answered"
  /\ caller' = [caller EXCEPT ![r] = "returned"]
  /\ link' = [link EXCEPT ![Current(r)] = "over"]
  /\ UNCHANGED <<admission, attempt>>

(* A result arrives and is that of this request.                           *)
TakeResult(r) ==
  /\ caller[r] = "asking" /\ link[Current(r)] = "answered"
  /\ promise[Current(r)] = "resolved"
  /\ caller' = [caller EXCEPT ![r] = "returned"]
  /\ link' = [link EXCEPT ![Current(r)] = "over"]
  /\ UNCHANGED <<admission, attempt>>

(* A result arrives that validation refuses, such as one of another        *)
(* simulator version.                                                      *)
RefuseResult(r) ==
  /\ caller[r] = "asking" /\ link[Current(r)] = "answered"
  /\ promise[Current(r)] = "resolved"
  /\ AttemptFails(r)
  /\ link' = [link EXCEPT ![Current(r)] = "over"]
  /\ UNCHANGED <<admission, attempt>>

(* A status other than success arrives.                                    *)
TakeFailure(r) ==
  /\ caller[r] = "asking" /\ link[Current(r)] = "answered"
  /\ promise[Current(r)] # "resolved"
  /\ AttemptFails(r)
  /\ link' = [link EXCEPT ![Current(r)] = "over"]
  /\ UNCHANGED <<admission, attempt>>

(***************************************************************************)
(* The handler                                                             *)
(***************************************************************************)

(* The response is written, unless nobody is there to read it.             *)
Answer(j) == link' = [link EXCEPT ![j] = IF @ \in {"sent", "held"} THEN "answered" ELSE @]

Unread(j) == link[j] \in {"sent", "dropped"} /\ promise[j] = "none"

(* A request that has been read enters the budget, also one whose caller   *)
(* has just gone.                                                          *)
Admit(j) ==
  /\ Unread(j)
  /\ RunNow(j) \/ Enqueue(j)
  /\ link' = [link EXCEPT ![j] = IF @ = "sent" THEN "held" ELSE @]
  /\ UNCHANGED <<caller, attempt>>

(* The budget refuses it: 503.                                             *)
TurnAway(j) ==
  /\ Unread(j)
  /\ Refuse(j)
  /\ Answer(j)
  /\ UNCHANGED <<caller, attempt>>

(* The handler refuses it before the budget sees it.                       *)
RefuseRequest(j) ==
  /\ link[j] = "sent"
  /\ Answer(j)
  /\ UNCHANGED <<admission, caller, attempt>>

(* The battle has ended or failed, and its caller is told.                 *)
FinishAndAnswer(j) ==
  /\ FinishSomehow(j)
  /\ Answer(j)
  /\ UNCHANGED <<caller, attempt>>

(* The server notices that the connection is closed.  Awaiting the budget, *)
(* it fires the abort signal; reading the body, it gives up; a response    *)
(* that was written is lost.                                               *)
Notice(j) ==
  /\ link[j] = "dropped"
  /\ link' = [link EXCEPT ![j] = "over"]
  /\ IF promise[j] = "pending" THEN Cancel(j) ELSE UNCHANGED admission
  /\ UNCHANGED <<caller, attempt>>

EventLoop == Callback /\ UNCHANGED clients

Call(r) == Ask(r) \/ GiveUp(r) \/ TakeResult(r) \/ RefuseResult(r) \/ TakeFailure(r)

Handle(j) == Admit(j) \/ TurnAway(j) \/ RefuseRequest(j)

ServiceNext ==
  \/ \E r \in Requests : Call(r)
  \/ \E j \in Jobs : Handle(j) \/ FinishAndAnswer(j) \/ Notice(j)
  \/ EventLoop

ServiceSpec == ServiceInit /\ [][ServiceNext]_service
==============================================================================
