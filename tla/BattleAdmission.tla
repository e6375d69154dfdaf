--------------------------- MODULE BattleAdmission ---------------------------
(***************************************************************************)
(* The admission budget of one simulator replica (createBattleAdmission):  *)
(* at most MaxConcurrent battles execute, at most MaxQueued wait for a     *)
(* slot, further ones are refused, and the abort signal of a caller that   *)
(* went away cancels its battle.                                           *)
(*                                                                         *)
(* A job is one call of run.  Its execution does not begin when its slot   *)
(* is taken but in a setImmediate callback; the callbacks run in the order *)
(* they were set.  A step is one synchronous stretch of the event loop.    *)
(***************************************************************************)
EXTENDS Naturals, FiniteSets, SequencesExt

CONSTANTS
  Jobs,           \* calls of run
  MaxConcurrent,
  MaxQueued

ASSUME AdmissionAssumption ==
  /\ IsFiniteSet(Jobs)
  /\ MaxConcurrent \in Nat \ {0}
  /\ MaxQueued \in Nat

VARIABLES
  active,      \* slots taken
  queue,       \* jobs without a slot, in order
  immediates,  \* jobs with a slot whose callback has not run, in order
  running,     \* jobs whose battle is executing
  cancelled,   \* jobs whose abort signal has fired
  promise      \* what run returned: "none" before the call, "pending",
               \* or settled: "resolved", "rejected", "busy", "aborted"

admission == <<active, queue, immediates, running, cancelled, promise>>

AdmissionTypeOK ==
  /\ active \in Nat
  /\ queue \in Seq(Jobs)
  /\ immediates \in Seq(Jobs)
  /\ running \subseteq Jobs
  /\ cancelled \subseteq Jobs
  /\ promise \in [Jobs -> {"none", "pending", "resolved", "rejected", "busy",
                           "aborted"}]

AdmissionInit ==
  /\ active = 0 /\ queue = << >> /\ immediates = << >>
  /\ running = {} /\ cancelled = {}
  /\ promise = [j \in Jobs |-> "none"]

(* run: the job gets a slot, a place in the queue, or a refusal.           *)
RunNow(j) ==
  /\ promise[j] = "none" /\ active < MaxConcurrent
  /\ active' = active + 1
  /\ immediates' = Append(immediates, j)
  /\ promise' = [promise EXCEPT ![j] = "pending"]
  /\ UNCHANGED <<queue, running, cancelled>>

Enqueue(j) ==
  /\ promise[j] = "none" /\ active >= MaxConcurrent /\ Len(queue) < MaxQueued
  /\ queue' = Append(queue, j)
  /\ promise' = [promise EXCEPT ![j] = "pending"]
  /\ UNCHANGED <<active, immediates, running, cancelled>>

Refuse(j) ==
  /\ promise[j] = "none" /\ active >= MaxConcurrent /\ Len(queue) >= MaxQueued
  /\ promise' = [promise EXCEPT ![j] = "busy"]
  /\ UNCHANGED <<active, queue, immediates, running, cancelled>>

(* The signal had fired before the call.  The handler's signal never has:  *)
(* this belongs to what run promises to any caller.                        *)
RefuseAborted(j) ==
  /\ promise[j] = "none"
  /\ promise' = [promise EXCEPT ![j] = "aborted"]
  /\ UNCHANGED <<active, queue, immediates, running, cancelled>>

(* Deliberate bug: a slot is given back without starting the next job.     *)
GiveSlotBackOnly(waiting) ==
  active' = active - 1 /\ immediates' = waiting /\ UNCHANGED queue

(* Deliberate bug: the newest of the queue is started.                     *)
GiveSlotToNewest(waiting) ==
  IF queue = << >>
  THEN GiveSlotBackOnly(waiting)
  ELSE /\ immediates' = Append(waiting, Last(queue))
       /\ queue' = Front(queue)
       /\ UNCHANGED active

(* The slot of a job is given back, and the queue moves up: its head is    *)
(* started as long as there is one and a slot for it.                      *)
GiveSlotBack(waiting) ==
  LET free  == MaxConcurrent - (active - 1)
      moved == IF Len(queue) < free THEN Len(queue) ELSE free
  IN  /\ active' = active - 1 + moved
      /\ immediates' = waiting \o SubSeq(queue, 1, moved)
      /\ queue' = SubSeq(queue, moved + 1, Len(queue))

(* The callback of the first job: the battle begins ...                    *)
Begin ==
  /\ immediates # << >> /\ Head(immediates) \notin cancelled
  /\ immediates' = Tail(immediates)
  /\ running' = running \cup {Head(immediates)}
  /\ UNCHANGED <<active, queue, cancelled, promise>>

(* ... unless its caller has gone.                                         *)
SkipCancelled ==
  /\ immediates # << >> /\ Head(immediates) \in cancelled
  /\ GiveSlotBack(Tail(immediates))
  /\ UNCHANGED <<running, cancelled, promise>>

(* The battle ends.  A promise that was rejected stays so.                 *)
Finish(j, outcome) ==
  /\ j \in running
  /\ running' = running \ {j}
  /\ promise' = [promise EXCEPT ![j] = IF @ = "pending" THEN outcome ELSE @]
  /\ GiveSlotBack(immediates)
  /\ UNCHANGED cancelled

(* Deliberate bug: a cancelled job in the queue keeps its place.           *)
CancelInPlace(j) ==
  /\ promise[j] = "pending" /\ j \notin cancelled
  /\ cancelled' = cancelled \cup {j}
  /\ promise' = [promise EXCEPT ![j] = "aborted"]
  /\ UNCHANGED <<active, queue, immediates, running>>

(* Deliberate bug: the abort handler frees the slot it may hold.           *)
CancelFreeingSlot(j) ==
  /\ promise[j] = "pending" /\ j \notin cancelled
  /\ cancelled' = cancelled \cup {j}
  /\ promise' = [promise EXCEPT ![j] = "aborted"]
  /\ IF j \in running THEN GiveSlotBack(immediates)
     ELSE UNCHANGED <<active, queue, immediates>>
  /\ UNCHANGED running

(* The abort signal fires while its listener is attached.  A queued job    *)
(* leaves the queue; one with a slot keeps it until its callback or its    *)
(* battle is over.                                                         *)
Cancel(j) ==
  /\ promise[j] = "pending" /\ j \notin cancelled
  /\ cancelled' = cancelled \cup {j}
  /\ promise' = [promise EXCEPT ![j] = "aborted"]
  /\ \/ \E i \in DOMAIN queue : queue[i] = j /\ queue' = RemoveAt(queue, i)
     \/ (\A i \in DOMAIN queue : queue[i] # j) /\ UNCHANGED queue
  /\ UNCHANGED <<active, immediates, running>>

Run(j) == RunNow(j) \/ Enqueue(j) \/ Refuse(j)

Callback == Begin \/ SkipCancelled

FinishSomehow(j) == Finish(j, "resolved") \/ Finish(j, "rejected")

AdmissionNext ==
  \/ \E j \in Jobs : Run(j) \/ RefuseAborted(j) \/ Cancel(j) \/ FinishSomehow(j)
  \/ Callback

AdmissionSpec == AdmissionInit /\ [][AdmissionNext]_admission
==============================================================================
