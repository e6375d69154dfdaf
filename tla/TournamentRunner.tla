--------------------------- MODULE TournamentRunner --------------------------
(***************************************************************************)
(* The tournament runner: the loop of runTournament (plan from the run     *)
(* directory, execute one stage, plan again), the group and the knockout   *)
(* executor, their workers and the acceptance lane they share, and the     *)
(* ways the process ends: it returns, is asked to stop, fails, or dies.    *)
(*                                                                         *)
(* A step is what the JavaScript event loop runs between two awaits: a     *)
(* request settles, one file is written, one signal is delivered.  The     *)
(* volatile state is one executor call's locals; the disk is RunStore's.   *)
(* One process at a time uses a run directory (the volume is attached      *)
(* ReadWriteOncePod).                                                      *)
(***************************************************************************)
EXTENDS RunStore, FiniteSetsExt

CONSTANTS
  Cadence,       \* group results between provisional standings (10 or 1000)
  Concurrency    \* runnerConcurrency: workers of an executor

ASSUME RunnerAssumption ==
  /\ Cadence \in Nat \ {0}
  /\ Concurrency \in Nat \ {0}

VARIABLES
  proc,            \* where the process is
  stopping,        \* live.stopping: a SIGTERM or SIGINT was received
  active,          \* the stage being executed: GroupStage or a knockout round
  known,           \* accepted results in memory
  count,           \* acceptedResultCount
  position,        \* schedulePosition
  todo,            \* series no worker has taken yet
  worker,          \* per worker: idle, requesting a game, or queued with it
  lane,            \* acceptance lane: workers whose response waits, in order
  laneStep,        \* what the lane does for its head
  stopAssigning,
  requestFailed,   \* requestFailure # undefined
  storageFailed    \* storageFailure # undefined

memory == <<active, known, count, position, todo, worker, lane, laneStep,
            stopAssigning, requestFailed, storageFailed>>
vars == <<disk, memory, proc, stopping>>

Workers == 1..Concurrency

Idle == [pc |-> "idle", series |-> 0, game |-> 0]
Requesting(s, g) == [pc |-> "request", series |-> s, game |-> g]

WorkerType == [pc     : {"idle", "request", "queued"},
               series : Nat,
               game   : Nat]

ProcStates ==
  {"down", "loop", "plan", "initCheckpoint",
   "snapCheckpoint", "snapStandings", "barrierBracket", "barrierCheckpoint",
   "dispatch", "working",
   "finalStandings", "finalBracket", "finalCheckpoint",
   "nextBracket", "nextCheckpoint",
   "doneBracket", "doneCheckpoint", "doneMetadata",
   "failAppend", "failMetadata"}

TypeOK ==
  /\ DiskTypeOK
  /\ proc \in ProcStates
  /\ stopping \in BOOLEAN
  /\ active \in 0..Rounds
  /\ known \subseteq Entry
  /\ count \in Nat
  /\ position \in Nat
  /\ todo \subseteq Nat
  /\ worker \in [Workers -> WorkerType]
  /\ lane \in Seq(Workers)
  /\ laneStep \in {"append", "checkpoint", "standings"}
  /\ stopAssigning \in BOOLEAN
  /\ requestFailed \in BOOLEAN
  /\ storageFailed \in BOOLEAN

NoWorkers == [w \in Workers |-> Idle]

Init ==
  /\ EmptyDisk /\ proc = "down" /\ stopping = FALSE
  /\ active = GroupStage /\ known = {} /\ count = 0 /\ position = 0 /\ todo = {}
  /\ worker = NoWorkers /\ lane = << >> /\ laneStep = "append"
  /\ stopAssigning = FALSE /\ requestFailed = FALSE /\ storageFailed = FALSE

(* The locals an executor call starts with.                                *)
FreshExecutor ==
  /\ worker' = NoWorkers /\ lane' = << >> /\ laneStep' = "append"
  /\ stopAssigning' = FALSE /\ requestFailed' = FALSE /\ storageFailed' = FALSE

(* No executor call is under way any more.                                 *)
Forget ==
  /\ active' = GroupStage /\ known' = {} /\ count' = 0 /\ position' = 0 /\ todo' = {}
  /\ FreshExecutor

Step(from, to) == proc = from /\ proc' = to /\ UNCHANGED <<memory, stopping>>
Return(from) == proc = from /\ proc' = "loop" /\ Forget /\ UNCHANGED stopping
Exit == proc' = "down" /\ Forget /\ stopping' = FALSE

------------------------------------------------------------------------------
(* The loop of runTournament, and planTournamentRun.                       *)

Start == Step("down", "loop") /\ UNCHANGED disk

(* shouldStop is asked before each plan, not while one is made.            *)
StopInLoop == proc = "loop" /\ stopping /\ Exit /\ UNCHANGED disk
BeginPlan == Step("loop", "plan") /\ ~stopping /\ UNCHANGED disk

InitializeMetadata ==
  Step("plan", "initCheckpoint") /\ metadata = "absent" /\ PutMetadata("running")
InitializeCheckpoint ==
  Step("initCheckpoint", "plan") /\ PutCheckpoint("groups", GroupStage, 0, 0)

ReturnTerminal ==
  proc = "plan" /\ Terminal /\ ReadableState /\ Exit /\ UNCHANGED disk

RefuseState ==
  /\ proc = "plan" /\ metadata # "absent"
  /\ ~ReadableState \/ (metadata = "running" /\ ~RecoverableState)
  /\ Exit /\ UNCHANGED disk

CreateRoster ==
  /\ Step("plan", "plan")
  /\ metadata = "running" /\ ReadableState /\ ~roster
  /\ PutRoster

(* Deliberate bug: a resumed stage starts over.                            *)
PendingIgnoringLog(E, r) == SeriesIn(r)

Pending(E, r) == {s \in SeriesIn(r) : ~SeriesDone(E, r, s)}

(* Deliberate bug: the position inside a knockout round is not recovered.  *)
LoadPlanAtRoundStart(r) ==
  /\ active' = r /\ known' = Accepted /\ count' = Cardinality(Accepted)
  /\ position' = IF r = GroupStage THEN PlayedPrefix(Accepted) ELSE 0
  /\ todo' = Pending(Accepted, r)
  /\ FreshExecutor /\ UNCHANGED <<stopping, disk>>

(* The plan for stage r, as its executor receives it.                      *)
LoadPlan(r) ==
  /\ active' = r
  /\ known' = Accepted
  /\ count' = Cardinality(Accepted)
  /\ position' = IF r = GroupStage THEN PlayedPrefix(Accepted)
                 ELSE Cardinality({e \in Accepted : e.round = r})
  /\ todo' = Pending(Accepted, r)
  /\ FreshExecutor
  /\ UNCHANGED <<stopping, disk>>

(* Deliberate bug: a failed run is planned like a running one.             *)
PlanningFailedRuns ==
  proc = "plan" /\ metadata \in {"running", "failed"} /\ roster /\ RecoverableState

Planning == proc = "plan" /\ metadata = "running" /\ roster /\ RecoverableState

AtCadence(n) == n > 0 /\ n < GroupMatches /\ n % Cadence = 0

(* Deliberate bug: recovery at a cadence boundary writes no snapshot.      *)
PlanGroupsWithoutSnapshot ==
  /\ Planning /\ ~KnockoutPlanned
  /\ LoadPlan(GroupStage) /\ proc' = "dispatch"

(* At a cadence boundary the checkpoint and the provisional standings are  *)
(* written again before any work.                                          *)
PlanGroups ==
  /\ Planning /\ ~KnockoutPlanned
  /\ LoadPlan(GroupStage)
  /\ proc' = IF AtCadence(Cardinality(Accepted)) THEN "snapCheckpoint" ELSE "dispatch"

(* Deliberate bug: a barrier whose writes were cut short is not repeated.  *)
BarrierNeverMissing(r) == FALSE

(* The checkpoint has not crossed the barrier into the round the results   *)
(* put the run in: the barrier's writes are repeated, and nothing else.    *)
BarrierMissing(r) ==
  /\ ~StageComplete(Accepted, r)
  /\ checkpoint.stage # "knockout" \/ checkpoint.round # r

PlanKnockout ==
  /\ Planning /\ KnockoutPlanned
  /\ LET r == ActiveRound(Accepted)
     IN  /\ LoadPlan(r)
         /\ proc' = IF BarrierMissing(r) THEN "barrierBracket" ELSE "dispatch"

SnapshotCheckpoint ==
  Step("snapCheckpoint", "snapStandings")
    /\ PutCheckpoint("groups", GroupStage, position, count)
SnapshotStandings ==
  Step("snapStandings", "dispatch") /\ PutStandings("provisional", count)

GamesBefore(r) == {e \in KnockoutGames(known) : e.round < r}

RecoverBracket ==
  Step("barrierBracket", "barrierCheckpoint")
    /\ PutBracket("running", active, GamesBefore(active))
RecoverCheckpoint ==
  Return("barrierCheckpoint") /\ PutCheckpoint("knockout", active, position, count)

------------------------------------------------------------------------------
(* Workers.  A worker runs from one await to the next: it asks for a game, *)
(* queues the response, and when that is accepted goes on with the series  *)
(* or takes the first series nobody has.                                   *)

Assigning == ~stopAssigning /\ ~stopping

Asking(s) == Requesting(s, NextGame(known, active, s))

(* The first series in order, one per worker, as many as there are.        *)
InitialSeries ==
  {f \in [1..Min({Concurrency, Cardinality(todo)}) -> todo] :
     /\ \A i, j \in DOMAIN f : i < j => f[i] < f[j]
     /\ \A i \in DOMAIN f, s \in todo : s < f[i] => \E j \in DOMAIN f : f[j] = s}

Dispatch ==
  /\ proc = "dispatch" /\ proc' = "working"
  /\ IF Assigning
     THEN \E first \in InitialSeries :
            /\ worker' = [w \in Workers |->
                 IF w \in DOMAIN first THEN Asking(first[w]) ELSE Idle]
            /\ todo' = todo \ {first[w] : w \in DOMAIN first}
     ELSE UNCHANGED <<worker, todo>>
  /\ UNCHANGED <<disk, stopping, active, known, count, position, lane, laneStep,
                 stopAssigning, requestFailed, storageFailed>>

RequestSucceeds(w) ==
  /\ proc = "working" /\ worker[w].pc = "request"
  /\ worker' = [worker EXCEPT ![w].pc = "queued"]
  /\ lane' = Append(lane, w)
  /\ UNCHANGED <<disk, proc, stopping, active, known, count, position, todo,
                 laneStep, stopAssigning, requestFailed, storageFailed>>

(* recordRequestFailure keeps the first failure, and none after a storage  *)
(* failure.                                                                *)
RecordRequestFailure ==
  /\ requestFailed' = (requestFailed \/ ~storageFailed)
  /\ stopAssigning' = TRUE

(* The client's four attempts are used up.                                 *)
RequestFails(w) ==
  /\ proc = "working" /\ worker[w].pc = "request"
  /\ RecordRequestFailure
  /\ worker' = [worker EXCEPT ![w] = Idle]
  /\ UNCHANGED <<disk, proc, stopping, active, known, count, position, todo,
                 lane, laneStep, storageFailed>>

------------------------------------------------------------------------------
(* The acceptance lane: one response at a time, in order of arrival.       *)

LaneAt(step) == proc = "working" /\ lane # << >> /\ laneStep = step

(* The head's worker leaves the lane for good.                             *)
DropHead ==
  /\ worker' = [worker EXCEPT ![Head(lane)] = Idle]
  /\ lane' = Tail(lane)
  /\ laneStep' = "append"
  /\ UNCHANGED <<proc, stopping, active, known, count, position, todo>>

(* Deliberate bug: a worker forgets to mark the series it goes on with.    *)
FinishAcceptanceKeepingTodo ==
  LET w == Head(lane)
      s == worker[w].series
      open == IF SeriesDone(known, active, s) THEN todo ELSE {s}
  IN  /\ lane' = Tail(lane) /\ laneStep' = "append"
      /\ \/ \E next \in open :
              /\ Assigning
              /\ worker' = [worker EXCEPT ![w] = Asking(next)]
         \/ /\ ~Assigning \/ open = {}
            /\ worker' = [worker EXCEPT ![w] = Idle]
      /\ UNCHANGED <<proc, stopping, active, known, count, position, todo,
                     stopAssigning, requestFailed, storageFailed>>

(* Deliberate bug: a worker ends after its first series.                   *)
FinishAcceptanceWithoutNext ==
  LET w == Head(lane)
      s == worker[w].series
  IN  /\ lane' = Tail(lane) /\ laneStep' = "append"
      /\ worker' = [worker EXCEPT ![w] =
           IF Assigning /\ ~SeriesDone(known, active, s) THEN Asking(s) ELSE Idle]
      /\ UNCHANGED <<proc, stopping, active, known, count, position, todo,
                     stopAssigning, requestFailed, storageFailed>>

(* The head's response is accepted, and its worker goes on.                *)
FinishAcceptance ==
  LET w == Head(lane)
      s == worker[w].series
  IN  /\ lane' = Tail(lane)
      /\ laneStep' = "append"
      /\ \/ /\ Assigning /\ ~SeriesDone(known, active, s)
            /\ worker' = [worker EXCEPT ![w] = Asking(s)]
            /\ UNCHANGED todo
         \/ /\ Assigning /\ SeriesDone(known, active, s)
            /\ \E next \in todo :
                 /\ \A t \in todo : next <= t
                 /\ worker' = [worker EXCEPT ![w] = Asking(next)]
                 /\ todo' = todo \ {next}
         \/ /\ ~Assigning \/ (SeriesDone(known, active, s) /\ todo = {})
            /\ worker' = [worker EXCEPT ![w] = Idle]
            /\ UNCHANGED todo
      /\ UNCHANGED <<proc, stopping, active, known, count, position,
                     stopAssigning, requestFailed, storageFailed>>

HeadResult(outcome) ==
  LET w == Head(lane)
  IN  [round |-> active, series |-> worker[w].series, game |-> worker[w].game,
       outcome |-> outcome]

AppendResult ==
  /\ LaneAt("append") /\ ~storageFailed
  /\ \E outcome \in OutcomesIn(active) :
       LET e == HeadResult(outcome)
       IN  /\ AppendRecord(e)
           /\ known' = known \cup {e}
           /\ count' = count + 1
           /\ position' = IF active = GroupStage THEN PlayedPrefix(known \cup {e})
                          ELSE position + 1
  /\ laneStep' = "checkpoint"
  /\ UNCHANGED <<proc, stopping, active, todo, worker, lane, stopAssigning,
                 requestFailed, storageFailed>>

SnapshotDue == active = GroupStage /\ AtCadence(count)

WriteCheckpoint ==
  /\ LaneAt("checkpoint")
  /\ PutCheckpoint(IF active = GroupStage THEN "groups" ELSE "knockout",
                   active, position, count)
  /\ \/ /\ SnapshotDue
        /\ laneStep' = "standings"
        /\ UNCHANGED <<proc, stopping, active, known, count, position, todo,
                       worker, lane, stopAssigning, requestFailed, storageFailed>>
     \/ ~SnapshotDue /\ FinishAcceptance

WriteProvisionalStandings ==
  /\ LaneAt("standings")
  /\ PutStandings("provisional", count)
  /\ FinishAcceptance

(* The response does not validate against its request, or cannot advance   *)
(* its series: a request failure, and nothing is appended.                 *)
RejectResponse ==
  /\ LaneAt("append") /\ ~storageFailed
  /\ RecordRequestFailure
  /\ DropHead
  /\ UNCHANGED <<disk, storageFailed>>

(* Once storage has failed the lane appends nothing more.                  *)
RefuseAfterStorageFailure ==
  /\ LaneAt("append") /\ storageFailed
  /\ DropHead
  /\ UNCHANGED <<disk, stopAssigning, requestFailed, storageFailed>>

RecordStorageFailure ==
  /\ storageFailed' = TRUE
  /\ stopAssigning' = TRUE
  /\ UNCHANGED requestFailed
  /\ DropHead

(* Deliberate bug: a failed append is taken for a request failure.         *)
AppendFailsAsRequest ==
  /\ LaneAt("append") /\ ~storageFailed
  /\ RecordRequestFailure /\ DropHead /\ UNCHANGED storageFailed
  /\ \/ UNCHANGED disk
     \/ TearRecord
     \/ \E outcome \in OutcomesIn(active) : AppendRecord(HeadResult(outcome))

(* Deliberate bug: an append error is swallowed and the result counted.    *)
AppendErrorSwallowed ==
  /\ LaneAt("append") /\ ~storageFailed
  /\ \E outcome \in OutcomesIn(active) : known' = known \cup {HeadResult(outcome)}
  /\ count' = count + 1 /\ laneStep' = "checkpoint"
  /\ UNCHANGED <<disk, proc, stopping, active, position, todo, worker, lane,
                 stopAssigning, requestFailed, storageFailed>>

(* A failed append may have left nothing, part of the line, or all of it.  *)
AppendFails ==
  /\ LaneAt("append") /\ ~storageFailed
  /\ RecordStorageFailure
  /\ \/ UNCHANGED disk
     \/ TearRecord
     \/ \E outcome \in OutcomesIn(active) : AppendRecord(HeadResult(outcome))

(* An atomic replacement that fails leaves the old file.                   *)
ReplaceFails ==
  /\ LaneAt("checkpoint") \/ LaneAt("standings")
  /\ RecordStorageFailure
  /\ UNCHANGED disk

------------------------------------------------------------------------------
(* After the workers and the lane are done.                                *)

(* Deliberate bug: a stop waits until every series was assigned.           *)
SettledWhenAssigned ==
  /\ proc = "working" /\ lane = << >> /\ todo = {}
  /\ \A w \in Workers : worker[w].pc = "idle"

Settled ==
  proc = "working" /\ lane = << >> /\ \A w \in Workers : worker[w].pc = "idle"

SettleStorageFailure == Settled /\ storageFailed /\ Exit /\ UNCHANGED disk

SettleRequestFailure ==
  Settled /\ ~storageFailed /\ requestFailed
    /\ Step("working", "failAppend") /\ UNCHANGED disk

SettleInterrupted ==
  Settled /\ ~storageFailed /\ ~requestFailed /\ stopping /\ Exit /\ UNCHANGED disk

(* Deliberate bug: a stopped stage is taken for a finished one.            *)
SettleCompleteWhenStopped ==
  /\ Settled /\ ~storageFailed /\ ~requestFailed
  /\ Step("working", CASE active = GroupStage     -> "finalStandings"
                       [] active \in 1..(Rounds - 1) -> "nextBracket"
                       [] active = Rounds         -> "doneBracket")
  /\ UNCHANGED disk

SettleComplete ==
  /\ Settled /\ ~storageFailed /\ ~requestFailed /\ ~stopping
  /\ StageComplete(known, active)
  /\ Step("working", CASE active = GroupStage     -> "finalStandings"
                       [] active \in 1..(Rounds - 1) -> "nextBracket"
                       [] active = Rounds         -> "doneBracket")
  /\ UNCHANGED disk

AppendFailure == Step("failAppend", "failMetadata") /\ PutFailure("lines")
FailRun ==
  proc = "failMetadata" /\ Exit /\ PutMetadata("failed")

WriteFinalStandings ==
  Step("finalStandings", "finalBracket") /\ PutStandings("final", count)
WriteInitialBracket ==
  Step("finalBracket", "finalCheckpoint") /\ PutBracket("running", 1, {})
EnterKnockout == Return("finalCheckpoint") /\ PutCheckpoint("knockout", 1, 0, count)

WriteNextBracket ==
  Step("nextBracket", "nextCheckpoint")
    /\ PutBracket("running", active + 1, GamesBefore(active + 1))
EnterNextRound ==
  Return("nextCheckpoint") /\ PutCheckpoint("knockout", active + 1, 0, count)

(* Deliberate bug: the completed bracket lacks the games of the final.     *)
WriteCompletedBracketWithoutFinal ==
  Step("doneBracket", "doneCheckpoint")
    /\ PutBracket("completed", active, GamesBefore(active))
WriteCompletedBracket ==
  Step("doneBracket", "doneCheckpoint")
    /\ PutBracket("completed", active, GamesBefore(active + 1))
WriteCompleteCheckpoint ==
  Step("doneCheckpoint", "doneMetadata")
    /\ PutCheckpoint("complete", active, position, count)
CompleteRun == Return("doneMetadata") /\ PutMetadata("completed")

------------------------------------------------------------------------------
(* The environment.                                                        *)

Sigterm ==
  /\ proc # "down" /\ ~stopping
  /\ stopping' = TRUE
  /\ UNCHANGED <<disk, memory, proc>>

(* The process dies, or a write outside the lane fails and ends it.  A     *)
(* JSON file is then the old one or the new one (the crash before or after *)
(* the step that writes it); a line being appended may be torn.            *)
Crash ==
  /\ proc # "down"
  /\ Exit
  /\ \/ UNCHANGED disk
     \/ LaneAt("append") /\ ~storageFailed /\ TearRecord
     \/ proc = "failAppend" /\ PutFailure("torn")

Plan == \/ StopInLoop \/ BeginPlan \/ InitializeMetadata
        \/ InitializeCheckpoint \/ ReturnTerminal \/ RefuseState \/ CreateRoster
        \/ PlanGroups \/ PlanKnockout \/ SnapshotCheckpoint \/ SnapshotStandings
        \/ RecoverBracket \/ RecoverCheckpoint

Work == \/ Dispatch
        \/ \E w \in Workers : RequestSucceeds(w)
        \/ AppendResult \/ WriteCheckpoint \/ WriteProvisionalStandings
        \/ RefuseAfterStorageFailure

Finish == \/ SettleStorageFailure \/ SettleRequestFailure \/ SettleInterrupted
          \/ SettleComplete \/ AppendFailure \/ FailRun
          \/ WriteFinalStandings \/ WriteInitialBracket \/ EnterKnockout
          \/ WriteNextBracket \/ EnterNextRound
          \/ WriteCompletedBracket \/ WriteCompleteCheckpoint \/ CompleteRun

BattleFault == RejectResponse \/ \E w \in Workers : RequestFails(w)
Fault == AppendFails \/ ReplaceFails \/ Sigterm \/ Crash

Next == Start \/ Plan \/ Work \/ Finish \/ BattleFault \/ Fault

Spec == Init /\ [][Next]_vars
==============================================================================
