# Verification of the Metronome tournament

TLA+ models of the tournament runner and the services around it, checked with
TLC on small instances and, where it says so, proved with TLAPS for every value
of the constants. All paths are relative to the repository; file names without
a directory are modules of this one.

## 1. The system

A *run* is one tournament between Pokémon that only know Metronome: a group
stage whose schedule is fixed by a seed, then knockout rounds (r16 or r64 down
to the final r2) of series decided by two wins or seven games. Every battle is
computed by a stateless simulator service; everything else is bookkeeping that
must survive crashes.

| Part | Code | State it keeps | Operations | Talks to |
| --- | --- | --- | --- | --- |
| Runner | `simulator/src/runner/`, `runner-cli.js` | executor locals: accepted results, counters, pending series, failure flags | plan, execute group stage, execute knockout round, stop on SIGTERM | run directory (files), simulator (HTTP) |
| Run directory | `simulator/src/state/` | seven files: metadata, roster, results log, checkpoint, standings, bracket, failure log | atomic replace, append line, recover | runner writes; planner, loader, status server read |
| Rules | `simulator/src/tournament/` | none (pure) | schedule, standings, rounds, series evaluation | runner, recovery, loader |
| Simulator client | `simulator-client.js` | attempt number, timer | one battle, up to four attempts | simulator over HTTP |
| Simulator server and admission | `server.js`, `battle-admission.js` | slots in use, queue, abort signals | admit, queue, refuse, begin, finish, cancel | client, battle engine |
| Recovery plans | `state/group-recovery.js`, `state/knockout-recovery.js`, the executors' own validation | none (pure) | build a plan from a log, validate it again | run directory, executors |
| Archive loader, publisher, report | `artifacts/`, `publish-cli.js`, `report/` | staging directory | validate, fingerprint, copy, verify, rename | run directory, archive |
| Control API | `control-api/src/` | slot and run records in ConfigMaps, Jobs | create, pause, resume, retry, release, reconcile | Kubernetes API, runner status |
| Explorer API | `explorer-api/src/` | validated run, loads in line, run summaries, replay cache, simulations in flight | list, read, replay | archive, state directory, simulator |
| Explorer web | `explorer-web/src/` | page state | browse, control | both APIs |

### What is hard

* A run may be killed between any two file writes and is restarted by its Job.
  `results.jsonl` is the commit point; every other file is derived from it, at
  a different moment, and may be stale.
* Several workers keep requests out at once. Responses arrive in any order and
  pass a lane that accepts one at a time.
* A stop, a request failure and a storage failure may coincide; only a request
  failure may mark the run failed, for good.
* The simulator bounds its work. A client that times out leaves a battle behind
  that still holds a slot when the retry arrives.
* The control API has no memory of its own: its timer, the operators' calls and
  the Kubernetes controllers act on the same objects, one request at a time.
* Standings and rounds are never stored as truth: runner, recovery and archive
  loader each compute them again and must agree to the last field.
* A plan is built from the log by one piece of code and derived again by another,
  which has only the plan; a disagreement is a run that can never be resumed.
* Publisher and explorer read several files, one after the other, on a disk that
  others write meanwhile; both may be asked for the same run twice at once.

### What makes each part correct

* Runner: each match is accepted once, stages and games in order; the planner
  accepts everything the runner leaves behind; a completed run is one the
  loader accepts; a terminal run never changes; without faults it terminates.
* Run directory: no file claims more than the log backs; the barrier between
  two rounds is durable before the next round's first game.
* Admission: slots and queue stay within bounds, no slot leaks, nobody waits
  beside a free slot, an abandoned battle is not begun, arrival order is kept.
* Rules: standings depend on the set of results only; the bracket is one fixed
  tree; a series is won by whoever won its games.
* Control API: one run owns the runner at a time, publication only after the
  runner's Pods are gone, an admitted run always gets on.
* Recovery: a log is accepted exactly if a runner could have written it, and its
  plan is one the executor accepts.
* Publisher: the archive holds the run as it was at one moment, for good; who
  reports success has its own evidence there.
* Explorer: what is served is whole and no older than the request; the replay
  cache stays within its bounds; nobody waits for what is not coming.

## 2. Modules

Arrows read "is extended by".

```
TournamentRules -> RunStore -> TournamentRunner -> RunnerProperties
                           \-> RecoveryPlan
               \-> TournamentRun  (abstract; RunnerProperties instantiates it)
RunnerProperties + RecoveryPlan -> RecoveryProperties
RunnerProperties -> RunnerProofs
RunnerProofs + RecoveryProperties -> RecoveryProofs
BattleAdmission -> BattleService -------> ServiceProperties -> MCService
              \-> AdmissionProperties -/                  \-> ServiceProofs
RunControl -> ControlProperties -> ControlLiveness
                              \-> MCControl
                              \-> ControlProofs
ArchivePublisher -> PublisherProperties -> MCPublication
                                      \-> PublisherProofs
RunExplorer -> ReplayService -> ExplorerProperties -> MCExplorer
                                                 \-> ExplorerProofs
GroupStandings -> StandingsProperties -> MCStandings
                                    \-> StandingsProofs
KnockoutRounds -> KnockoutProperties -> MCKnockout
                              \-> KnockoutProofs
```

`KnockoutProperties` also instantiates `TournamentRules`, so that the two views
of a series (its games with their sides here, a set of results there) are
checked against each other.

An operator marked "Deliberate bug" takes part in no specification. It is a
plausible mistake in the definition that follows it; each property has one that
it is known to catch.

### The runner

* `TournamentRules`: which matches exist and when a series, a stage or the
  tournament is over, as functions of a *set* of accepted results. A result is a
  round (0 is the group stage), a series, a game and an outcome. Who the
  entrants are makes no difference to the runner's control flow.
* `RunStore`: the run directory. One variable per file (`metadata`, `roster`,
  `checkpoint`, `standings`, `bracket`, `results` with `torn`, `failures`),
  one operator per write (`PutCheckpoint` and so on: atomic replacement;
  `AppendRecord`, `TearRecord`: appending a line), the guards of recovery
  (`RecoverableState`) and the loader's verdict (`CanonicalArtifacts`,
  `Publishable`).
* `TournamentRunner`: one process over that directory. `proc` says which of the
  sequential phases it is in (each phase ends in one file write), `known`,
  `count`, `position`, `todo`, `worker`, `lane`, `laneStep` and the three flags
  are the locals of one executor call. A step is what the event loop runs
  between two awaits. The group and the knockout executor have the same shape
  and share their actions; where they differ an operator says how (`Asking`,
  `SnapshotDue`). `Plan` is planTournamentRun and the head of each executor,
  `Work` the workers and `acceptResponse`, `Finish` what follows
  `Promise.all`, `BattleFault` and `Fault` the environment.
* `TournamentRun`: the promise. Two variables: the accepted results and the
  status.
* `RunnerProperties`: the properties; `Promise` is the refinement mapping
  (`Accepted`, the set of records of `results.jsonl`, and the status in
  `run-metadata.json`).
* `RecoveryPlan`: the plans that `reconstructGroupStage` and
  `reconstructKnockoutStage` make of a log, record by record, and the checks by
  which each executor derives the plan again before it starts. Here a log is a
  sequence, maybe one no runner would write. The model of the runner states the
  same twice more, as a function of a set: `RecoverableState` (may it resume)
  and `LoadPlan` (what it starts from).
* `RecoveryProperties` compares the three where the runner plans:
  `GroupExecutorAcceptsPlan` and `KnockoutExecutorAcceptsPlan` for every log the
  runner leaves, `RecoveryIsExact` for every log one slip away from one of these
  (a record more, a record less, two exchanged).

### The simulator and its callers

`BattleAdmission` is `createBattleAdmission`: `active`, `queue`, the jobs whose
`setImmediate` callback is due (`immediates`) and those whose battle executes
(`running`), who has gone away (`cancelled`), and what each call was answered
(`promise`). `Run`, `Callback`, `Finish` and `Cancel` are run, the first and
the last half of start, and the abort listener.

`BattleService` composes it with its callers. `caller` and `attempt` are the
locals of runBattle (or of the replay client, which asks once), `link` is the
connection of each attempt. `Ask`, `GiveUp`, `TakeResult`, `RefuseResult` and
`TakeFailure` are the steps of an attempt; `Admit`, `TurnAway`,
`RefuseRequest`, `FinishAndAnswer` and `Notice` those of the handler, each with
the step of the budget it makes. Closing a connection (`GiveUp`) and noticing it
(`Notice`) are two steps, and anything may happen in between: the request may
still be admitted, begin, or be answered into the void.

### The control API

`RunControl` has the cluster (`slot`, `record`, `job`, `pods`, `archived`), the
one reconciliation in flight (`tick`) and the calls in progress (`call`). A step
handles the answer to one request to the cluster and makes the next one, so that
whatever a step acts on was read earlier; `pc` names the request that is out.
`TickStep` is tick with ensure, drainedJob and release inlined, `CallStep` is
create and action, `Cluster` the Job controller and garbage collection,
`Trouble` failed requests and the replacement of the process.
`ControlLiveness` adds a flag `calm`, because a request that fails can look like
one that ends a tick.

### The archive and the explorer

`ArchivePublisher` is `publish-cli.js`. `source` is the version of each file of
the state directory, `past` every content it has had, `archive` the run's final
directory and `publisher` the processes with what each has read, fingerprinted
and staged. Each file read or copied is a step, so writers of the source come
between any two; a publisher may die at any step, its staging directory left
behind, and be started again. The six required files stand as three kinds
(what identifies the run, what was played, what follows from it); which step
reads which kind is the code's.

`RunExplorer` is `explorer-api/src/store`. `dir` is the version of each file,
`cachedRun` the last run loaded with the signature it was asked for under,
`loads` the entries of `pendingLoads` in the order of `loadTail`, `summary` the
summary cache, `request` the requests in progress. A step is the completion of
one file operation and what the handlers do up to the next: an lstat of a
signature, a read of the load at the head of the line, an error of either.
`ReplayService` adds `replays.js`: `cache` and `cacheBytes` with expiry and
eviction, `pending` with the simulations that requests share.

### The rules

* `GroupStandings`: one group. `results` is the log of its accepted results;
  `Open` are the requests that workers may have out, `Records`, `Scores` and
  `Ranks` are calculateGroupRecords and the two halves of
  calculateGroupStandings.
* `KnockoutRounds`: `round`, its `series`, the `winners` so far, the `games` of
  the series being played, the `champion`. `InitialSeries` and `NextSeries` are
  the two builders, `Wins`, `Complete` and `WinnerSlot` evaluateKnockoutSeries.
  Digests of the seed (sides, tie keys, lottery) are constants.

## 3. Plan

Done, in this order: runner and run directory with their abstract
specification; admission budget; control API; group standings; knockout rounds;
callers and simulator together; recovery plans and their validation; publisher;
run store and replay service of the explorer; proofs about the control API, the
publisher, and the rest of the runner with its refinement; proofs about the
explorer, the standings, the evaluation of a series, the provisional standings,
the order of arrival, and the plans of recovery.

Left, in order of importance:

1. An abstract specification of the control API (one tenancy of the slot after
   another) and the refinement.
2. Two control API processes during a replacement, and its rate-limit window.
3. A model of the file system that loses what was not flushed with a node.
4. Obsolete responses of paginated requests in the web client.

## 4. Runs

States are distinct states of the complete state graph, or, for a violation, those
found before the counterexample.

| Run | Module, configuration | Checks | States | Shows |
| --- | --- | --- | --- | --- |
| `runner_groups` | `RecoveryProperties`, `RunnerGroups.cfg` | `UniqueResults`, `ExecutorFinishesStage`, `MemoryMatchesLog`, `ProvisionalStandingsCurrent`, `TerminalIsFinal`, `GroupExecutorAcceptsPlan` | 248 490 | Four group matches on three workers, provisional standings every two results, then a final of up to three games: every interleaving of answers, failures, signals and crashes keeps log, memory, snapshots and status consistent, and the plan made of any log it leaves is one the group executor accepts. |
| `runner_knockout` | `RecoveryProperties`, `RunnerKnockout.cfg` | `EvidenceRecoverable`, `CheckpointBacked`, `BarrierOrder`, `RequestsAreNew`, `CompletedRunIsCanonical`, `RecoveryIsExact`, `CheckpointNeverRegresses`, `KeepsPromise`, `KnockoutExecutorAcceptsPlan`, `EventuallyTerminal`, `StopEnds` | 66 873 | Two knockout rounds after the group stage, two series played at once: recovery accepts what a crash leaves behind and refuses what is no history of a run, checkpoint and bracket never run ahead of the results, the runner implements TournamentRun, and once faults stop the run ends. |
| `runner_diagnostics` (violation) | `RunnerProperties`, `RunnerDiagnostics.cfg` | `CompletedRunIsPublishable` | 1 174 | A crash while a failure record is appended leaves a torn line in the optional failures.jsonl; the next process completes the run, and the archive loader refuses it for that line. |
| `battle_service` | `MCService`, `Service.cfg` | `SlotsAccountedFor`, `NobodyWaitsBesideFreeSlot`, `NoCallIsLost`, `OneLiveAttempt`, `AnswersAreOwn`, `ArrivalOrder`, `NobodyWaitsForEver` | 84 083 | A runner's call that retries and two replays meet at a replica with one slot and two places in the queue, with timeouts and lost connections that the server notices late: no slot leaks, arrival order holds, an abandoned attempt never competes for long, and nobody waits for ever. |
| `control_slot` | `MCControl`, `Control.cfg` | `SlotCoversJobs`, `PublisherIsAlone`, `CompletedIsArchived`, `DecisionsStand`, `ReleasedOnlyWhenOver` | 593 926 | Two runs (each with two possible settings and up to two publications) compete for the slot, with an operator call racing the reconciliation, restarts and failing requests: only the slot's owner has Jobs or Pods, the publisher never meets the runner, completed means archived, no decision is undone unseen, and the slot is given up only by a run that is over. |
| `control_liveness` | `ControlLiveness`, `ControlLive.cfg` | `RunGetsThrough`, `PauseTakesHold` | 38 636 | Under fair timer, requests and controllers, an admitted run leaves the slot or waits for its operator once trouble stops, and a pause takes hold. |
| `control_create` (violation) | `MCControl`, `ControlCreate.cfg` | `CreateReturnsStatus` | 11 | A create that has reserved the slot joins a tick that read the slot before, and is answered RUN_NOT_FOUND. |
| `control_paused` (violation) | `MCControl`, `ControlPaused.cfg` | `PausedIsDrained` | 9 145 | Pause, resume and pause again while the record still says paused: it reports paused while the runner's Pod is active. |
| `group_standings` | `MCStandings`, `Standings.cfg` | `StandingsFollowRules`, `WinnerNeverDrops` | 32 659 | Every result of a group of four, accepted in every order two requests in flight allow: the standings are those of the rules, whatever the order, and a win never costs a rank. |
| `knockout_rounds` | `MCKnockout`, `Knockout.cfg` | `BracketIsATree`, `EvaluationIsFair` | 173 150 | The four rounds of a sample tournament with every outcome of every game: rounds rebuilt from winners form one fixed tree, and a series is decided by the games its entrants really won. |
| `publication` | `MCPublication`, `Publication.cfg` | `ArchiveIsOneMoment`, `SuccessIsArchived` | 2 091 281 | Two publishers of one run, each of which may die at any step and start again, while up to three files of the state directory are written: what gets into the archive is the run at one moment, and success always means one's own evidence is there. |
| `explorer` | `MCExplorer`, `Explorer.cfg` | `AnswersAreCurrent`, `ReplaysWithinBounds`, `NobodyIsForgotten` | 925 244 | A run list and replay requests on two runs, with loads queued and shared, files written meanwhile, errors at every file operation: no cache answers with what is older than the request, the replay cache keeps its bounds, and nobody waits for what is not coming. |

Runs marked "violation" check a sentence of the documentation or of a test
against what the code does, and TLC refutes it:

* `runner_diagnostics`: the documents call `failures.jsonl` optional and
  non-authoritative. A crash while a failure is recorded leaves a torn line; the
  next process resumes and completes the run, and the archive loader (and with
  it the publisher) refuses the completed run because of that line.
* `control_create`: a repeated or first create joins a reconciliation that read
  the slot before it was reserved; the record does not exist when it returns,
  and the answer is RUN_NOT_FOUND for an admitted run.
* `control_paused`: pause, resume, pause: the record still says `paused` from
  the first time while the runner's Pod is active again.

### Why the bounds are enough

* Group stage: with three workers on four matches, results arrive in every order
  around two cadence boundaries, one of which is the end of the stage; workers
  outnumber the pending matches after a restart. The final of up to three games
  has ties and both ways of being decided.
* Knockout: two rounds are the fewest with a barrier between knockout rounds; two
  semi-finals on two workers interleave. `WinsNeeded = 1` and two games keep the
  possibilities of a series: decided at once, decided late, decided by the cap.
  Restarts, stops and crashes are not bounded in any run.
* Simulator: three callers and four connections at one slot and two places are
  one connection more than there is room for, so that one is refused while others
  are queued, begun or abandoned; two places make order visible; one caller has
  a second attempt while its first still holds the slot. A third and a fourth
  attempt are the same step again, and the proofs hold for any number of
  attempts, slots and places.
* Control: two runs are needed for competition for the slot, a call for the races
  with the tick, two publication attempts for a retry beside its predecessor.
  Races between two calls are left to `ControlProofs`, which holds for any number
  of calls and runs. `MaxAttempts` bounds the number of retries and nothing else.
* Recovery plans: they are compared at every state in which the planner runs, so
  the logs are those of the two runner runs, holes between finished matches
  included; the slips add the logs that must be refused.
* Publication: two publishers are enough for one to find the other's archive,
  before it copies or when it renames; three writes fall before, between and
  after the copies, and can take the source away from what was loaded and on to
  another loadable state. Neither restarts nor crashes are bounded.
* Explorer: two runs, so that the single cached run is replaced; two requests, so
  that a load or a simulation is shared or refused; a cache of two entries and
  two bytes with replays of different sizes, so that either limit evicts; two
  writes, so that a file changes between a signature and its load, and again. One
  run starts without metadata.
* Standings: four participants is the smallest group with ties of two, of three
  and of all, and a nonempty rest that counts for Sonneborn-Berger only.
* Knockout rounds: sample mode as it is, but a cap of three games instead of
  seven: no winner, one win each and none at the cap still occur. Full mode has
  too many states for TLC and is covered by proof.

CHECK_DEADLOCK is off where the system comes to rest: all calls answered, all
matches played, a champion found.

## 5. Fairness

* Runner (`LiveSpec`, the specification of `runner_knockout`): weak fairness of
  everything the event loop can do and of each request's ending, because the
  client gives up after four attempts of bounded time. No process is obliged to
  start again (the Job has a `backoffLimit`), no fault is obliged to happen.
  `EventuallyTerminal` is therefore about what follows when starts and faults
  have stopped.
* Simulator (`ServiceLiveSpec`): `setImmediate` callbacks run; battles end, since
  turns are capped; the server notices a closed connection; the timers of a
  caller (delay and timeout) fire. That the server reads a request or that an
  answer arrives is not assumed: `GiveUp` alone has to bring a call to its end.
* Control (`LiveSpec` of `ControlLiveness`): the timer ticks every three
  seconds, requests are answered or given up after ten, controllers create Pods
  for a Job and remove the Pods of a deleted or suspended one. That a Job ends is
  an assumption of `RunGetsThrough` only (`JobsEnd`): strong fairness, since a
  Job that is suspended and resumed for ever need not end, and Kubernetes bounds
  the failures of one that runs. `PauseTakesHold` does not use it.

No liveness is claimed for publisher and explorer. A publisher is a command that
ends or dies. For the explorer, `NobodyIsForgotten` says in every state that what
a request waits for is under way, which fairness of the file system and of the
simulator's answers would turn into an answer.

## 6. Proofs

Constants are arbitrary within the named ASSUMEs of the modules.

| Theorem | Says |
| --- | --- |
| `RunnerProofs` `TypeCorrect` | the runner's types |
| `RunnerProofs` `FailureIsRecorded`, `OnlyRequestsFail`, `TerminalStays` | the three facts about the status, from `StatusInv` |
| `RunnerProofs` `ResultsAreUnique`, `RequestsStayNew` | no duplicate record, no repeated request, from `RequestInv` |
| `RunnerProofs` `MemoryIsTheLog`, `StageIsFinished` | memory and log of an executor, and that its last check never throws |
| `RunnerProofs` `CheckpointsAreBacked`, `BarriersAreOrdered`, `CheckpointMovesForward` | the checkpoint against log, standings and bracket, and in time |
| `RunnerProofs` `EvidenceIsRecoverable`, `CompletedIsCanonical` | recovery and loader accept what the runner leaves |
| `RunnerProofs` `StandingsAreCurrent` | the provisional standings keep the cadence, from `SnapshotInv` |
| `RunnerProofs` `RunnerImplementsRun` | the runner implements `TournamentRun` |
| `RecoveryProofs` `GroupPlansAreAccepted`, `KnockoutPlansAreAccepted` | each executor accepts the plan made of any log the runner leaves, and starts from what it says |
| `RecoveryProofs` `RecoveryExact` | recovery refuses exactly the logs that are no history of a run, and goes on from all others |
| `ServiceProofs` `AdmissionTypes`, `SlotsNeverLeak`, `FreeSlotMeansEmptyQueue`, `PendingIsPlaced` | the four invariants of the budget, from `SlotInv` |
| `ServiceProofs` `LineKeepsOrder` | calls begin in the order they came |
| `ServiceProofs` `ServiceKeepsBudget` | the composition implements the budget's specification |
| `ServiceProofs` `ServiceTypes`, `OneLiveAttemptHolds`, `AnswersAreOwnHolds` | callers and connections, from `ServiceInv` |
| `ControlProofs` `ControlIsSound` | the inductive invariant `ControlInv` |
| `ControlProofs` `OneTournament`, `PublishesAlone`, `CompletedMeansArchived`, `SlotIsHeld`, `DecisionsAreFinal` | the five safety properties of the control API |
| `PublisherProofs` `PublisherIsSound` | the inductive invariant `PublisherInv` |
| `PublisherProofs` `ArchivedMomentIsOne`, `SuccessMeansArchived`, `ArchiveStays` | what the archive promises |
| `ExplorerProofs` `ExplorerInvariant` | the inductive invariant `ExplorerInv` |
| `ExplorerProofs` `AnswersStayCurrent`, `ReplaysStayWithinBounds`, `NobodyIsEverForgotten` | the three safety properties of the explorer |
| `KnockoutProofs` `KnockoutTypes`, `FixedTree`, `HalvesApart` | the bracket in both modes, from `BracketInv` |
| `KnockoutProofs` `FairEvaluation` | the evaluation of a series, from `SeriesInv` |
| `StandingsProofs` `StandingsAreThoseOfTheRules`, `WinnersKeepTheirRank` | the standings, whatever the order of the results, from `GroupInv` |

* `TypeInv` adds to `TypeOK` that the sets of results are finite (else a count
  is no number) and that the next-round phases only occur below the final.
* `StatusInv` adds to `FailedRunHasDiagnostic` where the process may be when it
  can touch the status: inside an executor the status is `running`, and the
  phases of a failing run are only entered with idle workers, a failed request
  and sound storage.
* `RequestInv` is needed because uniqueness is not inductive. A record is new
  because its game number is one more than the games accepted for its series;
  so the numbers in the log have no gaps (`Numbered`), an outstanding request
  has that number (`RequestsAreNew`), and to keep that when a worker takes its
  next series, series not yet given out are undecided and nobody's (`WorkInv`),
  which the planner establishes from the log (`ReadyInv`). A storage failure is
  the exception that shaped it: memory may then lag behind the log, but nothing
  is assigned any more. The lemmas on the rules (`NextGameIsNew`,
  `OtherSeriesUntouched`) open `RunnerProofs`.
* `Invariants` of `RunnerProofs` is `TypeInv`, `StatusInv`, `RequestInv` and
  `StageInv`. `StageInv` says of the log alone that it is in order (`LogInv`: a
  stage begins when the one before is over), of the checkpoint what backs it
  (`CheckpointInv`), and of an executor at work that its memory is the log
  (`MemoryInv`), that the files its phase presupposes are written (`WrittenInv`)
  and that its workers hold what is missing (`TeamInv`). The last is why
  `StageIsFinished` holds: a series is decided, to be given out, or somebody's.
  There is one lemma per action. A storage failure after a record became durable
  lets memory lag behind the log; every part says so.
* `SnapshotInv` is what a crash between the checkpoint and the snapshot leaves
  intact: while a group match is open, the standings are at most one result
  behind, and not at all where the lane may take a response. A process that
  starts writes what is due before its workers begin, which is why the promise
  survives it. That a multiple of the cadence is shown when the count reaches it
  needs quotient and remainder by a parameter (`Division`, `SmallMultiple`).
* The refinement takes three steps: the rules of the abstract specification are
  those of the runner's (`SameRules`), a durable append of an outstanding request
  is `Accept` of it (`AppendImplementsAccept`), and every other action leaves log
  and status alone or is `Complete` or `Fail` (`StepImplements`).
* The plans of recovery. A log is a sequence in which records may be repeated, the
  rules speak of sets, so everything goes through positions: `FirstTimes` are
  those that count, `Picked` takes the elements at some positions in their order,
  and `InPlace` says of a log that its records have a place in the schedule or
  the bracket and that two of one match are equal. Ranks and positions are
  inverse to each other (`Positions`), so what is picked is known without
  induction (`PickedIs`). In such a log the records picked for a series number as
  many as its games in the set (`SeriesRecordsSay`), and the planner's tests on
  each series' list say what `OpenAt` says of each record against those before it
  (`SeriesOpenIs`): in a prefix of the list are the games before that record.
  From these, the planner's walk through the rounds accepts a log exactly if it is
  in order as a whole (`AcceptedIsRecoverable`, `RecoverableIsAccepted`).
  The executor sees the same records in another order, by round and series
  (`FlattenGathers`); sorting a series by game number restores the list
  (`SortedIs`), since the games are numbered in turn, so that everything it
  derives is what the planner derived. For `RecoveryExact` one answer more keeps
  such a log in order (`AnswerAccepted`), and a slip makes no record that could
  not be one of a run (`SlipsFit`).
* `SlotInv` adds to the four properties that no job is in line twice and that
  whoever is cancelled while queued was answered. Its core is `OneMovesUp`: the
  `while` loop of the finally block moves at most one job, because jobs only
  wait while every slot is taken.
* Arrival order: every step leaves the waiting as they were, takes one out, or
  appends one; each of these goes on from what was (`GoesOn`).
* `ServiceInv` adds to its three properties that an open connection is always
  the current one of a caller that waits (`OpenIsCurrent`): without it a step of
  the server could answer, or a job be pending for, an attempt that nobody can
  abort any more. `StepOfBudget` shows that each step is one of the budget or
  leaves it alone, so the types of the budget come from `SlotInv`.
* `ControlInv` has what the objects of the cluster owe each other (`ClusterInv`:
  only the slot's owner has Jobs or Pods, and which of them by the phase of its
  record) and, for the tick (`TickInv`) and for each call (`CallsStand`), what was
  read and still stands. Little does: the tick's record may have got another
  desired state, and a failed publication may have been tried again, but no
  other phase is changed by anybody else; a Job that the tick found absent is
  still absent, since it alone creates Jobs. A call may rely on even less, which
  is why its replacements carry the version it read. The lemmas say what each
  step does to the cluster, and what of such knowledge survives it.
* `PublisherInv` names the moment: the step between the last fingerprint and the
  first copy. Versions only grow, so a fingerprint is at most what the file was
  then and a copy at least; a copy that equals the fingerprints is the source at
  that moment. A staging directory belongs to one publication, and nothing is
  renamed onto an archive.
* `BracketInv` adds that a round is no larger than the first. The place of an
  entrant divided by the number of places that share a series is its position;
  the case analysis over both modes and all rounds makes every divisor a number.

* `SeriesInv`: the games are those that were asked for, so their sides follow
  from their number, and no entrant has more wins than needed, because nobody
  plays on after the decision. `TournamentRules` counts a set of numbered
  results, the evaluation a sequence of games; `AsEntries` is one-to-one.
* `ExplorerInv` orders four moments: the request comes, each lstat of its
  signature follows, each read of its load follows the signature, and now is
  last. Versions only grow, so each is at most the next (`SeenSince`,
  `SignatureOK`, `LoadOK`), and whatever is kept is no older than the signature
  it is kept under (`SoundEntry`). A request that finds or joins something under
  its own signature therefore gets what is no older than itself. The sums over
  the cache (`TotalOf` is a fold) are reasoned about through the function that
  the fold is defined by: two such functions that start alike and go on alike
  are the same, by a least counterexample.
* `GroupInv` says that no pairing has two results; all else is about the two
  passes over a log of that kind. For each there is a statement of what it has
  after n results (a count or a sum over the first n), shown by a least
  counterexample. A sum over the *set* of results is chosen by CHOOSE in the
  library, so that it does not depend on the order is a lemma of its own
  (`AnyElementFirst`). `WinnerNeverDrops` needs the rules alone: whoever is
  ahead of a winner after its win has at least as many points, and so had more
  before; tie-breaks decide only among those who have as many now.

`KnockoutProofs` says more than the run: TLC sees the sample mode and a cap of
three, the theorems hold for the full mode, any cap and any lottery. The same
goes for `StandingsProofs`: four participants and two requests there, any number
here; and for `ExplorerProofs`, where writes and requests have no bound.

## 7. Only model-checked

* Liveness: `EventuallyTerminal`, `StopEnds`, `NobodyWaitsForEver`,
  `RunGetsThrough`, `PauseTakesHold`. The prover does not handle fairness.

Every safety invariant and action property of the passing runs is proved.

## 8. Not modelled

* One control API process, as the documentation prescribes (one replica). Two at
  once could interleave ticks.
* A request to the cluster that was given up after its timeout and takes effect
  later. Replacements carry a version, so a late one usually conflicts.
* Versions of cluster objects are compared by value: an object changed and
  changed back counts as unchanged, which allows more behaviours than the code.
* One simulator replica. Replicas share nothing; which one an attempt reaches
  does not matter to the caller, and the loss of one is a lost connection.
* Length of delays and timeouts: any timer that runs may fire at any time.
  `Retry-After` is not modelled; the client does not read it.
* The file system is the process's view: completed writes survive. Loss of a
  node before directories are flushed is not modelled.
* Contents of battles, digests, timestamps, log lines, progress events, the
  diagnostics samples, and refusals of malformed input between parts that only
  ever exchange validated values.
* In the explorer, filters, cursors and pages (pure functions of a validated run)
  and the readiness probe. A file replaced by one with the same signature (inode,
  size and times) counts as the same file.
* Battle engine, catalog, roster and seeding: pure computations whose results are
  arbitrary constants here.
* Report generator and runner status server: they read and format, and change
  nothing another part acts on.
* Authentication, routing and the rate-limit window of the control API: only who
  gets to make a call depends on them, and every call may be made in the model.
* Explorer web: the browser's state reaches the services only as requests.
* Load test, deployment manifests, scripts and recorded evidence: no program
  state.
