------------------------------ MODULE RunControl ------------------------------
(***************************************************************************)
(* The control API (RunManager): admission of one tournament run at a time *)
(* through the ConfigMap metronome-runner-slot, the record of each run,    *)
(* the reconciliation that drives its runner Job and its publisher Jobs,   *)
(* and the operator calls that race it.                                    *)
(*                                                                         *)
(* One API process.  It may die and be replaced at any moment; everything  *)
(* it knows is in the cluster.  A step handles the answer of one request   *)
(* to the cluster and makes the next one, so what a step acts on was read  *)
(* by an earlier step.  A replacement, a patch or a delete carries the     *)
(* version it was read at; here it succeeds if the object still looks as   *)
(* it was read, which allows at least as much.                             *)
(***************************************************************************)
EXTENDS Naturals, FiniteSets

CONSTANTS
  Runs,          \* run IDs
  Settings,      \* the rest of an input: mode, seed, concurrency
  Calls,         \* HTTP calls that may be in progress at once
  MaxAttempts,   \* bound: publications of one run
  NoRun          \* the slot does not exist

ASSUME ControlAssumption ==
  /\ MaxAttempts \in Nat \ {0}
  /\ NoRun \notin [run : Runs, settings : Settings]

VARIABLES
  slot,       \* ConfigMap metronome-runner-slot: the input that holds it
  record,     \* ConfigMaps mt-run-<id>
  job,        \* Jobs, by name
  pods,       \* the Pods of each Job name: "none", "active", or "done"
  archived,   \* runs a publisher has put into the archive
  tick,       \* the reconciliation in flight
  call        \* the HTTP calls in progress

cluster == <<slot, record, job, pods, archived>>
vars == <<slot, record, job, pods, archived, tick, call>>

Inputs == [run : Runs, settings : Settings]

Unfinished == {"pending", "running", "pausing", "paused", "resuming"}

RecordType == [phase    : Unfinished \cup {"publishing", "publication-failed",
                                           "completed", "failed"},
               desired  : {"running", "paused", "released"},
               attempt  : 1..MaxAttempts,
               settings : Settings]
NoRecord == [phase |-> "absent"]

(* jobName: the runner Job of a run, and its publisher Job of an attempt.  *)
Runner(r) == <<r, 0>>
Publisher(r, attempt) == <<r, attempt>>
Names == Runs \X (0..MaxAttempts)

JobType == [suspend : BOOLEAN, state : {"open", "Complete", "Failed"},
            deleting : BOOLEAN]
NoJob == [state |-> "absent"]
buildJob(suspend) == [suspend |-> suspend, state |-> "open", deleting |-> FALSE]

IdleTick == [pc |-> "idle"]
IdleCall == [pc |-> "idle"]

ControlTypeOK ==
  /\ slot \in Inputs \cup {NoRun}
  /\ record \in [Runs -> RecordType \cup {NoRecord}]
  /\ job \in [Names -> JobType \cup {NoJob}]
  /\ pods \in [Names -> {"none", "active", "done"}]
  /\ archived \subseteq Runs
  /\ tick.pc \in {"idle", "record", "runner", "decide", "drain", "release",
                  "publish", "published", "suspend", "pods", "phase"}
  /\ \A q \in Calls :
       call[q].pc \in {"idle", "lookup", "owner", "slot", "act", "drain", "retry",
                       "join", "status"}

Init ==
  /\ slot = NoRun
  /\ record = [r \in Runs |-> NoRecord]
  /\ job = [n \in Names |-> NoJob]
  /\ pods = [n \in Names |-> "none"]
  /\ archived = {}
  /\ tick = IdleTick
  /\ call = [q \in Calls |-> IdleCall]

------------------------------------------------------------------------------
(* reconcile: one tick at a time; who asks for another joins it.           *)

TickAt(pc) == tick.pc = pc

(* The tick's promise settles, and so does that of everyone who joined.    *)
EndTick(next) ==
  /\ tick' = IdleTick
  /\ call' = [q \in Calls |-> IF call[q].pc = "join" THEN next[q] ELSE call[q]]

Resolved == [q \in Calls |-> [call[q] EXCEPT !.pc = "status"]]
Rejected == [q \in Calls |-> IdleCall]

TickDone == EndTick(Resolved)

(* The first request of a tick reads the slot.                             *)
NewTick == [pc |-> "record", slot |-> slot]

Timer ==
  /\ TickAt("idle") /\ tick' = NewTick
  /\ UNCHANGED <<cluster, call>>

run == tick.slot.run

Continue(pc) == tick' = [tick EXCEPT !.pc = pc] /\ UNCHANGED call

TickWithoutSlot ==
  /\ TickAt("record") /\ tick.slot = NoRun
  /\ TickDone /\ UNCHANGED cluster

NewRecord(settings) == [phase |-> "pending", desired |-> "running", attempt |-> 1,
                        settings |-> settings]

(* ensure: what exists is returned, what does not is created.              *)
Ensured(object, none, new) == IF object = none THEN new ELSE object

EnsureRecord ==
  /\ TickAt("record") /\ tick.slot # NoRun
  /\ LET now == Ensured(record[run], NoRecord, NewRecord(tick.slot.settings))
     IN  /\ record' = [record EXCEPT ![run] = now]
         /\ tick' = [pc |-> "runner", slot |-> tick.slot, seen |-> now]
  /\ UNCHANGED <<slot, job, pods, archived, call>>

Read(pc, name) ==
  /\ tick' = [pc |-> pc, slot |-> tick.slot, seen |-> tick.seen, name |-> name,
              job |-> job[name]]
  /\ UNCHANGED <<cluster, call>>

ReadRunner == TickAt("runner") /\ Read("decide", Runner(run))

(* set: the record is replaced, if nobody changed it since it was read.    *)
SetRecord(changed) ==
  /\ record[run] = tick.seen
  /\ record' = [record EXCEPT ![run] = changed]
  /\ UNCHANGED <<slot, job, pods, archived>>

Phase(phase) == [tick.seen EXCEPT !.phase = phase]

Deciding == TickAt("decide") /\ tick.seen.phase # "completed"

(* Deliberate bug: a failed run waits for the operator in any case.        *)
ReleasedUnlessFailed == tick.seen.desired = "released" /\ tick.seen.phase # "failed"

Released == tick.seen.desired = "released"

ReadLastPublisher ==
  /\ TickAt("decide") /\ tick.seen.phase = "completed"
  /\ Read("drain", Publisher(run, tick.seen.attempt))

DrainReleased ==
  Deciding /\ Released /\ Continue("drain") /\ UNCHANGED cluster

AwaitOperator ==
  /\ Deciding /\ ~Released
  /\ tick.seen.phase \in {"failed", "publication-failed"}
  /\ TickDone /\ UNCHANGED cluster

Working == Deciding /\ ~Released /\ tick.seen.phase \in Unfinished \cup {"publishing"}

RunnerComplete ==
  /\ Working /\ tick.job.state = "Complete"
  /\ SetRecord(Phase("publishing"))
  /\ tick' = [tick EXCEPT !.pc = "drain", !.seen = Phase("publishing")]
  /\ UNCHANGED call

RunnerFailed ==
  /\ Working /\ tick.job.state = "Failed"
  /\ SetRecord(Phase("failed")) /\ TickDone

DrainRunner ==
  /\ Working /\ tick.job.state \in {"absent", "open"}
  /\ tick.seen.phase = "publishing"
  /\ Continue("drain") /\ UNCHANGED cluster

EnsureRunner ==
  /\ Working /\ tick.job.state \in {"absent", "open"}
  /\ tick.seen.phase \in Unfinished
  /\ LET now == Ensured(job[Runner(run)], NoJob, buildJob(TRUE))
     IN  /\ job' = [job EXCEPT ![Runner(run)] = now]
         /\ tick' = [tick EXCEPT !.pc = "suspend", !.job = now]
  /\ UNCHANGED <<slot, record, pods, archived, call>>

(* A delete names the version that was read; nothing to delete is fine.    *)
Deleted(name, seen) ==
  /\ job[name] \in {seen, NoJob}
  /\ job' = [job EXCEPT ![name] =
               IF @ = NoJob THEN NoJob ELSE [@ EXCEPT !.deleting = TRUE]]
  /\ UNCHANGED <<slot, record, pods, archived>>

(* drainedJob: a Job that exists is deleted, and the tick is over; one     *)
(* that does not may still have Pods.                                      *)
Drain ==
  /\ TickAt("drain") /\ tick.job.state # "absent" /\ ~tick.job.deleting
  /\ Deleted(tick.name, tick.job)
  /\ TickDone

DrainPending ==
  /\ TickAt("drain")
  /\ IF tick.job.state = "absent" THEN pods[tick.name] # "none" ELSE tick.job.deleting
  /\ TickDone /\ UNCHANGED cluster

AfterDrain ==
  IF tick.seen.phase = "publishing"
  THEN [pc |-> "publish", slot |-> tick.slot, seen |-> tick.seen]
  ELSE [pc |-> "release", slot |-> tick.slot]

(* Deliberate bug: the Pods of a removed Job are not waited for.           *)
DrainedWithoutPods ==
  /\ TickAt("drain") /\ tick.job.state = "absent"
  /\ tick' = AfterDrain /\ UNCHANGED <<cluster, call>>

Drained ==
  /\ TickAt("drain") /\ tick.job.state = "absent" /\ pods[tick.name] = "none"
  /\ tick' = AfterDrain /\ UNCHANGED <<cluster, call>>

Release ==
  /\ TickAt("release") /\ slot \in {tick.slot, NoRun}
  /\ slot' = NoRun
  /\ TickDone /\ UNCHANGED <<record, job, pods, archived>>

EnsurePublisher ==
  /\ TickAt("publish")
  /\ LET name == Publisher(run, tick.seen.attempt)
         now  == Ensured(job[name], NoJob, buildJob(FALSE))
     IN  /\ job' = [job EXCEPT ![name] = now]
         /\ tick' = [pc |-> "published", slot |-> tick.slot, seen |-> tick.seen, job |-> now]
  /\ UNCHANGED <<slot, record, pods, archived, call>>

(* Deliberate bug: a run counts as completed whatever its publisher did.   *)
PublisherEndedAnyhow ==
  /\ TickAt("published") /\ tick.job.state \in {"Complete", "Failed"}
  /\ SetRecord(Phase("completed"))
  /\ TickDone

PublisherEnded ==
  /\ TickAt("published") /\ tick.job.state \in {"Complete", "Failed"}
  /\ SetRecord(Phase(IF tick.job.state = "Complete" THEN "completed"
                     ELSE "publication-failed"))
  /\ TickDone

PublisherPending ==
  /\ TickAt("published") /\ tick.job.state = "open"
  /\ TickDone /\ UNCHANGED cluster

(* Deliberate bug: only a run seen running is suspended.                   *)
WantSuspendedIfRunning == tick.seen.desired = "paused" /\ tick.seen.phase = "running"

WantSuspended == tick.seen.desired = "paused"

GoToPods ==
  /\ tick' = [pc |-> "pods", slot |-> tick.slot, seen |-> tick.seen]
  /\ UNCHANGED call

Patch ==
  /\ TickAt("suspend") /\ tick.job.suspend # WantSuspended
  /\ job[tick.name] = tick.job
  /\ job' = [job EXCEPT ![tick.name].suspend = WantSuspended]
  /\ GoToPods /\ UNCHANGED <<slot, record, pods, archived>>

PatchNothing ==
  /\ TickAt("suspend") /\ tick.job.suspend = WantSuspended
  /\ GoToPods /\ UNCHANGED cluster

ReadPods ==
  /\ TickAt("pods")
  /\ tick' = [pc |-> "phase", slot |-> tick.slot, seen |-> tick.seen,
              active |-> pods[Runner(run)] = "active"]
  /\ UNCHANGED <<cluster, call>>

(* stopping: the runner's status page says it drains its requests.         *)
PhaseSeen(stopping) ==
  CASE WantSuspended              -> IF tick.active THEN "pausing" ELSE "paused"
    [] ~WantSuspended /\ stopping -> "resuming"
    [] OTHER                      -> IF tick.active THEN "running" ELSE "pending"

SetPhase ==
  /\ TickAt("phase")
  /\ \E stopping \in BOOLEAN :
       IF tick.seen.phase = PhaseSeen(stopping) THEN UNCHANGED cluster
       ELSE SetRecord(Phase(PhaseSeen(stopping)))
  /\ TickDone

(* The object was changed since it was read, and the cluster refuses the   *)
(* write (KUBE_CONFLICT).  A new count of results writes the record too.   *)
(* The slot is never among them: only a tick releases it, one at a time.   *)
TickConflict ==
  /\ \/ /\ \/ Working /\ tick.job.state \in {"Complete", "Failed"}
           \/ TickAt("published") /\ tick.job.state \in {"Complete", "Failed"}
           \/ TickAt("phase")
        /\ record[run] # tick.seen
     \/ /\ TickAt("drain") /\ tick.job.state # "absent" /\ ~tick.job.deleting
        /\ job[tick.name] \notin {tick.job, NoJob}
     \/ /\ TickAt("suspend") /\ tick.job.suspend # WantSuspended
        /\ job[tick.name] # tick.job
  /\ EndTick(Rejected) /\ UNCHANGED cluster

(* A request fails or times out; it may have taken effect (the step that   *)
(* makes it, followed by this one).                                        *)
TickFails ==
  ~TickAt("idle") /\ EndTick(Rejected) /\ UNCHANGED cluster

TickStep ==
  \/ TickWithoutSlot \/ EnsureRecord \/ ReadRunner \/ ReadLastPublisher
  \/ DrainReleased \/ AwaitOperator \/ RunnerComplete \/ RunnerFailed
  \/ DrainRunner \/ EnsureRunner \/ Drain \/ DrainPending \/ Drained
  \/ Release \/ EnsurePublisher \/ PublisherEnded \/ PublisherPending
  \/ Patch \/ PatchNothing \/ ReadPods \/ SetPhase \/ TickConflict

------------------------------------------------------------------------------
(* HTTP calls.                                                             *)

CallAt(q, pc) == call[q].pc = pc

Answer(q) == call' = [call EXCEPT ![q] = IdleCall] /\ UNCHANGED <<cluster, tick>>

(* await this.reconcile(): joins the tick in flight or starts one.         *)
Join(q) ==
  /\ call' = [call EXCEPT ![q] = [pc |-> "join", kind |-> @.kind, run |-> @.run]]
  /\ tick' = IF TickAt("idle") THEN [pc |-> "record", slot |-> slot'] ELSE tick

(* create                                                                  *)
CallCreate(q) ==
  /\ CallAt(q, "idle")
  /\ \E input \in Inputs :
       call' = [call EXCEPT ![q] = [pc |-> "lookup", kind |-> "create",
                                    run |-> input.run, settings |-> input.settings,
                                    seen |-> record[input.run]]]
  /\ UNCHANGED <<cluster, tick>>

InputOf(q) == [run |-> call[q].run, settings |-> call[q].settings]

CreateOfKnownRun(q) ==
  /\ CallAt(q, "lookup") /\ call[q].seen # NoRecord
  /\ call' = [call EXCEPT ![q] =
       IF call[q].seen.settings = call[q].settings
       THEN [pc |-> "status", kind |-> "create", run |-> call[q].run]
       ELSE IdleCall]
  /\ UNCHANGED <<cluster, tick>>

(* Deliberate bug: the slot is written whether or not it exists.           *)
ReserveAlways(q) ==
  /\ CallAt(q, "lookup") /\ call[q].seen = NoRecord
  /\ slot' = InputOf(q)
  /\ UNCHANGED <<record, job, pods, archived>>
  /\ Join(q)

Reserve(q) ==
  /\ CallAt(q, "lookup") /\ call[q].seen = NoRecord /\ slot = NoRun
  /\ slot' = InputOf(q)
  /\ UNCHANGED <<record, job, pods, archived>>
  /\ Join(q)

SlotTaken(q) ==
  /\ CallAt(q, "lookup") /\ call[q].seen = NoRecord /\ slot # NoRun
  /\ call' = [call EXCEPT ![q].pc = "owner"]
  /\ UNCHANGED <<cluster, tick>>

CreateAgain(q) ==
  CallAt(q, "owner") /\ slot = InputOf(q) /\ UNCHANGED cluster /\ Join(q)

RunnerBusy(q) == CallAt(q, "owner") /\ slot # InputOf(q) /\ Answer(q)

(* action: pause, resume, retry-publication, release-failed.  A run that   *)
(* does not hold the slot is refused (RUN_NOT_ACTIVE) at once.             *)
CallAction(q) ==
  /\ CallAt(q, "idle") /\ slot # NoRun
  /\ \E kind \in {"pause", "resume", "retry-publication", "release-failed"} :
       call' = [call EXCEPT ![q] = [pc |-> "slot", kind |-> kind, run |-> slot.run]]
  /\ UNCHANGED <<cluster, tick>>

AllowedIn(kind) ==
  CASE kind \in {"pause", "resume"}  -> Unfinished
    [] kind = "retry-publication"    -> {"publication-failed"}
    [] kind = "release-failed"       -> {"failed"}

(* RUN_NOT_FOUND and INVALID_TRANSITION end the call.                      *)
ReadForAction(q) ==
  /\ CallAt(q, "slot")
  /\ LET seen == record[call[q].run]
     IN  call' = [call EXCEPT ![q] =
           IF seen # NoRecord /\ seen.phase \in AllowedIn(@.kind)
           THEN [pc |-> "act", kind |-> @.kind, run |-> @.run, seen |-> seen]
           ELSE IdleCall]
  /\ UNCHANGED <<cluster, tick>>

Acting(q, kinds) == CallAt(q, "act") /\ call[q].kind \in kinds

(* Deliberate bug: the record is replaced whoever changed it meanwhile.    *)
UpdateBlindly(q, changed) ==
  /\ record' = [record EXCEPT ![call[q].run] = changed]
  /\ UNCHANGED <<slot, job, pods, archived>>
  /\ Join(q)

(* update, if nobody changed the record since it was read.                 *)
Update(q, changed) ==
  /\ record[call[q].run] = call[q].seen
  /\ record' = [record EXCEPT ![call[q].run] = changed]
  /\ UNCHANGED <<slot, job, pods, archived>>
  /\ Join(q)

SetDesired(q) ==
  /\ Acting(q, {"pause", "resume", "release-failed"})
  /\ Update(q, [call[q].seen EXCEPT !.desired =
       CASE call[q].kind = "pause" -> "paused"
         [] call[q].kind = "resume" -> "running"
         [] call[q].kind = "release-failed" -> "released"])

LastPublisher(q) == Publisher(call[q].run, call[q].seen.attempt)

ReadPublisher(q) ==
  /\ Acting(q, {"retry-publication"}) /\ call[q].seen.attempt < MaxAttempts
  /\ call' = [call EXCEPT ![q] = [pc |-> "drain", kind |-> @.kind, run |-> @.run,
                                  seen |-> @.seen, job |-> job[LastPublisher(q)]]]
  /\ UNCHANGED <<cluster, tick>>

(* drainedJob is false: PUBLICATION_DRAINING.                              *)
DrainPublisher(q) ==
  /\ CallAt(q, "drain") /\ call[q].job.state # "absent" /\ ~call[q].job.deleting
  /\ Deleted(LastPublisher(q), call[q].job)
  /\ call' = [call EXCEPT ![q] = IdleCall]
  /\ UNCHANGED tick

PublicationDraining(q) ==
  /\ CallAt(q, "drain")
  /\ IF call[q].job.state = "absent" THEN pods[LastPublisher(q)] # "none"
     ELSE call[q].job.deleting
  /\ Answer(q)

PublicationDrained(q) ==
  /\ CallAt(q, "drain") /\ call[q].job.state = "absent"
  /\ pods[LastPublisher(q)] = "none"
  /\ call' = [call EXCEPT ![q].pc = "retry"]
  /\ UNCHANGED <<cluster, tick>>

RetryPublication(q) ==
  /\ CallAt(q, "retry")
  /\ Update(q, [call[q].seen EXCEPT !.phase = "publishing", !.attempt = @ + 1])

(* The answer of create and action: the record as it is now, or            *)
(* RUN_NOT_FOUND when there is none.                                       *)
Status(q) == CallAt(q, "status") /\ Answer(q)

CallConflict(q) ==
  /\ \/ /\ Acting(q, {"pause", "resume", "release-failed"}) \/ CallAt(q, "retry")
        /\ record[call[q].run] # call[q].seen
     \/ CallAt(q, "drain") /\ call[q].job.state # "absent" /\ ~call[q].job.deleting
        /\ job[LastPublisher(q)] \notin {call[q].job, NoJob}
  /\ Answer(q)

CallFails(q) == ~CallAt(q, "idle") /\ ~CallAt(q, "join") /\ Answer(q)

CallStep(q) ==
  \/ CreateOfKnownRun(q) \/ Reserve(q) \/ SlotTaken(q) \/ CreateAgain(q)
  \/ RunnerBusy(q) \/ ReadForAction(q)
  \/ SetDesired(q) \/ ReadPublisher(q) \/ DrainPublisher(q)
  \/ PublicationDraining(q) \/ PublicationDrained(q) \/ RetryPublication(q)
  \/ Status(q) \/ CallConflict(q)

------------------------------------------------------------------------------
(* The cluster: what the code relies on of Job controller and garbage      *)
(* collector, no more.                                                     *)

PodStarts(n) ==
  /\ job[n].state = "open" /\ ~job[n].suspend /\ ~job[n].deleting
  /\ pods[n] # "active"
  /\ pods' = [pods EXCEPT ![n] = "active"]
  /\ UNCHANGED <<slot, record, job, archived, tick, call>>

(* A Pod ends without deciding the Job: another attempt may follow.        *)
PodExits(n) ==
  /\ pods[n] = "active"
  /\ pods' = [pods EXCEPT ![n] = "done"]
  /\ UNCHANGED <<slot, record, job, archived, tick, call>>

(* A Pod ends and decides it.  A publisher's success is an archive.        *)
JobEnds(n) ==
  /\ job[n].state = "open" /\ pods[n] = "active"
  /\ pods' = [pods EXCEPT ![n] = "done"]
  /\ \E state \in {"Complete", "Failed"} :
       /\ job' = [job EXCEPT ![n].state = state]
       /\ archived' = IF n # Runner(n[1]) /\ state = "Complete"
                      THEN archived \cup {n[1]} ELSE archived
  /\ UNCHANGED <<slot, record, tick, call>>

(* The Pods of a suspended, deleted or vanished Job are removed.           *)
PodsRemoved(n) ==
  /\ \/ pods[n] # "none" /\ job[n].state = "absent"
     \/ pods[n] # "none" /\ job[n].state # "absent" /\ job[n].deleting
     \/ pods[n] = "active" /\ job[n].state = "open" /\ job[n].suspend
  /\ pods' = [pods EXCEPT ![n] = "none"]
  /\ UNCHANGED <<slot, record, job, archived, tick, call>>

JobRemoved(n) ==
  /\ job[n].state # "absent" /\ job[n].deleting
  /\ job' = [job EXCEPT ![n] = NoJob]
  /\ UNCHANGED <<slot, record, pods, archived, tick, call>>

(* The API process dies and is replaced.                                   *)
Restart ==
  /\ tick' = IdleTick /\ call' = [q \in Calls |-> IdleCall]
  /\ <<tick, call>>' # <<tick, call>>
  /\ UNCHANGED cluster

Cluster == \E n \in Names : \/ PodStarts(n) \/ PodExits(n) \/ JobEnds(n)
                            \/ PodsRemoved(n) \/ JobRemoved(n)

Operator == \E q \in Calls : CallCreate(q) \/ CallAction(q)

Trouble == Restart \/ TickFails \/ \E q \in Calls : CallFails(q)

Next == \/ Timer \/ TickStep
        \/ \E q \in Calls : CallStep(q)
        \/ Operator \/ Cluster \/ Trouble

Spec == Init /\ [][Next]_vars
==============================================================================
