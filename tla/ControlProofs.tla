----------------------------- MODULE ControlProofs -----------------------------
(***************************************************************************)
(* Proofs about the control API, for any number of runs, settings, calls   *)
(* in progress and publications.                                           *)
(***************************************************************************)
EXTENDS ControlProperties, TLAPS

Kinds == {"pause", "resume", "retry-publication", "release-failed"}

(* What a tick and a call are at each of their steps.                      *)
SlotTick == [pc : {"record"}, slot : Inputs \cup {NoRun}]
SeenTick == [pc : {"runner", "publish", "pods"}, slot : Inputs, seen : RecordType]
JobTick == [pc : {"decide", "drain", "suspend"}, slot : Inputs, seen : RecordType,
            name : Names, job : JobType \cup {NoJob}]
PublishedTick == [pc : {"published"}, slot : Inputs, seen : RecordType, job : JobType]
PhaseTick == [pc : {"phase"}, slot : Inputs, seen : RecordType, active : BOOLEAN]
ReleaseTick == [pc : {"release"}, slot : Inputs]

TickType == {IdleTick} \cup SlotTick \cup SeenTick \cup JobTick \cup PublishedTick
              \cup PhaseTick \cup ReleaseTick

CreateCall == [pc : {"lookup", "owner"}, kind : {"create"}, run : Runs,
               settings : Settings, seen : RecordType \cup {NoRecord}]
SlotCall == [pc : {"slot"}, kind : Kinds, run : Runs]
PlainCall == [pc : {"join", "status"}, kind : Kinds \cup {"create"}, run : Runs]
ActCall == [pc : {"act"}, kind : Kinds, run : Runs, seen : RecordType]
DrainCall == [pc : {"drain", "retry"}, kind : {"retry-publication"}, run : Runs,
              seen : RecordType, job : JobType \cup {NoJob}]

CallType == {IdleCall} \cup CreateCall \cup SlotCall \cup PlainCall \cup ActCall \cup DrainCall

Attempts == 0..MaxAttempts

ClusterTypes ==
  /\ slot \in Inputs \cup {NoRun}
  /\ record \in [Runs -> RecordType \cup {NoRecord}]
  /\ job \in [Names -> JobType \cup {NoJob}]
  /\ pods \in [Names -> {"none", "active", "done"}]
  /\ archived \subseteq Runs

(* Which Jobs and Pods a run may have, by the phase of its record.         *)
MayExist(r, a) ==
  IF a = 0 THEN record[r].phase \in Unfinished \cup {"failed", "publishing"}
  ELSE /\ record[r].phase \in {"publishing", "publication-failed", "completed"}
       /\ record[r].attempt = a

Covered ==
  \A r \in Runs, a \in Attempts :
    Exists(<<r, a>>) => /\ slot # NoRun /\ slot.run = r
                        /\ MayExist(r, a)
                        /\ a # 0 => ~Exists(<<r, 0>>)

SuccessIsArchive ==
  \A r \in Runs, a \in Attempts \ {0} : job[<<r, a>>].state = "Complete" => r \in archived

ReleasedHasFailed ==
  \A r \in Runs : record[r] # NoRecord /\ record[r].desired = "released"
                    => record[r].phase = "failed"

Over(r) == \/ record[r].phase = "completed"
           \/ record[r].phase = "failed" /\ record[r].desired = "released"

(* The record a tick has seen: only the operator's wish may have changed   *)
(* since, except that a failed publication may have been tried again.      *)
SeenStands ==
  tick.pc \notin {"idle", "record", "release"} =>
    /\ record[run] \in RecordType
    /\ tick.seen.desired = "released" =>
         tick.seen.phase = "failed" /\ record[run].desired = "released"
    /\ IF tick.seen.phase = "publication-failed" THEN tick.pc \in {"runner", "decide"}
       ELSE record[run].phase = tick.seen.phase /\ record[run].attempt = tick.seen.attempt

(* What each step of a tick may rely on.                                   *)
TickStands ==
  /\ tick.pc \notin {"idle", "record"} => slot = tick.slot
  /\ tick.pc = "record" => tick.slot \in {NoRun, slot}
  /\ tick.pc = "decide" =>
       /\ tick.name = Runner(run)
       /\ tick.job.state # "absent" => \A a \in Attempts \ {0} : ~Exists(<<run, a>>)
  /\ tick.pc = "drain" =>
       IF tick.seen.phase = "completed" THEN tick.name = Publisher(run, tick.seen.attempt)
       ELSE /\ tick.name = Runner(run)
            /\ \/ tick.seen.phase = "publishing"
               \/ tick.seen.phase = "failed" /\ tick.seen.desired = "released"
  /\ tick.pc \in {"decide", "drain"} /\ tick.job.state = "absent" =>
       job[tick.name].state = "absent"
  /\ tick.pc = "suspend" => tick.name = Runner(run) /\ tick.job \in JobType
  /\ tick.pc \in {"suspend", "pods", "phase"} => tick.seen.phase \in Unfinished
  /\ tick.pc \in {"publish", "published"} =>
       tick.seen.phase = "publishing" /\ ~Exists(Runner(run))
  /\ tick.pc = "published" /\ tick.job.state = "Complete" => run \in archived
  /\ tick.pc = "release" => Over(run) /\ \A a \in Attempts : ~Exists(<<run, a>>)

(* The same of a call that acts: the record it has seen stands, or a later *)
(* publication has been tried; and the last publisher stays away.          *)
CallStands(q) ==
  LET c == call[q]
  IN  /\ c.pc \in {"act", "drain", "retry"} =>
           /\ c.seen.phase \in AllowedIn(c.kind)
           /\ c.kind = "retry-publication" =>
                /\ record[c.run] \in RecordType
                /\ record[c.run] = c.seen \/ record[c.run].attempt > c.seen.attempt
      /\ c.pc \in {"drain", "retry"} => c.seen.attempt < MaxAttempts
      /\ c.pc = "drain" /\ c.job.state = "absent" /\ record[c.run] = c.seen =>
           job[Publisher(c.run, c.seen.attempt)].state = "absent"
      /\ c.pc = "retry" /\ record[c.run] = c.seen =>
           ~Exists(Publisher(c.run, c.seen.attempt))

CallsStand == call \in [Calls -> CallType] /\ \A q \in Calls : CallStands(q)

ClusterInv == ClusterTypes /\ Covered /\ SuccessIsArchive /\ CompletedIsArchived /\ ReleasedHasFailed

TickInv == tick \in TickType /\ SeenStands /\ TickStands

ControlInv == ClusterInv /\ TickInv /\ CallsStand

------------------------------------------------------------------------------
(* Initial states.                                                         *)

LEMMA ControlInit == Init => ControlInv
  <1>1. Init => ClusterInv
    BY ControlAssumption DEF Init, ClusterInv, ClusterTypes, Covered, SuccessIsArchive,
      CompletedIsArchived, ReleasedHasFailed, Exists, NoRecord, NoJob, Names, Attempts
  <1>2. Init => TickInv
    BY DEF Init, TickInv, TickType, SeenStands, TickStands, IdleTick
  <1>3. Init => CallsStand
    BY DEF Init, CallsStand, CallType, CallStands, IdleCall
  <1> QED BY <1>1, <1>2, <1>3 DEF ControlInv

------------------------------------------------------------------------------
(* What a tick knows.                                                      *)

LEMMA TickOfRun ==
  ASSUME ControlInv, tick.pc \notin {"idle", "record"}
  PROVE  /\ slot = tick.slot /\ slot \in Inputs /\ slot # NoRun
         /\ run \in Runs /\ slot.run = run
  BY ControlAssumption
  DEF ControlInv, TickInv, TickStands, TickType, SlotTick, SeenTick, JobTick, IdleTick,
      PublishedTick, PhaseTick, ReleaseTick, Inputs, run

LEMMA TickHasSeen ==
  ASSUME ControlInv, tick.pc \notin {"idle", "record", "release"}
  PROVE  tick.seen \in RecordType /\ record[run] \in RecordType
  BY DEF ControlInv, TickInv, SeenStands, TickType, SlotTick, SeenTick, JobTick, IdleTick,
         PublishedTick, PhaseTick, ReleaseTick

LEMMA TickHasJob ==
  ASSUME ControlInv, tick.pc \in {"decide", "drain", "suspend"}
  PROVE  tick.name \in Names /\ tick.job \in JobType \cup {NoJob}
  BY DEF ControlInv, TickInv, TickType, SlotTick, SeenTick, JobTick, IdleTick,
         PublishedTick, PhaseTick, ReleaseTick

------------------------------------------------------------------------------
(* The cluster, after each step that changes it.                           *)

LEMMA ClusterUnchanged == ControlInv /\ UNCHANGED cluster => ClusterInv'
  BY SMTT(30) DEF ControlInv, ClusterInv, cluster, ClusterTypes, Covered, SuccessIsArchive,
         CompletedIsArchived, ReleasedHasFailed, Exists, MayExist

LEMMA EnsureRecordCluster == ControlInv /\ EnsureRecord => ClusterInv'
  <1> SUFFICES ASSUME ControlInv, EnsureRecord PROVE ClusterInv'
    OBVIOUS
  <1> DEFINE new == NewRecord(tick.slot.settings)
  <1>1. /\ tick.pc = "record" /\ tick.slot # NoRun
        /\ record' = [record EXCEPT ![run] = Ensured(record[run], NoRecord, new)]
        /\ slot' = slot /\ job' = job /\ pods' = pods /\ archived' = archived
    BY DEF EnsureRecord, TickAt
  <1>2. tick.slot \in Inputs /\ run \in Runs
    BY <1>1 DEF ControlInv, TickInv, TickType, SlotTick, SeenTick, JobTick, IdleTick,
                PublishedTick, PhaseTick, ReleaseTick, Inputs, run
  <1>3. record \in [Runs -> RecordType \cup {NoRecord}]
    BY DEF ControlInv, ClusterInv, ClusterTypes
  <1>4. CASE record[run] # NoRecord
    <2>1. record' = record
      BY <1>1, <1>3, <1>4 DEF Ensured
    <2> QED
      BY <1>1, <2>1, ClusterUnchanged DEF cluster
  <1>5. CASE record[run] = NoRecord
    <2>1. record' = [record EXCEPT ![run] = new]
      BY <1>1, <1>5 DEF Ensured
    <2>2. new \in RecordType /\ new.phase = "pending" /\ new.desired = "running"
      BY <1>2, ControlAssumption DEF NewRecord, RecordType, Inputs, Unfinished
    <2>3. \A r \in Runs : record'[r] = IF r = run THEN new ELSE record[r]
      BY <1>3, <2>1
    <2>4. record[run].phase = "absent"
      BY <1>5 DEF NoRecord
    <2> HIDE DEF new
    <2>5. ClusterTypes'
      BY <1>1, <1>2, <1>3, <2>1, <2>2 DEF ControlInv, ClusterInv, ClusterTypes
    <2>6. Covered'
      <3>1. \A r \in Runs, a \in Attempts : Exists(<<r, a>>)' = Exists(<<r, a>>)
        BY <1>1 DEF Exists
      <3>2. \A r \in Runs, a \in Attempts : MayExist(r, a) => MayExist(r, a)'
        BY <2>2, <2>3, <2>4 DEF MayExist, Unfinished
      <3>3. \A r \in Runs : 0 \in Attempts
        BY ControlAssumption DEF Attempts
      <3> QED
        BY <1>1, <3>1, <3>2, <3>3 DEF ControlInv, ClusterInv, Covered
    <2>7. SuccessIsArchive'
      BY <1>1 DEF ControlInv, ClusterInv, SuccessIsArchive
    <2>8. CompletedIsArchived'
      BY <1>1, <2>2, <2>3 DEF ControlInv, ClusterInv, CompletedIsArchived
    <2>9. ReleasedHasFailed'
      BY <1>1, <2>2, <2>3 DEF ControlInv, ClusterInv, ReleasedHasFailed
    <2> QED
      BY <2>5, <2>6, <2>7, <2>8, <2>9 DEF ClusterInv
  <1> QED
    BY <1>4, <1>5

LEMMA RunnerCompleteCluster == ControlInv /\ RunnerComplete => ClusterInv'
  <1> SUFFICES ASSUME ControlInv, RunnerComplete PROVE ClusterInv'
    OBVIOUS
  <1>1. tick.pc = "decide"
    BY DEF RunnerComplete, Working, Deciding, TickAt
  <1> QED BY SMTT(30), <1>1, TickOfRun, TickHasSeen
    DEF ControlInv, ClusterInv, ClusterTypes, Covered, SuccessIsArchive, CompletedIsArchived,
        ReleasedHasFailed, Exists, Names, Attempts, MayExist, RecordType, NoRecord, Unfinished,
        TickInv, TickStands, SeenStands, RunnerComplete, Working, Deciding, Released, SetRecord, Phase

LEMMA RunnerFailedCluster == ControlInv /\ RunnerFailed => ClusterInv'
  <1> SUFFICES ASSUME ControlInv, RunnerFailed PROVE ClusterInv'
    OBVIOUS
  <1>1. tick.pc = "decide"
    BY DEF RunnerFailed, Working, Deciding, TickAt
  <1> QED BY <1>1, TickOfRun, TickHasSeen
    DEF ControlInv, ClusterInv, ClusterTypes, Covered, SuccessIsArchive, CompletedIsArchived,
        ReleasedHasFailed, Exists, Names, Attempts, MayExist, RecordType, NoRecord, Unfinished,
        TickInv, TickStands, SeenStands, RunnerFailed, Working, Deciding, Released, SetRecord, Phase

LEMMA PublisherEndedCluster == ControlInv /\ PublisherEnded => ClusterInv'
  <1> SUFFICES ASSUME ControlInv, PublisherEnded PROVE ClusterInv'
    OBVIOUS
  <1>1. tick.pc = "published"
    BY DEF PublisherEnded, TickAt
  <1>2. /\ run \in Runs /\ slot # NoRun /\ slot.run = run
        /\ tick.seen \in RecordType /\ record[run] \in RecordType
        /\ tick.seen.phase = "publishing" /\ ~Exists(Runner(run))
    BY <1>1, TickOfRun, TickHasSeen DEF ControlInv, TickInv, TickStands
  <1> PICK phase \in {"completed", "publication-failed"} :
         /\ record[run] = tick.seen /\ record' = [record EXCEPT ![run] = Phase(phase)]
         /\ UNCHANGED <<slot, job, pods, archived>>
         /\ phase = "completed" => tick.job.state = "Complete"
    BY DEF PublisherEnded, SetRecord
  <1>3. Phase(phase) \in RecordType /\ Phase(phase).desired = tick.seen.desired
        /\ Phase(phase).attempt = tick.seen.attempt /\ Phase(phase).phase = phase
    BY <1>2 DEF Phase, RecordType
  <1>4. ClusterTypes' /\ SuccessIsArchive'
    BY <1>2, <1>3 DEF ControlInv, ClusterInv, ClusterTypes, SuccessIsArchive
  <1>5. \A r \in Runs : r # run => record'[r] = record[r]
    BY DEF ControlInv, ClusterInv, ClusterTypes
  <1>6. record'[run] = Phase(phase)
    BY <1>2 DEF ControlInv, ClusterInv, ClusterTypes
  <1>7. CompletedIsArchived'
    BY <1>1, <1>2, <1>3, <1>5, <1>6
    DEF ControlInv, ClusterInv, CompletedIsArchived, TickInv, TickStands
  <1>8. ReleasedHasFailed'
    BY <1>2, <1>3, <1>5, <1>6
    DEF ControlInv, ClusterInv, ReleasedHasFailed, RecordType, NoRecord
  <1>9. Covered'
    BY <1>2, <1>3, <1>5, <1>6
    DEF ControlInv, ClusterInv, Covered, Exists, MayExist, Runner, Attempts, Unfinished
  <1> QED
    BY <1>4, <1>7, <1>8, <1>9 DEF ClusterInv

LEMMA SetPhaseCluster == ControlInv /\ SetPhase => ClusterInv'
  <1> SUFFICES ASSUME ControlInv, SetPhase PROVE ClusterInv'
    OBVIOUS
  <1>1. tick.pc = "phase"
    BY DEF SetPhase, TickAt
  <1>2. PICK phase \in Unfinished : UNCHANGED cluster \/ SetRecord(Phase(phase))
    BY DEF SetPhase, PhaseSeen, Unfinished
  <1>3. CASE UNCHANGED cluster
    BY <1>3, ClusterUnchanged
  <1>4. CASE SetRecord(Phase(phase))
    BY <1>1, <1>2, <1>4, TickOfRun, TickHasSeen
    DEF ControlInv, ClusterInv, ClusterTypes, Covered, SuccessIsArchive, CompletedIsArchived,
        ReleasedHasFailed, Exists, Names, Attempts, MayExist, RecordType, NoRecord, Unfinished,
        TickInv, TickStands, SeenStands, SetRecord, Phase
  <1> QED BY <1>2, <1>3, <1>4

(* A Job is written: what is asked of the new one.                         *)
JobWrite(n, new) == job' = [job EXCEPT ![n] = new] /\ UNCHANGED <<slot, record, pods, archived>>

LEMMA JobChanges ==
  ASSUME NEW j \in JobType
  PROVE  /\ j # NoJob /\ j.state # "absent" /\ NoJob.state = "absent"
         /\ [j EXCEPT !.deleting = TRUE] \in JobType
         /\ [j EXCEPT !.deleting = TRUE].state = j.state
         /\ \A b \in BOOLEAN : /\ [j EXCEPT !.suspend = b] \in JobType
                               /\ [j EXCEPT !.suspend = b].state = j.state
         /\ \A s \in {"Complete", "Failed"} : /\ [j EXCEPT !.state = s] \in JobType
                                              /\ [j EXCEPT !.state = s].state = s
  <1> USE DEF JobType, NoJob
  <1>1. j # NoJob /\ j.state # "absent" /\ NoJob.state = "absent"
    OBVIOUS
  <1>2. j = [suspend |-> j.suspend, state |-> j.state, deleting |-> j.deleting]
    OBVIOUS
  <1>3. ASSUME NEW d \in BOOLEAN
        PROVE  [j EXCEPT !.deleting = d] = [suspend |-> j.suspend, state |-> j.state, deleting |-> d]
    BY <1>2
  <1>4. ASSUME NEW b \in BOOLEAN
        PROVE  [j EXCEPT !.suspend = b] = [suspend |-> b, state |-> j.state, deleting |-> j.deleting]
    BY <1>2
  <1>5. ASSUME NEW s \in {"Complete", "Failed"}
        PROVE  [j EXCEPT !.state = s] = [suspend |-> j.suspend, state |-> s, deleting |-> j.deleting]
    BY <1>2
  <1> QED BY <1>1, <1>3, <1>4, <1>5

LEMMA JobBuilt == \A b \in BOOLEAN : buildJob(b) \in JobType /\ buildJob(b).state = "open"
  BY DEF JobType, buildJob

(* The same state, or a new Job where the run may have one.                *)
LEMMA JobWriteCluster ==
  ASSUME ControlInv, NEW n \in Names, NEW new \in JobType, JobWrite(n, new),
         \/ job[n] \in JobType /\ job[n].state = new.state
         \/ /\ job[n] = NoJob /\ new.state = "open" /\ slot # NoRun /\ slot.run = n[1]
            /\ MayExist(n[1], n[2])
            /\ \A a \in Attempts : a # n[2] => ~Exists(<<n[1], a>>)
  PROVE  ClusterInv'
  <1>1. n = <<n[1], n[2]>> /\ n[1] \in Runs /\ n[2] \in Attempts
    BY DEF Names, Attempts
  <1>2. ClusterTypes'
    BY DEF ControlInv, ClusterInv, ClusterTypes, JobWrite
  <1>3. ASSUME NEW r \in Runs, NEW a \in Attempts
        PROVE  /\ <<r, a>> \in Names /\ (<<r, a>> = n <=> r = n[1] /\ a = n[2])
               /\ job'[<<r, a>>] = IF <<r, a>> = n THEN new ELSE job[<<r, a>>]
    BY <1>1 DEF Names, Attempts, ControlInv, ClusterInv, ClusterTypes, JobWrite
  <1>4. new.state # "absent"
    BY JobChanges
  <1>5. ASSUME NEW r \in Runs, NEW a \in Attempts, Exists(<<r, a>>)'
        PROVE  Exists(<<r, a>>) \/ <<r, a>> = n
    BY <1>3, <1>5 DEF Exists, JobWrite
  <1>6. Covered'
    <2> SUFFICES ASSUME NEW r \in Runs, NEW a \in Attempts, Exists(<<r, a>>)'
                 PROVE  /\ slot # NoRun /\ slot.run = r /\ MayExist(r, a)
                        /\ a # 0 => ~Exists(<<r, 0>>)'
      BY DEF Covered, MayExist, JobWrite
    <2>1. 0 \in Attempts
      BY ControlAssumption DEF Attempts
    <2>2. CASE job[n] \in JobType
      <3>1. Exists(n)
        BY <2>2, JobChanges DEF Exists
      <3> QED BY <1>1, <1>5, <2>1, <3>1 DEF ControlInv, ClusterInv, Covered
    <2>3. CASE job[n] = NoJob
      <3>1. job[n] \notin JobType
        BY <2>3, JobChanges
      <3> QED BY <1>1, <1>3, <1>5, <2>1, <3>1 DEF ControlInv, ClusterInv, Covered
    <2> QED BY <2>2, <2>3
  <1>7. SuccessIsArchive'
    BY <1>3, <1>4 DEF ControlInv, ClusterInv, SuccessIsArchive, JobWrite
  <1>8. CompletedIsArchived' /\ ReleasedHasFailed'
    BY DEF ControlInv, ClusterInv, CompletedIsArchived, ReleasedHasFailed, JobWrite
  <1> QED BY <1>2, <1>6, <1>7, <1>8 DEF ClusterInv

LEMMA EnsureRunnerCluster == ControlInv /\ EnsureRunner => ClusterInv'
  <1> SUFFICES ASSUME ControlInv, EnsureRunner PROVE ClusterInv'
    OBVIOUS
  <1> DEFINE n == Runner(run)
             new == Ensured(job[n], NoJob, buildJob(TRUE))
  <1>1. tick.pc = "decide" /\ tick.seen.phase \in Unfinished
    BY DEF EnsureRunner, Working, Deciding, TickAt
  <1>2. /\ run \in Runs /\ slot # NoRun /\ slot.run = run /\ n \in Names /\ n[1] = run /\ n[2] = 0
        /\ job[n] \in JobType \cup {NoJob}
    BY <1>1, TickOfRun, ControlAssumption DEF Names, Runner, ControlInv, ClusterInv, ClusterTypes
  <1>3. JobWrite(n, new)
    BY DEF EnsureRunner, JobWrite
  <1>4. record[run].phase \in Unfinished
    BY <1>1 DEF ControlInv, TickInv, SeenStands, Unfinished
  <1>5. MayExist(run, 0) /\ \A a \in Attempts : a # 0 => ~Exists(<<run, a>>)
    BY <1>2, <1>4 DEF ControlInv, ClusterInv, Covered, MayExist, Unfinished, Attempts
  <1>6. CASE job[n] = NoJob
    BY <1>2, <1>3, <1>5, <1>6, JobBuilt, JobWriteCluster DEF Ensured
  <1>7. CASE job[n] \in JobType
    BY <1>2, <1>3, <1>7, JobChanges, JobWriteCluster DEF Ensured
  <1> QED BY <1>2, <1>6, <1>7

LEMMA EnsurePublisherCluster == ControlInv /\ EnsurePublisher => ClusterInv'
  <1> SUFFICES ASSUME ControlInv, EnsurePublisher PROVE ClusterInv'
    OBVIOUS
  <1> DEFINE n == Publisher(run, tick.seen.attempt)
             new == Ensured(job[n], NoJob, buildJob(FALSE))
  <1>1. tick.pc = "publish"
    BY DEF EnsurePublisher, TickAt
  <1>2. tick.seen.attempt \in Attempts \ {0}
    BY <1>1, TickHasSeen DEF RecordType, Attempts
  <1>3. /\ run \in Runs /\ slot # NoRun /\ slot.run = run /\ n \in Names
        /\ n[1] = run /\ n[2] = tick.seen.attempt /\ job[n] \in JobType \cup {NoJob}
    BY <1>1, <1>2, TickOfRun DEF Names, Attempts, Publisher, ControlInv, ClusterInv, ClusterTypes
  <1>4. JobWrite(n, new)
    BY DEF EnsurePublisher, JobWrite
  <1>5. /\ record[run].phase = "publishing" /\ record[run].attempt = tick.seen.attempt
        /\ ~Exists(<<run, 0>>)
    BY <1>1 DEF ControlInv, TickInv, SeenStands, TickStands, Runner
  <1>6. /\ MayExist(run, tick.seen.attempt)
        /\ \A a \in Attempts : a # tick.seen.attempt => ~Exists(<<run, a>>)
    BY <1>2, <1>3, <1>5 DEF ControlInv, ClusterInv, Covered, MayExist
  <1>7. CASE job[n] = NoJob
    BY <1>3, <1>4, <1>6, <1>7, JobBuilt, JobWriteCluster DEF Ensured
  <1>8. CASE job[n] \in JobType
    BY <1>3, <1>4, <1>8, JobChanges, JobWriteCluster DEF Ensured
  <1> QED BY <1>3, <1>7, <1>8

LEMMA DeletedCluster ==
  ASSUME ControlInv, NEW n \in Names, NEW seen, Deleted(n, seen)
  PROVE  ClusterInv'
  <1> DEFINE new == [job[n] EXCEPT !.deleting = TRUE]
  <1>1. CASE job[n] = NoJob
    <2>1. job' = job
      BY <1>1 DEF Deleted, ControlInv, ClusterInv, ClusterTypes
    <2> QED BY <2>1, ClusterUnchanged DEF Deleted, cluster
  <1>2. CASE job[n] \in JobType
    <2>1. JobWrite(n, new)
      BY <1>2, JobChanges DEF Deleted, JobWrite
    <2> QED BY <1>2, <2>1, JobChanges, JobWriteCluster
  <1> QED BY <1>1, <1>2 DEF ControlInv, ClusterInv, ClusterTypes

LEMMA PatchCluster == ControlInv /\ Patch => ClusterInv'
  <1> SUFFICES ASSUME ControlInv, Patch PROVE ClusterInv'
    OBVIOUS
  <1> DEFINE new == [job[tick.name] EXCEPT !.suspend = WantSuspended]
  <1>1. tick.pc = "suspend"
    BY DEF Patch, TickAt
  <1>2. tick.name \in Names /\ job[tick.name] \in JobType
    BY <1>1, TickHasJob DEF Patch, ControlInv, TickInv, TickStands
  <1>3. WantSuspended \in BOOLEAN
    BY DEF WantSuspended
  <1>4. JobWrite(tick.name, new)
    BY DEF Patch, JobWrite
  <1> HIDE DEF WantSuspended
  <1> QED BY <1>2, <1>3, <1>4, JobChanges, JobWriteCluster

LEMMA ReleaseCluster == ControlInv /\ Release => ClusterInv'
  <1> SUFFICES ASSUME ControlInv, Release PROVE ClusterInv'
    OBVIOUS
  <1>1. tick.pc = "release"
    BY DEF Release, TickAt
  <1>2. slot # NoRun /\ slot.run = run /\ \A a \in Attempts : ~Exists(<<run, a>>)
    BY <1>1, TickOfRun DEF ControlInv, TickInv, TickStands
  <1>3. \A r \in Runs, a \in Attempts : ~Exists(<<r, a>>)
    BY <1>2 DEF ControlInv, ClusterInv, Covered
  <1> QED BY <1>3
    DEF Release, ControlInv, ClusterInv, ClusterTypes, Covered, SuccessIsArchive,
        CompletedIsArchived, ReleasedHasFailed, Exists

LEMMA ReserveCluster ==
  ASSUME ControlInv, NEW q \in Calls, Reserve(q)
  PROVE  ClusterInv'
  <1>1. InputOf(q) \in Inputs
    BY DEF ControlInv, CallsStand, CallType, CreateCall, SlotCall, PlainCall, ActCall, DrainCall, IdleCall,
           InputOf, Reserve, CallAt, Inputs
  <1>2. \A r \in Runs, a \in Attempts : ~Exists(<<r, a>>)
    BY DEF Reserve, ControlInv, ClusterInv, Covered
  <1> QED BY <1>1, <1>2
    DEF Reserve, ControlInv, ClusterInv, ClusterTypes, Covered, SuccessIsArchive,
        CompletedIsArchived, ReleasedHasFailed, Exists

LEMMA SetDesiredCluster ==
  ASSUME ControlInv, NEW q \in Calls, SetDesired(q)
  PROVE  ClusterInv'
  BY DEF ControlInv, ClusterInv, ClusterTypes, Covered, SuccessIsArchive, CompletedIsArchived,
         ReleasedHasFailed, Exists, MayExist, SetDesired, Acting, Update, CallAt, CallsStand,
         CallType, CallStands, AllowedIn, Unfinished, RecordType, NoRecord,
         CreateCall, SlotCall, PlainCall, ActCall, DrainCall, IdleCall

LEMMA AnotherAttempt ==
  ASSUME NEW seen \in RecordType, seen.attempt < MaxAttempts
  PROVE  LET new == [seen EXCEPT !.phase = "publishing", !.attempt = @ + 1]
         IN  /\ new \in RecordType /\ new.phase = "publishing"
             /\ new.attempt = seen.attempt + 1 /\ new.desired = seen.desired
             /\ new.settings = seen.settings
  <1>1. seen = [phase |-> seen.phase, desired |-> seen.desired, attempt |-> seen.attempt,
                settings |-> seen.settings]
    BY DEF RecordType
  <1>2. seen.attempt + 1 \in 1..MaxAttempts
    BY ControlAssumption DEF RecordType
  <1> QED BY <1>1, <1>2 DEF RecordType

LEMMA RetryPublicationCluster ==
  ASSUME ControlInv, NEW q \in Calls, RetryPublication(q)
  PROVE  ClusterInv'
  <1> DEFINE r == call[q].run
             seen == call[q].seen
             new == [seen EXCEPT !.phase = "publishing", !.attempt = @ + 1]
  <1>1. /\ r \in Runs /\ seen \in RecordType /\ seen.attempt < MaxAttempts
        /\ seen.phase = "publication-failed" /\ record[r] = seen
        /\ ~Exists(<<r, seen.attempt>>)
    BY DEF RetryPublication, Update, CallAt, ControlInv, CallsStand, CallType, CallStands, AllowedIn,
           Publisher, CreateCall, SlotCall, PlainCall, ActCall, DrainCall, IdleCall, Unfinished
  <1>2. /\ record' = [record EXCEPT ![r] = new]
        /\ UNCHANGED <<slot, job, pods, archived>>
    BY DEF RetryPublication, Update
  <1>3. new \in RecordType /\ new.phase = "publishing" /\ new.desired = seen.desired
    BY <1>1, AnotherAttempt
  <1>4. \A a \in Attempts : ~Exists(<<r, a>>)
    BY <1>1 DEF ControlInv, ClusterInv, Covered, MayExist, Unfinished
  <1>5. seen.desired # "released"
    BY <1>1 DEF ControlInv, ClusterInv, ReleasedHasFailed, RecordType, NoRecord
  <1> HIDE DEF r, seen, new
  <1>6. ClusterTypes'
    BY <1>2, <1>3 DEF ControlInv, ClusterInv, ClusterTypes
  <1> QED BY <1>1, <1>2, <1>3, <1>4, <1>5, <1>6
    DEF ControlInv, ClusterInv, ClusterTypes, Covered, SuccessIsArchive, CompletedIsArchived,
        ReleasedHasFailed, Exists, MayExist

(* What the cluster does by itself never creates a Job or a Pod of a Job   *)
(* that is gone.                                                           *)
ClusterMoves ==
  /\ UNCHANGED <<slot, record>>
  /\ job' \in [Names -> JobType \cup {NoJob}]
  /\ pods' \in [Names -> {"none", "active", "done"}]
  /\ archived \subseteq archived' /\ archived' \subseteq Runs
  /\ \A n \in Names :
       /\ job[n].state = "absent" => job'[n].state = "absent"
       /\ Exists(n)' => Exists(n)
       /\ n[2] # 0 /\ job'[n].state = "Complete" => job[n].state = "Complete" \/ n[1] \in archived'

LEMMA ClusterByItself == ControlInv /\ Cluster => ClusterMoves
  <1> SUFFICES ASSUME ControlInv, Cluster PROVE ClusterMoves
    OBVIOUS
  <1>1. PICK n \in Names : \/ PodStarts(n) \/ PodExits(n) \/ JobEnds(n)
                           \/ PodsRemoved(n) \/ JobRemoved(n)
    BY DEF Cluster
  <1> USE DEF ControlInv, ClusterInv, ClusterTypes, ClusterMoves, Exists
  <1>2. CASE PodStarts(n)   BY <1>2 DEF PodStarts
  <1>3. CASE PodExits(n)    BY <1>3, JobChanges DEF PodExits
  <1>4. CASE JobEnds(n)
    <2>1. job[n] \in JobType
      BY <1>4 DEF JobEnds, NoJob
    <2>2. PICK s \in {"Complete", "Failed"} :
            /\ job' = [job EXCEPT ![n] = [job[n] EXCEPT !.state = s]]
            /\ archived' = IF n # Runner(n[1]) /\ s = "Complete"
                           THEN archived \cup {n[1]} ELSE archived
      BY <1>4 DEF JobEnds
    <2>3. n = <<n[1], n[2]>> /\ n[1] \in Runs
      BY DEF Names
    <2> DEFINE new == [job[n] EXCEPT !.state = s]
    <2>4. new \in JobType /\ new.state = s
      BY <2>1, JobChanges
    <2> HIDE DEF new
    <2>5. job' = [job EXCEPT ![n] = new]
      BY <2>2 DEF new
    <2> QED BY <1>4, <2>2, <2>3, <2>4, <2>5 DEF JobEnds, Runner
  <1>5. CASE PodsRemoved(n) BY <1>5 DEF PodsRemoved
  <1>6. CASE JobRemoved(n)  BY <1>6 DEF JobRemoved, NoJob
  <1> QED BY <1>1, <1>2, <1>3, <1>4, <1>5, <1>6

LEMMA ClusterStep == ControlInv /\ Cluster => ClusterInv'
  <1> SUFFICES ASSUME ControlInv, ClusterMoves PROVE ClusterInv'
    BY ClusterByItself
  <1>1. \A r \in Runs, a \in Attempts : <<r, a>> \in Names /\ <<r, a>>[1] = r /\ <<r, a>>[2] = a
    BY DEF Names, Attempts
  <1>2. ClusterTypes' /\ CompletedIsArchived' /\ ReleasedHasFailed'
    BY DEF ClusterMoves, ControlInv, ClusterInv, ClusterTypes, CompletedIsArchived, ReleasedHasFailed
  <1>3. Covered'
    BY <1>1, ControlAssumption
    DEF ClusterMoves, ControlInv, ClusterInv, Covered, MayExist, Attempts
  <1>4. SuccessIsArchive'
    BY <1>1 DEF ClusterMoves, ControlInv, ClusterInv, SuccessIsArchive
  <1> QED BY <1>2, <1>3, <1>4 DEF ClusterInv

------------------------------------------------------------------------------
(* The records.  Whoever writes one keeps the settings and the decisions,  *)
(* and leaves a failed publication alone except for trying it again.       *)
RecordMoves ==
  \A r \in Runs : record[r] \in RecordType =>
    /\ record'[r] \in RecordType
    /\ record'[r].settings = record[r].settings
    /\ record[r].phase \in {"completed", "failed"} => record'[r].phase = record[r].phase
    /\ record'[r].attempt # record[r].attempt =>
         record[r].phase = "publication-failed" /\ record'[r].attempt = record[r].attempt + 1
    /\ record[r].phase = "publication-failed" /\ record'[r] # record[r] =>
         record'[r].attempt = record[r].attempt + 1

LEMMA NoRecordIsNone == NoRecord \notin RecordType
  BY DEF NoRecord, RecordType

LEMMA RecordKept == UNCHANGED record => RecordMoves
  BY DEF RecordMoves

LEMMA EnsureRecordMoves == ControlInv /\ EnsureRecord => RecordMoves
  BY NoRecordIsNone DEF ControlInv, ClusterInv, ClusterTypes, EnsureRecord, Ensured, RecordMoves

(* The writes of a tick.                                                   *)
LEMMA PhaseMoves ==
  ASSUME ControlInv, tick.pc \in {"decide", "published", "phase"},
         tick.seen.phase \in Unfinished \cup {"publishing"},
         NEW phase \in Unfinished \cup {"publishing", "publication-failed", "completed", "failed"},
         SetRecord(Phase(phase))
  PROVE  RecordMoves
  BY TickOfRun, TickHasSeen
  DEF RecordMoves, SetRecord, Phase, RecordType, Unfinished, ControlInv, ClusterInv, ClusterTypes

LEMMA SetDesiredMoves ==
  ASSUME ControlInv, NEW q \in Calls, SetDesired(q)
  PROVE  RecordMoves
  <1> DEFINE r == call[q].run
             seen == call[q].seen
  <1>1. /\ r \in Runs /\ seen \in RecordType /\ record[r] = seen
        /\ seen.phase # "publication-failed"
    BY DEF SetDesired, Acting, Update, CallAt, ControlInv, CallsStand, CallType, CallStands, AllowedIn,
           CreateCall, SlotCall, PlainCall, ActCall, DrainCall, IdleCall, Unfinished
  <1>2. PICK desired \in {"running", "paused", "released"} :
          record' = [record EXCEPT ![r] = [seen EXCEPT !.desired = desired]]
    BY DEF SetDesired, Acting, Update
  <1> HIDE DEF r, seen
  <1> QED BY <1>1, <1>2 DEF RecordMoves, RecordType, ControlInv, ClusterInv, ClusterTypes

LEMMA RetryMoves ==
  ASSUME ControlInv, NEW q \in Calls, RetryPublication(q)
  PROVE  RecordMoves
  <1> DEFINE r == call[q].run
             seen == call[q].seen
             new == [seen EXCEPT !.phase = "publishing", !.attempt = @ + 1]
  <1>1. /\ r \in Runs /\ seen \in RecordType /\ record[r] = seen
        /\ seen.phase = "publication-failed" /\ seen.attempt < MaxAttempts
    BY DEF RetryPublication, Update, CallAt, ControlInv, CallsStand, CallType, CallStands, AllowedIn,
           CreateCall, SlotCall, PlainCall, ActCall, DrainCall, IdleCall, Unfinished
  <1>2. record' = [record EXCEPT ![r] = new]
    BY DEF RetryPublication, Update
  <1>3. /\ new \in RecordType /\ new.attempt = seen.attempt + 1 /\ new.settings = seen.settings
    BY <1>1, AnotherAttempt
  <1> HIDE DEF r, seen, new
  <1> QED BY <1>1, <1>2, <1>3 DEF RecordMoves, ControlInv, ClusterInv, ClusterTypes

------------------------------------------------------------------------------
(* The Jobs.  While a publication has failed, no Job of the run appears.   *)
JobsStayAway ==
  \A r \in Runs, a \in Attempts : record[r].phase = "publication-failed" =>
    /\ job[<<r, a>>].state = "absent" => job'[<<r, a>>].state = "absent"
    /\ Exists(<<r, a>>)' => Exists(<<r, a>>)

LEMMA JobsKept == UNCHANGED <<job, pods>> => JobsStayAway
  BY DEF JobsStayAway, Exists

LEMMA ClusterKeepsAway == ControlInv /\ Cluster => JobsStayAway
  BY ClusterByItself DEF ClusterMoves, JobsStayAway, Names, Attempts

LEMMA JobWriteKeepsAway ==
  ASSUME ControlInv, NEW n \in Names, NEW new \in JobType, JobWrite(n, new),
         record[n[1]].phase # "publication-failed" \/ job[n] \in JobType
  PROVE  JobsStayAway
  <1>1. ASSUME NEW r \in Runs, NEW a \in Attempts, record[r].phase = "publication-failed",
               <<r, a>> = n
        PROVE  job[n] \in JobType
    BY <1>1
  <1>2. job[n] \in JobType => job[n].state # "absent"
    BY JobChanges
  <1> QED BY <1>1, <1>2 DEF JobsStayAway, JobWrite, Exists, Names, Attempts, ControlInv, ClusterInv, ClusterTypes

LEMMA DeletedKeepsAway ==
  ASSUME ControlInv, NEW n \in Names, NEW seen, Deleted(n, seen)
  PROVE  JobsStayAway
  <1>1. CASE job[n] = NoJob
    BY <1>1, JobsKept DEF Deleted, ControlInv, ClusterInv, ClusterTypes
  <1>2. CASE job[n] \in JobType
    BY <1>2, JobChanges, JobWriteKeepsAway DEF Deleted, JobWrite
  <1> QED BY <1>1, <1>2 DEF ControlInv, ClusterInv, ClusterTypes

LEMMA EnsureRunnerKeepsAway == ControlInv /\ EnsureRunner => JobsStayAway
  <1> SUFFICES ASSUME ControlInv, EnsureRunner PROVE JobsStayAway
    OBVIOUS
  <1> DEFINE n == Runner(run)
             new == Ensured(job[n], NoJob, buildJob(TRUE))
  <1>1. tick.pc = "decide" /\ tick.seen.phase \in Unfinished
    BY DEF EnsureRunner, Working, Deciding, TickAt
  <1>2. n \in Names /\ n[1] = run /\ job[n] \in JobType \cup {NoJob}
    BY <1>1, TickOfRun, ControlAssumption DEF Names, Runner, ControlInv, ClusterInv, ClusterTypes
  <1>3. JobWrite(n, new)
    BY DEF EnsureRunner, JobWrite
  <1>4. record[run].phase # "publication-failed"
    BY <1>1 DEF ControlInv, TickInv, SeenStands, Unfinished
  <1>5. new \in JobType
    BY <1>2, JobBuilt DEF Ensured
  <1> HIDE DEF n, new
  <1> QED BY <1>2, <1>3, <1>4, <1>5, JobWriteKeepsAway

LEMMA EnsurePublisherKeepsAway == ControlInv /\ EnsurePublisher => JobsStayAway
  <1> SUFFICES ASSUME ControlInv, EnsurePublisher PROVE JobsStayAway
    OBVIOUS
  <1> DEFINE n == Publisher(run, tick.seen.attempt)
             new == Ensured(job[n], NoJob, buildJob(FALSE))
  <1>1. tick.pc = "publish"
    BY DEF EnsurePublisher, TickAt
  <1>2. n \in Names /\ n[1] = run /\ job[n] \in JobType \cup {NoJob}
    BY <1>1, TickOfRun, TickHasSeen
    DEF Names, Publisher, RecordType, ControlInv, ClusterInv, ClusterTypes
  <1>3. JobWrite(n, new)
    BY DEF EnsurePublisher, JobWrite
  <1>4. record[run].phase # "publication-failed"
    BY <1>1 DEF ControlInv, TickInv, SeenStands, TickStands
  <1>5. new \in JobType
    BY <1>2, JobBuilt DEF Ensured
  <1> HIDE DEF n, new
  <1> QED BY <1>2, <1>3, <1>4, <1>5, JobWriteKeepsAway

LEMMA PatchKeepsAway == ControlInv /\ Patch => JobsStayAway
  <1> SUFFICES ASSUME ControlInv, Patch PROVE JobsStayAway
    OBVIOUS
  <1> DEFINE new == [job[tick.name] EXCEPT !.suspend = WantSuspended]
  <1>1. tick.pc = "suspend"
    BY DEF Patch, TickAt
  <1>2. tick.name \in Names /\ job[tick.name] \in JobType
    BY <1>1, TickHasJob DEF Patch, ControlInv, TickInv, TickStands
  <1>3. WantSuspended \in BOOLEAN
    BY DEF WantSuspended
  <1>4. JobWrite(tick.name, new)
    BY DEF Patch, JobWrite
  <1> QED BY <1>2, <1>3, <1>4, JobChanges, JobWriteKeepsAway

------------------------------------------------------------------------------
(* The calls: what a call relies on stands, whoever moves.                 *)

LEMMA CallStable ==
  ASSUME ControlInv, RecordMoves, JobsStayAway, NEW q \in Calls, call'[q] = call[q]
  PROVE  CallStands(q)'
  <1> DEFINE c == call[q]
             n == Publisher(c.run, c.seen.attempt)
  <1> SUFFICES ASSUME c.pc \in {"act", "drain", "retry"}
               PROVE  CallStands(q)'
    BY DEF CallStands
  <1>1. /\ c.run \in Runs /\ c.seen \in RecordType /\ c.seen.phase \in AllowedIn(c.kind)
        /\ CallStands(q)
    BY DEF ControlInv, CallsStand, CallType, CallStands, CreateCall, SlotCall, PlainCall, ActCall, DrainCall, IdleCall
  <1>2. CASE c.kind # "retry-publication"
    <2>1. c.pc = "act"
      BY <1>2 DEF ControlInv, CallsStand, CallType, CreateCall, SlotCall, PlainCall, ActCall, DrainCall, IdleCall
    <2> QED BY <1>1, <1>2, <2>1 DEF CallStands
  <1>3. CASE c.kind = "retry-publication"
    <2>1. c.seen.phase = "publication-failed"
      BY <1>1, <1>3 DEF AllowedIn
    <2>2. record'[c.run] \in RecordType
      BY <1>1, <1>3 DEF CallStands, RecordMoves
    <2>3. c.seen.attempt \in Nat /\ record[c.run].attempt \in Nat /\ record'[c.run].attempt \in Nat
      BY <1>1, <1>3, <2>2, ControlAssumption DEF RecordType, CallStands
    <2>4. record[c.run] = c.seen => record'[c.run] = c.seen \/ record'[c.run].attempt > c.seen.attempt
      BY <1>1, <1>3, <2>1, <2>3 DEF RecordMoves
    <2>5. record[c.run].attempt > c.seen.attempt => record'[c.run].attempt > c.seen.attempt
      BY <1>1, <1>3, <2>3 DEF RecordMoves, CallStands
    <2>6. record'[c.run] = c.seen => record[c.run] = c.seen
      BY <1>1, <1>3, <2>3, <2>5 DEF CallStands
    <2>7. c.seen.attempt \in Attempts
      BY <1>1, ControlAssumption DEF RecordType, Attempts
    <2>8. ASSUME record[c.run] = c.seen
          PROVE  /\ job[n].state = "absent" => job'[n].state = "absent"
                 /\ Exists(n)' => Exists(n)
      BY <1>1, <2>1, <2>7, <2>8 DEF JobsStayAway, Publisher
    <2>9. ASSUME c.pc = "drain", c.job.state = "absent", record'[c.run] = c.seen
          PROVE  job'[n].state = "absent"
      BY <1>1, <2>6, <2>8, <2>9 DEF CallStands
    <2>10. ASSUME c.pc = "retry", record'[c.run] = c.seen
           PROVE  ~Exists(n)'
      BY <1>1, <2>6, <2>8, <2>10 DEF CallStands
    <2>11. c.pc \in {"drain", "retry"} => c.seen.attempt < MaxAttempts
      BY <1>1 DEF CallStands
    <2> QED BY <1>1, <1>3, <2>2, <2>4, <2>5, <2>9, <2>10, <2>11 DEF CallStands, Exists, Publisher
  <1> QED BY <1>2, <1>3

(* Steps of others: a call stays as it is, or its tick ends.               *)
LEMMA CallsKeptStand ==
  ASSUME ControlInv, RecordMoves, JobsStayAway,
         UNCHANGED call \/ EndTick(Resolved) \/ EndTick(Rejected)
  PROVE  CallsStand'
  <1>1. call' \in [Calls -> CallType]
    <2>1. CASE UNCHANGED call
      BY <2>1 DEF ControlInv, CallsStand
    <2>2. CASE EndTick(Resolved)
      <3>1. ASSUME NEW q \in Calls PROVE call'[q] \in CallType
        <4>1. CASE call[q].pc # "join"
          BY <2>2, <4>1 DEF EndTick, ControlInv, CallsStand
        <4>2. CASE call[q].pc = "join"
          <5>1. call[q] \in PlainCall
            BY <4>2 DEF ControlInv, CallsStand, CallType, CreateCall, SlotCall, ActCall, DrainCall, IdleCall
          <5>2. call'[q] = [call[q] EXCEPT !.pc = "status"]
            BY <2>2, <4>2 DEF EndTick, Resolved
          <5> QED BY <5>1, <5>2 DEF CallType, PlainCall
        <4> QED BY <4>1, <4>2
      <3> QED BY <2>2, <3>1 DEF EndTick
    <2>3. CASE EndTick(Rejected)
      BY <2>3 DEF EndTick, Rejected, ControlInv, CallsStand, CallType
    <2> QED BY <2>1, <2>2, <2>3
  <1>2. ASSUME NEW q \in Calls PROVE CallStands(q)'
    <2>1. CASE call'[q] = call[q]
      BY <2>1, CallStable
    <2>2. CASE call'[q] # call[q]
      <3>1. call'[q].pc \in {"idle", "status"}
        BY <2>2 DEF EndTick, Resolved, Rejected, IdleCall, ControlInv, CallsStand, CallType,
                    CreateCall, SlotCall, PlainCall, ActCall, DrainCall
      <3> QED BY <3>1 DEF CallStands
    <2> QED BY <2>1, <2>2
  <1> QED BY <1>1, <1>2 DEF CallsStand

(* Steps of a call: it moves to new, and the others stay.                  *)
LEMMA CallMoves ==
  ASSUME ControlInv, RecordMoves, JobsStayAway, NEW q \in Calls, NEW new \in CallType,
         call' = [call EXCEPT ![q] = new], CallStands(q)'
  PROVE  CallsStand'
  <1>1. call' \in [Calls -> CallType]
    BY DEF ControlInv, CallsStand
  <1>2. ASSUME NEW p \in Calls, p # q PROVE CallStands(p)'
    BY <1>2, CallStable DEF ControlInv, CallsStand
  <1> QED BY <1>1, <1>2 DEF CallsStand

LEMMA CallMovesPlainly ==
  ASSUME ControlInv, RecordMoves, JobsStayAway, NEW q \in Calls, NEW new \in CallType,
         call' = [call EXCEPT ![q] = new], new.pc \notin {"act", "drain", "retry"}
  PROVE  CallsStand'
  BY CallMoves DEF CallStands, ControlInv, CallsStand

LEMMA JoinStands ==
  ASSUME ControlInv, RecordMoves, JobsStayAway, NEW q \in Calls, Join(q),
         call[q].pc \notin {"idle", "join"}
  PROVE  CallsStand'
  <1> DEFINE new == [pc |-> "join", kind |-> call[q].kind, run |-> call[q].run]
  <1>1. new \in CallType /\ new.pc = "join"
    BY DEF ControlInv, CallsStand, CallType, CreateCall, SlotCall, PlainCall, ActCall, DrainCall, IdleCall, Kinds
  <1>2. call' = [call EXCEPT ![q] = new]
    BY DEF Join
  <1> QED BY <1>1, <1>2, CallMovesPlainly

LEMMA AnswerStands ==
  ASSUME ControlInv, RecordMoves, JobsStayAway, NEW q \in Calls,
         call' = [call EXCEPT ![q] = IdleCall]
  PROVE  CallsStand'
  BY CallMovesPlainly DEF IdleCall, CallType

LEMMA CreateStands ==
  ASSUME ControlInv, NEW q \in Calls, CallCreate(q) \/ CreateOfKnownRun(q) \/ SlotTaken(q)
  PROVE  CallsStand'
  <1>1. RecordMoves /\ JobsStayAway
    BY RecordKept, JobsKept DEF CallCreate, CreateOfKnownRun, SlotTaken, cluster
  <1>2. CASE CallCreate(q)
    <2>1. PICK input \in Inputs :
            call' = [call EXCEPT ![q] = [pc |-> "lookup", kind |-> "create", run |-> input.run,
                                         settings |-> input.settings, seen |-> record[input.run]]]
      BY <1>2 DEF CallCreate
    <2>2. [pc |-> "lookup", kind |-> "create", run |-> input.run,
           settings |-> input.settings, seen |-> record[input.run]] \in CreateCall
      BY DEF CreateCall, Inputs, ControlInv, ClusterInv, ClusterTypes
    <2> QED BY <1>1, <2>1, <2>2, CallMovesPlainly DEF CallType
  <1>3. CASE CreateOfKnownRun(q)
    <2>1. [pc |-> "status", kind |-> "create", run |-> call[q].run] \in PlainCall
      BY <1>3 DEF CreateOfKnownRun, CallAt, ControlInv, CallsStand, CallType, CreateCall, SlotCall, PlainCall,
                  ActCall, DrainCall, IdleCall
    <2>2. CASE call[q].seen.settings = call[q].settings
      BY <1>1, <1>3, <2>1, <2>2, CallMovesPlainly DEF CreateOfKnownRun, CallType
    <2>3. CASE call[q].seen.settings # call[q].settings
      BY <1>1, <1>3, <2>3, AnswerStands DEF CreateOfKnownRun
    <2> QED BY <2>2, <2>3
  <1>4. CASE SlotTaken(q)
    <2>1. call[q] \in CreateCall
      BY <1>4 DEF SlotTaken, CallAt, ControlInv, CallsStand, CallType, SlotCall, PlainCall, ActCall, DrainCall, IdleCall
    <2>2. [call[q] EXCEPT !.pc = "owner"] \in CreateCall /\ [call[q] EXCEPT !.pc = "owner"].pc = "owner"
      BY <2>1 DEF CreateCall
    <2>3. call' = [call EXCEPT ![q] = [call[q] EXCEPT !.pc = "owner"]]
      BY <1>4 DEF SlotTaken
    <2> QED BY <1>1, <2>2, <2>3, CallMovesPlainly DEF CallType
  <1> QED BY <1>2, <1>3, <1>4

LEMMA ActionStands ==
  ASSUME ControlInv, NEW q \in Calls,
         CallAction(q) \/ ReadForAction(q) \/ ReadPublisher(q) \/ PublicationDrained(q)
  PROVE  CallsStand'
  <1> USE DEF CreateCall, SlotCall, PlainCall, ActCall, DrainCall, IdleCall, Kinds
  <1>0. UNCHANGED <<slot, record, job, pods, archived>>
    BY DEF CallAction, ReadForAction, ReadPublisher, PublicationDrained, cluster
  <1>1. RecordMoves /\ JobsStayAway
    BY <1>0, RecordKept, JobsKept
  <1>2. CASE CallAction(q)
    <2>1. PICK kind \in {"pause", "resume", "retry-publication", "release-failed"} :
            call' = [call EXCEPT ![q] = [pc |-> "slot", kind |-> kind, run |-> slot.run]]
      BY <1>2 DEF CallAction
    <2>2. slot.run \in Runs
      BY <1>2 DEF CallAction, ControlInv, ClusterInv, ClusterTypes, Inputs
    <2> QED BY <1>1, <2>1, <2>2, CallMovesPlainly DEF CallType
  <1>3. CASE ReadForAction(q)
    <2> DEFINE seen == record[call[q].run]
               new == [pc |-> "act", kind |-> call[q].kind, run |-> call[q].run, seen |-> seen]
    <2>1. call[q].run \in Runs /\ call[q].kind \in Kinds
      BY <1>3 DEF ReadForAction, CallAt, ControlInv, CallsStand, CallType
    <2>2. CASE seen # NoRecord /\ seen.phase \in AllowedIn(call[q].kind)
      <3>1. new \in CallType
        BY <2>1, <2>2 DEF CallType, ControlInv, ClusterInv, ClusterTypes
      <3>2. call' = [call EXCEPT ![q] = new]
        BY <1>3, <2>2 DEF ReadForAction
      <3>3. seen \in RecordType
        BY <2>1, <2>2 DEF ControlInv, ClusterInv, ClusterTypes
      <3>4. CallStands(q)'
        BY <1>0, <2>2, <3>2, <3>3 DEF CallStands, ControlInv, CallsStand
      <3> QED BY <1>1, <3>1, <3>2, <3>4, CallMoves
    <2>3. CASE ~(seen # NoRecord /\ seen.phase \in AllowedIn(call[q].kind))
      BY <1>1, <1>3, <2>3, AnswerStands DEF ReadForAction
    <2> QED BY <2>2, <2>3
  <1>4. CASE ReadPublisher(q)
    <2> DEFINE c == call[q]
               new == [pc |-> "drain", kind |-> c.kind, run |-> c.run, seen |-> c.seen,
                       job |-> job[LastPublisher(q)]]
    <2>1. /\ c.pc = "act" /\ c.run \in Runs /\ c.kind = "retry-publication" /\ c.seen \in RecordType
          /\ c.seen.attempt < MaxAttempts
      BY <1>4 DEF ReadPublisher, Acting, CallAt, ControlInv, CallsStand, CallType
    <2>2. LastPublisher(q) \in Names
      BY <2>1, ControlAssumption DEF LastPublisher, Publisher, Names, RecordType
    <2>3. call' = [call EXCEPT ![q] = new]
      BY <1>4 DEF ReadPublisher
    <2>4. new \in CallType
      BY <2>1, <2>2 DEF CallType, ControlInv, ClusterInv, ClusterTypes
    <2>5. CallStands(q)'
      BY <1>0, <2>1, <2>3 DEF CallStands, ControlInv, CallsStand, LastPublisher
    <2> QED BY <1>1, <2>3, <2>4, <2>5, CallMoves
  <1>5. CASE PublicationDrained(q)
    <2> DEFINE c == call[q]
               new == [c EXCEPT !.pc = "retry"]
    <2>1. c.pc = "drain" /\ c \in DrainCall /\ CallStands(q) /\ c.job.state = "absent"
          /\ pods[Publisher(c.run, c.seen.attempt)] = "none"
      BY <1>5 DEF PublicationDrained, CallAt, ControlInv, CallsStand, CallType, LastPublisher
    <2>2. /\ new \in DrainCall /\ new.pc = "retry" /\ new.kind = c.kind /\ new.run = c.run
          /\ new.seen = c.seen
      BY <2>1
    <2>3. call' = [call EXCEPT ![q] = new]
      BY <1>5 DEF PublicationDrained
    <2> HIDE DEF new
    <2>4. CallStands(q)'
      BY <1>0, <2>1, <2>2, <2>3 DEF CallStands, ControlInv, CallsStand, Exists
    <2> QED BY <1>1, <2>2, <2>3, <2>4, CallMoves DEF CallType
  <1> QED BY <1>2, <1>3, <1>4, <1>5

------------------------------------------------------------------------------
(* The tick: what the others do under its eyes leaves what it relies on.   *)
OthersMove ==
  /\ slot' = slot \/ slot = NoRun
  /\ archived \subseteq archived'
  /\ \A n \in Names : /\ job[n].state = "absent" => job'[n].state = "absent"
                      /\ Exists(n)' => Exists(n)
  /\ \A r \in Runs : record[r] \in RecordType =>
       /\ record'[r] \in RecordType
       /\ record[r].phase # "publication-failed" =>
            record'[r].phase = record[r].phase /\ record'[r].attempt = record[r].attempt
       /\ record[r].phase = "failed" /\ record[r].desired = "released" =>
            record'[r].desired = "released"

LEMMA NobodyMoves == UNCHANGED cluster => OthersMove
  BY DEF OthersMove, cluster, Exists

LEMMA ClusterMovesGently == ControlInv /\ Cluster => OthersMove
  BY ClusterByItself DEF ClusterMoves, OthersMove

LEMMA ReserveMovesGently == ASSUME NEW q \in Calls, Reserve(q) PROVE OthersMove
  BY DEF Reserve, OthersMove, Exists

LEMMA DeletedMovesGently ==
  ASSUME ControlInv, NEW n \in Names, NEW seen, Deleted(n, seen)
  PROVE  OthersMove
  <1>1. CASE job[n] = NoJob
    <2>1. job' = job
      BY <1>1 DEF Deleted, ControlInv, ClusterInv, ClusterTypes
    <2> QED BY <2>1, NobodyMoves DEF Deleted, cluster
  <1>2. CASE job[n] \in JobType
    <2> DEFINE new == [job[n] EXCEPT !.deleting = TRUE]
    <2>1. new \in JobType /\ new.state = job[n].state /\ job[n].state # "absent"
      BY <1>2, JobChanges
    <2>2. job' = [job EXCEPT ![n] = new] /\ UNCHANGED <<slot, record, pods, archived>>
      BY <1>2, <2>1 DEF Deleted, NoJob
    <2> HIDE DEF new
    <2> QED BY <2>1, <2>2 DEF OthersMove, Exists, ControlInv, ClusterInv, ClusterTypes
  <1> QED BY <1>1, <1>2 DEF ControlInv, ClusterInv, ClusterTypes

LEMMA SetDesiredMovesGently ==
  ASSUME ControlInv, NEW q \in Calls, SetDesired(q)
  PROVE  OthersMove
  <1> DEFINE r == call[q].run
             seen == call[q].seen
             wish == CASE call[q].kind = "pause" -> "paused"
                       [] call[q].kind = "resume" -> "running"
                       [] call[q].kind = "release-failed" -> "released"
             new == [seen EXCEPT !.desired = wish]
  <1>1. /\ r \in Runs /\ seen \in RecordType /\ record[r] = seen
        /\ wish \in {"running", "paused", "released"}
        /\ seen.phase = "failed" => wish = "released"
    BY DEF SetDesired, Acting, Update, CallAt, ControlInv, CallsStand, CallType, CallStands, AllowedIn,
           CreateCall, SlotCall, PlainCall, ActCall, DrainCall, IdleCall, Unfinished
  <1>2. record' = [record EXCEPT ![r] = new] /\ UNCHANGED <<slot, job, pods, archived>>
    BY DEF SetDesired, Update
  <1> HIDE DEF r, seen, wish
  <1>3. /\ new \in RecordType /\ new.phase = seen.phase /\ new.attempt = seen.attempt
        /\ new.desired = wish
    BY <1>1 DEF RecordType
  <1> HIDE DEF new
  <1> QED BY <1>1, <1>2, <1>3 DEF OthersMove, Exists, ControlInv, ClusterInv, ClusterTypes

LEMMA RetryMovesGently ==
  ASSUME ControlInv, NEW q \in Calls, RetryPublication(q)
  PROVE  OthersMove
  <1> DEFINE r == call[q].run
             seen == call[q].seen
             new == [seen EXCEPT !.phase = "publishing", !.attempt = @ + 1]
  <1>1. /\ r \in Runs /\ seen \in RecordType /\ record[r] = seen
        /\ seen.phase = "publication-failed" /\ seen.attempt < MaxAttempts
    BY DEF RetryPublication, Update, CallAt, ControlInv, CallsStand, CallType, CallStands, AllowedIn,
           CreateCall, SlotCall, PlainCall, ActCall, DrainCall, IdleCall, Unfinished
  <1>2. record' = [record EXCEPT ![r] = new] /\ UNCHANGED <<slot, job, pods, archived>>
    BY DEF RetryPublication, Update
  <1>3. new \in RecordType
    BY <1>1, AnotherAttempt
  <1> HIDE DEF r, seen, new
  <1> QED BY <1>1, <1>2, <1>3 DEF OthersMove, Exists, ControlInv, ClusterInv, ClusterTypes

LEMMA TickStable ==
  ASSUME ControlInv, OthersMove, UNCHANGED tick
  PROVE  TickInv'
  <1>1. tick' \in TickType
    BY DEF ControlInv, TickInv
  <1>2. SeenStands'
    BY TickOfRun, TickHasSeen DEF ControlInv, TickInv, SeenStands, OthersMove, run
  <1>3. ASSUME tick.pc \notin {"idle", "record"}
        PROVE  slot' = slot /\ run \in Runs /\ \A a \in Attempts : <<run, a>> \in Names
    BY <1>3, TickOfRun DEF OthersMove, Names, Attempts
  <1>4. TickStands'
    <2>1. CASE tick.pc = "idle"
      BY <2>1 DEF TickStands
    <2>2. CASE tick.pc = "record"
      BY <2>2 DEF TickStands, ControlInv, TickInv, OthersMove
    <2>3. CASE tick.pc \notin {"idle", "record"}
      <3> USE DEF ControlInv, TickInv, TickStands, OthersMove
      <3>1. (tick.pc = "decide" /\ tick.job.state # "absent" =>
               \A a \in Attempts \ {0} : ~Exists(<<run, a>>))'
        BY <1>3 DEF run
      <3>2. tick.pc \in {"decide", "drain"} /\ tick.job.state = "absent" =>
              job'[tick.name].state = "absent"
        BY TickHasJob
      <3>3. tick.pc \in {"publish", "published"} => ~Exists(Runner(run))'
        BY <1>3, ControlAssumption DEF run, Runner, Attempts
      <3>4. tick.pc = "release" => Over(run)'
        <4>1. tick.pc = "release" => Over(run) /\ record[run] \in RecordType
          BY <1>3 DEF Over, ClusterInv, ClusterTypes, NoRecord
        <4> QED BY <1>3, <4>1 DEF Over, run
      <3>5. tick.pc = "release" => (\A a \in Attempts : ~Exists(<<run, a>>))'
        BY <1>3 DEF run
      <3> QED BY <1>3, <2>3, <3>1, <3>2, <3>3, <3>4, <3>5 DEF run
    <2> QED BY <2>1, <2>2, <2>3
  <1> QED BY <1>1, <1>2, <1>4 DEF TickInv

(* A call starts a tick, or joins the one in flight.                       *)
LEMMA TickJoined ==
  ASSUME ControlInv, ClusterInv', OthersMove, NEW q \in Calls, Join(q)
  PROVE  TickInv'
  <1>1. CASE UNCHANGED tick
    BY <1>1, TickStable
  <1>2. CASE tick' = [pc |-> "record", slot |-> slot']
    BY <1>2 DEF TickInv, TickType, SlotTick, SeenStands, TickStands, ClusterInv, ClusterTypes
  <1> QED BY <1>1, <1>2 DEF Join

LEMMA TickEnded == tick' = IdleTick => TickInv'
  BY DEF TickInv, TickType, IdleTick, SeenStands, TickStands

------------------------------------------------------------------------------
(* The tick's own steps.                                                   *)

LEMMA TimerTick == ControlInv /\ Timer => TickInv'
  BY DEF Timer, NewTick, cluster, TickInv, TickType, SlotTick, SeenStands, TickStands, ControlInv,
         ClusterInv, ClusterTypes

LEMMA EnsureRecordTick == ControlInv /\ EnsureRecord => TickInv'
  <1> SUFFICES ASSUME ControlInv, EnsureRecord PROVE TickInv'
    OBVIOUS
  <1>1. tick.pc = "record" /\ tick.slot = slot /\ slot \in Inputs /\ run \in Runs
    BY DEF EnsureRecord, TickAt, ControlInv, ClusterInv, ClusterTypes, TickInv, TickStands, run, Inputs
  <1>2. PICK now : /\ record' = [record EXCEPT ![run] = now]
                   /\ tick' = [pc |-> "runner", slot |-> tick.slot, seen |-> now]
    BY DEF EnsureRecord
  <1>3. ClusterInv'
    BY EnsureRecordCluster
  <1>4. now = record'[run] /\ now # NoRecord /\ now \in RecordType
    <2>1. now = record'[run]
      BY <1>1, <1>2 DEF ControlInv, ClusterInv, ClusterTypes
    <2>2. record'[run] # NoRecord
      BY <1>1 DEF EnsureRecord, Ensured, NewRecord, NoRecord, ControlInv, ClusterInv, ClusterTypes
    <2> QED BY <1>1, <1>3, <2>1, <2>2 DEF ClusterInv, ClusterTypes
  <1>5. now.desired = "released" => now.phase = "failed"
    BY <1>1, <1>3, <1>4 DEF ClusterInv, ReleasedHasFailed
  <1>6. slot' = slot
    BY DEF EnsureRecord
  <1>7. tick' \in SeenTick
    BY <1>1, <1>2, <1>4 DEF SeenTick
  <1> QED BY <1>1, <1>2, <1>4, <1>5, <1>6, <1>7
    DEF TickInv, TickType, SeenStands, TickStands, run

(* The Job that a tick reads.                                              *)
LEMMA ReadRunnerTick == ControlInv /\ ReadRunner => TickInv'
  <1> SUFFICES ASSUME ControlInv, ReadRunner PROVE TickInv'
    OBVIOUS
  <1> DEFINE n == Runner(run)
  <1>1. tick.pc = "runner"
    BY DEF ReadRunner, TickAt
  <1>2. /\ tick' = [pc |-> "decide", slot |-> tick.slot, seen |-> tick.seen, name |-> n, job |-> job[n]]
        /\ UNCHANGED <<slot, record, job, pods, archived>>
    BY DEF ReadRunner, Read, cluster
  <1>3. /\ run \in Runs /\ tick.slot \in Inputs /\ slot = tick.slot /\ tick.seen \in RecordType
        /\ n \in Names /\ job[n] \in JobType \cup {NoJob}
    BY <1>1, TickOfRun, TickHasSeen, ControlAssumption
    DEF Names, Runner, ControlInv, ClusterInv, ClusterTypes
  <1>4. tick' \in JobTick
    BY <1>2, <1>3 DEF JobTick
  <1>5. job[n].state # "absent" => \A a \in Attempts \ {0} : ~Exists(<<run, a>>)
    BY <1>3 DEF ControlInv, ClusterInv, Covered, Exists, Runner, Attempts
  <1>6. SeenStands'
    BY <1>1, <1>2 DEF SeenStands, ControlInv, TickInv, run
  <1>7. TickStands'
    BY <1>2, <1>3, <1>5 DEF TickStands, run, Exists
  <1> QED BY <1>4, <1>6, <1>7 DEF TickInv, TickType

LEMMA ReadLastPublisherTick == ControlInv /\ ReadLastPublisher => TickInv'
  <1> SUFFICES ASSUME ControlInv, ReadLastPublisher PROVE TickInv'
    OBVIOUS
  <1> DEFINE n == Publisher(run, tick.seen.attempt)
  <1>1. tick.pc = "decide" /\ tick.seen.phase = "completed"
    BY DEF ReadLastPublisher, TickAt
  <1>2. /\ tick' = [pc |-> "drain", slot |-> tick.slot, seen |-> tick.seen, name |-> n, job |-> job[n]]
        /\ UNCHANGED <<slot, record, job, pods, archived>>
    BY DEF ReadLastPublisher, Read, cluster
  <1>3. /\ run \in Runs /\ tick.slot \in Inputs /\ slot = tick.slot /\ tick.seen \in RecordType
        /\ n \in Names /\ job[n] \in JobType \cup {NoJob}
    BY <1>1, TickOfRun, TickHasSeen, ControlAssumption
    DEF Names, Publisher, RecordType, ControlInv, ClusterInv, ClusterTypes
  <1>4. tick' \in JobTick
    BY <1>2, <1>3 DEF JobTick
  <1>6. SeenStands'
    BY <1>1, <1>2 DEF SeenStands, ControlInv, TickInv, run
  <1>7. TickStands'
    BY <1>1, <1>2, <1>3 DEF TickStands, run
  <1> QED BY <1>4, <1>6, <1>7 DEF TickInv, TickType

(* To the drain of the runner.                                             *)
LEMMA ToDrainUnseen ==
  ASSUME ControlInv, tick.pc = "decide", UNCHANGED cluster, Continue("drain"),
         \/ tick.seen.phase = "publishing"
         \/ tick.seen.phase = "failed" /\ tick.seen.desired = "released"
  PROVE  TickInv'
  <1>1. tick.seen \in RecordType /\ tick \in JobTick
    BY TickHasSeen DEF ControlInv, TickInv, TickType, SlotTick, SeenTick, IdleTick, PublishedTick,
                       PhaseTick, ReleaseTick
  <1>2. /\ tick' \in JobTick /\ tick'.pc = "drain" /\ tick'.seen = tick.seen
        /\ tick'.slot = tick.slot /\ tick'.name = tick.name /\ tick'.job = tick.job
    BY <1>1 DEF JobTick, Continue
  <1>3. SeenStands'
    BY <1>2 DEF SeenStands, ControlInv, TickInv, run, cluster
  <1>4. TickStands'
    BY <1>2 DEF TickStands, ControlInv, TickInv, run, cluster
  <1> QED BY <1>2, <1>3, <1>4 DEF TickInv, TickType

LEMMA DrainReleasedTick == ControlInv /\ DrainReleased => TickInv'
  <1> SUFFICES ASSUME ControlInv, DrainReleased PROVE TickInv'
    OBVIOUS
  <1>1. tick.pc = "decide" /\ tick.seen.desired = "released"
    BY DEF DrainReleased, Deciding, TickAt, Released
  <1> QED BY <1>1, ToDrainUnseen DEF DrainReleased, ControlInv, TickInv, SeenStands

LEMMA DrainRunnerTick == ControlInv /\ DrainRunner => TickInv'
  BY ToDrainUnseen DEF DrainRunner, Working, Deciding, TickAt

LEMMA RunnerCompleteTick == ControlInv /\ RunnerComplete => TickInv'
  <1> SUFFICES ASSUME ControlInv, RunnerComplete PROVE TickInv'
    OBVIOUS
  <1>1. /\ tick.pc = "decide" /\ tick.seen.phase \in Unfinished \cup {"publishing"}
        /\ tick.seen.desired # "released"
    BY DEF RunnerComplete, Working, Deciding, TickAt, Released
  <1>2. tick.seen \in RecordType /\ run \in Runs
    BY <1>1, TickOfRun, TickHasSeen
  <1> DEFINE new == Phase("publishing")
  <1>3. /\ new \in RecordType /\ new.phase = "publishing" /\ new.attempt = tick.seen.attempt
        /\ new.desired = tick.seen.desired
    BY <1>2 DEF Phase, RecordType
  <1>4. record'[run] = new
    BY <1>2 DEF RunnerComplete, SetRecord, ControlInv, ClusterInv, ClusterTypes
  <1>5. /\ tick' = [tick EXCEPT !.pc = "drain", !.seen = new]
        /\ UNCHANGED <<slot, job, pods, archived>>
    BY DEF RunnerComplete, SetRecord
  <1>6. tick \in JobTick
    BY <1>1 DEF ControlInv, TickInv, TickType, SlotTick, SeenTick, IdleTick, PublishedTick,
                PhaseTick, ReleaseTick
  <1> HIDE DEF new
  <1>7. /\ tick' \in JobTick /\ tick'.pc = "drain" /\ tick'.seen = new
        /\ tick'.slot = tick.slot /\ tick'.name = tick.name /\ tick'.job = tick.job
    BY <1>3, <1>5, <1>6 DEF JobTick
  <1>8. SeenStands'
    BY <1>1, <1>3, <1>4, <1>7 DEF SeenStands, run
  <1>9. TickStands'
    BY <1>1, <1>3, <1>5, <1>7 DEF TickStands, ControlInv, TickInv, run
  <1> QED BY <1>7, <1>8, <1>9 DEF TickInv, TickType

LEMMA EnsureRunnerTick == ControlInv /\ EnsureRunner => TickInv'
  <1> SUFFICES ASSUME ControlInv, EnsureRunner PROVE TickInv'
    OBVIOUS
  <1> DEFINE n == Runner(run)
             new == Ensured(job[n], NoJob, buildJob(TRUE))
  <1>1. tick.pc = "decide" /\ tick.seen.phase \in Unfinished
    BY DEF EnsureRunner, Working, Deciding, TickAt
  <1>2. job[n] \in JobType \cup {NoJob}
    BY <1>1, TickOfRun, ControlAssumption DEF Names, Runner, ControlInv, ClusterInv, ClusterTypes
  <1>3. new \in JobType
    BY <1>2, JobBuilt DEF Ensured
  <1>4. tick \in JobTick
    BY <1>1 DEF ControlInv, TickInv, TickType, SlotTick, SeenTick, IdleTick, PublishedTick,
                PhaseTick, ReleaseTick
  <1>5. tick' = [tick EXCEPT !.pc = "suspend", !.job = new] /\ UNCHANGED <<slot, record>>
    BY DEF EnsureRunner
  <1> HIDE DEF n, new
  <1>6. /\ tick' \in JobTick /\ tick'.pc = "suspend" /\ tick'.seen = tick.seen
        /\ tick'.slot = tick.slot /\ tick'.name = tick.name /\ tick'.job = new
    BY <1>3, <1>4, <1>5 DEF JobTick
  <1>7. SeenStands'
    BY <1>1, <1>5, <1>6 DEF SeenStands, ControlInv, TickInv, run, Unfinished
  <1>8. TickStands'
    BY <1>1, <1>3, <1>5, <1>6 DEF TickStands, ControlInv, TickInv, run
  <1> QED BY <1>6, <1>7, <1>8 DEF TickInv, TickType

LEMMA DrainedTick == ControlInv /\ Drained => TickInv'
  <1> SUFFICES ASSUME ControlInv, Drained PROVE TickInv'
    OBVIOUS
  <1>1. /\ tick.pc = "drain" /\ tick.job.state = "absent" /\ pods[tick.name] = "none"
        /\ tick' = AfterDrain /\ UNCHANGED <<slot, record, job, pods, archived>>
    BY DEF Drained, TickAt, cluster
  <1>2. ~Exists(tick.name) /\ slot = tick.slot /\ run \in Runs /\ tick.slot \in Inputs
    BY <1>1, TickOfRun DEF Exists, ControlInv, TickInv, TickStands
  <1>3. tick.seen \in RecordType /\ record[run] \in RecordType
    BY <1>1, TickHasSeen
  <1>4. CASE tick.seen.phase = "publishing"
    <2>1. tick' = [pc |-> "publish", slot |-> tick.slot, seen |-> tick.seen]
      BY <1>1, <1>4 DEF AfterDrain
    <2>2. tick' \in SeenTick
      BY <1>2, <1>3, <2>1 DEF SeenTick
    <2>3. SeenStands'
      BY <1>1, <1>4, <2>1 DEF SeenStands, ControlInv, TickInv, run
    <2>4. ~Exists(Runner(run))
      BY <1>1, <1>2, <1>4 DEF ControlInv, TickInv, TickStands
    <2>5. TickStands'
      BY <1>1, <1>2, <1>4, <2>1, <2>4 DEF TickStands, run, Exists
    <2> QED BY <2>2, <2>3, <2>5 DEF TickInv, TickType
  <1>5. CASE tick.seen.phase # "publishing"
    <2>1. tick' = [pc |-> "release", slot |-> tick.slot]
      BY <1>1, <1>5 DEF AfterDrain
    <2>2. tick' \in ReleaseTick
      BY <1>2, <2>1 DEF ReleaseTick
    <2>3. Over(run) /\ \A a \in Attempts : ~Exists(<<run, a>>)
      <3>1. CASE tick.seen.phase = "completed"
        <4>1. /\ tick.name = <<run, tick.seen.attempt>> /\ record[run].phase = "completed"
              /\ record[run].attempt = tick.seen.attempt
          BY <1>1, <3>1 DEF ControlInv, TickInv, TickStands, SeenStands, Publisher
        <4> QED BY <1>2, <1>3, <4>1
          DEF Over, ControlInv, ClusterInv, Covered, MayExist, Unfinished
      <3>2. CASE tick.seen.phase # "completed"
        <4>1. /\ tick.name = <<run, 0>> /\ record[run].phase = "failed" /\ record[run].desired = "released"
          BY <1>1, <1>5, <3>2 DEF ControlInv, TickInv, TickStands, SeenStands, Runner
        <4> QED BY <1>2, <1>3, <4>1
          DEF Over, ControlInv, ClusterInv, Covered, MayExist, Unfinished
      <3> QED BY <3>1, <3>2
    <2>4. SeenStands'
      BY <2>1 DEF SeenStands
    <2>5. TickStands'
      BY <1>1, <1>2, <2>1, <2>3 DEF TickStands, run, Exists, Over
    <2> QED BY <2>2, <2>4, <2>5 DEF TickInv, TickType
  <1> QED BY <1>4, <1>5

LEMMA EnsurePublisherTick == ControlInv /\ EnsurePublisher => TickInv'
  <1> SUFFICES ASSUME ControlInv, EnsurePublisher PROVE TickInv'
    OBVIOUS
  <1> DEFINE n == Publisher(run, tick.seen.attempt)
             new == Ensured(job[n], NoJob, buildJob(FALSE))
  <1>1. tick.pc = "publish" /\ tick.seen.phase = "publishing" /\ ~Exists(Runner(run))
    BY DEF EnsurePublisher, TickAt, ControlInv, TickInv, TickStands
  <1>2. /\ run \in Runs /\ tick.slot \in Inputs /\ slot = tick.slot /\ tick.seen \in RecordType
        /\ tick.seen.attempt \in Attempts \ {0}
    BY <1>1, TickOfRun, TickHasSeen DEF RecordType, Attempts
  <1>3. n \in Names /\ job[n] \in JobType \cup {NoJob} /\ n # Runner(run) /\ Runner(run) \in Names
    BY <1>2, ControlAssumption
    DEF Names, Publisher, Runner, Attempts, ControlInv, ClusterInv, ClusterTypes
  <1>4. new \in JobType
    BY <1>3, JobBuilt DEF Ensured
  <1>5. new.state = "Complete" => run \in archived
    BY <1>2, <1>3, JobBuilt
    DEF Ensured, Publisher, ControlInv, ClusterInv, SuccessIsArchive
  <1>6. /\ tick' = [pc |-> "published", slot |-> tick.slot, seen |-> tick.seen, job |-> new]
        /\ job' = [job EXCEPT ![n] = new] /\ UNCHANGED <<slot, record, pods, archived>>
    BY DEF EnsurePublisher
  <1> HIDE DEF n, new
  <1>7. ~Exists(Runner(run))'
    <2>1. job'[Runner(run)] = job[Runner(run)]
      BY <1>3, <1>6 DEF ControlInv, ClusterInv, ClusterTypes
    <2> QED BY <1>1, <1>6, <2>1 DEF Exists, run, Runner
  <1>8. tick' \in PublishedTick
    BY <1>2, <1>4, <1>6 DEF PublishedTick
  <1>9. SeenStands'
    BY <1>1, <1>6 DEF SeenStands, ControlInv, TickInv, run
  <1>10. TickStands'
    BY <1>1, <1>2, <1>5, <1>6, <1>7 DEF TickStands, run, Runner
  <1> QED BY <1>8, <1>9, <1>10 DEF TickInv, TickType

LEMMA ToPodsTick ==
  ASSUME ControlInv, tick.pc = "suspend", GoToPods, UNCHANGED <<slot, record>>
  PROVE  TickInv'
  <1>1. /\ run \in Runs /\ tick.slot \in Inputs /\ slot = tick.slot /\ tick.seen \in RecordType
        /\ tick.seen.phase \in Unfinished
    BY TickOfRun, TickHasSeen DEF ControlInv, TickInv, TickStands
  <1>2. tick' = [pc |-> "pods", slot |-> tick.slot, seen |-> tick.seen]
    BY DEF GoToPods
  <1>3. tick' \in SeenTick
    BY <1>1, <1>2 DEF SeenTick
  <1>4. SeenStands'
    BY <1>1, <1>2 DEF SeenStands, ControlInv, TickInv, run, Unfinished
  <1>5. TickStands'
    BY <1>1, <1>2 DEF TickStands
  <1> QED BY <1>3, <1>4, <1>5 DEF TickInv, TickType

LEMMA ReadPodsTick == ControlInv /\ ReadPods => TickInv'
  <1> SUFFICES ASSUME ControlInv, ReadPods PROVE TickInv'
    OBVIOUS
  <1>0. tick.pc = "pods"
    BY DEF ReadPods, TickAt
  <1>1. /\ run \in Runs /\ tick.slot \in Inputs /\ slot = tick.slot /\ tick.seen \in RecordType
        /\ tick.seen.phase \in Unfinished
    BY <1>0, TickOfRun, TickHasSeen DEF ControlInv, TickInv, TickStands
  <1>2. PICK active \in BOOLEAN :
          tick' = [pc |-> "phase", slot |-> tick.slot, seen |-> tick.seen, active |-> active]
    BY DEF ReadPods
  <1>3. UNCHANGED <<slot, record>>
    BY DEF ReadPods, cluster
  <1>4. tick' \in PhaseTick
    BY <1>1, <1>2 DEF PhaseTick
  <1>5. SeenStands'
    BY <1>0, <1>1, <1>2, <1>3 DEF SeenStands, ControlInv, TickInv, run, Unfinished
  <1>6. TickStands'
    BY <1>1, <1>2, <1>3 DEF TickStands
  <1> QED BY <1>4, <1>5, <1>6 DEF TickInv, TickType

------------------------------------------------------------------------------
(* Every step.                                                             *)

SlotMoves == slot' # slot => \/ slot = NoRun
                             \/ slot' = NoRun /\ Over(slot.run)

LEMMA SlotKept == UNCHANGED slot => SlotMoves
  BY DEF SlotMoves

Kept == ClusterInv' /\ TickInv' /\ CallsStand' /\ RecordMoves /\ SlotMoves

(* Steps of the tick that only it can see.                                 *)
LEMMA UnseenTickStep ==
  ASSUME ControlInv, UNCHANGED cluster, TickInv',
         UNCHANGED call \/ EndTick(Resolved) \/ EndTick(Rejected)
  PROVE  Kept
  BY ClusterUnchanged, RecordKept, JobsKept, SlotKept, CallsKeptStand DEF Kept, cluster

LEMMA QuietTickSteps ==
  ASSUME ControlInv,
         \/ Timer \/ TickWithoutSlot \/ ReadRunner \/ ReadLastPublisher \/ DrainReleased
         \/ AwaitOperator \/ DrainRunner \/ DrainPending \/ Drained \/ PublisherPending
         \/ PatchNothing \/ ReadPods \/ TickConflict \/ TickFails
  PROVE  Kept
  <1>1. CASE \/ TickWithoutSlot \/ AwaitOperator \/ DrainPending \/ PublisherPending
             \/ TickConflict \/ TickFails
    <2>1. UNCHANGED cluster
      BY <1>1 DEF TickWithoutSlot, AwaitOperator, DrainPending, PublisherPending, TickConflict, TickFails
    <2>2. EndTick(Resolved) \/ EndTick(Rejected)
      BY <1>1 DEF TickWithoutSlot, AwaitOperator, DrainPending, PublisherPending, TickConflict,
                  TickFails, TickDone
    <2> QED BY <2>1, <2>2, TickEnded, UnseenTickStep DEF EndTick
  <1>2. CASE Timer
    BY <1>2, TimerTick, UnseenTickStep DEF Timer
  <1>3. CASE ReadRunner
    BY <1>3, ReadRunnerTick, UnseenTickStep DEF ReadRunner, Read
  <1>4. CASE ReadLastPublisher
    BY <1>4, ReadLastPublisherTick, UnseenTickStep DEF ReadLastPublisher, Read
  <1>5. CASE DrainReleased
    BY <1>5, DrainReleasedTick, UnseenTickStep DEF DrainReleased, Continue
  <1>6. CASE DrainRunner
    BY <1>6, DrainRunnerTick, UnseenTickStep DEF DrainRunner, Continue
  <1>7. CASE Drained
    BY <1>7, DrainedTick, UnseenTickStep DEF Drained
  <1>8. CASE PatchNothing
    <2>1. tick.pc = "suspend" /\ GoToPods /\ UNCHANGED cluster
      BY <1>8 DEF PatchNothing, TickAt
    <2> QED BY <2>1, ToPodsTick, UnseenTickStep DEF GoToPods, cluster
  <1>9. CASE ReadPods
    BY <1>9, ReadPodsTick, UnseenTickStep DEF ReadPods
  <1> QED BY <1>1, <1>2, <1>3, <1>4, <1>5, <1>6, <1>7, <1>8, <1>9

LEMMA WritingTickSteps ==
  ASSUME ControlInv,
         \/ EnsureRecord \/ RunnerComplete \/ RunnerFailed \/ EnsureRunner \/ Drain \/ Release
         \/ EnsurePublisher \/ PublisherEnded \/ Patch \/ SetPhase
  PROVE  Kept
  <1>1. CASE EnsureRecord
    <2>1. UNCHANGED <<slot, job, pods, call>>
      BY <1>1 DEF EnsureRecord
    <2> QED BY <1>1, <2>1, EnsureRecordCluster, EnsureRecordTick, EnsureRecordMoves, JobsKept,
               SlotKept, CallsKeptStand DEF Kept
  <1>2. CASE RunnerComplete
    <2>1. UNCHANGED <<slot, job, pods, call>> /\ SetRecord(Phase("publishing"))
      BY <1>2 DEF RunnerComplete, SetRecord
    <2>2. tick.pc = "decide" /\ tick.seen.phase \in Unfinished \cup {"publishing"}
      BY <1>2 DEF RunnerComplete, Working, Deciding, TickAt
    <2>3. RecordMoves
      BY <2>1, <2>2, PhaseMoves
    <2> QED BY <1>2, <2>1, <2>3, RunnerCompleteCluster, RunnerCompleteTick, JobsKept, SlotKept,
               CallsKeptStand DEF Kept
  <1>3. CASE RunnerFailed
    <2>1. UNCHANGED <<slot, job, pods>> /\ SetRecord(Phase("failed")) /\ EndTick(Resolved)
      BY <1>3 DEF RunnerFailed, SetRecord, TickDone
    <2>2. tick.pc = "decide" /\ tick.seen.phase \in Unfinished \cup {"publishing"}
      BY <1>3 DEF RunnerFailed, Working, Deciding, TickAt
    <2>3. RecordMoves
      BY <2>1, <2>2, PhaseMoves
    <2>4. TickInv'
      BY <2>1, TickEnded DEF EndTick
    <2> QED BY <1>3, <2>1, <2>3, <2>4, RunnerFailedCluster, JobsKept, SlotKept, CallsKeptStand DEF Kept
  <1>4. CASE EnsureRunner
    <2>1. UNCHANGED <<slot, record, call>>
      BY <1>4 DEF EnsureRunner
    <2> QED BY <1>4, <2>1, EnsureRunnerCluster, EnsureRunnerTick, EnsureRunnerKeepsAway, RecordKept,
               SlotKept, CallsKeptStand DEF Kept
  <1>5. CASE Drain
    <2>1. tick.pc = "drain" /\ Deleted(tick.name, tick.job) /\ EndTick(Resolved)
      BY <1>5 DEF Drain, TickAt, TickDone
    <2>2. tick.name \in Names
      BY <2>1, TickHasJob
    <2>3. UNCHANGED <<slot, record>>
      BY <2>1 DEF Deleted
    <2>4. TickInv'
      BY <2>1, TickEnded DEF EndTick
    <2> QED BY <2>1, <2>2, <2>3, <2>4, DeletedCluster, DeletedKeepsAway, RecordKept, SlotKept,
               CallsKeptStand DEF Kept
  <1>6. CASE Release
    <2>1. tick.pc = "release" /\ EndTick(Resolved) /\ UNCHANGED <<record, job, pods>> /\ slot' = NoRun
      BY <1>6 DEF Release, TickAt, TickDone
    <2>2. SlotMoves
      BY <2>1, TickOfRun DEF SlotMoves, ControlInv, TickInv, TickStands
    <2>3. TickInv'
      BY <2>1, TickEnded DEF EndTick
    <2> QED BY <1>6, <2>1, <2>2, <2>3, ReleaseCluster, RecordKept, JobsKept, CallsKeptStand DEF Kept
  <1>7. CASE EnsurePublisher
    <2>1. UNCHANGED <<slot, record, call>>
      BY <1>7 DEF EnsurePublisher
    <2> QED BY <1>7, <2>1, EnsurePublisherCluster, EnsurePublisherTick, EnsurePublisherKeepsAway,
               RecordKept, SlotKept, CallsKeptStand DEF Kept
  <1>8. CASE PublisherEnded
    <2>1. PICK phase \in {"completed", "publication-failed"} : SetRecord(Phase(phase))
      BY <1>8 DEF PublisherEnded
    <2>2. UNCHANGED <<slot, job, pods>> /\ EndTick(Resolved) /\ tick.pc = "published"
      BY <1>8 DEF PublisherEnded, SetRecord, TickDone, TickAt
    <2>3. RecordMoves
      <3>1. tick.seen.phase = "publishing"
        BY <2>2 DEF ControlInv, TickInv, TickStands
      <3> QED BY <2>1, <2>2, <3>1, PhaseMoves
    <2>4. TickInv'
      BY <2>2, TickEnded DEF EndTick
    <2> QED BY <1>8, <2>2, <2>3, <2>4, PublisherEndedCluster, JobsKept, SlotKept, CallsKeptStand DEF Kept
  <1>9. CASE Patch
    <2>1. tick.pc = "suspend" /\ GoToPods /\ UNCHANGED <<slot, record, call>>
      BY <1>9 DEF Patch, TickAt, GoToPods
    <2> QED BY <1>9, <2>1, PatchCluster, ToPodsTick, PatchKeepsAway, RecordKept, SlotKept,
               CallsKeptStand DEF Kept
  <1>10. CASE SetPhase
    <2>1. PICK phase \in Unfinished : UNCHANGED cluster \/ SetRecord(Phase(phase))
      BY <1>10 DEF SetPhase, PhaseSeen, Unfinished
    <2>2. UNCHANGED <<slot, job, pods>> /\ EndTick(Resolved) /\ tick.pc = "phase"
      BY <1>10 DEF SetPhase, SetRecord, TickDone, TickAt, cluster
    <2>3. RecordMoves
      <3>1. tick.seen.phase \in Unfinished
        BY <2>2 DEF ControlInv, TickInv, TickStands
      <3> QED BY <2>1, <2>2, <3>1, PhaseMoves, RecordKept DEF cluster
    <2>4. TickInv'
      BY <2>2, TickEnded DEF EndTick
    <2> QED BY <1>10, <2>2, <2>3, <2>4, SetPhaseCluster, JobsKept, SlotKept, CallsKeptStand DEF Kept
  <1> QED BY <1>1, <1>2, <1>3, <1>4, <1>5, <1>6, <1>7, <1>8, <1>9, <1>10

LEMMA CallSteps ==
  ASSUME ControlInv, NEW q \in Calls,
         CallStep(q) \/ CallCreate(q) \/ CallAction(q) \/ CallFails(q)
  PROVE  Kept
  <1>1. ASSUME UNCHANGED cluster PROVE ClusterInv' /\ RecordMoves /\ JobsStayAway /\ SlotMoves /\ OthersMove
    BY <1>1, ClusterUnchanged, RecordKept, JobsKept, SlotKept, NobodyMoves DEF cluster
  <1>2. CASE Answer(q)
    BY <1>1, <1>2, AnswerStands, TickStable DEF Answer, Kept
  <1>3. CASE CallCreate(q) \/ CreateOfKnownRun(q) \/ SlotTaken(q)
    <2>1. UNCHANGED <<cluster, tick>>
      BY <1>3 DEF CallCreate, CreateOfKnownRun, SlotTaken
    <2> QED BY <1>1, <1>3, <2>1, CreateStands, TickStable DEF Kept
  <1>4. CASE CallAction(q) \/ ReadForAction(q) \/ ReadPublisher(q) \/ PublicationDrained(q)
    <2>1. UNCHANGED <<cluster, tick>>
      BY <1>4 DEF CallAction, ReadForAction, ReadPublisher, PublicationDrained
    <2> QED BY <1>1, <1>4, <2>1, ActionStands, TickStable DEF Kept
  <1>5. CASE Reserve(q)
    <2>1. UNCHANGED <<record, job, pods>> /\ slot = NoRun /\ Join(q) /\ call[q].pc = "lookup"
      BY <1>5 DEF Reserve, CallAt
    <2>2. SlotMoves
      BY <2>1 DEF SlotMoves
    <2> QED BY <1>5, <2>1, <2>2, ReserveCluster, RecordKept, JobsKept, ReserveMovesGently, TickJoined,
               JoinStands DEF Kept
  <1>6. CASE CreateAgain(q)
    BY <1>1, <1>6, TickJoined, JoinStands DEF CreateAgain, CallAt, Kept
  <1>7. CASE SetDesired(q)
    <2>1. UNCHANGED <<slot, job, pods>> /\ Join(q) /\ call[q].pc = "act"
      BY <1>7 DEF SetDesired, Update, Acting, CallAt
    <2> QED BY <1>7, <2>1, SetDesiredCluster, SetDesiredMoves, JobsKept, SlotKept,
               SetDesiredMovesGently, TickJoined, JoinStands DEF Kept
  <1>8. CASE RetryPublication(q)
    <2>1. UNCHANGED <<slot, job, pods>> /\ Join(q) /\ call[q].pc = "retry"
      BY <1>8 DEF RetryPublication, Update, CallAt
    <2> QED BY <1>8, <2>1, RetryPublicationCluster, RetryMoves, JobsKept, SlotKept,
               RetryMovesGently, TickJoined, JoinStands DEF Kept
  <1>9. CASE DrainPublisher(q)
    <2>1. /\ Deleted(LastPublisher(q), call[q].job) /\ call' = [call EXCEPT ![q] = IdleCall]
          /\ UNCHANGED tick
      BY <1>9 DEF DrainPublisher
    <2>2. LastPublisher(q) \in Names
      <3>1. call[q].run \in Runs /\ call[q].seen \in RecordType
        BY <1>9 DEF DrainPublisher, CallAt, ControlInv, CallsStand, CallType, CreateCall, SlotCall,
                    PlainCall, ActCall, IdleCall, DrainCall
      <3> QED BY <3>1, ControlAssumption DEF LastPublisher, Publisher, Names, RecordType
    <2>3. UNCHANGED <<slot, record>>
      BY <2>1 DEF Deleted
    <2> QED BY <2>1, <2>2, <2>3, DeletedCluster, DeletedKeepsAway, DeletedMovesGently, RecordKept,
               SlotKept, AnswerStands, TickStable DEF Kept
  <1> QED BY <1>2, <1>3, <1>4, <1>5, <1>6, <1>7, <1>8, <1>9
    DEF CallStep, RunnerBusy, PublicationDraining, Status, CallConflict, CallFails

LEMMA OtherSteps == ControlInv /\ (Cluster \/ Restart \/ UNCHANGED vars) => Kept
  <1>1. ASSUME ControlInv, Cluster PROVE Kept
    <2>1. UNCHANGED <<slot, record, tick, call>>
      BY <1>1 DEF Cluster, PodStarts, PodExits, JobEnds, PodsRemoved, JobRemoved
    <2> QED BY <1>1, <2>1, ClusterStep, ClusterKeepsAway, ClusterMovesGently, RecordKept, SlotKept,
               CallsKeptStand, TickStable DEF Kept
  <1>2. ASSUME ControlInv, Restart PROVE Kept
    <2>1. CallsStand'
      BY <1>2 DEF Restart, CallsStand, CallType, CallStands, IdleCall
    <2> QED BY <1>2, <2>1, ClusterUnchanged, TickEnded, RecordKept, SlotKept DEF Restart, cluster, Kept
  <1>3. ASSUME ControlInv, UNCHANGED vars PROVE Kept
    BY <1>3, NobodyMoves, TickStable, UnseenTickStep DEF vars, cluster
  <1> QED BY <1>1, <1>2, <1>3

LEMMA ControlStep == ControlInv /\ [Next]_vars => Kept
  BY QuietTickSteps, WritingTickSteps, CallSteps, OtherSteps DEF Next, TickStep, Operator, Trouble

------------------------------------------------------------------------------
(* Everything a tick and a call rely on stands, at each of their steps: the *)
(* inductive invariant of the control API.                                  *)
THEOREM ControlIsSound == Spec => []ControlInv
  <1>1. ControlInv /\ [Next]_vars => ControlInv'
    BY ControlStep DEF ControlInv, Kept
  <1> QED BY ControlInit, <1>1, PTL DEF Spec

(* Every variable has its type: the control API never loses track of a step. *)
THEOREM ControlTypes == Spec => []ControlTypeOK
  <1>1. ControlInv => ControlTypeOK
    BY DEF ControlInv, ClusterInv, ClusterTypes, ControlTypeOK, TickInv, TickType, SlotTick, SeenTick,
           JobTick, PublishedTick, PhaseTick, ReleaseTick, IdleTick, CallsStand, CallType, CreateCall,
           SlotCall, PlainCall, ActCall, DrainCall, IdleCall
  <1> QED BY ControlIsSound, <1>1, PTL

LEMMA NamesAre ==
  ASSUME NEW n \in Names
  PROVE  n = <<n[1], n[2]>> /\ n[1] \in Runs /\ n[2] \in Attempts
  BY DEF Names, Attempts

(* The holder of the slot is the only run with Jobs or Pods in the cluster. *)
THEOREM OneTournament == Spec => []SlotCoversJobs
  <1>1. ControlInv => SlotCoversJobs
    BY NamesAre DEF ControlInv, ClusterInv, Covered, SlotCoversJobs
  <1> QED BY ControlIsSound, <1>1, PTL

(* A publisher never meets the runner, an earlier publisher or their Pods.  *)
THEOREM PublishesAlone == Spec => []PublisherIsAlone
  <1>1. ControlInv => PublisherIsAlone
    <2> SUFFICES ASSUME ControlInv, NEW r \in Runs, NEW a \in 1..MaxAttempts,
                        Exists(Publisher(r, a)), NEW n \in Names, Exists(n)
                 PROVE  n = Publisher(r, a)
      BY DEF PublisherIsAlone
    <2>1. a \in Attempts \ {0} /\ n = <<n[1], n[2]>> /\ n[1] \in Runs /\ n[2] \in Attempts
      BY NamesAre, ControlAssumption DEF Attempts
    <2>2. n[1] = r /\ n[2] # 0
      BY <2>1 DEF ControlInv, ClusterInv, Covered, Publisher
    <2>3. n[2] = a
      BY <2>1, <2>2 DEF ControlInv, ClusterInv, Covered, MayExist, Publisher
    <2> QED BY <2>1, <2>2, <2>3 DEF Publisher
  <1> QED BY ControlIsSound, <1>1, PTL

(* The control API calls a run completed only after a publisher succeeded.  *)
THEOREM CompletedMeansArchived == Spec => []CompletedIsArchived
  <1>1. ControlInv => CompletedIsArchived
    BY DEF ControlInv, ClusterInv
  <1> QED BY ControlIsSound, <1>1, PTL

(* The slot is given up only by a release, of a run that is over.           *)
THEOREM SlotIsHeld == Spec => ReleasedOnlyWhenOver
  <1>1. ControlInv /\ [Next]_vars =>
          [slot # NoRun /\ slot' # slot =>
             /\ slot' = NoRun
             /\ \/ record[slot.run].phase = "completed"
                \/ record[slot.run].phase = "failed" /\ record[slot.run].desired = "released"]_vars
    BY ControlStep DEF Kept, SlotMoves, Over
  <1> QED BY ControlIsSound, <1>1, PTL DEF Spec, ReleasedOnlyWhenOver

(* No step undoes what a run has come to, and only a retry counts one more  *)
(* attempt.                                                                 *)
THEOREM DecisionsAreFinal == Spec => DecisionsStand
  <1>1. ControlInv /\ [Next]_vars =>
          [\A r \in Runs : record[r] # NoRecord =>
             /\ record[r].phase \in {"completed", "failed"} => record'[r].phase = record[r].phase
             /\ record'[r].settings = record[r].settings
             /\ record'[r].attempt # record[r].attempt =>
                  /\ record[r].phase = "publication-failed"
                  /\ record'[r].attempt = record[r].attempt + 1]_vars
    BY ControlStep DEF Kept, RecordMoves, ControlInv, ClusterInv, ClusterTypes
  <1> QED BY ControlIsSound, <1>1, PTL DEF Spec, DecisionsStand
==============================================================================
