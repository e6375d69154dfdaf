----------------------------- MODULE RunnerProofs -----------------------------
(***************************************************************************)
(* Proofs about the tournament runner, for every schedule, every number of *)
(* rounds and workers and every cadence: types, the run's status, requests *)
(* and the acceptance lane; then the stages of a run: that an executor     *)
(* leaves nothing undone, that the checkpoint, the standings and the       *)
(* bracket say what the results back, that whatever is on disk can be      *)
(* resumed, and that the runner implements TournamentRun.                  *)
(***************************************************************************)
EXTENDS RunnerProperties, FiniteSetTheorems, SequenceTheorems, FunctionTheorems,
        WellFoundedInduction, TLAPS

------------------------------------------------------------------------------
(* The rules: what one more result changes, and for which series.          *)

(* The games of a series are numbered without gaps.                        *)
Numbered(E) ==
  \A e \in E : e.game \in 1..Cardinality(Games(E, e.round, e.series))

(* E with e added, where e is the next game of its series.                 *)
IsNext(E, e) == e.game = NextGame(E, e.round, e.series)

(* Any part of finitely many results can be counted.                       *)
LEMMA GamesFinite ==
  ASSUME NEW E, IsFiniteSet(E), NEW r, NEW s
  PROVE  /\ IsFiniteSet(Games(E, r, s))
         /\ Cardinality(Games(E, r, s)) \in Nat
         /\ NextGame(E, r, s) \in Nat
<1>1. Games(E, r, s) \in SUBSET E
  BY DEF Games
<1>2. IsFiniteSet(Games(E, r, s))
  BY <1>1, FS_Subset
<1>3. Cardinality(Games(E, r, s)) \in Nat
  BY <1>2, FS_CardinalityType
<1> QED
  BY <1>2, <1>3 DEF NextGame

(* A result changes the games of its own series only.                      *)
LEMMA OtherSeriesUntouched ==
  ASSUME NEW E, NEW e, NEW r, NEW s, e.round # r \/ e.series # s
  PROVE  /\ Games(E \cup {e}, r, s) = Games(E, r, s)
         /\ SeriesDone(E \cup {e}, r, s) <=> SeriesDone(E, r, s)
         /\ NextGame(E \cup {e}, r, s) = NextGame(E, r, s)
<1>1. Games(E \cup {e}, r, s) = Games(E, r, s)
  BY DEF Games
<1>2. \A slot : Wins(E \cup {e}, r, s, slot) = Wins(E, r, s, slot)
  <2> TAKE slot
  <2>1. {x \in Games(E \cup {e}, r, s) : x.outcome = slot}
          = {x \in Games(E, r, s) : x.outcome = slot}
    BY <1>1
  <2> QED
    BY <2>1 DEF Wins
<1>3. SeriesDecided(E \cup {e}, r, s) <=> SeriesDecided(E, r, s)
  BY <1>1, <1>2 DEF SeriesDecided
<1> QED
  BY <1>1, <1>3 DEF SeriesDone, NextGame

(* The next game of a series is a match without a result, and its result   *)
(* keeps the games numbered.                                               *)
LEMMA NextGameIsNew ==
  ASSUME NEW E, IsFiniteSet(E), Numbered(E), NEW e, IsNext(E, e)
  PROVE  /\ \A x \in E : ~SameMatch(x, e)
         /\ Numbered(E \cup {e})
<1> DEFINE n == Cardinality(Games(E, e.round, e.series))
           F == E \cup {e}
<1>1. n \in Nat /\ e.game = n + 1
  BY GamesFinite DEF IsNext, NextGame
<1>2. \A x \in E : ~SameMatch(x, e)
  <2> SUFFICES ASSUME NEW x \in E, SameMatch(x, e) PROVE FALSE
    OBVIOUS
  <2>1. x.game <= n /\ x.game = n + 1
    BY <1>1 DEF Numbered, SameMatch
  <2> QED
    BY <1>1, <2>1
<1>3. e \notin E
  BY <1>2 DEF SameMatch
<1>4. Games(F, e.round, e.series) = Games(E, e.round, e.series) \cup {e}
  BY DEF Games
<1>5. Cardinality(Games(F, e.round, e.series)) = n + 1
  <2>1. e \notin Games(E, e.round, e.series)
    BY <1>3 DEF Games
  <2>2. IsFiniteSet(Games(E, e.round, e.series))
    BY GamesFinite
  <2> QED
    BY <1>4, <2>1, <2>2, FS_AddElement
<1>6. Numbered(F)
  <2> SUFFICES ASSUME NEW x \in F
               PROVE  x.game \in 1..Cardinality(Games(F, x.round, x.series))
    BY DEF Numbered
  <2>1. CASE x = e
    BY <2>1, <1>1, <1>5
  <2>2. CASE x # e /\ x.round = e.round /\ x.series = e.series
    <3>1. x.game \in 1..n
      BY <2>2 DEF Numbered
    <3> QED
      BY <3>1, <2>2, <1>1, <1>5
  <2>3. CASE x # e /\ (x.round # e.round \/ x.series # e.series)
    <3>1. x \in E /\ Games(F, x.round, x.series) = Games(E, x.round, x.series)
      BY <2>3, OtherSeriesUntouched
    <3> QED
      BY <3>1 DEF Numbered
  <2> QED
    BY <2>1, <2>2, <2>3
<1> QED
  BY <1>2, <1>6

------------------------------------------------------------------------------
(* The inductive invariants.                                               *)

(* Types, and what typing the counters and the barriers takes: the results *)
(* are finitely many, and only a round that has a next one is followed.    *)
TypeInv ==
  /\ TypeOK
  /\ IsFiniteSet(Accepted)
  /\ IsFiniteSet(known)
  /\ proc \in {"nextBracket", "nextCheckpoint"} => active \in 1..(Rounds - 1)

(* The status is running wherever the process can change it or the files.  *)
StatusInv ==
  /\ proc \notin {"down", "loop", "plan"} => metadata = "running"
  /\ FailedRunHasDiagnostic
  /\ proc = "failMetadata" => failures # "none"
  /\ proc \in {"failAppend", "failMetadata"} =>
       /\ requestFailed /\ ~storageFailed
       /\ \A w \in Workers : worker[w].pc = "idle"

Undone(S) == \A s \in S : ~SeriesDone(Accepted, active, s)

LaneQueued ==
  /\ \A i, j \in DOMAIN lane : lane[i] = lane[j] => i = j
  /\ \A i \in DOMAIN lane : worker[lane[i]].pc = "queued"

ReadyInv ==
  proc \in {"snapCheckpoint", "snapStandings", "dispatch"} =>
    /\ worker = NoWorkers /\ lane = << >> /\ ~storageFailed
    /\ known = Accepted
    /\ Undone(todo)

WorkInv ==
  proc = "working" =>
    /\ storageFailed => stopAssigning
    /\ ~storageFailed => known = Accepted
    /\ LaneQueued
    /\ Undone(todo)
    /\ \A w \in Workers : worker[w].pc # "idle" => worker[w].series \notin todo

RequestInv ==
  /\ Numbered(Accepted)
  /\ UniqueResults
  /\ ReadyInv
  /\ WorkInv
  /\ RequestsAreNew

------------------------------------------------------------------------------
(* Facts about the helpers.                                                *)

(* What a worker asks for next is well typed.                              *)
LEMMA AskingType ==
  ASSUME IsFiniteSet(known), NEW s \in Nat
  PROVE  Asking(s) \in WorkerType
<1>1. NextGame(known, active, s) \in Nat
  BY GamesFinite
<1> QED
  BY <1>1 DEF Asking, Requesting, WorkerType

(* A result of a worker's game is an entry.                                *)
LEMMA HeadResultType ==
  ASSUME TypeOK, lane # << >>, NEW outcome \in OutcomesIn(active)
  PROVE  HeadResult(outcome) \in Entry
<1>1. Head(lane) \in Workers
  BY HeadTailProperties DEF TypeOK
<1>2. worker[Head(lane)] \in WorkerType
  BY <1>1 DEF TypeOK
<1>3. outcome \in {"played", "entrant1", "entrant2", "tie"}
  BY RulesAssumption DEF OutcomesIn
<1> QED
  BY <1>2, <1>3 DEF HeadResult, Entry, WorkerType, TypeOK

(* An appended record is one more accepted result.                         *)
LEMMA AppendAccepts ==
  ASSUME results \in Seq(Entry), NEW e \in Entry, AppendRecord(e)
  PROVE  /\ results' \in Seq(Entry)
         /\ Accepted' = Accepted \cup {e}
<1>1. results' = Append(results, e)
  BY DEF AppendRecord
<1>2. /\ results' \in Seq(Entry)
      /\ DOMAIN results' = 1..(Len(results) + 1)
      /\ DOMAIN results = 1..Len(results)
      /\ Len(results) \in Nat
      /\ results'[Len(results) + 1] = e
      /\ \A i \in 1..Len(results) : results'[i] = results[i]
  BY <1>1, AppendProperties, LenProperties
<1>3. \A i \in 1..(Len(results) + 1) : i \in 1..Len(results) \/ i = Len(results) + 1
  BY <1>2
<1>4. ASSUME NEW x PROVE x \in Accepted' <=> x \in Accepted \cup {e}
  <2>1. CASE x = e
    BY <2>1, <1>2 DEF Accepted
  <2>2. CASE x # e
    BY <2>2, <1>2, <1>3 DEF Accepted
  <2> QED
    BY <2>1, <2>2
<1> QED
  BY <1>2, <1>4

------------------------------------------------------------------------------
(* Type correctness.                                                       *)

(* The run directory is empty and nothing is being executed.               *)
LEMMA TypeInit == Init => TypeInv
<1> SUFFICES ASSUME Init PROVE TypeInv
  OBVIOUS
<1>1. roster \in BOOLEAN /\ torn \in BOOLEAN /\ stopping \in BOOLEAN
  BY DEF Init, EmptyDisk
<1>2. checkpoint \in CheckpointType /\ standings \in StandingsType
  BY RulesAssumption
     DEF Init, EmptyDisk, Checkpoint, CheckpointType, Standings, StandingsType
<1>3. bracket \in BracketType
  BY RulesAssumption DEF Init, EmptyDisk, Bracket, BracketType
<1>4. results \in Seq(Entry) /\ lane \in Seq(Workers)
  BY EmptySeq DEF Init, EmptyDisk
<1>5. DiskTypeOK
  BY <1>1, <1>2, <1>3, <1>4 DEF Init, EmptyDisk, DiskTypeOK
<1>6. /\ stopAssigning \in BOOLEAN
      /\ requestFailed \in BOOLEAN
      /\ storageFailed \in BOOLEAN
  BY DEF Init
<1>7. active \in 0..Rounds /\ worker \in [Workers -> WorkerType]
  BY RulesAssumption DEF Init, GroupStage, NoWorkers, Idle, WorkerType
<1>8. TypeOK
  BY <1>1, <1>4, <1>5, <1>6, <1>7 DEF Init, TypeOK, ProcStates
<1>9. Accepted = {}
  BY DEF Init, EmptyDisk, Accepted
<1> QED
  BY <1>8, <1>9, FS_EmptySet DEF TypeInv, Init

(* Ending an executor call, or the process, leaves nothing ill typed.      *)
LEMMA ForgetType ==
  ASSUME TypeInv, DiskTypeOK', proc' \in {"loop", "down"}, stopping' \in BOOLEAN,
         Forget, Accepted' = Accepted
  PROVE  TypeInv'
<1>1. NoWorkers \in [Workers -> WorkerType]
  BY DEF NoWorkers, Idle, WorkerType
<1>2. /\ stopAssigning' \in BOOLEAN
      /\ requestFailed' \in BOOLEAN
      /\ storageFailed' \in BOOLEAN
  BY DEF Forget, FreshExecutor
<1>3. active' \in 0..Rounds /\ lane' \in Seq(Workers)
  BY RulesAssumption, EmptySeq DEF Forget, FreshExecutor, GroupStage
<1>4. TypeOK'
  BY <1>1, <1>2, <1>3 DEF TypeOK, Forget, FreshExecutor, ProcStates
<1>5. IsFiniteSet(known')
  BY FS_EmptySet DEF Forget
<1> QED
  BY <1>4, <1>5 DEF TypeInv

(* A step of the sequential phases is well typed when its write is.        *)
LEMMA StepType ==
  ASSUME TypeInv, DiskTypeOK', NEW from, NEW to \in ProcStates, Step(from, to),
         to \in {"nextBracket", "nextCheckpoint"} => active \in 1..(Rounds - 1),
         Accepted' = Accepted
  PROVE  TypeInv'
  BY DEF TypeInv, TypeOK, Step, memory

(* Each write of a well-typed value leaves the disk well typed and, but    *)
(* for an append, the results alone.                                       *)
LEMMA PutTypes ==
  ASSUME DiskTypeOK
  PROVE  /\ UNCHANGED disk => DiskTypeOK' /\ Accepted' = Accepted
         /\ \A st \in {"running", "failed", "completed"} :
              PutMetadata(st) => DiskTypeOK' /\ Accepted' = Accepted
         /\ PutRoster => DiskTypeOK' /\ Accepted' = Accepted
         /\ \A stage \in {"groups", "knockout", "complete"}, r \in 0..Rounds,
               p \in Nat, n \in Nat :
              PutCheckpoint(stage, r, p, n) => DiskTypeOK' /\ Accepted' = Accepted
         /\ \A st \in {"provisional", "final"}, n \in Nat :
              PutStandings(st, n) => DiskTypeOK' /\ Accepted' = Accepted
         /\ \A st \in {"running", "completed"}, r \in 0..Rounds, G \in SUBSET Entry :
              PutBracket(st, r, G) => DiskTypeOK' /\ Accepted' = Accepted
         /\ TearRecord => DiskTypeOK' /\ Accepted' = Accepted
         /\ \A f \in {"lines", "torn"} :
              PutFailure(f) => DiskTypeOK' /\ Accepted' = Accepted
<1>1. UNCHANGED disk => DiskTypeOK' /\ Accepted' = Accepted
  BY DEF DiskTypeOK, disk, Accepted
<1>2. \A st \in {"running", "failed", "completed"} :
        PutMetadata(st) => DiskTypeOK' /\ Accepted' = Accepted
  BY DEF DiskTypeOK, PutMetadata, Accepted
<1>3. PutRoster => DiskTypeOK' /\ Accepted' = Accepted
  BY DEF DiskTypeOK, PutRoster, Accepted
<1>4. \A stage \in {"groups", "knockout", "complete"}, r \in 0..Rounds,
         p \in Nat, n \in Nat :
        PutCheckpoint(stage, r, p, n) => DiskTypeOK' /\ Accepted' = Accepted
  BY DEF DiskTypeOK, PutCheckpoint, Checkpoint, CheckpointType, Accepted
<1>5. \A st \in {"provisional", "final"}, n \in Nat :
        PutStandings(st, n) => DiskTypeOK' /\ Accepted' = Accepted
  BY DEF DiskTypeOK, PutStandings, Standings, StandingsType, Accepted
<1>6. \A st \in {"running", "completed"}, r \in 0..Rounds, G \in SUBSET Entry :
        PutBracket(st, r, G) => DiskTypeOK' /\ Accepted' = Accepted
  BY DEF DiskTypeOK, PutBracket, Bracket, BracketType, Accepted
<1>7. TearRecord => DiskTypeOK' /\ Accepted' = Accepted
  BY DEF DiskTypeOK, TearRecord, Accepted
<1>8. \A f \in {"lines", "torn"} :
        PutFailure(f) => DiskTypeOK' /\ Accepted' = Accepted
  BY DEF DiskTypeOK, PutFailure, Accepted
<1> QED
  BY <1>1, <1>2, <1>3, <1>4, <1>5, <1>6, <1>7, <1>8

(* The worker of the lane's head is a worker.                              *)
LEMMA HeadType ==
  ASSUME TypeOK, lane # << >>
  PROVE  /\ Head(lane) \in Workers
         /\ Tail(lane) \in Seq(Workers)
         /\ worker[Head(lane)] \in WorkerType
  BY HeadTailProperties DEF TypeOK

(* Dropping the head of the lane leaves nothing ill typed.                 *)
LEMMA DropHeadType ==
  ASSUME TypeInv, lane # << >>, DropHead, DiskTypeOK',
         stopAssigning' \in BOOLEAN, requestFailed' \in BOOLEAN,
         storageFailed' \in BOOLEAN, IsFiniteSet(Accepted')
  PROVE  TypeInv'
<1>1. worker' \in [Workers -> WorkerType] /\ lane' \in Seq(Workers)
  BY HeadType DEF TypeInv, TypeOK, DropHead, Idle, WorkerType
<1> QED
  BY <1>1 DEF TypeInv, TypeOK, DropHead

(* Going on after an accepted response is well typed.                      *)
LEMMA FinishAcceptanceType ==
  ASSUME TypeInv, lane # << >>, FinishAcceptance, DiskTypeOK', Accepted' = Accepted
  PROVE  TypeInv'
<1> DEFINE w == Head(lane)
<1>1. TypeOK /\ w \in Workers /\ worker[w].series \in Nat
  BY HeadType DEF TypeInv, WorkerType
<1>2. Idle \in WorkerType /\ \A s \in Nat : Asking(s) \in WorkerType
  BY AskingType DEF TypeInv, Idle, WorkerType
<1>3. todo' \subseteq Nat
  BY <1>1 DEF FinishAcceptance, TypeOK
<1>4. worker' \in [Workers -> WorkerType]
  BY <1>1, <1>2 DEF FinishAcceptance, TypeOK
<1>5. lane' \in Seq(Workers)
  BY <1>1, HeadType DEF FinishAcceptance
<1> QED
  BY <1>3, <1>4, <1>5 DEF TypeInv, TypeOK, FinishAcceptance

(* A schedule position is a number.                                        *)
LEMMA PlayedPrefixType ==
  ASSUME NEW E
  PROVE  PlayedPrefix(E) \in Nat
<1> DEFINE played == {n \in 1..GroupMatches :
                        \A s \in 1..n : SeriesDone(E, GroupStage, s)}
<1>1. IsFiniteSet(1..GroupMatches)
  BY RulesAssumption, FS_Interval
<1>2. played \in SUBSET (1..GroupMatches)
  OBVIOUS
<1> HIDE DEF played
<1>3. IsFiniteSet(played)
  BY <1>1, <1>2, FS_Subset
<1>4. Cardinality(played) \in Nat
  BY <1>3, FS_CardinalityType
<1> QED
  BY <1>4 DEF played, PlayedPrefix

(* An executor starts well typed.                                          *)
LEMMA LoadPlanType ==
  ASSUME TypeInv, NEW r \in 0..Rounds, LoadPlan(r), proc' \in ProcStates,
         proc' \notin {"nextBracket", "nextCheckpoint"}
  PROVE  TypeInv'
<1>1. DiskTypeOK' /\ Accepted' = Accepted
  BY PutTypes DEF TypeInv, TypeOK, LoadPlan
<1>2. count' \in Nat /\ known' \subseteq Entry /\ IsFiniteSet(known')
  <2>1. Accepted \subseteq Entry
    BY ElementOfSeq, LenProperties DEF TypeInv, TypeOK, DiskTypeOK, Accepted
  <2> QED
    BY <2>1, FS_CardinalityType DEF TypeInv, LoadPlan
<1>3. position' \in Nat
  <2>1. PlayedPrefix(Accepted) \in Nat
    BY PlayedPrefixType
  <2>2. Cardinality({e \in Accepted : e.round = r}) \in Nat
    <3>1. IsFiniteSet({e \in Accepted : e.round = r})
      BY FS_Subset DEF TypeInv
    <3> QED
      BY <3>1, FS_CardinalityType
  <2> QED
    BY <2>1, <2>2 DEF LoadPlan
<1>4. todo' \subseteq Nat
  BY DEF LoadPlan, Pending, SeriesIn
<1>5. worker' \in [Workers -> WorkerType] /\ lane' \in Seq(Workers)
  BY EmptySeq DEF LoadPlan, FreshExecutor, NoWorkers, Idle, WorkerType
<1>6. /\ stopAssigning' \in BOOLEAN
      /\ requestFailed' \in BOOLEAN
      /\ storageFailed' \in BOOLEAN
      /\ laneStep' = "append"
  BY DEF LoadPlan, FreshExecutor
<1> QED
  BY <1>1, <1>2, <1>3, <1>4, <1>5, <1>6 DEF TypeInv, TypeOK, LoadPlan

(* There is a knockout round to play.                                      *)
LEMMA ActiveRoundType ==
  ASSUME NEW E
  PROVE  ActiveRound(E) \in 1..Rounds
<1> DEFINE done == {r \in 1..(Rounds - 1) : \A q \in 1..r : StageComplete(E, q)}
<1>1. IsFiniteSet(1..(Rounds - 1)) /\ Cardinality(1..(Rounds - 1)) = Rounds - 1
  BY RulesAssumption, FS_Interval
<1>2. done \in SUBSET (1..(Rounds - 1))
  OBVIOUS
<1> HIDE DEF done
<1>3. IsFiniteSet(done) /\ Cardinality(done) <= Rounds - 1
  BY <1>1, <1>2, FS_Subset
<1>4. Cardinality(done) \in Nat
  BY <1>3, FS_CardinalityType
<1>5. ActiveRound(E) = 1 + Cardinality(done)
  BY DEF ActiveRound, done
<1> QED
  BY <1>3, <1>4, <1>5, RulesAssumption

(* Every step keeps the types.                                             *)
LEMMA TypePlan == TypeInv /\ (Start \/ Plan) => TypeInv'
<1> SUFFICES ASSUME TypeInv, Start \/ Plan PROVE TypeInv'
  OBVIOUS
<1> USE DEF ProcStates
<1>a. TypeOK /\ DiskTypeOK /\ count \in Nat /\ position \in Nat /\ active \in 0..Rounds
  BY DEF TypeInv, TypeOK
<1>1. CASE Start
  BY <1>1, <1>a, StepType, PutTypes DEF Start
<1>2. CASE StopInLoop
  BY <1>2, <1>a, ForgetType, PutTypes DEF StopInLoop, Exit
<1>3. CASE BeginPlan
  BY <1>3, <1>a, StepType, PutTypes DEF BeginPlan
<1>4. CASE InitializeMetadata
  BY <1>4, <1>a, StepType, PutTypes DEF InitializeMetadata
<1>5. CASE InitializeCheckpoint
  BY <1>5, <1>a, StepType, PutTypes, RulesAssumption DEF InitializeCheckpoint, GroupStage
<1>6. CASE ReturnTerminal
  BY <1>6, <1>a, ForgetType, PutTypes DEF ReturnTerminal, Exit
<1>7. CASE RefuseState
  BY <1>7, <1>a, ForgetType, PutTypes DEF RefuseState, Exit
<1>8. CASE CreateRoster
  BY <1>8, <1>a, StepType, PutTypes DEF CreateRoster
<1>9. CASE PlanGroups
  BY <1>9, RulesAssumption, LoadPlanType DEF PlanGroups, GroupStage
<1>10. CASE PlanKnockout
  <2> DEFINE r == ActiveRound(Accepted)
  <2>1. r \in 0..Rounds
    BY ActiveRoundType
  <2> QED
    BY <1>10, <2>1, LoadPlanType DEF PlanKnockout
<1>11. CASE SnapshotCheckpoint
  BY <1>11, <1>a, StepType, PutTypes, RulesAssumption DEF SnapshotCheckpoint, GroupStage
<1>12. CASE SnapshotStandings
  BY <1>12, <1>a, StepType, PutTypes DEF SnapshotStandings
<1>13. CASE RecoverBracket
  <2>1. GamesBefore(active) \in SUBSET Entry
    BY <1>a DEF GamesBefore, KnockoutGames, TypeOK
  <2> QED
    BY <1>13, <2>1, <1>a, StepType, PutTypes DEF RecoverBracket
<1>14. CASE RecoverCheckpoint
  BY <1>14, <1>a, ForgetType, PutTypes DEF RecoverCheckpoint, Return, TypeOK
<1> QED
  BY <1>1, <1>2, <1>3, <1>4, <1>5, <1>6, <1>7, <1>8, <1>9, <1>10, <1>11, <1>12, <1>13, <1>14 DEF Plan

(* The steps of the workers and of the lane keep the types.                *)
LEMMA TypeWork == TypeInv /\ (Work \/ BattleFault) => TypeInv'
<1> SUFFICES ASSUME TypeInv, Work \/ BattleFault PROVE TypeInv'
  OBVIOUS
<1>a. TypeOK /\ DiskTypeOK /\ count \in Nat /\ position \in Nat /\ active \in 0..Rounds
  BY DEF TypeInv, TypeOK
<1>b. UNCHANGED disk => DiskTypeOK' /\ Accepted' = Accepted
  BY <1>a, PutTypes
<1>1. CASE Dispatch
  <2>1. worker' \in [Workers -> WorkerType] /\ todo' \subseteq Nat
    <3>1. Idle \in WorkerType /\ \A s \in Nat : Asking(s) \in WorkerType
      BY AskingType DEF TypeInv, Idle, WorkerType
    <3>2. CASE Assigning
      <4>1. PICK first \in InitialSeries :
              /\ worker' = [w \in Workers |->
                   IF w \in DOMAIN first THEN Asking(first[w]) ELSE Idle]
              /\ todo' = todo \ {first[w] : w \in DOMAIN first}
        BY <1>1, <3>2 DEF Dispatch
      <4>2. \A w \in DOMAIN first : first[w] \in Nat
        BY <1>a DEF InitialSeries, TypeOK
      <4> QED
        BY <1>a, <3>1, <4>1, <4>2 DEF TypeOK
    <3>3. CASE ~Assigning
      BY <1>1, <1>a, <3>3 DEF Dispatch, TypeOK
    <3> QED
      BY <3>2, <3>3
  <2> QED
    BY <1>1, <1>b, <2>1 DEF Dispatch, TypeInv, TypeOK, ProcStates
<1>2. ASSUME NEW w \in Workers, RequestSucceeds(w) PROVE TypeInv'
  <2>1. worker' \in [Workers -> WorkerType]
    BY <1>2, <1>a DEF RequestSucceeds, TypeOK, WorkerType
  <2>2. lane' \in Seq(Workers)
    BY <1>2, <1>a, AppendProperties DEF RequestSucceeds, TypeOK
  <2> QED
    BY <1>2, <1>b, <2>1, <2>2 DEF RequestSucceeds, TypeInv, TypeOK
<1>3. CASE AppendResult
  <2>1. PICK outcome \in OutcomesIn(active) :
          /\ AppendRecord(HeadResult(outcome))
          /\ known' = known \cup {HeadResult(outcome)}
          /\ position' = IF active = GroupStage
                         THEN PlayedPrefix(known \cup {HeadResult(outcome)})
                         ELSE position + 1
    BY <1>3 DEF AppendResult
  <2> DEFINE e == HeadResult(outcome)
  <2>2. e \in Entry
    BY <1>3, <1>a, HeadResultType DEF AppendResult, LaneAt
  <2>3. results' \in Seq(Entry) /\ Accepted' = Accepted \cup {e}
    BY <2>1, <2>2, <1>a, AppendAccepts DEF DiskTypeOK
  <2>4. DiskTypeOK'
    BY <2>1, <2>3, <1>a DEF DiskTypeOK, AppendRecord
  <2>5. IsFiniteSet(Accepted') /\ IsFiniteSet(known') /\ known' \subseteq Entry
    BY <2>1, <2>2, <2>3, <1>a, FS_AddElement DEF TypeInv, TypeOK
  <2>6. position' \in Nat
    BY <2>1, <1>a, PlayedPrefixType
  <2>7. count' \in Nat
    BY <1>3, <1>a DEF AppendResult
  <2> QED
    BY <1>3, <2>4, <2>5, <2>6, <2>7 DEF AppendResult, LaneAt, TypeInv, TypeOK
<1>4. CASE WriteCheckpoint
  <2>1. DiskTypeOK' /\ Accepted' = Accepted
    BY <1>4, <1>a, PutTypes DEF WriteCheckpoint
  <2>2. CASE FinishAcceptance
    BY <1>4, <2>1, <2>2, FinishAcceptanceType DEF WriteCheckpoint, LaneAt
  <2>3. CASE ~FinishAcceptance
    BY <1>4, <2>1, <2>3 DEF WriteCheckpoint, LaneAt, TypeInv, TypeOK
  <2> QED
    BY <2>2, <2>3
<1>5. CASE WriteProvisionalStandings
  <2>1. DiskTypeOK' /\ Accepted' = Accepted
    BY <1>5, <1>a, PutTypes DEF WriteProvisionalStandings
  <2> QED
    BY <1>5, <2>1, FinishAcceptanceType DEF WriteProvisionalStandings, LaneAt
<1>6. CASE RefuseAfterStorageFailure
  BY <1>6, <1>a, <1>b, DropHeadType
     DEF RefuseAfterStorageFailure, LaneAt, TypeInv, TypeOK
<1>7. CASE RejectResponse
  <2>1. requestFailed' \in BOOLEAN /\ stopAssigning' \in BOOLEAN
    BY <1>7, <1>a DEF RejectResponse, RecordRequestFailure, TypeOK
  <2> QED
    BY <1>7, <1>a, <1>b, <2>1, DropHeadType DEF RejectResponse, LaneAt, TypeInv, TypeOK
<1>8. ASSUME NEW w \in Workers, RequestFails(w) PROVE TypeInv'
  <2>1. worker' \in [Workers -> WorkerType]
    BY <1>8, <1>a DEF RequestFails, TypeOK, Idle, WorkerType
  <2>2. requestFailed' \in BOOLEAN /\ stopAssigning' \in BOOLEAN
    BY <1>8, <1>a DEF RequestFails, RecordRequestFailure, TypeOK
  <2> QED
    BY <1>8, <1>b, <2>1, <2>2 DEF RequestFails, TypeInv, TypeOK
<1> QED
  BY <1>1, <1>2, <1>3, <1>4, <1>5, <1>6, <1>7, <1>8 DEF Work, BattleFault

(* The steps after the workers keep the types.                             *)
LEMMA TypeFinish == TypeInv /\ Finish => TypeInv'
<1> SUFFICES ASSUME TypeInv, Finish PROVE TypeInv'
  OBVIOUS
<1> USE DEF ProcStates
<1>a. TypeOK /\ DiskTypeOK /\ count \in Nat /\ position \in Nat /\ active \in 0..Rounds
  BY DEF TypeInv, TypeOK
<1>b. \A r : GamesBefore(r) \in SUBSET Entry
  BY <1>a DEF GamesBefore, KnockoutGames, TypeOK
<1>r. proc \in {"nextBracket", "nextCheckpoint"} => active + 1 \in 0..Rounds
  BY RulesAssumption DEF TypeInv
<1>1. CASE SettleStorageFailure
  BY <1>1, <1>a, ForgetType, PutTypes DEF SettleStorageFailure, Exit
<1>2. CASE SettleRequestFailure
  BY <1>2, <1>a, StepType, PutTypes DEF SettleRequestFailure
<1>3. CASE SettleInterrupted
  BY <1>3, <1>a, ForgetType, PutTypes DEF SettleInterrupted, Exit
<1>4. CASE SettleComplete
  <2> DEFINE to == CASE active = GroupStage     -> "finalStandings"
                     [] active \in 1..(Rounds - 1) -> "nextBracket"
                     [] active = Rounds         -> "doneBracket"
  <2>1. /\ to \in ProcStates
        /\ to \in {"nextBracket", "nextCheckpoint"} => active \in 1..(Rounds - 1)
    BY <1>a, RulesAssumption DEF GroupStage
  <2>2. Step("working", to) /\ UNCHANGED disk
    BY <1>4 DEF SettleComplete
  <2> HIDE DEF to
  <2> QED
    BY <2>1, <2>2, <1>a, StepType, PutTypes
<1>5. CASE AppendFailure
  BY <1>5, <1>a, StepType, PutTypes DEF AppendFailure
<1>6. CASE FailRun
  BY <1>6, <1>a, ForgetType, PutTypes DEF FailRun, Exit
<1>7. CASE WriteFinalStandings
  BY <1>7, <1>a, StepType, PutTypes DEF WriteFinalStandings
<1>8. CASE WriteInitialBracket
  BY <1>8, <1>a, StepType, PutTypes, RulesAssumption DEF WriteInitialBracket
<1>9. CASE EnterKnockout
  BY <1>9, <1>a, ForgetType, PutTypes, RulesAssumption DEF EnterKnockout, Return, TypeOK
<1>10. CASE WriteNextBracket
  <2>1. /\ Step("nextBracket", "nextCheckpoint")
        /\ PutBracket("running", active + 1, GamesBefore(active + 1))
    BY <1>10 DEF WriteNextBracket
  <2>2. active + 1 \in 0..Rounds /\ active \in 1..(Rounds - 1)
    BY <2>1, <1>r DEF Step, TypeInv
  <2>3. DiskTypeOK' /\ Accepted' = Accepted
    BY <2>1, <2>2, <1>a, <1>b, PutTypes
  <2> QED
    BY <2>1, <2>2, <2>3, StepType
<1>11. CASE EnterNextRound
  BY <1>11, <1>a, ForgetType, PutTypes, RulesAssumption, <1>r DEF EnterNextRound, Return, TypeOK
<1>12. CASE WriteCompletedBracket
  BY <1>12, <1>a, StepType, PutTypes, <1>b DEF WriteCompletedBracket
<1>13. CASE WriteCompleteCheckpoint
  BY <1>13, <1>a, StepType, PutTypes DEF WriteCompleteCheckpoint
<1>14. CASE CompleteRun
  BY <1>14, <1>a, ForgetType, PutTypes DEF CompleteRun, Return, TypeOK
<1> QED
  BY <1>1, <1>2, <1>3, <1>4, <1>5, <1>6, <1>7, <1>8, <1>9, <1>10, <1>11, <1>12, <1>13, <1>14 DEF Finish

(* Storage failures, signals and crashes keep the types.                   *)
LEMMA TypeFault == TypeInv /\ Fault => TypeInv'
<1> SUFFICES ASSUME TypeInv, Fault PROVE TypeInv'
  OBVIOUS
<1>a. TypeOK /\ DiskTypeOK /\ IsFiniteSet(Accepted)
  BY DEF TypeInv, TypeOK
<1>b. UNCHANGED disk => DiskTypeOK' /\ Accepted' = Accepted
  BY <1>a, PutTypes
<1>1. ASSUME RecordStorageFailure, lane # << >>, DiskTypeOK', IsFiniteSet(Accepted')
      PROVE  TypeInv'
  <2>1. /\ stopAssigning' \in BOOLEAN
        /\ requestFailed' \in BOOLEAN
        /\ storageFailed' \in BOOLEAN
    BY <1>1, <1>a DEF RecordStorageFailure, TypeOK
  <2> QED
    BY <1>1, <2>1, DropHeadType DEF RecordStorageFailure
<1>2. CASE AppendFails
  <2>1. DiskTypeOK' /\ IsFiniteSet(Accepted')
    <3>1. CASE UNCHANGED disk
      BY <3>1, <1>a, <1>b
    <3>2. CASE TearRecord
      BY <3>2, <1>a, PutTypes
    <3>3. ASSUME NEW outcome \in OutcomesIn(active), AppendRecord(HeadResult(outcome))
          PROVE  DiskTypeOK' /\ IsFiniteSet(Accepted')
      <4>1. HeadResult(outcome) \in Entry
        BY <1>2, <1>a, HeadResultType DEF AppendFails, LaneAt
      <4>2. results' \in Seq(Entry) /\ Accepted' = Accepted \cup {HeadResult(outcome)}
        BY <3>3, <4>1, <1>a, AppendAccepts DEF DiskTypeOK
      <4> QED
        BY <3>3, <4>2, <1>a, FS_AddElement DEF DiskTypeOK, AppendRecord
    <3> QED
      BY <1>2, <3>1, <3>2, <3>3 DEF AppendFails
  <2> QED
    BY <1>1, <1>2, <2>1 DEF AppendFails, LaneAt
<1>3. CASE ReplaceFails
  BY <1>1, <1>3, <1>a, <1>b DEF ReplaceFails, LaneAt
<1>4. CASE Sigterm
  BY <1>4, <1>b DEF Sigterm, memory, TypeInv, TypeOK
<1>5. CASE Crash
  <2>1. DiskTypeOK' /\ Accepted' = Accepted
    BY <1>5, <1>a, PutTypes DEF Crash
  <2> QED
    BY <1>5, <2>1, ForgetType DEF Crash, Exit
<1> QED
  BY <1>2, <1>3, <1>4, <1>5 DEF Fault

(* TypeInv is inductive.                                                   *)
LEMMA TypeNext == TypeInv /\ [Next]_vars => TypeInv'
<1>1. TypeInv /\ UNCHANGED vars => TypeInv'
  BY DEF vars, disk, memory, TypeInv, TypeOK, DiskTypeOK, Accepted
<1> QED
  BY <1>1, TypePlan, TypeWork, TypeFinish, TypeFault DEF Next

(* The types are right in every reachable state, whatever the size of the  *)
(* tournament and however many workers run it.                             *)
THEOREM TypeCorrect == Spec => []TypeOK
<1>1. TypeInv => TypeOK
  BY DEF TypeInv
<1> QED
  BY TypeInit, TypeNext, <1>1, PTL DEF Spec

------------------------------------------------------------------------------
(* The status of the run.                                                  *)

Outside == {"down", "loop", "plan"}

(* The steps that write the metadata or the diagnostics.                   *)
LEMMA WhoWrites ==
  Next => \/ UNCHANGED <<metadata, failures>>
          \/ InitializeMetadata \/ FailRun \/ CompleteRun \/ AppendFailure
          \/ Crash /\ metadata' = metadata
              /\ (failures' = failures \/ failures' = "torn")
<1> SUFFICES ASSUME Next,
                    ~InitializeMetadata, ~FailRun, ~CompleteRun, ~AppendFailure
             PROVE  \/ UNCHANGED <<metadata, failures>>
                    \/ Crash /\ metadata' = metadata
                        /\ (failures' = failures \/ failures' = "torn")
  OBVIOUS
<1> USE DEF disk, PutRoster, PutCheckpoint, PutStandings, PutBracket, AppendRecord,
            TearRecord
<1>1. CASE Start
  BY <1>1 DEF Start
<1>2. CASE Plan
  BY <1>2 DEF Plan, StopInLoop, BeginPlan, InitializeCheckpoint, ReturnTerminal,
     RefuseState, CreateRoster, PlanGroups, PlanKnockout, LoadPlan, SnapshotCheckpoint,
     SnapshotStandings, RecoverBracket, RecoverCheckpoint
<1>3. CASE Work
  BY <1>3 DEF Work, Dispatch, RequestSucceeds, AppendResult, WriteCheckpoint,
     WriteProvisionalStandings, RefuseAfterStorageFailure
<1>4. CASE Finish
  BY <1>4 DEF Finish, SettleStorageFailure, SettleRequestFailure, SettleInterrupted,
     SettleComplete, WriteFinalStandings, WriteInitialBracket, EnterKnockout,
     WriteNextBracket, EnterNextRound, WriteCompletedBracket, WriteCompleteCheckpoint
<1>5. CASE BattleFault
  BY <1>5 DEF BattleFault, RejectResponse, RequestFails
<1>6. CASE AppendFails \/ ReplaceFails \/ Sigterm
  BY <1>6 DEF AppendFails, ReplaceFails, Sigterm
<1>7. CASE Crash
  BY <1>7 DEF Crash, PutFailure
<1> QED
  BY <1>1, <1>2, <1>3, <1>4, <1>5, <1>6, <1>7 DEF Next, Fault

(* The executors' steps begin where a plan was made.                       *)
LEMMA WorkIsInside ==
  ASSUME Work \/ Finish \/ BattleFault \/ AppendFails \/ ReplaceFails
  PROVE  proc \notin Outside
<1> USE DEF Outside, Step, Return, LaneAt, Settled
<1>1. CASE Work
  BY <1>1 DEF Work, Dispatch, RequestSucceeds, AppendResult, WriteCheckpoint,
     WriteProvisionalStandings, RefuseAfterStorageFailure
<1>2. CASE Finish
  BY <1>2 DEF Finish, SettleStorageFailure, SettleRequestFailure, SettleInterrupted,
     SettleComplete, AppendFailure, FailRun, WriteFinalStandings, WriteInitialBracket,
     EnterKnockout, WriteNextBracket, EnterNextRound, WriteCompletedBracket,
     WriteCompleteCheckpoint, CompleteRun
<1>3. CASE BattleFault \/ AppendFails \/ ReplaceFails
  BY <1>3 DEF BattleFault, RejectResponse, RequestFails, AppendFails, ReplaceFails
<1> QED
  BY <1>1, <1>2, <1>3

(* Where a step that takes the process inside, or keeps it there, leads.   *)
LEMMA InsideIsRunning ==
  ASSUME StatusInv, Next, proc' \notin Outside
  PROVE  metadata' = "running"
<1> USE DEF Outside, Step, Return, Exit
<1>1. CASE Start \/ StopInLoop \/ BeginPlan \/ ReturnTerminal \/ RefuseState
           \/ CreateRoster \/ RecoverCheckpoint \/ Crash
  BY <1>1 DEF Start, StopInLoop, BeginPlan, ReturnTerminal, RefuseState, CreateRoster,
     RecoverCheckpoint, Crash
<1>2. CASE InitializeMetadata
  BY <1>2 DEF InitializeMetadata, PutMetadata
<1>3. CASE InitializeCheckpoint \/ SnapshotCheckpoint \/ SnapshotStandings
           \/ RecoverBracket
  BY <1>3 DEF InitializeCheckpoint, SnapshotCheckpoint, SnapshotStandings,
     RecoverBracket, PutCheckpoint, PutStandings, PutBracket, StatusInv
<1>4. CASE PlanGroups \/ PlanKnockout
  BY <1>4 DEF PlanGroups, PlanKnockout, Planning, LoadPlan, disk
<1>5. CASE Work \/ Finish \/ BattleFault \/ AppendFails \/ ReplaceFails
  <2>1. metadata = "running"
    BY <1>5, WorkIsInside DEF StatusInv
  <2>2. CASE FailRun \/ CompleteRun
    BY <2>2 DEF FailRun, CompleteRun
  <2>3. CASE ~FailRun /\ ~CompleteRun
    BY <2>1, <2>3, <1>5, WhoWrites, WorkIsInside
       DEF AppendFailure, InitializeMetadata, PutFailure
  <2> QED
    BY <2>2, <2>3
<1>6. CASE Sigterm
  BY <1>6 DEF Sigterm, disk, StatusInv
<1> QED
  BY <1>1, <1>2, <1>3, <1>4, <1>5, <1>6 DEF Next, Plan, Fault

(* A run that does not exist yet has no status to explain.                 *)
LEMMA StatusInit == Init => StatusInv
  BY DEF Init, EmptyDisk, StatusInv, FailedRunHasDiagnostic

(* StatusInv is inductive, given the types.                                *)
LEMMA StatusNext == TypeInv /\ StatusInv /\ [Next]_vars => StatusInv'
<1> SUFFICES ASSUME TypeInv, StatusInv, [Next]_vars PROVE StatusInv'
  OBVIOUS
<1>1. CASE UNCHANGED vars
  BY <1>1 DEF vars, disk, memory, StatusInv, FailedRunHasDiagnostic
<1>2. CASE Next
  <2>1. proc' \notin {"down", "loop", "plan"} => metadata' = "running"
    BY <1>2, InsideIsRunning DEF Outside
  <2>2. failures # "none" => failures' # "none"
    BY <1>2, WhoWrites DEF InitializeMetadata, FailRun, CompleteRun, AppendFailure,
       PutMetadata, PutFailure
  <2>3. FailedRunHasDiagnostic'
    BY <1>2, <2>2, WhoWrites DEF InitializeMetadata, FailRun, CompleteRun, AppendFailure,
       PutMetadata, PutFailure, StatusInv, FailedRunHasDiagnostic
  <2>4. ASSUME proc' \in {"failAppend", "failMetadata"}
        PROVE  \/ SettleRequestFailure
               \/ AppendFailure
               \/ Sigterm
    <3> USE DEF Step, Return, Exit, LaneAt, Settled
    <3>1. CASE Start \/ Plan
      BY <2>4, <3>1 DEF Start, Plan, StopInLoop, BeginPlan, InitializeMetadata,
         InitializeCheckpoint, ReturnTerminal, RefuseState, CreateRoster, PlanGroups,
         PlanKnockout, SnapshotCheckpoint, SnapshotStandings, RecoverBracket,
         RecoverCheckpoint
    <3>2. CASE Work \/ BattleFault
      BY <2>4, <3>2 DEF Work, Dispatch, RequestSucceeds, AppendResult, WriteCheckpoint,
         WriteProvisionalStandings, RefuseAfterStorageFailure, FinishAcceptance,
         DropHead, BattleFault, RejectResponse, RequestFails
    <3>3. CASE SettleComplete
      <4>1. CASE active = GroupStage \/ active \in 1..(Rounds - 1) \/ active = Rounds
        BY <2>4, <3>3, <4>1 DEF SettleComplete
      <4> QED
        BY <3>3, <4>1, RulesAssumption DEF TypeInv, TypeOK, GroupStage
    <3>4. CASE Finish /\ ~SettleComplete
      BY <2>4, <3>4 DEF Finish, SettleStorageFailure, SettleRequestFailure,
         SettleInterrupted, AppendFailure, FailRun, WriteFinalStandings,
         WriteInitialBracket, EnterKnockout, WriteNextBracket, EnterNextRound,
         WriteCompletedBracket, WriteCompleteCheckpoint, CompleteRun
    <3>5. CASE Fault
      BY <2>4, <3>5 DEF Fault, AppendFails, ReplaceFails, RecordStorageFailure,
         DropHead, Crash
    <3> QED
      BY <1>2, <3>1, <3>2, <3>3, <3>4, <3>5 DEF Next
  <2>5. proc' = "failMetadata" => failures' # "none"
    BY <2>2, <2>4 DEF SettleRequestFailure, AppendFailure, Sigterm, Step, PutFailure,
       StatusInv, disk
  <2>6. proc' \in {"failAppend", "failMetadata"} =>
          /\ requestFailed' /\ ~storageFailed'
          /\ \A w \in Workers : worker'[w].pc = "idle"
    BY <2>4 DEF SettleRequestFailure, AppendFailure, Sigterm, Step, Settled, memory,
       StatusInv
  <2> QED
    BY <2>1, <2>3, <2>5, <2>6 DEF StatusInv, Workers
<1> QED
  BY <1>1, <1>2

(* A failed run always has the record of the request that failed it.       *)
THEOREM FailureIsRecorded == Spec => []FailedRunHasDiagnostic
<1>1. StatusInv => FailedRunHasDiagnostic
  BY DEF StatusInv
<1> QED
  BY TypeInit, TypeNext, StatusInit, StatusNext, <1>1, PTL DEF Spec

(* Storage trouble, a stop or a crash never fails a run.                   *)
THEOREM OnlyRequestsFail == Spec => OnlyRequestFailuresFailRun
<1>1. StatusInv /\ [Next]_vars =>
        [metadata' = "failed" /\ metadata # "failed" =>
           /\ requestFailed /\ ~storageFailed
           /\ \A w \in Workers : worker[w].pc = "idle"]_vars
  BY WhoWrites DEF InitializeMetadata, FailRun, CompleteRun, AppendFailure, PutMetadata,
     PutFailure, StatusInv
<1> QED
  BY TypeInit, TypeNext, StatusInit, StatusNext, <1>1, PTL DEF Spec, OnlyRequestFailuresFailRun

(* Where a run has completed or failed, no step changes a file.            *)
LEMMA TerminalStep ==
  ASSUME StatusInv, Next, Terminal
  PROVE  UNCHANGED disk
<1>1. proc \in Outside
  BY DEF StatusInv, Outside, Terminal
<1>2. ~(Work \/ Finish \/ BattleFault \/ AppendFails \/ ReplaceFails)
  BY <1>1, WorkIsInside
<1>3. CASE Start \/ Plan
  BY <1>1, <1>3
     DEF Start, Plan, StopInLoop, BeginPlan, InitializeMetadata, InitializeCheckpoint,
     ReturnTerminal, RefuseState, CreateRoster, PlanGroups, PlanKnockout, Planning,
     LoadPlan, SnapshotCheckpoint, SnapshotStandings, RecoverBracket,
     RecoverCheckpoint, Terminal, Outside, Step, Return
<1>4. CASE Sigterm \/ Crash
  BY <1>1, <1>4 DEF Sigterm, Crash, LaneAt, Outside
<1> QED
  BY <1>2, <1>3, <1>4 DEF Next, Fault

(* Once a run has completed or failed, no process changes its files.       *)
THEOREM TerminalStays == Spec => TerminalIsFinal
<1>1. StatusInv /\ [Next]_vars => [Terminal => UNCHANGED disk]_vars
  BY TerminalStep
<1> QED
  BY TypeInit, TypeNext, StatusInit, StatusNext, <1>1, PTL DEF Spec, TerminalIsFinal

------------------------------------------------------------------------------
(* One record per match, and only new matches are asked for.               *)

Appends == AppendResult \/ (AppendFails /\ \E outcome \in OutcomesIn(active) :
                                             AppendRecord(HeadResult(outcome)))

(* Only the lane appends results.                                          *)
LEMMA WhoAppends == Next => UNCHANGED results \/ Appends
<1> SUFFICES ASSUME Next, ~Appends PROVE UNCHANGED results
  OBVIOUS
<1> USE DEF disk, PutRoster, PutCheckpoint, PutStandings, PutBracket, PutMetadata,
            PutFailure, TearRecord
<1>1. CASE Start
  BY <1>1 DEF Start
<1>2. CASE Plan
  BY <1>2 DEF Plan, StopInLoop, BeginPlan, InitializeMetadata, InitializeCheckpoint,
     ReturnTerminal, RefuseState, CreateRoster, PlanGroups, PlanKnockout, LoadPlan,
     SnapshotCheckpoint, SnapshotStandings, RecoverBracket, RecoverCheckpoint
<1>3. CASE Work
  BY <1>3 DEF Work, Dispatch, RequestSucceeds, Appends, WriteCheckpoint,
     WriteProvisionalStandings, RefuseAfterStorageFailure
<1>4. CASE Finish
  BY <1>4 DEF Finish, SettleStorageFailure, SettleRequestFailure, SettleInterrupted,
     SettleComplete, AppendFailure, FailRun, WriteFinalStandings, WriteInitialBracket,
     EnterKnockout, WriteNextBracket, EnterNextRound, WriteCompletedBracket,
     WriteCompleteCheckpoint, CompleteRun
<1>5. CASE BattleFault
  BY <1>5 DEF BattleFault, RejectResponse, RequestFails
<1>6. CASE Fault
  BY <1>6 DEF Fault, AppendFails, ReplaceFails, Sigterm, Crash, Appends
<1> QED
  BY <1>1, <1>2, <1>3, <1>4, <1>5, <1>6 DEF Next

(* What the result at the head of the lane does to the log.                *)
LEMMA AppendedResult ==
  ASSUME TypeInv, RequestInv, LaneAt("append"),
         NEW outcome \in OutcomesIn(active), AppendRecord(HeadResult(outcome))
  PROVE  /\ Accepted' = Accepted \cup {HeadResult(outcome)}
         /\ Numbered(Accepted')
         /\ UniqueResults'
         /\ \A s : s # worker[Head(lane)].series =>
              /\ SeriesDone(Accepted', active, s) <=> SeriesDone(Accepted, active, s)
              /\ NextGame(Accepted', active, s) = NextGame(Accepted, active, s)
<1> DEFINE w == Head(lane)
           e == HeadResult(outcome)
<1>1. w \in Workers /\ TypeOK /\ results \in Seq(Entry)
  BY HeadType DEF LaneAt, TypeInv, TypeOK, DiskTypeOK
<1>2. e \in Entry
  BY <1>1, HeadResultType DEF LaneAt
<1>3. results' \in Seq(Entry) /\ Accepted' = Accepted \cup {e}
  BY <1>1, <1>2, AppendAccepts
<1>4. IsNext(Accepted, e)
  <2>1. worker[w].pc = "queued"
    <3>1. 1 \in DOMAIN lane /\ lane[1] = w
      BY <1>1, LenProperties, EmptySeq DEF LaneAt, TypeOK
    <3> QED
      BY <3>1 DEF RequestInv, WorkInv, LaneQueued, LaneAt
  <2>2. worker[w].game = NextGame(Accepted, active, worker[w].series)
    BY <1>1, <2>1 DEF RequestInv, RequestsAreNew, LaneAt
  <2> QED
    BY <2>2 DEF IsNext, HeadResult
<1>5. (\A x \in Accepted : ~SameMatch(x, e)) /\ Numbered(Accepted')
  BY <1>3, <1>4, NextGameIsNew DEF TypeInv, RequestInv
<1>6. UniqueResults'
  <2>1. /\ results' = Append(results, e)
        /\ DOMAIN results = 1..Len(results) /\ Len(results) \in Nat
        /\ DOMAIN results' = 1..(Len(results) + 1)
        /\ results'[Len(results) + 1] = e
        /\ \A i \in 1..Len(results) : results'[i] = results[i]
    BY <1>1, <1>2, <1>3, AppendProperties, LenProperties DEF AppendRecord
  <2> SUFFICES ASSUME NEW i \in DOMAIN results', NEW j \in DOMAIN results',
                      SameMatch(results'[i], results'[j])
               PROVE  i = j
    BY DEF UniqueResults
  <2>2. \A k \in 1..Len(results) : /\ ~SameMatch(results[k], e)
                                   /\ ~SameMatch(e, results[k])
    BY <1>5, <2>1 DEF Accepted, SameMatch
  <2>3. CASE i \in 1..Len(results) /\ j \in 1..Len(results)
    BY <2>1, <2>3 DEF RequestInv, UniqueResults
  <2>4. CASE i = Len(results) + 1 \/ j = Len(results) + 1
    BY <2>1, <2>2, <2>4
  <2> QED
    BY <2>1, <2>3, <2>4
<1>7. ASSUME NEW s, s # worker[w].series
      PROVE  /\ SeriesDone(Accepted', active, s) <=> SeriesDone(Accepted, active, s)
             /\ NextGame(Accepted', active, s) = NextGame(Accepted, active, s)
  <2>1. e.series # s
    BY <1>7 DEF HeadResult
  <2> HIDE DEF e
  <2>2. /\ SeriesDone(Accepted \cup {e}, active, s) <=> SeriesDone(Accepted, active, s)
        /\ NextGame(Accepted \cup {e}, active, s) = NextGame(Accepted, active, s)
    BY <2>1, OtherSeriesUntouched
  <2> QED
    BY <1>3, <2>2
<1> QED
  BY <1>3, <1>5, <1>6, <1>7

(* Every step keeps the games numbered and their records unique.           *)
LEMMA LogNext ==
  TypeInv /\ RequestInv /\ Next => Numbered(Accepted') /\ UniqueResults'
<1> SUFFICES ASSUME TypeInv, RequestInv, Next
             PROVE  Numbered(Accepted') /\ UniqueResults'
  OBVIOUS
<1>1. CASE UNCHANGED results
  BY <1>1 DEF RequestInv, Accepted, UniqueResults
<1>2. CASE Appends
  <2>1. PICK outcome \in OutcomesIn(active) : AppendRecord(HeadResult(outcome))
    BY <1>2 DEF Appends, AppendResult
  <2>2. LaneAt("append")
    BY <1>2 DEF Appends, AppendResult, AppendFails
  <2> QED
    BY <2>1, <2>2, AppendedResult
<1> QED
  BY <1>1, <1>2, WhoAppends

(* An executor starts with the log in memory and its open series to do.    *)
LEMMA ReadyNext == TypeInv /\ ReadyInv /\ Next => ReadyInv'
<1> DEFINE Ready == {"snapCheckpoint", "snapStandings", "dispatch"}
<1> SUFFICES ASSUME TypeInv, ReadyInv, Next, proc' \in Ready
             PROVE  /\ worker' = NoWorkers /\ lane' = << >> /\ ~storageFailed'
                    /\ known' = Accepted'
                    /\ Undone(todo)'
  BY DEF ReadyInv
<1>1. \/ PlanGroups \/ PlanKnockout
      \/ proc \in Ready /\ UNCHANGED <<memory, results>>
  <2> USE DEF Step, Return, Exit, LaneAt, Settled, disk, memory, PutCheckpoint,
              PutStandings
  <2>1. CASE Start \/ Plan
    BY <2>1 DEF Start, Plan, StopInLoop, BeginPlan, InitializeMetadata,
       InitializeCheckpoint, ReturnTerminal, RefuseState, CreateRoster,
       SnapshotCheckpoint, SnapshotStandings, RecoverBracket, RecoverCheckpoint
  <2>2. CASE Work \/ BattleFault
    BY <2>2 DEF Work, Dispatch, RequestSucceeds, AppendResult, WriteCheckpoint,
       WriteProvisionalStandings, RefuseAfterStorageFailure, FinishAcceptance,
       DropHead, BattleFault, RejectResponse, RequestFails
  <2>3. CASE SettleComplete
    <3>1. active = GroupStage \/ active \in 1..(Rounds - 1) \/ active = Rounds
      BY RulesAssumption DEF TypeInv, TypeOK, GroupStage
    <3> QED
      BY <2>3, <3>1 DEF SettleComplete
  <2>4. CASE Finish /\ ~SettleComplete
    BY <2>4 DEF Finish, SettleStorageFailure, SettleRequestFailure, SettleInterrupted,
       AppendFailure, FailRun, WriteFinalStandings, WriteInitialBracket, EnterKnockout,
       WriteNextBracket, EnterNextRound, WriteCompletedBracket,
       WriteCompleteCheckpoint, CompleteRun
  <2>5. CASE Fault
    BY <2>5 DEF Fault, AppendFails, ReplaceFails, RecordStorageFailure, DropHead,
       Sigterm, Crash
  <2> QED
    BY <2>1, <2>2, <2>3, <2>4, <2>5 DEF Next
<1>2. CASE PlanGroups \/ PlanKnockout
  <2>1. PICK r : LoadPlan(r)
    BY <1>2 DEF PlanGroups, PlanKnockout
  <2>2. Accepted' = Accepted
    BY <2>1 DEF LoadPlan, disk, Accepted
  <2> QED
    BY <2>1, <2>2 DEF LoadPlan, FreshExecutor, Undone, Pending
<1>3. CASE proc \in Ready /\ UNCHANGED <<memory, results>>
  BY <1>3 DEF ReadyInv, memory, Undone, Accepted
<1> QED
  BY <1>1, <1>2, <1>3

Busy(w) == worker[w].pc # "idle"

NewFor(w) ==
  /\ worker[w].game = NextGame(Accepted, active, worker[w].series)
  /\ ~SeriesDone(Accepted, active, worker[w].series)

Distinct ==
  \A v, w \in Workers : v # w /\ Busy(v) /\ Busy(w) => worker[v].series # worker[w].series

(* RequestsAreNew in terms of single workers.                              *)
LEMMA NewRequests ==
  proc = "working" =>
    (RequestsAreNew <=>
       /\ Distinct
       /\ \A w \in Workers : Busy(w) =>
            NewFor(w) \/ (lane # << >> /\ w = Head(lane) /\ laneStep # "append"))
  BY DEF RequestsAreNew, Distinct, Busy, NewFor

(* The worker at the head of the lane is queued, and is in it only once.   *)
LEMMA HeadQueued ==
  ASSUME TypeOK, lane # << >>, LaneQueued
  PROVE  /\ Head(lane) \in Workers
         /\ worker[Head(lane)].pc = "queued"
<1>1. 1 \in DOMAIN lane /\ lane[1] = Head(lane)
  BY LenProperties, EmptySeq DEF TypeOK
<1> QED
  BY <1>1, HeadType DEF LaneQueued

(* The rest of the lane stays queued when its head leaves.                 *)
LEMMA TailQueued ==
  ASSUME TypeOK, lane # << >>, LaneQueued, lane' = Tail(lane),
         \A v \in Workers : v # Head(lane) => worker'[v] = worker[v]
  PROVE  LaneQueued'
<1>1. /\ DOMAIN lane = 1..Len(lane) /\ Len(lane) \in Nat \ {0}
      /\ Head(lane) = lane[1]
      /\ \A i \in DOMAIN lane : lane[i] \in Workers
  BY LenProperties, EmptySeq, ElementOfSeq DEF TypeOK
<1>2. /\ DOMAIN lane' = 1..(Len(lane) - 1)
      /\ \A i \in 1..(Len(lane) - 1) : lane'[i] = lane[i + 1]
  BY HeadTailProperties, LenProperties DEF TypeOK
<1>3. \A i \in DOMAIN lane' : /\ i + 1 \in DOMAIN lane
                              /\ i + 1 # 1
                              /\ lane'[i] = lane[i + 1]
  BY <1>1, <1>2
<1>4. \A i \in DOMAIN lane' : lane'[i] # Head(lane) /\ lane'[i] \in Workers
  BY <1>1, <1>3 DEF LaneQueued
<1>5. \A i \in DOMAIN lane' : worker'[lane'[i]].pc = "queued"
  BY <1>3, <1>4 DEF LaneQueued
<1>6. \A i, j \in DOMAIN lane' : lane'[i] = lane'[j] => i = j
  BY <1>2, <1>3 DEF LaneQueued
<1> QED
  BY <1>5, <1>6 DEF LaneQueued

(* The head leaves the lane for good, its result appended or not.          *)
LEMMA HeadDropped ==
  ASSUME TypeInv, WorkInv, RequestsAreNew, proc = "working", lane # << >>, DropHead,
         storageFailed' => stopAssigning',
         ~storageFailed' => known' = Accepted',
         \A s : s # worker[Head(lane)].series =>
           /\ SeriesDone(Accepted', active, s) <=> SeriesDone(Accepted, active, s)
           /\ NextGame(Accepted', active, s) = NextGame(Accepted, active, s)
  PROVE  WorkInv' /\ RequestsAreNew'
<1> DEFINE h == Head(lane)
<1>1. TypeOK /\ LaneQueued /\ h \in Workers /\ Busy(h)
  BY HeadQueued DEF TypeInv, WorkInv, Busy
<1>2. /\ worker' = [worker EXCEPT ![h] = Idle] /\ lane' = Tail(lane)
      /\ laneStep' = "append" /\ proc' = "working"
      /\ UNCHANGED <<active, todo>>
  BY DEF DropHead
<1>3. /\ \A v \in Workers : v # h => worker'[v] = worker[v]
      /\ worker'[h].pc = "idle"
  BY <1>1, <1>2 DEF TypeOK, Idle
<1>4. LaneQueued'
  BY <1>1, <1>2, <1>3, TailQueued
<1>5. Undone(todo)'
  BY <1>1, <1>2 DEF Undone, WorkInv, Busy
<1>6. WorkInv'
  BY <1>2, <1>3, <1>4, <1>5 DEF WorkInv
<1>7. Distinct /\ \A v \in Workers : v # h /\ Busy(v) => NewFor(v)
  BY NewRequests
<1>8. Distinct'
  BY <1>3, <1>7 DEF Distinct, Busy, Workers
<1>9. ASSUME NEW v \in Workers, Busy(v)' PROVE NewFor(v)'
  <2>1. v # h /\ worker'[v] = worker[v] /\ Busy(v)
    BY <1>3, <1>9 DEF Busy
  <2>2. worker[v].series # worker[h].series
    BY <2>1, <1>1, <1>7 DEF Distinct
  <2> QED
    BY <1>2, <1>7, <2>1, <2>2 DEF NewFor
<1>10. RequestsAreNew'
  BY <1>3, <1>8, <1>9, <1>2 DEF RequestsAreNew, Distinct, Busy, NewFor, Workers
<1> QED
  BY <1>6, <1>10

(* The head's result is accepted and its worker goes on.                   *)
LEMMA HeadAccepted ==
  ASSUME TypeInv, WorkInv, RequestsAreNew, proc = "working", lane # << >>,
         FinishAcceptance, Accepted' = Accepted
  PROVE  WorkInv' /\ RequestsAreNew'
<1>h. PICK h \in Workers : h = Head(lane)
  BY HeadType DEF TypeInv
<1> DEFINE next == worker'[h].series
           GoesOn ==
             /\ next \notin todo'
             /\ next = worker[h].series \/ next \in todo
             /\ worker'[h] = Asking(next)
             /\ ~stopAssigning
             /\ ~SeriesDone(Accepted, active, next)
<1> HIDE DEF next, GoesOn
<1>1. TypeOK /\ LaneQueued /\ h = Head(lane) /\ Busy(h)
  BY <1>h, HeadQueued DEF TypeInv, WorkInv, Busy
<1>2. /\ lane' = Tail(lane) /\ laneStep' = "append" /\ proc' = "working"
      /\ UNCHANGED <<active, known, storageFailed, stopAssigning>>
      /\ \A v \in Workers : v # h => worker'[v] = worker[v]
  BY <1>1 DEF FinishAcceptance, TypeOK
<1>3. Distinct /\ \A v \in Workers : v # h /\ Busy(v) => NewFor(v)
  BY <1>h, NewRequests
<1>4. /\ todo' \subseteq todo
      /\ Busy(h)' => GoesOn
  <2>a. Assigning => ~stopAssigning /\ known = Accepted
    BY DEF Assigning, WorkInv
  <2>b. /\ worker[h].series \notin todo /\ \A s \in todo : ~SeriesDone(Accepted, active, s)
        /\ \A s : Asking(s).series = s
    BY <1>1 DEF WorkInv, Busy, Undone, Asking, Requesting
  <2>1. CASE /\ Assigning /\ ~SeriesDone(known, active, worker[h].series)
             /\ worker' = [worker EXCEPT ![h] = Asking(worker[h].series)]
             /\ UNCHANGED todo
    <3>1. worker'[h] = Asking(worker[h].series)
      BY <1>1, <2>1 DEF TypeOK
    <3>2. next = worker[h].series
      BY <3>1 DEF next, Asking, Requesting
    <3> QED
      BY <2>a, <2>b, <2>1, <3>1, <3>2 DEF GoesOn
  <2>2. ASSUME Assigning, NEW s \in todo,
               worker' = [worker EXCEPT ![h] = Asking(s)], todo' = todo \ {s}
        PROVE  todo' \subseteq todo /\ GoesOn
    <3>1. worker'[h] = Asking(s)
      BY <1>1, <2>2 DEF TypeOK
    <3>2. next = s
      BY <2>b, <3>1 DEF next
    <3> QED
      BY <2>a, <2>b, <2>2, <3>1, <3>2 DEF GoesOn
  <2>3. CASE worker' = [worker EXCEPT ![h] = Idle] /\ UNCHANGED todo
    BY <1>1, <2>3 DEF TypeOK, Busy, Idle
  <2> QED
    BY <1>h, <2>1, <2>2, <2>3 DEF FinishAcceptance
<1>5. Busy(h)' => NewFor(h)'
  <2> SUFFICES ASSUME Busy(h)' PROVE NewFor(h)'
    OBVIOUS
  <2>1. known = Accepted
    BY <1>4 DEF WorkInv, GoesOn
  <2>2. worker'[h].game = NextGame(known, active, next) /\ worker'[h].series = next
    BY <1>4 DEF Asking, Requesting, GoesOn
  <2> QED
    BY <1>2, <1>4, <2>1, <2>2 DEF NewFor, GoesOn
<1>6. \A v \in Workers : Busy(v)' => NewFor(v)'
  BY <1>2, <1>3, <1>5 DEF NewFor, Busy
<1>7. \A v \in Workers : v # h /\ Busy(v) => /\ worker[v].series \notin todo
                                           /\ worker[v].series # worker[h].series
  BY <1>1, <1>3 DEF WorkInv, Busy, Distinct
<1>8. Distinct'
  <2>1. ASSUME NEW v \in Workers, v # h, Busy(v)', Busy(h)'
        PROVE  worker'[v].series # next
    <3>1. worker'[v] = worker[v] /\ Busy(v)
      BY <1>2, <2>1 DEF Busy
    <3> QED
      BY <1>4, <1>7, <2>1, <3>1 DEF GoesOn
  <2>2. ASSUME NEW v \in Workers, NEW w \in Workers, v # w, v # h, w # h,
               Busy(v)', Busy(w)'
        PROVE  worker'[v].series # worker'[w].series
    BY <1>2, <1>3, <2>2 DEF Distinct, Busy
  <2> QED
    BY <2>1, <2>2 DEF Distinct, Workers, next
<1>9. LaneQueued'
  BY <1>1, <1>2, TailQueued
<1>10. \A v \in Workers : Busy(v)' => worker'[v].series \notin todo'
  <2> TAKE v \in Workers
  <2>1. CASE v = h
    BY <1>4, <2>1 DEF GoesOn, next
  <2>2. CASE v # h
    BY <1>2, <1>4, <1>7, <2>2 DEF Busy
  <2> QED
    BY <2>1, <2>2
<1>11. WorkInv'
  <2>1. Undone(todo)'
    BY <1>2, <1>4 DEF WorkInv, Undone
  <2> QED
    BY <1>2, <1>9, <1>10, <2>1 DEF WorkInv, Busy, Workers
<1>12. RequestsAreNew'
  BY <1>2, <1>6, <1>8 DEF RequestsAreNew, Distinct, Busy, NewFor, Workers
<1> QED
  BY <1>11, <1>12

(* After an append the requests of the other workers are still new.        *)
LEMMA AppendResultNew ==
  ASSUME TypeInv, RequestInv, AppendResult
  PROVE  WorkInv' /\ RequestsAreNew'
<1>1. PICK outcome \in OutcomesIn(active) :
        /\ AppendRecord(HeadResult(outcome))
        /\ known' = known \cup {HeadResult(outcome)}
  BY DEF AppendResult
<1>2. PICK h \in Workers : h = Head(lane)
  BY HeadType DEF AppendResult, LaneAt, TypeInv
<1>3. /\ Accepted' = Accepted \cup {HeadResult(outcome)}
      /\ \A s : s # worker[h].series =>
           /\ SeriesDone(Accepted', active, s) <=> SeriesDone(Accepted, active, s)
           /\ NextGame(Accepted', active, s) = NextGame(Accepted, active, s)
  BY <1>1, <1>2, AppendedResult DEF AppendResult
<1>4. /\ proc = "working" /\ lane # << >> /\ ~storageFailed /\ laneStep = "append"
      /\ UNCHANGED <<proc, active, todo, worker, lane, stopAssigning, storageFailed>>
      /\ laneStep' = "checkpoint"
  BY DEF AppendResult, LaneAt
<1>5. WorkInv /\ RequestsAreNew /\ Busy(h)
  BY <1>2, <1>4, HeadQueued DEF RequestInv, WorkInv, TypeInv, Busy
<1>6. Undone(todo)'
  BY <1>3, <1>4, <1>5 DEF Undone, WorkInv, Busy
<1>7. LaneQueued'
  BY <1>4, <1>5 DEF WorkInv, LaneQueued
<1>8. WorkInv'
  BY <1>1, <1>3, <1>4, <1>5, <1>6, <1>7 DEF WorkInv
<1>9. Distinct /\ \A v \in Workers : Busy(v) => NewFor(v)
  BY <1>4, <1>5, NewRequests
<1>10. Distinct'
  BY <1>4, <1>9 DEF Distinct, Busy, Workers
<1>11. \A v \in Workers : v # h /\ Busy(v)' => NewFor(v)'
  BY <1>3, <1>4, <1>5, <1>9 DEF NewFor, Busy, Distinct
<1>12. RequestsAreNew'
  BY <1>2, <1>4, <1>10, <1>11 DEF RequestsAreNew, Distinct, Busy, NewFor, Workers
<1> QED
  BY <1>8, <1>12

(* The first requests of an executor are new.                              *)
LEMMA DispatchNew ==
  ASSUME TypeInv, RequestInv, Dispatch
  PROVE  WorkInv' /\ RequestsAreNew'
<1>1. /\ worker = NoWorkers /\ lane = << >> /\ ~storageFailed /\ known = Accepted
      /\ Undone(todo)
      /\ UNCHANGED <<active, known, lane, storageFailed, stopAssigning>>
      /\ proc' = "working"
      /\ Accepted' = Accepted
  BY DEF Dispatch, RequestInv, ReadyInv, disk, Accepted
<1>2. LaneQueued'
  BY <1>1 DEF LaneQueued
<1>3. CASE Assigning
  <2>1. PICK first \in InitialSeries :
          /\ worker' = [w \in Workers |->
               IF w \in DOMAIN first THEN Asking(first[w]) ELSE Idle]
          /\ todo' = todo \ {first[w] : w \in DOMAIN first}
    BY <1>3 DEF Dispatch
  <2>2. /\ \A w \in DOMAIN first : first[w] \in todo /\ first[w] \in Nat
        /\ \A i, j \in DOMAIN first : i < j => first[i] < first[j]
    BY <2>1 DEF InitialSeries, TypeInv, TypeOK
  <2>3. ASSUME NEW w \in Workers, Busy(w)'
        PROVE  /\ w \in DOMAIN first
               /\ worker'[w] = Asking(first[w])
               /\ worker'[w].series = first[w]
               /\ worker'[w].game = NextGame(known, active, first[w])
    BY <2>1, <2>3 DEF Busy, Idle, Asking, Requesting
  <2>4. ASSUME NEW v \in Workers, NEW w \in Workers, v # w, Busy(v)', Busy(w)'
        PROVE  worker'[v].series # worker'[w].series
    <3>1. v < w \/ w < v
      BY <2>4, RunnerAssumption DEF Workers
    <3> QED
      BY <2>2, <2>3, <2>4, <3>1
  <2>5. \A w \in Workers : Busy(w)' => NewFor(w)' /\ worker'[w].series \notin todo'
    BY <1>1, <2>1, <2>2, <2>3 DEF NewFor, Undone
  <2>6. Undone(todo)'
    BY <1>1, <2>1 DEF Undone
  <2>7. WorkInv'
    BY <1>1, <1>2, <2>5, <2>6 DEF WorkInv, Busy, Workers
  <2>8. RequestsAreNew'
    BY <1>1, <2>4, <2>5 DEF RequestsAreNew, Busy, NewFor, Workers
  <2> QED
    BY <2>7, <2>8
<1>4. CASE ~Assigning
  <2>1. worker' = NoWorkers /\ todo' = todo
    BY <1>1, <1>4 DEF Dispatch
  <2>2. \A w \in Workers : worker'[w].pc = "idle"
    BY <2>1 DEF NoWorkers, Idle
  <2> QED
    BY <1>1, <1>2, <2>1, <2>2 DEF WorkInv, RequestsAreNew, Undone, Workers
<1> QED
  BY <1>3, <1>4

(* A response that joins the lane is still the one awaited.                *)
LEMMA RequestSucceedsNew ==
  ASSUME TypeInv, WorkInv, RequestsAreNew, NEW w \in Workers, RequestSucceeds(w)
  PROVE  WorkInv' /\ RequestsAreNew'
<1>1. /\ proc = "working" /\ worker[w].pc = "request"
      /\ worker' = [worker EXCEPT ![w].pc = "queued"]
      /\ lane' = Append(lane, w)
      /\ UNCHANGED <<proc, active, known, todo, laneStep, stopAssigning, storageFailed>>
      /\ Accepted' = Accepted
  BY DEF RequestSucceeds, disk, Accepted
<1>2. /\ \A v \in Workers : /\ v # w => worker'[v] = worker[v]
                            /\ Busy(v)' <=> Busy(v)
                            /\ worker'[v].series = worker[v].series
                            /\ worker'[v].game = worker[v].game
      /\ worker'[w].pc = "queued"
  BY <1>1 DEF TypeInv, TypeOK, WorkerType, Busy
<1>3. /\ DOMAIN lane = 1..Len(lane) /\ Len(lane) \in Nat
      /\ DOMAIN lane' = 1..(Len(lane) + 1)
      /\ \A i \in 1..Len(lane) : lane'[i] = lane[i] /\ lane[i] \in Workers
      /\ lane'[Len(lane) + 1] = w
      /\ lane # << >> => Len(lane) >= 1 /\ Head(lane) = lane[1]
      /\ lane' # << >> /\ Head(lane') = lane'[1]
  <2>1. lane \in Seq(Workers)
    BY DEF TypeInv, TypeOK
  <2> QED
    BY <1>1, <2>1, AppendProperties, LenProperties, ElementOfSeq, EmptySeq
<1>4. \A i \in 1..Len(lane) : lane[i] # w /\ worker[lane[i]].pc = "queued"
  BY <1>1, <1>3 DEF WorkInv, LaneQueued
<1>5. LaneQueued'
  <2>1. \A i \in DOMAIN lane' : worker'[lane'[i]].pc = "queued"
    BY <1>2, <1>3, <1>4
  <2>2. \A i, j \in DOMAIN lane' : lane'[i] = lane'[j] => i = j
    BY <1>1, <1>3, <1>4 DEF WorkInv, LaneQueued
  <2> QED
    BY <2>1, <2>2 DEF LaneQueued
<1>6. WorkInv'
  BY <1>1, <1>2, <1>5 DEF WorkInv, Undone, Busy, Workers
<1>7. lane # << >> => Head(lane') = Head(lane)
  BY <1>3
<1>8. RequestsAreNew'
  BY <1>1, <1>2, <1>3, <1>7 DEF RequestsAreNew, Busy, Workers
<1> QED
  BY <1>6, <1>8

(* A request that failed leaves the other requests new.                    *)
LEMMA RequestFailsNew ==
  ASSUME TypeInv, WorkInv, RequestsAreNew, NEW w \in Workers, RequestFails(w)
  PROVE  WorkInv' /\ RequestsAreNew'
<1>1. /\ proc = "working" /\ worker[w].pc = "request"
      /\ worker' = [worker EXCEPT ![w] = Idle]
      /\ stopAssigning'
      /\ UNCHANGED <<proc, active, known, todo, lane, laneStep, storageFailed>>
      /\ Accepted' = Accepted
  BY DEF RequestFails, RecordRequestFailure, disk, Accepted
<1>2. /\ \A v \in Workers : v # w => worker'[v] = worker[v]
      /\ worker'[w].pc = "idle"
  BY <1>1 DEF TypeInv, TypeOK, Idle
<1>3. LaneQueued'
  <2>1. \A i \in DOMAIN lane : lane[i] \in Workers
    BY ElementOfSeq, LenProperties DEF TypeInv, TypeOK
  <2> QED
    BY <1>1, <1>2, <2>1 DEF WorkInv, LaneQueued
<1>4. WorkInv'
  BY <1>1, <1>2, <1>3 DEF WorkInv, Undone, Workers
<1>5. RequestsAreNew'
  BY <1>1, <1>2 DEF RequestsAreNew, Workers
<1> QED
  BY <1>4, <1>5

(* Storage fails under the head of the lane.                               *)
LEMMA StorageFailureNew ==
  ASSUME TypeInv, WorkInv, RequestsAreNew, proc = "working", lane # << >>,
         RecordStorageFailure,
         \A s : s # worker[Head(lane)].series =>
           /\ SeriesDone(Accepted', active, s) <=> SeriesDone(Accepted, active, s)
           /\ NextGame(Accepted', active, s) = NextGame(Accepted, active, s)
  PROVE  WorkInv' /\ RequestsAreNew'
<1>1. storageFailed' /\ stopAssigning' /\ DropHead
  BY DEF RecordStorageFailure
<1> QED
  BY <1>1, HeadDropped

(* Every step keeps the facts about workers and their requests.            *)
LEMMA WorkNext == TypeInv /\ RequestInv /\ Next => WorkInv' /\ RequestsAreNew'
<1> SUFFICES ASSUME TypeInv, RequestInv, Next PROVE WorkInv' /\ RequestsAreNew'
  OBVIOUS
<1>a. WorkInv /\ RequestsAreNew
  BY DEF RequestInv
<1>b. UNCHANGED disk => Accepted' = Accepted
  BY DEF disk, Accepted
<1>1. CASE Dispatch
  BY <1>1, DispatchNew
<1>2. ASSUME NEW w \in Workers, RequestSucceeds(w) PROVE WorkInv' /\ RequestsAreNew'
  BY <1>2, <1>a, RequestSucceedsNew
<1>3. CASE AppendResult
  BY <1>3, AppendResultNew
<1>4. CASE WriteCheckpoint
  <2>1. proc = "working" /\ lane # << >> /\ Accepted' = Accepted
    BY <1>4 DEF WriteCheckpoint, LaneAt, PutCheckpoint, Accepted
  <2>2. CASE FinishAcceptance
    BY <1>a, <2>1, <2>2, HeadAccepted
  <2>3. CASE /\ laneStep' = "standings" /\ laneStep = "checkpoint"
             /\ UNCHANGED <<proc, active, known, todo, worker, lane, stopAssigning,
                            storageFailed>>
    BY <1>a, <2>1, <2>3 DEF WorkInv, RequestsAreNew, LaneQueued, Undone
  <2> QED
    BY <1>4, <2>2, <2>3 DEF WriteCheckpoint, LaneAt
<1>5. CASE WriteProvisionalStandings
  <2>1. /\ proc = "working" /\ lane # << >> /\ FinishAcceptance
        /\ Accepted' = Accepted
    BY <1>5 DEF WriteProvisionalStandings, LaneAt, PutStandings, Accepted
  <2> QED
    BY <1>a, <2>1, HeadAccepted
<1>6. CASE RefuseAfterStorageFailure
  <2>1. /\ proc = "working" /\ lane # << >> /\ DropHead /\ storageFailed
        /\ UNCHANGED <<storageFailed, stopAssigning>> /\ Accepted' = Accepted
    BY <1>6, <1>b DEF RefuseAfterStorageFailure, LaneAt
  <2>2. DropHead => active' = active /\ known' = known
    BY DEF DropHead
  <2> QED
    BY <1>a, <2>1, <2>2, HeadDropped DEF WorkInv
<1>7. CASE RejectResponse
  <2>1. /\ proc = "working" /\ lane # << >> /\ DropHead /\ ~storageFailed
        /\ UNCHANGED storageFailed /\ stopAssigning' /\ Accepted' = Accepted
    BY <1>7, <1>b DEF RejectResponse, RecordRequestFailure, LaneAt
  <2>2. DropHead => active' = active /\ known' = known
    BY DEF DropHead
  <2> QED
    BY <1>a, <2>1, <2>2, HeadDropped DEF WorkInv
<1>8. ASSUME NEW w \in Workers, RequestFails(w) PROVE WorkInv' /\ RequestsAreNew'
  BY <1>8, <1>a, RequestFailsNew
<1>9. CASE AppendFails
  <2>1. /\ LaneAt("append") /\ proc = "working" /\ lane # << >>
        /\ RecordStorageFailure
    BY <1>9 DEF AppendFails, LaneAt
  <2>2. CASE Accepted' = Accepted
    BY <1>a, <2>1, <2>2, StorageFailureNew
  <2>3. ASSUME NEW outcome \in OutcomesIn(active), AppendRecord(HeadResult(outcome))
        PROVE  WorkInv' /\ RequestsAreNew'
    BY <1>a, <2>1, <2>3, AppendedResult, StorageFailureNew
  <2>4. TearRecord => Accepted' = Accepted
    BY DEF TearRecord, Accepted
  <2> QED
    BY <1>9, <1>b, <2>2, <2>3, <2>4 DEF AppendFails
<1>10. CASE ReplaceFails
  <2>1. /\ proc = "working" /\ lane # << >> /\ RecordStorageFailure
        /\ Accepted' = Accepted
    BY <1>10, <1>b DEF ReplaceFails, LaneAt
  <2> QED
    BY <1>a, <2>1, StorageFailureNew
<1>11. CASE Sigterm
  BY <1>11, <1>a, <1>b
     DEF Sigterm, memory, WorkInv, RequestsAreNew, LaneQueued, Undone
<1>12. CASE proc' # "working"
  BY <1>12 DEF WorkInv, RequestsAreNew
<1>13. CASE Start \/ Plan \/ Finish \/ Crash
  <2> USE DEF Step, Return, Exit
  <2>1. CASE Start \/ Plan
    BY <2>1, <1>12 DEF Start, Plan, StopInLoop, BeginPlan, InitializeMetadata,
       InitializeCheckpoint, ReturnTerminal, RefuseState, CreateRoster, PlanGroups,
       PlanKnockout, SnapshotCheckpoint, SnapshotStandings, RecoverBracket,
       RecoverCheckpoint
  <2>2. CASE SettleComplete
    <3>1. active = GroupStage \/ active \in 1..(Rounds - 1) \/ active = Rounds
      BY RulesAssumption DEF TypeInv, TypeOK, GroupStage
    <3> QED
      BY <2>2, <3>1, <1>12 DEF SettleComplete
  <2>3. CASE Finish /\ ~SettleComplete
    BY <2>3, <1>12 DEF Finish, SettleStorageFailure, SettleRequestFailure,
       SettleInterrupted, AppendFailure, FailRun, WriteFinalStandings,
       WriteInitialBracket, EnterKnockout, WriteNextBracket, EnterNextRound,
       WriteCompletedBracket, WriteCompleteCheckpoint, CompleteRun
  <2>4. CASE Crash
    BY <2>4, <1>12 DEF Crash
  <2> QED
    BY <1>13, <2>1, <2>2, <2>3, <2>4
<1> QED
  BY <1>1, <1>2, <1>3, <1>4, <1>5, <1>6, <1>7, <1>8, <1>9, <1>10, <1>11, <1>13
     DEF Next, Work, BattleFault, Fault

(* Nothing is accepted and nothing is requested yet.                       *)
LEMMA RequestInit == Init => RequestInv
<1> SUFFICES ASSUME Init PROVE RequestInv
  OBVIOUS
<1>1. Accepted = {} /\ results = << >>
  BY DEF Init, EmptyDisk, Accepted
<1>2. proc = "down"
  BY DEF Init
<1> QED
  BY <1>1, <1>2 DEF RequestInv, Numbered, UniqueResults, ReadyInv, WorkInv, RequestsAreNew

(* RequestInv is inductive, given the types.                               *)
LEMMA RequestNext == TypeInv /\ RequestInv /\ [Next]_vars => RequestInv'
<1>1. TypeInv /\ RequestInv /\ Next => RequestInv'
  BY LogNext, ReadyNext, WorkNext DEF RequestInv
<1>2. RequestInv /\ UNCHANGED vars => RequestInv'
  <2> SUFFICES ASSUME RequestInv, UNCHANGED vars PROVE RequestInv'
    OBVIOUS
  <2>1. Accepted' = Accepted
    BY DEF vars, disk, Accepted
  <2> QED
    BY <2>1 DEF vars, disk, memory, RequestInv, UniqueResults, ReadyInv, WorkInv,
       RequestsAreNew, LaneQueued, Undone
<1> QED
  BY <1>1, <1>2

(* results.jsonl never holds two records of one match, whatever crashes    *)
(* and restarts the run goes through.                                      *)
THEOREM ResultsAreUnique == Spec => []UniqueResults
<1>1. RequestInv => UniqueResults
  BY DEF RequestInv
<1> QED
  BY TypeInit, TypeNext, RequestInit, RequestNext, <1>1, PTL DEF Spec

(* The executors never ask for a game twice at once, nor for one whose     *)
(* result is durable or whose series is over.                              *)
THEOREM RequestsStayNew == Spec => []RequestsAreNew
<1>1. RequestInv => RequestsAreNew
  BY DEF RequestInv
<1> QED
  BY TypeInit, TypeNext, RequestInit, RequestNext, <1>1, PTL DEF Spec

------------------------------------------------------------------------------
(* The inductive invariants.                                               *)

(* The log by itself.  Every result has a place in the schedule or in the  *)
(* bracket, follows the stages before its own, and is the next game of a   *)
(* series that was still open.                                             *)
Placed(e) ==
  /\ e.series \in SeriesIn(e.round)
  /\ e.round = GroupStage => e.game = 1

Before(i) == {results[j] : j \in 1..(i - 1)}

PlayedInTurn(i) ==
  LET e == results[i]
  IN  /\ e.game = NextGame(Before(i), e.round, e.series)
      /\ ~SeriesDone(Before(i), e.round, e.series)
      /\ \A x \in Before(i) : x.round <= e.round

LogInv ==
  /\ Accepted # {} => roster
  /\ \A e \in Accepted : Placed(e)
  /\ \A e \in Accepted : \A q \in 0..(e.round - 1) : StageComplete(Accepted, q)
  /\ \A i \in DOMAIN results : PlayedInTurn(i)

(* The checkpoint against the log: it names the last round that has        *)
(* results, or a later one.                                                *)
InKnockout == checkpoint.stage \in {"knockout", "complete"}

CheckpointInv ==
  /\ CheckpointBacked
  /\ BarrierOrder
  /\ checkpoint.round = GroupStage <=> ~InKnockout
  /\ checkpoint.stage = "complete" => checkpoint.round = Rounds
  /\ checkpoint.stage = "groups" => checkpoint.position <= GroupMatches
  /\ \A e \in Accepted : e.round <= checkpoint.round
  /\ metadata = "absent" \/ proc = "initCheckpoint" =>
       checkpoint = Checkpoint("absent", 0, 0, 0)

(* The executor's memory against both.                                     *)
Inside == proc \notin {"down", "loop", "plan", "initCheckpoint"}

Position(E) == IF active = GroupStage THEN PlayedPrefix(E)
               ELSE Cardinality({e \in E : e.round = active})

MemoryInv ==
  /\ roster
  /\ ~storageFailed => ~torn /\ known = Accepted
  /\ storageFailed => proc = "working"
  /\ count = Cardinality(known)
  /\ position = Position(known)
  /\ \A e \in Accepted : e.round <= active
  /\ \A q \in 0..(active - 1) : StageComplete(Accepted, q)
  /\ active = GroupStage <=> ~InKnockout
  /\ checkpoint.round <= active

(* What has been written when the process is at a step between stages.     *)
RoundOpen == checkpoint.stage = "knockout" /\ checkpoint.round = active

WrittenInv ==
  /\ proc \in {"snapCheckpoint", "snapStandings"} => active = GroupStage
  /\ proc \in {"barrierBracket", "barrierCheckpoint"} =>
       active # GroupStage /\ ~StageComplete(Accepted, active)
  /\ proc = "barrierCheckpoint" =>
       bracket.rounds = active /\ bracket.games = GamesBefore(active)
  /\ proc \in {"finalStandings", "finalBracket", "finalCheckpoint"} =>
       active = GroupStage
  /\ proc \in {"finalBracket", "finalCheckpoint"} =>
       standings = Standings("final", GroupMatches)
  /\ proc = "finalCheckpoint" => bracket = Bracket("running", 1, {})
  /\ proc \in {"nextBracket", "nextCheckpoint"} => active \in 1..(Rounds - 1)
  /\ proc = "nextCheckpoint" =>
       bracket = Bracket("running", active + 1, GamesBefore(active + 1))
  /\ proc \in {"doneBracket", "doneCheckpoint", "doneMetadata"} => active = Rounds
  /\ proc \in {"finalStandings", "finalBracket", "finalCheckpoint", "nextBracket",
               "nextCheckpoint", "doneBracket", "doneCheckpoint", "doneMetadata"} =>
       StageComplete(Accepted, active)
  /\ proc \in {"doneCheckpoint", "doneMetadata"} =>
       bracket = Bracket("completed", Rounds, KnockoutGames(Accepted))
  /\ proc = "doneMetadata" =>
       checkpoint = Checkpoint("complete", Rounds, position, count)

(* The workers: every open series is somebody's or waits to be taken, and  *)
(* somebody will take it, unless no more are to be assigned.               *)
Covers(s) == s \in todo \/ \E w \in Workers : Busy(w) /\ worker[w].series = s

TeamInv ==
  proc \in {"snapCheckpoint", "snapStandings", "dispatch", "working"} =>
    /\ todo \subseteq SeriesIn(active)
    /\ \A w \in Workers : Busy(w) => worker[w].series \in SeriesIn(active)
    /\ active = GroupStage \/ RoundOpen \/ StageComplete(Accepted, active)
    /\ laneStep # "append" => /\ lane # << >> /\ ~storageFailed
                              /\ active = GroupStage \/ RoundOpen
    /\ laneStep = "standings" => active = GroupStage
    /\ stopAssigning => requestFailed \/ storageFailed
    /\ Assigning => /\ \A s \in SeriesIn(active) :
                         SeriesDone(known, active, s) \/ Covers(s)
                    /\ proc = "working" /\ todo # {} => \E w \in Workers : Busy(w)

StageInv ==
  /\ LogInv
  /\ CheckpointInv
  /\ Inside => MemoryInv /\ WrittenInv /\ TeamInv
  /\ CompletedRunIsCanonical
------------------------------------------------------------------------------
(* Counting.                                                               *)

(* A set of numbers that is not empty has a least element.                 *)
LEMMA LeastNumber ==
  ASSUME NEW T, T \subseteq Nat, T # {}
  PROVE  \E m \in T : \A n \in T : m <= n
<1>1. PICK m \in T : \A n \in T : <<n, m>> \notin OpToRel(<, Nat)
  BY NatLessThanWellFounded, WFMin
<1>2. \A n \in T : ~(n < m)
  BY <1>1 DEF OpToRel
<1> QED
  BY <1>2

(* A set of positions without gaps is an interval, and its size says which.*)
LEMMA WithoutGaps ==
  ASSUME NEW n \in Nat, NEW S, S \subseteq 1..n, \A k \in S : \A j \in 1..k : j \in S
  PROVE  /\ Cardinality(S) \in 0..n
         /\ S = 1..Cardinality(S)
<1>1. PICK m \in (1..(n + 1)) \ S : \A k \in (1..(n + 1)) \ S : m <= k
  <2>1. (1..(n + 1)) \ S \subseteq Nat /\ n + 1 \in (1..(n + 1)) \ S
    OBVIOUS
  <2> QED
    BY <2>1, LeastNumber
<1>2. S = 1..(m - 1)
  <2>1. \A j \in 1..(m - 1) : j \in S
    BY <1>1
  <2>2. \A k \in S : k < m
    <3> SUFFICES ASSUME NEW k \in S, m <= k PROVE FALSE
      OBVIOUS
    <3> QED
      BY <1>1
  <2> QED
    <3>1. m \in Int /\ \A k \in S : k \in Int /\ 1 <= k
      BY <1>1
    <3>2. \A k \in S : k \in 1..(m - 1)
      BY <2>2, <3>1
    <3> QED
      BY <2>1, <3>2
<1>3. Cardinality(1..(m - 1)) = m - 1
  BY <1>1, FS_Interval
<1> QED
  BY <1>1, <1>2, <1>3

(* What the schedule position says, and that it is the largest to say so.  *)
LEMMA PlayedPrefixIs ==
  ASSUME NEW E
  PROVE  /\ PlayedPrefix(E) \in 0..GroupMatches
         /\ \A s \in 1..PlayedPrefix(E) : SeriesDone(E, GroupStage, s)
         /\ \A n \in 0..GroupMatches :
              (\A s \in 1..n : SeriesDone(E, GroupStage, s)) => n <= PlayedPrefix(E)
<1> DEFINE S == {n \in 1..GroupMatches : \A s \in 1..n : SeriesDone(E, GroupStage, s)}
<1>1. GroupMatches \in Nat
  BY RulesAssumption
<1>2. S \subseteq 1..GroupMatches /\ \A k \in S : \A j \in 1..k : j \in S
  BY <1>1
<1>3. \A k \in S : \A s \in 1..k : SeriesDone(E, GroupStage, s)
  OBVIOUS
<1>4. \A n \in 1..GroupMatches : (\A s \in 1..n : SeriesDone(E, GroupStage, s)) => n \in S
  OBVIOUS
<1>5. PlayedPrefix(E) = Cardinality(S)
  BY DEF PlayedPrefix
<1> HIDE DEF S
<1>6. Cardinality(S) \in 0..GroupMatches /\ S = 1..Cardinality(S)
  BY <1>1, <1>2, WithoutGaps
<1>7. \A s \in 1..PlayedPrefix(E) : SeriesDone(E, GroupStage, s)
  <2> TAKE s \in 1..PlayedPrefix(E)
  <2>1. s \in S /\ s \in 1..s
    BY <1>5, <1>6
  <2> QED
    BY <1>3, <2>1
<1>8. ASSUME NEW n \in 0..GroupMatches, \A s \in 1..n : SeriesDone(E, GroupStage, s)
      PROVE  n <= PlayedPrefix(E)
  <2>1. CASE n = 0
    BY <1>5, <1>6, <2>1
  <2>2. CASE n # 0
    <3>1. n \in S
      BY <1>1, <1>4, <1>8, <2>2
    <3> QED
      BY <1>5, <1>6, <3>1
  <2> QED
    BY <2>1, <2>2
<1> QED
  BY <1>5, <1>6, <1>7, <1>8

(* The rounds before the active one are complete, and no other round is    *)
(* complete with all before it, the final apart.                           *)
LEMMA ActiveRoundIs ==
  ASSUME NEW E
  PROVE  /\ ActiveRound(E) \in 1..Rounds
         /\ \A q \in 1..(ActiveRound(E) - 1) : StageComplete(E, q)
         /\ \A n \in 0..(Rounds - 1) :
              (\A q \in 1..n : StageComplete(E, q)) => n < ActiveRound(E)
<1> DEFINE S == {r \in 1..(Rounds - 1) : \A q \in 1..r : StageComplete(E, q)}
<1>1. Rounds \in Nat /\ Rounds - 1 \in Nat
  BY RulesAssumption
<1>2. S \subseteq 1..(Rounds - 1) /\ \A k \in S : \A j \in 1..k : j \in S
  BY <1>1
<1>3. \A k \in S : \A q \in 1..k : StageComplete(E, q)
  OBVIOUS
<1>4. \A n \in 1..(Rounds - 1) : (\A q \in 1..n : StageComplete(E, q)) => n \in S
  OBVIOUS
<1>5. ActiveRound(E) = 1 + Cardinality(S)
  BY DEF ActiveRound
<1> HIDE DEF S
<1>6. Cardinality(S) \in 0..(Rounds - 1) /\ S = 1..Cardinality(S)
  BY <1>1, <1>2, WithoutGaps
<1>7. \A q \in 1..(ActiveRound(E) - 1) : StageComplete(E, q)
  <2> TAKE q \in 1..(ActiveRound(E) - 1)
  <2>1. q \in S /\ q \in 1..q
    BY <1>5, <1>6
  <2> QED
    BY <1>3, <2>1
<1>8. ASSUME NEW n \in 0..(Rounds - 1), \A q \in 1..n : StageComplete(E, q)
      PROVE  n < ActiveRound(E)
  <2>1. CASE n = 0
    BY <1>5, <1>6, <2>1
  <2>2. CASE n # 0
    <3>1. n \in S
      BY <1>1, <1>4, <1>8, <2>2
    <3> QED
      BY <1>5, <1>6, <3>1
  <2> QED
    BY <2>1, <2>2
<1> QED
  BY <1>1, <1>5, <1>6, <1>7, <1>8

(* One more result of a series that was open undoes no series, stage or    *)
(* position.                                                               *)
LEMMA DoneStaysDone ==
  ASSUME NEW E, NEW e, ~SeriesDone(E, e.round, e.series)
  PROVE  /\ \A r, s : SeriesDone(E, r, s) => SeriesDone(E \cup {e}, r, s)
         /\ \A r : StageComplete(E, r) => StageComplete(E \cup {e}, r)
<1>1. ASSUME NEW r, NEW s, SeriesDone(E, r, s) PROVE SeriesDone(E \cup {e}, r, s)
  <2>1. e.round # r \/ e.series # s
    BY <1>1
  <2> QED
    BY <1>1, <2>1, OtherSeriesUntouched
<1> QED
  BY <1>1 DEF StageComplete

(* A complete group stage has as many results as it has matches.           *)
LEMMA GroupResultsCount ==
  ASSUME NEW E, IsFiniteSet(E), StageComplete(E, GroupStage),
         \A e \in E : e.round = GroupStage /\ e.series \in 1..GroupMatches /\ e.game = 1,
         \A x, y \in E : SameMatch(x, y) => x = y
  PROVE  Cardinality(E) = GroupMatches
<1> DEFINE f == [e \in E |-> e.series]
<1>1. f \in [E -> 1..GroupMatches] /\ \A x, y \in E : f[x] = f[y] => x = y
  BY DEF SameMatch
<1>2. \A s \in 1..GroupMatches : \E e \in E : f[e] = s
  BY DEF StageComplete, SeriesIn, SeriesDone, Games
<1>3. f \in Bijection(E, 1..GroupMatches)
  BY <1>1, <1>2, Fun_IsBij
<1>4. ExistsBijection(E, 1..GroupMatches)
  BY <1>3, Fun_ExistsBij
<1>5. Cardinality(1..GroupMatches) = GroupMatches
  BY FS_Interval, RulesAssumption
<1> QED
  BY <1>4, <1>5, FS_Bijection

------------------------------------------------------------------------------
(* The log.                                                                *)

(* What the types say of the results and of an executor's memory.          *)
LEMMA StageTypes ==
  ASSUME TypeInv
  PROVE  /\ active \in 0..Rounds /\ active \in Nat /\ Rounds \in Nat \ {0}
         /\ GroupStage = 0 /\ GroupMatches \in Nat
         /\ IsFiniteSet(Accepted) /\ IsFiniteSet(known)
         /\ Cardinality(Accepted) \in Nat /\ Cardinality(known) \in Nat
         /\ \A e \in Accepted : e \in Entry /\ e.round \in 0..Rounds
         /\ \A e \in known : e \in Entry /\ e.round \in 0..Rounds
         /\ results \in Seq(Entry)
         /\ checkpoint \in CheckpointType
         /\ checkpoint.round \in 0..Rounds
         /\ checkpoint.position \in Nat /\ checkpoint.count \in Nat
         /\ count \in Nat /\ position \in Nat
<1>1. TypeOK /\ DiskTypeOK /\ IsFiniteSet(Accepted) /\ IsFiniteSet(known)
  BY DEF TypeInv, TypeOK
<1>2. Cardinality(Accepted) \in Nat /\ Cardinality(known) \in Nat
  BY <1>1, FS_CardinalityType
<1>3. \A e \in Accepted : e \in Entry
  BY <1>1, ElementOfSeq, LenProperties DEF DiskTypeOK, Accepted
<1> QED
  BY <1>1, <1>2, <1>3, RulesAssumption
     DEF TypeOK, DiskTypeOK, Entry, CheckpointType, GroupStage

(* Results of the same match are the same result.                          *)
LEMMA SameMatchSame ==
  ASSUME UniqueResults, NEW x \in Accepted, NEW y \in Accepted, SameMatch(x, y)
  PROVE  x = y
  BY DEF UniqueResults, Accepted

(* The log says the same as long as it stays the same.                     *)
LEMMA LogKept ==
  ASSUME LogInv, UNCHANGED results, roster => roster'
  PROVE  LogInv'
  BY DEF LogInv, Accepted, Placed, Before, PlayedInTurn

(* What the head's response adds to the log.                               *)
LEMMA AppendFits ==
  ASSUME TypeInv, RequestInv, MemoryInv, TeamInv, LaneAt("append"), ~storageFailed,
         NEW outcome \in OutcomesIn(active), AppendRecord(HeadResult(outcome))
  PROVE  LET e == HeadResult(outcome)
         IN  /\ Accepted' = Accepted \cup {e} /\ e \notin Accepted
             /\ e.round = active /\ Placed(e)
             /\ e.game = NextGame(Accepted, active, e.series)
             /\ ~SeriesDone(Accepted, active, e.series)
             /\ ~StageComplete(Accepted, active)
<1>1. PICK h \in Workers : h = Head(lane)
  BY HeadType DEF LaneAt, TypeInv
<1>2. Busy(h)
  BY <1>1, HeadQueued DEF Busy, RequestInv, WorkInv, LaneAt, TypeInv
<1>3. NewFor(h) /\ worker[h].series \in SeriesIn(active)
  BY <1>1, <1>2, NewRequests DEF LaneAt, RequestInv, TeamInv
<1> DEFINE e == HeadResult(outcome)
<1>4. /\ e.round = active /\ e.series = worker[h].series /\ e.game = worker[h].game
  BY <1>1 DEF HeadResult
<1>5. Accepted' = Accepted \cup {e}
  BY AppendedResult DEF LaneAt
<1>6. Cardinality({}) = 0
  BY FS_EmptySet
<1> HIDE DEF e
<1>7. e.game = NextGame(Accepted, active, e.series) /\ ~SeriesDone(Accepted, active, e.series)
  BY <1>3, <1>4 DEF NewFor
<1>8. active = GroupStage => e.game = 1
  BY <1>6, <1>7 DEF SeriesDone, NextGame
<1>9. ~StageComplete(Accepted, active)
  BY <1>3, <1>4, <1>7 DEF StageComplete
<1>10. e \notin Accepted
  <2>1. \A x \in Accepted : ~SameMatch(x, e)
    BY <1>4, <1>7, NextGameIsNew DEF IsNext, TypeInv, RequestInv
  <2> QED
    BY <2>1 DEF SameMatch
<1>11. Placed(e)
  BY <1>3, <1>4, <1>8 DEF Placed
<1> QED
  BY <1>4, <1>5, <1>7, <1>9, <1>10, <1>11 DEF e

(* The log keeps its order when the head's response is appended.           *)
LEMMA LogAppended ==
  ASSUME TypeInv, RequestInv, LogInv, MemoryInv, TeamInv, LaneAt("append"), ~storageFailed,
         NEW outcome \in OutcomesIn(active), AppendRecord(HeadResult(outcome))
  PROVE  LogInv'
<1> DEFINE e == HeadResult(outcome)
<1>1. /\ Accepted' = Accepted \cup {e}
      /\ e.round = active /\ Placed(e)
      /\ e.game = NextGame(Accepted, active, e.series)
      /\ ~SeriesDone(Accepted, active, e.series)
  BY AppendFits
<1>2. /\ results' = Append(results, e) /\ results \in Seq(Entry) /\ e \in Entry
      /\ roster' = roster
  BY StageTypes, HeadResultType DEF AppendRecord, TypeInv, LaneAt
<1> HIDE DEF e
<1>3. /\ DOMAIN results = 1..Len(results) /\ Len(results) \in Nat
      /\ DOMAIN results' = 1..(Len(results) + 1)
      /\ results'[Len(results) + 1] = e
      /\ \A i \in 1..Len(results) : results'[i] = results[i]
  BY <1>2, AppendProperties, LenProperties
<1>4. /\ roster /\ \A x \in Accepted : x.round <= active
      /\ \A q \in 0..(active - 1) : StageComplete(Accepted, q)
  BY DEF MemoryInv
<1>5. \A r : StageComplete(Accepted, r) => StageComplete(Accepted', r)
  BY <1>1, DoneStaysDone
<1>6. \A x \in Accepted' : Placed(x)
  BY <1>1 DEF LogInv
<1>7. \A x \in Accepted' : \A q \in 0..(x.round - 1) : StageComplete(Accepted', q)
  BY <1>1, <1>4, <1>5 DEF LogInv
<1>8. ASSUME NEW i \in 1..Len(results)
      PROVE  PlayedInTurn(i)'
  <2>1. Before(i)' = Before(i) /\ results'[i] = results[i]
    BY <1>3 DEF Before
  <2> QED
    BY <1>3, <2>1 DEF LogInv, PlayedInTurn
<1>n. PICK n \in Nat : n = Len(results) + 1
  BY <1>3
<1>9. PlayedInTurn(n)'
  <2>1. Before(n)' = Accepted
    BY <1>3, <1>n DEF Before, Accepted
  <2>2. results'[n] = e
    BY <1>3, <1>n
  <2> QED
    BY <1>1, <1>4, <2>1, <2>2 DEF PlayedInTurn
<1>10. \A i \in DOMAIN results' : PlayedInTurn(i)'
  BY <1>3, <1>8, <1>9, <1>n
<1> QED
  BY <1>2, <1>4, <1>6, <1>7, <1>10 DEF LogInv

(* No step removes the roster.                                             *)
LEMMA RosterStays == Next => (roster => roster')
<1> SUFFICES ASSUME Next, roster PROVE roster'
  OBVIOUS
<1> USE DEF disk, PutRoster, PutCheckpoint, PutStandings, PutBracket, PutMetadata,
            PutFailure, TearRecord, AppendRecord
<1>1. CASE Start
  BY <1>1 DEF Start
<1>2. CASE Plan
  BY <1>2 DEF Plan, StopInLoop, BeginPlan, InitializeMetadata, InitializeCheckpoint,
     ReturnTerminal, RefuseState, CreateRoster, PlanGroups, PlanKnockout, LoadPlan,
     SnapshotCheckpoint, SnapshotStandings, RecoverBracket, RecoverCheckpoint
<1>3. CASE Work
  BY <1>3 DEF Work, Dispatch, RequestSucceeds, AppendResult, WriteCheckpoint,
     WriteProvisionalStandings, RefuseAfterStorageFailure
<1>4. CASE Finish
  BY <1>4 DEF Finish, SettleStorageFailure, SettleRequestFailure, SettleInterrupted,
     SettleComplete, AppendFailure, FailRun, WriteFinalStandings, WriteInitialBracket,
     EnterKnockout, WriteNextBracket, EnterNextRound, WriteCompletedBracket,
     WriteCompleteCheckpoint, CompleteRun
<1>5. CASE BattleFault
  BY <1>5 DEF BattleFault, RejectResponse, RequestFails
<1>6. CASE Fault
  BY <1>6 DEF Fault, AppendFails, ReplaceFails, Sigterm, Crash
<1> QED
  BY <1>1, <1>2, <1>3, <1>4, <1>5, <1>6 DEF Next

(* A step appends nothing, or the response at the head of the lane.        *)
LEMMA AppendsAreInside ==
  ASSUME Next
  PROVE  \/ UNCHANGED results
         \/ /\ LaneAt("append") /\ ~storageFailed /\ Inside
            /\ \E outcome \in OutcomesIn(active) : AppendRecord(HeadResult(outcome))
  BY WhoAppends DEF Appends, AppendResult, AppendFails, LaneAt, Inside

(* LogInv is inductive, given the memory of the executor.                  *)
LEMMA LogStep ==
  ASSUME TypeInv, RequestInv, LogInv, Inside => MemoryInv /\ TeamInv, Next
  PROVE  LogInv'
  BY AppendsAreInside, RosterStays, LogKept, LogAppended

(* Whatever the log holds, the planner takes it up again.                  *)
LEMMA LogIsRecoverable ==
  ASSUME TypeInv, UniqueResults, LogInv, ~torn
  PROVE  RecoverableState
<1>1. /\ DOMAIN results = 1..Len(results) /\ Len(results) \in Nat
      /\ \A i \in DOMAIN results : results[i] \in Accepted /\ results[i].round \in 0..Rounds
      /\ GroupStage = 0
  BY StageTypes, LenProperties DEF Accepted
<1>2. ReadableState
  BY DEF ReadableState, ConflictingDuplicates, UniqueResults, LogInv
<1>3. \A i \in KnockoutRecords : i \in DOMAIN results /\ results[i].round # GroupStage
  BY DEF KnockoutRecords
<1>4. \A i \in DOMAIN results : results[i].round # GroupStage => i \in KnockoutRecords
  BY <1>1 DEF KnockoutRecords, UniqueResults, SameMatch
<1>5. HasKnockoutEvidence => StageComplete(Accepted, GroupStage)
  <2> SUFFICES ASSUME NEW e \in Accepted, e.round # GroupStage
               PROVE  StageComplete(Accepted, GroupStage)
    BY DEF HasKnockoutEvidence, KnockoutGames
  <2>1. 0 \in 0..(e.round - 1)
    BY <1>1 DEF Accepted
  <2> QED
    BY <1>1, <2>1 DEF LogInv
<1>6. SeriesInOrder
  <2> SUFFICES ASSUME NEW i \in KnockoutRecords
               PROVE  LET e == results[i]
                          earlier == {results[j] : j \in {k \in KnockoutRecords : k < i}}
                      IN  /\ e.game = NextGame(earlier, e.round, e.series)
                          /\ ~SeriesDecided(earlier, e.round, e.series)
    BY DEF SeriesInOrder
  <2> DEFINE e == results[i]
             earlier == {results[j] : j \in {k \in KnockoutRecords : k < i}}
  <2>1. i \in DOMAIN results /\ e.round # GroupStage /\ PlayedInTurn(i)
    BY <1>3 DEF LogInv
  <2>2. Games(earlier, e.round, e.series) = Games(Before(i), e.round, e.series)
    <3>1. \A x \in earlier : x \in Before(i)
      BY <1>1, <1>3, <2>1 DEF Before
    <3>2. \A x \in Before(i) : x.round # GroupStage => x \in earlier
      BY <1>1, <1>4, <2>1 DEF Before
    <3> HIDE DEF e, earlier
    <3> QED
      BY <2>1, <3>1, <3>2 DEF Games
  <2>3. /\ e.game = NextGame(Before(i), e.round, e.series)
        /\ ~SeriesDecided(Before(i), e.round, e.series)
    BY <2>1 DEF PlayedInTurn, SeriesDone
  <2> HIDE DEF e, earlier
  <2>4. /\ e.game = NextGame(earlier, e.round, e.series)
        /\ ~SeriesDecided(earlier, e.round, e.series)
    BY <2>2, <2>3 DEF NextGame, SeriesDecided, Wins
  <2> QED
    BY <2>4 DEF e, earlier
<1>7. RoundsInOrder
  <2>1. ASSUME NEW i \in KnockoutRecords, NEW j \in KnockoutRecords, i < j
        PROVE  results[i].round <= results[j].round
    <3>1. results[i] \in Before(j)
      BY <1>1, <1>3, <2>1 DEF Before
    <3> QED
      BY <1>3, <3>1 DEF LogInv, PlayedInTurn
  <2>2. ASSUME NEW i \in KnockoutRecords, NEW r \in 1..(results[i].round - 1)
        PROVE  StageComplete(Accepted, r)
    <3>1. results[i] \in Accepted /\ r \in 0..(results[i].round - 1)
      BY <1>1, <1>3
    <3> QED
      BY <3>1 DEF LogInv
  <2> QED
    BY <2>1, <2>2 DEF RoundsInOrder
<1> QED
  BY <1>2, <1>5, <1>6, <1>7 DEF RecoverableState

------------------------------------------------------------------------------
(* The checkpoint, the standings and the bracket.                          *)

(* How many results are of a round; a larger set has as many, or more.     *)
OfRound(E, r) == Cardinality({e \in E : e.round = r})

LEMMA MoreOfRound ==
  ASSUME NEW E, NEW F, IsFiniteSet(F), E \subseteq F, NEW r
  PROVE  /\ OfRound(E, r) \in Nat
         /\ OfRound(F, r) \in Nat
         /\ OfRound(E, r) <= OfRound(F, r)
<1> DEFINE S == {e \in E : e.round = r}
           T == {e \in F : e.round = r}
<1>1. T \in SUBSET F /\ S \in SUBSET T
  OBVIOUS
<1>2. Cardinality(S) = OfRound(E, r) /\ Cardinality(T) = OfRound(F, r)
  BY DEF OfRound
<1> HIDE DEF S, T
<1>3. IsFiniteSet(T)
  BY <1>1, FS_Subset
<1> QED
  BY <1>1, <1>2, <1>3, FS_Subset, FS_CardinalityType

(* Nothing that the checkpoint says is touched.                            *)
LEMMA CheckpointKept ==
  ASSUME CheckpointInv, UNCHANGED <<results, checkpoint, standings, bracket>>,
         metadata' = "absent" \/ proc' = "initCheckpoint" =>
           metadata = "absent" \/ proc = "initCheckpoint"
  PROVE  CheckpointInv'
<1>1. Accepted' = Accepted
  BY DEF Accepted
<1> QED
  BY <1>1 DEF CheckpointInv, CheckpointBacked, BarrierOrder, InKnockout

(* One more result, of the round the checkpoint names.                     *)
LEMMA CheckpointGrown ==
  ASSUME TypeInv, CheckpointInv, NEW e, Accepted' = Accepted \cup {e},
         ~SeriesDone(Accepted, e.round, e.series), e.round = checkpoint.round,
         UNCHANGED <<metadata, checkpoint, standings, bracket, proc>>,
         IsFiniteSet(Accepted')
  PROVE  CheckpointInv'
<1>1. /\ \A r, s : SeriesDone(Accepted, r, s) => SeriesDone(Accepted', r, s)
      /\ \A r : StageComplete(Accepted, r) => StageComplete(Accepted', r)
  BY DoneStaysDone
<1>2. Cardinality(Accepted) <= Cardinality(Accepted') /\ Cardinality(Accepted') \in Nat
  BY FS_Subset, FS_CardinalityType
<1>3. PICK F : F = Accepted'
  OBVIOUS
<1>4. \A r : OfRound(Accepted, r) \in Nat /\ OfRound(Accepted', r) \in Nat
           /\ OfRound(Accepted, r) <= OfRound(Accepted', r)
  BY <1>3, MoreOfRound
<1>5. CheckpointBacked'
  <2>1. checkpoint.count <= Cardinality(Accepted')
    BY <1>2, StageTypes DEF CheckpointInv, CheckpointBacked
  <2>2. checkpoint.stage \in {"knockout", "complete"} =>
          checkpoint.position <= OfRound(Accepted', checkpoint.round)
    <3>1. checkpoint.stage \in {"knockout", "complete"} =>
            checkpoint.position <= OfRound(Accepted, checkpoint.round)
      BY DEF CheckpointInv, CheckpointBacked, OfRound
    <3>2. checkpoint.position \in Nat
      BY StageTypes
    <3> QED
      BY <1>4, <3>1, <3>2
  <2> QED
    BY <1>1, <2>1, <2>2 DEF CheckpointInv, CheckpointBacked, OfRound
<1>6. BarrierOrder'
  <2>1. {x \in KnockoutGames(Accepted') : x.round < checkpoint.round}
          = {x \in KnockoutGames(Accepted) : x.round < checkpoint.round}
    BY StageTypes DEF KnockoutGames
  <2> QED
    BY <2>1 DEF CheckpointInv, BarrierOrder
<1>7. \A x \in Accepted' : x.round <= checkpoint.round
  BY StageTypes DEF CheckpointInv
<1> QED
  BY <1>5, <1>6, <1>7 DEF CheckpointInv, InKnockout

(* What a checkpoint may say.                                              *)
Backed(stage, r, p, n) ==
  /\ n <= Cardinality(Accepted)
  /\ \A e \in Accepted : e.round <= r
  /\ stage = "groups" => r = GroupStage /\ p <= PlayedPrefix(Accepted)
  /\ stage # "groups" =>
       /\ r \in 1..Rounds
       /\ \A q \in 0..(r - 1) : StageComplete(Accepted, q)
       /\ p <= OfRound(Accepted, r)
       /\ standings = Standings("final", GroupMatches)
       /\ bracket.rounds >= r
       /\ {e \in KnockoutGames(bracket.games) : e.round < r}
            = {e \in KnockoutGames(Accepted) : e.round < r}
  /\ stage = "complete" => r = Rounds /\ StageComplete(Accepted, r)

LEMMA CheckpointWritten ==
  ASSUME TypeInv, NEW stage \in {"groups", "knockout", "complete"},
         NEW r \in 0..Rounds, NEW p \in Nat, NEW n \in Nat,
         PutCheckpoint(stage, r, p, n), Backed(stage, r, p, n),
         metadata' # "absent", proc' # "initCheckpoint"
  PROVE  CheckpointInv'
<1>1. /\ checkpoint'.stage = stage /\ checkpoint'.round = r
      /\ checkpoint'.position = p /\ checkpoint'.count = n
      /\ UNCHANGED <<results, standings, bracket>> /\ Accepted' = Accepted
  BY DEF PutCheckpoint, Checkpoint, Accepted
<1>2. PlayedPrefix(Accepted) \in 0..GroupMatches /\ GroupStage = 0 /\ GroupMatches \in Nat
  BY PlayedPrefixIs, StageTypes
<1>3. CheckpointBacked'
  <2>1. stage = "groups" => \A s \in 1..p : SeriesDone(Accepted, GroupStage, s)
    BY <1>2, PlayedPrefixIs DEF Backed
  <2> QED
    BY <1>1, <2>1 DEF CheckpointBacked, Backed, OfRound
<1>4. BarrierOrder'
  BY <1>1 DEF BarrierOrder, Backed
<1>5. stage = "groups" => p <= GroupMatches
  BY <1>2 DEF Backed
<1> QED
  BY <1>1, <1>2, <1>3, <1>4, <1>5 DEF CheckpointInv, InKnockout, Backed

(* New standings while no knockout is under way.                           *)
LEMMA StandingsWritten ==
  ASSUME CheckpointInv, UNCHANGED <<results, checkpoint, bracket>>, ~InKnockout,
         metadata' # "absent", proc' # "initCheckpoint"
  PROVE  CheckpointInv'
<1>1. Accepted' = Accepted
  BY DEF Accepted
<1> QED
  BY <1>1 DEF CheckpointInv, CheckpointBacked, BarrierOrder, InKnockout

(* A new bracket that keeps what the checkpoint relies on.                 *)
LEMMA BracketWritten ==
  ASSUME CheckpointInv, UNCHANGED <<results, checkpoint, standings>>,
         metadata' # "absent", proc' # "initCheckpoint",
         InKnockout => /\ bracket'.rounds >= checkpoint.round
                       /\ {e \in KnockoutGames(bracket'.games) : e.round < checkpoint.round}
                            = {e \in KnockoutGames(Accepted) : e.round < checkpoint.round}
  PROVE  CheckpointInv'
<1>1. Accepted' = Accepted
  BY DEF Accepted
<1> QED
  BY <1>1 DEF CheckpointInv, CheckpointBacked, BarrierOrder, InKnockout

------------------------------------------------------------------------------
(* The steps of the planner.                                               *)

Invariants == TypeInv /\ StatusInv /\ RequestInv /\ StageInv

(* What the parts of the next invariant are, and when they are needed.     *)
Kept == CheckpointInv' /\ (Inside' => MemoryInv' /\ WrittenInv' /\ TeamInv')

(* The steps that end a process, or an executor, or happen before one, and *)
(* write nothing the checkpoint relies on.                                 *)
LEMMA OutsideKept ==
  ASSUME StageInv,
         \/ Start \/ StopInLoop \/ BeginPlan \/ ReturnTerminal \/ RefuseState
         \/ CreateRoster \/ InitializeMetadata \/ SettleStorageFailure
         \/ SettleInterrupted \/ FailRun \/ Crash \/ CompleteRun
  PROVE  Kept
<1> USE DEF Step, Return, Exit, disk
<1>1. ~Inside'
  BY DEF Start, StopInLoop, BeginPlan, ReturnTerminal, RefuseState, CreateRoster,
     InitializeMetadata, SettleStorageFailure, SettleInterrupted, FailRun, Crash,
     CompleteRun, Inside
<1>2. /\ UNCHANGED <<results, checkpoint, standings, bracket>>
      /\ metadata' = "absent" \/ proc' = "initCheckpoint" =>
           metadata = "absent" \/ proc = "initCheckpoint"
  BY DEF Start, StopInLoop, BeginPlan, ReturnTerminal, RefuseState, CreateRoster,
     InitializeMetadata, SettleStorageFailure, SettleInterrupted, FailRun, Crash,
     CompleteRun, PutMetadata, PutRoster, TearRecord, PutFailure
<1>3. CheckpointInv'
  BY <1>2, CheckpointKept DEF StageInv
<1> QED
  BY <1>1, <1>3 DEF Kept

(* An executor between its stages: its memory is the log, and the run is   *)
(* under way.                                                              *)
LEMMA Sequential ==
  ASSUME Invariants, Inside, proc # "working"
  PROVE  /\ MemoryInv /\ WrittenInv /\ TeamInv /\ CheckpointInv /\ LogInv
         /\ ~storageFailed /\ ~torn /\ known = Accepted
         /\ count = Cardinality(Accepted)
         /\ active = GroupStage => position = PlayedPrefix(Accepted)
         /\ active # GroupStage => position = OfRound(Accepted, active)
         /\ metadata = "running"
         /\ active = GroupStage => ~InKnockout
         /\ active # GroupStage => InKnockout
         /\ InKnockout => /\ standings = Standings("final", GroupMatches)
                          /\ bracket.rounds >= checkpoint.round
                          /\ {e \in KnockoutGames(bracket.games) : e.round < checkpoint.round}
                               = {e \in KnockoutGames(Accepted) : e.round < checkpoint.round}
  BY DEF Invariants, StageInv, MemoryInv, Position, OfRound, StatusInv, Inside,
     CheckpointInv, BarrierOrder, InKnockout

(* A step between stages keeps the memory, if the checkpoint still fits.   *)
LEMMA SequentialMemory ==
  ASSUME Invariants, Inside, proc # "working", UNCHANGED <<memory, results, roster, torn>>,
         active = GroupStage <=> ~InKnockout',
         checkpoint'.round <= active
  PROVE  MemoryInv'
<1>1. Accepted' = Accepted /\ MemoryInv /\ ~storageFailed
  BY Sequential DEF Accepted
<1> QED
  BY <1>1 DEF MemoryInv, memory, Position

LEMMA InitializeCheckpointKept ==
  ASSUME Invariants, InitializeCheckpoint
  PROVE  Kept
<1>1. /\ proc = "initCheckpoint" /\ proc' = "plan"
      /\ PutCheckpoint("groups", GroupStage, 0, 0)
  BY DEF InitializeCheckpoint, Step
<1>2. metadata' = "running"
  BY <1>1 DEF Invariants, StatusInv, PutCheckpoint
<1>3. \A e \in Accepted : e.round <= 0
  BY <1>1 DEF Invariants, StageInv, CheckpointInv, Checkpoint
<1>4. Backed("groups", GroupStage, 0, 0)
  BY <1>3, StageTypes, PlayedPrefixIs DEF Invariants, Backed
<1>5. CheckpointInv'
  <2>1. TypeInv /\ GroupStage \in 0..Rounds /\ 0 \in Nat
    BY StageTypes DEF Invariants
  <2> QED
    BY <1>1, <1>2, <1>4, <2>1, CheckpointWritten
<1> QED
  BY <1>1, <1>5 DEF Kept, Inside

LEMMA PlanGroupsKept ==
  ASSUME Invariants, PlanGroups
  PROVE  Kept
<1> USE DEF Invariants
<1>1. /\ proc = "plan" /\ metadata = "running" /\ roster /\ RecoverableState
      /\ ~KnockoutPlanned /\ LoadPlan(GroupStage)
      /\ proc' \in {"snapCheckpoint", "dispatch"}
  BY DEF PlanGroups, Planning
<1>2. UNCHANGED disk /\ Accepted' = Accepted
  BY <1>1 DEF LoadPlan, disk, Accepted
<1>3. /\ active' = GroupStage /\ known' = Accepted /\ count' = Cardinality(Accepted)
      /\ position' = PlayedPrefix(Accepted)
      /\ todo' = Pending(Accepted, GroupStage)
      /\ worker' = NoWorkers /\ laneStep' = "append"
      /\ ~stopAssigning' /\ ~storageFailed'
  BY <1>1 DEF LoadPlan, FreshExecutor
<1>4. \A e \in Accepted : e.round = GroupStage
  BY <1>1 DEF KnockoutPlanned, HasKnockoutEvidence, KnockoutGames
<1>5. ~InKnockout /\ checkpoint.round = GroupStage
  <2>1. InKnockout => StageComplete(Accepted, GroupStage)
    <3>1. InKnockout => 0 \in 0..(checkpoint.round - 1)
      BY StageTypes DEF StageInv, CheckpointInv
    <3> QED
      BY <3>1, StageTypes DEF StageInv, CheckpointInv, CheckpointBacked, InKnockout
  <2> QED
    BY <1>1, <2>1 DEF KnockoutPlanned, InKnockout, StageInv, CheckpointInv
<1>6. MemoryInv'
  BY <1>1, <1>2, <1>3, <1>4, <1>5, StageTypes
     DEF MemoryInv, Position, RecoverableState, ReadableState, InKnockout, disk
<1>7. WrittenInv'
  BY <1>1, <1>3 DEF WrittenInv
<1>8. TeamInv'
  <2>1. \A w \in Workers : ~Busy(w)'
    BY <1>3 DEF Busy, NoWorkers, Idle
  <2> QED
    BY <1>1, <1>2, <1>3, <2>1 DEF TeamInv, Pending, Covers, Workers
<1>9. CheckpointInv'
  BY <1>1, <1>2, CheckpointKept DEF disk, StageInv
<1> QED
  BY <1>6, <1>7, <1>8, <1>9 DEF Kept

LEMMA PlanKnockoutKept ==
  ASSUME Invariants, PlanKnockout
  PROVE  Kept
<1> USE DEF Invariants
<1>1. PICK r : /\ r = ActiveRound(Accepted) /\ LoadPlan(r)
               /\ proc' = IF BarrierMissing(r) THEN "barrierBracket" ELSE "dispatch"
  BY DEF PlanKnockout
<1>a. /\ proc = "plan" /\ metadata = "running" /\ roster /\ RecoverableState
      /\ KnockoutPlanned
  BY DEF PlanKnockout, Planning
<1>2. UNCHANGED disk /\ Accepted' = Accepted
  BY <1>1 DEF LoadPlan, disk, Accepted
<1>3. /\ r \in 1..Rounds /\ r # GroupStage
      /\ \A q \in 1..(r - 1) : StageComplete(Accepted, q)
      /\ \A n \in 0..(Rounds - 1) : (\A q \in 1..n : StageComplete(Accepted, q)) => n < r
  BY <1>1, ActiveRoundIs DEF GroupStage
<1>4. /\ active' = r /\ known' = Accepted /\ count' = Cardinality(Accepted)
      /\ position' = Cardinality({e \in Accepted : e.round = r})
      /\ todo' = Pending(Accepted, r)
      /\ worker' = NoWorkers /\ laneStep' = "append"
      /\ ~stopAssigning' /\ ~storageFailed'
  BY <1>1, <1>3 DEF LoadPlan, FreshExecutor
<1>5. \A q \in 0..(r - 1) : StageComplete(Accepted, q)
  <2>1. StageComplete(Accepted, GroupStage)
    BY <1>a DEF KnockoutPlanned, RecoverableState
  <2> QED
    BY <1>3, <2>1 DEF GroupStage
<1>6. \A e \in Accepted : e.round <= r
  <2> SUFFICES ASSUME NEW e \in Accepted, e.round # 0 PROVE e.round <= r
    BY <1>3
  <2>1. e.round \in 1..Rounds /\ e.round - 1 \in 0..(Rounds - 1)
    <3>1. e.round \in 0..Rounds /\ Rounds \in Nat
      BY StageTypes
    <3> QED
      BY <3>1
  <2>2. \A q \in 1..(e.round - 1) : StageComplete(Accepted, q)
    BY <2>1 DEF StageInv, LogInv
  <2> QED
    BY <1>3, <2>1, <2>2
<1>7. InKnockout
  <2>1. HasKnockoutEvidence => checkpoint.round # GroupStage
    <3> SUFFICES ASSUME NEW e \in Accepted, e.round # GroupStage
                 PROVE  checkpoint.round # GroupStage
      BY DEF HasKnockoutEvidence, KnockoutGames
    <3> QED
      BY StageTypes DEF StageInv, CheckpointInv
  <2> QED
    BY <1>a, <2>1 DEF KnockoutPlanned, InKnockout, StageInv, CheckpointInv
<1>8. checkpoint.round <= r
  <2>1. checkpoint.round \in 1..Rounds /\ checkpoint.round - 1 \in 0..(Rounds - 1)
    BY SMTT(30), <1>7, StageTypes DEF StageInv, CheckpointInv
  <2>2. \A q \in 1..(checkpoint.round - 1) : StageComplete(Accepted, q)
    BY <1>7, <2>1 DEF StageInv, CheckpointInv, CheckpointBacked, InKnockout
  <2> QED
    BY <1>3, <2>1, <2>2
<1>9. MemoryInv'
  BY <1>a, <1>2, <1>3, <1>4, <1>5, <1>6, <1>7, <1>8
     DEF MemoryInv, Position, RecoverableState, ReadableState, InKnockout, disk
<1>10. WrittenInv'
  BY <1>1, <1>2, <1>3, <1>4 DEF WrittenInv, BarrierMissing
<1>11. TeamInv'
  <2>1. \A w \in Workers : ~Busy(w)'
    BY <1>4 DEF Busy, NoWorkers, Idle
  <2>2. proc' = "dispatch" => StageComplete(Accepted, r) \/ RoundOpen'
    BY <1>1, <1>2, <1>4 DEF BarrierMissing, RoundOpen, disk
  <2> QED
    BY <1>1, <1>2, <1>4, <2>1, <2>2 DEF TeamInv, Pending, Covers, Workers
<1>12. CheckpointInv'
  BY <1>a, <1>1, <1>2, CheckpointKept DEF disk, StageInv
<1> QED
  BY <1>9, <1>10, <1>11, <1>12 DEF Kept

LEMMA SnapshotKept ==
  ASSUME Invariants, SnapshotCheckpoint \/ SnapshotStandings
  PROVE  Kept
<1> USE DEF Invariants
<1>1. /\ Inside /\ proc \in {"snapCheckpoint", "snapStandings"}
      /\ proc' \in {"snapStandings", "dispatch"}
      /\ UNCHANGED <<memory, stopping, results, roster, torn, metadata>>
  BY DEF SnapshotCheckpoint, SnapshotStandings, Step, Inside, PutCheckpoint, PutStandings
<1>2. /\ active = GroupStage /\ Accepted' = Accepted
      /\ known = Accepted /\ metadata = "running"
  BY <1>1, Sequential DEF WrittenInv, Accepted
<1>3. CheckpointInv' /\ ~InKnockout' /\ checkpoint'.round = GroupStage
  <2>1. CASE SnapshotCheckpoint
    <3>1. PutCheckpoint("groups", GroupStage, position, count)
      BY <2>1 DEF SnapshotCheckpoint
    <3>2. Backed("groups", GroupStage, position, count)
      <4>1. count <= Cardinality(Accepted) /\ position <= PlayedPrefix(Accepted)
        BY <1>1, <1>2, Sequential, StageTypes, PlayedPrefixIs
      <4>2. \A e \in Accepted : e.round <= GroupStage
        BY <1>1, <1>2, Sequential DEF MemoryInv
      <4> QED
        BY <4>1, <4>2 DEF Backed
    <3>3. GroupStage \in 0..Rounds /\ count \in Nat /\ position \in Nat
      BY StageTypes
    <3>4. metadata' # "absent" /\ proc' # "initCheckpoint"
      BY <1>1, <1>2
    <3>5. CheckpointInv'
      BY <3>1, <3>2, <3>3, <3>4, CheckpointWritten
    <3> QED
      BY <3>1, <3>5 DEF PutCheckpoint, Checkpoint, InKnockout
  <2>2. CASE SnapshotStandings
    <3>1. UNCHANGED <<results, checkpoint, bracket>>
      BY <2>2 DEF SnapshotStandings, PutStandings
    <3>2. ~InKnockout /\ CheckpointInv
      BY <1>1, <1>2, Sequential
    <3>3. CheckpointInv'
      BY <1>1, <1>2, <3>1, <3>2, StandingsWritten
    <3> QED
      BY <3>1, <3>2, <3>3 DEF CheckpointInv, InKnockout
  <2> QED
    BY <2>1, <2>2 DEF SnapshotCheckpoint, SnapshotStandings
<1>4. MemoryInv'
  BY <1>1, <1>2, <1>3, SequentialMemory, StageTypes
<1>5. WrittenInv'
  BY <1>1, <1>2 DEF WrittenInv, memory
<1>6. TeamInv'
  BY <1>1, <1>2, Sequential
     DEF TeamInv, memory, Covers, Busy, Assigning, Workers, RoundOpen
<1> QED
  BY <1>3, <1>4, <1>5, <1>6 DEF Kept

LEMMA RecoverBracketKept ==
  ASSUME Invariants, RecoverBracket
  PROVE  Kept
<1> USE DEF Invariants
<1>1. /\ Inside /\ proc = "barrierBracket" /\ proc' = "barrierCheckpoint"
      /\ UNCHANGED <<memory, stopping, results, roster, torn, metadata, checkpoint, standings>>
      /\ bracket' = Bracket("running", active, GamesBefore(active))
  BY DEF RecoverBracket, Step, Inside, PutBracket
<1>2. /\ active # GroupStage /\ Accepted' = Accepted /\ known = Accepted
      /\ metadata = "running" /\ InKnockout /\ ~StageComplete(Accepted, active)
      /\ MemoryInv /\ CheckpointInv
      /\ checkpoint.round <= active
  BY <1>1, Sequential DEF WrittenInv, Accepted, MemoryInv
<1>3. CheckpointInv'
  <2>1. bracket'.rounds >= checkpoint.round
    BY <1>1, <1>2, StageTypes DEF Bracket
  <2>2. {e \in KnockoutGames(bracket'.games) : e.round < checkpoint.round}
          = {e \in KnockoutGames(Accepted) : e.round < checkpoint.round}
    BY <1>1, <1>2, StageTypes DEF Bracket, GamesBefore, KnockoutGames
  <2> QED
    BY <1>1, <1>2, <2>1, <2>2, BracketWritten
<1>4. MemoryInv'
  BY <1>1, <1>2, SequentialMemory DEF InKnockout
<1>5. WrittenInv'
  BY <1>1, <1>2 DEF WrittenInv, memory, Bracket, GamesBefore
<1>6. TeamInv'
  BY <1>1 DEF TeamInv
<1> QED
  BY <1>3, <1>4, <1>5, <1>6 DEF Kept

LEMMA RecoverCheckpointKept ==
  ASSUME Invariants, RecoverCheckpoint
  PROVE  Kept
<1> USE DEF Invariants
<1>1. /\ Inside /\ proc = "barrierCheckpoint" /\ proc' = "loop"
      /\ PutCheckpoint("knockout", active, position, count)
  BY DEF RecoverCheckpoint, Return, Inside
<1>2. /\ active # GroupStage /\ InKnockout /\ MemoryInv /\ WrittenInv
      /\ known = Accepted /\ metadata' = "running"
      /\ count = Cardinality(Accepted) /\ position = OfRound(Accepted, active)
      /\ standings = Standings("final", GroupMatches)
  BY <1>1, Sequential DEF WrittenInv, PutCheckpoint
<1>3. /\ active \in 0..Rounds /\ active \in 1..Rounds
      /\ position \in Nat /\ count \in Nat
  BY <1>2, StageTypes
<1>4. Backed("knockout", active, position, count)
  <2>1. /\ bracket.rounds >= active
        /\ {e \in KnockoutGames(bracket.games) : e.round < active}
             = {e \in KnockoutGames(Accepted) : e.round < active}
    BY <1>1, <1>2, <1>3 DEF WrittenInv, GamesBefore, KnockoutGames
  <2> QED
    BY <1>2, <1>3, <2>1 DEF Backed, MemoryInv
<1>5. CheckpointInv'
  BY <1>1, <1>2, <1>3, <1>4, CheckpointWritten
<1> QED
  BY <1>1, <1>5 DEF Kept, Inside

------------------------------------------------------------------------------
(* The steps of the workers and of the lane.                               *)

(* Each of the first workers takes an open series; one does if there is any. *)
LEMMA FirstTaken ==
  ASSUME TypeInv, todo \subseteq SeriesIn(active), NEW first \in InitialSeries
  PROVE  /\ DOMAIN first \subseteq Workers
         /\ \A w \in DOMAIN first : first[w] \in todo
         /\ todo # {} => 1 \in DOMAIN first
<1>1. IsFiniteSet(SeriesIn(active))
  <2>1. active \in 0..Rounds /\ Rounds \in Nat
    BY StageTypes
  <2>2. 2^(Rounds - active) \in Int /\ GroupMatches \in Int
    <3>1. Rounds - active \in Nat
      BY <2>1
    <3> QED
      BY <3>1, RulesAssumption
  <2>3. IsFiniteSet(1..2^(Rounds - active)) /\ IsFiniteSet(1..GroupMatches)
    BY <2>2, FS_Interval
  <2> QED
    BY <2>3 DEF SeriesIn
<1> DEFINE open == Cardinality(todo)
           k == Min({Concurrency, open})
<1>2. open \in Nat /\ (todo # {} => open # 0)
  <2>1. IsFiniteSet(todo)
    BY <1>1, FS_Subset
  <2> QED
    BY <2>1, FS_CardinalityType, FS_EmptySet
<1>3. Concurrency \in Nat \ {0}
  BY RunnerAssumption
<1>4. first \in [1..k -> todo]
  BY DEF InitialSeries
<1> HIDE DEF open
<1>5. k \in {Concurrency, open} /\ k <= Concurrency
  <2>1. \E x \in {Concurrency, open} : \A y \in {Concurrency, open} : x <= y
    BY <1>2, <1>3
  <2> QED
    BY <2>1 DEF Min
<1> HIDE DEF k
<1> QED
  BY <1>2, <1>3, <1>4, <1>5 DEF Workers

(* What the steps of the workers that leave the disk alone have in common. *)
LEMMA WorkingMemory ==
  ASSUME MemoryInv, WrittenInv, Inside, Inside', proc' = "working",
         UNCHANGED <<disk, active, known, count, position>>,
         storageFailed => storageFailed'
  PROVE  MemoryInv' /\ WrittenInv'
<1>1. Accepted' = Accepted
  BY DEF Accepted, disk
<1>2. MemoryInv'
  BY <1>1 DEF MemoryInv, Position, disk, InKnockout
<1> QED
  BY <1>2 DEF WrittenInv

LEMMA DispatchKept ==
  ASSUME Invariants, Dispatch
  PROVE  Kept
<1> USE DEF Invariants
<1>1. /\ Inside /\ proc = "dispatch" /\ proc' = "working"
      /\ UNCHANGED <<disk, stopping, active, known, count, position, lane, laneStep,
                     stopAssigning, requestFailed, storageFailed>>
      /\ Accepted' = Accepted
  BY DEF Dispatch, Inside, disk, Accepted
<1>2. /\ MemoryInv /\ WrittenInv /\ TeamInv /\ CheckpointInv /\ known = Accepted
      /\ worker = NoWorkers /\ lane = << >> /\ laneStep = "append"
  <2>1. worker = NoWorkers /\ lane = << >>
    BY <1>1 DEF RequestInv, ReadyInv
  <2> QED
    BY <1>1, <2>1, Sequential, StageTypes DEF TeamInv, TypeInv, TypeOK
<1>3. MemoryInv' /\ WrittenInv'
  BY <1>1, <1>2, WorkingMemory DEF Inside
<1>4. CheckpointInv'
  BY <1>1, <1>2, CheckpointKept DEF disk
<1>5. ASSUME Assigning
      PROVE  TeamInv'
  <2>1. PICK first \in InitialSeries :
          /\ worker' = [w \in Workers |->
               IF w \in DOMAIN first THEN Asking(first[w]) ELSE Idle]
          /\ todo' = todo \ {first[w] : w \in DOMAIN first}
    BY <1>5 DEF Dispatch
  <2>2. /\ DOMAIN first \subseteq Workers
        /\ \A w \in DOMAIN first : first[w] \in todo
        /\ todo # {} => 1 \in DOMAIN first
    BY <1>1, <1>2, FirstTaken DEF TeamInv
  <2>3. \A w \in DOMAIN first : Busy(w)' /\ worker'[w].series = first[w]
    BY <2>1, <2>2 DEF Busy, Asking, Requesting
  <2>4. \A w \in Workers : Busy(w)' => w \in DOMAIN first /\ worker'[w].series = first[w]
    BY <2>1, <2>3 DEF Busy, Idle
  <2>5. ASSUME NEW s \in SeriesIn(active)
        PROVE  SeriesDone(known, active, s) \/ Covers(s)'
    <3>1. SeriesDone(known, active, s) \/ s \in todo
      BY <1>1, <1>2, <1>5 DEF TeamInv, Covers, Busy, NoWorkers, Idle
    <3>2. s \in todo \ todo' => \E w \in DOMAIN first : first[w] = s
      BY <2>1
    <3> QED
      BY <2>2, <2>3, <3>1, <3>2 DEF Covers, Workers
  <2>6. todo' # {} => \E w \in Workers : Busy(w)'
    BY <2>1, <2>2, <2>3
  <2>7. \A w \in Workers : Busy(w)' => worker'[w].series \in SeriesIn(active)
    BY <1>1, <1>2, <2>2, <2>4 DEF TeamInv
  <2> QED
    BY <1>1, <1>2, <2>1, <2>5, <2>6, <2>7 DEF TeamInv, RoundOpen, Workers, disk, Busy
<1>6. ASSUME ~Assigning
      PROVE  TeamInv'
  <2>1. UNCHANGED <<worker, todo>> /\ ~Assigning'
    BY <1>1, <1>6 DEF Dispatch, Assigning
  <2> QED
    BY <1>1, <1>2, <2>1 DEF TeamInv, RoundOpen, Workers, disk, Busy
<1> QED
  BY <1>3, <1>4, <1>5, <1>6 DEF Kept

(* A worker with a series keeps it while its response waits.               *)
LEMMA RequestSucceedsKept ==
  ASSUME Invariants, NEW w \in Workers, RequestSucceeds(w)
  PROVE  Kept
<1> USE DEF Invariants
<1>1. /\ Inside /\ proc = "working" /\ proc' = "working"
      /\ worker[w].pc = "request"
      /\ worker' = [worker EXCEPT ![w].pc = "queued"] /\ lane' = Append(lane, w)
      /\ UNCHANGED <<disk, stopping, active, known, count, position, todo,
                     laneStep, stopAssigning, requestFailed, storageFailed>>
      /\ Accepted' = Accepted
  BY DEF RequestSucceeds, Inside, disk, Accepted
<1>2. MemoryInv /\ WrittenInv /\ TeamInv /\ CheckpointInv
  BY <1>1 DEF StageInv
<1>3. MemoryInv' /\ WrittenInv'
  BY <1>1, <1>2, WorkingMemory DEF Inside
<1>4. CheckpointInv'
  BY <1>1, <1>2, CheckpointKept DEF disk
<1>5. \A v \in Workers : (Busy(v)' <=> Busy(v)) /\ worker'[v].series = worker[v].series
  BY <1>1 DEF TypeInv, TypeOK, WorkerType, Busy
<1>6. lane' # << >>
  <2>1. lane \in Seq(Workers)
    BY DEF TypeInv, TypeOK
  <2> QED
    BY <1>1, <2>1, AppendProperties
<1>7. TeamInv'
  BY <1>1, <1>2, <1>5, <1>6
     DEF TeamInv, RoundOpen, Workers, disk, Covers, Assigning
<1> QED
  BY <1>3, <1>4, <1>7 DEF Kept

(* A worker leaves after a failure: nobody is assigned a series any more.  *)
LEMMA FailedTeam ==
  ASSUME TypeInv, TeamInv, Inside, proc = "working", NEW h \in Workers,
         worker' = [worker EXCEPT ![h] = Idle], stopAssigning',
         requestFailed' \/ storageFailed', laneStep' # "append" => lane' # << >>,
         laneStep' \in {laneStep, "append"}, storageFailed' => laneStep' = "append",
         UNCHANGED <<proc, stopping, active, known, todo, checkpoint>>,
         StageComplete(Accepted, active) => StageComplete(Accepted', active)
  PROVE  TeamInv'
<1>1. \A v \in Workers : Busy(v)' => Busy(v) /\ worker'[v] = worker[v]
  BY DEF TypeInv, TypeOK, Busy, Idle
<1>2. ~Assigning'
  BY DEF Assigning
<1> QED
  BY <1>1, <1>2 DEF TeamInv, RoundOpen, Workers

LEMMA RequestFailsKept ==
  ASSUME Invariants, NEW w \in Workers, RequestFails(w)
  PROVE  Kept
<1> USE DEF Invariants
<1>1. /\ Inside /\ proc = "working" /\ proc' = "working"
      /\ worker' = [worker EXCEPT ![w] = Idle]
      /\ stopAssigning' /\ (requestFailed' \/ storageFailed')
      /\ UNCHANGED <<disk, stopping, active, known, count, position, todo, lane,
                     laneStep, storageFailed>>
      /\ Accepted' = Accepted
  BY DEF RequestFails, RecordRequestFailure, Inside, disk, Accepted
<1>2. MemoryInv /\ WrittenInv /\ TeamInv /\ CheckpointInv
  BY <1>1 DEF StageInv
<1>3. MemoryInv' /\ WrittenInv'
  BY <1>1, <1>2, WorkingMemory DEF Inside
<1>4. CheckpointInv'
  BY <1>1, <1>2, CheckpointKept DEF disk
<1>5. (laneStep # "append" => lane # << >> /\ ~storageFailed)
  BY <1>1, <1>2 DEF TeamInv
<1>6. TeamInv'
  BY <1>1, <1>2, <1>5, FailedTeam DEF disk, TypeInv, TypeOK
<1> QED
  BY <1>3, <1>4, <1>6 DEF Kept

(* The head leaves the lane, and nothing is written.                       *)
LEMMA HeadLeaves ==
  ASSUME Invariants, proc = "working", lane # << >>, DropHead, UNCHANGED disk,
         stopAssigning', requestFailed' \/ storageFailed', storageFailed => storageFailed'
  PROVE  Kept
<1> USE DEF Invariants
<1>1. PICK h \in Workers : h = Head(lane)
  BY HeadType DEF TypeInv
<1>2. /\ Inside /\ proc' = "working" /\ Inside'
      /\ worker' = [worker EXCEPT ![h] = Idle] /\ laneStep' = "append"
      /\ UNCHANGED <<proc, stopping, active, known, count, position, todo>>
      /\ Accepted' = Accepted /\ checkpoint' = checkpoint
  BY <1>1 DEF DropHead, Inside, disk, Accepted
<1>3. MemoryInv /\ WrittenInv /\ TeamInv /\ CheckpointInv
  BY <1>2 DEF StageInv
<1>4. MemoryInv' /\ WrittenInv'
  BY <1>2, <1>3, WorkingMemory
<1>5. CheckpointInv'
  BY <1>2, <1>3, CheckpointKept DEF disk
<1>6. TeamInv'
  BY <1>2, <1>3, FailedTeam
<1> QED
  BY <1>4, <1>5, <1>6 DEF Kept

LEMMA WithoutAppendKept ==
  ASSUME Invariants,
         \/ RejectResponse \/ RefuseAfterStorageFailure \/ ReplaceFails
         \/ AppendFails /\ UNCHANGED disk
  PROVE  Kept
<1>1. CASE RejectResponse
  BY <1>1, HeadLeaves DEF RejectResponse, RecordRequestFailure, LaneAt
<1>2. CASE RefuseAfterStorageFailure
  <2>1. storageFailed' /\ stopAssigning'
    BY <1>2 DEF RefuseAfterStorageFailure, LaneAt, Invariants, RequestInv, WorkInv
  <2> QED
    BY <1>2, <2>1, HeadLeaves DEF RefuseAfterStorageFailure, LaneAt
<1>3. CASE ReplaceFails
  BY <1>3, HeadLeaves DEF ReplaceFails, RecordStorageFailure, LaneAt
<1>4. CASE AppendFails /\ UNCHANGED disk
  BY <1>4, HeadLeaves DEF AppendFails, RecordStorageFailure, LaneAt
<1> QED
  BY <1>1, <1>2, <1>3, <1>4

(* A torn record is a storage failure, and no result.                      *)
LEMMA TornKept ==
  ASSUME Invariants, AppendFails, TearRecord
  PROVE  Kept
<1> USE DEF Invariants
<1>1. /\ LaneAt("append") /\ RecordStorageFailure
      /\ UNCHANGED <<metadata, roster, results, checkpoint, standings, bracket>>
      /\ Accepted' = Accepted
  BY DEF AppendFails, TearRecord, Accepted
<1>2. PICK h \in Workers : h = Head(lane)
  BY <1>1, HeadType DEF TypeInv, LaneAt
<1>3. /\ Inside /\ Inside' /\ proc = "working" /\ proc' = "working"
      /\ worker' = [worker EXCEPT ![h] = Idle] /\ laneStep' = "append"
      /\ UNCHANGED <<proc, stopping, active, known, count, position, todo>>
      /\ storageFailed' /\ stopAssigning'
  BY <1>1, <1>2 DEF RecordStorageFailure, DropHead, LaneAt, Inside
<1>4. MemoryInv /\ WrittenInv /\ TeamInv /\ CheckpointInv
  BY <1>3 DEF StageInv
<1>5. MemoryInv'
  BY <1>1, <1>3, <1>4 DEF MemoryInv, Position, InKnockout
<1>6. WrittenInv'
  BY <1>3 DEF WrittenInv
<1>7. CheckpointInv'
  BY <1>1, <1>3, <1>4, CheckpointKept
<1>8. TeamInv'
  BY <1>1, <1>3, <1>4, FailedTeam
<1> QED
  BY <1>5, <1>6, <1>7, <1>8 DEF Kept

(* What an appended result changes outside the executor's memory.          *)
LEMMA AppendedAround ==
  ASSUME Invariants, LaneAt("append"), ~storageFailed, proc' = "working",
         NEW outcome \in OutcomesIn(active), AppendRecord(HeadResult(outcome)),
         IsFiniteSet(Accepted')
  PROVE  /\ CheckpointInv'
         /\ active = GroupStage \/ RoundOpen
         /\ \A s : SeriesDone(Accepted, active, s) => SeriesDone(Accepted', active, s)
         /\ \A q : StageComplete(Accepted, q) => StageComplete(Accepted', q)
         /\ \A e \in Accepted' : e.round <= active
         /\ UNCHANGED <<metadata, roster, torn, checkpoint, standings, bracket>>
<1> USE DEF Invariants
<1> DEFINE e == HeadResult(outcome)
<1>1. /\ Inside /\ proc = "working"
      /\ UNCHANGED <<metadata, roster, torn, checkpoint, standings, bracket>>
  BY DEF LaneAt, Inside, AppendRecord
<1>2. MemoryInv /\ TeamInv /\ CheckpointInv
  BY <1>1 DEF StageInv
<1>3. /\ Accepted' = Accepted \cup {e}
      /\ e.round = active
      /\ ~SeriesDone(Accepted, active, e.series)
      /\ ~StageComplete(Accepted, active)
  BY <1>2, AppendFits
<1> HIDE DEF e
<1>4. active = GroupStage \/ RoundOpen
  BY <1>1, <1>2, <1>3 DEF TeamInv
<1>5. e.round = checkpoint.round
  BY <1>2, <1>3, <1>4 DEF RoundOpen, MemoryInv, CheckpointInv
<1>6. CheckpointInv'
  BY <1>1, <1>2, <1>3, <1>5, CheckpointGrown
<1>7. \A x \in Accepted' : x.round <= active
  BY <1>2, <1>3, StageTypes DEF MemoryInv
<1>8. /\ \A s : SeriesDone(Accepted, active, s) => SeriesDone(Accepted', active, s)
      /\ \A q : StageComplete(Accepted, q) => StageComplete(Accepted', q)
  BY <1>3, DoneStaysDone
<1> QED
  BY <1>1, <1>4, <1>6, <1>7, <1>8

LEMMA AppendResultKept ==
  ASSUME Invariants, AppendResult, TypeInv'
  PROVE  Kept
<1> USE DEF Invariants
<1>1. PICK outcome \in OutcomesIn(active) :
        /\ AppendRecord(HeadResult(outcome))
        /\ known' = known \cup {HeadResult(outcome)}
        /\ position' = IF active = GroupStage
                       THEN PlayedPrefix(known \cup {HeadResult(outcome)})
                       ELSE position + 1
  BY DEF AppendResult
<1> DEFINE e == HeadResult(outcome)
<1>2. /\ LaneAt("append") /\ ~storageFailed /\ Inside /\ Inside'
      /\ proc = "working" /\ proc' = "working" /\ lane # << >>
      /\ count' = count + 1 /\ laneStep' = "checkpoint"
      /\ UNCHANGED <<stopping, active, todo, worker, lane, stopAssigning,
                     requestFailed, storageFailed>>
  BY DEF AppendResult, LaneAt, Inside
<1>3. MemoryInv /\ WrittenInv /\ TeamInv /\ known = Accepted
  BY <1>2 DEF StageInv, MemoryInv
<1>4. Accepted' = Accepted \cup {e} /\ e \notin Accepted /\ e.round = active
  BY <1>1, <1>2, <1>3, AppendFits
<1>5. /\ CheckpointInv'
      /\ active = GroupStage \/ RoundOpen
      /\ \A s : SeriesDone(Accepted, active, s) => SeriesDone(Accepted', active, s)
      /\ \A q : StageComplete(Accepted, q) => StageComplete(Accepted', q)
      /\ \A x \in Accepted' : x.round <= active
      /\ UNCHANGED <<metadata, roster, torn, checkpoint, standings, bracket>>
  BY <1>1, <1>2, AppendedAround DEF TypeInv
<1>6. known' = Accepted \cup {e} /\ IsFiniteSet(Accepted)
  BY <1>1, <1>3 DEF TypeInv
<1> HIDE DEF e
<1>7. count' = Cardinality(known')
  BY <1>2, <1>3, <1>4, <1>6, FS_AddElement DEF MemoryInv
<1>8. position' = Position(known)'
  <2>1. CASE active = GroupStage
    BY <1>1, <1>2, <2>1 DEF Position
  <2>2. CASE active # GroupStage
    <3>1. {x \in known' : x.round = active} = {x \in known : x.round = active} \cup {e}
      BY <1>3, <1>4, <1>6
    <3>2. e \notin {x \in known : x.round = active}
          /\ IsFiniteSet({x \in known : x.round = active})
      BY <1>3, <1>4, FS_Subset DEF TypeInv
    <3>3. Cardinality({x \in known' : x.round = active})
            = Cardinality({x \in known : x.round = active}) + 1
      BY <3>1, <3>2, FS_AddElement
    <3>4. position = Cardinality({x \in known : x.round = active})
      BY <1>3, <2>2 DEF MemoryInv, Position
    <3>5. position' = Cardinality({x \in known' : x.round = active})
      BY <1>1, <2>2, <3>3, <3>4
    <3> QED
      BY <1>2, <2>2, <3>5 DEF Position
  <2> QED
    BY <2>1, <2>2
<1>9. MemoryInv'
  BY <1>2, <1>3, <1>4, <1>5, <1>6, <1>7, <1>8 DEF MemoryInv, InKnockout
<1>10. WrittenInv'
  BY <1>2 DEF WrittenInv
<1>11. TeamInv'
  BY <1>2, <1>3, <1>4, <1>5, <1>6
     DEF TeamInv, RoundOpen, Workers, Covers, Busy, Assigning
<1> QED
  BY <1>5, <1>9, <1>10, <1>11 DEF Kept

(* An append that fails after the whole line is on disk.                   *)
LEMMA AppendedUnseenKept ==
  ASSUME Invariants, AppendFails, TypeInv',
         NEW outcome \in OutcomesIn(active), AppendRecord(HeadResult(outcome))
  PROVE  Kept
<1> USE DEF Invariants
<1>1. LaneAt("append") /\ RecordStorageFailure /\ ~storageFailed
  BY DEF AppendFails
<1>2. PICK h \in Workers : h = Head(lane)
  BY <1>1, HeadType DEF TypeInv, LaneAt
<1>3. /\ Inside /\ Inside' /\ proc = "working" /\ proc' = "working"
      /\ worker' = [worker EXCEPT ![h] = Idle] /\ laneStep' = "append"
      /\ UNCHANGED <<proc, stopping, active, known, count, position, todo>>
      /\ storageFailed' /\ stopAssigning'
  BY <1>1, <1>2 DEF RecordStorageFailure, DropHead, LaneAt, Inside
<1>4. MemoryInv /\ WrittenInv /\ TeamInv
  BY <1>3 DEF StageInv
<1>5. /\ CheckpointInv'
      /\ active = GroupStage \/ RoundOpen
      /\ \A s : SeriesDone(Accepted, active, s) => SeriesDone(Accepted', active, s)
      /\ \A q : StageComplete(Accepted, q) => StageComplete(Accepted', q)
      /\ \A x \in Accepted' : x.round <= active
      /\ UNCHANGED <<metadata, roster, torn, checkpoint, standings, bracket>>
  BY <1>1, <1>3, AppendedAround DEF TypeInv
<1>6. MemoryInv'
  BY <1>3, <1>4, <1>5 DEF MemoryInv, Position, InKnockout
<1>7. WrittenInv'
  BY <1>3 DEF WrittenInv
<1>8. TeamInv'
  BY <1>3, <1>4, <1>5, FailedTeam
<1> QED
  BY <1>5, <1>6, <1>7, <1>8 DEF Kept

LEMMA AppendFailsKept ==
  ASSUME Invariants, AppendFails, TypeInv'
  PROVE  Kept
  BY WithoutAppendKept, TornKept, AppendedUnseenKept DEF AppendFails

(* The head's worker goes on, takes another series, or is the last to know *)
(* that none is left.                                                      *)
LEMMA AcceptedTeam ==
  ASSUME TypeInv, WorkInv, TeamInv, proc = "working", lane # << >>, FinishAcceptance,
         StageComplete(Accepted, active) <=> StageComplete(Accepted', active),
         active = GroupStage \/ RoundOpen'
  PROVE  TeamInv'
<1>1. PICK h \in Workers : h = Head(lane)
  BY HeadType DEF TypeInv
<1> DEFINE s == worker[h].series
<1>2. /\ UNCHANGED <<proc, stopping, active, known, stopAssigning, requestFailed,
                     storageFailed>>
      /\ laneStep' = "append" /\ proc' = "working"
      /\ Assigning' <=> Assigning
  BY DEF FinishAcceptance, Assigning
<1>3. Busy(h) /\ s \in SeriesIn(active) /\ worker \in [Workers -> WorkerType]
  BY <1>1, HeadQueued DEF TypeInv, TypeOK, WorkInv, Busy, TeamInv
<1>4. /\ todo \subseteq SeriesIn(active)
      /\ \A w \in Workers : Busy(w) => worker[w].series \in SeriesIn(active)
      /\ stopAssigning => requestFailed \/ storageFailed
      /\ Assigning => \A t \in SeriesIn(active) :
                        \/ SeriesDone(known, active, t) \/ t \in todo
                        \/ \E w \in Workers : Busy(w) /\ worker[w].series = t
  BY DEF TeamInv, Covers
<1> DEFINE TeamAfter ==
             /\ todo' \subseteq todo
             /\ \A w \in Workers : Busy(w)' => worker'[w].series \in SeriesIn(active)
             /\ Assigning =>
                  /\ \A t \in SeriesIn(active) :
                       \/ SeriesDone(known, active, t) \/ t \in todo'
                       \/ \E w \in Workers : Busy(w)' /\ worker'[w].series = t
                  /\ todo' # {} => \E w \in Workers : Busy(w)'
<1>5. ASSUME NEW next \in SeriesIn(active), worker' = [worker EXCEPT ![h] = Asking(next)]
      PROVE  /\ Busy(h)' /\ worker'[h].series = next
             /\ \A w \in Workers : w # h => worker'[w] = worker[w] /\ (Busy(w)' <=> Busy(w))
  BY <1>3, <1>5 DEF Busy, Asking, Requesting
<1>6. ASSUME worker' = [worker EXCEPT ![h] = Asking(s)], todo' = todo
      PROVE  TeamAfter
  <2>1. /\ Busy(h)' /\ worker'[h].series = s
        /\ \A w \in Workers : w # h => worker'[w] = worker[w] /\ (Busy(w)' <=> Busy(w))
    BY <1>3, <1>5, <1>6
  <2> QED
    BY <1>3, <1>4, <1>6, <2>1
<1>7. ASSUME Assigning, SeriesDone(known, active, s), NEW next \in todo,
             worker' = [worker EXCEPT ![h] = Asking(next)], todo' = todo \ {next}
      PROVE  TeamAfter
  <2>1. next \in SeriesIn(active)
    BY <1>4, <1>7
  <2>2. /\ Busy(h)' /\ worker'[h].series = next
        /\ \A w \in Workers : w # h => worker'[w] = worker[w] /\ (Busy(w)' <=> Busy(w))
    BY <1>5, <1>7, <2>1
  <2>3. \A t \in SeriesIn(active) :
          \/ SeriesDone(known, active, t) \/ t \in todo'
          \/ \E w \in Workers : Busy(w)' /\ worker'[w].series = t
    BY <1>4, <1>7, <2>2
  <2> QED
    BY <1>4, <1>7, <2>1, <2>2, <2>3
<1>8. ASSUME ~Assigning \/ (SeriesDone(known, active, s) /\ todo = {}),
             worker' = [worker EXCEPT ![h] = Idle], todo' = todo
      PROVE  TeamAfter
  <2>1. /\ ~Busy(h)'
        /\ \A w \in Workers : w # h => worker'[w] = worker[w] /\ (Busy(w)' <=> Busy(w))
    BY <1>3, <1>8 DEF Busy, Idle
  <2> QED
    BY <1>4, <1>8, <2>1
<1>9. TeamAfter
  BY <1>1, <1>6, <1>7, <1>8 DEF FinishAcceptance
<1> HIDE DEF TeamAfter
<1>10. /\ todo' \subseteq SeriesIn(active)
       /\ \A w \in Workers : Busy(w)' => worker'[w].series \in SeriesIn(active)
       /\ Assigning => /\ \A t \in SeriesIn(active) :
                            \/ SeriesDone(known, active, t) \/ t \in todo'
                            \/ \E w \in Workers : Busy(w)' /\ worker'[w].series = t
                       /\ todo' # {} => \E w \in Workers : Busy(w)'
  BY <1>4, <1>9 DEF TeamAfter
<1> QED
  BY <1>2, <1>4, <1>10 DEF TeamInv, Covers, Workers

LEMMA WriteCheckpointKept ==
  ASSUME Invariants, WriteCheckpoint
  PROVE  Kept
<1> USE DEF Invariants
<1> DEFINE stage == IF active = GroupStage THEN "groups" ELSE "knockout"
<1>1. /\ Inside /\ Inside' /\ proc = "working" /\ proc' = "working" /\ lane # << >>
      /\ laneStep = "checkpoint"
      /\ PutCheckpoint(stage, active, position, count)
      /\ UNCHANGED <<active, known, count, position, storageFailed>>
      /\ UNCHANGED <<metadata, roster, results, torn, standings, bracket>>
      /\ checkpoint' = Checkpoint(stage, active, position, count)
      /\ Accepted' = Accepted
  BY DEF WriteCheckpoint, LaneAt, FinishAcceptance, Inside, PutCheckpoint, Accepted
<1>2. /\ MemoryInv /\ WrittenInv /\ TeamInv /\ CheckpointInv /\ ~storageFailed
      /\ known = Accepted /\ metadata = "running"
      /\ active = GroupStage \/ RoundOpen
  BY <1>1 DEF StageInv, TeamInv, MemoryInv, StatusInv
<1>3. /\ stage \in {"groups", "knockout", "complete"} /\ active \in 0..Rounds
      /\ position \in Nat /\ count \in Nat /\ GroupStage = 0
  BY StageTypes
<1>4. Backed(stage, active, position, count)
  <2>1. count <= Cardinality(Accepted) /\ \A e \in Accepted : e.round <= active
    BY <1>2, <1>3 DEF MemoryInv
  <2>2. CASE active = GroupStage
    <3>1. position <= PlayedPrefix(Accepted)
      BY <1>2, <1>3, <2>2, PlayedPrefixIs DEF MemoryInv, Position
    <3> QED
      BY <2>1, <2>2, <3>1 DEF Backed
  <2>3. CASE active # GroupStage
    <3>1. position = OfRound(Accepted, active)
      BY <1>2, <2>3 DEF MemoryInv, Position, OfRound
    <3>2. /\ standings = Standings("final", GroupMatches)
          /\ bracket.rounds >= active
          /\ {e \in KnockoutGames(bracket.games) : e.round < active}
               = {e \in KnockoutGames(Accepted) : e.round < active}
      BY <1>2, <2>3 DEF RoundOpen, CheckpointInv, BarrierOrder
    <3> QED
      BY <1>2, <1>3, <2>1, <2>3, <3>1, <3>2 DEF Backed, MemoryInv
  <2> QED
    BY <2>2, <2>3
<1>5. CheckpointInv'
  BY <1>1, <1>2, <1>3, <1>4, CheckpointWritten
<1>6. /\ active = GroupStage <=> ~InKnockout'
      /\ active = GroupStage \/ RoundOpen'
      /\ checkpoint'.round = active
  BY <1>1 DEF Checkpoint, InKnockout, RoundOpen
<1>7. MemoryInv'
  BY <1>1, <1>2, <1>3, <1>6 DEF MemoryInv, Position
<1>8. WrittenInv'
  BY <1>1 DEF WrittenInv
<1>9. TeamInv'
  <2>1. CASE FinishAcceptance
    BY <1>1, <1>2, <1>6, <2>1, AcceptedTeam DEF RequestInv
  <2>2. CASE /\ SnapshotDue /\ laneStep' = "standings"
             /\ UNCHANGED <<proc, stopping, active, known, count, position, todo,
                            worker, lane, stopAssigning, requestFailed, storageFailed>>
    BY <1>1, <1>2, <1>6, <2>2
       DEF TeamInv, SnapshotDue, Covers, Busy, Assigning, Workers
  <2> QED
    BY <2>1, <2>2 DEF WriteCheckpoint
<1> QED
  BY <1>5, <1>7, <1>8, <1>9 DEF Kept

LEMMA WriteProvisionalStandingsKept ==
  ASSUME Invariants, WriteProvisionalStandings
  PROVE  Kept
<1> USE DEF Invariants
<1>1. /\ Inside /\ Inside' /\ proc = "working" /\ proc' = "working" /\ lane # << >>
      /\ laneStep = "standings" /\ FinishAcceptance
      /\ UNCHANGED <<active, known, count, position, storageFailed>>
      /\ UNCHANGED <<metadata, roster, results, torn, checkpoint, bracket>>
      /\ Accepted' = Accepted
  BY DEF WriteProvisionalStandings, LaneAt, FinishAcceptance, Inside, PutStandings, Accepted
<1>2. /\ MemoryInv /\ WrittenInv /\ TeamInv /\ CheckpointInv /\ metadata = "running"
      /\ active = GroupStage /\ ~InKnockout
  BY <1>1 DEF StageInv, TeamInv, MemoryInv, StatusInv, Inside
<1>3. CheckpointInv'
  BY <1>1, <1>2, StandingsWritten
<1>4. MemoryInv'
  BY <1>1, <1>2 DEF MemoryInv, Position, InKnockout
<1>5. WrittenInv'
  BY <1>1 DEF WrittenInv
<1>6. TeamInv'
  BY <1>1, <1>2, AcceptedTeam DEF RequestInv
<1> QED
  BY <1>3, <1>4, <1>5, <1>6 DEF Kept

(* A signal changes what is assigned from now on, and nothing else.        *)
LEMMA SigtermKept ==
  ASSUME Invariants, Sigterm
  PROVE  Kept
<1>1. UNCHANGED <<disk, memory, proc>> /\ stopping' /\ ~Assigning' /\ Accepted' = Accepted
  BY DEF Sigterm, Assigning, disk, Accepted
<1>2. CheckpointInv'
  BY <1>1, CheckpointKept DEF disk, Invariants, StageInv
<1>3. ASSUME Inside'
      PROVE  MemoryInv' /\ WrittenInv' /\ TeamInv'
  <2>1. MemoryInv /\ WrittenInv /\ TeamInv
    BY <1>1, <1>3 DEF Inside, Invariants, StageInv
  <2>2. MemoryInv'
    BY <1>1, <2>1 DEF MemoryInv, Position, InKnockout, memory, disk
  <2>3. WrittenInv'
    BY <1>1, <2>1 DEF WrittenInv, GamesBefore, memory, disk
  <2>4. TeamInv'
    BY <1>1, <2>1 DEF TeamInv, RoundOpen, Busy, Workers, memory, disk
  <2> QED
    BY <2>2, <2>3, <2>4
<1> QED
  BY <1>2, <1>3 DEF Kept

------------------------------------------------------------------------------
(* The steps after the workers.                                            *)

LEMMA SettleRequestFailureKept ==
  ASSUME Invariants, SettleRequestFailure
  PROVE  Kept
<1>1. /\ Inside /\ proc = "working" /\ proc' = "failAppend" /\ ~storageFailed
      /\ UNCHANGED <<disk, memory, stopping>> /\ Accepted' = Accepted
  BY DEF SettleRequestFailure, Settled, Step, Inside, disk, Accepted
<1>2. MemoryInv /\ CheckpointInv
  BY <1>1 DEF Invariants, StageInv
<1>3. CheckpointInv'
  BY <1>1, <1>2, CheckpointKept DEF disk
<1>4. MemoryInv'
  BY <1>1, <1>2 DEF MemoryInv, Position, InKnockout, memory, disk
<1> QED
  BY <1>1, <1>3, <1>4 DEF Kept, WrittenInv, TeamInv

LEMMA SettleCompleteKept ==
  ASSUME Invariants, SettleComplete
  PROVE  Kept
<1>1. /\ Inside /\ proc = "working" /\ ~storageFailed
      /\ StageComplete(known, active)
      /\ proc' = CASE active = GroupStage     -> "finalStandings"
                   [] active \in 1..(Rounds - 1) -> "nextBracket"
                   [] active = Rounds         -> "doneBracket"
      /\ UNCHANGED <<disk, memory, stopping>> /\ Accepted' = Accepted
  BY DEF SettleComplete, Settled, Step, Inside, disk, Accepted
<1>2. MemoryInv /\ CheckpointInv /\ known = Accepted
  BY <1>1 DEF Invariants, StageInv, MemoryInv
<1>3. /\ active = GroupStage \/ active \in 1..(Rounds - 1) \/ active = Rounds
      /\ ~(active = GroupStage /\ active \in 1..(Rounds - 1))
      /\ ~(active = GroupStage /\ active = Rounds)
      /\ ~(active \in 1..(Rounds - 1) /\ active = Rounds)
  BY StageTypes DEF Invariants
<1>4. \/ active = GroupStage /\ proc' = "finalStandings"
      \/ active \in 1..(Rounds - 1) /\ proc' = "nextBracket"
      \/ active = Rounds /\ proc' = "doneBracket"
  BY <1>1, <1>3
<1>5. proc' \in {"finalStandings", "nextBracket", "doneBracket"}
  BY <1>4
<1>6. CheckpointInv'
  BY <1>1, <1>2, <1>5, CheckpointKept DEF disk
<1>7. MemoryInv'
  BY <1>1, <1>2 DEF MemoryInv, Position, InKnockout, memory, disk
<1>8. WrittenInv'
  BY <1>1, <1>2, <1>4 DEF WrittenInv, memory
<1>9. TeamInv'
  BY <1>5 DEF TeamInv
<1> QED
  BY <1>6, <1>7, <1>8, <1>9 DEF Kept

LEMMA AppendFailureKept ==
  ASSUME Invariants, AppendFailure
  PROVE  Kept
<1>1. /\ Inside /\ proc = "failAppend" /\ proc' = "failMetadata"
      /\ UNCHANGED <<memory, stopping>>
      /\ UNCHANGED <<metadata, roster, results, torn, checkpoint, standings, bracket>>
  BY DEF AppendFailure, Step, Inside, PutFailure
<1>2. MemoryInv /\ CheckpointInv
  BY <1>1, Sequential
<1>3. CheckpointInv'
  BY <1>1, <1>2, CheckpointKept
<1>4. MemoryInv'
  BY <1>1, <1>2, SequentialMemory DEF MemoryInv, InKnockout
<1> QED
  BY <1>1, <1>3, <1>4 DEF Kept, WrittenInv, TeamInv

(* Only group matches have been played, each of them once.                 *)
LEMMA WriteFinalStandingsKept ==
  ASSUME Invariants, WriteFinalStandings
  PROVE  Kept
<1> USE DEF Invariants
<1>1. /\ Inside /\ proc = "finalStandings" /\ proc' = "finalBracket"
      /\ UNCHANGED <<memory, stopping>>
      /\ UNCHANGED <<metadata, roster, results, torn, checkpoint, bracket>>
      /\ standings' = Standings("final", count)
      /\ Accepted' = Accepted
  BY DEF WriteFinalStandings, Step, Inside, PutStandings, Accepted
<1>2. /\ active = GroupStage /\ ~InKnockout /\ count = Cardinality(Accepted)
      /\ StageComplete(Accepted, active)
      /\ MemoryInv /\ CheckpointInv /\ LogInv /\ metadata = "running"
  BY <1>1, Sequential DEF WrittenInv
<1>3. Cardinality(Accepted) = GroupMatches
  <2>1. /\ IsFiniteSet(Accepted) /\ StageComplete(Accepted, GroupStage)
        /\ \A x, y \in Accepted : SameMatch(x, y) => x = y
    BY <1>2, SameMatchSame, StageTypes DEF RequestInv
  <2>2. \A e \in Accepted : e.round = GroupStage
    BY <1>2, StageTypes DEF MemoryInv
  <2>3. \A e \in Accepted : e.series \in 1..GroupMatches /\ e.game = 1
    BY <1>2, <2>2 DEF LogInv, Placed, SeriesIn
  <2>4. PICK E : E = Accepted
    OBVIOUS
  <2> QED
    BY <2>1, <2>2, <2>3, <2>4, GroupResultsCount
<1>4. CheckpointInv'
  BY <1>1, <1>2, StandingsWritten
<1>5. MemoryInv'
  BY <1>1, <1>2, SequentialMemory DEF MemoryInv, InKnockout
<1>6. WrittenInv'
  BY <1>1, <1>2, <1>3 DEF WrittenInv, memory
<1>7. TeamInv'
  BY <1>1 DEF TeamInv
<1> QED
  BY <1>4, <1>5, <1>6, <1>7 DEF Kept

LEMMA WriteInitialBracketKept ==
  ASSUME Invariants, WriteInitialBracket
  PROVE  Kept
<1> USE DEF Invariants
<1>1. /\ Inside /\ proc = "finalBracket" /\ proc' = "finalCheckpoint"
      /\ UNCHANGED <<memory, stopping>>
      /\ UNCHANGED <<metadata, roster, results, torn, checkpoint, standings>>
      /\ bracket' = Bracket("running", 1, {}) /\ Accepted' = Accepted
  BY DEF WriteInitialBracket, Step, Inside, PutBracket, Accepted
<1>2. /\ active = GroupStage /\ ~InKnockout /\ metadata = "running"
      /\ MemoryInv /\ CheckpointInv
      /\ StageComplete(Accepted, active) /\ standings = Standings("final", GroupMatches)
  BY <1>1, Sequential DEF WrittenInv
<1>3. CheckpointInv'
  BY <1>1, <1>2, BracketWritten
<1>4. MemoryInv'
  BY <1>1, <1>2, SequentialMemory DEF MemoryInv, InKnockout
<1>5. WrittenInv'
  BY <1>1, <1>2 DEF WrittenInv, memory
<1> QED
  BY <1>1, <1>3, <1>4, <1>5 DEF Kept, TeamInv

LEMMA EnterKnockoutKept ==
  ASSUME Invariants, EnterKnockout
  PROVE  Kept
<1> USE DEF Invariants
<1>1. /\ Inside /\ proc = "finalCheckpoint" /\ proc' = "loop"
      /\ PutCheckpoint("knockout", 1, 0, count)
  BY DEF EnterKnockout, Return, Inside
<1>2. /\ active = GroupStage /\ metadata' = "running" /\ count = Cardinality(Accepted)
      /\ MemoryInv /\ StageComplete(Accepted, GroupStage)
      /\ standings = Standings("final", GroupMatches)
      /\ bracket = Bracket("running", 1, {})
  BY <1>1, Sequential DEF WrittenInv, PutCheckpoint
<1>3. 1 \in 0..Rounds /\ 1 \in 1..Rounds /\ count \in Nat /\ GroupStage = 0
  BY StageTypes
<1>4. \A e \in Accepted : e.round = 0
  BY <1>2, StageTypes DEF MemoryInv
<1>5. Backed("knockout", 1, 0, count)
  <2>1. /\ bracket.rounds >= 1
        /\ {e \in KnockoutGames(bracket.games) : e.round < 1}
             = {e \in KnockoutGames(Accepted) : e.round < 1}
    BY <1>2, <1>3, <1>4 DEF Bracket, KnockoutGames
  <2>2. 0 <= OfRound(Accepted, 1)
    BY MoreOfRound, StageTypes
  <2>3. /\ count <= Cardinality(Accepted) /\ \A e \in Accepted : e.round <= 1
        /\ \A q \in 0..(1 - 1) : StageComplete(Accepted, q)
    BY <1>2, <1>3, <1>4
  <2> QED
    BY <1>2, <1>3, <2>1, <2>2, <2>3 DEF Backed
<1>6. CheckpointInv'
  BY <1>1, <1>2, <1>3, <1>5, CheckpointWritten
<1> QED
  BY <1>1, <1>6 DEF Kept, Inside

LEMMA WriteNextBracketKept ==
  ASSUME Invariants, WriteNextBracket
  PROVE  Kept
<1> USE DEF Invariants
<1>1. /\ Inside /\ proc = "nextBracket" /\ proc' = "nextCheckpoint"
      /\ UNCHANGED <<memory, stopping>>
      /\ UNCHANGED <<metadata, roster, results, torn, checkpoint, standings>>
      /\ bracket' = Bracket("running", active + 1, GamesBefore(active + 1))
      /\ Accepted' = Accepted
  BY DEF WriteNextBracket, Step, Inside, PutBracket, Accepted
<1>2. /\ active \in 1..(Rounds - 1) /\ active # GroupStage /\ known = Accepted
      /\ metadata = "running" /\ InKnockout /\ StageComplete(Accepted, active)
      /\ MemoryInv /\ CheckpointInv /\ checkpoint.round <= active
      /\ checkpoint.round \in 0..Rounds
  BY <1>1, Sequential, StageTypes DEF WrittenInv, MemoryInv
<1>3. CheckpointInv'
  <2>1. bracket'.rounds >= checkpoint.round
    BY <1>1, <1>2 DEF Bracket
  <2>2. \A e \in Accepted : e.round \in 0..Rounds
    BY StageTypes
  <2>3. {e \in KnockoutGames(bracket'.games) : e.round < checkpoint.round}
          = {e \in KnockoutGames(Accepted) : e.round < checkpoint.round}
    BY <1>1, <1>2, <2>2 DEF Bracket, GamesBefore, KnockoutGames
  <2> QED
    BY <1>1, <1>2, <2>1, <2>3, BracketWritten
<1>4. MemoryInv'
  BY <1>1, <1>2, SequentialMemory DEF MemoryInv, InKnockout
<1>5. WrittenInv'
  BY <1>1, <1>2 DEF WrittenInv, GamesBefore, memory
<1> QED
  BY <1>1, <1>3, <1>4, <1>5 DEF Kept, TeamInv

LEMMA EnterNextRoundKept ==
  ASSUME Invariants, EnterNextRound
  PROVE  Kept
<1> USE DEF Invariants
<1>1. /\ Inside /\ proc = "nextCheckpoint" /\ proc' = "loop"
      /\ PutCheckpoint("knockout", active + 1, 0, count)
  BY DEF EnterNextRound, Return, Inside
<1>2. /\ active \in 1..(Rounds - 1) /\ active # GroupStage /\ metadata' = "running"
      /\ count = Cardinality(Accepted) /\ known = Accepted
      /\ MemoryInv /\ InKnockout /\ StageComplete(Accepted, active)
      /\ standings = Standings("final", GroupMatches)
      /\ bracket = Bracket("running", active + 1, GamesBefore(active + 1))
  BY <1>1, Sequential, StageTypes DEF WrittenInv, PutCheckpoint
<1>3. /\ active + 1 \in 0..Rounds /\ active + 1 \in 1..Rounds /\ count \in Nat
      /\ 0 \in Nat /\ GroupStage = 0 /\ active + 1 - 1 = active
  BY <1>2, StageTypes
<1>4. Backed("knockout", active + 1, 0, count)
  <2>1. /\ bracket.rounds >= active + 1
        /\ {e \in KnockoutGames(bracket.games) : e.round < active + 1}
             = {e \in KnockoutGames(Accepted) : e.round < active + 1}
    BY <1>2, <1>3 DEF Bracket, KnockoutGames, GamesBefore
  <2>2. 0 <= OfRound(Accepted, active + 1)
    BY MoreOfRound, StageTypes
  <2>3. \A e \in Accepted : e.round <= active + 1
    BY <1>2, StageTypes DEF MemoryInv
  <2>4. \A q \in 0..(active + 1 - 1) : StageComplete(Accepted, q)
    BY <1>2, <1>3 DEF MemoryInv
  <2> QED
    BY <1>2, <1>3, <2>1, <2>2, <2>3, <2>4 DEF Backed
<1>5. CheckpointInv'
  BY <1>1, <1>2, <1>3, <1>4, CheckpointWritten
<1> QED
  BY <1>1, <1>5 DEF Kept, Inside

LEMMA WriteCompletedBracketKept ==
  ASSUME Invariants, WriteCompletedBracket
  PROVE  Kept
<1> USE DEF Invariants
<1>1. /\ Inside /\ proc = "doneBracket" /\ proc' = "doneCheckpoint"
      /\ UNCHANGED <<memory, stopping>>
      /\ UNCHANGED <<metadata, roster, results, torn, checkpoint, standings>>
      /\ bracket' = Bracket("completed", active, GamesBefore(active + 1))
      /\ Accepted' = Accepted
  BY DEF WriteCompletedBracket, Step, Inside, PutBracket, Accepted
<1>2. /\ active = Rounds /\ active # GroupStage /\ known = Accepted
      /\ metadata = "running" /\ InKnockout /\ StageComplete(Accepted, active)
      /\ MemoryInv /\ CheckpointInv /\ checkpoint.round \in 0..Rounds
      /\ Rounds \in Nat
  BY <1>1, Sequential, StageTypes DEF WrittenInv
<1>3. GamesBefore(active + 1) = KnockoutGames(Accepted)
  <2>1. \A e \in Accepted : e.round \in 0..Rounds
    BY StageTypes
  <2> QED
    BY <1>2, <2>1 DEF GamesBefore, KnockoutGames
<1>4. CheckpointInv'
  <2>1. bracket'.rounds >= checkpoint.round
    BY <1>1, <1>2 DEF Bracket
  <2>2. {e \in KnockoutGames(bracket'.games) : e.round < checkpoint.round}
          = {e \in KnockoutGames(Accepted) : e.round < checkpoint.round}
    BY <1>1, <1>3 DEF Bracket, KnockoutGames
  <2> QED
    BY <1>1, <1>2, <2>1, <2>2, BracketWritten
<1>5. MemoryInv'
  BY <1>1, <1>2, SequentialMemory DEF MemoryInv, InKnockout
<1>6. WrittenInv'
  BY <1>1, <1>2, <1>3 DEF WrittenInv, memory
<1> QED
  BY <1>1, <1>4, <1>5, <1>6 DEF Kept, TeamInv

LEMMA WriteCompleteCheckpointKept ==
  ASSUME Invariants, WriteCompleteCheckpoint
  PROVE  Kept
<1> USE DEF Invariants
<1>1. /\ Inside /\ proc = "doneCheckpoint" /\ proc' = "doneMetadata"
      /\ UNCHANGED <<memory, stopping>>
      /\ UNCHANGED <<metadata, roster, results, torn, standings, bracket>>
      /\ PutCheckpoint("complete", active, position, count)
      /\ checkpoint' = Checkpoint("complete", active, position, count)
      /\ Accepted' = Accepted
  BY DEF WriteCompleteCheckpoint, Step, Inside, PutCheckpoint, Accepted
<1>2. /\ active = Rounds /\ active # GroupStage /\ known = Accepted
      /\ metadata = "running" /\ InKnockout /\ StageComplete(Accepted, active)
      /\ MemoryInv /\ count = Cardinality(Accepted)
      /\ position = OfRound(Accepted, active)
      /\ standings = Standings("final", GroupMatches)
      /\ bracket = Bracket("completed", Rounds, KnockoutGames(Accepted))
  BY <1>1, Sequential, StageTypes DEF WrittenInv
<1>3. /\ active \in 0..Rounds /\ active \in 1..Rounds
      /\ position \in Nat /\ count \in Nat
  BY <1>2, StageTypes
<1>4. Backed("complete", active, position, count)
  <2>1. /\ bracket.rounds >= active
        /\ KnockoutGames(bracket.games) = KnockoutGames(Accepted)
    BY <1>2, <1>3 DEF Bracket, KnockoutGames
  <2> QED
    BY <1>2, <1>3, <2>1 DEF Backed, MemoryInv
<1>5. CheckpointInv'
  BY <1>1, <1>2, <1>3, <1>4, CheckpointWritten
<1>6. MemoryInv'
  BY <1>1, <1>2, <1>3, SequentialMemory DEF InKnockout, Checkpoint
<1>7. WrittenInv'
  BY <1>1, <1>2 DEF WrittenInv, memory
<1> QED
  BY <1>1, <1>5, <1>6, <1>7 DEF Kept, TeamInv

------------------------------------------------------------------------------
(* The invariant.                                                          *)

(* A run is marked completed when all its files say so, and never again.   *)
LEMMA CompletedStep ==
  ASSUME Invariants, Next
  PROVE  CompletedRunIsCanonical'
<1> USE DEF Invariants
<1>1. CASE metadata = "completed"
  <2>1. UNCHANGED disk /\ Accepted' = Accepted
    BY <1>1, TerminalStep DEF Terminal, disk, Accepted
  <2> QED
    BY <1>1, <2>1 DEF disk, StageInv, CompletedRunIsCanonical, CanonicalArtifacts,
       CanonicalStandings, CanonicalBracket
<1>2. CASE metadata # "completed" /\ metadata' = "completed"
  <2>1. CompleteRun
    BY <1>2, WhoWrites DEF InitializeMetadata, FailRun, AppendFailure, PutMetadata,
       PutFailure
  <2>2. /\ Inside /\ proc = "doneMetadata"
        /\ UNCHANGED <<roster, results, torn, checkpoint, standings, bracket>>
        /\ Accepted' = Accepted
    BY <2>1 DEF CompleteRun, Return, Inside, PutMetadata, Accepted
  <2>3. /\ active = Rounds /\ Rounds \in Nat \ {0} /\ GroupStage = 0
        /\ StageComplete(Accepted, active)
        /\ MemoryInv /\ LogInv /\ ~torn /\ roster
        /\ count = Cardinality(Accepted) /\ position = OfRound(Accepted, Rounds)
        /\ standings = Standings("final", GroupMatches)
        /\ bracket = Bracket("completed", Rounds, KnockoutGames(Accepted))
        /\ checkpoint = Checkpoint("complete", Rounds, position, count)
    BY <2>2, Sequential, StageTypes DEF WrittenInv, MemoryInv
  <2>4. \A q \in 0..Rounds : StageComplete(Accepted, q)
    <3>1. \A q \in 0..(active - 1) : StageComplete(Accepted, q)
      BY <2>3 DEF MemoryInv
    <3> QED
      BY <2>3, <3>1
  <2>5. position = Cardinality(Games(Accepted, Rounds, 1))
    <3>1. SeriesIn(Rounds) = {1}
      <4>1. 2^(Rounds - Rounds) = 1
        BY <2>3
      <4> QED
        BY <2>3, <4>1 DEF SeriesIn
    <3>2. \A e \in Accepted : e.round = Rounds => e.series = 1
      BY <2>3, <3>1 DEF LogInv, Placed
    <3>3. {e \in Accepted : e.round = Rounds} = Games(Accepted, Rounds, 1)
      BY <3>2 DEF Games
    <3> QED
      BY <2>3, <3>3 DEF OfRound
  <2>6. CanonicalStandings' /\ CanonicalBracket'
    BY <2>2, <2>3, <2>4 DEF CanonicalStandings, CanonicalBracket
  <2>7. checkpoint' = Checkpoint("complete", Rounds,
                                 Cardinality(Games(Accepted', Rounds, 1)),
                                 Cardinality(Accepted'))
    BY <2>2, <2>3, <2>5
  <2>8. UniqueResults'
    BY <2>2 DEF RequestInv, UniqueResults
  <2> QED
    BY <1>2, <2>2, <2>3, <2>6, <2>7, <2>8
       DEF CompletedRunIsCanonical, CanonicalArtifacts, UniqueResults
<1>3. CASE metadata' # "completed"
  BY <1>3 DEF CompletedRunIsCanonical
<1> QED
  BY <1>1, <1>2, <1>3

(* Nothing has been written and nothing is being executed.                 *)
LEMMA StageInit == Init => StageInv
<1> SUFFICES ASSUME Init PROVE StageInv
  OBVIOUS
<1>1. /\ proc = "down" /\ metadata = "absent" /\ results = << >>
      /\ checkpoint = Checkpoint("absent", 0, 0, 0)
      /\ Accepted = {} /\ DOMAIN results = {}
  BY DEF Init, EmptyDisk, Accepted
<1>2. LogInv
  BY <1>1 DEF LogInv
<1>3. CheckpointInv
  BY <1>1, FS_EmptySet
     DEF CheckpointInv, CheckpointBacked, BarrierOrder, InKnockout, Checkpoint, GroupStage
<1> QED
  BY <1>1, <1>2, <1>3 DEF StageInv, Inside, CompletedRunIsCanonical

(* Every step of the planner and of the stages keeps what it should.       *)
LEMMA KeptByAll ==
  ASSUME Invariants, Next, TypeInv'
  PROVE  Kept
<1>1. CASE Start \/ Plan
  BY <1>1, OutsideKept, InitializeCheckpointKept, PlanGroupsKept, PlanKnockoutKept,
     SnapshotKept, RecoverBracketKept, RecoverCheckpointKept
     DEF Plan, Invariants
<1>2. CASE Work
  BY <1>2, DispatchKept, RequestSucceedsKept, AppendResultKept, WriteCheckpointKept,
     WriteProvisionalStandingsKept, WithoutAppendKept
     DEF Work
<1>3. CASE Finish
  BY <1>3, OutsideKept, SettleRequestFailureKept, SettleCompleteKept, AppendFailureKept,
     WriteFinalStandingsKept, WriteInitialBracketKept, EnterKnockoutKept,
     WriteNextBracketKept, EnterNextRoundKept, WriteCompletedBracketKept,
     WriteCompleteCheckpointKept
     DEF Finish, Invariants
<1>4. CASE BattleFault
  BY <1>4, WithoutAppendKept, RequestFailsKept DEF BattleFault
<1>5. CASE Fault
  BY <1>5, AppendFailsKept, WithoutAppendKept, SigtermKept, OutsideKept
     DEF Fault, Invariants
<1> QED
  BY <1>1, <1>2, <1>3, <1>4, <1>5 DEF Next

(* StageInv is inductive, given the types, the status and the requests.    *)
LEMMA StageNext == Invariants /\ [Next]_vars => StageInv'
<1> SUFFICES ASSUME Invariants, [Next]_vars PROVE StageInv'
  OBVIOUS
<1>1. CASE Next
  <2>1. TypeInv'
    BY <1>1, TypeNext DEF Invariants
  <2>2. Kept
    BY <1>1, <2>1, KeptByAll
  <2>3. LogInv'
    BY <1>1, LogStep DEF Invariants, StageInv
  <2>4. CompletedRunIsCanonical'
    BY <1>1, CompletedStep
  <2> QED
    BY <2>2, <2>3, <2>4 DEF StageInv, Kept
<1>2. CASE UNCHANGED vars
  <2>1. UNCHANGED disk /\ UNCHANGED memory /\ UNCHANGED <<proc, stopping>>
        /\ Accepted' = Accepted /\ StageInv
    BY <1>2 DEF vars, disk, Accepted, Invariants
  <2>2. LogInv'
    BY <2>1, LogKept DEF disk, StageInv
  <2>3. CheckpointInv'
    BY <2>1, CheckpointKept DEF disk, StageInv
  <2>4. CompletedRunIsCanonical'
    BY <2>1 DEF disk, StageInv, CompletedRunIsCanonical, CanonicalArtifacts,
       CanonicalStandings, CanonicalBracket
  <2>5. ASSUME Inside' PROVE MemoryInv' /\ WrittenInv' /\ TeamInv'
    <3>1. MemoryInv /\ WrittenInv /\ TeamInv
      BY <2>1, <2>5 DEF StageInv, Inside
    <3>2. MemoryInv'
      BY <2>1, <3>1 DEF MemoryInv, Position, InKnockout, memory, disk
    <3>3. WrittenInv'
      BY <2>1, <3>1 DEF WrittenInv, GamesBefore, memory, disk
    <3>4. TeamInv'
      BY <2>1, <3>1 DEF TeamInv, RoundOpen, Covers, Busy, Assigning, Workers, memory, disk
    <3> QED
      BY <3>2, <3>3, <3>4
  <2> QED
    BY <2>2, <2>3, <2>4, <2>5 DEF StageInv
<1> QED
  BY <1>1, <1>2

(* All four invariants, together.                                          *)
LEMMA InvariantsHold == Spec => []Invariants
<1>1. Init => Invariants
  BY TypeInit, StatusInit, RequestInit, StageInit DEF Invariants
<1>2. Invariants /\ [Next]_vars => Invariants'
  BY TypeNext, StatusNext, RequestNext, StageNext DEF Invariants
<1> QED
  BY <1>1, <1>2, PTL DEF Spec

------------------------------------------------------------------------------
(* What the invariant gives.                                               *)

(* The memory an executor acts on is what the log holds, result by result, *)
(* unless a failed append left a record behind.                            *)
THEOREM MemoryIsTheLog == Spec => []MemoryMatchesLog
<1>1. Invariants => MemoryMatchesLog
  BY DEF Invariants, StageInv, Inside, MemoryInv, MemoryMatchesLog
<1> QED
  BY InvariantsHold, <1>1, PTL

(* Workers that end without a failure or a stop have left no series of the *)
(* stage undone, however many there are and in whatever order they end.    *)
THEOREM StageIsFinished == Spec => []ExecutorFinishesStage
<1>1. Invariants => ExecutorFinishesStage
  <2> SUFFICES ASSUME Invariants, Settled, ~storageFailed, ~requestFailed, ~stopping
               PROVE  StageComplete(known, active)
    BY DEF ExecutorFinishesStage
  <2>1. TeamInv /\ proc = "working" /\ \A w \in Workers : ~Busy(w)
    BY DEF Invariants, StageInv, Inside, Settled, Busy
  <2>2. Assigning /\ todo = {}
    BY <2>1 DEF TeamInv, Assigning
  <2> QED
    BY <2>1, <2>2 DEF TeamInv, Covers, StageComplete
<1> QED
  BY InvariantsHold, <1>1, PTL

(* The checkpoint never claims progress the results do not back.           *)
THEOREM CheckpointsAreBacked == Spec => []CheckpointBacked
<1>1. Invariants => CheckpointBacked
  BY DEF Invariants, StageInv, CheckpointInv
<1> QED
  BY InvariantsHold, <1>1, PTL

(* Once the checkpoint names a knockout round, the standings are final and *)
(* the bracket shows every round before it.                                *)
THEOREM BarriersAreOrdered == Spec => []BarrierOrder
<1>1. Invariants => BarrierOrder
  BY DEF Invariants, StageInv, CheckpointInv
<1> QED
  BY InvariantsHold, <1>1, PTL

(* The planner refuses nothing the executors wrote, a torn record apart.   *)
THEOREM EvidenceIsRecoverable == Spec => []EvidenceRecoverable
<1>1. Invariants => EvidenceRecoverable
  BY LogIsRecoverable DEF Invariants, StageInv, RequestInv, EvidenceRecoverable
<1> QED
  BY InvariantsHold, <1>1, PTL

(* A completed run is one the archive loader accepts.                      *)
THEOREM CompletedIsCanonical == Spec => []CompletedRunIsCanonical
<1>1. Invariants => CompletedRunIsCanonical
  BY DEF Invariants, StageInv
<1> QED
  BY InvariantsHold, <1>1, PTL

------------------------------------------------------------------------------
(* The checkpoint only moves forward.                                      *)

(* The steps that write the checkpoint.                                    *)
LEMMA WhoCheckpoints ==
  Next => \/ UNCHANGED checkpoint
          \/ InitializeCheckpoint \/ SnapshotCheckpoint \/ RecoverCheckpoint
          \/ WriteCheckpoint \/ EnterKnockout \/ EnterNextRound
          \/ WriteCompleteCheckpoint
<1> USE DEF disk, PutRoster, PutStandings, PutBracket, PutMetadata, PutFailure,
            AppendRecord, TearRecord
<1>1. CASE Start
  BY <1>1 DEF Start
<1>2. CASE Plan
  BY <1>2 DEF Plan, StopInLoop, BeginPlan, InitializeMetadata, ReturnTerminal,
     RefuseState, CreateRoster, PlanGroups, PlanKnockout, LoadPlan, SnapshotStandings,
     RecoverBracket
<1>3. CASE Work
  BY <1>3 DEF Work, Dispatch, RequestSucceeds, AppendResult, WriteProvisionalStandings,
     RefuseAfterStorageFailure
<1>4. CASE Finish
  BY <1>4 DEF Finish, SettleStorageFailure, SettleRequestFailure, SettleInterrupted,
     SettleComplete, AppendFailure, FailRun, WriteFinalStandings, WriteInitialBracket,
     WriteNextBracket, WriteCompletedBracket, CompleteRun
<1>5. CASE BattleFault
  BY <1>5 DEF BattleFault, RejectResponse, RequestFails
<1>6. CASE Fault
  BY <1>6 DEF Fault, AppendFails, ReplaceFails, Sigterm, Crash
<1> QED
  BY <1>1, <1>2, <1>3, <1>4, <1>5, <1>6 DEF Next

Forward ==
  /\ checkpoint'.count >= checkpoint.count
  /\ \/ StageRank(checkpoint') > StageRank(checkpoint)
     \/ /\ checkpoint'.stage = checkpoint.stage
        /\ \/ checkpoint'.round > checkpoint.round
           \/ /\ checkpoint'.round = checkpoint.round
              /\ checkpoint'.position >= checkpoint.position

(* What takes a checkpoint forward when every result is counted.           *)
LEMMA ForwardWritten ==
  ASSUME TypeInv, CheckpointInv,
         NEW stage \in {"groups", "knockout", "complete"}, NEW r \in 0..Rounds,
         NEW p \in Nat, NEW n \in Nat, PutCheckpoint(stage, r, p, n),
         n = Cardinality(Accepted),
         \/ stage = "groups" /\ ~InKnockout /\ r = 0 /\ p = PlayedPrefix(Accepted)
         \/ stage = "knockout" /\ ~InKnockout
         \/ /\ stage = "knockout" /\ checkpoint.stage = "knockout"
            /\ \/ r > checkpoint.round
               \/ r = checkpoint.round /\ p = OfRound(Accepted, r)
         \/ stage = "complete" /\ r = Rounds /\ p = OfRound(Accepted, r)
  PROVE  Forward
<1>1. /\ checkpoint'.stage = stage /\ checkpoint'.round = r
      /\ checkpoint'.position = p /\ checkpoint'.count = n
  BY DEF PutCheckpoint, Checkpoint
<1>2. /\ checkpoint.count \in Nat /\ checkpoint.position \in Nat
      /\ checkpoint.round \in 0..Rounds /\ GroupStage = 0 /\ GroupMatches \in Nat
      /\ checkpoint.stage \in {"absent", "groups", "knockout", "complete"}
  BY StageTypes DEF CheckpointType
<1>3. n >= checkpoint.count
  BY <1>2 DEF CheckpointInv, CheckpointBacked
<1>4. /\ checkpoint.stage = "absent" => StageRank(checkpoint) = 0
      /\ checkpoint.stage = "groups" => StageRank(checkpoint) = 1
      /\ checkpoint.stage = "knockout" => StageRank(checkpoint) = 2
      /\ checkpoint.stage = "complete" => StageRank(checkpoint) = 3
  BY DEF StageRank
<1>5. /\ stage = "groups" => StageRank(checkpoint') = 1
      /\ stage = "knockout" => StageRank(checkpoint') = 2
      /\ stage = "complete" => StageRank(checkpoint') = 3
  BY <1>1 DEF StageRank
<1>6. checkpoint.stage = "groups" =>
        /\ checkpoint.round = 0
        /\ checkpoint.position <= PlayedPrefix(Accepted)
  <2>1. checkpoint.stage = "groups" =>
          /\ checkpoint.round = 0
          /\ checkpoint.position \in 0..GroupMatches
          /\ \A s \in 1..checkpoint.position : SeriesDone(Accepted, GroupStage, s)
    BY <1>2 DEF CheckpointInv, CheckpointBacked, InKnockout
  <2> QED
    BY <2>1, PlayedPrefixIs
<1>7. InKnockout => checkpoint.position <= OfRound(Accepted, checkpoint.round)
  BY DEF CheckpointInv, CheckpointBacked, InKnockout, OfRound
<1>8. checkpoint.stage = "complete" => checkpoint.round = Rounds
  BY DEF CheckpointInv
<1>9. CASE stage = "groups" /\ ~InKnockout /\ r = 0 /\ p = PlayedPrefix(Accepted)
  BY <1>1, <1>2, <1>3, <1>4, <1>5, <1>6, <1>9 DEF Forward, InKnockout
<1>10. CASE stage = "knockout" /\ ~InKnockout
  BY <1>1, <1>2, <1>3, <1>4, <1>5, <1>10 DEF Forward, InKnockout
<1>11. CASE /\ stage = "knockout" /\ checkpoint.stage = "knockout"
            /\ \/ r > checkpoint.round
               \/ r = checkpoint.round /\ p = OfRound(Accepted, r)
  BY <1>1, <1>2, <1>3, <1>7, <1>11 DEF Forward, InKnockout
<1>12. CASE stage = "complete" /\ r = Rounds /\ p = OfRound(Accepted, r)
  BY <1>1, <1>2, <1>3, <1>4, <1>5, <1>7, <1>8, <1>12 DEF Forward, InKnockout
<1> QED
  BY <1>9, <1>10, <1>11, <1>12

(* Each writer of the checkpoint takes it forward.                         *)
LEMMA ForwardStep ==
  ASSUME Invariants, Next, checkpoint' # checkpoint
  PROVE  Forward
<1> USE DEF Invariants
<1>t. /\ active \in 0..Rounds /\ Rounds \in Nat \ {0} /\ GroupStage = 0
      /\ count \in Nat /\ position \in Nat /\ checkpoint.round \in 0..Rounds
      /\ checkpoint.stage \in {"absent", "groups", "knockout", "complete"}
      /\ CheckpointInv
  BY StageTypes DEF StageInv, CheckpointType
<1>1. CASE InitializeCheckpoint
  <2>1. /\ checkpoint = Checkpoint("absent", 0, 0, 0)
        /\ checkpoint' = Checkpoint("groups", 0, 0, 0)
    BY <1>1, <1>t DEF InitializeCheckpoint, Step, PutCheckpoint, CheckpointInv
  <2> QED
    BY <2>1 DEF Forward, StageRank, Checkpoint
<1>2. CASE SnapshotCheckpoint
  <2>1. /\ PutCheckpoint("groups", 0, position, count) /\ ~InKnockout
        /\ position = PlayedPrefix(Accepted) /\ count = Cardinality(Accepted)
    BY <1>2, <1>t, Sequential DEF SnapshotCheckpoint, Step, Inside, WrittenInv
  <2> QED
    BY <1>t, <2>1, ForwardWritten
<1>3. CASE RecoverCheckpoint
  <2>1. /\ PutCheckpoint("knockout", active, position, count) /\ InKnockout
        /\ ~StageComplete(Accepted, active) /\ checkpoint.round <= active
        /\ position = OfRound(Accepted, active) /\ count = Cardinality(Accepted)
    BY <1>3, Sequential DEF RecoverCheckpoint, Return, Inside, WrittenInv, MemoryInv
  <2>2. checkpoint.stage = "knockout"
    BY <1>t, <2>1 DEF CheckpointInv, CheckpointBacked, InKnockout
  <2> QED
    BY <1>t, <2>1, <2>2, ForwardWritten
<1>4. CASE WriteCheckpoint
  <2>1. /\ PutCheckpoint(IF active = GroupStage THEN "groups" ELSE "knockout",
                         active, position, count)
        /\ MemoryInv /\ TeamInv /\ proc = "working" /\ laneStep = "checkpoint"
    BY <1>4 DEF WriteCheckpoint, LaneAt, StageInv, Inside
  <2>2. /\ known = Accepted /\ count = Cardinality(Accepted)
        /\ active = GroupStage \/ RoundOpen
        /\ active = GroupStage => ~InKnockout
    BY <2>1 DEF TeamInv, MemoryInv
  <2>3. CASE active = GroupStage
    BY <1>t, <2>1, <2>2, <2>3, ForwardWritten DEF MemoryInv, Position
  <2>4. CASE active # GroupStage
    BY <1>t, <2>1, <2>2, <2>4, ForwardWritten DEF MemoryInv, Position, OfRound, RoundOpen
  <2> QED
    BY <2>3, <2>4
<1>5. CASE EnterKnockout
  <2>1. /\ PutCheckpoint("knockout", 1, 0, count) /\ ~InKnockout
        /\ count = Cardinality(Accepted)
    BY <1>5, <1>t, Sequential DEF EnterKnockout, Return, Inside, WrittenInv
  <2>2. 1 \in 0..Rounds
    BY <1>t
  <2> QED
    BY <1>t, <2>1, <2>2, ForwardWritten
<1>6. CASE EnterNextRound
  <2>1. /\ PutCheckpoint("knockout", active + 1, 0, count)
        /\ active \in 1..(Rounds - 1) /\ checkpoint.round <= active
        /\ count = Cardinality(Accepted) /\ InKnockout
    BY <1>6, <1>t, Sequential DEF EnterNextRound, Return, Inside, WrittenInv, MemoryInv
  <2>2. checkpoint.stage = "knockout" /\ active + 1 \in 0..Rounds
    BY <1>t, <2>1 DEF CheckpointInv, InKnockout
  <2> QED
    BY <1>t, <2>1, <2>2, ForwardWritten
<1>7. CASE WriteCompleteCheckpoint
  <2>1. /\ PutCheckpoint("complete", active, position, count) /\ active = Rounds
        /\ position = OfRound(Accepted, active) /\ count = Cardinality(Accepted)
    BY <1>7, <1>t, Sequential DEF WriteCompleteCheckpoint, Step, Inside, WrittenInv
  <2> QED
    BY <1>t, <2>1, ForwardWritten
<1> QED
  BY <1>1, <1>2, <1>3, <1>4, <1>5, <1>6, <1>7, WhoCheckpoints

(* The checkpoint never moves back, across restarts and rewritten barriers *)
(* alike.                                                                  *)
THEOREM CheckpointMovesForward == Spec => CheckpointNeverRegresses
<1>1. Invariants /\ [Next]_vars => [Forward]_vars
  <2> SUFFICES ASSUME Invariants, Next PROVE Forward
    BY DEF vars
  <2>1. CASE checkpoint' = checkpoint
    BY <2>1, StageTypes DEF Forward, Invariants
  <2>2. CASE checkpoint' # checkpoint
    BY <2>2, ForwardStep
  <2> QED
    BY <2>1, <2>2
<1>2. [][Forward]_vars => CheckpointNeverRegresses
  BY DEF Forward, CheckpointNeverRegresses
<1> QED
  BY InvariantsHold, <1>1, <1>2, PTL DEF Spec

------------------------------------------------------------------------------
(* The runner implements TournamentRun.                                    *)

(* The rules are the same on both sides.                                   *)
LEMMA SameRules ==
  /\ \A E, r, s : Promise!SeriesDone(E, r, s) <=> SeriesDone(E, r, s)
  /\ \A E, r : Promise!StageComplete(E, r) <=> StageComplete(E, r)
  /\ \A E, r, s : Promise!NextGame(E, r, s) = NextGame(E, r, s)
  /\ \A r : Promise!SeriesIn(r) = SeriesIn(r) /\ Promise!OutcomesIn(r) = OutcomesIn(r)
<1>1. /\ \A E, r, s : Promise!Games(E, r, s) = Games(E, r, s)
      /\ Promise!GroupStage = GroupStage
  BY DEF Promise!Games, Games, Promise!GroupStage, GroupStage
<1>c. \A S : Promise!Cardinality(S) = Cardinality(S)
  BY Zenon DEF Promise!Cardinality, Cardinality
<1>2. \A E, r, s : Promise!SeriesDecided(E, r, s) <=> SeriesDecided(E, r, s)
  <2> TAKE E, r, s
  <2>1. Promise!Games(E, r, s) = Games(E, r, s)
    BY <1>1
  <2>2. \A slot : Promise!Wins(E, r, s, slot) = Wins(E, r, s, slot)
    BY <1>c, <2>1 DEF Promise!Wins, Wins
  <2> QED
    BY <1>c, <2>1, <2>2, Zenon DEF Promise!SeriesDecided, SeriesDecided
<1>3. \A E, r, s : Promise!SeriesDone(E, r, s) <=> SeriesDone(E, r, s)
  BY <1>1, <1>2 DEF Promise!SeriesDone, SeriesDone
<1>4. \A r : Promise!SeriesIn(r) = SeriesIn(r) /\ Promise!OutcomesIn(r) = OutcomesIn(r)
  BY <1>1 DEF Promise!SeriesIn, SeriesIn, Promise!OutcomesIn, OutcomesIn
<1>5. \A E, r : Promise!StageComplete(E, r) <=> StageComplete(E, r)
  BY <1>3, <1>4 DEF Promise!StageComplete, StageComplete
<1>6. \A E, r, s : Promise!NextGame(E, r, s) = NextGame(E, r, s)
  <2> TAKE E, r, s
  <2>1. Promise!Games(E, r, s) = Games(E, r, s)
    BY <1>1
  <2> QED
    BY <1>c, <2>1, Zenon DEF Promise!NextGame, NextGame
<1> QED
  BY <1>3, <1>4, <1>5, <1>6

RunStatus == IF metadata = "absent" THEN "running" ELSE metadata

(* The response the lane appends is one the abstract run may accept.       *)
LEMMA AppendImplementsAccept ==
  ASSUME Invariants, LaneAt("append"), ~storageFailed, Inside,
         NEW outcome \in OutcomesIn(active), AppendRecord(HeadResult(outcome))
  PROVE  Promise!Next
<1> USE DEF Invariants
<1> DEFINE e == HeadResult(outcome)
<1>1. MemoryInv /\ TeamInv
  BY DEF StageInv
<1>2. /\ Accepted' = Accepted \cup {e} /\ e.round = active
      /\ Placed(e) /\ e.game = NextGame(Accepted, active, e.series)
      /\ ~SeriesDone(Accepted, active, e.series)
  BY <1>1, AppendFits
<1>3. e = [round |-> active, series |-> e.series, game |-> e.game, outcome |-> outcome]
  BY DEF HeadResult
<1> HIDE DEF e
<1>4. /\ active \in 0..Rounds /\ e.series \in SeriesIn(active)
      /\ \A q \in 0..(active - 1) : StageComplete(Accepted, q)
  BY <1>1, <1>2, StageTypes DEF Placed, MemoryInv
<1>5. metadata = "running" /\ metadata' = metadata
  BY DEF StatusInv, Inside, AppendRecord
<1>6. Promise!Accept(active, e.series, outcome)
  BY <1>2, <1>3, <1>4, <1>5, SameRules DEF Promise!Accept
<1> QED
  BY <1>4, <1>6, SameRules DEF Promise!Next

(* Every step of the runner is one of the abstract run, or changes nothing *)
(* it knows.                                                               *)
LEMMA StepImplements ==
  ASSUME Invariants, Next
  PROVE  Promise!Next \/ UNCHANGED <<Accepted, RunStatus>>
<1> USE DEF Invariants
<1>1. CASE ~(UNCHANGED results)
  BY <1>1, AppendsAreInside, AppendImplementsAccept
<1>2. CASE UNCHANGED results
  <2>1. Accepted' = Accepted
    BY <1>2 DEF Accepted
  <2>2. CASE UNCHANGED metadata
    BY <2>1, <2>2 DEF RunStatus
  <2>3. CASE InitializeMetadata
    BY <2>1, <2>3 DEF RunStatus, InitializeMetadata, PutMetadata
  <2>4. CASE FailRun
    <3>1. metadata = "running" /\ metadata' = "failed"
      BY <2>4 DEF FailRun, PutMetadata, StatusInv
    <3> QED
      BY <2>1, <3>1 DEF Promise!Next, Promise!Fail
  <2>5. CASE CompleteRun
    <3>1. /\ Inside /\ proc = "doneMetadata" /\ proc # "working"
          /\ metadata' = "completed"
      BY <2>5 DEF CompleteRun, Return, PutMetadata, Inside
    <3>2. /\ metadata = "running" /\ active = Rounds /\ MemoryInv
          /\ StageComplete(Accepted, active) /\ Rounds \in Nat
      BY <3>1, Sequential, StageTypes DEF WrittenInv
    <3>3. \A q \in 0..Rounds : StageComplete(Accepted, q)
      BY <3>2 DEF MemoryInv
    <3>4. Promise!Complete
      BY <2>1, <3>1, <3>2, <3>3, SameRules DEF Promise!Complete
    <3> QED
      BY <3>4 DEF Promise!Next
  <2> QED
    BY <2>2, <2>3, <2>4, <2>5, WhoWrites DEF AppendFailure, PutFailure
<1> QED
  BY <1>1, <1>2

(* Whatever crashes, stops and failures it meets, the runner keeps the     *)
(* promise of TournamentRun.                                               *)
THEOREM RunnerImplementsRun == Spec => KeepsPromise
<1>1. Init => Promise!Init
  BY DEF Init, EmptyDisk, Accepted, Promise!Init
<1>2. Invariants /\ [Next]_vars => [Promise!Next]_<<Accepted, RunStatus>>
  <2>1. Invariants /\ Next => [Promise!Next]_<<Accepted, RunStatus>>
    BY StepImplements
  <2>2. UNCHANGED vars => UNCHANGED <<Accepted, RunStatus>>
    BY DEF vars, disk, Accepted, RunStatus
  <2> QED
    BY <2>1, <2>2
<1> QED
  BY InvariantsHold, <1>1, <1>2, PTL DEF Spec, KeepsPromise, Promise!Spec, RunStatus

------------------------------------------------------------------------------
(* The provisional standings.                                              *)

(* The results that provisional standings must cover when n are accepted.  *)
Due(n) == LET passed == Min({n, GroupMatches - 1}) IN passed - (passed % Cadence)

Shown(st, n) == Due(n) > 0 => st.status = "provisional" /\ st.count >= Due(n)

(* The lane takes, or is about to take, a response of the group stage.     *)
Receptive ==
  /\ proc \in {"dispatch", "working"} /\ active = GroupStage
  /\ ~storageFailed /\ laneStep = "append"

(* While a group match is open, the standings are at most one result       *)
(* behind: what was due before the last result is shown whatever happens   *)
(* (a process may die, or fail to write, after an append), and what is due *)
(* with it is shown before the lane takes another response.                *)
SnapshotInv ==
  ~StageComplete(Accepted, GroupStage) =>
    LET n == Cardinality(Accepted)
    IN  /\ n > 0 => Shown(standings, n - 1)
        /\ Receptive => Shown(standings, n)

(* Quotient and remainder.                                                 *)
LEMMA Division ==
  ASSUME NEW n \in Int, NEW c \in Nat \ {0}
  PROVE  /\ n = c * (n \div c) + (n % c)
         /\ n % c \in 0..(c - 1) /\ n \div c \in Int
  OBVIOUS

(* The only multiple of c between -c and c is zero.                        *)
LEMMA SmallMultiple ==
  ASSUME NEW k \in Int, NEW c \in Nat \ {0}, NEW d \in Int, d = c * k, -c < d, d < c
  PROVE  k = 0
<1>1. CASE k >= 1
  <2>1. k - 1 \in Nat /\ k = (k - 1) + 1
    BY <1>1
  <2>2. PICK j \in Nat : k = j + 1
    BY <2>1
  <2>3. d = c * j + c /\ c * j \in Nat
    BY <2>2
  <2> QED
    BY <2>3
<1>2. CASE k <= -1
  <2>1. (0 - k) - 1 \in Nat /\ k = (0 - ((0 - k) - 1)) - 1
    BY <1>2
  <2>2. PICK j \in Nat : k = (0 - j) - 1
    BY <2>1
  <2>3. d = (0 - c * j) - c /\ c * j \in Nat
    BY <2>2
  <2> QED
    BY <2>3
<1> QED
  BY <1>1, <1>2

(* The last multiple of c changes at a multiple of c only.                 *)
LEMMA SameMultiple ==
  ASSUME NEW n \in Int, NEW c \in Nat \ {0}, n % c # 0
  PROVE  (n - 1) - ((n - 1) % c) = n - (n % c)
<1> DEFINE m == n - 1
           q == n \div c
           r == n % c
           p == m \div c
           s == m % c
<1>0. m \in Int /\ m = n - 1 /\ r # 0
  OBVIOUS
<1> HIDE DEF m
<1>1. n = c * q + r /\ r \in 0..(c - 1) /\ q \in Int
  BY Division
<1>2. m = c * p + s /\ s \in 0..(c - 1) /\ p \in Int
  BY <1>0, Division
<1> HIDE DEF q, r, p, s
<1>3. c * (q - p) = (s + 1) - r
  BY <1>0, <1>1, <1>2
<1>4. q - p = 0
  <2>1. (s + 1) - r \in Int /\ -c < (s + 1) - r /\ (s + 1) - r < c
    BY <1>0, <1>1, <1>2
  <2>2. q - p \in Int
    BY <1>1, <1>2
  <2> QED
    BY <1>3, <2>1, <2>2, SmallMultiple
<1>5. s + 1 = r
  BY <1>1, <1>2, <1>3, <1>4
<1>6. m - s = n - r
  BY <1>0, <1>1, <1>2, <1>5
<1> QED
  BY <1>6 DEF m, r, s

(* What is due, and when it changes: at the cadence, and never with the    *)
(* last result, for which the standings are final.                         *)
LEMMA WhatIsDue ==
  ASSUME NEW n \in Nat
  PROVE  /\ Due(n) \in Int /\ Due(n) <= n
         /\ n = 0 => Due(n) <= 0
         /\ ~AtCadence(n) /\ n > 0 => Due(n) = Due(n - 1)
<1>1. GroupMatches \in Nat \ {0} /\ Cadence \in Nat \ {0}
  BY RulesAssumption, RunnerAssumption
<1> DEFINE Passed(k) == Min({k, GroupMatches - 1})
<1>2. ASSUME NEW k \in Int
      PROVE  /\ k <= GroupMatches - 1 => Passed(k) = k
             /\ k >= GroupMatches - 1 => Passed(k) = GroupMatches - 1
             /\ Passed(k) \in Int /\ Passed(k) <= k
  <2>1. GroupMatches - 1 \in Int
    BY <1>1
  <2>2. CASE k <= GroupMatches - 1
    <3>1. Passed(k) = k
      BY <2>1, <2>2 DEF Min
    <3> QED
      BY <2>1, <2>2, <3>1
  <2>3. CASE k >= GroupMatches - 1
    <3>1. Passed(k) = GroupMatches - 1
      BY <2>1, <2>3 DEF Min
    <3> QED
      BY <2>1, <2>3, <3>1
  <2> QED
    BY <2>1, <2>2, <2>3
<1>3. Due(n) = Passed(n) - (Passed(n) % Cadence)
      /\ Due(n - 1) = Passed(n - 1) - (Passed(n - 1) % Cadence)
  BY DEF Due
<1> HIDE DEF Passed
<1>4. Passed(n) \in Int /\ Passed(n) <= n
  BY <1>2
<1>5. Passed(n) % Cadence \in 0..(Cadence - 1)
  BY <1>1, <1>4, Division
<1>6. Due(n) \in Int /\ Due(n) <= n
  BY <1>1, <1>3, <1>4, <1>5
<1>7. ASSUME ~AtCadence(n), n > 0 PROVE Due(n) = Due(n - 1)
  <2>1. CASE n < GroupMatches
    <3>1. Passed(n) = n /\ Passed(n - 1) = n - 1
      BY <1>1, <1>2, <2>1
    <3>2. n % Cadence # 0
      BY <1>7, <2>1 DEF AtCadence
    <3> QED
      BY <1>1, <1>3, <3>1, <3>2, SameMultiple
  <2>2. CASE n >= GroupMatches
    <3>1. Passed(n) = GroupMatches - 1 /\ Passed(n - 1) = GroupMatches - 1
      BY <1>1, <1>2, <2>2
    <3> QED
      BY <1>3, <3>1
  <2> QED
    BY <1>1, <2>1, <2>2
<1> QED
  BY <1>6, <1>7

(* Standings of n results show what is due with n results.                 *)
LEMMA SnapshotShows ==
  ASSUME NEW n \in Nat, PutStandings("provisional", n)
  PROVE  Shown(standings', n) /\ (n > 0 => Shown(standings', n - 1))
<1>1. standings'.status = "provisional" /\ standings'.count = n
  BY DEF PutStandings, Standings
<1>3. n > 0 => n - 1 \in Nat
  OBVIOUS
<1>4. Due(n) \in Int /\ Due(n) <= n /\ (n > 0 => Due(n - 1) \in Int /\ Due(n - 1) <= n - 1)
  BY <1>3, WhatIsDue
<1> QED
  BY <1>1, <1>4 DEF Shown

(* The steps that write the standings.                                     *)
LEMMA WhoShows ==
  Next => \/ UNCHANGED standings
          \/ SnapshotStandings \/ WriteProvisionalStandings \/ WriteFinalStandings
<1> USE DEF disk, PutRoster, PutCheckpoint, PutBracket, PutMetadata, PutFailure,
            AppendRecord, TearRecord
<1>1. CASE Start
  BY <1>1 DEF Start
<1>2. CASE Plan
  BY <1>2 DEF Plan, StopInLoop, BeginPlan, InitializeMetadata, InitializeCheckpoint,
     ReturnTerminal, RefuseState, CreateRoster, PlanGroups, PlanKnockout, LoadPlan,
     SnapshotCheckpoint, RecoverBracket, RecoverCheckpoint
<1>3. CASE Work
  BY <1>3 DEF Work, Dispatch, RequestSucceeds, AppendResult, WriteCheckpoint,
     RefuseAfterStorageFailure
<1>4. CASE Finish
  BY <1>4 DEF Finish, SettleStorageFailure, SettleRequestFailure, SettleInterrupted,
     SettleComplete, AppendFailure, FailRun, WriteInitialBracket, EnterKnockout,
     WriteNextBracket, EnterNextRound, WriteCompletedBracket, WriteCompleteCheckpoint,
     CompleteRun
<1>5. CASE BattleFault
  BY <1>5 DEF BattleFault, RejectResponse, RequestFails
<1>6. CASE Fault
  BY <1>6 DEF Fault, AppendFails, ReplaceFails, Sigterm, Crash
<1> QED
  BY <1>1, <1>2, <1>3, <1>4, <1>5, <1>6 DEF Next

(* The steps after which the lane is receptive again.                      *)
LEMMA WhoReceives ==
  Next /\ Receptive' =>
    \/ Receptive
    \/ SnapshotStandings \/ PlanGroups \/ PlanKnockout
    \/ WriteCheckpoint \/ WriteProvisionalStandings
<1> USE DEF Receptive, Step, Return, Exit, memory
<1>1. CASE Start
  BY <1>1 DEF Start
<1>2. CASE Plan
  BY <1>2 DEF Plan, StopInLoop, BeginPlan, InitializeMetadata, InitializeCheckpoint,
     ReturnTerminal, RefuseState, CreateRoster, SnapshotCheckpoint, RecoverBracket,
     RecoverCheckpoint
<1>3. CASE Work
  BY <1>3 DEF Work, Dispatch, RequestSucceeds, AppendResult, RefuseAfterStorageFailure,
     DropHead, LaneAt
<1>4. CASE Finish
  BY <1>4 DEF Finish, SettleStorageFailure, SettleRequestFailure, SettleInterrupted,
     SettleComplete, AppendFailure, FailRun, WriteFinalStandings, WriteInitialBracket,
     EnterKnockout, WriteNextBracket, EnterNextRound, WriteCompletedBracket,
     WriteCompleteCheckpoint, CompleteRun
<1>5. CASE BattleFault
  BY <1>5 DEF BattleFault, RejectResponse, RequestFails, DropHead, LaneAt
<1>6. CASE Fault
  BY <1>6 DEF Fault, AppendFails, ReplaceFails, RecordStorageFailure, Sigterm, Crash
<1> QED
  BY <1>1, <1>2, <1>3, <1>4, <1>5, <1>6 DEF Next

(* Outside the cadence nothing is due that was not due before.             *)
LEMMA ShownBefore ==
  ASSUME NEW n \in Nat, ~AtCadence(n), n > 0 => Shown(standings, n - 1)
  PROVE  Shown(standings, n)
<1>1. CASE n = 0
  BY <1>1, WhatIsDue DEF Shown
<1>2. CASE n > 0
  <2>1. Due(n) = Due(n - 1)
    BY <1>2, WhatIsDue
  <2> QED
    BY <1>2, <2>1 DEF Shown
<1> QED
  BY <1>1, <1>2

(* A new result while a group match was open: the standings showed what    *)
(* was due before it.                                                      *)
LEMMA ShownAtAppend ==
  ASSUME Invariants, SnapshotInv, Next, Appends,
         ~StageComplete(Accepted', GroupStage)
  PROVE  /\ Cardinality(Accepted') = Cardinality(Accepted) + 1
         /\ Shown(standings', Cardinality(Accepted)) /\ ~Receptive'
<1> USE DEF Invariants
<1>1. /\ LaneAt("append") /\ ~storageFailed /\ proc = "working" /\ laneStep = "append"
      /\ laneStep' = "checkpoint" \/ storageFailed'
  BY DEF Appends, AppendResult, AppendFails, RecordStorageFailure, LaneAt
<1>2. PICK outcome \in OutcomesIn(active) : AppendRecord(HeadResult(outcome))
  BY DEF Appends, AppendResult
<1>3. MemoryInv /\ TeamInv
  BY <1>1 DEF StageInv, Inside
<1> DEFINE e == HeadResult(outcome)
<1>4. /\ Accepted' = Accepted \cup {e} /\ e \notin Accepted
      /\ e.round = active /\ ~SeriesDone(Accepted, active, e.series)
  BY <1>1, <1>2, <1>3, AppendFits
<1> HIDE DEF e
<1>5. IsFiniteSet(Accepted) /\ Cardinality(Accepted) \in Nat
  BY StageTypes
<1>6. Cardinality(Accepted') = Cardinality(Accepted) + 1
  BY <1>4, <1>5, FS_AddElement
<1>7. ~StageComplete(Accepted, GroupStage)
  BY <1>4, DoneStaysDone
<1>8. active = GroupStage
  <2>1. active # GroupStage => GroupStage \in 0..(active - 1)
    BY StageTypes
  <2> QED
    BY <1>3, <1>7, <2>1 DEF MemoryInv
<1>9. Shown(standings, Cardinality(Accepted))
  BY <1>1, <1>7, <1>8 DEF SnapshotInv, Receptive
<1>10. UNCHANGED standings
  BY <1>2 DEF AppendRecord
<1> QED
  BY <1>1, <1>6, <1>9, <1>10 DEF Receptive

(* Every step keeps the standings up to date.                              *)
LEMMA SnapshotNext == Invariants /\ SnapshotInv /\ [Next]_vars => SnapshotInv'
<1> SUFFICES ASSUME Invariants, SnapshotInv, [Next]_vars PROVE SnapshotInv'
  OBVIOUS
<1> USE DEF Invariants
<1> DEFINE n == Cardinality(Accepted)
           Goal == ~StageComplete(Accepted', GroupStage) =>
                     /\ Cardinality(Accepted') > 0 => Shown(standings', Cardinality(Accepted') - 1)
                     /\ Receptive' => Shown(standings', Cardinality(Accepted'))
<1>0. n \in Nat
  BY StageTypes
<1>a. Goal => SnapshotInv'
  BY DEF SnapshotInv, Receptive, StageComplete, Shown, Due, SeriesIn, SeriesDone
<1>1. CASE UNCHANGED vars
  <2>1. Accepted' = Accepted /\ (Receptive' <=> Receptive) /\ UNCHANGED standings
    BY <1>1 DEF vars, disk, memory, Accepted, Receptive
  <2> QED
    BY <1>a, <2>1 DEF SnapshotInv
<1>2. CASE Next /\ Appends
  <2> SUFFICES ASSUME ~StageComplete(Accepted', GroupStage)
               PROVE  /\ Cardinality(Accepted') > 0 => Shown(standings', Cardinality(Accepted') - 1)
                      /\ Receptive' => Shown(standings', Cardinality(Accepted'))
    BY <1>a
  <2>1. /\ Cardinality(Accepted') = n + 1 /\ Shown(standings', n) /\ ~Receptive'
    BY <1>2, ShownAtAppend
  <2>2. (n + 1) - 1 = n
    BY <1>0
  <2> HIDE DEF n
  <2> QED
    BY <2>1, <2>2
<1>3. CASE Next /\ ~Appends
  <2>0. UNCHANGED results
    BY <1>3, WhoAppends
  <2>1. Accepted' = Accepted
    BY <2>0 DEF Accepted
  <2> SUFFICES ASSUME ~StageComplete(Accepted, GroupStage)
               PROVE  /\ n > 0 => Shown(standings', n - 1)
                      /\ Receptive' => Shown(standings', n)
    BY <1>a, <2>1
  <2>2. (n > 0 => Shown(standings, n - 1)) /\ (Receptive => Shown(standings, n))
    BY DEF SnapshotInv
  <2> HIDE DEF n
  <2>3. CASE SnapshotStandings \/ WriteProvisionalStandings
    <3>1. PutStandings("provisional", count)
      BY <2>3 DEF SnapshotStandings, WriteProvisionalStandings
    <3>2. count = n
      <4>1. CASE SnapshotStandings
        BY <4>1, Sequential DEF SnapshotStandings, Step, Inside, n
      <4>2. CASE WriteProvisionalStandings
        <5>1. LaneAt("standings")
          BY <4>2 DEF WriteProvisionalStandings
        <5>2. MemoryInv /\ TeamInv /\ proc = "working" /\ laneStep = "standings"
          BY <5>1 DEF StageInv, Inside, LaneAt
        <5> QED
          BY <5>2 DEF MemoryInv, TeamInv, n
      <4> QED
        BY <2>3, <4>1, <4>2
    <3> QED
      BY <1>0, <3>1, <3>2, SnapshotShows
  <2>4. CASE WriteFinalStandings
    <3>1. StageComplete(Accepted, GroupStage)
      BY <2>4, Sequential DEF WriteFinalStandings, Step, Inside, WrittenInv
    <3> QED
      BY <3>1
  <2>5. CASE ~SnapshotStandings /\ ~WriteProvisionalStandings /\ ~WriteFinalStandings
    <3>1. UNCHANGED standings
      BY <1>3, <2>5, WhoShows
    <3>2. n > 0 => Shown(standings', n - 1)
      BY <2>2, <3>1
    <3>3. ASSUME Receptive' PROVE Shown(standings, n)
      <4>1. CASE Receptive
        BY <2>2, <4>1
      <4>2. CASE PlanGroups
        <5>1. ~AtCadence(n)
          BY <3>3, <4>2 DEF PlanGroups, Receptive, n
        <5> QED
          BY <1>0, <2>2, <5>1, ShownBefore
      <4>3. CASE PlanKnockout
        <5>1. active' = ActiveRound(Accepted) /\ GroupStage = 0
          BY <4>3 DEF PlanKnockout, LoadPlan, GroupStage
        <5>2. ActiveRound(Accepted) # 0
          BY ActiveRoundIs
        <5> QED
          BY <3>3, <5>1, <5>2 DEF Receptive
      <4>4. CASE WriteCheckpoint
        <5>1. LaneAt("checkpoint") /\ active = GroupStage /\ ~SnapshotDue
          BY <3>3, <4>4 DEF WriteCheckpoint, FinishAcceptance, Receptive
        <5>2. MemoryInv /\ TeamInv /\ proc = "working" /\ laneStep = "checkpoint"
          BY <5>1 DEF StageInv, Inside, LaneAt
        <5>3. count = n
          BY <5>2 DEF MemoryInv, TeamInv, n
        <5>4. ~AtCadence(n)
          BY <5>1, <5>3 DEF SnapshotDue
        <5> QED
          BY <1>0, <2>2, <5>4, ShownBefore
      <4> QED
        BY <1>3, <2>5, <3>3, <4>1, <4>2, <4>3, <4>4, WhoReceives
    <3> QED
      BY <3>1, <3>2, <3>3
  <2> QED
    BY <2>3, <2>4, <2>5
<1> QED
  BY <1>1, <1>2, <1>3

(* The provisional standings are current whenever a group result is about  *)
(* to be appended, for every size of the group stage and every cadence.    *)
THEOREM StandingsAreCurrent == Spec => []ProvisionalStandingsCurrent
<1>1. Init => SnapshotInv
  <2> SUFFICES ASSUME Init PROVE SnapshotInv
    OBVIOUS
  <2>1. Accepted = {} /\ proc = "down"
    BY DEF Init, EmptyDisk, Accepted
  <2>2. Cardinality(Accepted) = 0
    BY <2>1, FS_EmptySet
  <2> QED
    BY <2>1, <2>2 DEF SnapshotInv, Receptive
<1>2. Invariants /\ SnapshotInv => ProvisionalStandingsCurrent
  <2> SUFFICES ASSUME Invariants, SnapshotInv, LaneAt("append"), active = GroupStage,
                      ~storageFailed, Due(count) > 0
               PROVE  standings.status = "provisional" /\ standings.count >= Due(count)
    BY DEF ProvisionalStandingsCurrent, Due
  <2> USE DEF Invariants
  <2>1. proc = "working" /\ lane # << >> /\ laneStep = "append"
    BY DEF LaneAt
  <2>2. MemoryInv /\ TeamInv
    BY <2>1 DEF StageInv, Inside
  <2>3. count = Cardinality(Accepted)
    BY <2>2 DEF MemoryInv
  <2>4. ~StageComplete(Accepted, GroupStage)
    <3>1. PICK h \in Workers : h = Head(lane)
      BY <2>1, HeadType DEF TypeInv
    <3>2. Busy(h)
      BY <2>1, <3>1, HeadQueued DEF Busy, RequestInv, WorkInv, TypeInv
    <3>3. NewFor(h) /\ worker[h].series \in SeriesIn(active)
      BY <2>1, <2>2, <3>1, <3>2, NewRequests DEF RequestInv, TeamInv
    <3> QED
      BY <3>3 DEF NewFor, StageComplete
  <2>5. Shown(standings, count)
    BY <2>1, <2>3, <2>4 DEF SnapshotInv, Receptive
  <2> QED
    BY <2>5 DEF Shown
<1> QED
  BY <1>1, <1>2, InvariantsHold, SnapshotNext, PTL DEF Spec
==============================================================================
