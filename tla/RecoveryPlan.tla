----------------------------- MODULE RecoveryPlan ------------------------------
(***************************************************************************)
(* The plans that recovery builds from the records of results.jsonl, step  *)
(* by step as group-recovery.js and knockout-recovery.js do, and the       *)
(* second look an executor takes at the plan it is given.  The executor    *)
(* knows neither the log nor how the plan was made: it derives everything  *)
(* again from the records in the plan and refuses whatever differs.        *)
(*                                                                         *)
(* A plan's entrants are left out: they follow from the results of the     *)
(* rounds before (KnockoutRounds).  A log is a sequence of entries, maybe  *)
(* one that no runner would have written.                                  *)
(***************************************************************************)
EXTENDS RunStore, SequencesExt

GroupSchedule == [n \in 1..GroupMatches |-> n]

(* The elements of a list at the positions in P, in their order.           *)
PositionOf(n, P) == CHOOSE i \in P : Cardinality({j \in P : j <= i}) = n

Picked(list, P) == [n \in 1..Cardinality(P) |-> list[PositionOf(n, P)]]

(* Where the accepted records are: equal ones count only the first time.   *)
FirstTimes(log) == {i \in DOMAIN log : \A j \in 1..(i - 1) : log[j] # log[i]}

Scheduled(e) == e.round = GroupStage /\ e.series \in SeriesIn(GroupStage) /\ e.game = 1

GroupRecords(log) == Picked(log, {i \in FirstTimes(log) : Scheduled(log[i])})

(* The others are taken for knockout records.                              *)
Later(log) == {i \in FirstTimes(log) : ~Scheduled(log[i])}

(* parseKnockoutRecord                                                     *)
KnownGame(e) ==
  /\ e.round \in 1..Rounds
  /\ e.series \in SeriesIn(e.round)
  /\ e.game \in 1..GameCap

------------------------------------------------------------------------------
(* reconstructGroupStage                                                   *)

Done(records) == {records[i].series : i \in DOMAIN records}

CompletedMatches(records) ==
  Picked(GroupSchedule, {n \in 1..GroupMatches : n \in Done(records)})

MissingMatches(records) ==
  Picked(GroupSchedule, {n \in 1..GroupMatches : n \notin Done(records)})

(* Deliberate bug: the position counts the completed matches, also those   *)
(* after a gap.                                                            *)
PositionIgnoringGaps(records) == Len(CompletedMatches(records))

(* One pass over the schedule, which stops counting at the first gap.      *)
SchedulePosition(records) ==
  LET missing == MissingMatches(records)
  IN  Cardinality({n \in 1..GroupMatches : missing = << >> \/ n < missing[1]})

GroupPlan(log) ==
  LET records == GroupRecords(log)
  IN  [records   |-> records,
       completed |-> CompletedMatches(records),
       missing   |-> MissingMatches(records),
       count     |-> Len(records),
       position  |-> SchedulePosition(records)]

(* validateExecutionPlan: IDs are scheduled and unique, the records belong *)
(* to them one to one, the position is the completed prefix and the        *)
(* missing matches are the rest of the schedule, in its order.             *)
ValidGroupPlan(plan) ==
  LET done   == ToSet(plan.completed)
      ofPlan == [i \in DOMAIN plan.records |-> plan.records[i].series]
  IN  /\ done \subseteq SeriesIn(GroupStage) /\ IsInjective(plan.completed)
      /\ plan.count = Cardinality(done)
      /\ \A i \in DOMAIN plan.records : Scheduled(plan.records[i])
      /\ IsInjective(ofPlan) /\ Range(ofPlan) = done
      /\ plan.position \in 0..GroupMatches
      /\ 1..plan.position \subseteq done /\ plan.position + 1 \notin done
      /\ plan.missing = Picked(GroupSchedule, {n \in 1..GroupMatches : n \notin done})

------------------------------------------------------------------------------
(* buildKnockoutPlanFromReconstruction                                     *)

(* The records of a series, in the order of their acceptance.              *)
SeriesRecords(log, r, s) ==
  Picked(log, {i \in Later(log) : log[i].round = r /\ log[i].series = s})

(* Games 1, 2, 3, ... as they were accepted: no gap, nothing out of order. *)
GamesInOrder(records) == \A i \in DOMAIN records : records[i].game = i

(* evaluateKnockoutSeries, which throws when a game follows the one that   *)
(* decided the series.                                                     *)
Won(records, slot) == Cardinality({i \in DOMAIN records : records[i].outcome = slot})

Decided(records) ==
  \/ Won(records, "entrant1") >= WinsNeeded \/ Won(records, "entrant2") >= WinsNeeded
  \/ Len(records) = GameCap

Playable(records) ==
  \A n \in 0..(Len(records) - 1) : ~Decided(SubSeq(records, 1, n))

Evaluation(records) ==
  [complete |-> Decided(records),
   wins     |-> <<Won(records, "entrant1"), Won(records, "entrant2")>>,
   next     |-> IF Decided(records) THEN 0 ELSE Len(records) + 1]

RoundEvaluations(log, r) ==
  [s \in SeriesIn(r) |-> Evaluation(SeriesRecords(log, r, s))]

RoundComplete(log, r) == \A s \in SeriesIn(r) : RoundEvaluations(log, r)[s].complete

(* The rounds recovery walks through: on from a complete one, up to the    *)
(* first that is not, or the final.                                        *)
PlannedRounds(log) ==
  {r \in 1..Rounds : \A q \in 1..(r - 1) : RoundComplete(log, q)}

PlannedRound(log) == Cardinality(PlannedRounds(log))

(* Deliberate bug: an unfinished round does not bar later ones.            *)
BarrierNotEnforced(log, r) == TRUE

(* An incomplete round has no game of a later round in the log, a complete *)
(* one no such game before its own last game.                              *)
BarrierKept(log, r) ==
  LET after == {i \in Later(log) : log[i].round > r}
      own   == {i \in Later(log) : log[i].round = r}
  IN  IF RoundComplete(log, r) THEN \A i \in after, j \in own : j < i
      ELSE after = {}

(* The refusals of the planner, the state layer's apart: no exception.     *)
RecoveryAccepts(log) ==
  /\ \A i \in Later(log) : KnownGame(log[i])
  /\ Later(log) # {} => MissingMatches(GroupRecords(log)) = << >>
  /\ \A r \in PlannedRounds(log) :
       /\ \A s \in SeriesIn(r) : /\ GamesInOrder(SeriesRecords(log, r, s))
                                 /\ Playable(SeriesRecords(log, r, s))
       /\ BarrierKept(log, r)

(* The requests of round r: the next game of each series that is not over. *)
NextGameRequests(evaluations) ==
  Picked([s \in DOMAIN evaluations |-> [series |-> s, game |-> evaluations[s].next]],
         {s \in DOMAIN evaluations : ~evaluations[s].complete})

(* Deliberate bug: the position counts the games of all rounds.            *)
ProgressOfAllRounds(log, r) == Cardinality(Later(log))

RoundProgress(log, r) == Cardinality({i \in Later(log) : log[i].round = r})

(* The validated records of a round, series by series.                     *)
RoundRecords(log, r) ==
  FlattenSeq([s \in SeriesIn(r) |-> SeriesRecords(log, r, s)])

KnockoutPlan(log) ==
  LET last    == PlannedRound(log)
      records == FlattenSeq([r \in 1..last |-> RoundRecords(log, r)])
      evals   == [r \in 1..last |-> RoundEvaluations(log, r)]
      over    == last = Rounds /\ RoundComplete(log, last)
  IN  [round          |-> last,
       evaluations    |-> evals,
       requests       |-> IF over THEN << >> ELSE NextGameRequests(evals[last]),
       groupRecords   |-> GroupRecords(log),
       records        |-> records,
       count          |-> Len(GroupRecords(log)) + Len(records),
       position       |-> RoundProgress(log, last),
       resultComplete |-> over,
       champion       |-> IF over THEN SeriesRecords(log, last, 1) ELSE << >>]

------------------------------------------------------------------------------
(* validateKnockoutExecutionPlan                                           *)

(* The records of a series in the plan, sorted by game number.             *)
Sorted(records) ==
  LET order == CHOOSE p \in Bijection(DOMAIN records, DOMAIN records) :
                 \A i, j \in DOMAIN records :
                   i < j => records[p[i]].game <= records[p[j]].game
  IN  [i \in DOMAIN records |-> records[order[i]]]

PlanGames(plan, r, s) ==
  LET records == plan.records
  IN  Sorted(Picked(records, {i \in DOMAIN records : /\ records[i].round = r
                                                     /\ records[i].series = s}))

ValidPlanRecords(plan) ==
  \A i \in DOMAIN plan.records :
    /\ KnownGame(plan.records[i]) /\ plan.records[i].round <= plan.round

(* Every evaluation follows from the games, and only the last round may be *)
(* unfinished.                                                             *)
ValidPlanRounds(plan) ==
  /\ plan.round = Len(plan.evaluations) /\ plan.round > 0
  /\ \A r \in 1..plan.round : \A s \in SeriesIn(r) :
       LET games == PlanGames(plan, r, s)
       IN  /\ GamesInOrder(games) /\ Playable(games)
           /\ plan.evaluations[r][s] = Evaluation(games)
           /\ r < plan.round => plan.evaluations[r][s].complete

PlanRoundOver(plan) ==
  \A s \in SeriesIn(plan.round) : plan.evaluations[plan.round][s].complete

ValidPlanProgress(plan) ==
  /\ plan.count = Len(plan.groupRecords) + Len(plan.records)
  /\ plan.position
       = Cardinality({i \in DOMAIN plan.records : plan.records[i].round = plan.round})

(* Only a finished final leaves nothing to ask for and has a champion,     *)
(* which its games determine.                                              *)
ValidPlanCompletion(plan) ==
  /\ plan.requests = NextGameRequests(plan.evaluations[plan.round])
  /\ IF PlanRoundOver(plan)
     THEN /\ plan.round = Rounds /\ plan.resultComplete /\ plan.requests = << >>
          /\ plan.champion = PlanGames(plan, Rounds, 1)
     ELSE ~plan.resultComplete /\ plan.champion = << >> /\ plan.requests # << >>

ValidKnockoutPlan(plan) ==
  /\ ValidPlanRecords(plan)
  /\ ValidPlanRounds(plan)
  /\ ValidPlanProgress(plan)
  /\ ValidPlanCompletion(plan)
==============================================================================
