-------------------------- MODULE RecoveryProperties --------------------------
(***************************************************************************)
(* What recovery owes the executors, checked where the runner plans.       *)
(***************************************************************************)
EXTENDS RunnerProperties, RecoveryPlan

(* The group executor's own validation never refuses a plan that recovery  *)
(* built, whatever gaps the log has, and what the executor starts from     *)
(* (LoadPlan) is what the plan says: its counts and its missing matches.   *)
GroupExecutorAcceptsPlan ==
  [][PlanGroups =>
       LET plan == GroupPlan(results)
       IN  /\ ValidGroupPlan(plan)
           /\ count' = plan.count /\ position' = plan.position
           /\ todo' = ToSet(plan.missing)]_vars

(* The games an executor's series are to play next.                        *)
NextGames == {[series |-> s, game |-> NextGame(known, active, s)] : s \in todo}

(* The same of the knockout executor, which derives every round again: its *)
(* round and counts are the plan's, and its series are those with a        *)
(* request, each for its next game.                                        *)
KnockoutExecutorAcceptsPlan ==
  [][PlanKnockout =>
       LET plan == KnockoutPlan(results)
       IN  /\ ValidKnockoutPlan(plan)
           /\ active' = plan.round
           /\ count' = plan.count /\ position' = plan.position
           /\ NextGames' = ToSet(plan.requests)]_vars

(* Logs one slip away from the runner's own: a record more, a record less, *)
(* or two records exchanged.                                               *)
GamesOf(r) == IF r = GroupStage THEN {1} ELSE 1..GameCap

Candidates ==
  UNION {[round : {r}, series : SeriesIn(r), game : GamesOf(r), outcome : OutcomesIn(r)]
           : r \in 0..Rounds}

Exchanged(log, i) == [log EXCEPT ![i] = log[i + 1], ![i + 1] = log[i]]

Slips(log) ==
  {Append(log, e) : e \in Candidates}
    \cup {RemoveAt(log, i) : i \in DOMAIN log}
    \cup {Exchanged(log, i) : i \in 1..(Len(log) - 1)}

Log(log) == INSTANCE RunStore WITH results <- log, torn <- FALSE, roster <- TRUE

(* Recovery, walking through the rounds, refuses exactly the logs that are *)
(* no history of a run, also those a slip has made of one.  What it does   *)
(* accept it can go on from: the plan is valid, only a finished final has  *)
(* nothing to do, and every answer to its requests is accepted in turn.    *)
RecoveryIsExact ==
  (Planning /\ ~stopping /\ checkpoint.count = Cardinality(Accepted)) =>
    \A log \in {results} \cup Slips(results) :
      ~Log(log)!ConflictingDuplicates =>
        /\ RecoveryAccepts(log) <=> Log(log)!RecoverableState
        /\ (RecoveryAccepts(log) /\ MissingMatches(GroupRecords(log)) = << >>) =>
             LET plan == KnockoutPlan(log)
             IN  /\ ValidKnockoutPlan(plan)
                 /\ \A i \in DOMAIN plan.requests, o \in Outcomes :
                      RecoveryAccepts(Append(log,
                        [round |-> plan.round, series |-> plan.requests[i].series,
                         game |-> plan.requests[i].game, outcome |-> o]))
==============================================================================
