---------------------------- MODULE GroupStandings ----------------------------
(***************************************************************************)
(* One group of the group stage: its schedule, the results that are        *)
(* accepted for it, in the order in which the requests in flight come      *)
(* back, and the standings calculated from them at any moment.             *)
(*                                                                         *)
(* A participant is its place in the group's roster.  Digests of the       *)
(* tournament seed are arbitrary constants here: what they decide (sides,  *)
(* the last tie-break) must not depend on anything else.                   *)
(***************************************************************************)
EXTENDS Integers, FiniteSets, SequencesExt

CONSTANTS
  Size,         \* participants of the group
  InFlight,     \* requests of the group that may be open at once
  SwapSides,    \* pairings whose digest swaps the sides
  TieKey        \* per participant: the order of the rank digests

Participants == 1..Size
Pairings == {pair \in Participants \X Participants : pair[1] < pair[2]}

ASSUME GroupAssumption ==
  /\ Size \in Nat \ {0, 1} /\ InFlight \in Nat \ {0}
  /\ SwapSides \subseteq Pairings
  /\ TieKey \in [Participants -> Nat] /\ IsInjective(TieKey)

VARIABLE results    \* accepted results, in order of acceptance

(* generateGroupStageSchedule: left index, then right index.               *)
Before(a, b) == a[1] < b[1] \/ (a[1] = b[1] /\ a[2] < b[2])

Request(pair) ==
  IF pair \in SwapSides THEN [p1 |-> pair[2], p2 |-> pair[1]]
  ELSE [p1 |-> pair[1], p2 |-> pair[2]]

(* winnerSide, or "tie".                                                   *)
Winners == {"p1", "p2", "tie"}

Result(pair, winner) ==
  [p1 |-> Request(pair).p1, p2 |-> Request(pair).p2, winner |-> winner]

Pairing(result) ==
  IF result.p1 < result.p2 THEN <<result.p1, result.p2>> ELSE <<result.p2, result.p1>>

Played == {Pairing(results[i]) : i \in DOMAIN results}

(* Requests go out in schedule order, as many at once as may be open.      *)
Open ==
  LET left == Pairings \ Played
  IN  {pair \in left : Cardinality({other \in left : Before(other, pair)}) < InFlight}

Init == results = << >>

Accept ==
  \E pair \in Open, winner \in Winners :
    results' = Append(results, Result(pair, winner))

Next == Accept

Spec == Init /\ [][Next]_results

------------------------------------------------------------------------------
(* calculateGroupRecords: one pass over the results.                       *)

NoGames == [played |-> 0, wins |-> 0, draws |-> 0, losses |-> 0, points |-> 0]

Won(r)   == [r EXCEPT !.played = @ + 1, !.wins = @ + 1, !.points = @ + 3]
Lost(r)  == [r EXCEPT !.played = @ + 1, !.losses = @ + 1]
Drawn(r) == [r EXCEPT !.played = @ + 1, !.draws = @ + 1, !.points = @ + 1]

Recorded(records, result) ==
  CASE result.winner = "p1"  -> [records EXCEPT ![result.p1] = Won(@), ![result.p2] = Lost(@)]
    [] result.winner = "p2"  -> [records EXCEPT ![result.p2] = Won(@), ![result.p1] = Lost(@)]
    [] result.winner = "tie" -> [records EXCEPT ![result.p1] = Drawn(@), ![result.p2] = Drawn(@)]

Records(log) == FoldLeft(Recorded, [p \in Participants |-> NoGames], log)

(* calculateGroupStandings: a second pass over them, which compares and    *)
(* adds up the points of the first.                                        *)
NoScore == [mini |-> 0, sonnebornBerger |-> 0]

Credit(score, mini, berger) ==
  [score EXCEPT !.mini = @ + mini, !.sonnebornBerger = @ + berger]

Scored(records, scores, result) ==
  LET points(p) == records[p].points
      level     == points(result.p1) = points(result.p2)
      of(n)     == IF level THEN n ELSE 0
  IN  CASE result.winner = "p1" ->
             [scores EXCEPT ![result.p1] = Credit(@, of(3), 2 * points(result.p2))]
        [] result.winner = "p2" ->
             [scores EXCEPT ![result.p2] = Credit(@, of(3), 2 * points(result.p1))]
        [] result.winner = "tie" ->
             [scores EXCEPT ![result.p1] = Credit(@, of(1), points(result.p2)),
                            ![result.p2] = Credit(@, of(1), points(result.p1))]

NoScores == [p \in Participants |-> NoScore]

(* Deliberate bug: both passes in one, with the points known so far.       *)
ScoresInOnePass(log) ==
  FoldLeft(LAMBDA scores, i :
             Scored(Records(SubSeq(log, 1, i)), scores, log[i]),
           NoScores, [i \in DOMAIN log |-> i])

Scores(log) ==
  LET records == Records(log)
  IN  FoldLeft(LAMBDA scores, result : Scored(records, scores, result), NoScores, log)

(* What the standings are sorted by: the first difference decides.         *)
SortKeys(log) ==
  LET records == Records(log)
      scores  == Scores(log)
  IN  [p \in Participants |->
         <<records[p].points, scores[p].mini, records[p].wins,
           scores[p].sonnebornBerger, -TieKey[p]>>]

(* Deliberate bug: the mini-table is compared before the points.           *)
AheadByMiniTable(a, b) ==
  \/ a[2] > b[2]
  \/ a[2] = b[2] /\ \E i \in DOMAIN a : a[i] > b[i] /\ \A j \in 1..(i - 1) : a[j] = b[j]

Ahead(a, b) ==
  \E i \in DOMAIN a : a[i] > b[i] /\ \A j \in 1..(i - 1) : a[j] = b[j]

Ranks(log) ==
  LET keys == SortKeys(log)
  IN  [p \in Participants |->
         1 + Cardinality({q \in Participants : Ahead(keys[q], keys[p])})]
==============================================================================
