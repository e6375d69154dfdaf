---------------------------- MODULE KnockoutRounds ----------------------------
(***************************************************************************)
(* The knockout stage as a bracket: who meets whom in the first round, how *)
(* the games of a series are evaluated, and who meets whom next.  Round n  *)
(* is the round of n entrants ("r64" or "r16" down to "r2"); the series of *)
(* a round are told apart by their position.  They are played one after    *)
(* the other here, since the evaluation of one never looks at another      *)
(* (TournamentRunner has their interleavings).                             *)
(***************************************************************************)
EXTENDS Integers, FiniteSets, Sequences

CONSTANTS
  Advancers,     \* per group: 4 (sample mode) or 16 (full mode)
  WinsNeeded,    \* 2
  GameCap,       \* 7
  Lottery        \* per round and position: the slot its digest picks

Slots == {"entrant1", "entrant2"}
WinnerSides == {"p1", "p2", "tie"}
FirstRound == 4 * Advancers
RoundNames == {64, 32, 16, 8, 4, 2}

ASSUME KnockoutAssumption ==
  /\ Advancers \in {4, 16}
  /\ WinsNeeded \in Nat \ {0} /\ GameCap \in Nat \ {0}
  /\ Lottery \in [RoundNames -> [1..32 -> Slots]]

VARIABLES
  round,      \* the round being played
  series,     \* its series, by position
  winners,    \* the slots that won its first series, in order
  games,      \* accepted games of the next series
  champion    \* "none", or the champion

vars == <<round, series, winners, games, champion>>

Entrant == [group : {"A", "B", "C", "D"}, rank : 1..Advancers]
Pair == [entrant1 : Entrant, entrant2 : Entrant]

SeriesCount(r) == r \div 2

(* buildInitialKnockoutRound: groups A and B fill the upper half, C and D  *)
(* the lower one.  From either group in turn, the best meets the last of   *)
(* the other, the second best the last but one, and so on.                 *)
InitialSeries(p) ==
  LET upper  == p <= Advancers
      n      == IF upper THEN p ELSE p - Advancers
      high   == (n + 1) \div 2
      first  == IF upper THEN "A" ELSE "C"
      second == IF upper THEN "B" ELSE "D"
      odd    == n % 2 = 1
  IN  [entrant1 |-> [group |-> IF odd THEN first ELSE second, rank |-> high],
       entrant2 |-> [group |-> IF odd THEN second ELSE first,
                     rank  |-> Advancers + 1 - high]]

InitialRound == [p \in 1..SeriesCount(FirstRound) |-> InitialSeries(p)]

KnockoutTypeOK ==
  /\ round \in RoundNames
  /\ series \in [1..SeriesCount(round) -> Pair]
  /\ winners \in Seq(Slots) /\ Len(winners) <= SeriesCount(round)
  /\ games \in Seq([p1 : Slots, p2 : Slots, winnerSide : WinnerSides])
  /\ Len(games) <= GameCap
  /\ champion \subseteq Entrant /\ Cardinality(champion) <= 1

Init ==
  /\ round = FirstRound /\ series = InitialRound
  /\ winners = << >> /\ games = << >> /\ champion = {}

------------------------------------------------------------------------------
(* generateKnockoutSeriesGame: who plays on which side in game n.          *)
GameSides(n) ==
  IF n % 2 = 1 THEN [p1 |-> "entrant1", p2 |-> "entrant2"]
  ELSE [p1 |-> "entrant2", p2 |-> "entrant1"]

Game(n, side) ==
  [p1 |-> GameSides(n).p1, p2 |-> GameSides(n).p2, winnerSide |-> side]

(* evaluateKnockoutSeries knows the side that won and the game's number.   *)

(* Deliberate bug: the sides are taken as fixed.                           *)
Entrant1WonAsP1(n) == games[n].winnerSide = "p1"

Entrant1Won(n) == games[n].winnerSide = IF n % 2 = 1 THEN "p1" ELSE "p2"

Wins(slot) ==
  Cardinality({n \in DOMAIN games : /\ games[n].winnerSide # "tie"
                                    /\ Entrant1Won(n) <=> slot = "entrant1"})

TwoWins == \E slot \in Slots : Wins(slot) >= WinsNeeded

Complete == TwoWins \/ Len(games) = GameCap

Position == Len(winners) + 1

(* Two wins, or more wins when the games are used up, or the lottery.      *)
WinnerSlot ==
  CASE TwoWins -> IF Wins("entrant1") >= WinsNeeded THEN "entrant1" ELSE "entrant2"
    [] ~TwoWins /\ Wins("entrant1") > Wins("entrant2") -> "entrant1"
    [] ~TwoWins /\ Wins("entrant1") < Wins("entrant2") -> "entrant2"
    [] ~TwoWins /\ Wins("entrant1") = Wins("entrant2") -> Lottery[round][Position]

------------------------------------------------------------------------------
SeriesLeft == Len(winners) < SeriesCount(round)

PlayGame ==
  /\ SeriesLeft /\ ~Complete
  /\ \E side \in WinnerSides : games' = Append(games, Game(Len(games) + 1, side))
  /\ UNCHANGED <<round, series, winners, champion>>

DecideSeries ==
  /\ SeriesLeft /\ Complete
  /\ winners' = Append(winners, WinnerSlot)
  /\ games' = << >>
  /\ UNCHANGED <<round, series, champion>>

Winner(p) == series[p][winners[p]]

(* Deliberate bug: the first winner meets the last, as in the first round. *)
NextSeriesCrossed(p) ==
  [entrant1 |-> Winner(p), entrant2 |-> Winner(SeriesCount(round) + 1 - p)]

(* buildNextKnockoutRound: the winner of an odd position is entrant1, that *)
(* of the even one after it entrant2.                                      *)
NextSeries(p) == [entrant1 |-> Winner(2 * p - 1), entrant2 |-> Winner(2 * p)]

BuildNextRound ==
  /\ ~SeriesLeft /\ round > 2
  /\ round' = round \div 2
  /\ series' = [p \in 1..SeriesCount(round \div 2) |-> NextSeries(p)]
  /\ winners' = << >>
  /\ UNCHANGED <<games, champion>>

(* selectTournamentChampion                                                *)
SelectChampion ==
  /\ ~SeriesLeft /\ round = 2 /\ champion = {}
  /\ champion' = {Winner(1)}
  /\ UNCHANGED <<round, series, winners, games>>

Next == PlayGame \/ DecideSeries \/ BuildNextRound \/ SelectChampion

Spec == Init /\ [][Next]_vars
==============================================================================
