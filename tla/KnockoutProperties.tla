-------------------------- MODULE KnockoutProperties --------------------------
(***************************************************************************)
(* What the bracket of a tournament guarantees.                            *)
(***************************************************************************)
EXTENDS KnockoutRounds

(* The position of an entrant in the first round.                          *)
InitialPosition(e) ==
  LET half == Advancers \div 2
      high == IF e.rank <= half THEN e.rank ELSE Advancers + 1 - e.rank
      odd  == (e.group \in {"A", "C"}) <=> (e.rank <= half)
  IN  (IF e.group \in {"A", "B"} THEN 0 ELSE Advancers)
        + 2 * high - (IF odd THEN 1 ELSE 0)

(* The bracket is one fixed tree: the place of an entrant in every round   *)
(* follows from its place in the first, whatever was played, and entrant1  *)
(* comes from the odd one of the two series before.  So nobody appears     *)
(* twice, nobody is lost, and who may meet whom in which round is settled  *)
(* with the groups; recovery and the archive loader, which build the       *)
(* rounds again from the results, arrive at the same pairs.                *)
BracketIsATree ==
  \A p \in 1..SeriesCount(round), slot \in Slots :
    LET place == InitialPosition(series[p][slot]) - 1
    IN  /\ place \div (FirstRound \div round) = p - 1
        /\ round < FirstRound =>
             place \div (FirstRound \div (2 * round))
               = IF slot = "entrant1" THEN 2 * p - 2 ELSE 2 * p - 1

Upper == {"A", "B"}

(* Entrants of groups A and B meet those of C and D in the final only, and *)
(* there it is always entrant1 who comes from A or B.                      *)
HalvesMeetInFinal ==
  \A p \in 1..SeriesCount(round) :
    IF round = 2
    THEN series[p].entrant1.group \in Upper /\ series[p].entrant2.group \notin Upper
    ELSE series[p].entrant1.group \in Upper <=> series[p].entrant2.group \in Upper

Earned(slot) ==
  Cardinality({n \in DOMAIN games : \/ games[n].p1 = slot /\ games[n].winnerSide = "p1"
                                    \/ games[n].p2 = slot /\ games[n].winnerSide = "p2"})

(* Evaluating a series by the number of each game gives every entrant the  *)
(* games it won, although the sides change with every game; the evaluation *)
(* is complete exactly when the runner asks for no further game, and its   *)
(* winner has won no fewer games than the other.                           *)
Rules == INSTANCE TournamentRules
  WITH GroupMatches <- 1, Rounds <- 1, Outcomes <- Slots \cup {"tie"}

WinnerOf(game) == IF game.winnerSide = "tie" THEN "tie" ELSE game[game.winnerSide]

AsEntries ==
  {[round |-> 1, series |-> 1, game |-> n, outcome |-> WinnerOf(games[n])] : n \in DOMAIN games}

EvaluationIsFair ==
  /\ \A slot \in Slots : Wins(slot) = Earned(slot)
  /\ Complete <=> Rules!SeriesDecided(AsEntries, 1, 1)
  /\ SeriesLeft /\ Complete =>
       \A slot \in Slots : Earned(WinnerSlot) >= Earned(slot)
==============================================================================
