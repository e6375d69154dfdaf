--------------------------- MODULE TournamentRules ---------------------------
(***************************************************************************)
(* The rules of one tournament that the runner's control flow depends on:  *)
(* which matches exist, when a knockout series or round is over, and which *)
(* round is being played, all as functions of a set E of accepted results. *)
(*                                                                         *)
(* An accepted result names its match, <<round, series, game>>, and its    *)
(* outcome.  Round 0 is the group stage: a group match is a "series" (its  *)
(* position in the schedule) of exactly one game.  Rounds 1..Rounds are    *)
(* the knockout rounds (r64 or r16 down to r2), each with half the series  *)
(* of the one before.  Who the entrants are does not matter here: the      *)
(* winners of a round are a function of its results.                       *)
(***************************************************************************)
EXTENDS Naturals, FiniteSets

CONSTANTS
  GroupMatches,   \* number of scheduled group matches
  Rounds,         \* number of knockout rounds
  WinsNeeded,     \* wins that decide a series (2)
  GameCap,        \* games after which a series is decided anyway (7)
  Outcomes        \* what a knockout game may end in

ASSUME RulesAssumption ==
  /\ GroupMatches \in Nat \ {0}
  /\ Rounds \in Nat \ {0}
  /\ WinsNeeded \in Nat \ {0}
  /\ GameCap \in Nat \ {0}
  /\ Outcomes \subseteq {"entrant1", "entrant2", "tie"}

GroupStage == 0

SeriesIn(r) == IF r = GroupStage THEN 1..GroupMatches ELSE 1..2^(Rounds - r)

(* The outcome of a group match decides standings, never what runs next.   *)
OutcomesIn(r) == IF r = GroupStage THEN {"played"} ELSE Outcomes

Entry == [round   : 0..Rounds,
          series  : Nat,
          game    : Nat,
          outcome : {"played", "entrant1", "entrant2", "tie"}]

SameMatch(a, b) ==
  a.round = b.round /\ a.series = b.series /\ a.game = b.game

Games(E, r, s) == {e \in E : e.round = r /\ e.series = s}

Wins(E, r, s, slot) == Cardinality({e \in Games(E, r, s) : e.outcome = slot})

(* evaluateKnockoutSeries: two wins decide a series, and so does the        *)
(* seventh game, by wins or else by the hash lottery.                      *)
SeriesDecided(E, r, s) ==
  \/ \E slot \in {"entrant1", "entrant2"} : Wins(E, r, s, slot) >= WinsNeeded
  \/ Cardinality(Games(E, r, s)) = GameCap

NextGame(E, r, s) == Cardinality(Games(E, r, s)) + 1

SeriesDone(E, r, s) ==
  IF r = GroupStage THEN Games(E, r, s) # {} ELSE SeriesDecided(E, r, s)

StageComplete(E, r) == \A s \in SeriesIn(r) : SeriesDone(E, r, s)

KnockoutGames(E) == {e \in E : e.round # GroupStage}

(* Length of the longest fully played prefix of the group schedule.        *)
PlayedPrefix(E) ==
  Cardinality({n \in 1..GroupMatches :
                 \A s \in 1..n : SeriesDone(E, GroupStage, s)})

(* Deliberate bug: a round counts as complete with its first series.       *)
ActiveRoundEarly(E) ==
  1 + Cardinality({r \in 1..(Rounds - 1) :
                     \A q \in 1..r : \E s \in SeriesIn(q) : SeriesDone(E, q, s)})

(* The first knockout round that is not complete, or the final.            *)
ActiveRound(E) ==
  1 + Cardinality({r \in 1..(Rounds - 1) :
                     \A q \in 1..r : StageComplete(E, q)})
==============================================================================
