---------------------------- MODULE KnockoutProofs ----------------------------
(***************************************************************************)
(* Proofs about the knockout rounds, for both tournament modes, every      *)
(* lottery and every game cap: TLC checks the sample mode only, the full   *)
(* mode (64 entrants, six rounds) has too many states.                     *)
(***************************************************************************)
EXTENDS KnockoutProperties, FiniteSetTheorems, FunctionTheorems, TLAPS

(* A round has a size that its successors divide.                          *)
LEMMA RoundHalves ==
  ASSUME NEW r \in RoundNames, r > 2
  PROVE  /\ r \div 2 \in RoundNames
         /\ SeriesCount(r \div 2) \in Nat
         /\ \A p \in 1..SeriesCount(r \div 2) :
              2 * p - 1 \in 1..SeriesCount(r) /\ 2 * p \in 1..SeriesCount(r)
<1>1. CASE r = 64 BY <1>1 DEF RoundNames, SeriesCount
<1>2. CASE r = 32 BY <1>2 DEF RoundNames, SeriesCount
<1>3. CASE r = 16 BY <1>3 DEF RoundNames, SeriesCount
<1>4. CASE r = 8 BY <1>4 DEF RoundNames, SeriesCount
<1>5. CASE r = 4 BY <1>5 DEF RoundNames, SeriesCount
<1> QED BY <1>1, <1>2, <1>3, <1>4, <1>5 DEF RoundNames

LEMMA SeriesCounts ==
  \A r \in RoundNames :
    SeriesCount(r) \in Int /\ 1 <= SeriesCount(r) /\ SeriesCount(r) <= 32
BY DEF RoundNames, SeriesCount

(* A complete series has a winner.                                         *)
LEMMA WinnerSlotInSlots ==
  ASSUME round \in RoundNames, winners \in Seq(Slots), SeriesLeft,
         games \in Seq([p1 : Slots, p2 : Slots, winnerSide : WinnerSides])
  PROVE  WinnerSlot \in Slots
<1>1. Position \in 1..32
  <2>1. Len(winners) \in Nat OBVIOUS
  <2>2. SeriesCount(round) \in Int /\ 1 <= SeriesCount(round) /\ SeriesCount(round) <= 32
    BY SeriesCounts
  <2>3. Len(winners) < SeriesCount(round) BY DEF SeriesLeft
  <2>4. Len(winners) < 32 BY <2>1, <2>2, <2>3
  <2>5. \A n \in Nat : n < 32 => n + 1 \in 1..32 OBVIOUS
  <2>6. Len(winners) + 1 \in 1..32 BY ONLY <2>1, <2>4, <2>5
  <2> QED BY ONLY <2>6 DEF Position
<1>2. Lottery[round][Position] \in Slots BY <1>1, KnockoutAssumption
<1>3. \A slot : Wins(slot) \in Int
  <2> SUFFICES ASSUME NEW slot PROVE Wins(slot) \in Int OBVIOUS
  <2> DEFINE S == {n \in DOMAIN games :
                     /\ games[n].winnerSide # "tie"
                     /\ Entrant1Won(n) <=> slot = "entrant1"}
  <2>1. IsFiniteSet(DOMAIN games)
    <3>1. DOMAIN games = 1..Len(games) /\ Len(games) \in Nat OBVIOUS
    <3> QED BY <3>1, FS_Interval
  <2>2. S \subseteq DOMAIN games OBVIOUS
  <2>3. IsFiniteSet(S) BY <2>1, <2>2, FS_Subset
  <2>4. Cardinality(S) \in Nat BY <2>3, FS_CardinalityType
  <2> QED BY <2>4 DEF Wins
<1>4. Wins("entrant1") \in Int /\ Wins("entrant2") \in Int BY <1>3
<1>5. \/ TwoWins
      \/ ~TwoWins /\ Wins("entrant1") > Wins("entrant2")
      \/ ~TwoWins /\ Wins("entrant1") < Wins("entrant2")
      \/ ~TwoWins /\ Wins("entrant1") = Wins("entrant2")
  BY <1>4
<1> HIDE DEF Wins, Position, TwoWins
<1> QED BY <1>2, <1>4, <1>5 DEF WinnerSlot, Slots

(* KnockoutTypeOK holds: no series past its cap, no more winners than      *)
(* series, one champion.                                                   *)
THEOREM KnockoutTypes == Spec => []KnockoutTypeOK
<1>1. Init => KnockoutTypeOK
  <2> SUFFICES ASSUME Init PROVE KnockoutTypeOK OBVIOUS
  <2>1. round \in RoundNames BY KnockoutAssumption DEF Init, FirstRound, RoundNames
  <2> USE DEF Init
  <2>2. series \in [1..SeriesCount(round) -> Pair]
    <3>1. \A p \in 1..SeriesCount(FirstRound) : InitialSeries(p) \in Pair
      <4>1. CASE Advancers = 4
        BY <4>1 DEF InitialSeries, Pair, Entrant, SeriesCount, FirstRound
      <4>2. CASE Advancers = 16
        BY <4>2 DEF InitialSeries, Pair, Entrant, SeriesCount, FirstRound
      <4> QED BY <4>1, <4>2, KnockoutAssumption
    <3> QED BY <3>1 DEF Init, InitialRound
  <2>3. Len(winners) = 0 /\ Len(games) = 0 BY DEF Init
  <2>4. SeriesCount(round) \in Int /\ 1 <= SeriesCount(round) /\ SeriesCount(round) <= 32
    BY <2>1, SeriesCounts
  <2>5. champion \subseteq Entrant /\ Cardinality(champion) <= 1
    BY FS_EmptySet DEF Init
  <2>6. Len(winners) <= SeriesCount(round) /\ Len(games) <= GameCap
    BY <2>3, <2>4, KnockoutAssumption
  <2>7. /\ winners \in Seq(Slots)
        /\ games \in Seq([p1 : Slots, p2 : Slots, winnerSide : WinnerSides])
    OBVIOUS
  <2> HIDE DEF Init
  <2> QED BY <2>1, <2>2, <2>5, <2>6, <2>7 DEF KnockoutTypeOK
<1>2. KnockoutTypeOK /\ [Next]_vars => KnockoutTypeOK'
  <2> SUFFICES ASSUME KnockoutTypeOK, [Next]_vars PROVE KnockoutTypeOK' OBVIOUS
  <2> USE DEF KnockoutTypeOK
  <2>0. Len(winners) \in Nat /\ Len(games) \in Nat OBVIOUS
  <2>1. CASE PlayGame
    <3>1. PICK side \in WinnerSides : games' = Append(games, Game(Len(games) + 1, side))
      BY <2>1 DEF PlayGame
    <3>2. Game(Len(games) + 1, side) \in [p1 : Slots, p2 : Slots, winnerSide : WinnerSides]
      BY DEF Game, GameSides, Slots
    <3>3. Len(games) # GameCap BY <2>1 DEF PlayGame, Complete
    <3>4. Len(games') <= GameCap
      BY <3>1, <3>2, <3>3, <2>0, KnockoutAssumption
    <3> QED BY <3>1, <3>2, <3>4, <2>1 DEF PlayGame
  <2>2. CASE DecideSeries
    <3>1. WinnerSlot \in Slots BY <2>2, WinnerSlotInSlots DEF DecideSeries
    <3>2. SeriesCount(round) \in Int /\ 1 <= SeriesCount(round) /\ SeriesCount(round) <= 32
    BY SeriesCounts
    <3>3. Len(winners') <= SeriesCount(round)
      BY <2>2, <3>1, <3>2, <2>0 DEF DecideSeries, SeriesLeft
    <3>4. Len(games') <= GameCap BY <2>2, KnockoutAssumption DEF DecideSeries
    <3> QED BY <3>1, <3>3, <3>4, <2>2 DEF DecideSeries
  <2>3. CASE BuildNextRound
    <3>1. round \div 2 \in RoundNames /\ SeriesCount(round \div 2) \in Nat
      BY <2>3, RoundHalves DEF BuildNextRound
    <3>2. Len(winners) = SeriesCount(round)
      <4>1. SeriesCount(round) \in Int /\ 1 <= SeriesCount(round) /\ SeriesCount(round) <= 32
    BY SeriesCounts
      <4> QED BY <4>1, <2>0, <2>3 DEF BuildNextRound, SeriesLeft
    <3>3. \A p \in 1..SeriesCount(round) : Winner(p) \in Entrant
      <4> TAKE p \in 1..SeriesCount(round)
      <4>1. winners[p] \in Slots BY <3>2
      <4>2. series[p] \in Pair OBVIOUS
      <4> QED BY <4>1, <4>2 DEF Winner, Slots, Pair
    <3>4. \A p \in 1..SeriesCount(round \div 2) : NextSeries(p) \in Pair
      <4> TAKE p \in 1..SeriesCount(round \div 2)
      <4>1. 2 * p - 1 \in 1..SeriesCount(round) /\ 2 * p \in 1..SeriesCount(round)
        BY <2>3, RoundHalves DEF BuildNextRound
      <4> QED BY <4>1, <3>3 DEF NextSeries, Pair
    <3>5. series' \in [1..SeriesCount(round') -> Pair]
      BY <2>3, <3>4 DEF BuildNextRound
    <3>6. Len(winners') <= SeriesCount(round') BY <2>3, <3>1 DEF BuildNextRound
    <3> QED BY <2>3, <3>1, <3>5, <3>6 DEF BuildNextRound
  <2>4. CASE SelectChampion
    <3>1. Len(winners) = 1 /\ SeriesCount(round) = 1
      BY <2>4, <2>0 DEF SelectChampion, SeriesLeft, SeriesCount
    <3>2. Winner(1) \in Entrant
      <4>1. winners[1] \in Slots
        <5>1. winners \in Seq(Slots) OBVIOUS
        <5>2. 1 \in 1..Len(winners) BY <3>1
        <5> HIDE DEF KnockoutTypeOK
        <5> QED BY <5>1, <5>2
      <4>2. series[1] \in Pair BY <3>1
      <4> QED BY <4>1, <4>2 DEF Winner, Slots, Pair
    <3>3. Cardinality(champion') = 1 BY <2>4, FS_Singleton DEF SelectChampion
    <3> QED BY <2>4, <3>2, <3>3 DEF SelectChampion
  <2>5. CASE UNCHANGED vars BY <2>5 DEF vars
  <2> QED BY <2>1, <2>2, <2>3, <2>4, <2>5 DEF Next
<1> QED BY <1>1, <1>2, PTL DEF Spec

------------------------------------------------------------------------------
(* The numbers of both modes: the first round, and how many of its places  *)
(* come together in one series of a later round.                           *)
Sizes == {1, 2, 4, 8, 16}

LEMMA PlacesPerSeries ==
  ASSUME NEW r \in RoundNames, r <= FirstRound
  PROVE  /\ FirstRound \in RoundNames
         /\ r > 2 => FirstRound \div r \in Sizes
         /\ r > 2 => FirstRound \div (r \div 2) = 2 * (FirstRound \div r)
<1>1. CASE Advancers = 4
  BY <1>1 DEF FirstRound, RoundNames, Sizes
<1>2. CASE Advancers = 16
  BY <1>2 DEF FirstRound, RoundNames, Sizes
<1> QED BY <1>1, <1>2, KnockoutAssumption

(* Two places that share a series come from two that are next to each      *)
(* other in the round before.                                              *)
LEMMA TwoBecomeOne ==
  ASSUME NEW k \in Sizes, NEW x \in Int, NEW p \in Int,
         x \div k = (2 * p - 1) - 1 \/ x \div k = 2 * p - 1
  PROVE  x \div (2 * k) = p - 1
<1>1. CASE k = 1 BY <1>1
<1>2. CASE k = 2 BY <1>2
<1>3. CASE k = 4 BY <1>3
<1>4. CASE k = 8 BY <1>4
<1>5. CASE k = 16 BY <1>5
<1> QED BY <1>1, <1>2, <1>3, <1>4, <1>5 DEF Sizes

LEMMA InitialPositionType ==
  ASSUME NEW e \in Entrant
  PROVE  InitialPosition(e) \in Int
<1>1. CASE Advancers = 4 BY <1>1 DEF InitialPosition, Entrant
<1>2. CASE Advancers = 16 BY <1>2 DEF InitialPosition, Entrant
<1> QED BY <1>1, <1>2, KnockoutAssumption

(* InitialPosition is the position of the series that InitialSeries puts   *)
(* an entrant in.                                                          *)
LEMMA InitialPlaces ==
  ASSUME NEW p \in 1..SeriesCount(FirstRound), NEW slot \in Slots
  PROVE  InitialPosition(InitialSeries(p)[slot]) = p
<1>1. CASE Advancers = 4
  <2>1. SeriesCount(FirstRound) = 8 BY <1>1 DEF SeriesCount, FirstRound
  <2>2. CASE slot = "entrant1" /\ p <= 4 /\ p % 2 = 1
    BY <1>1, <2>1, <2>2 DEF InitialPosition, InitialSeries
  <2>3. CASE slot = "entrant1" /\ p <= 4 /\ p % 2 = 0
    BY <1>1, <2>1, <2>3 DEF InitialPosition, InitialSeries
  <2>4. CASE slot = "entrant1" /\ p > 4 /\ p % 2 = 1
    BY <1>1, <2>1, <2>4 DEF InitialPosition, InitialSeries
  <2>5. CASE slot = "entrant1" /\ p > 4 /\ p % 2 = 0
    BY <1>1, <2>1, <2>5 DEF InitialPosition, InitialSeries
  <2>6. CASE slot = "entrant2" /\ p <= 4 /\ p % 2 = 1
    BY <1>1, <2>1, <2>6 DEF InitialPosition, InitialSeries
  <2>7. CASE slot = "entrant2" /\ p <= 4 /\ p % 2 = 0
    BY <1>1, <2>1, <2>7 DEF InitialPosition, InitialSeries
  <2>8. CASE slot = "entrant2" /\ p > 4 /\ p % 2 = 1
    BY <1>1, <2>1, <2>8 DEF InitialPosition, InitialSeries
  <2>9. CASE slot = "entrant2" /\ p > 4 /\ p % 2 = 0
    BY <1>1, <2>1, <2>9 DEF InitialPosition, InitialSeries
  <2> QED BY <2>1, <2>2, <2>3, <2>4, <2>5, <2>6, <2>7, <2>8, <2>9 DEF Slots
<1>2. CASE Advancers = 16
  <2>1. SeriesCount(FirstRound) = 32 BY <1>2 DEF SeriesCount, FirstRound
  <2>2. CASE slot = "entrant1" /\ p <= 16 /\ p % 2 = 1
    BY <1>2, <2>1, <2>2 DEF InitialPosition, InitialSeries
  <2>3. CASE slot = "entrant1" /\ p <= 16 /\ p % 2 = 0
    BY <1>2, <2>1, <2>3 DEF InitialPosition, InitialSeries
  <2>4. CASE slot = "entrant1" /\ p > 16 /\ p % 2 = 1
    BY <1>2, <2>1, <2>4 DEF InitialPosition, InitialSeries
  <2>5. CASE slot = "entrant1" /\ p > 16 /\ p % 2 = 0
    BY <1>2, <2>1, <2>5 DEF InitialPosition, InitialSeries
  <2>6. CASE slot = "entrant2" /\ p <= 16 /\ p % 2 = 1
    BY <1>2, <2>1, <2>6 DEF InitialPosition, InitialSeries
  <2>7. CASE slot = "entrant2" /\ p <= 16 /\ p % 2 = 0
    BY <1>2, <2>1, <2>7 DEF InitialPosition, InitialSeries
  <2>8. CASE slot = "entrant2" /\ p > 16 /\ p % 2 = 1
    BY <1>2, <2>1, <2>8 DEF InitialPosition, InitialSeries
  <2>9. CASE slot = "entrant2" /\ p > 16 /\ p % 2 = 0
    BY <1>2, <2>1, <2>9 DEF InitialPosition, InitialSeries
  <2> QED BY <2>1, <2>2, <2>3, <2>4, <2>5, <2>6, <2>7, <2>8, <2>9 DEF Slots
<1> QED BY <1>1, <1>2, KnockoutAssumption

BracketInv == KnockoutTypeOK /\ round <= FirstRound /\ BracketIsATree

LEMMA FixedTreeInv == Spec => []BracketInv
<1>1. Init => round <= FirstRound /\ BracketIsATree
  <2> SUFFICES ASSUME Init PROVE round <= FirstRound /\ BracketIsATree OBVIOUS
  <2>1. FirstRound \in {16, 64} BY KnockoutAssumption DEF FirstRound
  <2>2. round = FirstRound BY DEF Init
  <2>3. ASSUME NEW p \in 1..SeriesCount(round), NEW slot \in Slots
        PROVE  (InitialPosition(series[p][slot]) - 1) \div (FirstRound \div round) = p - 1
    <3>1. series[p][slot] = InitialSeries(p)[slot] BY <2>2 DEF Init, InitialRound
    <3>2. InitialPosition(series[p][slot]) = p BY <3>1, <2>2, InitialPlaces
    <3>3. p \in Int BY <2>1, <2>2 DEF SeriesCount
    <3>4. FirstRound \div round = 1 BY <2>1, <2>2
    <3>5. (p - 1) \div 1 = p - 1 BY <3>3
    <3> QED BY <3>2, <3>4, <3>5
  <2>4. round <= FirstRound BY <2>1, <2>2
  <2>5. ~(round < FirstRound) BY <2>1, <2>2
  <2> QED BY <2>3, <2>4, <2>5 DEF BracketIsATree
<1>2. BracketInv /\ [Next]_vars => (round <= FirstRound /\ BracketIsATree)'
  <2> SUFFICES ASSUME BracketInv, [Next]_vars
               PROVE  (round <= FirstRound /\ BracketIsATree)'
    OBVIOUS
  <2>1. ASSUME UNCHANGED <<round, series>>
        PROVE  (round <= FirstRound /\ BracketIsATree)'
    BY <2>1 DEF BracketInv, BracketIsATree, FirstRound
  <2>2. CASE PlayGame BY <2>1, <2>2 DEF PlayGame
  <2>3. CASE DecideSeries BY <2>1, <2>3 DEF DecideSeries
  <2>4. CASE SelectChampion BY <2>1, <2>4 DEF SelectChampion
  <2>5. CASE UNCHANGED vars BY <2>1, <2>5 DEF vars
  <2>6. CASE BuildNextRound
    <3> DEFINE k == FirstRound \div round
    <3>1. round \in RoundNames /\ round > 2 /\ round <= FirstRound
      BY <2>6 DEF BuildNextRound, BracketInv, KnockoutTypeOK
    <3>2. k \in Sizes /\ FirstRound \div (round \div 2) = 2 * k
      BY <3>1, PlacesPerSeries
    <3>3. \A q \in 1..SeriesCount(round) :
            Winner(q) \in Entrant /\ (InitialPosition(Winner(q)) - 1) \div k = q - 1
      <4> TAKE q \in 1..SeriesCount(round)
      <4>1. SeriesCount(round) \in Int /\ Len(winners) \in Nat
        BY <3>1, SeriesCounts DEF BracketInv, KnockoutTypeOK
      <4>2. Len(winners) = SeriesCount(round)
        BY <2>6, <4>1 DEF BuildNextRound, SeriesLeft, BracketInv, KnockoutTypeOK
      <4>3. winners \in Seq(Slots) BY DEF BracketInv, KnockoutTypeOK
      <4>4. winners[q] \in Slots BY <4>2, <4>3
      <4>5. series[q] \in Pair BY DEF BracketInv, KnockoutTypeOK
      <4>6. Winner(q) \in Entrant BY <4>4, <4>5 DEF Winner, Slots, Pair
      <4>7. (InitialPosition(series[q][winners[q]]) - 1) \div k = q - 1
        BY <4>4 DEF BracketInv, BracketIsATree
      <4> QED BY <4>6, <4>7 DEF Winner
    <3>4. ASSUME NEW p \in 1..SeriesCount(round \div 2), NEW slot \in Slots
          PROVE  /\ (InitialPosition(NextSeries(p)[slot]) - 1) \div (2 * k) = p - 1
                 /\ (InitialPosition(NextSeries(p)[slot]) - 1) \div k
                      = IF slot = "entrant1" THEN 2 * p - 2 ELSE 2 * p - 1
      <4>1. 2 * p - 1 \in 1..SeriesCount(round) /\ 2 * p \in 1..SeriesCount(round)
        BY <3>1, RoundHalves
      <4>2. p \in Int
        <5>1. SeriesCount(round \div 2) \in Nat BY <3>1, RoundHalves
        <5> QED BY <5>1
      <4>3. CASE slot = "entrant1"
        <5>1. NextSeries(p)[slot] = Winner(2 * p - 1) BY <4>3 DEF NextSeries
        <5>2. InitialPosition(Winner(2 * p - 1)) - 1 \in Int
          BY <4>1, <3>3, InitialPositionType
        <5>3. (InitialPosition(Winner(2 * p - 1)) - 1) \div k = (2 * p - 1) - 1
          BY <4>1, <3>3
        <5> HIDE DEF k
        <5>4. (2 * p - 1) - 1 = 2 * p - 2 BY <4>2
        <5> QED BY <5>1, <5>2, <5>3, <5>4, <4>2, <4>3, <3>2, TwoBecomeOne
      <4>4. CASE slot = "entrant2"
        <5>1. NextSeries(p)[slot] = Winner(2 * p) BY <4>4 DEF NextSeries
        <5>2. InitialPosition(Winner(2 * p)) - 1 \in Int
          BY <4>1, <3>3, InitialPositionType
        <5>3. (InitialPosition(Winner(2 * p)) - 1) \div k = 2 * p - 1
          BY <4>1, <3>3
        <5> HIDE DEF k
        <5> QED BY <5>1, <5>2, <5>3, <4>2, <4>4, <3>2, TwoBecomeOne
      <4> QED BY <4>3, <4>4 DEF Slots
    <3>5. /\ round' = round \div 2
          /\ series' = [p \in 1..SeriesCount(round \div 2) |-> NextSeries(p)]
      BY <2>6 DEF BuildNextRound
    <3>6. round' <= FirstRound
      <4>1. FirstRound \in RoundNames BY <3>1, PlacesPerSeries
      <4> QED BY <4>1, <3>1, <3>5 DEF RoundNames
    <3>7. 2 * round' = round BY <3>1, <3>5 DEF RoundNames
    <3>8. \A p \in 1..SeriesCount(round'), slot \in Slots :
            /\ (InitialPosition(series'[p][slot]) - 1) \div (FirstRound \div round') = p - 1
            /\ (InitialPosition(series'[p][slot]) - 1) \div (FirstRound \div (2 * round'))
                 = IF slot = "entrant1" THEN 2 * p - 2 ELSE 2 * p - 1
      <4>1. FirstRound \div (2 * round') = k BY <3>7
      <4> HIDE DEF k
      <4> QED BY <4>1, <3>2, <3>4, <3>5
    <3> QED BY <3>6, <3>8 DEF BracketIsATree, FirstRound, InitialPosition
  <2> QED BY <2>2, <2>3, <2>4, <2>5, <2>6 DEF Next
<1>3. Spec => []KnockoutTypeOK BY KnockoutTypes
<1>4. KnockoutTypeOK /\ round <= FirstRound /\ BracketIsATree <=> BracketInv
  BY DEF BracketInv
<1> QED BY <1>1, <1>2, <1>3, <1>4, PTL DEF Spec

(* The bracket is one fixed tree in both modes: in every round, whatever   *)
(* was played, an entrant sits where its place in the first round puts it. *)
THEOREM FixedTree == Spec => []BracketIsATree
<1>1. BracketInv => BracketIsATree BY DEF BracketInv
<1> QED BY <1>1, FixedTreeInv, PTL

(* Groups A and B meet C and D in the final only, in both modes.           *)
THEOREM HalvesApart == Spec => []HalvesMeetInFinal
<1>1. BracketInv => HalvesMeetInFinal
  <2> SUFFICES ASSUME BracketInv, NEW p \in 1..SeriesCount(round)
               PROVE  IF round = 2
                      THEN /\ series[p].entrant1.group \in Upper
                           /\ series[p].entrant2.group \notin Upper
                      ELSE series[p].entrant1.group \in Upper
                             <=> series[p].entrant2.group \in Upper
    BY DEF HalvesMeetInFinal
  <2> DEFINE e1 == series[p].entrant1
             e2 == series[p].entrant2
             x1 == InitialPosition(e1) - 1
             x2 == InitialPosition(e2) - 1
             k  == FirstRound \div round
  <2>1. round \in RoundNames /\ round <= FirstRound /\ Advancers \in {4, 16}
    BY KnockoutAssumption DEF BracketInv, KnockoutTypeOK
  <2>2. e1 \in Entrant /\ e2 \in Entrant
    <3>1. series[p] \in Pair BY DEF BracketInv, KnockoutTypeOK
    <3> QED BY <3>1 DEF Pair
  <2>3. \A e \in Entrant :
          /\ InitialPosition(e) \in 1..(2 * Advancers)
          /\ e.group \in Upper <=> InitialPosition(e) - 1 < Advancers
    <3>1. CASE Advancers = 4 BY <3>1 DEF InitialPosition, Entrant, Upper
    <3>2. CASE Advancers = 16 BY <3>2 DEF InitialPosition, Entrant, Upper
    <3> QED BY <3>1, <3>2, <2>1
  <2>4. x1 \in 0..(2 * Advancers - 1) /\ x2 \in 0..(2 * Advancers - 1)
    BY <2>1, <2>2, <2>3
  <2>5. CASE round = 2
    <3>1. p = 1 BY <2>5 DEF SeriesCount
    <3>2. 2 < FirstRound /\ FirstRound \div (2 * 2) = Advancers BY <2>1 DEF FirstRound
    <3>3. x1 \div Advancers = 0 /\ x2 \div Advancers = 1
      BY <2>5, <3>1, <3>2 DEF BracketInv, BracketIsATree, Slots
    <3> HIDE DEF e1, e2, x1, x2
    <3>4. x1 < Advancers /\ ~(x2 < Advancers)
      <4>1. CASE Advancers = 4 BY <4>1, <3>3, <2>4
      <4>2. CASE Advancers = 16 BY <4>2, <3>3, <2>4
      <4> QED BY <4>1, <4>2, <2>1
    <3>5. e1.group \in Upper /\ e2.group \notin Upper BY <2>2, <2>3, <3>4 DEF x1, x2
    <3> QED BY <2>5, <3>5 DEF e1, e2
  <2>6. CASE round # 2
    <3>1. x1 \div k = p - 1 /\ x2 \div k = p - 1
      BY DEF BracketInv, BracketIsATree, Slots
    <3>2. p \in Int
      <4>1. SeriesCount(round) \in Int BY <2>1, SeriesCounts
      <4> QED BY <4>1
    <3>3. x1 < Advancers <=> x2 < Advancers
      <4>1. CASE Advancers = 4
        <5>1. k \in {1, 2, 4} BY <4>1, <2>1, <2>6 DEF FirstRound, RoundNames
        <5> HIDE DEF e1, e2, x1, x2, k
        <5>2. CASE k = 1 BY <5>2, <4>1, <3>1, <3>2, <2>4
        <5>3. CASE k = 2 BY <5>3, <4>1, <3>1, <3>2, <2>4
        <5>4. CASE k = 4 BY <5>4, <4>1, <3>1, <3>2, <2>4
        <5> QED BY <5>1, <5>2, <5>3, <5>4
      <4>2. CASE Advancers = 16
        <5>1. k \in {1, 2, 4, 8, 16} BY <4>2, <2>1, <2>6 DEF FirstRound, RoundNames
        <5> HIDE DEF e1, e2, x1, x2, k
        <5>2. CASE k = 1 BY <5>2, <4>2, <3>1, <3>2, <2>4
        <5>3. CASE k = 2 BY <5>3, <4>2, <3>1, <3>2, <2>4
        <5>4. CASE k = 4 BY <5>4, <4>2, <3>1, <3>2, <2>4
        <5>5. CASE k = 8 BY <5>5, <4>2, <3>1, <3>2, <2>4
        <5>6. CASE k = 16 BY <5>6, <4>2, <3>1, <3>2, <2>4
        <5> QED BY <5>1, <5>2, <5>3, <5>4, <5>5, <5>6
      <4> QED BY <4>1, <4>2, <2>1
    <3>4. e1.group \in Upper <=> e2.group \in Upper BY <2>2, <2>3, <3>3
    <3> QED BY <2>6, <3>4
  <2> QED BY <2>5, <2>6
<1>2. Spec => []BracketInv BY FixedTreeInv
<1> QED BY <1>1, <1>2, PTL

------------------------------------------------------------------------------
(* Evaluation of a series.  What is played is a sequence of games with the *)
(* sides that generateKnockoutSeriesGame gives each of them, and no slot   *)
(* has more than the wins that decide it: no game follows a deciding one.  *)

WonBy(slot) ==
  {n \in DOMAIN games : /\ games[n].winnerSide # "tie"
                        /\ Entrant1Won(n) <=> slot = "entrant1"}

GamesAsRequested ==
  \A n \in DOMAIN games :
    /\ games[n].p1 = GameSides(n).p1 /\ games[n].p2 = GameSides(n).p2
    /\ games[n].winnerSide \in WinnerSides

NoWinIsSpare == \A slot \in Slots : Wins(slot) <= WinsNeeded

SeriesInv == KnockoutTypeOK /\ GamesAsRequested /\ NoWinIsSpare

(* The games of a series are numbered 1 to their count, a finite set.      *)
LEMMA GamesAreFinite ==
  ASSUME KnockoutTypeOK
  PROVE  /\ DOMAIN games = 1..Len(games) /\ Len(games) \in Nat
         /\ IsFiniteSet(DOMAIN games) /\ Cardinality(DOMAIN games) = Len(games)
<1>1. DOMAIN games = 1..Len(games) /\ Len(games) \in Nat BY DEF KnockoutTypeOK
<1>2. IsFiniteSet(1..Len(games)) BY <1>1, FS_Interval
<1>3. Cardinality(1..Len(games)) = Len(games)
  <2>1. Cardinality(1..Len(games)) = IF 1 > Len(games) THEN 0 ELSE Len(games) - 1 + 1
    BY SMTT(30), <1>1, FS_Interval
  <2> QED BY <2>1, <1>1
<1> QED BY <1>1, <1>2, <1>3

(* The wins of a slot are a number.                                        *)
LEMMA WinsAreCounted ==
  ASSUME KnockoutTypeOK, NEW slot
  PROVE  /\ IsFiniteSet(WonBy(slot)) /\ Wins(slot) = Cardinality(WonBy(slot))
         /\ Wins(slot) \in Nat
<1>1. WonBy(slot) \in SUBSET DOMAIN games BY DEF WonBy
<1>2. IsFiniteSet(WonBy(slot)) BY <1>1, GamesAreFinite, FS_Subset
<1>3. Wins(slot) = Cardinality(WonBy(slot)) BY DEF Wins, WonBy
<1> QED BY <1>2, <1>3, FS_CardinalityType

(* One game more is at most one win more, for either slot.                 *)
LEMMA OneGameOneWin ==
  ASSUME KnockoutTypeOK, KnockoutTypeOK', NEW side \in WinnerSides,
         games' = Append(games, Game(Len(games) + 1, side)), NEW slot \in Slots
  PROVE  Wins(slot)' <= Wins(slot) + 1 /\ Wins(slot)' \in Nat
<1> DEFINE last == Len(games) + 1
           more == WonBy(slot) \cup {last}
<1>1. /\ DOMAIN games = 1..Len(games) /\ Len(games) \in Nat
      /\ IsFiniteSet(WonBy(slot)) /\ Wins(slot) = Cardinality(WonBy(slot))
      /\ Wins(slot) \in Nat
  BY GamesAreFinite, WinsAreCounted
<1>2. DOMAIN games' = 1..(Len(games) + 1) BY <1>1 DEF KnockoutTypeOK
<1>3. \A n \in DOMAIN games : games'[n] = games[n] BY <1>1 DEF KnockoutTypeOK
<1>4. \A n \in DOMAIN games' : n = last \/ n \in DOMAIN games BY <1>1, <1>2
<1>5. WonBy(slot)' \in SUBSET more
  <2> SUFFICES ASSUME NEW n \in WonBy(slot)', n # last PROVE n \in WonBy(slot)
    OBVIOUS
  <2>1. n \in DOMAIN games BY <1>4 DEF WonBy
  <2> HIDE DEF last
  <2> QED BY <2>1, <1>3 DEF WonBy, Entrant1Won
<1>6. IsFiniteSet(more)
      /\ Cardinality(more) = IF last \in WonBy(slot) THEN Cardinality(WonBy(slot))
                             ELSE Cardinality(WonBy(slot)) + 1
  BY <1>1, FS_AddElement
<1>7. Cardinality(WonBy(slot)') <= Cardinality(more)
  <2> HIDE DEF more
  <2> QED BY <1>5, <1>6, FS_Subset
<1>8. Cardinality(WonBy(slot)') \in Nat /\ Wins(slot)' = Cardinality(WonBy(slot)')
  <2>1. IsFiniteSet(WonBy(slot)') BY <1>5, <1>6, FS_Subset
  <2>2. Wins(slot)' = Cardinality(WonBy(slot)') BY DEF Wins, WonBy
  <2> QED BY <2>1, <2>2, FS_CardinalityType
<1>9. Cardinality(more) <= Wins(slot) + 1 /\ Cardinality(more) \in Int
  <2> HIDE DEF more, last
  <2> QED BY <1>1, <1>6
<1> HIDE DEF more
<1> QED BY <1>1, <1>7, <1>8, <1>9

(* A series without games has no wins.                                     *)
LEMMA NoGamesNoWins ==
  ASSUME games = << >>
  PROVE  GamesAsRequested /\ NoWinIsSpare
<1>1. DOMAIN games = {} OBVIOUS
<1>2. \A slot \in Slots : Wins(slot) = 0
  <2> TAKE slot \in Slots
  <2>1. {n \in DOMAIN games : /\ games[n].winnerSide # "tie"
                              /\ Entrant1Won(n) <=> slot = "entrant1"} = {}
    BY <1>1
  <2> QED BY <2>1, FS_EmptySet DEF Wins
<1>3. GamesAsRequested BY <1>1 DEF GamesAsRequested
<1>4. NoWinIsSpare BY <1>2, KnockoutAssumption DEF NoWinIsSpare
<1> QED BY <1>3, <1>4

(* The games of a series follow the request generator, and no win is to    *)
(* spare, in every reachable state.                                        *)
LEMMA SeriesInvariant == Spec => []SeriesInv
<1> DEFINE NoneYet == games = << >> => GamesAsRequested /\ NoWinIsSpare
<1>a. NoneYet BY NoGamesNoWins
<1>0. NoneYet' BY <1>a, PTL
<1>1. Init => GamesAsRequested /\ NoWinIsSpare BY NoGamesNoWins DEF Init
<1>2. SeriesInv /\ KnockoutTypeOK' /\ [Next]_vars => GamesAsRequested' /\ NoWinIsSpare'
  <2> SUFFICES ASSUME SeriesInv, KnockoutTypeOK', [Next]_vars
               PROVE  GamesAsRequested' /\ NoWinIsSpare'
    OBVIOUS
  <2>1. ASSUME UNCHANGED games PROVE GamesAsRequested' /\ NoWinIsSpare'
    BY <2>1 DEF SeriesInv, GamesAsRequested, NoWinIsSpare, Wins, Entrant1Won
  <2>2. CASE PlayGame
    <3>1. PICK side \in WinnerSides : games' = Append(games, Game(Len(games) + 1, side))
      BY <2>2 DEF PlayGame
    <3>2. DOMAIN games = 1..Len(games) /\ Len(games) \in Nat BY GamesAreFinite DEF SeriesInv
    <3>3. GamesAsRequested'
      <4> SUFFICES ASSUME NEW n \in DOMAIN games'
                   PROVE  /\ games'[n].p1 = GameSides(n).p1 /\ games'[n].p2 = GameSides(n).p2
                          /\ games'[n].winnerSide \in WinnerSides
        BY DEF GamesAsRequested
      <4>0. games \in Seq([p1 : Slots, p2 : Slots, winnerSide : WinnerSides])
        BY DEF SeriesInv, KnockoutTypeOK
      <4>1. n \in DOMAIN games \/ n = Len(games) + 1 BY <3>1, <3>2, <4>0
      <4>2. CASE n \in DOMAIN games
        <5>1. games'[n] = games[n] BY <3>1, <3>2, <4>0, <4>2
        <5> QED BY <5>1, <4>2 DEF SeriesInv, GamesAsRequested
      <4>3. CASE n = Len(games) + 1
        <5>1. games'[n] = Game(n, side) BY <3>1, <3>2, <4>0, <4>3
        <5> QED BY <5>1 DEF Game
      <4> QED BY <4>1, <4>2, <4>3
    <3>4. NoWinIsSpare'
      <4> SUFFICES ASSUME NEW slot \in Slots PROVE Wins(slot)' <= WinsNeeded
        BY DEF NoWinIsSpare
      <4>1. Wins(slot)' <= Wins(slot) + 1 BY <3>1, OneGameOneWin DEF SeriesInv
      <4>2. ~(Wins(slot) >= WinsNeeded) BY <2>2 DEF PlayGame, Complete, TwoWins
      <4>3. Wins(slot) \in Nat BY WinsAreCounted DEF SeriesInv
      <4>4. Wins(slot)' \in Nat BY <3>1, OneGameOneWin DEF SeriesInv
      <4> QED BY <4>1, <4>2, <4>3, <4>4, KnockoutAssumption
    <3> QED BY <3>3, <3>4
  <2>3. CASE DecideSeries
    <3>1. games' = << >> BY <2>3 DEF DecideSeries
    <3> QED BY <3>1, <1>0
  <2>4. CASE BuildNextRound BY <2>1, <2>4 DEF BuildNextRound
  <2>5. CASE SelectChampion BY <2>1, <2>5 DEF SelectChampion
  <2>6. CASE UNCHANGED vars BY <2>1, <2>6 DEF vars
  <2> QED BY <2>2, <2>3, <2>4, <2>5, <2>6 DEF Next
<1>3. Spec => []KnockoutTypeOK BY KnockoutTypes
<1>4. KnockoutTypeOK /\ GamesAsRequested /\ NoWinIsSpare <=> SeriesInv BY DEF SeriesInv
<1> QED BY <1>1, <1>2, <1>3, <1>4, PTL DEF Spec

(* The rules count with an instance of their own of the finite sets.       *)
LEMMA SameCount ==
  ASSUME NEW S
  PROVE  Rules!Cardinality(S) = Cardinality(S)
BY DEF Rules!Cardinality, Cardinality

(* Numbered games are entries of their own: as many entries as games.      *)
LEMMA EntriesAreNumbered ==
  ASSUME NEW S, IsFiniteSet(S)
  PROVE  Cardinality({[round |-> 1, series |-> 1, game |-> n,
                       outcome |-> WinnerOf(games[n])] : n \in S}) = Cardinality(S)
<1> DEFINE E(n) == [round |-> 1, series |-> 1, game |-> n, outcome |-> WinnerOf(games[n])]
           T == {E(n) : n \in S}
           f == [n \in S |-> E(n)]
<1>1. f \in [S -> T] OBVIOUS
<1>2. \A a, b \in S : f[a] = f[b] => a = b
  <2> SUFFICES ASSUME NEW a \in S, NEW b \in S, f[a] = f[b] PROVE a = b OBVIOUS
  <2>1. E(a) = E(b) OBVIOUS
  <2>2. E(a).game = a /\ E(b).game = b OBVIOUS
  <2> HIDE DEF E
  <2> QED BY <2>1, <2>2
<1>3. \A t \in T : \E n \in S : f[n] = t OBVIOUS
<1> HIDE DEF f, T
<1>4. f \in Bijection(S, T) BY <1>1, <1>2, <1>3, Fun_IsBij
<1>5. ExistsBijection(S, T) BY <1>4 DEF ExistsBijection
<1> QED BY <1>5, FS_Bijection DEF T

(* The sides of a game of a series, and the number of the game, give the   *)
(* winner its side: the slot that played on it is the one counted.         *)
LEMMA SidesAlternate ==
  ASSUME GamesAsRequested, NEW n \in DOMAIN games, NEW slot \in Slots
  PROVE  /\ n \in WonBy(slot) <=> WinnerOf(games[n]) = slot
         /\ n \in WonBy(slot) <=>
              \/ games[n].p1 = slot /\ games[n].winnerSide = "p1"
              \/ games[n].p2 = slot /\ games[n].winnerSide = "p2"
<1>1. /\ games[n].p1 = GameSides(n).p1 /\ games[n].p2 = GameSides(n).p2
      /\ games[n].winnerSide \in WinnerSides
  BY DEF GamesAsRequested
<1>2. CASE games[n].winnerSide = "tie"
  BY <1>2 DEF WonBy, WinnerOf, Slots
<1>3. CASE games[n].winnerSide = "p1" /\ n % 2 = 1
  BY <1>1, <1>3 DEF WonBy, WinnerOf, Slots, GameSides, Entrant1Won
<1>4. CASE games[n].winnerSide = "p1" /\ n % 2 # 1
  BY <1>1, <1>4 DEF WonBy, WinnerOf, Slots, GameSides, Entrant1Won
<1>5. CASE games[n].winnerSide = "p2" /\ n % 2 = 1
  BY <1>1, <1>5 DEF WonBy, WinnerOf, Slots, GameSides, Entrant1Won
<1>6. CASE games[n].winnerSide = "p2" /\ n % 2 # 1
  BY <1>1, <1>6 DEF WonBy, WinnerOf, Slots, GameSides, Entrant1Won
<1> QED BY <1>1, <1>2, <1>3, <1>4, <1>5, <1>6 DEF WinnerSides

(* The rules read the same wins and the same number of games off the       *)
(* entries of the series.                                                  *)
LEMMA RulesSeeTheSeries ==
  ASSUME KnockoutTypeOK, GamesAsRequested
  PROVE  /\ \A slot \in Slots : Rules!Wins(AsEntries, 1, 1, slot) = Wins(slot)
         /\ Cardinality(Rules!Games(AsEntries, 1, 1)) = Len(games)
<1> DEFINE Entry(n) == [round |-> 1, series |-> 1, game |-> n, outcome |-> WinnerOf(games[n])]
<1>1. Rules!Games(AsEntries, 1, 1) = AsEntries BY DEF Rules!Games, AsEntries
<1>2. Cardinality(AsEntries) = Len(games)
  <2>1. IsFiniteSet(DOMAIN games) /\ Cardinality(DOMAIN games) = Len(games)
    BY GamesAreFinite
  <2>2. Cardinality({Entry(n) : n \in DOMAIN games}) = Cardinality(DOMAIN games)
    BY <2>1, EntriesAreNumbered
  <2> QED BY <2>1, <2>2 DEF AsEntries
<1>3. ASSUME NEW slot \in Slots PROVE Rules!Wins(AsEntries, 1, 1, slot) = Wins(slot)
  <2>1. \A n \in DOMAIN games : n \in WonBy(slot) <=> WinnerOf(games[n]) = slot
    BY SidesAlternate
  <2>2. {e \in AsEntries : e.outcome = slot} = {Entry(n) : n \in WonBy(slot)}
    <3>1. \A n \in DOMAIN games : Entry(n).outcome = WinnerOf(games[n]) OBVIOUS
    <3>2. WonBy(slot) \subseteq DOMAIN games BY DEF WonBy
    <3>3. AsEntries = {Entry(n) : n \in DOMAIN games} BY DEF AsEntries
    <3> HIDE DEF Entry
    <3> QED BY <2>1, <3>1, <3>2, <3>3
  <2>3. IsFiniteSet(WonBy(slot)) /\ Wins(slot) = Cardinality(WonBy(slot))
    BY WinsAreCounted
  <2>4. Cardinality({Entry(n) : n \in WonBy(slot)}) = Cardinality(WonBy(slot))
    BY <2>3, EntriesAreNumbered
  <2>5. Rules!Wins(AsEntries, 1, 1, slot) = Cardinality({e \in AsEntries : e.outcome = slot})
    BY <1>1, SameCount DEF Rules!Wins
  <2> QED BY <2>2, <2>3, <2>4, <2>5
<1> QED BY <1>1, <1>2, <1>3

(* The slot that wins a complete series has won no fewer games.            *)
LEMMA WinnerHasMost ==
  ASSUME SeriesInv, SeriesLeft, Complete, NEW slot \in Slots
  PROVE  WinnerSlot \in Slots /\ Wins(WinnerSlot) >= Wins(slot)
<1>1. /\ \A s \in Slots : Wins(s) \in Nat /\ Wins(s) <= WinsNeeded
      /\ WinsNeeded \in Nat
  BY WinsAreCounted, KnockoutAssumption DEF SeriesInv, NoWinIsSpare
<1>2. WinnerSlot \in Slots BY WinnerSlotInSlots DEF SeriesInv, KnockoutTypeOK
<1>3. CASE TwoWins
  <2>1. WinnerSlot = IF Wins("entrant1") >= WinsNeeded THEN "entrant1" ELSE "entrant2"
    BY <1>3 DEF WinnerSlot
  <2>2. Wins(WinnerSlot) >= WinsNeeded
    <3>1. Wins("entrant1") >= WinsNeeded \/ Wins("entrant2") >= WinsNeeded
      BY <1>3 DEF TwoWins, Slots
    <3> HIDE DEF WinnerSlot, Wins
    <3> QED BY <2>1, <3>1
  <2> HIDE DEF WinnerSlot, Wins
  <2> QED BY <1>1, <1>2, <2>2
<1>4. CASE ~TwoWins
  <2>4. Wins("entrant1") \in Nat /\ Wins("entrant2") \in Nat BY <1>1 DEF Slots
  <2>5. ~(Wins("entrant1") > Wins("entrant2") /\ Wins("entrant1") < Wins("entrant2"))
    BY <2>4
  <2>1. CASE Wins("entrant1") > Wins("entrant2")
    <3>0. ~(Wins("entrant1") < Wins("entrant2")) /\ Wins("entrant1") # Wins("entrant2")
      BY <2>1, <2>4, <2>5
    <3>1. WinnerSlot = "entrant1" BY <1>4, <2>1, <3>0 DEF WinnerSlot
    <3> QED BY <3>1, <1>1, <2>1 DEF Slots
  <2>2. CASE Wins("entrant1") < Wins("entrant2")
    <3>0. ~(Wins("entrant1") > Wins("entrant2")) /\ Wins("entrant1") # Wins("entrant2")
      BY <2>2, <2>4, <2>5
    <3>1. WinnerSlot = "entrant2" BY <1>4, <2>2, <3>0 DEF WinnerSlot
    <3> QED BY <3>1, <1>1, <2>2 DEF Slots
  <2>3. CASE Wins("entrant1") = Wins("entrant2")
    <3>1. Wins(WinnerSlot) = Wins("entrant1") /\ Wins(slot) = Wins("entrant1")
      BY <1>2, <2>3 DEF Slots
    <3> QED BY <1>1, <1>2, <3>1 DEF Slots
  <2> QED BY <2>1, <2>2, <2>3, <2>4
<1> QED BY <1>3, <1>4

(* A series is evaluated fairly in both modes, for every cap: both         *)
(* entrants get the games they won, whichever side they played them on;    *)
(* the evaluation ends where the runner's rules end it; and its winner has *)
(* won no fewer games.                                                     *)
THEOREM FairEvaluation == Spec => []EvaluationIsFair
<1>1. SeriesInv => EvaluationIsFair
  <2> SUFFICES ASSUME SeriesInv PROVE EvaluationIsFair OBVIOUS
  <2>1. ASSUME NEW slot \in Slots PROVE Wins(slot) = Earned(slot)
    <3>1. WonBy(slot) = {n \in DOMAIN games :
                           \/ games[n].p1 = slot /\ games[n].winnerSide = "p1"
                           \/ games[n].p2 = slot /\ games[n].winnerSide = "p2"}
      <4>1. WonBy(slot) \subseteq DOMAIN games BY DEF WonBy
      <4>2. \A n \in DOMAIN games : n \in WonBy(slot) <=>
              \/ games[n].p1 = slot /\ games[n].winnerSide = "p1"
              \/ games[n].p2 = slot /\ games[n].winnerSide = "p2"
        BY SidesAlternate DEF SeriesInv
      <4> QED BY <4>1, <4>2
    <3> QED BY <3>1, WinsAreCounted DEF SeriesInv, Earned
  <2>2. Complete <=> Rules!SeriesDecided(AsEntries, 1, 1)
    <3>1. /\ \A slot \in Slots : Rules!Wins(AsEntries, 1, 1, slot) = Wins(slot)
          /\ Cardinality(Rules!Games(AsEntries, 1, 1)) = Len(games)
      BY RulesSeeTheSeries DEF SeriesInv
    <3> QED BY <3>1, SameCount DEF Rules!SeriesDecided, Complete, TwoWins, Slots
  <2>3. SeriesLeft /\ Complete => \A slot \in Slots : Earned(WinnerSlot) >= Earned(slot)
    BY <2>1, WinnerHasMost
  <2> QED BY <2>1, <2>2, <2>3 DEF EvaluationIsFair
<1> QED BY <1>1, SeriesInvariant, PTL
==============================================================================
