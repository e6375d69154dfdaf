---------------------------- MODULE StandingsProofs ---------------------------
(***************************************************************************)
(* Proofs about the standings of a group, for a group of any size, any     *)
(* number of requests in flight, any sides and any rank digests.           *)
(***************************************************************************)
EXTENDS StandingsProperties, FiniteSetTheorems, SequenceTheorems,
        WellFoundedInduction, TLAPS

------------------------------------------------------------------------------
(* The inductive invariant: no pairing is played twice.                    *)

GameResults ==
  {r \in [p1 : Participants, p2 : Participants, winner : Winners] : r.p1 # r.p2}

PlayedOnce(log) == \A i, j \in 1..Len(log) : Pairing(log[i]) = Pairing(log[j]) => i = j

GroupInv == results \in Seq(GameResults) /\ PlayedOnce(results)

(* An open pairing has a result between its two sides, and is new.         *)
LEMMA ResultOfOpen ==
  ASSUME NEW pair \in Open, NEW winner \in Winners
  PROVE  /\ Result(pair, winner) \in GameResults
         /\ Pairing(Result(pair, winner)) = pair
         /\ pair \notin Played
<1>1. pair \in Pairings /\ pair \notin Played
  BY DEF Open
<1>2. /\ pair[1] \in Participants /\ pair[2] \in Participants /\ pair[1] < pair[2]
      /\ pair = <<pair[1], pair[2]>>
  BY <1>1 DEF Pairings
<1>3. pair[1] # pair[2] /\ ~(pair[2] < pair[1])
  BY <1>2, GroupAssumption DEF Participants
<1>4. CASE pair \in SwapSides
  BY <1>1, <1>2, <1>3, <1>4 DEF Result, Request, GameResults, Pairing
<1>5. CASE pair \notin SwapSides
  BY <1>1, <1>2, <1>3, <1>5 DEF Result, Request, GameResults, Pairing
<1> QED
  BY <1>4, <1>5

(* Every step adds one result, of a pairing that had none.                 *)
LEMMA StepAppends ==
  ASSUME GroupInv, Accept
  PROVE  \E r \in GameResults : /\ results' = Append(results, r)
                                /\ \A i \in 1..Len(results) : Pairing(results[i]) # Pairing(r)
<1>1. PICK pair \in Open, winner \in Winners : results' = Append(results, Result(pair, winner))
  BY DEF Accept
<1>2. /\ Result(pair, winner) \in GameResults
      /\ Pairing(Result(pair, winner)) = pair
      /\ pair \notin Played
  BY ResultOfOpen
<1>3. \A i \in 1..Len(results) : Pairing(results[i]) \in Played
  BY DEF Played, GroupInv
<1> HIDE DEF Result
<1> QED
  BY <1>1, <1>2, <1>3

(* Both hold initially, and every step keeps them.                         *)
LEMMA GroupInvariant == Spec => []GroupInv
<1>1. Init => GroupInv
  BY DEF Init, GroupInv, PlayedOnce
<1>2. GroupInv /\ [Next]_results => GroupInv'
  <2> SUFFICES ASSUME GroupInv, [Next]_results PROVE GroupInv'
    OBVIOUS
  <2>1. CASE UNCHANGED results
    BY <2>1 DEF GroupInv, PlayedOnce
  <2>2. CASE Accept
    <3>1. PICK r \in GameResults :
            /\ results' = Append(results, r)
            /\ \A i \in 1..Len(results) : Pairing(results[i]) # Pairing(r)
      BY <2>2, StepAppends
    <3>2. /\ Len(results) \in Nat /\ Len(results') = Len(results) + 1
          /\ \A i \in 1..Len(results) : results'[i] = results[i]
          /\ results'[Len(results) + 1] = r
          /\ results' \in Seq(GameResults)
      BY <3>1 DEF GroupInv
    <3>3. \A i \in 1..(Len(results) + 1) : i \in 1..Len(results) \/ i = Len(results) + 1
      BY <3>2
    <3>4. PlayedOnce(results)
      BY DEF GroupInv
    <3>5. PlayedOnce(results')
      <4> SUFFICES ASSUME NEW i \in 1..Len(results'), NEW j \in 1..Len(results'),
                          Pairing(results'[i]) = Pairing(results'[j])
                   PROVE  i = j
        BY DEF PlayedOnce
      <4>1. CASE i \in 1..Len(results) /\ j \in 1..Len(results)
        BY <4>1, <3>2, <3>4 DEF PlayedOnce
      <4>2. CASE i \in 1..Len(results) /\ j = Len(results) + 1
        BY <4>2, <3>1, <3>2
      <4>3. CASE i = Len(results) + 1 /\ j \in 1..Len(results)
        BY <4>3, <3>1, <3>2
      <4>4. i \in 1..(Len(results) + 1) /\ j \in 1..(Len(results) + 1)
        BY <3>2
      <4> QED
        BY <3>3, <4>1, <4>2, <4>3, <4>4
    <3> QED
      BY <3>2, <3>5 DEF GroupInv
  <2> QED
    BY <2>1, <2>2 DEF Next
<1> QED
  BY <1>1, <1>2, PTL DEF Spec
------------------------------------------------------------------------------
(* The passes over the results.                                            *)

(* A set of numbers that is not empty has a least element.                 *)
LEMMA LeastNumber ==
  ASSUME NEW T, T \subseteq Nat, T # {}
  PROVE  \E m \in T : \A n \in T : m <= n
<1>1. PICK m \in T : \A n \in T : <<n, m>> \notin OpToRel(<, Nat)
  BY NatLessThanWellFounded, WFMin
<1>2. \A n \in T : ~(n < m)
  BY <1>1 DEF OpToRel
<1> QED
  BY <1>2

(* A recursion over the subsets of a finite set, which takes out one       *)
(* chosen element at a time, defines a function.                           *)
Chooses(choose, S) == \A T \in SUBSET S : T # {} => choose[T] \in T
Steps(step, S, V) == \A x \in S, v \in V : step[x][v] \in V
IsFold(h, S, base, choose, step) ==
  h = [T \in SUBSET S |-> IF T = {} THEN base ELSE step[choose[T]][h[T \ {choose[T]}]]]

LEMMA FoldIsDefined ==
  ASSUME NEW S, IsFiniteSet(S), NEW V, NEW base \in V,
         NEW choose, Chooses(choose, S), NEW step, Steps(step, S, V)
  PROVE  \E h \in [SUBSET S -> V] : IsFold(h, S, base, choose, step)
<1> USE DEF Chooses, Steps
<1> DEFINE Small(n) == {T \in SUBSET S : Cardinality(T) <= n}
           Rec(h, n) == /\ h \in [Small(n) -> V]
                        /\ \A T \in Small(n) : h[T] = IF T = {} THEN base
                                   ELSE step[choose[T]][h[T \ {choose[T]}]]
           Bad == {n \in Nat : \A h : ~Rec(h, n)}
<1>1. \A T \in SUBSET S : IsFiniteSet(T) /\ Cardinality(T) \in Nat
                            /\ Cardinality(T) <= Cardinality(S)
  BY FS_Subset, FS_CardinalityType
<1>2. \A T \in SUBSET S : T # {} => /\ T \ {choose[T]} \in SUBSET S
                                    /\ Cardinality(T \ {choose[T]}) = Cardinality(T) - 1
  BY <1>1, FS_RemoveElement
<1>3. \A T \in SUBSET S : Cardinality(T) = 0 <=> T = {}
  BY <1>1, FS_EmptySet
<1>4. Bad = {}
  <2> SUFFICES ASSUME Bad # {} PROVE FALSE
    OBVIOUS
  <2>1. PICK n \in Bad : \A m \in Bad : n <= m
    BY LeastNumber, Bad \subseteq Nat
  <2>2. n # 0
    <3> SUFFICES ASSUME n = 0 PROVE FALSE
      OBVIOUS
    <3>1. \A T \in Small(0) : T = {}
      BY <1>1, <1>3
    <3>2. Rec([T \in Small(0) |-> base], 0)
      BY <3>1
    <3> QED
      BY <3>2, <2>1
  <2>3. n \in Nat /\ n - 1 \in Nat
    BY <2>1, <2>2
  <2>4. PICK g : Rec(g, n - 1)
    <3>1. n - 1 \notin Bad
      <4> HIDE DEF Bad
      <4> QED
        BY <2>1, <2>3
    <3> QED
      BY <3>1, <2>3
  <2> DEFINE h == [T \in Small(n) |-> IF T = {} THEN base
                                      ELSE step[choose[T]][g[T \ {choose[T]}]]]
  <2>5. \A T \in Small(n) : T # {} => T \ {choose[T]} \in Small(n - 1) /\ T \ {choose[T]} \in Small(n)
    BY <1>1, <1>2, <2>3
  <2>6. \A T \in Small(n - 1) : T \in Small(n) /\ h[T] = g[T]
    <3> TAKE T \in Small(n - 1)
    <3>1. T \in Small(n)
      BY <1>1, <2>3
    <3>2. g[T] = IF T = {} THEN base ELSE step[choose[T]][g[T \ {choose[T]}]]
      BY <2>4
    <3> QED
      BY <3>1, <3>2
  <2>7. h \in [Small(n) -> V]
    <3> SUFFICES ASSUME NEW T \in Small(n), T # {}
                 PROVE  step[choose[T]][g[T \ {choose[T]}]] \in V
      OBVIOUS
    <3>1. g[T \ {choose[T]}] \in V
      BY <2>4, <2>5
    <3> QED
      BY <3>1
  <2>8. Rec(h, n)
    <3> SUFFICES ASSUME NEW T \in Small(n), T # {}
                 PROVE  h[T] = step[choose[T]][h[T \ {choose[T]}]]
      BY <2>7
    <3> QED
      BY <2>5, <2>6
  <2> QED
    BY <2>1, <2>8
<1>5. PICK h : Rec(h, Cardinality(S))
  <2>1. Cardinality(S) \in Nat /\ Cardinality(S) \notin Bad
    <3> HIDE DEF Bad
    <3> QED
      BY <1>1, <1>4
  <2> QED
    BY <2>1
<1>6. Small(Cardinality(S)) = SUBSET S
  BY <1>1
<1>7. /\ h \in [SUBSET S -> V]
      /\ \A T \in SUBSET S : h[T] = IF T = {} THEN base
                                     ELSE step[choose[T]][h[T \ {choose[T]}]]
  BY <1>5, <1>6
<1> DEFINE rec == [T \in SUBSET S |-> IF T = {} THEN base
                                     ELSE step[choose[T]][h[T \ {choose[T]}]]]
<1>8. h = rec
  BY <1>7
<1>9. h \in [SUBSET S -> V] /\ IsFold(h, S, base, choose, step)
  BY <1>7, <1>8 DEF IsFold
<1> QED
  BY <1>9

(* A set of positions that is not empty has a last one.                    *)
LEMMA LastPosition ==
  ASSUME NEW n \in Nat, NEW T \in SUBSET (1..n), T # {}
  PROVE  Max(T) \in T /\ \A y \in T : Max(T) >= y
<1> SUFFICES \E x \in T : \A y \in T : x >= y
  BY DEF Max
<1> DEFINE M == {n - x : x \in T}
<1>1. PICK m \in M : \A k \in M : m <= k
  <2>1. PICK x \in T : TRUE
    OBVIOUS
  <2>2. n - x \in M
    BY <2>1
  <2> QED
    BY <2>2, LeastNumber, M \subseteq Nat
<1>2. PICK x \in T : m = n - x
  BY <1>1
<1>3. \A y \in T : n - x <= n - y
  BY <1>1, <1>2
<1> QED
  BY <1>3


(* A pass over a sequence, one element after the other, defines the        *)
(* sequence of its intermediate values.                                    *)
IterOf(h, base, step, log) ==
  \A T \in SUBSET (1..Len(log)) :
    h[T] = IF T = {} THEN base ELSE step[log[Max(T)]][h[T \ {Max(T)}]]

LEMMA PassIsDefined ==
  ASSUME NEW E, NEW V, NEW base \in V, NEW step \in [E -> [V -> V]], NEW log \in Seq(E)
  PROVE  \E h \in [SUBSET (1..Len(log)) -> V] : IterOf(h, base, step, log)
<1> DEFINE D == 1..Len(log)
           choose == [T \in SUBSET D |-> Max(T)]
           move == [k \in D |-> step[log[k]]]
<1>1. IsFiniteSet(D) /\ Len(log) \in Nat
  BY FS_Interval
<1>2. \A T \in SUBSET D : T # {} => Max(T) \in T
  BY <1>1, LastPosition
<1>3. \A k \in D : log[k] \in E
  OBVIOUS
<1>4. PICK h \in [SUBSET D -> V] : IsFold(h, D, base, choose, move)
  <2>1. Chooses(choose, D)
    BY <1>2 DEF Chooses
  <2>2. Steps(move, D, V)
    BY <1>3 DEF Steps
  <2> HIDE DEF choose, move, D
  <2> QED
    BY <1>1, <2>1, <2>2, FoldIsDefined
<1>5. \A T \in SUBSET D : h[T] = IF T = {} THEN base ELSE step[log[Max(T)]][h[T \ {Max(T)}]]
  <2> SUFFICES ASSUME NEW T \in SUBSET D, T # {}
               PROVE  h[T] = step[log[Max(T)]][h[T \ {Max(T)}]]
    BY <1>4 DEF IsFold
  <2>1. h[T] = move[choose[T]][h[T \ {choose[T]}]]
    BY <1>4 DEF IsFold
  <2>2. choose[T] = Max(T) /\ Max(T) \in D
    BY <1>2
  <2>3. move[Max(T)] = step[log[Max(T)]]
    BY <2>2
  <2> QED
    BY <2>1, <2>2, <2>3
<1> QED
  BY <1>5 DEF IterOf

(* The positions of a sequence, from the last one down.                    *)
LEMMA LastOfPrefix ==
  ASSUME NEW n \in Nat, NEW k \in 1..n
  PROVE  /\ Max(1..k) = k /\ (1..k) \ {k} = 1..(k - 1)
         /\ 1..k # {} /\ 1..k \in SUBSET (1..n)
<1>1. k \in Nat /\ k >= 1 /\ k <= n
  OBVIOUS
<1>2. (1..k) \ {k} = 1..(k - 1) /\ 1..k \in SUBSET (1..n) /\ k \in 1..k
  BY <1>1
<1>3. Max(1..k) \in 1..k /\ Max(1..k) >= k
  BY LastPosition, <1>1, <1>2
<1> QED
  BY <1>1, <1>2, <1>3

(* Two functions that start and go on alike are alike.                     *)
StayAlike(f, g, n) ==
  f[0] = g[0] /\ \A k \in 1..n : f[k - 1] = g[k - 1] => f[k] = g[k]

LEMMA AlikeFromStart ==
  ASSUME NEW n \in Nat, NEW f, NEW g, StayAlike(f, g, n)
  PROVE  \A k \in 0..n : f[k] = g[k]
<1> USE DEF StayAlike
<1> DEFINE Bad == {k \in 0..n : f[k] # g[k]}
<1> SUFFICES ASSUME Bad # {} PROVE FALSE
  OBVIOUS
<1>1. PICK m \in Bad : \A k \in Bad : m <= k
  BY LeastNumber, Bad \subseteq Nat
<1>2. m # 0
  BY <1>1
<1>3. m \in 1..n /\ m - 1 \in 0..n /\ ~(m <= m - 1)
  BY <1>1, <1>2
<1>4. m - 1 \notin Bad
  <2> HIDE DEF Bad
  <2> QED
    BY <1>1, <1>3
<1> QED
  BY <1>1, <1>3, <1>4

------------------------------------------------------------------------------
(* The first pass: points and wins.                                        *)

GameRecords == [played : Nat, wins : Nat, draws : Nat, losses : Nat, points : Nat]
Tables == [Participants -> GameRecords]
EmptyTable == [p \in Participants |-> NoGames]

Wins(p, r) == (r.p1 = p /\ r.winner = "p1") \/ (r.p2 = p /\ r.winner = "p2")
Draws(p, r) == p \in {r.p1, r.p2} /\ r.winner = "tie"

Gain(p, r) == IF Wins(p, r) THEN 3 ELSE IF Draws(p, r) THEN 1 ELSE 0

(* What one result does to the record of a participant.                    *)
LEMMA RecordMoved ==
  ASSUME NEW x \in GameRecords
  PROVE  /\ Won(x) \in GameRecords /\ Won(x).points = x.points + 3 /\ Won(x).wins = x.wins + 1
         /\ Lost(x) \in GameRecords /\ Lost(x).points = x.points /\ Lost(x).wins = x.wins
         /\ Drawn(x) \in GameRecords /\ Drawn(x).points = x.points + 1 /\ Drawn(x).wins = x.wins
<1>1. \A a, b, c \in Nat :
        /\ [x EXCEPT !.played = a, !.wins = b, !.points = c] \in GameRecords
        /\ [x EXCEPT !.played = a, !.losses = b] \in GameRecords
        /\ [x EXCEPT !.played = a, !.draws = b, !.points = c] \in GameRecords
  BY DEF GameRecords
<1>2. /\ x.played + 1 \in Nat /\ x.wins + 1 \in Nat /\ x.draws + 1 \in Nat
      /\ x.losses + 1 \in Nat /\ x.points + 1 \in Nat /\ x.points + 3 \in Nat
  BY DEF GameRecords
<1>3. Won(x) \in GameRecords /\ Lost(x) \in GameRecords /\ Drawn(x) \in GameRecords
  <2> HIDE DEF GameRecords
  <2> QED
    BY <1>1, <1>2, Zenon DEF Won, Lost, Drawn
<1>4. Won(x).points = x.points + 3 /\ Won(x).wins = x.wins + 1
  BY DEF GameRecords, Won
<1>5. Lost(x).points = x.points /\ Lost(x).wins = x.wins
  BY DEF GameRecords, Lost
<1>6. Drawn(x).points = x.points + 1 /\ Drawn(x).wins = x.wins
  BY DEF GameRecords, Drawn
<1> QED
  BY <1>3, <1>4, <1>5, <1>6

(* One result moves the table as the rules say.                            *)
LEMMA RecordedAsRules ==
  ASSUME NEW t \in Tables, NEW r \in GameResults
  PROVE  /\ Recorded(t, r) \in Tables
         /\ \A p \in Participants :
              /\ Recorded(t, r)[p].points = t[p].points + Gain(p, r)
              /\ Recorded(t, r)[p].wins = t[p].wins + (IF Wins(p, r) THEN 1 ELSE 0)
<1> DEFINE a == r.p1
           b == r.p2
<1>1. /\ a \in Participants /\ b \in Participants /\ a # b
      /\ r.winner \in {"p1", "p2", "tie"}
  BY DEF GameResults, Winners
<1>2. \A q \in Participants : /\ Won(t[q]) \in GameRecords /\ Lost(t[q]) \in GameRecords
                              /\ Drawn(t[q]) \in GameRecords
                              /\ Won(t[q]).points = t[q].points + 3
                              /\ Won(t[q]).wins = t[q].wins + 1
                              /\ Lost(t[q]).points = t[q].points
                              /\ Lost(t[q]).wins = t[q].wins
                              /\ Drawn(t[q]).points = t[q].points + 1
                              /\ Drawn(t[q]).wins = t[q].wins
                              /\ t[q].points \in Nat /\ t[q].wins \in Nat
  <2> SUFFICES ASSUME NEW q \in Participants
               PROVE  /\ Won(t[q]) \in GameRecords /\ Lost(t[q]) \in GameRecords
                      /\ Drawn(t[q]) \in GameRecords
                      /\ Won(t[q]).points = t[q].points + 3
                      /\ Won(t[q]).wins = t[q].wins + 1
                      /\ Lost(t[q]).points = t[q].points
                      /\ Lost(t[q]).wins = t[q].wins
                      /\ Drawn(t[q]).points = t[q].points + 1
                      /\ Drawn(t[q]).wins = t[q].wins
                      /\ t[q].points \in Nat /\ t[q].wins \in Nat
    OBVIOUS
  <2>1. t[q] \in GameRecords
    BY DEF Tables
  <2> DEFINE x == t[q]
  <2>2. x \in GameRecords /\ x.points \in Nat /\ x.wins \in Nat
    BY <2>1 DEF GameRecords
  <2> HIDE DEF x
  <2>3. /\ Won(x) \in GameRecords /\ Won(x).points = x.points + 3 /\ Won(x).wins = x.wins + 1
        /\ Lost(x) \in GameRecords /\ Lost(x).points = x.points /\ Lost(x).wins = x.wins
        /\ Drawn(x) \in GameRecords /\ Drawn(x).points = x.points + 1 /\ Drawn(x).wins = x.wins
    BY <2>2, RecordMoved
  <2> QED
    BY <2>2, <2>3 DEF x
<1> HIDE DEF a, b
<1>3. CASE r.winner = "p1"
  <2>1. Recorded(t, r) = [t EXCEPT ![a] = Won(@), ![b] = Lost(@)]
    BY <1>3 DEF Recorded, a, b
  <2>2. Recorded(t, r) = [q \in Participants |-> IF q = a THEN Won(t[q])
                                                 ELSE IF q = b THEN Lost(t[q]) ELSE t[q]]
    BY <2>1, <1>1 DEF Tables
  <2>3. Recorded(t, r) \in Tables
    BY <2>2, <1>2 DEF Tables
  <2>4. \A p \in Participants : (Wins(p, r) <=> p = a) /\ ~Draws(p, r)
    BY <1>3 DEF Wins, Draws, a
  <2> QED
    BY <2>2, <2>3, <2>4, <1>1, <1>2 DEF Gain
<1>4. CASE r.winner = "p2"
  <2>1. Recorded(t, r) = [t EXCEPT ![b] = Won(@), ![a] = Lost(@)]
    BY <1>4 DEF Recorded, a, b
  <2>2. Recorded(t, r) = [q \in Participants |-> IF q = b THEN Won(t[q])
                                                 ELSE IF q = a THEN Lost(t[q]) ELSE t[q]]
    BY <2>1, <1>1 DEF Tables
  <2>3. Recorded(t, r) \in Tables
    BY <2>2, <1>2 DEF Tables
  <2>4. \A p \in Participants : (Wins(p, r) <=> p = b) /\ ~Draws(p, r)
    BY <1>4 DEF Wins, Draws, b
  <2> QED
    BY <2>2, <2>3, <2>4, <1>1, <1>2 DEF Gain
<1>5. CASE r.winner = "tie"
  <2>1. Recorded(t, r) = [t EXCEPT ![a] = Drawn(@), ![b] = Drawn(@)]
    BY <1>5 DEF Recorded, a, b
  <2>2. Recorded(t, r) = [q \in Participants |-> IF q \in {a, b} THEN Drawn(t[q]) ELSE t[q]]
    BY <2>1, <1>1 DEF Tables
  <2>3. Recorded(t, r) \in Tables
    BY <2>2, <1>2 DEF Tables
  <2>4. \A p \in Participants : ~Wins(p, r) /\ (Draws(p, r) <=> p \in {a, b})
    BY <1>5 DEF Wins, Draws, a, b
  <2> QED
    BY <2>2, <2>3, <2>4, <1>1, <1>2 DEF Gain
<1> QED
  BY <1>1, <1>3, <1>4, <1>5

IsRecordPass(g, log) ==
  /\ g \in [0..Len(log) -> Tables] /\ g[0] = EmptyTable
  /\ \A k \in 1..Len(log) : g[k] = Recorded(g[k - 1], log[k])

(* The records are the last value of the first pass, and there is one.     *)
LEMMA RecordsArePass ==
  ASSUME NEW log \in Seq(GameResults)
  PROVE  /\ \E g : IsRecordPass(g, log)
         /\ \A g : IsRecordPass(g, log) => Records(log) = g[Len(log)]
<1> DEFINE n == Len(log)
           D == 1..n
           step == [r \in GameResults |-> [t \in Tables |-> Recorded(t, r)]]
           Iter(h) == h = [T \in SUBSET D |-> IF T = {} THEN EmptyTable
                             ELSE Recorded(h[T \ {Max(T)}], log[Max(T)])]
<1>1. n \in Nat /\ DOMAIN log = D /\ \A k \in D : log[k] \in GameResults
  OBVIOUS
<1>2. EmptyTable \in Tables
  BY DEF EmptyTable, Tables, NoGames, GameRecords
<1>3. PICK h \in [SUBSET D -> Tables] : IterOf(h, EmptyTable, step, log)
  <2>1. step \in [GameResults -> [Tables -> Tables]]
    BY RecordedAsRules
  <2> HIDE DEF step
  <2> QED
    BY <1>2, <2>1, PassIsDefined
<1>4. \A T \in SUBSET D : h[T] = IF T = {} THEN EmptyTable
                                 ELSE Recorded(h[T \ {Max(T)}], log[Max(T)])
  <2> SUFFICES ASSUME NEW T \in SUBSET D, T # {}
               PROVE  h[T] = Recorded(h[T \ {Max(T)}], log[Max(T)])
    BY <1>3 DEF IterOf
  <2>1. h[T] = step[log[Max(T)]][h[T \ {Max(T)}]]
    BY <1>3 DEF IterOf
  <2>2. Max(T) \in T
    BY <1>1, LastPosition
  <2>3. log[Max(T)] \in GameResults /\ h[T \ {Max(T)}] \in Tables
    BY <2>2, <1>1, <1>3
  <2> QED
    BY <2>1, <2>3
<1>5. Iter(h)
  BY <1>3, <1>4
<1>6. \A k \in 1..n : /\ Max(1..k) = k /\ (1..k) \ {k} = 1..(k - 1)
                      /\ 1..k # {} /\ 1..k \in SUBSET D
  BY <1>1, LastOfPrefix
<1>7. \E g : IsRecordPass(g, log)
  <2> DEFINE g == [k \in 0..n |-> h[1..k]]
  <2>1. \A k \in 0..n : 1..k \in SUBSET D
    BY <1>1
  <2>2. h[{}] = EmptyTable /\ 1..0 = {}
    <3>1. {} \in SUBSET D /\ 1..0 = {}
      OBVIOUS
    <3> QED
      BY <1>4, <3>1
  <2>3. \A k \in 1..n : k - 1 \in 0..n /\ k \in 0..n
    BY <1>1
  <2>4. \A k \in 1..n : h[1..k] = Recorded(h[1..(k - 1)], log[k])
    BY <1>4, <1>6
  <2>5. g \in [0..n -> Tables]
    BY <1>3, <2>1
  <2>6. g[0] = EmptyTable
    BY <1>1, <2>2
  <2>7. \A k \in 1..n : g[k] = Recorded(g[k - 1], log[k])
    BY <2>3, <2>4
  <2> HIDE DEF g
  <2> QED
    BY <2>5, <2>6, <2>7 DEF IsRecordPass
<1>8. Records(log) = (CHOOSE f : Iter(f))[D]
  BY <1>1 DEF Records, FoldLeft, MapThenFoldSet, EmptyTable
<1>9. \A f : IsRecordPass(f, log) => Records(log) = f[n]
  <2> SUFFICES ASSUME NEW f, IsRecordPass(f, log) PROVE Records(log) = f[n]
    OBVIOUS
  <2> DEFINE i == CHOOSE e : Iter(e)
  <2>1. Iter(i)
    BY <1>5
  <2> HIDE DEF i
  <2>2. \A T \in SUBSET D : i[T] = IF T = {} THEN EmptyTable
                                   ELSE Recorded(i[T \ {Max(T)}], log[Max(T)])
    BY <2>1
  <2> DEFINE j == [k \in 0..n |-> i[1..k]]
  <2>3. \A k \in 1..n : i[1..k] = Recorded(i[1..(k - 1)], log[k])
    BY <1>6, <2>2
  <2>4. j[0] = EmptyTable
    <3>1. {} \in SUBSET D /\ 1..0 = {} /\ 0 \in 0..n
      BY <1>1
    <3>2. i[{}] = EmptyTable
      BY <2>2, <3>1
    <3> QED
      BY <3>1, <3>2
  <2>5. \A k \in 1..n : j[k] = Recorded(j[k - 1], log[k])
    BY <1>1, <2>3
  <2>6. j[n] = i[D]
    BY <1>1
  <2> HIDE DEF j
  <2>7. \A k \in 1..n : j[k - 1] = f[k - 1] => j[k] = f[k]
    BY <2>5 DEF IsRecordPass
  <2>8. \A k \in 0..n : j[k] = f[k]
    <3>1. j[0] = f[0]
      BY <2>4 DEF IsRecordPass
    <3>2. StayAlike(j, f, n)
      BY <3>1, <2>7 DEF StayAlike
    <3> QED
      BY <1>1, <3>2, AlikeFromStart
  <2> QED
    BY <1>1, <1>8, <2>6, <2>8 DEF i
<1> QED
  BY <1>7, <1>9

(* One result more moves the records by that result.                       *)
LEMMA RecordsGrow ==
  ASSUME NEW log \in Seq(GameResults), NEW r \in GameResults
  PROVE  /\ Records(log) \in Tables
         /\ Records(Append(log, r)) = Recorded(Records(log), r)
<1> DEFINE more == Append(log, r)
           n == Len(log)
<1>1. /\ n \in Nat /\ more \in Seq(GameResults) /\ Len(more) = n + 1
      /\ more[n + 1] = r /\ \A k \in 1..n : more[k] = log[k]
  OBVIOUS
<1>2. PICK g : IsRecordPass(g, more)
  <2> HIDE DEF more
  <2> QED
    BY <1>1, RecordsArePass
<1> HIDE DEF more
<1>3. Records(more) = g[n + 1]
  BY <1>1, <1>2, RecordsArePass
<1> DEFINE f == [k \in 0..n |-> g[k]]
<1>4. /\ \A k \in 0..n : k \in 0..(n + 1)
      /\ \A k \in 1..n : k \in 1..(n + 1) /\ k - 1 \in 0..n /\ k \in 0..n
      /\ n + 1 \in 1..(n + 1) /\ (n + 1) - 1 = n /\ n \in 0..n /\ 0 \in 0..n
  BY <1>1
<1>5. /\ g \in [0..(n + 1) -> Tables] /\ g[0] = EmptyTable
      /\ \A k \in 1..(n + 1) : g[k] = Recorded(g[k - 1], more[k])
  BY <1>1, <1>2 DEF IsRecordPass
<1>6. IsRecordPass(f, log)
  <2>1. f \in [0..n -> Tables] /\ f[0] = EmptyTable
    BY <1>4, <1>5
  <2>2. \A k \in 1..n : f[k] = Recorded(f[k - 1], log[k])
    BY <1>1, <1>4, <1>5
  <2> HIDE DEF f
  <2> QED
    BY <2>1, <2>2 DEF IsRecordPass
<1>7. Records(log) = f[n]
  <2> HIDE DEF f
  <2> QED
    BY <1>6, RecordsArePass
<1>8. Records(log) = g[n] /\ g[n] \in Tables
  BY <1>4, <1>5, <1>7
<1>9. g[n + 1] = Recorded(g[n], r)
  BY <1>1, <1>4, <1>5
<1> QED
  BY <1>3, <1>8, <1>9 DEF more

(* Whatever the log, the records are a table with a row for each           *)
(* participant.                                                            *)
LEMMA RecordsAreTable ==
  ASSUME NEW log \in Seq(GameResults)
  PROVE  Records(log) \in Tables
<1>1. PICK g : IsRecordPass(g, log)
  BY RecordsArePass
<1>2. Records(log) = g[Len(log)]
  BY <1>1, RecordsArePass
<1> QED
  BY <1>1, <1>2 DEF IsRecordPass

------------------------------------------------------------------------------
(* The second pass: the matches among those level on points, and the       *)
(* points of the beaten and of the drawn.                                  *)

ScoreRecords == [mini : Nat, sonnebornBerger : Nat]
ScoreTables == [Participants -> ScoreRecords]

(* What a result adds to the two tie-breaks of a participant.              *)
MiniGain(table, p, r) ==
  IF table[Opponent(p, r)].points = table[p].points THEN Gain(p, r) ELSE 0

BergerGain(table, p, r) ==
  IF Wins(p, r) THEN 2 * table[Opponent(p, r)].points
  ELSE IF Draws(p, r) THEN table[Opponent(p, r)].points ELSE 0

(* What a credit does to the two tie-breaks.                               *)
LEMMA Credited ==
  ASSUME NEW x \in ScoreRecords, NEW m \in Nat, NEW n \in Nat
  PROVE  /\ Credit(x, m, n) \in ScoreRecords
         /\ Credit(x, m, n).mini = x.mini + m
         /\ Credit(x, m, n).sonnebornBerger = x.sonnebornBerger + n
<1>1. \A a, b \in Nat : [x EXCEPT !.mini = a, !.sonnebornBerger = b] \in ScoreRecords
  BY DEF ScoreRecords
<1>2. x.mini + m \in Nat /\ x.sonnebornBerger + n \in Nat
  BY DEF ScoreRecords
<1>3. Credit(x, m, n) \in ScoreRecords
  <2> HIDE DEF ScoreRecords
  <2> QED
    BY <1>1, <1>2, Zenon DEF Credit
<1> QED
  BY <1>3 DEF ScoreRecords, Credit

(* One result moves the tie-breaks as the rules say, by the points that    *)
(* the whole first pass has given to the opponents.                        *)
LEMMA ScoredAsRules ==
  ASSUME NEW table \in Tables, NEW s \in ScoreTables, NEW r \in GameResults
  PROVE  /\ Scored(table, s, r) \in ScoreTables
         /\ \A p \in Participants :
              /\ Scored(table, s, r)[p].mini = s[p].mini + MiniGain(table, p, r)
              /\ Scored(table, s, r)[p].sonnebornBerger
                   = s[p].sonnebornBerger + BergerGain(table, p, r)
<1> DEFINE a == r.p1
           b == r.p2
           pa == table[a].points
           pb == table[b].points
           of(n) == IF pa = pb THEN n ELSE 0
<1>1. /\ a \in Participants /\ b \in Participants /\ a # b
      /\ r.winner \in {"p1", "p2", "tie"}
  BY DEF GameResults, Winners
<1>2. pa \in Nat /\ pb \in Nat /\ 2 * pa \in Nat /\ 2 * pb \in Nat
  <2>1. table[a] \in GameRecords /\ table[b] \in GameRecords
    BY <1>1 DEF Tables
  <2> QED
    BY <2>1 DEF GameRecords
<1>3. of(3) \in Nat /\ of(1) \in Nat /\ 0 \in Nat
  OBVIOUS
<1>4. \A q \in Participants : s[q] \in ScoreRecords /\ s[q].mini \in Nat /\ s[q].sonnebornBerger \in Nat
  BY DEF ScoreTables, ScoreRecords
<1>4a. \A q \in Participants, x, y \in Nat :
        /\ Credit(s[q], x, y) \in ScoreRecords
        /\ Credit(s[q], x, y).mini = s[q].mini + x
        /\ Credit(s[q], x, y).sonnebornBerger = s[q].sonnebornBerger + y
  BY <1>4, Credited
<1>5. \A p \in Participants :
        /\ p # a /\ p # b => MiniGain(table, p, r) = 0 /\ BergerGain(table, p, r) = 0
        /\ p = a => Opponent(p, r) = b
        /\ p = b => Opponent(p, r) = a
  BY <1>1 DEF MiniGain, BergerGain, Gain, Wins, Draws, Opponent
<1>6. CASE r.winner = "p1"
  <2>1. Scored(table, s, r) = [s EXCEPT ![a] = Credit(@, of(3), 2 * pb)]
    BY <1>6 DEF Scored
  <2>2. /\ MiniGain(table, a, r) = of(3) /\ BergerGain(table, a, r) = 2 * pb
        /\ MiniGain(table, b, r) = 0 /\ BergerGain(table, b, r) = 0
    BY <1>1, <1>5, <1>6 DEF MiniGain, BergerGain, Gain, Wins, Draws
  <2> HIDE DEF a, b, pa, pb, of
  <2>3. Scored(table, s, r) = [q \in Participants |-> IF q = a THEN Credit(s[q], of(3), 2 * pb)
                                                      ELSE s[q]]
    BY <2>1, <1>1 DEF ScoreTables
  <2>4. Scored(table, s, r) \in ScoreTables
    <3>1. \A q \in Participants : Scored(table, s, r)[q] \in ScoreRecords
      BY <2>3, <1>2, <1>3, <1>4, <1>4a
    <3> QED
      BY <2>3, <3>1 DEF ScoreTables
  <2> SUFFICES ASSUME NEW p \in Participants
               PROVE  /\ Scored(table, s, r)[p].mini = s[p].mini + MiniGain(table, p, r)
                      /\ Scored(table, s, r)[p].sonnebornBerger
                           = s[p].sonnebornBerger + BergerGain(table, p, r)
    BY <2>4
  <2>5. CASE p = a
    <3>1. Scored(table, s, r)[a] = Credit(s[a], of(3), 2 * pb)
      BY <2>3, <1>1
    <3>2. /\ Credit(s[a], of(3), 2 * pb).mini = s[a].mini + of(3)
          /\ Credit(s[a], of(3), 2 * pb).sonnebornBerger = s[a].sonnebornBerger + 2 * pb
      BY <1>1, <1>2, <1>3, <1>4a
    <3> QED
      BY <2>2, <2>5, <3>1, <3>2
  <2>6. CASE p = b
    BY <2>2, <2>3, <2>6, <1>1, <1>4
  <2>7. CASE p # a /\ p # b
    BY <2>3, <2>7, <1>4, <1>5
  <2> QED
    BY <2>5, <2>6, <2>7
<1>7. CASE r.winner = "p2"
  <2>1. Scored(table, s, r) = [s EXCEPT ![b] = Credit(@, of(3), 2 * pa)]
    BY <1>7 DEF Scored
  <2>2. /\ MiniGain(table, b, r) = of(3) /\ BergerGain(table, b, r) = 2 * pa
        /\ MiniGain(table, a, r) = 0 /\ BergerGain(table, a, r) = 0
    BY <1>1, <1>5, <1>7 DEF MiniGain, BergerGain, Gain, Wins, Draws
  <2> HIDE DEF a, b, pa, pb, of
  <2>3. Scored(table, s, r) = [q \in Participants |-> IF q = b THEN Credit(s[q], of(3), 2 * pa)
                                                      ELSE s[q]]
    BY <2>1, <1>1 DEF ScoreTables
  <2>4. Scored(table, s, r) \in ScoreTables
    <3>1. \A q \in Participants : Scored(table, s, r)[q] \in ScoreRecords
      BY <2>3, <1>2, <1>3, <1>4, <1>4a
    <3> QED
      BY <2>3, <3>1 DEF ScoreTables
  <2> SUFFICES ASSUME NEW p \in Participants
               PROVE  /\ Scored(table, s, r)[p].mini = s[p].mini + MiniGain(table, p, r)
                      /\ Scored(table, s, r)[p].sonnebornBerger
                           = s[p].sonnebornBerger + BergerGain(table, p, r)
    BY <2>4
  <2>5. CASE p = a
    BY <2>2, <2>3, <2>5, <1>1, <1>4
  <2>6. CASE p = b
    <3>1. Scored(table, s, r)[b] = Credit(s[b], of(3), 2 * pa)
      BY <2>3, <1>1
    <3>2. /\ Credit(s[b], of(3), 2 * pa).mini = s[b].mini + of(3)
          /\ Credit(s[b], of(3), 2 * pa).sonnebornBerger = s[b].sonnebornBerger + 2 * pa
      BY <1>1, <1>2, <1>3, <1>4a
    <3> QED
      BY <2>2, <2>6, <3>1, <3>2
  <2>7. CASE p # a /\ p # b
    BY <2>3, <2>7, <1>4, <1>5
  <2> QED
    BY <2>5, <2>6, <2>7
<1>8. CASE r.winner = "tie"
  <2>1. Scored(table, s, r) = [s EXCEPT ![a] = Credit(@, of(1), pb), ![b] = Credit(@, of(1), pa)]
    BY <1>8 DEF Scored
  <2>2. /\ MiniGain(table, a, r) = of(1) /\ BergerGain(table, a, r) = pb
        /\ MiniGain(table, b, r) = of(1) /\ BergerGain(table, b, r) = pa
    BY <1>1, <1>5, <1>8 DEF MiniGain, BergerGain, Gain, Wins, Draws
  <2> HIDE DEF a, b, pa, pb, of
  <2>3. Scored(table, s, r) = [q \in Participants |-> IF q = a THEN Credit(s[q], of(1), pb)
                                                      ELSE IF q = b THEN Credit(s[q], of(1), pa)
                                                      ELSE s[q]]
    BY <2>1, <1>1 DEF ScoreTables
  <2>4. Scored(table, s, r) \in ScoreTables
    <3>1. \A q \in Participants : Scored(table, s, r)[q] \in ScoreRecords
      BY <2>3, <1>2, <1>3, <1>4, <1>4a
    <3> QED
      BY <2>3, <3>1 DEF ScoreTables
  <2> SUFFICES ASSUME NEW p \in Participants
               PROVE  /\ Scored(table, s, r)[p].mini = s[p].mini + MiniGain(table, p, r)
                      /\ Scored(table, s, r)[p].sonnebornBerger
                           = s[p].sonnebornBerger + BergerGain(table, p, r)
    BY <2>4
  <2>5. CASE p = a
    <3>1. Scored(table, s, r)[a] = Credit(s[a], of(1), pb)
      BY <2>3, <1>1
    <3>2. /\ Credit(s[a], of(1), pb).mini = s[a].mini + of(1)
          /\ Credit(s[a], of(1), pb).sonnebornBerger = s[a].sonnebornBerger + pb
      BY <1>1, <1>2, <1>3, <1>4a
    <3> QED
      BY <2>2, <2>5, <3>1, <3>2
  <2>6. CASE p = b
    <3>1. Scored(table, s, r)[b] = Credit(s[b], of(1), pa)
      BY <2>3, <1>1
    <3>2. /\ Credit(s[b], of(1), pa).mini = s[b].mini + of(1)
          /\ Credit(s[b], of(1), pa).sonnebornBerger = s[b].sonnebornBerger + pa
      BY <1>1, <1>2, <1>3, <1>4a
    <3> QED
      BY <2>2, <2>6, <3>1, <3>2
  <2>7. CASE p # a /\ p # b
    BY <2>3, <2>7, <1>4, <1>5
  <2> QED
    BY <2>5, <2>6, <2>7
<1> QED
  BY <1>1, <1>6, <1>7, <1>8

IsScorePass(g, table, log) ==
  /\ g \in [0..Len(log) -> ScoreTables] /\ g[0] = NoScores
  /\ \A k \in 1..Len(log) : g[k] = Scored(table, g[k - 1], log[k])

(* The scores are the last value of a second pass.                         *)
LEMMA ScoresArePass ==
  ASSUME NEW log \in Seq(GameResults)
  PROVE  \E g : IsScorePass(g, Records(log), log) /\ Scores(log) = g[Len(log)]
<1> DEFINE n == Len(log)
           D == 1..n
           table == Records(log)
           step == [r \in GameResults |-> [s \in ScoreTables |-> Scored(table, s, r)]]
           Iter(h) == h = [T \in SUBSET D |-> IF T = {} THEN NoScores
                             ELSE Scored(table, h[T \ {Max(T)}], log[Max(T)])]
<1>1. n \in Nat /\ DOMAIN log = D /\ \A k \in D : log[k] \in GameResults
  OBVIOUS
<1>2. NoScores \in ScoreTables
  BY DEF NoScores, ScoreTables, NoScore, ScoreRecords
<1>3. table \in Tables
  BY RecordsAreTable
<1>4. Scores(log) = (CHOOSE f : Iter(f))[D]
  BY <1>1 DEF Scores, FoldLeft, MapThenFoldSet
<1> HIDE DEF table
<1>5. PICK h \in [SUBSET D -> ScoreTables] : IterOf(h, NoScores, step, log)
  <2>1. step \in [GameResults -> [ScoreTables -> ScoreTables]]
    BY <1>3, ScoredAsRules
  <2> HIDE DEF step
  <2> QED
    BY <1>2, <2>1, PassIsDefined
<1>6. \A T \in SUBSET D : h[T] = IF T = {} THEN NoScores
                                 ELSE Scored(table, h[T \ {Max(T)}], log[Max(T)])
  <2> SUFFICES ASSUME NEW T \in SUBSET D, T # {}
               PROVE  h[T] = Scored(table, h[T \ {Max(T)}], log[Max(T)])
    BY <1>5 DEF IterOf
  <2>1. h[T] = step[log[Max(T)]][h[T \ {Max(T)}]]
    BY <1>5 DEF IterOf
  <2>2. Max(T) \in T
    BY <1>1, LastPosition
  <2>3. log[Max(T)] \in GameResults /\ h[T \ {Max(T)}] \in ScoreTables
    BY <2>2, <1>1, <1>5
  <2> QED
    BY <2>1, <2>3
<1>7. Iter(h)
  BY <1>5, <1>6
<1>8. \A k \in 1..n : /\ Max(1..k) = k /\ (1..k) \ {k} = 1..(k - 1)
                      /\ 1..k # {} /\ 1..k \in SUBSET D
  BY <1>1, LastOfPrefix
<1> DEFINE i == CHOOSE e : Iter(e)
           g == [k \in 0..n |-> h[1..k]]
           j == [k \in 0..n |-> i[1..k]]
<1>4a. Iter(i)
  BY <1>7
<1> HIDE DEF i
<1>10. \A T \in SUBSET D : i[T] = IF T = {} THEN NoScores
                                  ELSE Scored(table, i[T \ {Max(T)}], log[Max(T)])
  BY <1>4a
<1>11. {} \in SUBSET D /\ 1..0 = {} /\ 0 \in 0..n /\ \A k \in 1..n : k - 1 \in 0..n /\ k \in 0..n
  BY <1>1
<1>12. h[{}] = NoScores /\ i[{}] = NoScores
  BY <1>6, <1>10, <1>11
<1>13. g[0] = NoScores /\ j[0] = NoScores
  BY <1>11, <1>12
<1>14. \A k \in 1..n : /\ h[1..k] = Scored(table, h[1..(k - 1)], log[k])
                       /\ i[1..k] = Scored(table, i[1..(k - 1)], log[k])
  BY <1>6, <1>8, <1>10
<1>15. \A k \in 1..n : /\ g[k] = Scored(table, g[k - 1], log[k])
                       /\ j[k] = Scored(table, j[k - 1], log[k])
  BY <1>11, <1>14
<1>16. g \in [0..n -> ScoreTables]
  <2>1. \A k \in 0..n : 1..k \in SUBSET D
    BY <1>1
  <2> QED
    BY <1>5, <2>1
<1>17. j[n] = i[D]
  BY <1>1
<1> HIDE DEF g, j
<1>18. StayAlike(j, g, n)
  BY <1>13, <1>15 DEF StayAlike
<1>19. j[n] = g[n]
  <2>1. n \in 0..n
    BY <1>1
  <2> QED
    BY <1>1, <1>18, <2>1, AlikeFromStart
<1>20. IsScorePass(g, table, log)
  BY <1>13, <1>15, <1>16 DEF IsScorePass
<1>21. Scores(log) = g[n]
  BY <1>4, <1>17, <1>19 DEF i
<1> QED
  BY <1>20, <1>21 DEF table

------------------------------------------------------------------------------
(* The standings, read off the set of the results.                         *)

Upto(log, k) == {log[i] : i \in 1..k}

WinsOf(p) == {r \in GameResults : Wins(p, r)}
DrawsOf(p) == {r \in GameResults : Draws(p, r)}
LevelFor(table, p) == {r \in GameResults : table[Opponent(p, r)].points = table[p].points}

(* A result more is one that was not there.                                *)
LEMMA OneResultMore ==
  ASSUME NEW log \in Seq(GameResults), PlayedOnce(log), NEW k \in 1..Len(log)
  PROVE  /\ log[k] \in GameResults /\ log[k] \notin Upto(log, k - 1)
         /\ Upto(log, k) = Upto(log, k - 1) \cup {log[k]}
<1>1. Len(log) \in Nat /\ log[k] \in GameResults
  OBVIOUS
<1>2. \A i \in 1..(k - 1) : i \in 1..Len(log) /\ i # k
  BY <1>1
<1>3. log[k] \notin Upto(log, k - 1)
  <2> SUFFICES ASSUME NEW i \in 1..(k - 1), log[i] = log[k] PROVE FALSE
    BY DEF Upto
  <2> QED
    BY <1>2 DEF PlayedOnce
<1>4. 1..k = (1..(k - 1)) \cup {k}
  BY <1>1
<1> QED
  BY <1>1, <1>3, <1>4 DEF Upto

(* There are finitely many results at any moment.                          *)
LEMMA ResultsAreFinite ==
  ASSUME NEW log \in Seq(GameResults), NEW k \in 0..Len(log)
  PROVE  Upto(log, k) \in SUBSET GameResults /\ IsFiniteSet(Upto(log, k))
<1>1. Len(log) \in Nat /\ k \in Nat /\ \A i \in 1..k : i \in 1..Len(log)
  OBVIOUS
<1>2. Upto(log, k) \in SUBSET GameResults
  BY <1>1 DEF Upto
<1> DEFINE f == [i \in 1..k |-> log[i]]
<1>3. f \in Surjection(1..k, Upto(log, k))
  BY DEF Surjection, Upto
<1>4. IsFiniteSet(1..k)
  BY <1>1, FS_Interval
<1> QED
  BY <1>2, <1>3, <1>4, FS_Surjection

(* What one element more does to a part of a set.                          *)
LEMMA PartGrows ==
  ASSUME NEW S, IsFiniteSet(S), NEW x, x \notin S, NEW P
  PROVE  /\ Cardinality((S \cup {x}) \cap P)
              = Cardinality(S \cap P) + (IF x \in P THEN 1 ELSE 0)
         /\ Cardinality(S \cap P) \in Nat
<1>1. IsFiniteSet(S \cap P) /\ Cardinality(S \cap P) \in Nat
  BY FS_Subset, FS_CardinalityType
<1>2. CASE x \in P
  <2>1. (S \cup {x}) \cap P = (S \cap P) \cup {x} /\ x \notin S \cap P
    BY <1>2
  <2>2. Cardinality((S \cap P) \cup {x}) = Cardinality(S \cap P) + 1
    BY <1>1, <2>1, FS_AddElement
  <2> QED
    BY <1>1, <1>2, <2>1, <2>2
<1>3. CASE x \notin P
  <2>1. (S \cup {x}) \cap P = S \cap P
    BY <1>3
  <2>2. Cardinality((S \cup {x}) \cap P) = Cardinality(S \cap P)
    BY <2>1
  <2>3. Cardinality(S \cap P) + 0 = Cardinality(S \cap P)
    BY <1>1
  <2> QED
    BY <1>1, <1>3, <2>2, <2>3
<1> QED
  BY <1>2, <1>3

(* No result is both won and drawn by the same participant.                *)
LEMMA WonOrDrawn == \A p : WinsOf(p) \cap DrawsOf(p) = {}
BY DEF WinsOf, DrawsOf, Wins, Draws

(* The first pass counts each win three times and each draw once.          *)
LEMMA PointsOfPass ==
  ASSUME NEW log \in Seq(GameResults), PlayedOnce(log), NEW g, IsRecordPass(g, log),
         NEW p \in Participants, NEW k \in 0..Len(log)
  PROVE  LET S == Upto(log, k)
         IN  /\ g[k][p].points = 3 * Cardinality(S \cap WinsOf(p)) + Cardinality(S \cap DrawsOf(p))
             /\ g[k][p].wins = Cardinality(S \cap WinsOf(p))
<1> DEFINE n == Len(log)
           W(i) == Cardinality(Upto(log, i) \cap WinsOf(p))
           E(i) == Cardinality(Upto(log, i) \cap DrawsOf(p))
           f1 == [i \in 0..n |-> g[i][p].points]
           f2 == [i \in 0..n |-> g[i][p].wins]
           h1 == [i \in 0..n |-> 3 * W(i) + E(i)]
           h2 == [i \in 0..n |-> W(i)]
<1>1. /\ n \in Nat /\ 0 \in 0..n
      /\ \A i \in 1..n : i \in 0..n /\ i - 1 \in 0..n
  OBVIOUS
<1>2. /\ g[0] = EmptyTable /\ \A i \in 0..n : g[i] \in Tables
      /\ \A i \in 1..n : g[i] = Recorded(g[i - 1], log[i])
  BY DEF IsRecordPass
<1>3. W(0) = 0 /\ E(0) = 0
  <2>1. Upto(log, 0) = {}
    BY DEF Upto
  <2> QED
    BY <2>1, FS_EmptySet
<1>4. g[0][p].points = 0 /\ g[0][p].wins = 0
  BY <1>2 DEF EmptyTable, NoGames
<1>5. \A i \in 1..n : /\ W(i) = W(i - 1) + (IF log[i] \in WinsOf(p) THEN 1 ELSE 0)
                      /\ E(i) = E(i - 1) + (IF log[i] \in DrawsOf(p) THEN 1 ELSE 0)
                      /\ W(i - 1) \in Nat /\ E(i - 1) \in Nat
  <2> TAKE i \in 1..n
  <2>1. /\ log[i] \notin Upto(log, i - 1) /\ Upto(log, i) = Upto(log, i - 1) \cup {log[i]}
        /\ IsFiniteSet(Upto(log, i - 1))
    BY <1>1, OneResultMore, ResultsAreFinite
  <2> QED
    BY <2>1, PartGrows
<1>6. \A i \in 1..n : /\ g[i][p].points = g[i - 1][p].points + Gain(p, log[i])
                      /\ g[i][p].wins = g[i - 1][p].wins + (IF Wins(p, log[i]) THEN 1 ELSE 0)
  <2> TAKE i \in 1..n
  <2>1. g[i - 1] \in Tables /\ log[i] \in GameResults
    BY <1>1, <1>2
  <2> QED
    BY SMTT(30), <1>2, <2>1, RecordedAsRules
<1>7. \A i \in 1..n : /\ log[i] \in GameResults
                      /\ log[i] \in WinsOf(p) <=> Wins(p, log[i])
                      /\ log[i] \in DrawsOf(p) <=> Draws(p, log[i])
                      /\ Gain(p, log[i]) = IF log[i] \in WinsOf(p) THEN 3
                                           ELSE IF log[i] \in DrawsOf(p) THEN 1 ELSE 0
                      /\ ~(log[i] \in WinsOf(p) /\ log[i] \in DrawsOf(p))
  BY WonOrDrawn DEF WinsOf, DrawsOf, Gain
<1> HIDE DEF W, E
<1>8. StayAlike(f1, h1, n)
  <2>1. f1[0] = h1[0]
    BY <1>1, <1>3, <1>4
  <2>2. ASSUME NEW i \in 1..n, f1[i - 1] = h1[i - 1] PROVE f1[i] = h1[i]
    <3>1. /\ f1[i] = g[i][p].points /\ f1[i - 1] = g[i - 1][p].points
          /\ h1[i] = 3 * W(i) + E(i) /\ h1[i - 1] = 3 * W(i - 1) + E(i - 1)
      BY <1>1
    <3> HIDE DEF f1, h1
    <3> DEFINE w == W(i - 1)
               e == E(i - 1)
               v == log[i] \in WinsOf(p)
               d == log[i] \in DrawsOf(p)
    <3>2. /\ w \in Nat /\ e \in Nat /\ ~(v /\ d)
          /\ W(i) = w + (IF v THEN 1 ELSE 0) /\ E(i) = e + (IF d THEN 1 ELSE 0)
      BY <1>5, <1>7
    <3>3. f1[i] = f1[i - 1] + (IF v THEN 3 ELSE IF d THEN 1 ELSE 0)
      BY <3>1, <1>6, <1>7
    <3> DEFINE x == IF v THEN 1 ELSE 0
               y == IF d THEN 1 ELSE 0
    <3>4. /\ x \in Nat /\ y \in Nat /\ W(i) = w + x /\ E(i) = e + y
          /\ f1[i] = f1[i - 1] + (3 * x + y)
      BY <3>2, <3>3
    <3>5. f1[i - 1] = 3 * w + e
      BY <2>2, <3>1
    <3> HIDE DEF w, e, v, d, x, y
    <3>6. 3 * (w + x) + (e + y) = (3 * w + e) + (3 * x + y)
      BY <3>2, <3>4
    <3> QED
      BY ONLY <3>1, <3>4, <3>5, <3>6
  <2> HIDE DEF f1, h1
  <2> QED
    BY <2>1, <2>2 DEF StayAlike
<1>9. StayAlike(f2, h2, n)
  <2>1. f2[0] = h2[0]
    BY <1>1, <1>3, <1>4
  <2>2. ASSUME NEW i \in 1..n, f2[i - 1] = h2[i - 1] PROVE f2[i] = h2[i]
    <3>1. /\ f2[i] = g[i][p].wins /\ f2[i - 1] = g[i - 1][p].wins
          /\ h2[i] = W(i) /\ h2[i - 1] = W(i - 1)
      BY <1>1
    <3> HIDE DEF f2, h2
    <3> DEFINE w == W(i - 1)
               e == E(i - 1)
               v == log[i] \in WinsOf(p)
               d == log[i] \in DrawsOf(p)
    <3>2. /\ w \in Nat /\ e \in Nat /\ ~(v /\ d)
          /\ W(i) = w + (IF v THEN 1 ELSE 0) /\ E(i) = e + (IF d THEN 1 ELSE 0)
      BY <1>5, <1>7
    <3>3. f2[i] = f2[i - 1] + (IF v THEN 1 ELSE 0)
      BY <3>1, <1>6, <1>7
    <3> HIDE DEF w, e, v, d
    <3> QED
      BY ONLY <2>2, <3>1, <3>2, <3>3 DEF w, e
  <2> HIDE DEF f2, h2
  <2> QED
    BY <2>1, <2>2 DEF StayAlike
<1>10. f1[k] = h1[k] /\ f2[k] = h2[k]
  <2> HIDE DEF f1, f2, h1, h2
  <2> QED
    BY <1>1, <1>8, <1>9, AlikeFromStart
<1> QED
  BY <1>10 DEF W, E

(* A sum over a finite set, taken one chosen element after the other: any  *)
(* element may be taken out first.                                         *)
Chosen(S) == CHOOSE x \in S : TRUE

IsSum(h, T, w) ==
  /\ h \in [SUBSET T -> Int]
  /\ \A S \in SUBSET T : h[S] = IF S = {} THEN 0 ELSE w[Chosen(S)] + h[S \ {Chosen(S)}]

LEMMA AnyElementFirst ==
  ASSUME NEW T, IsFiniteSet(T), NEW w \in [T -> Int], NEW h, IsSum(h, T, w),
         NEW S \in SUBSET T, NEW x \in S
  PROVE  h[S] = w[x] + h[S \ {x}]
<1> DEFINE Wrong(R) == \E y \in R : h[R] # w[y] + h[R \ {y}]
           Bad == {n \in Nat : \E R \in SUBSET T : Cardinality(R) = n /\ Wrong(R)}
<1>1. \A R \in SUBSET T : IsFiniteSet(R) /\ Cardinality(R) \in Nat
  BY FS_Subset, FS_CardinalityType
<1>2. \A R \in SUBSET T : \A y \in R : /\ R \ {y} \in SUBSET T
                                       /\ Cardinality(R \ {y}) = Cardinality(R) - 1
  BY <1>1, FS_RemoveElement
<1>3. \A R \in SUBSET T : h[R] \in Int
  BY DEF IsSum
<1>4. Bad = {}
  <2> SUFFICES ASSUME Bad # {} PROVE FALSE
    OBVIOUS
  <2>1. PICK n \in Bad : \A m \in Bad : n <= m
    BY LeastNumber, Bad \subseteq Nat
  <2>2. PICK R \in SUBSET T : Cardinality(R) = n /\ Wrong(R)
    BY <2>1
  <2>3. PICK y \in R : h[R] # w[y] + h[R \ {y}]
    BY <2>2
  <2> DEFINE z == Chosen(R)
  <2>4. z \in R /\ h[R] = w[z] + h[R \ {z}]
    BY <2>3 DEF Chosen, IsSum
  <2> HIDE DEF z
  <2>5. y # z
    BY <2>3, <2>4
  <2>6. \A Q \in SUBSET T : Cardinality(Q) = n - 1 => ~Wrong(Q)
    <3> SUFFICES ASSUME NEW Q \in SUBSET T, Cardinality(Q) = n - 1, Wrong(Q) PROVE FALSE
      OBVIOUS
    <3>1. n - 1 \in Bad
      BY <1>1
    <3>2. n \in Nat /\ ~(n <= n - 1)
      BY <2>1
    <3> HIDE DEF Bad
    <3> QED
      BY <2>1, <3>1, <3>2
  <2>7. ~Wrong(R \ {y}) /\ ~Wrong(R \ {z})
    <3> HIDE DEF Wrong
    <3> QED
      BY <1>2, <2>2, <2>3, <2>4, <2>6
  <2>8. /\ h[R \ {y}] = w[z] + h[(R \ {y}) \ {z}]
        /\ h[R \ {z}] = w[y] + h[(R \ {z}) \ {y}]
    BY <2>3, <2>4, <2>5, <2>7
  <2>9. (R \ {y}) \ {z} = (R \ {z}) \ {y}
    OBVIOUS
  <2> DEFINE c == h[(R \ {y}) \ {z}]
  <2>10. w[y] \in Int /\ w[z] \in Int /\ c \in Int
    BY <1>3, <2>3, <2>4
  <2>11. /\ h[R \ {y}] = w[z] + c /\ h[R \ {z}] = w[y] + c
    BY <2>8, <2>9
  <2> HIDE DEF c
  <2> QED
    BY <2>3, <2>4, <2>10, <2>11
<1>5. ~Wrong(S)
  <2>1. Cardinality(S) \in Nat /\ Cardinality(S) \notin Bad
    <3> HIDE DEF Bad
    <3> QED
      BY <1>1, <1>4
  <2> HIDE DEF Wrong
  <2> QED
    BY <2>1
<1> QED
  BY <1>5

(* The sums of the Sonneborn-Berger score are such sums.                   *)
PointsAgainst(p, T) == [r \in T |-> PointsOf(Opponent(p, r))]

LEMMA SumIsDefined ==
  ASSUME NEW T \in SUBSET GameResults, IsFiniteSet(T), NEW p \in Participants,
         \A q \in Participants : PointsOf(q) \in Int
  PROVE  /\ PointsAgainst(p, T) \in [T -> Int]
         /\ \E h : /\ IsSum(h, T, PointsAgainst(p, T))
                   /\ MapThenSumSet(LAMBDA r : PointsOf(Opponent(p, r)), T) = h[T]
<1> DEFINE w == PointsAgainst(p, T)
           Iter(e) == e = [S \in SUBSET T |-> IF S = {} THEN 0
                             ELSE PointsOf(Opponent(p, CHOOSE x \in S : TRUE))
                                    + e[S \ {CHOOSE x \in S : TRUE}]]
           choose == [S \in SUBSET T |-> Chosen(S)]
           step == [x \in T |-> [v \in Int |-> w[x] + v]]
<1>1. MapThenSumSet(LAMBDA r : PointsOf(Opponent(p, r)), T) = (CHOOSE e : Iter(e))[T]
  BY DEF MapThenSumSet, MapThenFoldSet
<1>2. \A r \in T : Opponent(p, r) \in Participants
  BY DEF Opponent, GameResults
<1>3. w \in [T -> Int] /\ \A x \in T : w[x] = PointsOf(Opponent(p, x))
  BY <1>2 DEF PointsAgainst
<1> HIDE DEF w
<1>4. \A S \in SUBSET T : S # {} => Chosen(S) \in S /\ Chosen(S) \in T
  BY DEF Chosen
<1>5. PICK h \in [SUBSET T -> Int] : IsFold(h, T, 0, choose, step)
  <2>1. Chooses(choose, T)
    BY <1>4 DEF Chooses
  <2>2. Steps(step, T, Int)
    BY <1>3 DEF Steps
  <2> HIDE DEF choose, step
  <2> QED
    BY <2>1, <2>2, FoldIsDefined, 0 \in Int
<1>6. \A S \in SUBSET T : h[S] = IF S = {} THEN 0 ELSE w[Chosen(S)] + h[S \ {Chosen(S)}]
  <2> SUFFICES ASSUME NEW S \in SUBSET T, S # {}
               PROVE  h[S] = w[Chosen(S)] + h[S \ {Chosen(S)}]
    BY <1>5 DEF IsFold
  <2>1. h[S] = step[choose[S]][h[S \ {choose[S]}]]
    BY <1>5 DEF IsFold
  <2>2. choose[S] = Chosen(S) /\ Chosen(S) \in T /\ h[S \ {Chosen(S)}] \in Int
    BY <1>4, <1>5
  <2> HIDE DEF choose
  <2> QED
    BY <2>1, <2>2
<1>7. Iter(h)
  <2>1. \A S \in SUBSET T : S # {} =>
          h[S] = PointsOf(Opponent(p, Chosen(S))) + h[S \ {Chosen(S)}]
    BY <1>3, <1>4, <1>6
  <2>2. \A S \in SUBSET T : S = {} => h[S] = 0
    BY <1>6
  <2> QED
    BY <1>5, <2>1, <2>2 DEF Chosen
<1> DEFINE i == CHOOSE e : Iter(e)
<1>8. Iter(i)
  BY <1>7
<1> HIDE DEF i
<1>9. \A S \in SUBSET T : i[S] = IF S = {} THEN 0 ELSE w[Chosen(S)] + i[S \ {Chosen(S)}]
  <2> SUFFICES ASSUME NEW S \in SUBSET T
               PROVE  i[S] = IF S = {} THEN 0 ELSE w[Chosen(S)] + i[S \ {Chosen(S)}]
    OBVIOUS
  <2>1. i[S] = IF S = {} THEN 0 ELSE PointsOf(Opponent(p, Chosen(S))) + i[S \ {Chosen(S)}]
    BY <1>8 DEF Chosen
  <2> QED
    BY <2>1, <1>3, <1>4
<1> DEFINE Bad == {n \in Nat : \E S \in SUBSET T : Cardinality(S) = n /\ i[S] # h[S]}
<1>10. Bad = {}
  <2> SUFFICES ASSUME Bad # {} PROVE FALSE
    OBVIOUS
  <2>1. PICK n \in Bad : \A m \in Bad : n <= m
    BY LeastNumber, Bad \subseteq Nat
  <2>2. PICK S \in SUBSET T : Cardinality(S) = n /\ i[S] # h[S]
    BY <2>1
  <2>3. S # {}
    BY <1>6, <1>9, <2>2
  <2>4. /\ S \ {Chosen(S)} \in SUBSET T /\ Cardinality(S \ {Chosen(S)}) = n - 1 /\ n - 1 \in Nat
    <3>1. IsFiniteSet(S) /\ Cardinality(S) # 0
      BY <2>3, FS_Subset, FS_EmptySet
    <3>2. n \in Nat /\ n # 0
      BY <2>1, <2>2, <3>1
    <3>3. Chosen(S) \in S /\ S \ {Chosen(S)} \in SUBSET T
      BY <1>4, <2>3
    <3>4. Cardinality(S \ {Chosen(S)}) = n - 1
      BY ZenonT(30), <2>2, <3>1, <3>3, FS_RemoveElement
    <3> QED
      BY <3>2, <3>3, <3>4
  <2>5. i[S \ {Chosen(S)}] # h[S \ {Chosen(S)}]
    BY <1>6, <1>9, <2>2, <2>3
  <2>6. n - 1 \in Bad
    BY <2>4, <2>5
  <2>7. n \in Nat /\ ~(n <= n - 1)
    BY <2>1
  <2> HIDE DEF Bad
  <2> QED
    BY <2>1, <2>6, <2>7
<1>11. i[T] = h[T]
  <2>1. Cardinality(T) \in Nat /\ Cardinality(T) \notin Bad
    <3> HIDE DEF Bad
    <3> QED
      BY <1>10, FS_CardinalityType
  <2> QED
    BY <2>1
<1>12. IsSum(h, T, w)
  BY <1>5, <1>6 DEF IsSum
<1> QED
  BY <1>1, <1>3, <1>11, <1>12 DEF w, i

(* The second pass counts the matches among those level on points, and     *)
(* adds up the points of the beaten twice and of the drawn once.           *)
SumsFor(h, c, table, log, p) ==
  LET won    == Upto(log, Len(log)) \cap WinsOf(p)
      drawn  == Upto(log, Len(log)) \cap DrawsOf(p)
      of(S)  == [r \in S |-> table[Opponent(p, r)].points]
  IN  IsSum(h, won, of(won)) /\ IsSum(c, drawn, of(drawn))

ScoresAre(g, h, c, table, log, p, k) ==
  LET S == Upto(log, k)
      L == LevelFor(table, p)
  IN  /\ g[k][p].mini = 3 * Cardinality(S \cap (WinsOf(p) \cap L))
                          + Cardinality(S \cap (DrawsOf(p) \cap L))
      /\ g[k][p].sonnebornBerger = 2 * h[S \cap WinsOf(p)] + c[S \cap DrawsOf(p)]

LEMMA ScoresOfPass ==
  ASSUME NEW log \in Seq(GameResults), PlayedOnce(log), NEW table \in Tables,
         NEW g, IsScorePass(g, table, log),
         NEW p \in Participants,
         NEW h, NEW c, SumsFor(h, c, table, log, p),
         NEW k \in 0..Len(log)
  PROVE  ScoresAre(g, h, c, table, log, p, k)
<1> DEFINE n == Len(log)
           L == LevelFor(table, p)
           V == Upto(log, n) \cap WinsOf(p)
           Y == Upto(log, n) \cap DrawsOf(p)
           w == [r \in V |-> table[Opponent(p, r)].points]
           u == [r \in Y |-> table[Opponent(p, r)].points]
           WL(i) == Cardinality(Upto(log, i) \cap (WinsOf(p) \cap L))
           EL(i) == Cardinality(Upto(log, i) \cap (DrawsOf(p) \cap L))
           H(i) == h[Upto(log, i) \cap WinsOf(p)]
           C(i) == c[Upto(log, i) \cap DrawsOf(p)]
           f1 == [i \in 0..n |-> g[i][p].mini]
           f2 == [i \in 0..n |-> g[i][p].sonnebornBerger]
           h1 == [i \in 0..n |-> 3 * WL(i) + EL(i)]
           h2 == [i \in 0..n |-> 2 * H(i) + C(i)]
<1>0. IsSum(h, V, w) /\ IsSum(c, Y, u)
  BY DEF SumsFor
<1>1. /\ n \in Nat /\ 0 \in 0..n /\ n \in 0..n
      /\ \A i \in 1..n : i \in 0..n /\ i - 1 \in 0..n
  OBVIOUS
<1>2. /\ g[0] = NoScores /\ \A i \in 0..n : g[i] \in ScoreTables
      /\ \A i \in 1..n : g[i] = Scored(table, g[i - 1], log[i])
  BY DEF IsScorePass
<1>3. WL(0) = 0 /\ EL(0) = 0 /\ H(0) = 0 /\ C(0) = 0
  <2>1. Upto(log, 0) = {}
    BY DEF Upto
  <2>2. {} \in SUBSET V /\ {} \in SUBSET Y
    OBVIOUS
  <2>3. h[{}] = 0 /\ c[{}] = 0
    BY <2>2, <1>0 DEF IsSum
  <2>4. \A P : {} \cap P = {}
    OBVIOUS
  <2> QED
    BY <2>1, <2>3, <2>4, FS_EmptySet
<1>4. g[0][p].mini = 0 /\ g[0][p].sonnebornBerger = 0
  BY <1>2 DEF NoScores, NoScore
<1>5. \A i \in 1..n : /\ log[i] \in GameResults /\ log[i] \notin Upto(log, i - 1)
                      /\ Upto(log, i) = Upto(log, i - 1) \cup {log[i]}
                      /\ IsFiniteSet(Upto(log, i - 1)) /\ Upto(log, i) \subseteq Upto(log, n)
                      /\ log[i] \in Upto(log, i)
  <2> TAKE i \in 1..n
  <2>1. /\ log[i] \in GameResults /\ log[i] \notin Upto(log, i - 1)
        /\ Upto(log, i) = Upto(log, i - 1) \cup {log[i]}
        /\ IsFiniteSet(Upto(log, i - 1))
    BY <1>1, OneResultMore, ResultsAreFinite
  <2>2. 1..i \subseteq 1..n
    BY <1>1
  <2> QED
    BY <2>1, <2>2 DEF Upto
<1>6. \A i \in 1..n :
        /\ WL(i) = WL(i - 1) + (IF log[i] \in WinsOf(p) \cap L THEN 1 ELSE 0)
        /\ EL(i) = EL(i - 1) + (IF log[i] \in DrawsOf(p) \cap L THEN 1 ELSE 0)
        /\ WL(i - 1) \in Nat /\ EL(i - 1) \in Nat
  <2> TAKE i \in 1..n
  <2> DEFINE S == Upto(log, i - 1)
             x == log[i]
             P == WinsOf(p) \cap L
             Q == DrawsOf(p) \cap L
  <2>1. IsFiniteSet(S) /\ x \notin S /\ Upto(log, i) = S \cup {x}
    BY <1>5
  <2>2. /\ Cardinality((S \cup {x}) \cap P) = Cardinality(S \cap P) + (IF x \in P THEN 1 ELSE 0)
        /\ Cardinality((S \cup {x}) \cap Q) = Cardinality(S \cap Q) + (IF x \in Q THEN 1 ELSE 0)
        /\ Cardinality(S \cap P) \in Nat /\ Cardinality(S \cap Q) \in Nat
    <3> HIDE DEF S, x, P, Q
    <3> QED
      BY SMTT(30), <2>1, PartGrows
  <2> HIDE DEF x
  <2> QED
    BY <2>1, <2>2 DEF x
<1>7. \A i \in 1..n :
        /\ g[i][p].mini = g[i - 1][p].mini + MiniGain(table, p, log[i])
        /\ g[i][p].sonnebornBerger = g[i - 1][p].sonnebornBerger + BergerGain(table, p, log[i])
  <2> TAKE i \in 1..n
  <2>1. g[i - 1] \in ScoreTables /\ log[i] \in GameResults
    BY <1>1, <1>2
  <2> QED
    BY SMTT(30), <1>2, <2>1, ScoredAsRules
<1>8. \A i \in 1..n : /\ log[i] \in WinsOf(p) <=> Wins(p, log[i])
                      /\ log[i] \in DrawsOf(p) <=> Draws(p, log[i])
                      /\ log[i] \in L <=> table[Opponent(p, log[i])].points = table[p].points
                      /\ ~(Wins(p, log[i]) /\ Draws(p, log[i]))
  BY <1>5, WonOrDrawn DEF WinsOf, DrawsOf, LevelFor
<1>9. /\ \A r \in GameResults : table[Opponent(p, r)].points \in Int
      /\ \A i \in 1..n : table[Opponent(p, log[i])].points \in Int
  <2>1. \A r \in GameResults : table[Opponent(p, r)].points \in Int
    BY SMTT(30) DEF Opponent, GameResults, Tables, GameRecords
  <2> QED
    BY <1>5, <2>1
<1>10. IsFiniteSet(V) /\ IsFiniteSet(Y)
  BY <1>1, ResultsAreFinite, FS_Subset
<1>11. w \in [V -> Int] /\ u \in [Y -> Int]
  BY <1>9 DEF WinsOf, DrawsOf
<1>12. \A i \in 1..n :
         /\ H(i) = H(i - 1) + (IF Wins(p, log[i]) THEN table[Opponent(p, log[i])].points ELSE 0)
         /\ H(i - 1) \in Int
  <2> TAKE i \in 1..n
  <2> DEFINE x == log[i]
             R == Upto(log, i) \cap WinsOf(p)
             Q == Upto(log, i - 1) \cap WinsOf(p)
  <2>1. R \in SUBSET V /\ Q \in SUBSET V
    BY <1>5
  <2>2. h[R] \in Int /\ h[Q] \in Int
    BY <2>1, <1>0 DEF IsSum
  <2>3. CASE Wins(p, x)
    <3>1. x \in R /\ R \ {x} = Q
      BY <1>5, <1>8, <2>3
    <3>2. w[x] = table[Opponent(p, x)].points
      BY <2>1, <3>1
    <3>3. h[R] = w[x] + h[Q]
      <4> HIDE DEF x, R, Q, V, Y, w, u
      <4> QED
        BY <1>10, <1>11, <1>0, <2>1, <3>1, AnyElementFirst
    <3>4. w[x] \in Int
      BY <1>9, <3>2
    <3> QED
      BY <2>2, <2>3, <3>2, <3>3, <3>4
  <2>4. CASE ~Wins(p, x)
    <3>1. R = Q
      BY <1>5, <1>8, <2>4
    <3>2. h[R] = h[Q] + 0
      <4> HIDE DEF R, Q
      <4> QED
        BY <2>2, <3>1
    <3> QED
      BY <2>2, <2>4, <3>2
  <2> QED
    BY <2>3, <2>4
<1>13. \A i \in 1..n :
         /\ C(i) = C(i - 1) + (IF Draws(p, log[i]) THEN table[Opponent(p, log[i])].points ELSE 0)
         /\ C(i - 1) \in Int
  <2> TAKE i \in 1..n
  <2> DEFINE x == log[i]
             R == Upto(log, i) \cap DrawsOf(p)
             Q == Upto(log, i - 1) \cap DrawsOf(p)
  <2>1. R \in SUBSET Y /\ Q \in SUBSET Y
    BY <1>5
  <2>2. c[R] \in Int /\ c[Q] \in Int
    BY <2>1, <1>0 DEF IsSum
  <2>3. CASE Draws(p, x)
    <3>1. x \in R /\ R \ {x} = Q
      BY <1>5, <1>8, <2>3
    <3>2. u[x] = table[Opponent(p, x)].points
      BY <2>1, <3>1
    <3>3. c[R] = u[x] + c[Q]
      <4> HIDE DEF x, R, Q, V, Y, w, u
      <4> QED
        BY <1>10, <1>11, <1>0, <2>1, <3>1, AnyElementFirst
    <3>4. u[x] \in Int
      BY <1>9, <3>2
    <3> QED
      BY <2>2, <2>3, <3>2, <3>3, <3>4
  <2>4. CASE ~Draws(p, x)
    <3>1. R = Q
      BY <1>5, <1>8, <2>4
    <3>2. c[R] = c[Q] + 0
      <4> HIDE DEF R, Q
      <4> QED
        BY <2>2, <3>1
    <3> QED
      BY <2>2, <2>4, <3>2
  <2> QED
    BY <2>3, <2>4
<1> HIDE DEF WL, EL, H, C, L, V, Y, w, u
<1>14. StayAlike(f1, h1, n)
  <2>1. f1[0] = h1[0]
    BY <1>1, <1>3, <1>4
  <2>2. ASSUME NEW i \in 1..n, f1[i - 1] = h1[i - 1] PROVE f1[i] = h1[i]
    <3>1. /\ f1[i] = g[i][p].mini /\ f1[i - 1] = g[i - 1][p].mini
          /\ h1[i] = 3 * WL(i) + EL(i) /\ h1[i - 1] = 3 * WL(i - 1) + EL(i - 1)
      BY <1>1
    <3> HIDE DEF f1, h1
    <3> DEFINE a == WL(i - 1)
               b == EL(i - 1)
               x == IF log[i] \in WinsOf(p) \cap L THEN 1 ELSE 0
               y == IF log[i] \in DrawsOf(p) \cap L THEN 1 ELSE 0
    <3>2. /\ a \in Nat /\ b \in Nat /\ x \in Nat /\ y \in Nat
          /\ WL(i) = a + x /\ EL(i) = b + y
      BY <1>6
    <3>3. MiniGain(table, p, log[i]) = 3 * x + y
      BY <1>8 DEF MiniGain, Gain
    <3>4. f1[i] = f1[i - 1] + (3 * x + y)
      BY <1>7, <3>1, <3>3
    <3>5. f1[i - 1] = 3 * a + b
      BY <2>2, <3>1
    <3> HIDE DEF a, b, x, y
    <3>6. 3 * (a + x) + (b + y) = (3 * a + b) + (3 * x + y)
      BY <3>2
    <3> QED
      BY ONLY <3>1, <3>2, <3>4, <3>5, <3>6
  <2> HIDE DEF f1, h1
  <2> QED
    BY <2>1, <2>2 DEF StayAlike
<1>15. StayAlike(f2, h2, n)
  <2>1. f2[0] = h2[0]
    BY <1>1, <1>3, <1>4
  <2>2. ASSUME NEW i \in 1..n, f2[i - 1] = h2[i - 1] PROVE f2[i] = h2[i]
    <3>1. /\ f2[i] = g[i][p].sonnebornBerger /\ f2[i - 1] = g[i - 1][p].sonnebornBerger
          /\ h2[i] = 2 * H(i) + C(i) /\ h2[i - 1] = 2 * H(i - 1) + C(i - 1)
      BY <1>1
    <3> HIDE DEF f2, h2
    <3> DEFINE o == table[Opponent(p, log[i])].points
               a == H(i - 1)
               b == C(i - 1)
               x == IF Wins(p, log[i]) THEN o ELSE 0
               y == IF Draws(p, log[i]) THEN o ELSE 0
    <3>2. /\ o \in Int /\ a \in Int /\ b \in Int /\ x \in Int /\ y \in Int
          /\ H(i) = a + x /\ C(i) = b + y
      BY <1>9, <1>12, <1>13
    <3>3. BergerGain(table, p, log[i]) = 2 * x + y
      <4> HIDE DEF o
      <4>1. CASE Wins(p, log[i])
        BY <1>8, <3>2, <4>1 DEF BergerGain, o
      <4>2. CASE ~Wins(p, log[i]) /\ Draws(p, log[i])
        BY <1>8, <3>2, <4>2 DEF BergerGain, o
      <4>3. CASE ~Wins(p, log[i]) /\ ~Draws(p, log[i])
        BY <1>8, <3>2, <4>3 DEF BergerGain, o
      <4> QED
        BY <4>1, <4>2, <4>3
    <3>4. f2[i] = f2[i - 1] + (2 * x + y)
      BY <1>7, <3>1, <3>3
    <3>5. f2[i - 1] = 2 * a + b
      BY <2>2, <3>1
    <3> HIDE DEF o, a, b, x, y
    <3>6. 2 * (a + x) + (b + y) = (2 * a + b) + (2 * x + y)
      BY <3>2
    <3> QED
      BY ONLY <3>1, <3>2, <3>4, <3>5, <3>6
  <2> HIDE DEF f2, h2
  <2> QED
    BY <2>1, <2>2 DEF StayAlike
<1>16. f1[k] = h1[k] /\ f2[k] = h2[k]
  <2> HIDE DEF f1, f2, h1, h2
  <2> QED
    BY <1>1, <1>14, <1>15, AlikeFromStart
<1> QED
  BY <1>16 DEF WL, EL, H, C, L, ScoresAre

(* The wins and the draws of each participant, as parts of the results.   *)
LEMMA SetsOfResults ==
  ASSUME GroupInv
  PROVE  LET S == Upto(results, Len(results))
         IN  /\ S \in SUBSET GameResults /\ IsFiniteSet(S)
             /\ \A p \in Participants : /\ WonBy(p) = S \cap WinsOf(p)
                                        /\ DrawnBy(p) = S \cap DrawsOf(p)
<1> DEFINE S == Upto(results, Len(results))
<1>1. results \in Seq(GameResults) /\ Len(results) \in Nat /\ DOMAIN results = 1..Len(results)
  BY DEF GroupInv
<1>2. S \in SUBSET GameResults /\ IsFiniteSet(S)
  BY <1>1, ResultsAreFinite
<1>3. Range(results) = S
  BY <1>1 DEF Range, Upto
<1> HIDE DEF S
<1>4. \A p \in Participants : /\ WonBy(p) = S \cap WinsOf(p)
                              /\ DrawnBy(p) = S \cap DrawsOf(p)
  BY <1>2, <1>3 DEF WonBy, DrawnBy, WinsOf, DrawsOf, Wins, Draws
<1> QED
  BY <1>2, <1>4 DEF S

(* The first pass over all results gives the points and the wins of the    *)
(* rules.                                                                  *)
LEMMA RecordsFollowRules ==
  ASSUME GroupInv, NEW p \in Participants
  PROVE  /\ Records(results)[p].points = PointsOf(p)
         /\ Records(results)[p].wins = Cardinality(WonBy(p))
         /\ PointsOf(p) \in Int
<1>1. /\ results \in Seq(GameResults) /\ PlayedOnce(results)
      /\ Len(results) \in 0..Len(results)
  BY DEF GroupInv
<1>2. PICK g : IsRecordPass(g, results)
  BY <1>1, RecordsArePass
<1>3. Records(results) = g[Len(results)]
  BY <1>1, <1>2, RecordsArePass
<1>4. /\ Records(results)[p].points = PointsOf(p)
      /\ Records(results)[p].wins = Cardinality(WonBy(p))
  BY SMTT(30), <1>1, <1>2, <1>3, PointsOfPass, SetsOfResults DEF PointsOf
<1>5. Records(results)[p].points \in Int
  BY <1>1, RecordsAreTable DEF Tables, GameRecords
<1> QED
  BY <1>4, <1>5

(* The second pass gives the tie-breaks of the rules.                      *)
LEMMA ScoresFollowRules ==
  ASSUME GroupInv, NEW p \in Participants
  PROVE  /\ Scores(results)[p].mini = MiniTableOf(p)
         /\ Scores(results)[p].sonnebornBerger = BergerOf(p)
<1> DEFINE S == Upto(results, Len(results))
           V == S \cap WinsOf(p)
           Y == S \cap DrawsOf(p)
           table == Records(results)
           L == LevelFor(table, p)
<1>1. /\ results \in Seq(GameResults) /\ PlayedOnce(results)
      /\ Len(results) \in 0..Len(results)
  BY DEF GroupInv
<1>2. /\ S \in SUBSET GameResults /\ IsFiniteSet(S) /\ WonBy(p) = V /\ DrawnBy(p) = Y
      /\ V \in SUBSET GameResults /\ IsFiniteSet(V) /\ Y \in SUBSET GameResults /\ IsFiniteSet(Y)
  BY SetsOfResults, FS_Subset
<1>3. \A q \in Participants : table[q].points = PointsOf(q) /\ PointsOf(q) \in Int
  BY RecordsFollowRules
<1>4. \A r \in GameResults : Opponent(p, r) \in Participants
  BY DEF Opponent, GameResults
<1>5. table \in Tables
  BY <1>1, RecordsAreTable
<1>6. PICK g : IsScorePass(g, table, results) /\ Scores(results) = g[Len(results)]
  BY <1>1, ScoresArePass
<1> HIDE DEF S, table
<1>7. /\ PointsAgainst(p, V) = [r \in V |-> table[Opponent(p, r)].points]
      /\ PointsAgainst(p, Y) = [r \in Y |-> table[Opponent(p, r)].points]
  BY <1>2, <1>3, <1>4 DEF PointsAgainst
<1>8. PICK h : /\ IsSum(h, V, PointsAgainst(p, V))
               /\ MapThenSumSet(LAMBDA r : PointsOf(Opponent(p, r)), V) = h[V]
  <2> HIDE DEF V
  <2> QED
    BY <1>2, <1>3, SumIsDefined
<1>9. PICK c : /\ IsSum(c, Y, PointsAgainst(p, Y))
               /\ MapThenSumSet(LAMBDA r : PointsOf(Opponent(p, r)), Y) = c[Y]
  <2> HIDE DEF Y
  <2> QED
    BY <1>2, <1>3, SumIsDefined
<1>10. BergerOf(p) = 2 * h[V] + c[Y]
  BY <1>2, <1>8, <1>9 DEF BergerOf
<1>11. /\ {r \in WonBy(p) : Level(p, r)} = S \cap (WinsOf(p) \cap L)
       /\ {r \in DrawnBy(p) : Level(p, r)} = S \cap (DrawsOf(p) \cap L)
  <2>1. \A r \in GameResults : Level(p, r) <=> r \in L
    BY <1>3, <1>4 DEF Level, LevelFor
  <2> HIDE DEF L
  <2> QED
    BY <1>2, <2>1
<1>12. MiniTableOf(p) = 3 * Cardinality(S \cap (WinsOf(p) \cap L))
                          + Cardinality(S \cap (DrawsOf(p) \cap L))
  BY <1>11 DEF MiniTableOf
<1>13. /\ g[Len(results)][p].mini = 3 * Cardinality(S \cap (WinsOf(p) \cap L))
                                      + Cardinality(S \cap (DrawsOf(p) \cap L))
       /\ g[Len(results)][p].sonnebornBerger = 2 * h[V] + c[Y]
  <2>1. SumsFor(h, c, table, results, p)
    BY <1>7, <1>8, <1>9 DEF SumsFor, S
  <2> HIDE DEF V, Y, L
  <2> DEFINE k == Len(results)
             U == Upto(results, k)
  <2>2. k \in 0..Len(results)
    BY <1>1
  <2> HIDE DEF k
  <2>2a. ScoresAre(g, h, c, table, results, p, k)
    BY <1>1, <1>5, <1>6, <2>1, <2>2, ScoresOfPass
  <2>3. /\ g[k][p].mini = 3 * Cardinality(U \cap (WinsOf(p) \cap LevelFor(table, p)))
                            + Cardinality(U \cap (DrawsOf(p) \cap LevelFor(table, p)))
        /\ g[k][p].sonnebornBerger = 2 * h[U \cap WinsOf(p)] + c[U \cap DrawsOf(p)]
    BY <2>2a DEF ScoresAre
  <2>4. U = S /\ V = U \cap WinsOf(p) /\ Y = U \cap DrawsOf(p) /\ L = LevelFor(table, p)
    BY DEF S, k, V, Y, L
  <2> HIDE DEF U
  <2> QED
    BY <2>3, <2>4 DEF k
<1> QED
  BY <1>6, <1>10, <1>12, <1>13

(* The standings are those of the rules, whatever the order in which the   *)
(* results were accepted: the two passes over the log leave no trace of it.*)
THEOREM StandingsAreThoseOfTheRules == Spec => []StandingsFollowRules
<1>1. GroupInv => StandingsFollowRules
  <2> SUFFICES ASSUME GroupInv, NEW p \in Participants
               PROVE  SortKeys(results)[p] =
                        <<PointsOf(p), MiniTableOf(p), Cardinality(WonBy(p)),
                          BergerOf(p), -TieKey[p]>>
    BY DEF StandingsFollowRules
  <2>1. SortKeys(results)[p] =
          <<Records(results)[p].points, Scores(results)[p].mini, Records(results)[p].wins,
            Scores(results)[p].sonnebornBerger, -TieKey[p]>>
    BY DEF SortKeys
  <2> QED
    BY <2>1, RecordsFollowRules, ScoresFollowRules
<1> QED
  BY <1>1, GroupInvariant, PTL

------------------------------------------------------------------------------
(* A win and the ranks.                                                    *)

(* The first of the keys decides before all others.                        *)
LEMMA MorePointsFirst ==
  ASSUME NEW log \in Seq(GameResults), NEW p \in Participants, NEW q \in Participants
  PROVE  LET table == Records(log)
             keys  == SortKeys(log)
         IN  /\ table[q].points > table[p].points => Ahead(keys[q], keys[p])
             /\ Ahead(keys[q], keys[p]) => table[q].points >= table[p].points
             /\ ~Ahead(keys[p], keys[p])
<1> DEFINE table == Records(log)
           keys == SortKeys(log)
<1>1. /\ keys[p][1] = table[p].points /\ keys[q][1] = table[q].points
      /\ DOMAIN keys[q] = 1..5 /\ DOMAIN keys[p] = 1..5
  BY DEF SortKeys
<1>5. \A i \in 1..5 : keys[p][i] \in Int
  <2> DEFINE scores == Scores(log)
  <2>1. scores \in ScoreTables /\ table \in Tables
    <3>1. PICK g : IsScorePass(g, table, log) /\ scores = g[Len(log)]
      BY ScoresArePass
    <3> QED
      BY <3>1, RecordsAreTable DEF IsScorePass
  <2>2. keys[p] = <<table[p].points, scores[p].mini, table[p].wins,
                    scores[p].sonnebornBerger, -TieKey[p]>>
    BY DEF SortKeys
  <2> HIDE DEF table, scores, keys
  <2>3. /\ table[p].points \in Int /\ table[p].wins \in Int
        /\ scores[p].mini \in Int /\ scores[p].sonnebornBerger \in Int
    BY SMTT(30), <2>1 DEF Tables, GameRecords, ScoreTables, ScoreRecords
  <2>4. -TieKey[p] \in Int
    BY GroupAssumption
  <2> DEFINE a == table[p].points
             b == scores[p].mini
             c == table[p].wins
             d == scores[p].sonnebornBerger
             e == -TieKey[p]
  <2>5. keys[p] = <<a, b, c, d, e>>
    BY <2>2
  <2> HIDE DEF a, b, c, d, e
  <2>6. a \in Int /\ b \in Int /\ c \in Int /\ d \in Int /\ e \in Int
    BY <2>3, <2>4 DEF a, b, c, d, e
  <2>7. /\ <<a, b, c, d, e>>[1] = a /\ <<a, b, c, d, e>>[2] = b /\ <<a, b, c, d, e>>[3] = c
        /\ <<a, b, c, d, e>>[4] = d /\ <<a, b, c, d, e>>[5] = e
    OBVIOUS
  <2>8. \A i \in 1..5 : i = 1 \/ i = 2 \/ i = 3 \/ i = 4 \/ i = 5
    OBVIOUS
  <2> QED
    BY <2>5, <2>6, <2>7, <2>8
<1>2. table[p].points \in Nat /\ table[q].points \in Nat
  <2>1. table \in Tables
    BY RecordsAreTable
  <2> QED
    BY <2>1 DEF Tables, GameRecords
<1> HIDE DEF table, keys
<1>3. table[q].points > table[p].points => Ahead(keys[q], keys[p])
  <2>1. 1 \in DOMAIN keys[q] /\ 1..(1 - 1) = {}
    BY <1>1
  <2> QED
    BY <1>1, <2>1 DEF Ahead
<1>4. Ahead(keys[q], keys[p]) => table[q].points >= table[p].points
  <2> SUFFICES ASSUME Ahead(keys[q], keys[p]) PROVE table[q].points >= table[p].points
    OBVIOUS
  <2>1. PICK i \in 1..5 : /\ keys[q][i] > keys[p][i]
                          /\ \A j \in 1..(i - 1) : keys[q][j] = keys[p][j]
    BY <1>1 DEF Ahead
  <2>2. CASE i = 1
    BY <1>1, <1>2, <2>1, <2>2
  <2>3. CASE i # 1
    <3>1. 1 \in 1..(i - 1)
      BY <2>3
    <3> QED
      BY <1>1, <1>2, <2>1, <3>1
  <2> QED
    BY <2>2, <2>3
<1>6. ~Ahead(keys[p], keys[p])
  BY <1>1, <1>5 DEF Ahead
<1> QED
  BY <1>3, <1>4, <1>6 DEF table, keys

(* The winner leaves those it passes and is passed by nobody.              *)
LEMMA WinnerIsNotPassed ==
  ASSUME NEW log \in Seq(GameResults), NEW r \in GameResults,
         NEW p \in Participants, Wins(p, r)
  PROVE  Ranks(Append(log, r))[p] <= Ranks(log)[p]
<1> DEFINE more == Append(log, r)
           before == Records(log)
           after == Records(more)
           Above(l) == {q \in Participants : Ahead(SortKeys(l)[q], SortKeys(l)[p])}
<1>1. more \in Seq(GameResults)
  OBVIOUS
<1>2. /\ before \in Tables
      /\ \A q \in Participants : after[q].points = before[q].points + Gain(q, r)
  BY RecordsGrow, RecordedAsRules
<1>3. \A q \in Participants : before[q].points \in Nat
  BY <1>2 DEF Tables, GameRecords
<1>4. after[p].points = before[p].points + 3
  BY <1>2 DEF Gain
<1>5. \A q \in Participants : q # p => after[q].points = before[q].points
  <2> SUFFICES ASSUME NEW q \in Participants, q # p PROVE Gain(q, r) = 0
    BY <1>2, <1>3
  <2> QED
    BY DEF Gain, Wins, Draws, GameResults
<1> HIDE DEF more, before, after
<1>6. Above(more) \subseteq Above(log)
  <2> SUFFICES ASSUME NEW q \in Participants, Ahead(SortKeys(more)[q], SortKeys(more)[p])
               PROVE  Ahead(SortKeys(log)[q], SortKeys(log)[p])
    OBVIOUS
  <2>1. after[q].points >= after[p].points
    BY <1>1, MorePointsFirst DEF after
  <2>2. q # p
    BY <1>1, MorePointsFirst
  <2>3. before[q].points > before[p].points
    BY <1>3, <1>4, <1>5, <2>1, <2>2
  <2> QED
    BY <2>3, MorePointsFirst DEF before
<1>7. IsFiniteSet(Participants)
  BY GroupAssumption, FS_Interval DEF Participants
<1>8. /\ IsFiniteSet(Above(log)) /\ IsFiniteSet(Above(more))
      /\ Cardinality(Above(more)) <= Cardinality(Above(log))
      /\ Cardinality(Above(log)) \in Nat /\ Cardinality(Above(more)) \in Nat
  BY <1>6, <1>7, FS_Subset, FS_CardinalityType
<1>9. /\ Ranks(log)[p] = 1 + Cardinality(Above(log))
      /\ Ranks(more)[p] = 1 + Cardinality(Above(more))
  BY DEF Ranks
<1> HIDE DEF Above
<1> QED
  BY <1>8, <1>9 DEF more

(* No win costs the winner a rank, in a group of any size: only those with *)
(* more points can be ahead of it, and they were ahead before.             *)
THEOREM WinnersKeepTheirRank == Spec => WinnerNeverDrops
<1> DEFINE last == results'[Len(results')]
           Kept == \A p \in Participants :
                     \/ last.p1 = p /\ last.winner = "p1"
                     \/ last.p2 = p /\ last.winner = "p2"
                     => Ranks(results')[p] <= Ranks(results)[p]
<1>1. GroupInv /\ [Next]_results => [Kept]_results
  <2> SUFFICES ASSUME GroupInv, Accept PROVE Kept
    BY DEF Next
  <2>1. PICK r \in GameResults : results' = Append(results, r)
    BY StepAppends
  <2>2. results \in Seq(GameResults)
    BY DEF GroupInv
  <2>3. last = r
    BY <2>1, <2>2
  <2> SUFFICES ASSUME NEW p \in Participants, Wins(p, r)
               PROVE  Ranks(results')[p] <= Ranks(results)[p]
    BY <2>3 DEF Wins
  <2> QED
    BY <2>1, <2>2, WinnerIsNotPassed
<1> QED
  BY <1>1, GroupInvariant, PTL DEF Spec, WinnerNeverDrops
==============================================================================
