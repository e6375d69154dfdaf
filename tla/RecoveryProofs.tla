---------------------------- MODULE RecoveryProofs -----------------------------
(***************************************************************************)
(* Proofs about recovery, for every log a runner can leave behind and for  *)
(* every log one slip away from it: both executors accept the plans that   *)
(* recovery builds and start from what they say, recovery refuses exactly  *)
(* the logs that are no history of a run, and from a plan it accepts the   *)
(* run goes on.                                                            *)
(*                                                                         *)
(* The plan is built from sequences, positions and per-series lists, the   *)
(* rules are about sets of results.  InPlace is what ties the two: in such *)
(* a log every match counts once, so that the first of equal records stand *)
(* for the set the log holds (Held), a series' records for its games, and  *)
(* the rounds that are walked through for those that are complete.         *)
(***************************************************************************)
EXTENDS RunnerProofs, RecoveryProperties

------------------------------------------------------------------------------
(* Positions in a log.                                                     *)

(* The rank of an element of a finite set of numbers.                      *)
Rank(p, P) == Cardinality({j \in P : j <= p})

(* Ranks run from one to the size of the set, in the order of the numbers. *)
LEMMA Ranks ==
  ASSUME NEW P, P \subseteq Nat, IsFiniteSet(P)
  PROVE  /\ Cardinality(P) \in Nat
         /\ \A p \in P : Rank(p, P) \in 1..Cardinality(P)
         /\ \A p, q \in P : p < q => Rank(p, P) < Rank(q, P)
<1> DEFINE Upto(p) == {j \in P : j <= p}
<1>1. \A p \in P : IsFiniteSet(Upto(p)) /\ Upto(p) \subseteq P /\ p \in Upto(p)
  BY FS_Subset
<1>2. Cardinality(P) \in Nat
  BY FS_CardinalityType
<1>3. ASSUME NEW p \in P PROVE Rank(p, P) \in 1..Cardinality(P)
  <2>1. Rank(p, P) = Cardinality(Upto(p))
    BY DEF Rank
  <2> HIDE DEF Upto
  <2>2. Cardinality(Upto(p)) \in Nat /\ Cardinality(Upto(p)) <= Cardinality(P)
    BY <1>1, FS_CardinalityType, FS_Subset
  <2>3. Cardinality(Upto(p)) # 0
    BY <1>1, FS_EmptySet
  <2> QED
    BY <1>2, <2>1, <2>2, <2>3
<1>4. ASSUME NEW p \in P, NEW q \in P, p < q PROVE Rank(p, P) < Rank(q, P)
  <2>0. p \in Nat /\ q \in Nat /\ \A j \in P : j \in Nat
    OBVIOUS
  <2>1. Upto(p) \subseteq Upto(q) /\ q \notin Upto(p) /\ q \in Upto(q)
    <3>1. \A j \in P : j <= p => j <= q
      BY <1>4, <2>0
    <3>2. ~(q <= p) /\ q <= q
      BY <1>4, <2>0
    <3> QED
      BY <3>1, <3>2
  <2>2. Rank(p, P) = Cardinality(Upto(p)) /\ Rank(q, P) = Cardinality(Upto(q))
    BY DEF Rank
  <2> HIDE DEF Upto
  <2>3. /\ Cardinality(Upto(p)) \in Nat /\ Cardinality(Upto(q)) \in Nat
        /\ Cardinality(Upto(p)) <= Cardinality(Upto(q))
        /\ Cardinality(Upto(p)) = Cardinality(Upto(q)) => Upto(p) = Upto(q)
    BY <1>1, <2>1, FS_CardinalityType, FS_Subset
  <2> QED
    BY <2>1, <2>2, <2>3
<1> QED
  BY <1>2, <1>3, <1>4

(* Picked counts the positions in their order, from 1, without gaps.       *)
LEMMA Positions ==
  ASSUME NEW P, P \subseteq Nat, IsFiniteSet(P)
  PROVE  /\ Cardinality(P) \in Nat
         /\ \A n \in 1..Cardinality(P) : PositionOf(n, P) \in P
         /\ \A m, n \in 1..Cardinality(P) : m < n => PositionOf(m, P) < PositionOf(n, P)
         /\ \A p \in P : \E n \in 1..Cardinality(P) : PositionOf(n, P) = p
<1> DEFINE K == Cardinality(P)
           rank == [p \in P |-> Rank(p, P)]
<1>1. /\ K \in Nat
      /\ \A p \in P : Rank(p, P) \in 1..K
      /\ \A p, q \in P : p < q => Rank(p, P) < Rank(q, P)
  BY Ranks
<1>2. \A p, q \in P : Rank(p, P) = Rank(q, P) => p = q
  <2> SUFFICES ASSUME NEW p \in P, NEW q \in P, Rank(p, P) = Rank(q, P), p # q PROVE FALSE
    OBVIOUS
  <2>1. p \in Nat /\ q \in Nat
    OBVIOUS
  <2>2. p < q \/ q < p
    BY <2>1
  <2>3. Rank(p, P) \in Nat /\ Rank(q, P) \in Nat
    BY <1>1
  <2> QED
    BY <1>1, <2>2, <2>3
<1> HIDE DEF K
<1>3. rank \in Injection(P, 1..K)
  <2>1. rank \in [P -> 1..K]
    BY <1>1
  <2>2. \A p, q \in P : rank[p] = rank[q] => p = q
    BY <1>2
  <2> QED
    BY <2>1, <2>2, Fun_IsInj
<1>4. rank \in Surjection(P, 1..K)
  <2>1. IsFiniteSet(1..K) /\ Cardinality(1..K) = K
    BY <1>1, FS_Interval
  <2>2. Cardinality(P) = Cardinality(1..K)
    BY <2>1 DEF K
  <2> HIDE DEF rank
  <2> QED
    BY <1>3, <2>1, <2>2, FS_Injection
<1>5. \A n \in 1..K : \E p \in P : Rank(p, P) = n
  BY <1>4 DEF Surjection
<1>6. \A n \in 1..K : PositionOf(n, P) \in P /\ Rank(PositionOf(n, P), P) = n
  BY <1>5 DEF PositionOf, Rank
<1>7. ASSUME NEW m \in 1..K, NEW n \in 1..K, m < n
      PROVE  PositionOf(m, P) < PositionOf(n, P)
  <2> DEFINE p == PositionOf(m, P)
             q == PositionOf(n, P)
  <2>1. p \in P /\ q \in P /\ Rank(p, P) = m /\ Rank(q, P) = n
    BY <1>6
  <2> HIDE DEF p, q
  <2>2. p \in Nat /\ q \in Nat
    BY <2>1
  <2>3. p # q
    BY <1>7, <2>1
  <2>4. ~(q < p)
    BY <1>1, <1>7, <2>1
  <2>5. p < q
    BY <2>2, <2>3, <2>4
  <2> QED
    BY <2>5 DEF p, q
<1>8. ASSUME NEW p \in P PROVE \E n \in 1..K : PositionOf(n, P) = p
  <2>1. Rank(p, P) \in 1..K
    BY <1>1
  <2>2. PositionOf(Rank(p, P), P) \in P /\ Rank(PositionOf(Rank(p, P), P), P) = Rank(p, P)
    BY <1>6, <2>1
  <2> QED
    BY <1>2, <2>1, <2>2
<1> QED
  BY <1>1, <1>6, <1>7, <1>8 DEF K

(* What Picked returns: the elements at the positions, and nothing else.   *)
LEMMA PickedIs ==
  ASSUME NEW list, NEW P, P \subseteq Nat, IsFiniteSet(P)
  PROVE  /\ Cardinality(P) \in Nat
         /\ DOMAIN Picked(list, P) = 1..Cardinality(P)
         /\ Len(Picked(list, P)) = Cardinality(P)
         /\ \A n \in 1..Cardinality(P) : Picked(list, P)[n] = list[PositionOf(n, P)]
         /\ ToSet(Picked(list, P)) = {list[p] : p \in P}
         /\ (\A p, q \in P : list[p] = list[q] => p = q) =>
               \A m, n \in 1..Cardinality(P) :
                 Picked(list, P)[m] = Picked(list, P)[n] => m = n
<1> DEFINE K == Cardinality(P)
           R == Picked(list, P)
<1>1. /\ K \in Nat
      /\ \A n \in 1..K : PositionOf(n, P) \in P
      /\ \A m, n \in 1..K : m < n => PositionOf(m, P) < PositionOf(n, P)
      /\ \A p \in P : \E n \in 1..K : PositionOf(n, P) = p
  BY Positions
<1>2. R = [n \in 1..K |-> list[PositionOf(n, P)]]
  BY DEF Picked
<1> HIDE DEF K, R
<1>3. DOMAIN R = 1..K /\ \A n \in 1..K : R[n] = list[PositionOf(n, P)]
  BY <1>2
<1>4. Len(R) = K
  <2>1. R \in Seq({R[n] : n \in 1..K})
    BY <1>1, <1>2
  <2> QED
    BY <1>1, <1>3, <2>1, LenProperties
<1>5. ToSet(R) = {list[p] : p \in P}
  <2>1. \A n \in 1..K : R[n] \in {list[p] : p \in P}
    BY <1>1, <1>3
  <2>2. \A p \in P : \E n \in 1..K : R[n] = list[p]
    BY <1>1, <1>3
  <2>3. ToSet(R) = {R[n] : n \in 1..K}
    BY <1>3 DEF ToSet
  <2> QED
    BY <2>1, <2>2, <2>3
<1>6. ASSUME \A p, q \in P : list[p] = list[q] => p = q,
             NEW m \in 1..K, NEW n \in 1..K, R[m] = R[n]
      PROVE  m = n
  <2>1. PositionOf(m, P) = PositionOf(n, P)
    BY <1>1, <1>3, <1>6
  <2> DEFINE p == PositionOf(m, P)
             q == PositionOf(n, P)
  <2>a. p \in P /\ q \in P /\ p = q
    BY <1>1, <2>1
  <2> HIDE DEF p, q
  <2>b. p \in Nat /\ ~(p < q) /\ ~(q < p)
    BY <2>a
  <2>2. ~(PositionOf(m, P) < PositionOf(n, P)) /\ ~(PositionOf(n, P) < PositionOf(m, P))
    BY <2>b DEF p, q
  <2>3. m \in Int /\ n \in Int /\ ~(m < n) /\ ~(n < m)
    BY <1>1, <2>2
  <2> QED
    BY <2>3
<1> QED
  BY <1>1, <1>3, <1>4, <1>5, <1>6 DEF K, R

(* A strictly increasing map of an interval to itself is the identity.     *)
LEMMA IncreasingIsIdentity ==
  ASSUME NEW n \in Nat, NEW f, \A i \in 1..n : f[i] \in 1..n,
         \A i, j \in 1..n : i < j => f[i] < f[j]
  PROVE  \A i \in 1..n : f[i] = i
<1>1. \A i \in 1..n : f[i] >= i
  <2> DEFINE T == {i \in 1..n : f[i] < i}
  <2>1. SUFFICES ASSUME T # {} PROVE FALSE
    <3>1. \A i \in 1..n : f[i] \in Int /\ i \in Int
      OBVIOUS
    <3> QED
      BY <2>1, <3>1
  <2>2. PICK m \in T : \A i \in T : m <= i
    <3>1. T \subseteq Nat
      OBVIOUS
    <3> HIDE DEF T
    <3> QED
      BY <2>1, <3>1, LeastNumber
  <2>3. m \in 1..n /\ f[m] \in 1..n /\ f[m] < m
    BY <2>2
  <2>4. m - 1 \in 1..n /\ m - 1 < m
    BY <2>3
  <2>5. f[m - 1] < f[m] /\ f[m - 1] \in 1..n
    BY <2>3, <2>4
  <2>6. ~(f[m - 1] < m - 1)
    BY <2>2, <2>4
  <2> QED
    BY <2>3, <2>4, <2>5, <2>6
<1>2. \A i \in 1..n : f[i] <= i
  <2> DEFINE T == {k \in 0..n : \E i \in 1..n : i = n - k /\ f[i] > i}
  <2>1. SUFFICES ASSUME T # {} PROVE FALSE
    <3> SUFFICES ASSUME NEW i \in 1..n, f[i] > i PROVE FALSE
      <4>1. \A i \in 1..n : f[i] \in Int /\ i \in Int
        OBVIOUS
      <4> QED
        BY <4>1
    <3>1. n - i \in 0..n /\ i = n - (n - i)
      OBVIOUS
    <3>2. n - i \in T
      BY <3>1
    <3> QED
      BY <2>1, <3>2
  <2>2. PICK k \in T : \A i \in T : k <= i
    <3>1. T \subseteq Nat
      OBVIOUS
    <3> HIDE DEF T
    <3> QED
      BY <2>1, <3>1, LeastNumber
  <2>3. PICK i \in 1..n : i = n - k /\ f[i] > i
    BY <2>2
  <2>4. f[i] \in 1..n /\ i + 1 \in 1..n /\ i < i + 1
    BY <2>3
  <2>5. f[i] < f[i + 1] /\ f[i + 1] \in 1..n
    BY <2>4
  <2>6. i + 1 = n - (k - 1) /\ k - 1 \in 0..n
    BY <2>2, <2>3, <2>4
  <2>7. f[i + 1] > i + 1
    BY <2>3, <2>4, <2>5
  <2>8. k - 1 \in T
    BY <2>4, <2>6, <2>7
  <2> QED
    BY <2>2, <2>8
<1> QED
  <2>1. \A i \in 1..n : f[i] \in Int /\ i \in Int
    OBVIOUS
  <2> QED
    BY <1>1, <1>2, <2>1

(* What is listed once can be counted by its positions.                    *)
LEMMA ListedOnce ==
  ASSUME NEW list, NEW P, IsFiniteSet(P), \A p, q \in P : list[p] = list[q] => p = q,
         NEW S, \A p \in P : list[p] \in S, \A y \in S : \E p \in P : list[p] = y
  PROVE  IsFiniteSet(S) /\ Cardinality(S) = Cardinality(P)
<1> DEFINE f == [p \in P |-> list[p]]
<1>1. /\ f \in [P -> S]
      /\ \A a, b \in P : f[a] = f[b] => a = b
      /\ \A y \in S : \E p \in P : f[p] = y
  OBVIOUS
<1> HIDE DEF f
<1>2. ExistsBijection(P, S)
  <2>1. f \in Bijection(P, S)
    BY <1>1, Fun_IsInj, Fun_IsSurj, Fun_IsBij
  <2> QED
    BY <2>1 DEF ExistsBijection
<1> QED
  BY <1>2, FS_Bijection

------------------------------------------------------------------------------
(* Logs.                                                                   *)

(* A log of matches that exist and that does not contradict itself.        *)
InPlace(log) ==
  /\ log \in Seq(Entry)
  /\ \A i \in DOMAIN log : Placed(log[i])
  /\ \A i, j \in DOMAIN log : SameMatch(log[i], log[j]) => log[i] = log[j]

(* The records a log holds.                                                *)
Held(log) == {log[i] : i \in DOMAIN log}

(* Where the group records are that count.                                 *)
GroupAt(log) == {i \in FirstTimes(log) : log[i].round = GroupStage}

(* The records that count are those the log holds, each once.              *)
LEMMA FirstTimesAre ==
  ASSUME NEW log, InPlace(log)
  PROVE  /\ Len(log) \in Nat /\ DOMAIN log = 1..Len(log) /\ IsFiniteSet(DOMAIN log)
         /\ \A i \in DOMAIN log : log[i] \in Entry
         /\ FirstTimes(log) \subseteq DOMAIN log
         /\ \A i, j \in FirstTimes(log) : log[i] = log[j] => i = j
         /\ \A i \in DOMAIN log : \E j \in FirstTimes(log) : log[j] = log[i]
<1>1. /\ log \in Seq(Entry) /\ Len(log) \in Nat /\ DOMAIN log = 1..Len(log)
      /\ \A i \in DOMAIN log : log[i] \in Entry
  BY LenProperties, ElementOfSeq DEF InPlace
<1>2. IsFiniteSet(DOMAIN log)
  BY <1>1, FS_Interval
<1>3. FirstTimes(log) \subseteq DOMAIN log
  BY DEF FirstTimes
<1>4. ASSUME NEW i \in FirstTimes(log), NEW j \in FirstTimes(log), log[i] = log[j] PROVE i = j
  <2>1. i \in Nat /\ j \in Nat /\ i >= 1 /\ j >= 1
    BY <1>1, <1>3
  <2>2. ~(i < j)
    <3> SUFFICES ASSUME i < j PROVE FALSE
      OBVIOUS
    <3>1. i \in 1..(j - 1)
      BY <2>1
    <3> QED
      BY <1>4, <3>1 DEF FirstTimes
  <2>3. ~(j < i)
    <3> SUFFICES ASSUME j < i PROVE FALSE
      OBVIOUS
    <3>1. j \in 1..(i - 1)
      BY <2>1
    <3> QED
      BY <1>4, <3>1 DEF FirstTimes
  <2> QED
    BY <2>1, <2>2, <2>3
<1>5. ASSUME NEW i \in DOMAIN log PROVE \E j \in FirstTimes(log) : log[j] = log[i]
  <2> DEFINE T == {j \in DOMAIN log : log[j] = log[i]}
  <2>1. T \subseteq Nat /\ i \in T
    BY <1>1
  <2>2. PICK m \in T : \A j \in T : m <= j
    <3> HIDE DEF T
    <3> QED
      BY <2>1, LeastNumber
  <2>3. m \in DOMAIN log /\ log[m] = log[i] /\ m \in Nat
    BY <1>1, <2>2
  <2>4. \A j \in 1..(m - 1) : log[j] # log[m]
    <3> TAKE j \in 1..(m - 1)
    <3>1. j \in DOMAIN log /\ ~(m <= j)
      BY <1>1, <2>3
    <3> QED
      BY <2>2, <2>3, <3>1
  <2> QED
    BY <2>3, <2>4 DEF FirstTimes
<1> QED
  BY <1>1, <1>2, <1>3, <1>4, <1>5

(* What is of the group stage is a scheduled match, and the rest is of the *)
(* knockout.                                                               *)
LEMMA LaterAre ==
  ASSUME NEW log, InPlace(log)
  PROVE  /\ {i \in FirstTimes(log) : Scheduled(log[i])} = GroupAt(log)
         /\ Later(log) = {i \in FirstTimes(log) : log[i].round # GroupStage}
         /\ IsFiniteSet(GroupAt(log)) /\ GroupAt(log) \subseteq Nat
         /\ IsFiniteSet(Later(log)) /\ Later(log) \subseteq Nat
<1>1. /\ DOMAIN log = 1..Len(log) /\ Len(log) \in Nat /\ IsFiniteSet(DOMAIN log)
      /\ FirstTimes(log) \subseteq DOMAIN log
  BY FirstTimesAre
<1>2. \A i \in FirstTimes(log) : Scheduled(log[i]) <=> log[i].round = GroupStage
  BY <1>1 DEF InPlace, Placed, Scheduled
<1>3. GroupAt(log) \subseteq DOMAIN log /\ Later(log) \subseteq DOMAIN log
  BY <1>1 DEF GroupAt, Later
<1>4. IsFiniteSet(GroupAt(log)) /\ IsFiniteSet(Later(log))
  BY <1>1, <1>3, FS_Subset
<1>5. GroupAt(log) \subseteq Nat /\ Later(log) \subseteq Nat
  BY <1>1, <1>3
<1> QED
  BY <1>2, <1>4, <1>5 DEF GroupAt, Later

(* The matches done, by the records and by what the log holds.             *)
Played(log) == {s \in 1..GroupMatches : SeriesDone(Held(log), GroupStage, s)}

(* The group records of the plan are the scheduled matches that the log    *)
(* holds, each once.                                                       *)
LEMMA GroupRecordsAre ==
  ASSUME NEW log, InPlace(log)
  PROVE  /\ DOMAIN GroupRecords(log) = 1..Cardinality(GroupAt(log))
         /\ Len(GroupRecords(log)) = Cardinality(GroupAt(log))
         /\ \A i \in DOMAIN GroupRecords(log) :
              \E p \in GroupAt(log) : GroupRecords(log)[i] = log[p]
         /\ \A i, j \in DOMAIN GroupRecords(log) :
              GroupRecords(log)[i].series = GroupRecords(log)[j].series => i = j
         /\ Done(GroupRecords(log)) = Played(log)
         /\ Cardinality(Played(log)) = Cardinality(GroupAt(log))
<1> DEFINE P == GroupAt(log)
           R == GroupRecords(log)
           K == Cardinality(P)
<1>1. R = Picked(log, P) /\ IsFiniteSet(P) /\ P \subseteq Nat
  BY LaterAre DEF GroupRecords
<1>2. \A p, q \in P : log[p].series = log[q].series => p = q
  <2>1. ASSUME NEW p \in P, NEW q \in P, log[p].series = log[q].series PROVE p = q
    <3>1. /\ p \in FirstTimes(log) /\ q \in FirstTimes(log)
          /\ log[p].round = GroupStage /\ log[q].round = GroupStage
      BY DEF GroupAt
    <3>2. p \in DOMAIN log /\ q \in DOMAIN log
      BY <3>1, FirstTimesAre
    <3>3. SameMatch(log[p], log[q])
      BY <2>1, <3>1, <3>2 DEF SameMatch, InPlace, Placed
    <3> QED
      BY <3>1, <3>2, <3>3, FirstTimesAre DEF InPlace
  <2> QED
    BY <2>1
<1>3. \A p, q \in P : log[p] = log[q] => p = q
  BY <1>2
<1>4. Played(log) = {log[p].series : p \in P}
  <2>1. ASSUME NEW s \in Played(log) PROVE \E p \in P : log[p].series = s
    <3>1. PICK e \in Held(log) : e.round = GroupStage /\ e.series = s
      BY DEF Played, SeriesDone, Games
    <3>2. PICK p \in FirstTimes(log) : log[p] = e
      BY <3>1, FirstTimesAre DEF Held
    <3> QED
      BY <3>1, <3>2 DEF GroupAt
  <2>2. ASSUME NEW p \in P PROVE log[p].series \in Played(log)
    <3>1. p \in DOMAIN log /\ log[p].round = GroupStage
      BY FirstTimesAre DEF GroupAt
    <3>2. log[p] \in Games(Held(log), GroupStage, log[p].series)
      BY <3>1 DEF Games, Held
    <3>3. log[p].series \in 1..GroupMatches
      BY <3>1 DEF InPlace, Placed, SeriesIn
    <3> QED
      BY <3>2, <3>3 DEF Played, SeriesDone
  <2> QED
    BY <2>1, <2>2
<1> HIDE DEF P, R
<1>5. /\ DOMAIN R = 1..K /\ Len(R) = K /\ K \in Nat
      /\ \A n \in 1..K : R[n] = log[PositionOf(n, P)] /\ PositionOf(n, P) \in P
      /\ ToSet(R) = {log[p] : p \in P}
      /\ \A m, n \in 1..K : R[m] = R[n] => m = n
  <2>1. K \in Nat /\ \A n \in 1..K : PositionOf(n, P) \in P
    BY <1>1, Positions
  <2> HIDE DEF K
  <2> DEFINE T == Picked(log, P)
  <2>2. /\ DOMAIN T = 1..Cardinality(P) /\ Len(T) = Cardinality(P)
        /\ \A n \in 1..Cardinality(P) : T[n] = log[PositionOf(n, P)]
    BY <1>1, PickedIs
  <2>5. ToSet(T) = {log[p] : p \in P}
    BY <1>1, PickedIs
  <2>3. \A m, n \in 1..Cardinality(P) : T[m] = T[n] => m = n
    BY <1>1, <1>3, PickedIs
  <2>4. R = T /\ K = Cardinality(P)
    BY <1>1 DEF K
  <2> HIDE DEF T
  <2> QED
    BY <2>1, <2>2, <2>3, <2>4, <2>5
<1>6. ASSUME NEW i \in DOMAIN R, NEW j \in DOMAIN R, R[i].series = R[j].series PROVE i = j
  <2>1. PositionOf(i, P) = PositionOf(j, P)
    BY <1>2, <1>5, <1>6
  <2>2. R[i] = R[j]
    BY <1>5, <2>1
  <2> QED
    BY <1>5, <2>2
<1>7. Done(R) = Played(log)
  <2>1. \A i \in DOMAIN R : R[i] \in ToSet(R)
    BY DEF ToSet
  <2>2. \A e \in ToSet(R) : \E i \in DOMAIN R : R[i] = e
    BY DEF ToSet
  <2>3. \A i \in DOMAIN R : \E p \in P : R[i].series = log[p].series
    BY <1>5
  <2>4. \A p \in P : \E i \in DOMAIN R : R[i].series = log[p].series
    BY <1>5, <2>2
  <2> QED
    BY <1>4, <2>3, <2>4 DEF Done
<1>8. Cardinality(Played(log)) = Cardinality(P)
  <2> DEFINE f == [p \in P |-> log[p].series]
             D == Played(log)
  <2>1. (\A p \in P : f[p] \in D) /\ \A s \in D : \E p \in P : f[p] = s
    BY <1>4
  <2>2. \A p, q \in P : f[p] = f[q] => p = q
    BY <1>2
  <2> HIDE DEF f, D
  <2>3. IsFiniteSet(P)
    BY <1>1
  <2>4. IsFiniteSet(D) /\ Cardinality(D) = Cardinality(P)
    BY <2>1, <2>2, <2>3, ListedOnce
  <2> QED
    BY <2>4 DEF D
<1> QED
  BY <1>5, <1>6, <1>7, <1>8 DEF P, R

(* A part of the schedule, in its order.                                   *)
LEMMA PartOfSchedule ==
  ASSUME NEW P, P \subseteq 1..GroupMatches
  PROVE  /\ ToSet(Picked(GroupSchedule, P)) = P
         /\ IsInjective(Picked(GroupSchedule, P))
         /\ Picked(GroupSchedule, P) = << >> <=> P = {}
         /\ P # {} => /\ Picked(GroupSchedule, P)[1] \in P
                      /\ \A p \in P : Picked(GroupSchedule, P)[1] <= p
<1> DEFINE Q == Picked(GroupSchedule, P)
           K == Cardinality(P)
<1>1. GroupMatches \in Nat /\ IsFiniteSet(P) /\ P \subseteq Nat
  <2>1. GroupMatches \in Nat
    BY RulesAssumption
  <2>2. IsFiniteSet(P)
    <3>1. IsFiniteSet(1..GroupMatches)
      BY <2>1, FS_Interval
    <3> QED
      BY <3>1, FS_Subset
  <2>3. P \subseteq Nat
    BY <2>1
  <2> QED
    BY <2>1, <2>2, <2>3
<1>2. \A p \in P : GroupSchedule[p] = p
  BY DEF GroupSchedule
<1>3. /\ DOMAIN Q = 1..K /\ Len(Q) = K
      /\ \A n \in 1..K : Q[n] = GroupSchedule[PositionOf(n, P)]
  BY <1>1, PickedIs
<1>4. ToSet(Q) = {GroupSchedule[p] : p \in P}
  BY <1>1, PickedIs
<1>5. \A m, n \in 1..K : Q[m] = Q[n] => m = n
  <2>1. \A p, q \in P : GroupSchedule[p] = GroupSchedule[q] => p = q
    BY <1>2
  <2> QED
    BY <1>1, <2>1, PickedIs
<1>6. /\ K \in Nat
      /\ \A n \in 1..K : PositionOf(n, P) \in P
      /\ \A m, n \in 1..K : m < n => PositionOf(m, P) < PositionOf(n, P)
      /\ \A p \in P : \E n \in 1..K : PositionOf(n, P) = p
  BY <1>1, Positions
<1>7. K = 0 <=> P = {}
  BY <1>1, FS_EmptySet
<1> HIDE DEF Q, K
<1>8. ToSet(Q) = P
  BY <1>2, <1>4
<1>9. IsInjective(Q)
  BY <1>3, <1>5 DEF IsInjective
<1>10. Q = << >> <=> P = {}
  <2>1. K = 0 => Q = << >>
    <3> SUFFICES ASSUME K = 0 PROVE Q = << >>
      OBVIOUS
    <3>1. Q = [n \in 1..K |-> GroupSchedule[PositionOf(n, P)]]
      BY DEF Q, K, Picked
    <3> QED
      BY <3>1
  <2>2. Q = << >> => K = 0
    BY <1>3
  <2> QED
    BY <1>7, <2>1, <2>2
<1>11. ASSUME P # {} PROVE Q[1] \in P /\ \A p \in P : Q[1] <= p
  <2>1. 1 \in 1..K
    <3>1. K \in Nat /\ K # 0
      BY <1>6, <1>7, <1>11
    <3> QED
      BY <3>1
  <2>2. Q[1] = PositionOf(1, P) /\ Q[1] \in P
    <3>1. PositionOf(1, P) \in P
      BY <1>6, <2>1
    <3>2. Q[1] = GroupSchedule[PositionOf(1, P)]
      BY <1>3, <2>1
    <3> QED
      BY <1>2, <3>1, <3>2
  <2>3. ASSUME NEW p \in P PROVE Q[1] <= p
    <3>1. PICK n \in 1..K : PositionOf(n, P) = p
      BY <1>6
    <3>2. CASE n = 1
      BY <1>1, <2>2, <3>1, <3>2
    <3>3. CASE n # 1
      <4>1. 1 < n
        BY <1>6, <3>3
      <4>2. PositionOf(1, P) < PositionOf(n, P)
        BY <1>6, <2>1, <4>1
      <4> QED
        <5>1. Q[1] < p /\ p \in Nat /\ Q[1] \in Nat
          BY <1>1, <2>2, <3>1, <4>2
        <5> QED
          BY <5>1
    <3> QED
      BY <3>2, <3>3
  <2> QED
    BY <2>2, <2>3
<1> QED
  BY <1>8, <1>9, <1>10, <1>11 DEF Q

(* Whatever gaps the log has, the plan is one the group executor accepts,  *)
(* and says how long the played prefix is and which matches are pending.   *)
LEMMA GroupPlanIs ==
  ASSUME NEW log, InPlace(log)
  PROVE  /\ ValidGroupPlan(GroupPlan(log))
         /\ GroupPlan(log).count = Cardinality(GroupAt(log))
         /\ GroupPlan(log).position = PlayedPrefix(Held(log))
         /\ ToSet(GroupPlan(log).missing) = Pending(Held(log), GroupStage)
         /\ MissingMatches(GroupRecords(log)) = << >>
              <=> StageComplete(Held(log), GroupStage)
<1> DEFINE R == GroupRecords(log)
           D == Played(log)
           M == {n \in 1..GroupMatches : n \notin D}
           C == CompletedMatches(R)
           S == MissingMatches(R)
           E == Held(log)
<1>1. GroupMatches \in Nat /\ GroupStage = 0 /\ SeriesIn(GroupStage) = 1..GroupMatches
  BY RulesAssumption DEF GroupStage, SeriesIn
<1>2. /\ D \subseteq 1..GroupMatches
      /\ \A n \in 1..GroupMatches : n \in D <=> SeriesDone(E, GroupStage, n)
  BY DEF Played
<1>3. Done(R) = D
  BY GroupRecordsAre
<1>4. C = Picked(GroupSchedule, D)
  <2>1. {n \in 1..GroupMatches : n \in D} = D
    BY <1>2
  <2> QED
    BY <1>3, <2>1 DEF CompletedMatches
<1>5. S = Picked(GroupSchedule, M)
  BY <1>3 DEF MissingMatches
<1> HIDE DEF R, D, C, S, E
<1>6. ToSet(C) = D /\ IsInjective(C)
  BY <1>2, <1>4, PartOfSchedule
<1>7. M \subseteq 1..GroupMatches
  OBVIOUS
<1>8. /\ ToSet(S) = M
      /\ S = << >> <=> M = {}
      /\ M # {} => S[1] \in M /\ \A p \in M : S[1] <= p
  <2> HIDE DEF M
  <2> QED
    BY <1>5, <1>7, PartOfSchedule
<1>9. SchedulePosition(R) = PlayedPrefix(E)
  <2> DEFINE A == {n \in 1..GroupMatches : S = << >> \/ n < S[1]}
             B == {n \in 1..GroupMatches : \A s \in 1..n : SeriesDone(E, GroupStage, s)}
  <2>1. ASSUME NEW n \in 1..GroupMatches, S = << >> \/ n < S[1], NEW s \in 1..n
        PROVE  SeriesDone(E, GroupStage, s)
    <3>1. s \in 1..GroupMatches /\ s \in Int /\ n \in Int /\ s <= n
      BY <1>1
    <3>2. s \notin M
      <4> SUFFICES ASSUME s \in M PROVE FALSE
        OBVIOUS
      <4>1. M # {}
        OBVIOUS
      <4>2. S[1] \in 1..GroupMatches /\ S[1] <= s /\ n < S[1]
        BY <1>7, <1>8, <2>1, <4>1
      <4> QED
        BY <1>1, <3>1, <4>2
    <3> QED
      BY <1>2, <3>1, <3>2
  <2>2. ASSUME NEW n \in 1..GroupMatches, \A s \in 1..n : SeriesDone(E, GroupStage, s),
               S # << >>
        PROVE  n < S[1]
    <3>1. S[1] \in 1..GroupMatches /\ S[1] \notin D
      BY <1>8, <2>2
    <3>2. S[1] \notin 1..n
      BY <1>2, <2>2, <3>1
    <3> QED
      BY <1>1, <3>1, <3>2
  <2>3. A = B
    BY <2>1, <2>2
  <2>4. SchedulePosition(R) = Cardinality(A)
    BY DEF SchedulePosition, S
  <2>5. PlayedPrefix(E) = Cardinality(B)
    BY DEF PlayedPrefix
  <2> QED
    BY <2>3, <2>4, <2>5
<1>10. M = Pending(E, GroupStage)
  BY <1>1, <1>2 DEF Pending
<1>11. M = {} <=> StageComplete(E, GroupStage)
  BY <1>1, <1>2 DEF StageComplete
<1>12. /\ DOMAIN R = 1..Cardinality(GroupAt(log)) /\ Len(R) = Cardinality(GroupAt(log))
       /\ \A i \in DOMAIN R : \E p \in GroupAt(log) : R[i] = log[p]
       /\ \A i, j \in DOMAIN R : R[i].series = R[j].series => i = j
       /\ Cardinality(D) = Cardinality(GroupAt(log))
  BY GroupRecordsAre DEF R, D
<1> DEFINE plan == GroupPlan(log)
<1>13. /\ plan.records = R /\ plan.completed = C /\ plan.missing = S
       /\ plan.count = Len(R) /\ plan.position = SchedulePosition(R)
  BY DEF GroupPlan, R, C, S
<1> HIDE DEF plan
<1>14. ValidGroupPlan(plan)
  <2>1. ToSet(plan.completed) = D
    BY <1>6, <1>13
  <2>2. \A i \in DOMAIN R : Scheduled(R[i])
    <3> TAKE i \in DOMAIN R
    <3>1. PICK p \in GroupAt(log) : R[i] = log[p]
      BY <1>12
    <3> QED
      BY <3>1, LaterAre
  <2> DEFINE f == [i \in DOMAIN R |-> R[i].series]
  <2>3. IsInjective(f)
    BY <1>12 DEF IsInjective
  <2>4. Range(f) = D
    BY <1>3 DEF Range, Done
  <2>5. /\ PlayedPrefix(E) \in 0..GroupMatches
        /\ \A s \in 1..PlayedPrefix(E) : SeriesDone(E, GroupStage, s)
        /\ \A n \in 0..GroupMatches :
             (\A s \in 1..n : SeriesDone(E, GroupStage, s)) => n <= PlayedPrefix(E)
    BY PlayedPrefixIs
  <2> DEFINE k == PlayedPrefix(E)
  <2> HIDE DEF f, k
  <2>6. k \in 0..GroupMatches /\ 1..k \subseteq D
    <3>1. k \in 0..GroupMatches /\ \A s \in 1..k : SeriesDone(E, GroupStage, s)
      BY <2>5 DEF k
    <3>2. \A s \in 1..k : s \in 1..GroupMatches
      BY <1>1, <3>1
    <3> QED
      BY <1>2, <3>1, <3>2
  <2>7. k + 1 \notin D
    <3> SUFFICES ASSUME k + 1 \in D PROVE FALSE
      OBVIOUS
    <3>1. k + 1 \in 1..GroupMatches /\ k \in Nat
      BY <1>2, <2>6
    <3>2. \A s \in 1..(k + 1) : s \in 1..k \/ s = k + 1
      BY <3>1
    <3>3. \A s \in 1..(k + 1) : SeriesDone(E, GroupStage, s)
      BY <1>2, <2>5, <3>2 DEF k
    <3>4. k + 1 \in 0..GroupMatches
      BY <3>1
    <3>5. k + 1 <= k
      BY <2>5, <3>3, <3>4 DEF k
    <3> QED
      BY <3>1, <3>5
  <2>8. plan.position = k
    BY <1>9, <1>13 DEF k
  <2>9. [i \in DOMAIN plan.records |-> plan.records[i].series] = f
    BY <1>13 DEF f
  <2> QED
    BY <1>1, <1>2, <1>5, <1>6, <1>12, <1>13, <2>1, <2>2, <2>3, <2>4, <2>6, <2>7, <2>8, <2>9
       DEF ValidGroupPlan
<1> QED
  BY <1>8, <1>9, <1>10, <1>11, <1>12, <1>13, <1>14 DEF plan, R, S, E

(* What the runner leaves is such a log.                                   *)
LEMMA ResultsInPlace ==
  ASSUME Invariants
  PROVE  InPlace(results) /\ Held(results) = Accepted
<1>1. results \in Seq(Entry)
  BY DEF Invariants, TypeInv, TypeOK, DiskTypeOK
<1>2. \A i \in DOMAIN results : results[i] \in Accepted
  BY DEF Accepted
<1>3. \A i, j \in DOMAIN results : SameMatch(results[i], results[j]) => results[i] = results[j]
  BY DEF Invariants, RequestInv, UniqueResults
<1> QED
  BY <1>1, <1>2, <1>3 DEF InPlace, Held, Accepted, Invariants, StageInv, LogInv

(* The group executor's own validation never refuses a plan that recovery  *)
(* built, whatever gaps the log has, and what the executor starts from is  *)
(* what the plan says.                                                     *)
THEOREM GroupPlansAreAccepted == Spec => GroupExecutorAcceptsPlan
<1> DEFINE plan == GroupPlan(results)
<1>1. Invariants /\ PlanGroups =>
        /\ ValidGroupPlan(plan)
        /\ count' = plan.count /\ position' = plan.position
        /\ todo' = ToSet(plan.missing)
  <2> SUFFICES ASSUME Invariants, PlanGroups
               PROVE  /\ ValidGroupPlan(plan)
                      /\ count' = plan.count /\ position' = plan.position
                      /\ todo' = ToSet(plan.missing)
    OBVIOUS
  <2>1. InPlace(results) /\ Held(results) = Accepted
    BY ResultsInPlace
  <2>2. /\ ValidGroupPlan(plan)
        /\ plan.count = Cardinality(GroupAt(results))
        /\ plan.position = PlayedPrefix(Accepted)
        /\ ToSet(plan.missing) = Pending(Accepted, GroupStage)
    BY <2>1, GroupPlanIs
  <2>3. /\ count' = Cardinality(Accepted) /\ position' = PlayedPrefix(Accepted)
        /\ todo' = Pending(Accepted, GroupStage)
    BY DEF PlanGroups, LoadPlan
  <2>4. Cardinality(GroupAt(results)) = Cardinality(Accepted)
    <3>1. \A e \in Accepted : e.round = GroupStage
      BY DEF PlanGroups, KnockoutPlanned, HasKnockoutEvidence, KnockoutGames
    <3>2. \A i \in DOMAIN results : results[i].round = GroupStage
      BY <3>1 DEF Accepted
    <3>3. /\ FirstTimes(results) \subseteq DOMAIN results
          /\ \A i, j \in FirstTimes(results) : results[i] = results[j] => i = j
          /\ \A i \in DOMAIN results : \E j \in FirstTimes(results) : results[j] = results[i]
      BY <2>1, FirstTimesAre
    <3>4. GroupAt(results) = FirstTimes(results)
      BY <3>2, <3>3 DEF GroupAt
    <3>5. IsFiniteSet(FirstTimes(results))
      BY <2>1, <3>4, LaterAre
    <3>6. /\ \A i \in FirstTimes(results) : results[i] \in Accepted
          /\ \A e \in Accepted : \E i \in FirstTimes(results) : results[i] = e
      BY <3>3 DEF Accepted
    <3>7. Cardinality(Accepted) = Cardinality(FirstTimes(results))
      BY <3>3, <3>5, <3>6, ListedOnce
    <3> QED
      BY <3>4, <3>7
  <2> HIDE DEF plan
  <2> QED
    BY <2>2, <2>3, <2>4
<1> HIDE DEF plan
<1>2. Invariants /\ [Next]_vars =>
        [PlanGroups => /\ ValidGroupPlan(plan)
                       /\ count' = plan.count /\ position' = plan.position
                       /\ todo' = ToSet(plan.missing)]_vars
  BY <1>1
<1>3. Spec => [][PlanGroups => /\ ValidGroupPlan(plan)
                               /\ count' = plan.count /\ position' = plan.position
                               /\ todo' = ToSet(plan.missing)]_vars
  BY InvariantsHold, <1>2, PTL DEF Spec
<1> QED
  BY <1>3 DEF GroupExecutorAcceptsPlan, plan

------------------------------------------------------------------------------
(* Series.                                                                 *)

(* The games of a series, listed once each, say what their set says.       *)
LEMMA ListedGames ==
  ASSUME NEW R, NEW n \in Nat, DOMAIN R = 1..n, Len(R) = n,
         \A i, j \in 1..n : R[i] = R[j] => i = j,
         NEW E, NEW r, NEW s,
         \A i \in 1..n : R[i] \in Games(E, r, s),
         \A e \in Games(E, r, s) : \E i \in 1..n : R[i] = e
  PROVE  /\ Cardinality(Games(E, r, s)) = n
         /\ \A slot : Won(R, slot) = Wins(E, r, s, slot)
         /\ Decided(R) <=> SeriesDecided(E, r, s)
         /\ NextGame(E, r, s) = n + 1
<1> DEFINE G == Games(E, r, s)
<1>1. IsFiniteSet(1..n) /\ Cardinality(1..n) = n
  BY FS_Interval
<1>2. Cardinality(G) = n
  <2> HIDE DEF G
  <2>1. (\A i \in 1..n : R[i] \in G) /\ \A e \in G : \E i \in 1..n : R[i] = e
    BY DEF G
  <2>2. IsFiniteSet(G) /\ Cardinality(G) = Cardinality(1..n)
    BY <1>1, <2>1, ListedOnce
  <2> QED
    BY <1>1, <2>2
<1>3. ASSUME NEW slot PROVE Won(R, slot) = Wins(E, r, s, slot)
  <2> DEFINE P == {i \in 1..n : R[i].outcome = slot}
             W == {e \in G : e.outcome = slot}
  <2>1. IsFiniteSet(P)
    BY <1>1, FS_Subset
  <2>2. /\ \A p \in P : R[p] \in W
        /\ \A e \in W : \E p \in P : R[p] = e
        /\ \A p, q \in P : R[p] = R[q] => p = q
    OBVIOUS
  <2>3. Won(R, slot) = Cardinality(P)
    BY DEF Won
  <2>4. Wins(E, r, s, slot) = Cardinality(W)
    BY DEF Wins
  <2> HIDE DEF P, W
  <2>5. IsFiniteSet(W) /\ Cardinality(W) = Cardinality(P)
    BY <2>1, <2>2, ListedOnce
  <2> QED
    BY <2>3, <2>4, <2>5
<1>4. Decided(R) <=> SeriesDecided(E, r, s)
  BY <1>2, <1>3 DEF Decided, SeriesDecided
<1> QED
  BY <1>2, <1>3, <1>4 DEF NextGame

(* Where the games of a series are that count, and what counts before a    *)
(* position.                                                               *)
SeriesAt(log, r, s) == {i \in Later(log) : log[i].round = r /\ log[i].series = s}

(* The knockout records that counted before position i.                    *)
Earlier(log, i) == {log[j] : j \in {k \in Later(log) : k < i}}

(* The records listed for a series are its games in the log, each once, in *)
(* the order of their positions.                                           *)
LEMMA SeriesRecordsAre ==
  ASSUME NEW log, InPlace(log), NEW r \in 1..Rounds, NEW s
  PROVE  LET R == SeriesRecords(log, r, s)
             P == SeriesAt(log, r, s)
             n == Cardinality(P)
         IN  /\ n \in Nat /\ DOMAIN R = 1..n /\ Len(R) = n /\ R \in Seq(Entry)
             /\ \A k \in 1..n : R[k] = log[PositionOf(k, P)] /\ PositionOf(k, P) \in P
             /\ \A j, k \in 1..n : R[j] = R[k] => j = k
             /\ \A k \in 1..n : R[k] \in Games(Held(log), r, s)
             /\ \A e \in Games(Held(log), r, s) : \E k \in 1..n : R[k] = e
<1> DEFINE R == SeriesRecords(log, r, s)
           P == SeriesAt(log, r, s)
           n == Cardinality(P)
<1>1. P \subseteq Later(log) /\ Later(log) \subseteq FirstTimes(log)
  BY DEF SeriesAt, Later
<1>2. IsFiniteSet(P) /\ P \subseteq Nat
  BY <1>1, LaterAre, FS_Subset
<1>3. R = Picked(log, P)
  BY DEF SeriesRecords, SeriesAt
<1>4. \A p, q \in P : log[p] = log[q] => p = q
  BY <1>1, FirstTimesAre
<1>5. \A p \in P : log[p] \in Entry /\ log[p] \in Games(Held(log), r, s)
  BY <1>1, FirstTimesAre DEF SeriesAt, Games, Held
<1>6. ASSUME NEW e \in Games(Held(log), r, s) PROVE \E p \in P : log[p] = e
  <2>1. PICK i \in DOMAIN log : log[i] = e
    BY DEF Games, Held
  <2>2. PICK p \in FirstTimes(log) : log[p] = e
    BY <2>1, FirstTimesAre
  <2>3. e.round = r /\ e.series = s /\ r # GroupStage
    BY DEF Games, GroupStage
  <2> QED
    BY <2>2, <2>3, LaterAre DEF SeriesAt
<1> HIDE DEF R, P
<1> DEFINE T == Picked(log, P)
<1>7. /\ n \in Nat
      /\ \A k \in 1..n : PositionOf(k, P) \in P
      /\ \A p \in P : \E k \in 1..n : PositionOf(k, P) = p
  BY <1>2, Positions
<1>8. /\ DOMAIN T = 1..n /\ Len(T) = n
      /\ \A k \in 1..n : T[k] = log[PositionOf(k, P)]
  BY <1>2, PickedIs
<1>9. \A j, k \in 1..n : T[j] = T[k] => j = k
  BY <1>2, <1>4, PickedIs
<1>10. T = [k \in 1..n |-> log[PositionOf(k, P)]]
  BY DEF Picked
<1> HIDE DEF T, n
<1>11. T \in Seq(Entry)
  BY <1>5, <1>7, <1>10
<1>12. \A k \in 1..n : T[k] \in Games(Held(log), r, s)
  BY <1>5, <1>7, <1>8
<1>13. \A e \in Games(Held(log), r, s) : \E k \in 1..n : T[k] = e
  BY <1>6, <1>7, <1>8
<1>14. R = T
  BY <1>3 DEF T
<1> QED
  BY <1>7, <1>8, <1>9, <1>11, <1>12, <1>13, <1>14 DEF R, P, n

(* A series is over by its records just when it is by what the log holds.  *)
LEMMA SeriesRecordsSay ==
  ASSUME NEW log, InPlace(log), NEW r \in 1..Rounds, NEW s
  PROVE  /\ Decided(SeriesRecords(log, r, s)) <=> SeriesDecided(Held(log), r, s)
         /\ NextGame(Held(log), r, s) = Len(SeriesRecords(log, r, s)) + 1
         /\ Cardinality(Games(Held(log), r, s)) = Len(SeriesRecords(log, r, s))
<1> DEFINE R == SeriesRecords(log, r, s)
           n == Cardinality(SeriesAt(log, r, s))
           E == Held(log)
<1>1. /\ n \in Nat /\ DOMAIN R = 1..n /\ Len(R) = n
      /\ \A j, k \in 1..n : R[j] = R[k] => j = k
      /\ \A k \in 1..n : R[k] \in Games(E, r, s)
      /\ \A e \in Games(E, r, s) : \E k \in 1..n : R[k] = e
  BY SeriesRecordsAre
<1> HIDE DEF R, n, E
<1>2. /\ Cardinality(Games(E, r, s)) = n
      /\ Decided(R) <=> SeriesDecided(E, r, s)
      /\ NextGame(E, r, s) = n + 1
  BY <1>1, ListedGames
<1> QED
  BY <1>1, <1>2 DEF R, E

(* A round's evaluations call it complete when the rules do.               *)
LEMMA RoundCompleteIs ==
  ASSUME NEW log, InPlace(log), NEW r \in 1..Rounds
  PROVE  RoundComplete(log, r) <=> StageComplete(Held(log), r)
<1>1. r # GroupStage
  BY DEF GroupStage
<1>2. \A s : Decided(SeriesRecords(log, r, s)) <=> SeriesDecided(Held(log), r, s)
  BY SeriesRecordsSay
<1>3. \A s \in SeriesIn(r) :
        RoundEvaluations(log, r)[s].complete <=> Decided(SeriesRecords(log, r, s))
  BY DEF RoundEvaluations, Evaluation
<1> QED
  BY <1>1, <1>2, <1>3 DEF RoundComplete, StageComplete, SeriesDone

(* What comes before a record in its series, as a list and as a set.       *)
LEMMA PrefixSays ==
  ASSUME NEW log, InPlace(log), NEW r \in 1..Rounds, NEW s,
         NEW k \in 1..Cardinality(SeriesAt(log, r, s))
  PROVE  LET i == PositionOf(k, SeriesAt(log, r, s))
             T == SubSeq(SeriesRecords(log, r, s), 1, k - 1)
         IN  /\ NextGame(Earlier(log, i), r, s) = k
             /\ Decided(T) <=> SeriesDecided(Earlier(log, i), r, s)
<1> DEFINE R == SeriesRecords(log, r, s)
           P == SeriesAt(log, r, s)
           n == Cardinality(P)
           i == PositionOf(k, P)
           T == SubSeq(R, 1, k - 1)
           E == Earlier(log, i)
<1>1. /\ n \in Nat /\ DOMAIN R = 1..n /\ Len(R) = n /\ R \in Seq(Entry)
      /\ \A m \in 1..n : R[m] = log[PositionOf(m, P)] /\ PositionOf(m, P) \in P
      /\ \A j, m \in 1..n : R[j] = R[m] => j = m
  BY SeriesRecordsAre
<1>2. IsFiniteSet(P) /\ P \subseteq Nat
  <2>1. P \subseteq Later(log)
    BY DEF SeriesAt
  <2> QED
    BY <2>1, LaterAre, FS_Subset
<1>3. /\ \A j, m \in 1..n : j < m => PositionOf(j, P) < PositionOf(m, P)
      /\ \A p \in P : \E m \in 1..n : PositionOf(m, P) = p
  <2> HIDE DEF P
  <2> QED
    BY <1>2, Positions
<1>4. k \in 1..n
  OBVIOUS
<1> HIDE DEF R, P, n, T
<1>5. /\ k - 1 \in Nat /\ k \in Nat /\ \A m \in 1..(k - 1) : m \in 1..n /\ m < k
      /\ k - 1 <= n
  BY <1>1, <1>4
<1>6. DOMAIN T = 1..(k - 1) /\ Len(T) = k - 1 /\ \A m \in 1..(k - 1) : T[m] = R[m]
  <2>1. \A m \in 1..(k - 1) : R[m] \in Entry
    BY <1>1, <1>5, ElementOfSeq
  <2>2. /\ T \in Seq(Entry)
        /\ Len(T) = IF 1 <= k - 1 THEN (k - 1) - 1 + 1 ELSE 0
        /\ \A m \in 1..((k - 1) - 1 + 1) : T[m] = R[1 + m - 1]
    BY <1>5, <2>1, SubSeqProperties DEF T
  <2>3. Len(T) = k - 1 /\ \A m \in 1..(k - 1) : T[m] = R[m]
    BY <1>5, <2>2
  <2> QED
    BY <2>2, <2>3, LenProperties
<1>7. ASSUME NEW m \in 1..(k - 1) PROVE T[m] \in Games(E, r, s)
  <2> DEFINE j == PositionOf(m, P)
  <2>1. m \in 1..n /\ m < k
    BY <1>5
  <2>2. T[m] = log[j] /\ j \in P /\ j < i
    BY <1>1, <1>3, <1>4, <1>6, <2>1
  <2> HIDE DEF j, i
  <2>3. j \in Later(log) /\ log[j].round = r /\ log[j].series = s
    BY <2>2 DEF SeriesAt, P
  <2> QED
    BY <2>2, <2>3 DEF Games, Earlier
<1>8. ASSUME NEW e \in Games(E, r, s) PROVE \E m \in 1..(k - 1) : T[m] = e
  <2>1. PICK j \in Later(log) : j < i /\ log[j] = e
    BY DEF Games, Earlier
  <2>2. j \in P
    BY <2>1 DEF P, SeriesAt, Games
  <2>3. PICK m \in 1..n : PositionOf(m, P) = j
    BY <1>3, <2>2
  <2>4. m < k
    <3> SUFFICES ASSUME ~(m < k) PROVE FALSE
      OBVIOUS
    <3>1. m = k \/ k < m
      BY <1>1, <1>5
    <3>2. i \in Nat /\ j \in Nat
      BY <1>1, <1>2, <1>4, <2>2
    <3>3. i = j \/ i < j
      BY <1>3, <1>4, <2>3, <3>1
    <3> QED
      BY <2>1, <3>2, <3>3
  <2>5. m \in 1..(k - 1)
    BY <1>1, <1>5, <2>4
  <2>6. T[m] = e
    BY <1>1, <1>6, <2>1, <2>3, <2>5
  <2> QED
    BY <2>5, <2>6
<1>9. \A j, m \in 1..(k - 1) : T[j] = T[m] => j = m
  BY <1>1, <1>5, <1>6
<1> HIDE DEF E, i
<1>10. NextGame(E, r, s) = (k - 1) + 1 /\ (Decided(T) <=> SeriesDecided(E, r, s))
  BY <1>5, <1>6, <1>7, <1>8, <1>9, ListedGames
<1> QED
  BY <1>5, <1>10 DEF E, i, T, R, P

(* The games of a series are in order and none comes after it was decided, *)
(* by the planner's lists and by what the log held at each record.         *)
OpenAt(log, i) ==
  /\ log[i].game = NextGame(Earlier(log, i), log[i].round, log[i].series)
  /\ ~SeriesDecided(Earlier(log, i), log[i].round, log[i].series)

(* Games numbered in turn, none after the decision: the planner's test of a*)
(* series' list is the rules' test of every record of it.                  *)
LEMMA SeriesOpenIs ==
  ASSUME NEW log, InPlace(log), NEW r \in 1..Rounds, NEW s
  PROVE  GamesInOrder(SeriesRecords(log, r, s)) /\ Playable(SeriesRecords(log, r, s))
           <=> \A i \in SeriesAt(log, r, s) : OpenAt(log, i)
<1> DEFINE R == SeriesRecords(log, r, s)
           P == SeriesAt(log, r, s)
           n == Cardinality(P)
<1>1. /\ n \in Nat /\ DOMAIN R = 1..n /\ Len(R) = n
      /\ \A m \in 1..n : R[m] = log[PositionOf(m, P)] /\ PositionOf(m, P) \in P
  BY SeriesRecordsAre
<1>2. \A p \in P : \E m \in 1..n : PositionOf(m, P) = p
  <2>1. P \subseteq Later(log)
    BY DEF SeriesAt
  <2>2. IsFiniteSet(P) /\ P \subseteq Nat
    BY <2>1, LaterAre, FS_Subset
  <2> HIDE DEF P
  <2> QED
    BY <2>2, Positions
<1>3. \A i \in P : log[i].round = r /\ log[i].series = s
  BY DEF SeriesAt
<1>4. ASSUME NEW k \in 1..n
      PROVE  /\ NextGame(Earlier(log, PositionOf(k, P)), r, s) = k
             /\ Decided(SubSeq(R, 1, k - 1))
                  <=> SeriesDecided(Earlier(log, PositionOf(k, P)), r, s)
  BY PrefixSays
<1> HIDE DEF R, P, n
<1>5. ASSUME NEW k \in 1..n
      PROVE  OpenAt(log, PositionOf(k, P))
               <=> R[k].game = k /\ ~Decided(SubSeq(R, 1, k - 1))
  <2>1. log[PositionOf(k, P)].round = r /\ log[PositionOf(k, P)].series = s
        /\ R[k] = log[PositionOf(k, P)]
    BY <1>1, <1>3
  <2> QED
    BY <1>4, <2>1 DEF OpenAt
<1>6. GamesInOrder(R) <=> \A k \in 1..n : R[k].game = k
  BY <1>1 DEF GamesInOrder
<1>7. Playable(R) <=> \A k \in 1..n : ~Decided(SubSeq(R, 1, k - 1))
  <2>1. Playable(R) <=> \A m \in 0..(n - 1) : ~Decided(SubSeq(R, 1, m))
    BY <1>1 DEF Playable
  <2>2. \A k \in 1..n : k - 1 \in 0..(n - 1)
    BY <1>1
  <2>3. \A m \in 0..(n - 1) : m + 1 \in 1..n /\ (m + 1) - 1 = m
    BY <1>1
  <2> QED
    BY <2>1, <2>2, <2>3
<1>8. (\A i \in P : OpenAt(log, i)) <=> \A k \in 1..n : OpenAt(log, PositionOf(k, P))
  BY <1>1, <1>2
<1> QED
  BY <1>5, <1>6, <1>7, <1>8 DEF R, P

------------------------------------------------------------------------------
(* What the planner accepts.                                               *)

(* The rounds planned are the first ones up to the planned one: those      *)
(* before it are complete, and it is not, unless it is the final.          *)
LEMMA PlannedRoundsAre ==
  ASSUME NEW log
  PROVE  /\ PlannedRound(log) \in 1..Rounds
         /\ PlannedRounds(log) = 1..PlannedRound(log)
         /\ \A q \in 1..(PlannedRound(log) - 1) : RoundComplete(log, q)
         /\ PlannedRound(log) # Rounds => ~RoundComplete(log, PlannedRound(log))
<1> DEFINE S == PlannedRounds(log)
           k == PlannedRound(log)
<1>1. Rounds \in Nat /\ Rounds >= 1
  BY RulesAssumption
<1>2. \A r \in 1..Rounds : r \in S <=> \A q \in 1..(r - 1) : RoundComplete(log, q)
  BY DEF PlannedRounds
<1>3. S \subseteq 1..Rounds
  BY DEF PlannedRounds
<1>4. k = Cardinality(S)
  BY DEF PlannedRound
<1> HIDE DEF S, k
<1>5. \A r \in S : \A j \in 1..r : j \in S
  <2> TAKE r \in S
  <2> TAKE j \in 1..r
  <2>1. r \in 1..Rounds /\ j \in 1..Rounds /\ j <= r
    BY <1>1, <1>3
  <2>2. \A q \in 1..(j - 1) : q \in 1..(r - 1)
    BY <1>1, <2>1
  <2> QED
    BY <1>2, <2>1, <2>2
<1>6. Cardinality(S) \in 0..Rounds /\ S = 1..Cardinality(S)
  BY <1>1, <1>3, <1>5, WithoutGaps
<1>7. 1 \in S
  <2>1. 1 \in 1..Rounds /\ 1..(1 - 1) = {}
    BY <1>1
  <2> QED
    BY <1>2, <2>1
<1>8. k \in 1..Rounds /\ S = 1..k /\ k \in S
  <2>1. k \in 0..Rounds /\ S = 1..k
    BY <1>4, <1>6
  <2>2. 1 <= k
    BY <1>7, <2>1
  <2> QED
    BY <1>1, <2>1, <2>2
<1>9. \A q \in 1..(k - 1) : RoundComplete(log, q)
  BY <1>2, <1>8
<1>10. ASSUME k # Rounds, RoundComplete(log, k) PROVE FALSE
  <2>1. k + 1 \in 1..Rounds /\ k + 1 \notin 1..k /\ (k + 1) - 1 = k
    BY <1>1, <1>8, <1>10
  <2>2. \A q \in 1..k : q \in 1..(k - 1) \/ q = k
    BY <1>8
  <2>3. \A q \in 1..((k + 1) - 1) : RoundComplete(log, q)
    BY <1>9, <1>10, <2>1, <2>2
  <2> QED
    BY <1>2, <1>8, <2>1, <2>3
<1> QED
  BY <1>8, <1>9, <1>10 DEF S, k

(* The history of a run, as far as the log goes: the rounds in the order   *)
(* of their games, none before the earlier ones are complete.              *)
RoundsFollow(log) ==
  /\ \A i, j \in Later(log) : i < j => log[i].round <= log[j].round
  /\ \A i \in Later(log) : \A r \in 1..(log[i].round - 1) : StageComplete(Held(log), r)

(* What the state layer asks of a log before recovery looks at it.         *)
RecoverableLog(log) ==
  Later(log) # {} => /\ StageComplete(Held(log), GroupStage)
                     /\ \A i \in Later(log) : OpenAt(log, i)
                     /\ RoundsFollow(log)

(* The records that are no group records are those of a knockout round.    *)
LEMMA LaterRounds ==
  ASSUME NEW log, InPlace(log), NEW i \in Later(log)
  PROVE  /\ log[i] \in Entry /\ log[i].round \in 1..Rounds /\ i \in Nat
         /\ log[i].series \in SeriesIn(log[i].round)
         /\ i \in SeriesAt(log, log[i].round, log[i].series)
         /\ i \in DOMAIN log
<1>1. i \in DOMAIN log /\ log[i] \in Entry /\ log[i].round # GroupStage /\ i \in Nat
  BY FirstTimesAre, LaterAre
<1>2. log[i].round \in 0..Rounds /\ Rounds \in Nat
  BY <1>1, RulesAssumption DEF Entry
<1>3. log[i].round \in 1..Rounds
  BY <1>1, <1>2 DEF GroupStage
<1> QED
  BY <1>1, <1>3 DEF InPlace, Placed, SeriesAt

(* The planner's walk through the rounds refuses what is no history.       *)
LEMMA AcceptedIsRecoverable ==
  ASSUME NEW log, InPlace(log), RecoveryAccepts(log)
  PROVE  /\ RecoverableLog(log)
         /\ \A i \in Later(log) : log[i].round <= PlannedRound(log)
<1> DEFINE last == PlannedRound(log)
<1>1. /\ last \in 1..Rounds /\ PlannedRounds(log) = 1..last
      /\ \A q \in 1..(last - 1) : RoundComplete(log, q)
      /\ last # Rounds => ~RoundComplete(log, last)
  BY PlannedRoundsAre
<1>0. Rounds \in Nat
  BY RulesAssumption
<1> HIDE DEF last
<1>2. \A r \in 1..last :
        /\ \A s \in SeriesIn(r) : /\ GamesInOrder(SeriesRecords(log, r, s))
                                  /\ Playable(SeriesRecords(log, r, s))
        /\ BarrierKept(log, r)
  BY <1>1 DEF RecoveryAccepts
<1>3. ASSUME NEW i \in Later(log) PROVE log[i].round <= last
  <2>1. log[i].round \in 1..Rounds
    BY LaterRounds
  <2> SUFFICES ASSUME last < log[i].round PROVE FALSE
    BY <1>1, <2>1
  <2>2. ~RoundComplete(log, last)
    BY <1>1, <2>1
  <2>3. last \in 1..last
    BY <1>1
  <2> QED
    BY <1>2, <2>2, <2>3 DEF BarrierKept
<1>4. \A r \in 1..(last - 1) : StageComplete(Held(log), r)
  <2>1. \A r \in 1..(last - 1) : r \in 1..Rounds
    BY <1>0, <1>1
  <2> QED
    BY <1>1, <2>1, RoundCompleteIs
<1>5. ASSUME NEW i \in Later(log) PROVE OpenAt(log, i)
  <2> DEFINE r == log[i].round
             s == log[i].series
  <2>1. r \in 1..Rounds /\ s \in SeriesIn(r) /\ i \in SeriesAt(log, r, s)
    BY LaterRounds
  <2>2. r \in 1..last
    BY <1>1, <1>3, <2>1
  <2> HIDE DEF r, s
  <2>3. GamesInOrder(SeriesRecords(log, r, s)) /\ Playable(SeriesRecords(log, r, s))
    BY <1>2, <2>1, <2>2
  <2> QED
    BY <2>1, <2>3, SeriesOpenIs
<1>6. RoundsFollow(log)
  <2>1. ASSUME NEW i \in Later(log), NEW j \in Later(log), i < j
        PROVE  log[i].round <= log[j].round
    <3>1. log[i].round \in 1..Rounds /\ log[j].round \in 1..Rounds /\ i \in Nat /\ j \in Nat
      BY LaterRounds
    <3> SUFFICES ASSUME log[j].round < log[i].round PROVE FALSE
      BY <1>0, <3>1
    <3> DEFINE r == log[j].round
    <3>2. r \in 1..last /\ log[i].round > r
      BY <1>0, <1>1, <1>3, <3>1
    <3>3. BarrierKept(log, r)
      BY <1>2, <3>2
    <3>4. /\ i \in {k \in Later(log) : log[k].round > r}
          /\ j \in {k \in Later(log) : log[k].round = r}
      BY <3>2
    <3>5. j < i
      <4> HIDE DEF r
      <4> QED
        BY <3>3, <3>4 DEF BarrierKept
    <3> QED
      BY <2>1, <3>1, <3>5
  <2>2. ASSUME NEW i \in Later(log), NEW r \in 1..(log[i].round - 1)
        PROVE  StageComplete(Held(log), r)
    <3>1. log[i].round \in 1..Rounds /\ log[i].round <= last
      BY <1>3, LaterRounds
    <3>2. r \in 1..(last - 1)
      BY <1>0, <1>1, <3>1
    <3> QED
      BY <1>4, <3>2
  <2> QED
    BY <2>1, <2>2 DEF RoundsFollow
<1>7. Later(log) # {} => StageComplete(Held(log), GroupStage)
  BY GroupPlanIs DEF RecoveryAccepts
<1> QED
  BY <1>3, <1>5, <1>6, <1>7 DEF RecoverableLog, last

(* And it refuses no history.                                              *)
LEMMA RecoverableIsAccepted ==
  ASSUME NEW log, InPlace(log), RecoverableLog(log),
         \A i \in Later(log) : KnownGame(log[i])
  PROVE  RecoveryAccepts(log)
<1>1. /\ PlannedRound(log) \in 1..Rounds /\ PlannedRounds(log) = 1..PlannedRound(log)
      /\ Rounds \in Nat
  BY PlannedRoundsAre, RulesAssumption
<1>2. \A i \in Later(log) : OpenAt(log, i)
  BY DEF RecoverableLog
<1>3. Later(log) # {} => RoundsFollow(log)
  BY DEF RecoverableLog
<1>4. Later(log) # {} => MissingMatches(GroupRecords(log)) = << >>
  BY GroupPlanIs DEF RecoverableLog
<1>5. ASSUME NEW r \in PlannedRounds(log)
      PROVE  /\ \A s \in SeriesIn(r) : /\ GamesInOrder(SeriesRecords(log, r, s))
                                       /\ Playable(SeriesRecords(log, r, s))
             /\ BarrierKept(log, r)
  <2>1. r \in 1..Rounds
    BY <1>1
  <2>2. \A s : GamesInOrder(SeriesRecords(log, r, s)) /\ Playable(SeriesRecords(log, r, s))
    <3> TAKE s
    <3>1. \A i \in SeriesAt(log, r, s) : OpenAt(log, i)
      BY <1>2 DEF SeriesAt
    <3> QED
      BY <2>1, <3>1, SeriesOpenIs
  <2>3. ASSUME RoundComplete(log, r), NEW i \in Later(log), NEW j \in Later(log),
               log[i].round > r, log[j].round = r
        PROVE  j < i
    <3>1. /\ i \in Nat /\ j \in Nat /\ log[i].round \in 1..Rounds /\ i # j
          /\ ~(log[i].round <= log[j].round)
      <4>1. i \in Nat /\ j \in Nat /\ log[i].round \in 1..Rounds
        BY LaterRounds
      <4> QED
        BY <1>1, <2>1, <2>3, <4>1
    <3>2. ~(i < j)
      BY <1>3, <3>1 DEF RoundsFollow
    <3> QED
      BY <3>1, <3>2
  <2>4. ASSUME ~RoundComplete(log, r), NEW i \in Later(log), log[i].round > r PROVE FALSE
    <3>1. log[i].round \in 1..Rounds
      BY LaterRounds
    <3>2. r \in 1..(log[i].round - 1)
      BY <1>1, <2>1, <2>4, <3>1
    <3>3. StageComplete(Held(log), r)
      BY <1>3, <3>2 DEF RoundsFollow
    <3> QED
      BY <2>1, <2>4, <3>3, RoundCompleteIs
  <2>5. BarrierKept(log, r)
    BY <2>3, <2>4 DEF BarrierKept
  <2> QED
    BY <2>2, <2>5
<1> QED
  BY <1>4, <1>5 DEF RecoveryAccepts

(* No series goes on after the last game it may have.                      *)
LEMMA GamesCapped ==
  ASSUME NEW log, InPlace(log), NEW r \in 1..Rounds, NEW s,
         Playable(SeriesRecords(log, r, s))
  PROVE  /\ Len(SeriesRecords(log, r, s)) \in 0..GameCap
         /\ ~Decided(SeriesRecords(log, r, s)) => Len(SeriesRecords(log, r, s)) < GameCap
<1> DEFINE R == SeriesRecords(log, r, s)
           n == Cardinality(SeriesAt(log, r, s))
<1>1. n \in Nat /\ DOMAIN R = 1..n /\ Len(R) = n /\ R \in Seq(Entry)
  BY SeriesRecordsAre
<1>2. GameCap \in Nat
  BY RulesAssumption
<1> HIDE DEF R, n
<1>3. n <= GameCap
  <2> SUFFICES ASSUME GameCap < n PROVE FALSE
    BY <1>1, <1>2
  <2>1. GameCap \in 0..(Len(R) - 1) /\ GameCap <= Len(R)
    BY <1>1, <1>2
  <2>2. Len(SubSeq(R, 1, GameCap)) = GameCap
    <3>1. \A m \in 1..GameCap : R[m] \in Entry
      BY <1>1, <2>1, <1>2, ElementOfSeq
    <3>2. Len(SubSeq(R, 1, GameCap)) = IF 1 <= GameCap THEN GameCap - 1 + 1 ELSE 0
      BY <1>2, <3>1, SubSeqProperties
    <3> QED
      BY <1>2, <3>2
  <2>3. ~Decided(SubSeq(R, 1, GameCap))
    BY <2>1 DEF Playable, R
  <2> QED
    BY <2>2, <2>3 DEF Decided
<1>4. ~Decided(R) => n # GameCap
  BY <1>1 DEF Decided
<1> QED
  BY <1>1, <1>2, <1>3, <1>4 DEF R

(* A log in order has no game beyond the cap of its series.                *)
LEMMA OpenIsKnown ==
  ASSUME NEW log, InPlace(log), \A i \in Later(log) : OpenAt(log, i)
  PROVE  \A i \in Later(log) : KnownGame(log[i])
<1> TAKE i \in Later(log)
<1> DEFINE r == log[i].round
           s == log[i].series
           R == SeriesRecords(log, r, s)
           P == SeriesAt(log, r, s)
           n == Cardinality(P)
<1>1. r \in 1..Rounds /\ s \in SeriesIn(r) /\ i \in P
  BY LaterRounds
<1>2. \A j \in P : OpenAt(log, j)
  BY DEF SeriesAt
<1> HIDE DEF r, s
<1>3. GamesInOrder(R) /\ Playable(R)
  BY <1>1, <1>2, SeriesOpenIs
<1>4. Len(R) \in 0..GameCap /\ GameCap \in Nat
  BY <1>1, <1>3, GamesCapped, RulesAssumption
<1>5. /\ n \in Nat /\ DOMAIN R = 1..n /\ Len(R) = n
      /\ \A k \in 1..n : R[k] = log[PositionOf(k, P)]
  BY <1>1, SeriesRecordsAre
<1>6. \E k \in 1..n : PositionOf(k, P) = i
  <2>1. P \subseteq Later(log)
    BY DEF SeriesAt
  <2>2. IsFiniteSet(P) /\ P \subseteq Nat
    BY <2>1, LaterAre, FS_Subset
  <2> HIDE DEF P
  <2> QED
    BY <1>1, <2>2, Positions
<1> HIDE DEF R, P, n
<1>7. PICK k \in 1..n : R[k] = log[i]
  BY <1>5, <1>6
<1>8. log[i].game = k
  BY <1>3, <1>5, <1>7 DEF GamesInOrder
<1>9. log[i].game \in 1..GameCap
  BY <1>4, <1>5, <1>7, <1>8
<1> QED
  BY <1>1, <1>9 DEF KnownGame, r, s

------------------------------------------------------------------------------
(* Lists of lists.                                                         *)

(* F holds the elements of the first k lists and no others, and each once  *)
(* if each is listed once.                                                 *)
ListedApart(parts) ==
  \A p, q \in DOMAIN parts : \A i \in DOMAIN parts[p], j \in DOMAIN parts[q] :
    parts[p][i] = parts[q][j] => p = q /\ i = j

(* F holds just what the first k of the parts hold.                        *)
Gathers(F, parts, k, S) ==
  /\ F \in Seq(S)
  /\ \A i \in DOMAIN F : \E p \in 1..k : \E j \in DOMAIN parts[p] : F[i] = parts[p][j]
  /\ \A p \in 1..k : \A j \in DOMAIN parts[p] : \E i \in DOMAIN F : F[i] = parts[p][j]
  /\ ListedApart(parts) => \A i, j \in DOMAIN F : F[i] = F[j] => i = j

(* One list more.                                                          *)
LEMMA GathersMore ==
  ASSUME NEW S, NEW parts, NEW n \in Nat, DOMAIN parts = 1..n,
         \A p \in 1..n : parts[p] \in Seq(S),
         NEW k \in 1..n, k # 1, NEW F, Gathers(F, parts, k - 1, S)
  PROVE  Gathers(F \o parts[k], parts, k, S)
<1> DEFINE T == parts[k]
           H == F \o T
<1>1. /\ k \in Nat /\ k - 1 \in Nat /\ 1..k = 1..(k - 1) \cup {k}
      /\ k \notin 1..(k - 1) /\ 1..k \subseteq 1..n
  OBVIOUS
<1>2. F \in Seq(S) /\ T \in Seq(S)
  BY DEF Gathers
<1>3. /\ Len(F) \in Nat /\ DOMAIN F = 1..Len(F)
      /\ Len(T) \in Nat /\ DOMAIN T = 1..Len(T)
  BY <1>2, LenProperties
<1>4. /\ H \in Seq(S) /\ Len(H) = Len(F) + Len(T)
      /\ \A i \in 1..(Len(F) + Len(T)) : H[i] = IF i <= Len(F) THEN F[i] ELSE T[i - Len(F)]
  BY <1>2, ConcatProperties
<1>5. DOMAIN H = 1..(Len(F) + Len(T))
  BY <1>4, LenProperties
<1> HIDE DEF H, T
<1>6. \A i \in DOMAIN H : \/ i \in DOMAIN F /\ H[i] = F[i]
                          \/ i - Len(F) \in DOMAIN T /\ H[i] = T[i - Len(F)]
                             /\ i \notin DOMAIN F
  <2> TAKE i \in DOMAIN H
  <2>1. CASE i <= Len(F)
    BY <1>3, <1>4, <1>5, <2>1
  <2>2. CASE ~(i <= Len(F))
    <3>1. i - Len(F) \in 1..Len(T) /\ i \notin 1..Len(F)
      BY <1>3, <1>5, <2>2
    <3> QED
      BY <1>3, <1>4, <1>5, <2>2, <3>1
  <2> QED
    BY <2>1, <2>2
<1>7. \A i \in DOMAIN F : i \in DOMAIN H /\ H[i] = F[i]
  <2> TAKE i \in DOMAIN F
  <2>1. i \in 1..(Len(F) + Len(T)) /\ i <= Len(F)
    BY <1>3
  <2> QED
    BY <1>4, <1>5, <2>1
<1>8. \A j \in DOMAIN T : j + Len(F) \in DOMAIN H /\ H[j + Len(F)] = T[j]
  <2> TAKE j \in DOMAIN T
  <2>1. /\ j + Len(F) \in 1..(Len(F) + Len(T)) /\ ~(j + Len(F) <= Len(F))
        /\ (j + Len(F)) - Len(F) = j
    BY <1>3
  <2> QED
    BY <1>4, <1>5, <2>1
<1>9. \A i \in DOMAIN H : \E p \in 1..k : \E j \in DOMAIN parts[p] : H[i] = parts[p][j]
  <2> TAKE i \in DOMAIN H
  <2>1. CASE i \in DOMAIN F /\ H[i] = F[i]
    <3>1. PICK p \in 1..(k - 1) : \E j \in DOMAIN parts[p] : F[i] = parts[p][j]
      BY <2>1 DEF Gathers
    <3> QED
      BY <1>1, <2>1, <3>1
  <2>2. CASE i - Len(F) \in DOMAIN T /\ H[i] = T[i - Len(F)]
    <3>1. k \in 1..k
      BY <1>1
    <3> QED
      BY <2>2, <3>1 DEF T
  <2> QED
    BY <1>6, <2>1, <2>2
<1>10. \A p \in 1..k : \A j \in DOMAIN parts[p] : \E i \in DOMAIN H : H[i] = parts[p][j]
  <2> TAKE p \in 1..k
  <2> TAKE j \in DOMAIN parts[p]
  <2>1. CASE p \in 1..(k - 1)
    <3>1. PICK i \in DOMAIN F : F[i] = parts[p][j]
      BY <2>1 DEF Gathers
    <3> QED
      BY <1>7, <3>1
  <2>2. CASE p = k
    <3>1. j \in DOMAIN T /\ T[j] = parts[p][j]
      BY <2>2 DEF T
    <3> QED
      BY <1>8, <3>1
  <2> QED
    BY <1>1, <2>1, <2>2
<1>11. ASSUME ListedApart(parts), NEW i \in DOMAIN H, NEW j \in DOMAIN H, H[i] = H[j]
       PROVE  i = j
  <2>1. \A a, b \in DOMAIN F : F[a] = F[b] => a = b
    BY <1>11 DEF Gathers
  <2>2. ASSUME NEW a \in DOMAIN F, NEW b \in DOMAIN T, F[a] = T[b] PROVE FALSE
    <3>1. PICK p \in 1..(k - 1) : \E c \in DOMAIN parts[p] : F[a] = parts[p][c]
      BY DEF Gathers
    <3>2. PICK c \in DOMAIN parts[p] : F[a] = parts[p][c]
      BY <3>1
    <3>3. parts[p][c] = parts[k][b] /\ b \in DOMAIN parts[k] /\ p # k
          /\ p \in DOMAIN parts /\ k \in DOMAIN parts
      BY <1>1, <2>2, <3>2 DEF T
    <3> QED
      BY <1>11, <3>3 DEF ListedApart
  <2>3. ASSUME NEW a \in DOMAIN T, NEW b \in DOMAIN T, T[a] = T[b] PROVE a = b
    <3>1. k \in DOMAIN parts
      BY <1>1
    <3> QED
      BY <1>11, <2>3, <3>1 DEF ListedApart, T
  <2>4. CASE i \in DOMAIN F /\ H[i] = F[i]
    <3>1. CASE j \in DOMAIN F /\ H[j] = F[j]
      BY <1>11, <2>1, <2>4, <3>1
    <3>2. CASE j - Len(F) \in DOMAIN T /\ H[j] = T[j - Len(F)]
      BY <1>11, <2>2, <2>4, <3>2
    <3> QED
      BY <1>6, <3>1, <3>2
  <2>5. CASE i - Len(F) \in DOMAIN T /\ H[i] = T[i - Len(F)]
    <3>1. CASE j \in DOMAIN F /\ H[j] = F[j]
      BY <1>11, <2>2, <2>5, <3>1
    <3>2. CASE j - Len(F) \in DOMAIN T /\ H[j] = T[j - Len(F)]
      <4>1. i - Len(F) = j - Len(F)
        BY <1>11, <2>3, <2>5, <3>2
      <4> QED
        BY <1>3, <1>5, <4>1
    <3> QED
      BY <1>6, <3>1, <3>2
  <2> QED
    BY <1>6, <2>4, <2>5
<1> QED
  BY <1>4, <1>9, <1>10, <1>11 DEF Gathers, H, T

(* FlattenSeq gathers all lists.                                           *)
LEMMA FlattenGathers ==
  ASSUME NEW S, NEW parts, NEW n \in Nat, DOMAIN parts = 1..n, Len(parts) = n,
         parts \in Seq(Seq(S))
  PROVE  Gathers(FlattenSeq(parts), parts, n, S)
<1>1. \A p \in 1..n : parts[p] \in Seq(S)
  BY ElementOfSeq
<1>2. CASE n = 0
  <2>1. parts = << >>
    BY <1>2, EmptySeq
  <2>2. FlattenSeq(parts) = << >>
    BY <1>2, <2>1 DEF FlattenSeq
  <2>3. DOMAIN << >> = {} /\ << >> \in Seq(S) /\ 1..n = {}
    BY <1>2, EmptySeq
  <2> QED
    BY <2>2, <2>3 DEF Gathers
<1>3. CASE n # 0
  <2> DEFINE Built(f, k) == /\ DOMAIN f = 1..k
                            /\ f[1] = parts[1]
                            /\ \A i \in 1..k : i # 1 => f[i] = f[i - 1] \o parts[i]
             Rec(f) == f = [i \in 1..n |-> IF i = 1 THEN parts[i] ELSE f[i - 1] \o parts[i]]
             Missing == {k \in 1..n : ~\E f : Built(f, k)}
             flat == CHOOSE f : Rec(f)
  <2> HIDE DEF Built, Rec, flat
  <2>1. Missing = {}
    <3>1. SUFFICES ASSUME Missing # {} PROVE FALSE
      OBVIOUS
    <3>2. PICK k \in Missing : \A j \in Missing : k <= j
      <4>1. Missing \subseteq Nat
        OBVIOUS
      <4> HIDE DEF Missing
      <4> QED
        BY <3>1, <4>1, LeastNumber
    <3>3. k \in 1..n /\ k \in Nat /\ ~\E f : Built(f, k)
      BY <3>2
    <3>4. k # 1
      <4> SUFFICES ASSUME k = 1 PROVE FALSE
        OBVIOUS
      <4> DEFINE f == [i \in 1..1 |-> parts[1]]
      <4>1. Built(f, 1)
        BY DEF Built
      <4> QED
        BY <3>3, <4>1
    <3>5. k - 1 \in 1..n /\ ~(k <= k - 1)
      BY <3>3, <3>4
    <3>6. PICK g : Built(g, k - 1)
      BY <3>2, <3>5
    <3> DEFINE f == [i \in 1..k |-> IF i = k THEN g[k - 1] \o parts[k] ELSE g[i]]
    <3>7. Built(f, k)
      <4>1. DOMAIN f = 1..k /\ DOMAIN g = 1..(k - 1) /\ g[1] = parts[1]
            /\ \A i \in 1..(k - 1) : i # 1 => g[i] = g[i - 1] \o parts[i]
        BY <3>6 DEF Built
      <4>2. \A i \in 1..(k - 1) : i \in 1..k /\ i # k
        BY <3>3
      <4>3. \A i \in 1..(k - 1) : f[i] = g[i]
        BY <4>2
      <4>4. f[k] = g[k - 1] \o parts[k] /\ f[k - 1] = g[k - 1]
        <5>1. k - 1 \in 1..(k - 1) /\ k \in 1..k
          BY <3>3, <3>4
        <5> QED
          BY <4>3, <5>1
      <4>5. f[1] = parts[1]
        <5>1. 1 \in 1..(k - 1)
          BY <3>3, <3>4
        <5> QED
          BY <4>1, <4>3, <5>1
      <4> HIDE DEF f
      <4>6. ASSUME NEW i \in 1..k, i # 1 PROVE f[i] = f[i - 1] \o parts[i]
        <5>1. CASE i = k
          BY <4>4, <5>1
        <5>2. CASE i # k
          <6>1. i \in 1..(k - 1) /\ i - 1 \in 1..(k - 1)
            BY <3>3, <4>6, <5>2
          <6> QED
            BY <4>1, <4>3, <4>6, <6>1
        <5> QED
          BY <5>1, <5>2
      <4> QED
        BY <4>1, <4>5, <4>6 DEF Built
    <3> QED
      BY <3>3, <3>7
  <2>2. n \in 1..n /\ 1 \in 1..n
    BY <1>3
  <2>3. PICK g : Built(g, n)
    BY <2>1, <2>2
  <2> DEFINE h == [i \in 1..n |-> g[i]]
  <2>4. Rec(h)
    <3>1. \A i \in 1..n : h[i] = g[i]
      OBVIOUS
    <3>2. \A i \in 1..n : h[i] = IF i = 1 THEN parts[i] ELSE h[i - 1] \o parts[i]
      <4> TAKE i \in 1..n
      <4>1. CASE i = 1
        BY <2>3, <4>1 DEF Built
      <4>2. CASE i # 1
        <5>1. i - 1 \in 1..n
          BY <4>2
        <5> QED
          BY <2>3, <4>2, <5>1 DEF Built
      <4> QED
        BY <4>1, <4>2
    <3>3. h = [i \in 1..n |-> h[i]]
      OBVIOUS
    <3> HIDE DEF h
    <3> QED
      BY <3>2, <3>3 DEF Rec
  <2>5. FlattenSeq(parts) = flat[n]
    BY <1>3 DEF FlattenSeq, flat, Rec
  <2> HIDE DEF h
  <2>6. Rec(flat)
    BY <2>4 DEF flat
  <2>7. /\ flat[1] = parts[1]
        /\ \A i \in 1..n : i # 1 => flat[i] = flat[i - 1] \o parts[i]
    BY <2>2, <2>6 DEF Rec
  <2> HIDE DEF Missing
  <2>8. Gathers(parts[1], parts, 1, S)
    <3>1. 1..1 = {1} /\ 1 \in DOMAIN parts
      BY <2>2
    <3>2. parts[1] \in Seq(S)
      BY <1>1, <3>1
    <3>3. \A p \in 1..1 : p = 1
      BY <3>1
    <3>4. ListedApart(parts) =>
            \A i, j \in DOMAIN parts[1] : parts[1][i] = parts[1][j] => i = j
      BY <3>1 DEF ListedApart
    <3> QED
      BY <3>1, <3>2, <3>3, <3>4 DEF Gathers
  <2> DEFINE Wrong == {k \in 1..n : ~Gathers(flat[k], parts, k, S)}
  <2>9. Wrong = {}
    <3>1. SUFFICES ASSUME Wrong # {} PROVE FALSE
      OBVIOUS
    <3>2. PICK k \in Wrong : \A j \in Wrong : k <= j
      <4>1. Wrong \subseteq Nat
        OBVIOUS
      <4> HIDE DEF Wrong
      <4> QED
        BY <3>1, <4>1, LeastNumber
    <3>3. k \in 1..n /\ ~Gathers(flat[k], parts, k, S)
      BY <3>2
    <3>4. k # 1
      BY <2>7, <2>8, <3>3
    <3>5. k - 1 \in 1..n /\ ~(k <= k - 1)
      BY <3>3, <3>4
    <3>6. Gathers(flat[k - 1], parts, k - 1, S)
      BY <3>2, <3>5
    <3>7. Gathers(flat[k - 1] \o parts[k], parts, k, S)
      BY <1>1, <3>3, <3>4, <3>6, GathersMore
    <3> QED
      BY <2>7, <3>3, <3>4, <3>7
  <2> QED
    BY <2>2, <2>5, <2>9
<1> QED
  BY <1>2, <1>3

------------------------------------------------------------------------------
(* The knockout plan.                                                      *)

(* How a round's series are numbered.                                      *)
LEMMA SeriesNumbers ==
  ASSUME NEW r \in 1..Rounds
  PROVE  \E n \in Nat : SeriesIn(r) = 1..n
<1>1. Rounds - r \in Nat /\ r # GroupStage
  BY RulesAssumption DEF GroupStage
<1>2. 2^(Rounds - r) \in Int /\ SeriesIn(r) = 1..2^(Rounds - r)
  BY <1>1 DEF SeriesIn
<1> DEFINE m == 2^(Rounds - r)
<1>3. m \in Int /\ SeriesIn(r) = 1..m
  BY <1>2
<1> HIDE DEF m
<1>4. CASE m >= 0
  BY <1>3, <1>4
<1>5. CASE ~(m >= 0)
  <2>1. SeriesIn(r) = 1..0
    BY <1>3, <1>5
  <2> QED
    BY <2>1
<1> QED
  BY <1>4, <1>5

(* A round's part of the plan lists the round's records that count.        *)
LEMMA RoundRecordsAre ==
  ASSUME NEW log, InPlace(log), NEW r \in 1..Rounds
  PROVE  LET F == RoundRecords(log, r)
         IN  /\ F \in Seq(Entry)
             /\ \A i \in DOMAIN F : \E p \in Later(log) : log[p].round = r /\ F[i] = log[p]
             /\ \A p \in Later(log) : log[p].round = r => \E i \in DOMAIN F : F[i] = log[p]
             /\ \A i, j \in DOMAIN F : F[i] = F[j] => i = j
<1> DEFINE parts == [s \in SeriesIn(r) |-> SeriesRecords(log, r, s)]
           F == RoundRecords(log, r)
<1>1. PICK n \in Nat : SeriesIn(r) = 1..n
  BY SeriesNumbers
<1>2. ASSUME NEW s \in 1..n
      PROVE  /\ parts[s] \in Seq(Entry)
             /\ \A i \in DOMAIN parts[s] : /\ \E p \in SeriesAt(log, r, s) : parts[s][i] = log[p]
                                           /\ parts[s][i].series = s
             /\ \A p \in SeriesAt(log, r, s) : \E i \in DOMAIN parts[s] : parts[s][i] = log[p]
             /\ \A i, j \in DOMAIN parts[s] : parts[s][i] = parts[s][j] => i = j
  <2> DEFINE R == SeriesRecords(log, r, s)
             P == SeriesAt(log, r, s)
             k == Cardinality(P)
  <2>1. /\ DOMAIN R = 1..k /\ R \in Seq(Entry)
        /\ \A i \in 1..k : R[i] = log[PositionOf(i, P)] /\ PositionOf(i, P) \in P
        /\ \A i, j \in 1..k : R[i] = R[j] => i = j
    BY SeriesRecordsAre
  <2>2. \A p \in P : log[p].series = s
    BY DEF SeriesAt
  <2>3. \A p \in P : \E i \in 1..k : PositionOf(i, P) = p
    <3>1. P \subseteq Later(log)
      BY DEF SeriesAt
    <3>2. IsFiniteSet(P) /\ P \subseteq Nat
      BY <3>1, LaterAre, FS_Subset
    <3> HIDE DEF P
    <3> QED
      BY <3>2, Positions
  <2>4. parts[s] = R
    BY <1>1
  <2> HIDE DEF R, P, k, parts
  <2>5. \A p \in P : \E i \in DOMAIN R : R[i] = log[p]
    BY <2>1, <2>3
  <2>6. \A i \in DOMAIN R : (\E p \in P : R[i] = log[p]) /\ R[i].series = s
    BY <2>1, <2>2
  <2> QED
    BY <2>1, <2>4, <2>5, <2>6 DEF P
<1>3. DOMAIN parts = 1..n /\ parts \in [1..n -> Seq(Entry)]
  BY <1>1, <1>2
<1> HIDE DEF parts
<1>4. parts \in Seq(Seq(Entry)) /\ Len(parts) = n
  <2>1. parts \in Seq(Seq(Entry))
    BY <1>3
  <2> QED
    BY <1>3, <2>1, LenProperties
<1>5. F = FlattenSeq(parts)
  BY DEF RoundRecords, parts
<1>6. Gathers(F, parts, n, Entry)
  BY <1>3, <1>4, <1>5, FlattenGathers
<1> HIDE DEF F
<1>7. ListedApart(parts)
  <2> SUFFICES ASSUME NEW s \in 1..n, NEW t \in 1..n, NEW i \in DOMAIN parts[s],
                      NEW j \in DOMAIN parts[t], parts[s][i] = parts[t][j]
               PROVE  s = t /\ i = j
    BY <1>3 DEF ListedApart
  <2>1. s = t
    BY <1>2
  <2> QED
    BY <1>2, <2>1
<1>8. /\ F \in Seq(Entry)
      /\ \A i \in DOMAIN F : \E s \in 1..n : \E j \in DOMAIN parts[s] : F[i] = parts[s][j]
      /\ \A s \in 1..n : \A j \in DOMAIN parts[s] : \E i \in DOMAIN F : F[i] = parts[s][j]
      /\ \A i, j \in DOMAIN F : F[i] = F[j] => i = j
  BY <1>6, <1>7 DEF Gathers
<1>9. ASSUME NEW i \in DOMAIN F
      PROVE  \E p \in Later(log) : log[p].round = r /\ F[i] = log[p]
  <2>1. PICK s \in 1..n : \E j \in DOMAIN parts[s] : F[i] = parts[s][j]
    BY <1>8
  <2>2. PICK p \in SeriesAt(log, r, s) : F[i] = log[p]
    BY <1>2, <2>1
  <2> QED
    BY <2>2 DEF SeriesAt
<1>10. ASSUME NEW p \in Later(log), log[p].round = r
       PROVE  \E i \in DOMAIN F : F[i] = log[p]
  <2> DEFINE s == log[p].series
  <2>1. s \in 1..n /\ p \in SeriesAt(log, r, s)
    BY <1>1, <1>10, LaterRounds
  <2> HIDE DEF s
  <2>2. PICK j \in DOMAIN parts[s] : parts[s][j] = log[p]
    BY <1>2, <2>1
  <2> QED
    BY <1>8, <2>1, <2>2
<1> QED
  BY <1>8, <1>9, <1>10 DEF F

(* The records of the plan, of all rounds up to the planned one.           *)
PlanRecords(log) == FlattenSeq([r \in 1..PlannedRound(log) |-> RoundRecords(log, r)])

(* The plan's records are the knockout records that count, each once.      *)
LEMMA PlanRecordsAre ==
  ASSUME NEW log, InPlace(log), \A i \in Later(log) : log[i].round <= PlannedRound(log)
  PROVE  LET F == PlanRecords(log)
         IN  /\ F \in Seq(Entry)
             /\ \A i \in DOMAIN F : \E p \in Later(log) : F[i] = log[p]
             /\ \A p \in Later(log) : \E i \in DOMAIN F : F[i] = log[p]
             /\ \A i, j \in DOMAIN F : F[i] = F[j] => i = j
<1> DEFINE n == PlannedRound(log)
           parts == [r \in 1..n |-> RoundRecords(log, r)]
           F == PlanRecords(log)
<1>1. n \in 1..Rounds /\ Rounds \in Nat
  BY PlannedRoundsAre, RulesAssumption
<1>2. n \in Nat /\ \A r \in 1..n : r \in 1..Rounds
  BY <1>1
<1>3. ASSUME NEW r \in 1..n
      PROVE  /\ parts[r] \in Seq(Entry)
             /\ \A i \in DOMAIN parts[r] : /\ \E p \in Later(log) : parts[r][i] = log[p]
                                           /\ parts[r][i].round = r
             /\ \A p \in Later(log) : log[p].round = r =>
                  \E i \in DOMAIN parts[r] : parts[r][i] = log[p]
             /\ \A i, j \in DOMAIN parts[r] : parts[r][i] = parts[r][j] => i = j
  <2> DEFINE G == RoundRecords(log, r)
  <2>0. r \in 1..Rounds
    BY <1>2
  <2>1. /\ G \in Seq(Entry)
        /\ \A i \in DOMAIN G : \E p \in Later(log) : log[p].round = r /\ G[i] = log[p]
        /\ \A p \in Later(log) : log[p].round = r => \E i \in DOMAIN G : G[i] = log[p]
        /\ \A i, j \in DOMAIN G : G[i] = G[j] => i = j
    BY <2>0, RoundRecordsAre
  <2>2. parts[r] = G
    OBVIOUS
  <2> HIDE DEF G, parts
  <2> QED
    BY <2>1, <2>2
<1>4. DOMAIN parts = 1..n /\ parts \in [1..n -> Seq(Entry)]
  BY <1>3
<1>5. F = FlattenSeq(parts)
  BY DEF PlanRecords
<1> HIDE DEF parts, n, F
<1>6. parts \in Seq(Seq(Entry)) /\ Len(parts) = n
  <2>1. parts \in Seq(Seq(Entry))
    BY <1>2, <1>4
  <2> QED
    BY <1>2, <1>4, <2>1, LenProperties
<1>7. Gathers(F, parts, n, Entry)
  BY <1>2, <1>4, <1>5, <1>6, FlattenGathers
<1>8. ListedApart(parts)
  <2> SUFFICES ASSUME NEW s \in 1..n, NEW t \in 1..n, NEW i \in DOMAIN parts[s],
                      NEW j \in DOMAIN parts[t], parts[s][i] = parts[t][j]
               PROVE  s = t /\ i = j
    BY <1>4 DEF ListedApart
  <2>1. s = t
    BY <1>3
  <2> QED
    BY <1>3, <2>1
<1>9. /\ F \in Seq(Entry)
      /\ \A i \in DOMAIN F : \E s \in 1..n : \E j \in DOMAIN parts[s] : F[i] = parts[s][j]
      /\ \A s \in 1..n : \A j \in DOMAIN parts[s] : \E i \in DOMAIN F : F[i] = parts[s][j]
      /\ \A i, j \in DOMAIN F : F[i] = F[j] => i = j
  BY <1>7, <1>8 DEF Gathers
<1>10. ASSUME NEW i \in DOMAIN F PROVE \E p \in Later(log) : F[i] = log[p]
  <2>1. PICK s \in 1..n : \E j \in DOMAIN parts[s] : F[i] = parts[s][j]
    BY <1>9
  <2> QED
    BY <1>3, <2>1
<1>11. ASSUME NEW p \in Later(log) PROVE \E i \in DOMAIN F : F[i] = log[p]
  <2> DEFINE r == log[p].round
  <2>1. r \in 1..n
    <3>1. r \in 1..Rounds /\ r <= n
      BY LaterRounds DEF n
    <3> QED
      BY <1>1, <3>1
  <2>2. PICK j \in DOMAIN parts[r] : parts[r][j] = log[p]
    BY <1>3, <2>1
  <2> HIDE DEF r
  <2> QED
    BY <1>9, <2>1, <2>2
<1> QED
  BY <1>9, <1>10, <1>11 DEF F

(* A list of the games of a series, in whatever order, is sorted into the  *)
(* series' records if those are numbered as they stand.                    *)
Rearranged(G, R, n) ==
  /\ DOMAIN G = 1..n /\ DOMAIN R = 1..n
  /\ \A i \in 1..n : R[i].game = i
  /\ \A i \in 1..n : \E k \in 1..n : G[i] = R[k]
  /\ \A k \in 1..n : \E i \in 1..n : G[i] = R[k]
  /\ \A i, j \in 1..n : G[i] = G[j] => i = j

(* Sorting by game number gives back the list whose games are numbered in  *)
(* turn, whatever order the records came in.                               *)
LEMMA SortedIs ==
  ASSUME NEW n \in Nat, NEW G, NEW R, Rearranged(G, R, n)
  PROVE  /\ DOMAIN Sorted(G) = 1..n
         /\ \A i \in 1..n : Sorted(G)[i] = R[i]
         /\ Sorted(G) = [i \in 1..n |-> Sorted(G)[i]]
<1> USE DEF Rearranged
<1> DEFINE InOrder(p) == \A i, j \in 1..n : i < j => G[p[i]].game <= G[p[j]].game
           Where(i) == CHOOSE k \in 1..n : G[k] = R[i]
           at == [i \in 1..n |-> Where(i)]
           order == CHOOSE p \in Bijection(1..n, 1..n) : InOrder(p)
<1>1. \A i \in 1..n : at[i] \in 1..n /\ G[at[i]] = R[i]
  OBVIOUS
<1>2. at \in [1..n -> 1..n]
  BY <1>1
<1> HIDE DEF at
<1>3. at \in Bijection(1..n, 1..n)
  <2>1. \A i, j \in 1..n : at[i] = at[j] => i = j
    <3> SUFFICES ASSUME NEW i \in 1..n, NEW j \in 1..n, at[i] = at[j] PROVE i = j
      OBVIOUS
    <3>1. R[i] = R[j]
      BY <1>1
    <3> QED
      BY <3>1
  <2>2. \A k \in 1..n : \E i \in 1..n : at[i] = k
    <3> TAKE k \in 1..n
    <3>1. PICK i \in 1..n : G[k] = R[i]
      OBVIOUS
    <3>2. at[i] \in 1..n /\ G[at[i]] = G[k]
      BY <1>1, <3>1
    <3> QED
      BY <3>2
  <2> QED
    BY <1>2, <2>1, <2>2, Fun_IsInj, Fun_IsSurj, Fun_IsBij
<1>4. InOrder(at)
  <2> TAKE i, j \in 1..n
  <2> HAVE i < j
  <2>1. G[at[i]].game = i /\ G[at[j]].game = j
    BY <1>1
  <2>2. i \in Int /\ j \in Int
    OBVIOUS
  <2> QED
    BY <2>1, <2>2
<1> HIDE DEF InOrder, Where
<1>5. order \in Bijection(1..n, 1..n) /\ InOrder(order)
  BY <1>3, <1>4
<1>6. Sorted(G) = [i \in 1..n |-> G[order[i]]]
  BY DEF Sorted, InOrder
<1> HIDE DEF order
<1>7. /\ order \in [1..n -> 1..n]
      /\ \A i, j \in 1..n : order[i] = order[j] => i = j
  <2>1. order \in Injection(1..n, 1..n)
    BY <1>5, Fun_BijectionProperties
  <2> QED
    BY <2>1 DEF Injection, IsInjective
<1> DEFINE game == [i \in 1..n |-> G[order[i]].game]
<1>8. \A i \in 1..n : \E k \in 1..n : G[order[i]] = R[k]
  BY <1>7
<1>9. \A i \in 1..n : game[i] \in 1..n /\ G[order[i]] = R[game[i]]
  <2> TAKE i \in 1..n
  <2>1. PICK k \in 1..n : G[order[i]] = R[k]
    BY <1>8
  <2>2. game[i] = k
    BY <2>1
  <2> QED
    BY <2>1, <2>2
<1>10. \A i, j \in 1..n : i < j => game[i] < game[j]
  <2> SUFFICES ASSUME NEW i \in 1..n, NEW j \in 1..n, i < j PROVE game[i] < game[j]
    OBVIOUS
  <2>1. game[i] <= game[j]
    BY <1>5 DEF InOrder
  <2> HIDE DEF game
  <2>2. game[i] # game[j]
    <3> SUFFICES ASSUME game[i] = game[j] PROVE FALSE
      OBVIOUS
    <3>1. G[order[i]] = G[order[j]]
      <4>1. G[order[i]] = R[game[i]] /\ G[order[j]] = R[game[j]]
        BY <1>9
      <4> QED
        BY <4>1
    <3>2. order[i] = order[j]
      <4>1. order[i] \in 1..n /\ order[j] \in 1..n
        BY <1>7
      <4> QED
        BY <3>1, <4>1
    <3>3. i = j
      BY <1>7, <3>2
    <3> QED
      BY <3>3
  <2> DEFINE a == game[i]
             b == game[j]
  <2>3. a \in 1..n /\ b \in 1..n /\ a <= b /\ a # b
    BY <1>9, <2>1, <2>2
  <2> HIDE DEF a, b
  <2>4. a < b
    BY <2>3
  <2> QED
    BY <2>4 DEF a, b
<1> HIDE DEF game
<1>11. \A i \in 1..n : game[i] = i
  <2>1. \A i \in 1..n : game[i] \in 1..n
    BY <1>9
  <2> QED
    BY <1>10, <2>1, IncreasingIsIdentity
<1>12. \A i \in 1..n : G[order[i]] = R[i]
  BY <1>9, <1>11
<1> DEFINE T == [i \in 1..n |-> G[order[i]]]
<1>13. DOMAIN T = 1..n /\ T = [i \in 1..n |-> T[i]] /\ \A i \in 1..n : T[i] = R[i]
  BY <1>12
<1> HIDE DEF T
<1> QED
  BY <1>6, <1>13 DEF T

(* The executor finds the records of each series in the plan again.        *)
LEMMA PlanGamesAre ==
  ASSUME NEW log, InPlace(log), \A i \in Later(log) : log[i].round <= PlannedRound(log),
         NEW r \in 1..PlannedRound(log), NEW s,
         GamesInOrder(SeriesRecords(log, r, s)),
         NEW plan, plan.records = PlanRecords(log)
  PROVE  PlanGames(plan, r, s) = SeriesRecords(log, r, s)
<1> DEFINE R == SeriesRecords(log, r, s)
           n == Cardinality(SeriesAt(log, r, s))
           F == PlanRecords(log)
           Q == {i \in DOMAIN F : F[i].round = r /\ F[i].series = s}
           E == Games(Held(log), r, s)
           G == Picked(F, Q)
<1>1. r \in 1..Rounds
  BY PlannedRoundsAre, RulesAssumption
<1>2. /\ n \in Nat /\ DOMAIN R = 1..n /\ Len(R) = n /\ R \in Seq(Entry)
      /\ \A j, k \in 1..n : R[j] = R[k] => j = k
      /\ \A k \in 1..n : R[k] \in E
      /\ \A e \in E : \E k \in 1..n : R[k] = e
  BY <1>1, SeriesRecordsAre
<1>3. /\ F \in Seq(Entry)
      /\ \A i \in DOMAIN F : \E p \in Later(log) : F[i] = log[p]
      /\ \A p \in Later(log) : \E i \in DOMAIN F : F[i] = log[p]
      /\ \A i, j \in DOMAIN F : F[i] = F[j] => i = j
  BY PlanRecordsAre
<1>4. PlanGames(plan, r, s) = Sorted(G)
  BY DEF PlanGames
<1> HIDE DEF F
<1>5. DOMAIN F = 1..Len(F) /\ Len(F) \in Nat
  BY <1>3, LenProperties
<1>6. IsFiniteSet(Q) /\ Q \subseteq Nat
  <2>1. IsFiniteSet(1..Len(F)) /\ Q \subseteq 1..Len(F)
    BY <1>5, FS_Interval
  <2> HIDE DEF Q
  <2>2. IsFiniteSet(Q)
    BY <2>1, FS_Subset
  <2>3. Q \subseteq Nat
    BY <1>5, <2>1
  <2> QED
    BY <2>2, <2>3
<1>7. \A i \in Q : F[i] \in E
  <2> TAKE i \in Q
  <2>1. PICK p \in Later(log) : F[i] = log[p]
    BY <1>3
  <2>2. p \in DOMAIN log
    BY <2>1, LaterRounds
  <2> QED
    BY <2>1, <2>2 DEF Games, Held
<1>8. \A e \in E : \E i \in Q : F[i] = e
  <2> TAKE e \in E
  <2>1. PICK k \in 1..n : R[k] = e
    BY <1>2
  <2>2. PICK p \in SeriesAt(log, r, s) : log[p] = e
    BY <1>1, <2>1, SeriesRecordsAre
  <2>3. PICK i \in DOMAIN F : F[i] = e
    BY <1>3, <2>2 DEF SeriesAt
  <2>4. e.round = r /\ e.series = s
    BY DEF Games
  <2> QED
    BY <2>3, <2>4
<1>9. \A i, j \in Q : F[i] = F[j] => i = j
  BY <1>3
<1> HIDE DEF R, n, Q, E
<1>10. Cardinality(Q) = n
  <2>1. Cardinality(E) = Cardinality(Q)
    BY <1>6, <1>7, <1>8, <1>9, ListedOnce
  <2>2. Cardinality(E) = n
    <3>1. Cardinality(E) = Len(R)
      BY <1>1, SeriesRecordsSay DEF E, R
    <3> QED
      BY <1>2, <3>1
  <2> QED
    BY <2>1, <2>2
<1>11. /\ DOMAIN G = 1..n
       /\ \A i \in 1..n : G[i] = F[PositionOf(i, Q)]
  BY <1>6, <1>10, PickedIs
<1>12. \A i, j \in 1..n : G[i] = G[j] => i = j
  <2>1. \A i, j \in 1..Cardinality(Q) : G[i] = G[j] => i = j
    BY <1>6, <1>9, PickedIs
  <2> QED
    BY <1>10, <2>1
<1>13. /\ \A i \in 1..n : PositionOf(i, Q) \in Q
       /\ \A q \in Q : \E i \in 1..n : PositionOf(i, Q) = q
  BY <1>6, <1>10, Positions
<1> HIDE DEF G
<1>14. \A i \in 1..n : \E k \in 1..n : G[i] = R[k]
  BY <1>2, <1>7, <1>11, <1>13
<1>15. \A k \in 1..n : \E i \in 1..n : G[i] = R[k]
  <2> TAKE k \in 1..n
  <2>1. PICK q \in Q : F[q] = R[k]
    BY <1>2, <1>8
  <2>2. PICK i \in 1..n : PositionOf(i, Q) = q
    BY <1>13
  <2> QED
    BY <1>11, <2>1, <2>2
<1>16. \A k \in 1..n : R[k].game = k
  BY <1>2 DEF GamesInOrder, R
<1>17. R = [k \in 1..n |-> R[k]]
  <2>1. R = Picked(log, SeriesAt(log, r, s))
    BY DEF R, SeriesRecords, SeriesAt
  <2> DEFINE P == SeriesAt(log, r, s)
             g == [k \in 1..n |-> log[PositionOf(k, P)]]
  <2>2. R = g
    BY <2>1 DEF Picked, n
  <2>3. g = [k \in 1..n |-> g[k]]
    OBVIOUS
  <2> HIDE DEF g
  <2> QED
    BY <2>2, <2>3
<1>18. Sorted(G) = R
  <2>1. n \in Nat /\ Rearranged(G, R, n)
    BY <1>2, <1>11, <1>12, <1>14, <1>15, <1>16 DEF Rearranged
  <2> DEFINE T == Sorted(G)
  <2>2. DOMAIN T = 1..n /\ \A k \in 1..n : T[k] = R[k]
    BY <2>1, SortedIs
  <2>3. T = [k \in 1..n |-> T[k]]
    BY <2>1, SortedIs
  <2> HIDE DEF T
  <2>4. T = R
    BY <1>17, <2>2, <2>3
  <2> QED
    BY <2>4 DEF T
<1> QED
  BY <1>4, <1>18 DEF R

(* The requests are for the next game of every series that is not over.    *)
OpenSeries(log, r) == {s \in SeriesIn(r) : ~Decided(SeriesRecords(log, r, s))}

(* The next game of a series.                                              *)
Request(log, r, s) == [series |-> s, game |-> Len(SeriesRecords(log, r, s)) + 1]

(* The requests are the next games of the open series, and there are none  *)
(* just when the round is complete.                                        *)
LEMMA RequestsAre ==
  ASSUME NEW log, NEW r \in 1..Rounds
  PROVE  LET Q == NextGameRequests(RoundEvaluations(log, r))
         IN  /\ \A i \in DOMAIN Q : \E s \in OpenSeries(log, r) : Q[i] = Request(log, r, s)
             /\ \A s \in OpenSeries(log, r) : \E i \in DOMAIN Q : Q[i] = Request(log, r, s)
             /\ Q = << >> <=> OpenSeries(log, r) = {}
             /\ RoundComplete(log, r) <=> OpenSeries(log, r) = {}
<1> DEFINE evals == RoundEvaluations(log, r)
           Q == NextGameRequests(evals)
           O == OpenSeries(log, r)
           list == [s \in SeriesIn(r) |-> [series |-> s, game |-> evals[s].next]]
           k == Cardinality(O)
<1>1. PICK n \in Nat : SeriesIn(r) = 1..n
  BY SeriesNumbers
<1>2. DOMAIN evals = SeriesIn(r)
  BY DEF RoundEvaluations
<1>3. \A s \in SeriesIn(r) : evals[s].complete <=> Decided(SeriesRecords(log, r, s))
  BY DEF RoundEvaluations, Evaluation
<1>4. \A s \in SeriesIn(r) :
        ~Decided(SeriesRecords(log, r, s)) => list[s] = Request(log, r, s)
  <2> TAKE s \in SeriesIn(r)
  <2> HAVE ~Decided(SeriesRecords(log, r, s))
  <2>1. evals[s].next = Len(SeriesRecords(log, r, s)) + 1
    BY DEF RoundEvaluations, Evaluation
  <2> HIDE DEF evals
  <2> QED
    BY <2>1 DEF Request
<1> HIDE DEF evals
<1>5. O = {s \in DOMAIN evals : ~evals[s].complete}
  BY <1>2, <1>3 DEF OpenSeries
<1>6. O \subseteq SeriesIn(r) /\ \A s \in O : list[s] = Request(log, r, s)
  BY <1>4 DEF OpenSeries
<1> HIDE DEF O
<1>7. Q = Picked(list, O)
  BY <1>2, <1>5 DEF NextGameRequests
<1>8. IsFiniteSet(O) /\ O \subseteq Nat
  <2>1. IsFiniteSet(1..n) /\ O \subseteq 1..n
    BY <1>1, <1>6, FS_Interval
  <2>2. IsFiniteSet(O)
    BY <2>1, FS_Subset
  <2>3. O \subseteq Nat
    BY <1>1, <2>1
  <2> QED
    BY <2>2, <2>3
<1> HIDE DEF list, Q
<1>9. /\ k \in Nat
      /\ \A i \in 1..k : PositionOf(i, O) \in O
      /\ \A s \in O : \E i \in 1..k : PositionOf(i, O) = s
  BY <1>8, Positions
<1>10. Q = [i \in 1..k |-> list[PositionOf(i, O)]]
  BY <1>7 DEF Picked
<1>11. k = 0 <=> O = {}
  BY <1>8, FS_EmptySet
<1> HIDE DEF k
<1>12. DOMAIN Q = 1..k /\ \A i \in 1..k : Q[i] = list[PositionOf(i, O)]
  BY <1>10
<1>13. \A i \in DOMAIN Q : \E s \in O : Q[i] = Request(log, r, s)
  BY <1>6, <1>9, <1>12
<1>14. \A s \in O : \E i \in DOMAIN Q : Q[i] = Request(log, r, s)
  BY <1>6, <1>9, <1>12
<1>15. Q = << >> <=> O = {}
  <2>1. O = {} => Q = << >>
    BY <1>10, <1>11
  <2>2. Q = << >> => O = {}
    BY <1>9, <1>11, <1>12
  <2> QED
    BY <2>1, <2>2
<1>16. RoundComplete(log, r) <=> O = {}
  BY <1>3 DEF RoundComplete, O, OpenSeries, evals
<1> QED
  BY <1>13, <1>14, <1>15, <1>16 DEF Q, O, evals

(* What the plan says.                                                     *)
LEMMA PlanIs ==
  ASSUME NEW log
  PROVE  LET plan == KnockoutPlan(log)
             last == PlannedRound(log)
         IN  /\ plan.round = last
             /\ DOMAIN plan.evaluations = 1..last /\ Len(plan.evaluations) = last
             /\ \A r \in 1..last : plan.evaluations[r] = RoundEvaluations(log, r)
             /\ plan.records = PlanRecords(log)
             /\ plan.groupRecords = GroupRecords(log)
             /\ plan.count = Len(plan.groupRecords) + Len(plan.records)
             /\ plan.position = RoundProgress(log, last)
             /\ plan.requests = NextGameRequests(RoundEvaluations(log, last))
             /\ plan.resultComplete = RoundComplete(log, last)
             /\ plan.champion = IF RoundComplete(log, last)
                                THEN SeriesRecords(log, last, 1) ELSE << >>
             /\ RoundComplete(log, last) => last = Rounds
<1> DEFINE plan == KnockoutPlan(log)
           last == PlannedRound(log)
           evals == [r \in 1..last |-> RoundEvaluations(log, r)]
           over == last = Rounds /\ RoundComplete(log, last)
           Q == NextGameRequests(RoundEvaluations(log, last))
<1>1. last \in 1..Rounds /\ last \in 1..last
  BY PlannedRoundsAre, RulesAssumption
<1>2. RoundComplete(log, last) => last = Rounds
  BY PlannedRoundsAre
<1>3. /\ plan.round = last /\ plan.evaluations = evals
      /\ plan.groupRecords = GroupRecords(log)
      /\ plan.position = RoundProgress(log, last)
  BY DEF KnockoutPlan
<1>4. plan.records = PlanRecords(log)
  BY DEF KnockoutPlan, PlanRecords
<1>5. plan.count = Len(plan.groupRecords) + Len(plan.records)
  BY DEF KnockoutPlan
<1>6. /\ plan.requests = IF over THEN << >> ELSE NextGameRequests(evals[last])
      /\ plan.resultComplete = over
      /\ plan.champion = IF over THEN SeriesRecords(log, last, 1) ELSE << >>
  BY DEF KnockoutPlan
<1>7. evals[last] = RoundEvaluations(log, last)
  BY <1>1
<1>8. DOMAIN evals = 1..last /\ \A r \in 1..last : evals[r] = RoundEvaluations(log, r)
  OBVIOUS
<1>9. Len(evals) = last
  <2> DEFINE T == {RoundEvaluations(log, r) : r \in 1..last}
  <2>1. last \in Nat /\ evals \in [1..last -> T]
    BY <1>1, RulesAssumption
  <2> HIDE DEF evals, T, last
  <2>2. evals \in Seq(T)
    BY <2>1
  <2> QED
    BY <2>1, <2>2, LenProperties
<1>10. over <=> RoundComplete(log, last)
  BY <1>2
<1>11. RoundComplete(log, last) => Q = << >>
  <2>1. RoundComplete(log, last) <=> OpenSeries(log, last) = {}
    BY <1>1, RequestsAre
  <2>2. Q = << >> <=> OpenSeries(log, last) = {}
    BY <1>1, RequestsAre
  <2> QED
    BY <2>1, <2>2
<1> HIDE DEF plan, last, evals, over, Q
<1>12. over = RoundComplete(log, last)
  BY <1>2 DEF over, RoundComplete
<1>13. plan.requests = Q
  BY <1>6, <1>7, <1>10, <1>11 DEF Q
<1>14. /\ plan.resultComplete = RoundComplete(log, last)
       /\ plan.champion = IF RoundComplete(log, last)
                          THEN SeriesRecords(log, last, 1) ELSE << >>
  BY <1>6, <1>12
<1> QED
  BY <1>2, <1>3, <1>4, <1>5, <1>8, <1>9, <1>13, <1>14 DEF plan, last, Q

(* The executor derives everything again from the plan's records, and      *)
(* finds what the planner found.                                           *)
LEMMA PlanIsValid ==
  ASSUME NEW log, InPlace(log), RecoveryAccepts(log)
  PROVE  ValidKnockoutPlan(KnockoutPlan(log))
<1> DEFINE plan == KnockoutPlan(log)
           last == PlannedRound(log)
<1>1. /\ plan.round = last
      /\ DOMAIN plan.evaluations = 1..last /\ Len(plan.evaluations) = last
      /\ \A r \in 1..last : plan.evaluations[r] = RoundEvaluations(log, r)
      /\ plan.records = PlanRecords(log)
      /\ plan.count = Len(plan.groupRecords) + Len(plan.records)
      /\ plan.position = RoundProgress(log, last)
      /\ plan.requests = NextGameRequests(RoundEvaluations(log, last))
      /\ plan.resultComplete = RoundComplete(log, last)
      /\ plan.champion = IF RoundComplete(log, last)
                         THEN SeriesRecords(log, last, 1) ELSE << >>
      /\ RoundComplete(log, last) => last = Rounds
  BY PlanIs
<1>2. /\ last \in 1..Rounds /\ PlannedRounds(log) = 1..last
      /\ \A q \in 1..(last - 1) : RoundComplete(log, q)
      /\ Rounds \in Nat
  BY PlannedRoundsAre, RulesAssumption
<1>3. \A i \in Later(log) : log[i].round <= PlannedRound(log)
  BY AcceptedIsRecoverable
<1>4. \A r \in 1..last : \A s \in SeriesIn(r) :
        /\ GamesInOrder(SeriesRecords(log, r, s))
        /\ Playable(SeriesRecords(log, r, s))
  BY <1>2 DEF RecoveryAccepts
<1>5. ASSUME NEW r \in 1..last, NEW s \in SeriesIn(r)
      PROVE  PlanGames(plan, r, s) = SeriesRecords(log, r, s)
  BY <1>1, <1>3, <1>4, PlanGamesAre
<1>6. /\ \A i \in DOMAIN plan.records : \E p \in Later(log) : plan.records[i] = log[p]
      /\ \A p \in Later(log) : \E i \in DOMAIN plan.records : plan.records[i] = log[p]
      /\ \A i, j \in DOMAIN plan.records : plan.records[i] = plan.records[j] => i = j
      /\ plan.records \in Seq(Entry)
  BY <1>1, <1>3, PlanRecordsAre
<1>0. last \in 1..last /\ last \in Nat
  BY <1>2
<1> HIDE DEF plan
<1>7. ValidPlanRecords(plan)
  <2> SUFFICES ASSUME NEW i \in DOMAIN plan.records
               PROVE  KnownGame(plan.records[i]) /\ plan.records[i].round <= plan.round
    BY DEF ValidPlanRecords
  <2>1. PICK p \in Later(log) : plan.records[i] = log[p]
    BY <1>6
  <2> QED
    BY <1>1, <1>3, <2>1 DEF RecoveryAccepts
<1>8. ValidPlanRounds(plan)
  <2>1. plan.round = Len(plan.evaluations) /\ plan.round > 0
    BY <1>1, <1>0, <1>2
  <2>2. ASSUME NEW r \in 1..plan.round, NEW s \in SeriesIn(r)
        PROVE  LET games == PlanGames(plan, r, s)
               IN  /\ GamesInOrder(games) /\ Playable(games)
                   /\ plan.evaluations[r][s] = Evaluation(games)
                   /\ r < plan.round => plan.evaluations[r][s].complete
    <3> DEFINE R == SeriesRecords(log, r, s)
    <3>1. r \in 1..last
      BY <1>1
    <3>2. PlanGames(plan, r, s) = R /\ GamesInOrder(R) /\ Playable(R)
      BY <1>4, <1>5, <3>1
    <3>3. plan.evaluations[r][s] = Evaluation(R)
      <4>1. plan.evaluations[r] = RoundEvaluations(log, r)
        BY <1>1, <3>1
      <4> QED
        BY <4>1 DEF RoundEvaluations
    <3>4. r < plan.round => plan.evaluations[r][s].complete
      <4> SUFFICES ASSUME r < last PROVE plan.evaluations[r][s].complete
        BY <1>1
      <4>1. r \in 1..(last - 1)
        BY <1>0, <3>1
      <4>2. RoundEvaluations(log, r)[s].complete
        BY <1>2, <4>1 DEF RoundComplete
      <4> QED
        BY <1>1, <3>1, <4>2
    <3> HIDE DEF R
    <3> QED
      BY <3>2, <3>3, <3>4
  <2> QED
    BY <2>1, <2>2 DEF ValidPlanRounds
<1>9. ValidPlanProgress(plan)
  <2> DEFINE F == plan.records
             P == {i \in DOMAIN F : F[i].round = last}
             L == {p \in Later(log) : log[p].round = last}
             S == {log[p] : p \in L}
  <2>1. DOMAIN F = 1..Len(F) /\ Len(F) \in Nat
    BY <1>6, LenProperties
  <2>2. IsFiniteSet(P)
    <3>1. IsFiniteSet(1..Len(F)) /\ P \subseteq 1..Len(F)
      BY <2>1, FS_Interval
    <3> HIDE DEF P, F
    <3> QED
      BY <3>1, FS_Subset
  <2>3. IsFiniteSet(L)
    <3>1. IsFiniteSet(Later(log)) /\ L \subseteq Later(log)
      BY LaterAre
    <3> HIDE DEF L
    <3> QED
      BY <3>1, FS_Subset
  <2>4. \A p, q \in L : log[p] = log[q] => p = q
    BY FirstTimesAre DEF Later
  <2>5. \A i \in P : F[i] \in S
    <3> TAKE i \in P
    <3>1. PICK p \in Later(log) : F[i] = log[p]
      BY <1>6
    <3> QED
      BY <3>1
  <2>6. \A y \in S : \E i \in P : F[i] = y
    <3> TAKE y \in S
    <3>1. PICK p \in L : y = log[p]
      OBVIOUS
    <3>2. PICK i \in DOMAIN F : F[i] = log[p]
      BY <1>6
    <3> QED
      BY <3>1, <3>2
  <2>7. \A i, j \in P : F[i] = F[j] => i = j
    BY <1>6
  <2>8. /\ \A p \in L : log[p] \in S
        /\ \A y \in S : \E p \in L : log[p] = y
    OBVIOUS
  <2>9. plan.position = Cardinality(L)
    BY <1>1 DEF RoundProgress
  <2> HIDE DEF F, P, L, S
  <2>10. Cardinality(S) = Cardinality(P)
    BY <2>2, <2>5, <2>6, <2>7, ListedOnce
  <2>11. Cardinality(S) = Cardinality(L)
    BY <2>3, <2>4, <2>8, ListedOnce
  <2>12. plan.position
           = Cardinality({i \in DOMAIN plan.records : plan.records[i].round = plan.round})
    BY <1>1, <2>9, <2>10, <2>11 DEF P, F
  <2> QED
    BY <1>1, <2>12 DEF ValidPlanProgress
<1>10. ValidPlanCompletion(plan)
  <2>1. plan.requests = NextGameRequests(plan.evaluations[plan.round])
    BY <1>0, <1>1
  <2>2. PlanRoundOver(plan) <=> RoundComplete(log, last)
    BY <1>0, <1>1 DEF PlanRoundOver, RoundComplete
  <2>3. plan.requests = << >> <=> RoundComplete(log, last)
    <3>1. RoundComplete(log, last) <=> OpenSeries(log, last) = {}
      BY <1>2, RequestsAre
    <3>2. NextGameRequests(RoundEvaluations(log, last)) = << >> <=> OpenSeries(log, last) = {}
      BY <1>2, RequestsAre
    <3> QED
      BY <1>1, <3>1, <3>2
  <2>4. ASSUME RoundComplete(log, last) PROVE plan.champion = PlanGames(plan, Rounds, 1)
    <3>1. last = Rounds
      BY <1>1, <2>4
    <3>2. 1 \in SeriesIn(Rounds)
      <4>1. Rounds - Rounds = 0 /\ Rounds # GroupStage
        BY RulesAssumption DEF GroupStage
      <4>2. SeriesIn(Rounds) = 1..2^0
        BY <4>1 DEF SeriesIn
      <4>3. 2^0 = 1
        OBVIOUS
      <4> QED
        BY <4>2, <4>3
    <3>3. PlanGames(plan, last, 1) = SeriesRecords(log, last, 1)
      BY <1>0, <1>5, <3>1, <3>2
    <3> QED
      BY <1>1, <2>4, <3>1, <3>3
  <2> HIDE DEF last
  <2>5. CASE RoundComplete(log, last)
    BY <1>1, <2>1, <2>2, <2>3, <2>4, <2>5 DEF ValidPlanCompletion
  <2>6. CASE ~RoundComplete(log, last)
    BY <1>1, <2>1, <2>2, <2>3, <2>6 DEF ValidPlanCompletion
  <2> QED
    BY <2>5, <2>6
<1> QED
  BY <1>7, <1>8, <1>9, <1>10 DEF ValidKnockoutPlan, plan

------------------------------------------------------------------------------
(* The knockout executor accepts what the planner plans.                   *)

(* What the state layer demands of the log, said of the records that count.*)
LEMMA ResultsRecoverable ==
  ASSUME Invariants, RecoverableState
  PROVE  RecoverableLog(results)
<1>1. InPlace(results) /\ Held(results) = Accepted
  BY ResultsInPlace
<1>2. KnockoutRecords = Later(results)
  <2>1. Later(results) = {i \in FirstTimes(results) : results[i].round # GroupStage}
    BY <1>1, LaterAre
  <2> QED
    BY <2>1 DEF KnockoutRecords, FirstTimes
<1> SUFFICES ASSUME Later(results) # {}
             PROVE  /\ StageComplete(Held(results), GroupStage)
                    /\ \A i \in Later(results) : OpenAt(results, i)
                    /\ RoundsFollow(results)
  BY DEF RecoverableLog
<1>3. HasKnockoutEvidence
  <2>1. PICK i \in Later(results) : TRUE
    OBVIOUS
  <2>2. results[i] \in Accepted /\ results[i].round # GroupStage
    BY <1>2, <2>1 DEF KnockoutRecords, Accepted
  <2> QED
    BY <2>2 DEF HasKnockoutEvidence, KnockoutGames
<1>4. StageComplete(Accepted, GroupStage) /\ SeriesInOrder /\ RoundsInOrder
  BY <1>3 DEF RecoverableState
<1>5. ASSUME NEW i \in Later(results) PROVE OpenAt(results, i)
  <2> DEFINE E == {results[j] : j \in {k \in KnockoutRecords : k < i}}
  <2>1. E = Earlier(results, i)
    BY <1>2 DEF Earlier
  <2>2. /\ results[i].game = NextGame(E, results[i].round, results[i].series)
        /\ ~SeriesDecided(E, results[i].round, results[i].series)
    BY <1>2, <1>4 DEF SeriesInOrder
  <2> HIDE DEF E
  <2> QED
    BY <2>1, <2>2 DEF OpenAt
<1>6. RoundsFollow(results)
  BY <1>1, <1>2, <1>4 DEF RoundsInOrder, RoundsFollow
<1> QED
  BY <1>1, <1>4, <1>5, <1>6

(* All results, by the records that count.                                 *)
LEMMA AllCounted ==
  ASSUME NEW log, InPlace(log)
  PROVE  Cardinality(Held(log)) = Cardinality(GroupAt(log)) + Cardinality(Later(log))
<1> DEFINE F == FirstTimes(log)
           A == GroupAt(log)
           B == Later(log)
           H == Held(log)
<1>1. /\ IsFiniteSet(DOMAIN log) /\ F \subseteq DOMAIN log
      /\ \A i, j \in F : log[i] = log[j] => i = j
      /\ \A i \in DOMAIN log : \E j \in F : log[j] = log[i]
  BY FirstTimesAre
<1>2. F = A \cup B /\ A \cap B = {}
  <2>1. B = {i \in F : log[i].round # GroupStage}
    BY LaterAre
  <2> QED
    BY <2>1 DEF GroupAt
<1>3. IsFiniteSet(A) /\ IsFiniteSet(B)
  BY LaterAre
<1>4. (\A i \in F : log[i] \in H) /\ \A e \in H : \E i \in F : log[i] = e
  BY <1>1 DEF Held
<1> HIDE DEF F, A, B, H
<1>5. IsFiniteSet(F)
  BY <1>1, FS_Subset
<1>6. Cardinality(H) = Cardinality(F)
  BY <1>1, <1>4, <1>5, ListedOnce
<1>7. Cardinality(F) = Cardinality(A) + Cardinality(B)
  <2>1. Cardinality(A \cup B) = Cardinality(A) + Cardinality(B) - Cardinality(A \cap B)
    BY <1>3, FS_Union
  <2>2. Cardinality(A \cap B) = 0
    BY <1>2, FS_EmptySet
  <2>3. Cardinality(A) \in Nat /\ Cardinality(B) \in Nat
    BY <1>3, FS_CardinalityType
  <2> QED
    BY <1>2, <2>1, <2>2, <2>3
<1> QED
  BY <1>6, <1>7 DEF H, A, B

(* The plan, in terms of what the log holds.                               *)
LEMMA PlanSays ==
  ASSUME NEW log, InPlace(log), RecoveryAccepts(log)
  PROVE  LET plan == KnockoutPlan(log)
         IN  /\ plan.round = ActiveRound(Held(log))
             /\ plan.count = Cardinality(Held(log))
             /\ plan.position = Cardinality({e \in Held(log) : e.round = plan.round})
             /\ ToSet(plan.requests)
                  = {[series |-> s, game |-> NextGame(Held(log), plan.round, s)]
                       : s \in Pending(Held(log), plan.round)}
<1> DEFINE plan == KnockoutPlan(log)
           last == PlannedRound(log)
           E == Held(log)
<1>1. /\ plan.round = last
      /\ plan.records = PlanRecords(log)
      /\ plan.groupRecords = GroupRecords(log)
      /\ plan.count = Len(plan.groupRecords) + Len(plan.records)
      /\ plan.position = RoundProgress(log, last)
      /\ plan.requests = NextGameRequests(RoundEvaluations(log, last))
  BY PlanIs
<1>2. /\ last \in 1..Rounds /\ Rounds \in Nat
      /\ \A q \in 1..(last - 1) : RoundComplete(log, q)
      /\ last # Rounds => ~RoundComplete(log, last)
  BY PlannedRoundsAre, RulesAssumption
<1>3. \A i \in Later(log) : log[i].round <= PlannedRound(log)
  BY AcceptedIsRecoverable
<1> HIDE DEF plan, last, E
<1>4. last = ActiveRound(E)
  <2> DEFINE a == ActiveRound(E)
  <2>1. /\ a \in 1..Rounds
        /\ \A q \in 1..(a - 1) : StageComplete(E, q)
        /\ \A n \in 0..(Rounds - 1) : (\A q \in 1..n : StageComplete(E, q)) => n < a
    BY ActiveRoundIs
  <2>2. \A q \in 1..Rounds : RoundComplete(log, q) <=> StageComplete(E, q)
    BY RoundCompleteIs DEF E
  <2> HIDE DEF a
  <2>3. last <= a
    <3>1. last - 1 \in 0..(Rounds - 1) /\ \A q \in 1..(last - 1) : q \in 1..Rounds
      BY <1>2
    <3>2. last - 1 < a
      BY <1>2, <2>1, <2>2, <3>1
    <3> QED
      BY <1>2, <2>1, <3>2
  <2>4. ~(last < a)
    <3> SUFFICES ASSUME last < a PROVE FALSE
      OBVIOUS
    <3>1. last # Rounds /\ last \in 1..(a - 1)
      BY <1>2, <2>1
    <3> QED
      BY <1>2, <2>1, <2>2, <3>1
  <2>5. last = a
    BY <1>2, <2>1, <2>3, <2>4
  <2> QED
    BY <2>5 DEF a
<1>5. plan.count = Cardinality(E)
  <2> DEFINE F == PlanRecords(log)
             L == Later(log)
             S == {log[p] : p \in L}
  <2>1. /\ F \in Seq(Entry)
        /\ \A i \in DOMAIN F : \E p \in L : F[i] = log[p]
        /\ \A p \in L : \E i \in DOMAIN F : F[i] = log[p]
        /\ \A i, j \in DOMAIN F : F[i] = F[j] => i = j
    BY <1>3, PlanRecordsAre
  <2>2. IsFiniteSet(L) /\ \A p, q \in L : log[p] = log[q] => p = q
    BY LaterAre, FirstTimesAre DEF Later
  <2>3. (\A p \in L : log[p] \in S) /\ \A y \in S : \E p \in L : log[p] = y
    OBVIOUS
  <2>4. Cardinality(E) = Cardinality(GroupAt(log)) + Cardinality(L)
    BY AllCounted DEF E
  <2>5. Len(GroupRecords(log)) = Cardinality(GroupAt(log))
    BY GroupRecordsAre
  <2> HIDE DEF F, L, S
  <2>6. DOMAIN F = 1..Len(F) /\ Len(F) \in Nat
    BY <2>1, LenProperties
  <2>7. IsFiniteSet(DOMAIN F) /\ Cardinality(DOMAIN F) = Len(F)
    <3> DEFINE k == Len(F)
    <3>1. k \in Nat /\ DOMAIN F = 1..k
      BY <2>6
    <3> HIDE DEF k
    <3>2. IsFiniteSet(1..k) /\ Cardinality(1..k) = k
      <4>1. 1 \in Int /\ k \in Int
        BY <3>1
      <4>2. Cardinality(1..k) = IF 1 > k THEN 0 ELSE k - 1 + 1
        BY <4>1, FS_Interval
      <4> QED
        BY <3>1, <4>1, <4>2, FS_Interval
    <3> QED
      BY <3>1, <3>2 DEF k
  <2>8. (\A i \in DOMAIN F : F[i] \in S) /\ \A y \in S : \E i \in DOMAIN F : F[i] = y
    BY <2>1, <2>3
  <2>9. Cardinality(S) = Cardinality(L)
    BY <2>2, <2>3, ListedOnce
  <2>10. Cardinality(S) = Cardinality(DOMAIN F)
    BY <2>1, <2>7, <2>8, ListedOnce
  <2>11. Len(F) = Cardinality(L)
    BY <2>7, <2>9, <2>10
  <2> QED
    BY <1>1, <2>4, <2>5, <2>11 DEF F
<1>6. plan.position = Cardinality({e \in E : e.round = last})
  <2> DEFINE L == {p \in Later(log) : log[p].round = last}
             S == {e \in E : e.round = last}
  <2>1. IsFiniteSet(L)
    <3>1. IsFiniteSet(Later(log)) /\ L \subseteq Later(log)
      BY LaterAre
    <3> HIDE DEF L
    <3> QED
      BY <3>1, FS_Subset
  <2>2. \A p, q \in L : log[p] = log[q] => p = q
    BY FirstTimesAre DEF Later
  <2>3. \A p \in L : log[p] \in S
    BY LaterRounds DEF E, Held
  <2>4. \A e \in S : \E p \in L : log[p] = e
    <3> TAKE e \in S
    <3>1. PICK i \in DOMAIN log : log[i] = e
      BY DEF E, Held
    <3>2. PICK p \in FirstTimes(log) : log[p] = e
      BY <3>1, FirstTimesAre
    <3>3. e.round = last /\ e.round # GroupStage
      BY <1>2 DEF GroupStage
    <3>4. p \in Later(log)
      BY <3>2, <3>3, LaterAre
    <3> QED
      BY <3>2, <3>3, <3>4
  <2>5. plan.position = Cardinality(L)
    BY <1>1 DEF RoundProgress
  <2> HIDE DEF L, S
  <2>6. Cardinality(S) = Cardinality(L)
    BY <2>1, <2>2, <2>3, <2>4, ListedOnce
  <2> QED
    BY <2>5, <2>6 DEF S
<1>7. ToSet(plan.requests)
        = {[series |-> s, game |-> NextGame(E, last, s)] : s \in Pending(E, last)}
  <2> DEFINE Q == NextGameRequests(RoundEvaluations(log, last))
             O == OpenSeries(log, last)
  <2>1. /\ \A i \in DOMAIN Q : \E s \in O : Q[i] = Request(log, last, s)
        /\ \A s \in O : \E i \in DOMAIN Q : Q[i] = Request(log, last, s)
    BY <1>2, RequestsAre
  <2>2. /\ \A s : Decided(SeriesRecords(log, last, s)) <=> SeriesDecided(E, last, s)
        /\ \A s : NextGame(E, last, s) = Len(SeriesRecords(log, last, s)) + 1
    BY <1>2, SeriesRecordsSay DEF E
  <2>3. O = Pending(E, last)
    <3>1. last # GroupStage
      BY <1>2 DEF GroupStage
    <3> QED
      BY <2>2, <3>1 DEF OpenSeries, Pending, SeriesDone
  <2>4. \A s : Request(log, last, s) = [series |-> s, game |-> NextGame(E, last, s)]
    BY <2>2 DEF Request
  <2> HIDE DEF Q, O
  <2>5. ToSet(Q) = {[series |-> s, game |-> NextGame(E, last, s)] : s \in O}
    <3>1. \A q \in ToSet(Q) : q \in {[series |-> s, game |-> NextGame(E, last, s)] : s \in O}
      BY <2>1, <2>4 DEF ToSet
    <3>2. \A s \in O : [series |-> s, game |-> NextGame(E, last, s)] \in ToSet(Q)
      <4> TAKE s \in O
      <4>1. PICK i \in DOMAIN Q : Q[i] = Request(log, last, s)
        BY <2>1
      <4>2. Q[i] \in ToSet(Q)
        BY DEF ToSet
      <4> QED
        BY <2>4, <4>1, <4>2
    <3> QED
      BY <3>1, <3>2
  <2> QED
    BY <1>1, <2>3, <2>5 DEF Q
<1> QED
  BY <1>1, <1>4, <1>5, <1>6, <1>7 DEF plan, E

(* What the planner may plan from, the recovery accepts.                   *)
LEMMA RecoverableIsPlanned ==
  ASSUME Invariants, RecoverableState
  PROVE  RecoveryAccepts(results)
<1>1. InPlace(results) /\ RecoverableLog(results)
  BY ResultsInPlace, ResultsRecoverable
<1>2. \A i \in Later(results) : OpenAt(results, i)
  BY <1>1 DEF RecoverableLog
<1>3. \A i \in Later(results) : KnownGame(results[i])
  BY <1>1, <1>2, OpenIsKnown
<1> QED
  BY <1>1, <1>3, RecoverableIsAccepted

(* The same of the knockout executor, which derives every round again: its *)
(* round and counts are the plan's, and its series are those with a        *)
(* request, each for its next game.                                        *)
THEOREM KnockoutPlansAreAccepted == Spec => KnockoutExecutorAcceptsPlan
<1> DEFINE plan == KnockoutPlan(results)
<1>1. Invariants /\ PlanKnockout =>
        /\ ValidKnockoutPlan(plan)
        /\ active' = plan.round
        /\ count' = plan.count /\ position' = plan.position
        /\ NextGames' = ToSet(plan.requests)
  <2> SUFFICES ASSUME Invariants, PlanKnockout
               PROVE  /\ ValidKnockoutPlan(plan)
                      /\ active' = plan.round
                      /\ count' = plan.count /\ position' = plan.position
                      /\ NextGames' = ToSet(plan.requests)
    OBVIOUS
  <2> DEFINE r == ActiveRound(Accepted)
  <2>1. RecoverableState /\ LoadPlan(r)
    BY DEF PlanKnockout, Planning
  <2>2. InPlace(results) /\ Held(results) = Accepted /\ RecoveryAccepts(results)
    BY <2>1, ResultsInPlace, RecoverableIsPlanned
  <2>3. ValidKnockoutPlan(plan)
    BY <2>2, PlanIsValid
  <2>4. /\ plan.round = r
        /\ plan.count = Cardinality(Accepted)
        /\ plan.position = Cardinality({e \in Accepted : e.round = plan.round})
    BY <2>2, PlanSays
  <2>5. ToSet(plan.requests)
          = {[series |-> s, game |-> NextGame(Held(results), plan.round, s)]
               : s \in Pending(Held(results), plan.round)}
    BY <2>2, PlanSays
  <2>6. r \in 1..Rounds
    BY ActiveRoundIs
  <2>7. r # GroupStage
    BY <2>6 DEF GroupStage
  <2> HIDE DEF plan, r
  <2>8. /\ active' = r /\ known' = Accepted /\ todo' = Pending(Accepted, r)
        /\ count' = Cardinality(Accepted)
        /\ position' = Cardinality({e \in Accepted : e.round = r})
    BY <2>1, <2>7 DEF LoadPlan
  <2>9. NextGames' = ToSet(plan.requests)
    BY <2>2, <2>4, <2>5, <2>8 DEF NextGames
  <2> QED
    BY <2>3, <2>4, <2>8, <2>9
<1> HIDE DEF plan
<1>2. Invariants /\ [Next]_vars =>
        [PlanKnockout => /\ ValidKnockoutPlan(plan)
                         /\ active' = plan.round
                         /\ count' = plan.count /\ position' = plan.position
                         /\ NextGames' = ToSet(plan.requests)]_vars
  BY <1>1
<1>3. Spec => [][PlanKnockout => /\ ValidKnockoutPlan(plan)
                                 /\ active' = plan.round
                                 /\ count' = plan.count /\ position' = plan.position
                                 /\ NextGames' = ToSet(plan.requests)]_vars
  BY InvariantsHold, <1>2, PTL DEF Spec
<1> QED
  BY <1>3 DEF KnockoutExecutorAcceptsPlan, plan

------------------------------------------------------------------------------
(* The planner's walk refuses exactly what the state layer refuses.        *)

(* The rules are the same for the log of another run directory.            *)
LEMMA SameRulesForLog ==
  ASSUME NEW log
  PROVE  /\ \A E, r, s : Log(log)!SeriesDecided(E, r, s) <=> SeriesDecided(E, r, s)
         /\ \A E, r, s : Log(log)!NextGame(E, r, s) = NextGame(E, r, s)
         /\ \A E, r : Log(log)!StageComplete(E, r) <=> StageComplete(E, r)
         /\ Log(log)!GroupStage = GroupStage
         /\ \A E : Log(log)!KnockoutGames(E) = KnockoutGames(E)
<1>1. /\ \A E, r, s : Log(log)!Games(E, r, s) = Games(E, r, s)
      /\ Log(log)!GroupStage = GroupStage
  BY DEF Log!Games, Games, Log!GroupStage, GroupStage
<1>2. \A S : Log(log)!Cardinality(S) = Cardinality(S)
  BY Zenon DEF Log!Cardinality, Cardinality
<1>3. \A E, r, s : Log(log)!SeriesDecided(E, r, s) <=> SeriesDecided(E, r, s)
  <2> TAKE E, r, s
  <2>1. Log(log)!Games(E, r, s) = Games(E, r, s)
    BY <1>1
  <2>2. \A slot : Log(log)!Wins(E, r, s, slot) = Wins(E, r, s, slot)
    BY <1>2, <2>1 DEF Log!Wins, Wins
  <2> QED
    BY <1>2, <2>1, <2>2, Zenon DEF Log!SeriesDecided, SeriesDecided
<1>4. \A E, r, s : Log(log)!NextGame(E, r, s) = NextGame(E, r, s)
  <2> TAKE E, r, s
  <2>1. Log(log)!Games(E, r, s) = Games(E, r, s)
    BY <1>1
  <2> QED
    BY <1>2, <2>1, Zenon DEF Log!NextGame, NextGame
<1>5. \A r : Log(log)!SeriesIn(r) = SeriesIn(r)
  BY <1>1 DEF Log!SeriesIn, SeriesIn
<1>6. \A E, r, s : Log(log)!SeriesDone(E, r, s) <=> SeriesDone(E, r, s)
  BY <1>1, <1>3 DEF Log!SeriesDone, SeriesDone
<1>7. \A E, r : Log(log)!StageComplete(E, r) <=> StageComplete(E, r)
  BY <1>5, <1>6 DEF Log!StageComplete, StageComplete
<1>8. \A E : Log(log)!KnockoutGames(E) = KnockoutGames(E)
  BY <1>1 DEF Log!KnockoutGames, KnockoutGames
<1> QED
  BY <1>1, <1>3, <1>4, <1>7, <1>8

(* What the state layer demands of a log, said of the records that count.  *)
LEMMA RecoverableLogIs ==
  ASSUME NEW log, InPlace(log), ~Log(log)!ConflictingDuplicates
  PROVE  Log(log)!RecoverableState <=> RecoverableLog(log)
<1>1. Log(log)!Accepted = Held(log)
  BY DEF Log!Accepted, Held
<1>2. Log(log)!KnockoutRecords = Later(log)
  <2>1. Later(log) = {i \in FirstTimes(log) : log[i].round # GroupStage}
    BY LaterAre
  <2> QED
    BY <2>1, SameRulesForLog DEF Log!KnockoutRecords, FirstTimes
<1>3. Log(log)!HasKnockoutEvidence <=> Later(log) # {}
  <2>1. Log(log)!HasKnockoutEvidence <=> KnockoutGames(Held(log)) # {}
    BY <1>1, SameRulesForLog DEF Log!HasKnockoutEvidence
  <2>2. ASSUME NEW i \in Later(log) PROVE KnockoutGames(Held(log)) # {}
    BY LaterRounds, LaterAre DEF Held, KnockoutGames
  <2>3. ASSUME NEW e \in KnockoutGames(Held(log)) PROVE Later(log) # {}
    <3>1. PICK i \in DOMAIN log : log[i] = e
      BY DEF Held, KnockoutGames
    <3>2. PICK j \in FirstTimes(log) : log[j] = e
      BY <3>1, FirstTimesAre
    <3> QED
      BY <3>2, LaterAre DEF KnockoutGames
  <2> QED
    BY <2>1, <2>2, <2>3
<1>4. Log(log)!SeriesInOrder <=> \A i \in Later(log) : OpenAt(log, i)
  <2> DEFINE K == Log(log)!KnockoutRecords
             Past(i) == {log[j] : j \in {k \in K : k < i}}
             Open(i) == /\ log[i].game = Log(log)!NextGame(Past(i), log[i].round, log[i].series)
                        /\ ~Log(log)!SeriesDecided(Past(i), log[i].round, log[i].series)
  <2>1. Log(log)!SeriesInOrder <=> \A i \in K : Open(i)
    BY Zenon DEF Log!SeriesInOrder
  <2>2. ASSUME NEW i PROVE Open(i) <=> OpenAt(log, i)
    <3>1. Past(i) = Earlier(log, i)
      BY <1>2 DEF Earlier
    <3> HIDE DEF Past
    <3> QED
      BY <3>1, SameRulesForLog DEF OpenAt
  <2> HIDE DEF Open
  <2> QED
    BY <1>2, <2>1, <2>2
<1>5. Log(log)!RoundsInOrder <=> RoundsFollow(log)
  BY <1>1, <1>2, SameRulesForLog DEF Log!RoundsInOrder, RoundsFollow
<1>6. Log(log)!ReadableState
  BY DEF Log!ReadableState
<1> QED
  BY <1>1, <1>3, <1>4, <1>5, <1>6, SameRulesForLog DEF Log!RecoverableState, RecoverableLog

(* A record as the scheduled match or the known game that it is.           *)
Fits(e) == e \in Entry /\ Placed(e) /\ (e.round # GroupStage => KnownGame(e))

(* Both refuse the same logs, when every record could be one of a run.     *)
LEMMA AcceptedExactly ==
  ASSUME NEW log, InPlace(log), ~Log(log)!ConflictingDuplicates,
         \A i \in DOMAIN log : Fits(log[i])
  PROVE  RecoveryAccepts(log) <=> Log(log)!RecoverableState
<1>1. \A i \in Later(log) : KnownGame(log[i])
  <2> TAKE i \in Later(log)
  <2>1. i \in DOMAIN log /\ log[i].round # GroupStage
    BY LaterRounds, LaterAre
  <2> QED
    BY <2>1 DEF Fits
<1> QED
  BY <1>1, AcceptedIsRecoverable, RecoverableIsAccepted, RecoverableLogIs

(* A record more, of a match the log does not have.                        *)
LEMMA OneMore ==
  ASSUME NEW log, InPlace(log), NEW e \in Entry, Placed(e), e.round # GroupStage,
         \A i \in DOMAIN log : ~SameMatch(log[i], e)
  PROVE  LET more == Append(log, e)
             n == Len(log) + 1
         IN  /\ InPlace(more)
             /\ Held(more) = Held(log) \cup {e}
             /\ Later(more) = Later(log) \cup {n} /\ more[n] = e
             /\ \A i \in Later(log) : i < n /\ more[i] = log[i]
             /\ \A i \in Later(log) : Earlier(more, i) = Earlier(log, i)
             /\ Earlier(more, n) = {log[i] : i \in Later(log)}
<1> DEFINE more == Append(log, e)
           n == Len(log) + 1
<1>1. /\ Len(log) \in Nat /\ DOMAIN log = 1..Len(log)
      /\ FirstTimes(log) \subseteq DOMAIN log
      /\ \A i \in DOMAIN log : log[i] \in Entry
  BY FirstTimesAre
<1>2. /\ more \in Seq(Entry) /\ Len(more) = n
      /\ \A i \in 1..Len(log) : more[i] = log[i]
      /\ more[n] = e
  <2>1. log \in Seq(Entry)
    BY DEF InPlace
  <2> QED
    BY <2>1, AppendProperties
<1>3. DOMAIN more = 1..n
  BY <1>2, LenProperties
<1> HIDE DEF more
<1>4. DOMAIN more = DOMAIN log \cup {n} /\ n \notin DOMAIN log /\ n \in Nat
  BY <1>1, <1>3
<1>5. \A i \in DOMAIN log : more[i] = log[i]
  BY <1>1, <1>2
<1>6. InPlace(more)
  <2>1. \A i \in DOMAIN more : Placed(more[i])
    BY <1>2, <1>4, <1>5 DEF InPlace
  <2>2. ASSUME NEW i \in DOMAIN more, NEW j \in DOMAIN more, SameMatch(more[i], more[j])
        PROVE  more[i] = more[j]
    <3>1. CASE i \in DOMAIN log /\ j \in DOMAIN log
      BY <1>5, <2>2, <3>1 DEF InPlace
    <3>2. CASE i = n /\ j = n
      BY <3>2
    <3>3. CASE i \in DOMAIN log /\ j = n
      BY <1>2, <1>5, <2>2, <3>3
    <3>4. CASE i = n /\ j \in DOMAIN log
      <4>1. SameMatch(log[j], e)
        BY <1>2, <1>5, <2>2, <3>4 DEF SameMatch
      <4> QED
        BY <3>4, <4>1
    <3> QED
      BY <1>4, <3>1, <3>2, <3>3, <3>4
  <2> QED
    BY <1>2, <2>1, <2>2 DEF InPlace
<1>7. Held(more) = Held(log) \cup {e}
  BY <1>2, <1>4, <1>5 DEF Held
<1>8. FirstTimes(more) = FirstTimes(log) \cup {n}
  <2>1. ASSUME NEW i \in DOMAIN log PROVE i \in FirstTimes(more) <=> i \in FirstTimes(log)
    <3>1. \A j \in 1..(i - 1) : j \in DOMAIN log
      BY <1>1
    <3> QED
      BY <1>4, <1>5, <3>1 DEF FirstTimes
  <2>2. n \in FirstTimes(more)
    <3>1. \A j \in 1..(n - 1) : j \in DOMAIN log
      BY <1>1
    <3>2. \A j \in DOMAIN log : log[j] # e
      BY DEF SameMatch
    <3> QED
      BY <1>2, <1>4, <1>5, <3>1, <3>2 DEF FirstTimes
  <2>3. FirstTimes(more) \subseteq DOMAIN more
    BY DEF FirstTimes
  <2> QED
    BY <1>1, <1>4, <2>1, <2>2, <2>3
<1>9. Later(more) = Later(log) \cup {n}
  <2>1. /\ Later(more) = {i \in FirstTimes(more) : more[i].round # GroupStage}
        /\ Later(log) = {i \in FirstTimes(log) : log[i].round # GroupStage}
    BY <1>6, LaterAre
  <2>2. \A i \in FirstTimes(log) : more[i] = log[i]
    BY <1>1, <1>5
  <2> QED
    BY <1>2, <1>8, <2>1, <2>2
<1>10. \A i \in Later(log) : i \in DOMAIN log /\ i \in Nat /\ i < n /\ more[i] = log[i]
  <2> TAKE i \in Later(log)
  <2>1. i \in DOMAIN log
    BY <1>1 DEF Later
  <2> QED
    BY <1>1, <1>5, <2>1
<1>11. ASSUME NEW i \in Later(log) PROVE Earlier(more, i) = Earlier(log, i)
  <2>1. {k \in Later(more) : k < i} = {k \in Later(log) : k < i}
    BY <1>4, <1>9, <1>10
  <2>2. \A k \in {k \in Later(log) : k < i} : more[k] = log[k]
    BY <1>10
  <2> QED
    BY <2>1, <2>2 DEF Earlier
<1>12. Earlier(more, n) = {log[i] : i \in Later(log)}
  <2>1. {k \in Later(more) : k < n} = Later(log)
    BY <1>4, <1>9, <1>10
  <2> QED
    BY <1>10, <2>1 DEF Earlier
<1> HIDE DEF n
<1> QED
  BY <1>2, <1>6, <1>7, <1>9, <1>10, <1>11, <1>12 DEF more, n

(* The answer to a request is accepted in turn.                            *)
LEMMA AnswerAccepted ==
  ASSUME NEW log, InPlace(log), RecoveryAccepts(log),
         StageComplete(Held(log), GroupStage),
         NEW s \in OpenSeries(log, PlannedRound(log)), NEW o \in Outcomes
  PROVE  RecoveryAccepts(Append(log, [round   |-> PlannedRound(log),
                                      series  |-> s,
                                      game    |-> Len(SeriesRecords(log, PlannedRound(log), s)) + 1,
                                      outcome |-> o]))
<1> DEFINE r == PlannedRound(log)
           R == SeriesRecords(log, r, s)
           P == SeriesAt(log, r, s)
           m == Cardinality(P)
           E == Held(log)
           e == [round |-> r, series |-> s, game |-> Len(R) + 1, outcome |-> o]
           more == Append(log, e)
           n == Len(log) + 1
<1>1. /\ r \in 1..Rounds /\ Rounds \in Nat /\ GameCap \in Nat
      /\ PlannedRounds(log) = 1..r
      /\ \A q \in 1..(r - 1) : RoundComplete(log, q)
  BY PlannedRoundsAre, RulesAssumption
<1>2. s \in SeriesIn(r) /\ ~Decided(R)
  BY DEF OpenSeries
<1>3. /\ RecoverableLog(log)
      /\ \A i \in Later(log) : log[i].round <= r
      /\ \A i \in Later(log) : KnownGame(log[i])
  BY AcceptedIsRecoverable DEF RecoveryAccepts
<1>4. GamesInOrder(R) /\ Playable(R)
  <2>1. r \in PlannedRounds(log)
    BY <1>1
  <2> QED
    BY <1>2, <2>1 DEF RecoveryAccepts
<1>5. Len(R) \in 0..GameCap /\ Len(R) < GameCap
  BY <1>1, <1>2, <1>4, GamesCapped
<1>6. /\ m \in Nat /\ DOMAIN R = 1..m /\ Len(R) = m
      /\ \A k \in 1..m : R[k] = log[PositionOf(k, P)] /\ PositionOf(k, P) \in P
      /\ \A d \in Games(E, r, s) : \E k \in 1..m : R[k] = d
  BY <1>1, SeriesRecordsAre
<1>7. /\ Decided(R) <=> SeriesDecided(E, r, s)
      /\ NextGame(E, r, s) = Len(R) + 1
  BY <1>1, SeriesRecordsSay
<1>8. r # GroupStage
  BY <1>1 DEF GroupStage
<1> HIDE DEF r, R, P, m, E
<1>9. /\ e \in Entry /\ e.round = r /\ e.series = s /\ e.game = Len(R) + 1
      /\ Placed(e) /\ KnownGame(e)
  <2>1. s \in Nat
    <3>1. PICK k \in Nat : SeriesIn(r) = 1..k
      BY <1>1, SeriesNumbers
    <3> QED
      BY <1>2, <3>1
  <2>2. Len(R) + 1 \in 1..GameCap /\ Len(R) + 1 \in Nat
    BY <1>1, <1>5
  <2>3. o \in {"played", "entrant1", "entrant2", "tie"} /\ r \in 0..Rounds
    BY <1>1, RulesAssumption
  <2> QED
    BY <1>1, <1>2, <1>8, <2>1, <2>2, <2>3 DEF Entry, Placed, KnownGame
<1> HIDE DEF e
<1>10. ASSUME NEW i \in DOMAIN log, SameMatch(log[i], e) PROVE FALSE
  <2>1. log[i] \in Games(E, r, s)
    BY <1>9, <1>10 DEF SameMatch, Games, E, Held
  <2>2. PICK k \in 1..m : R[k] = log[i]
    BY <1>6, <2>1
  <2>3. log[i].game = k
    BY <1>4, <1>6, <2>2 DEF GamesInOrder
  <2> QED
    BY <1>6, <1>9, <1>10, <2>3 DEF SameMatch
<1>11. /\ InPlace(more)
       /\ Held(more) = E \cup {e}
       /\ Later(more) = Later(log) \cup {n} /\ more[n] = e
       /\ \A i \in Later(log) : i < n /\ more[i] = log[i]
       /\ \A i \in Later(log) : Earlier(more, i) = Earlier(log, i)
       /\ Earlier(more, n) = {log[i] : i \in Later(log)}
  BY <1>8, <1>9, <1>10, OneMore DEF E
<1>0. \A i \in Later(log) : i \in Nat /\ log[i].round \in 1..Rounds
  BY LaterRounds
<1> HIDE DEF more, n
<1>12. \A i \in Later(more) : KnownGame(more[i])
  BY <1>3, <1>9, <1>11
<1>13. \A i \in Later(more) : OpenAt(more, i)
  <2>1. ASSUME NEW i \in Later(log) PROVE OpenAt(more, i)
    <3>1. OpenAt(log, i)
      BY <1>3 DEF RecoverableLog
    <3> QED
      BY <1>11, <3>1 DEF OpenAt
  <2>2. OpenAt(more, n)
    <3> DEFINE D == {log[i] : i \in Later(log)}
    <3>1. Games(D, r, s) = Games(E, r, s)
      <4>1. ASSUME NEW d \in Games(E, r, s) PROVE d \in D
        <5>1. PICK i \in DOMAIN log : log[i] = d
          BY DEF Games, E, Held
        <5>2. PICK j \in FirstTimes(log) : log[j] = d
          BY <5>1, FirstTimesAre
        <5>3. j \in Later(log)
          BY <1>8, <5>2, LaterAre DEF Games
        <5> QED
          BY <5>2, <5>3
      <4>2. D \subseteq E
        BY LaterRounds DEF E, Held
      <4> QED
        BY <4>1, <4>2 DEF Games
    <3> HIDE DEF D
    <3>2. NextGame(D, r, s) = NextGame(E, r, s)
      BY <3>1 DEF NextGame
    <3>3. SeriesDecided(D, r, s) <=> SeriesDecided(E, r, s)
      BY <3>1, Zenon DEF SeriesDecided, Wins
    <3>4. Earlier(more, n) = D
      BY <1>11 DEF D
    <3> QED
      BY <1>2, <1>7, <1>9, <1>11, <3>2, <3>3, <3>4 DEF OpenAt
  <2> QED
    BY <1>11, <2>1, <2>2
<1>14. ASSUME NEW q \in 1..(r - 1) PROVE StageComplete(Held(more), q)
  <2>1. q \in 1..Rounds /\ q # r /\ q # GroupStage
    BY <1>1 DEF GroupStage
  <2>2. StageComplete(E, q)
    BY <1>1, <2>1, RoundCompleteIs DEF E
  <2>3. \A t : Games(Held(more), q, t) = Games(E, q, t)
    BY <1>9, <1>11, <2>1 DEF Games
  <2>4. \A t : SeriesDecided(Held(more), q, t) <=> SeriesDecided(E, q, t)
    BY <2>3, Zenon DEF SeriesDecided, Wins
  <2> QED
    BY <2>1, <2>2, <2>4 DEF StageComplete, SeriesDone
<1>15. StageComplete(Held(more), GroupStage)
  <2>1. \A t : Games(E, GroupStage, t) \subseteq Games(Held(more), GroupStage, t)
    BY <1>11 DEF Games
  <2>2. StageComplete(E, GroupStage)
    BY DEF E
  <2> QED
    BY <2>1, <2>2 DEF StageComplete, SeriesDone
<1>16. RoundsFollow(more)
  <2>1. ASSUME NEW i \in Later(more), NEW j \in Later(more), i < j
        PROVE  more[i].round <= more[j].round
    <3>1. CASE i \in Later(log) /\ j \in Later(log)
      <4>1. log[i].round <= log[j].round
        BY <1>3, <2>1, <3>1 DEF RecoverableLog, RoundsFollow
      <4> QED
        BY <1>11, <3>1, <4>1
    <3>2. CASE i \in Later(log) /\ j = n
      BY <1>3, <1>9, <1>11, <3>2
    <3>3. CASE i = n
      <4>1. n \in Nat
        BY FirstTimesAre DEF n
      <4>2. n < j
        BY <2>1, <3>3
      <4>3. (j \in Nat /\ j < n) \/ j = n
        BY <1>0, <1>11
      <4> QED
        BY <4>1, <4>2, <4>3
    <3> QED
      BY <1>11, <3>1, <3>2, <3>3
  <2>2. ASSUME NEW i \in Later(more), NEW q \in 1..(more[i].round - 1)
        PROVE  StageComplete(Held(more), q)
    <3>1. more[i].round \in 1..Rounds /\ more[i].round <= r
      BY <1>0, <1>1, <1>3, <1>9, <1>11
    <3>2. q \in 1..(r - 1)
      BY <1>1, <3>1
    <3> QED
      BY <1>14, <3>2
  <2> QED
    BY <2>1, <2>2 DEF RoundsFollow
<1>17. RecoverableLog(more)
  BY <1>13, <1>15, <1>16 DEF RecoverableLog
<1>18. RecoveryAccepts(more)
  BY <1>11, <1>12, <1>17, RecoverableIsAccepted
<1> QED
  BY <1>18 DEF more, e, R, r

------------------------------------------------------------------------------
(* One slip away from a log that recovery plans from.                      *)

(* The records that could be one of a run.                                 *)
Fitting == {e \in Entry : Fits(e)}

(* So are those that may slip in,                                          *)
LEMMA CandidatesFit == Candidates \subseteq Fitting
<1> SUFFICES ASSUME NEW e \in Candidates PROVE e \in Fitting
  OBVIOUS
<1>1. PICK r \in 0..Rounds :
        e \in [round : {r}, series : SeriesIn(r), game : GamesOf(r), outcome : OutcomesIn(r)]
  BY DEF Candidates
<1>2. /\ e.round = r /\ e.series \in SeriesIn(r) /\ e.game \in GamesOf(r)
      /\ e.outcome \in OutcomesIn(r)
      /\ e = [round |-> e.round, series |-> e.series, game |-> e.game, outcome |-> e.outcome]
  BY <1>1
<1>3. Rounds \in Nat /\ GameCap \in Nat /\ GroupMatches \in Nat
  BY RulesAssumption
<1>4. e.series \in Nat
  <2>1. CASE r = GroupStage
    BY <1>2, <1>3, <2>1 DEF SeriesIn
  <2>2. CASE r # GroupStage
    <3>1. r \in 1..Rounds
      BY <1>3, <2>2 DEF GroupStage
    <3>2. PICK k \in Nat : SeriesIn(r) = 1..k
      BY <3>1, SeriesNumbers
    <3> QED
      BY <1>2, <3>2
  <2> QED
    BY <2>1, <2>2
<1>5. e.game \in Nat /\ e.outcome \in {"played", "entrant1", "entrant2", "tie"}
  BY <1>2, <1>3, RulesAssumption DEF GamesOf, OutcomesIn
<1>6. e \in Entry
  BY <1>2, <1>4, <1>5 DEF Entry
<1>7. Placed(e)
  BY <1>2 DEF Placed, GamesOf
<1>8. e.round # GroupStage => KnownGame(e)
  BY <1>2, <1>3 DEF KnownGame, GamesOf, GroupStage
<1> QED
  BY <1>6, <1>7, <1>8 DEF Fitting, Fits

(* those of a log the planner goes on from,                                *)
LEMMA ResultsFit ==
  ASSUME Invariants, RecoverableState
  PROVE  results \in Seq(Fitting)
<1>1. InPlace(results) /\ RecoverableLog(results)
  BY ResultsInPlace, ResultsRecoverable
<1>2. \A i \in Later(results) : KnownGame(results[i])
  <2>1. \A i \in Later(results) : OpenAt(results, i)
    BY <1>1 DEF RecoverableLog
  <2> QED
    BY <1>1, <2>1, OpenIsKnown
<1>3. /\ DOMAIN results = 1..Len(results) /\ Len(results) \in Nat
      /\ \A i \in DOMAIN results : results[i] \in Entry
  BY <1>1, FirstTimesAre
<1>4. ASSUME NEW i \in DOMAIN results PROVE results[i] \in Fitting
  <2>1. PICK j \in FirstTimes(results) : results[j] = results[i]
    BY <1>1, FirstTimesAre
  <2>2. results[i].round # GroupStage => KnownGame(results[i])
    BY <1>1, <1>2, <2>1, LaterAre
  <2> QED
    BY <1>1, <1>3, <2>2 DEF Fitting, Fits, InPlace
<1>5. results \in Seq(Entry)
  BY <1>1 DEF InPlace
<1>6. results = [i \in 1..Len(results) |-> results[i]]
  BY <1>5, LenProperties
<1>7. [i \in 1..Len(results) |-> results[i]] \in Seq(Fitting)
  BY <1>3, <1>4, IsASeq
<1> QED
  BY <1>6, <1>7

(* and those of such a log after a slip.                                   *)
LEMMA SlipsFit ==
  ASSUME NEW log \in Seq(Fitting)
  PROVE  Slips(log) \subseteq Seq(Fitting)
<1>1. Len(log) \in Nat /\ DOMAIN log = 1..Len(log) /\ \A i \in 1..Len(log) : log[i] \in Fitting
  BY LenProperties, ElementOfSeq
<1>2. ASSUME NEW e \in Candidates PROVE Append(log, e) \in Seq(Fitting)
  BY CandidatesFit, AppendProperties
<1>3. ASSUME NEW i \in DOMAIN log PROVE RemoveAt(log, i) \in Seq(Fitting)
  <2>1. i \in Int /\ 1 \in Int /\ i - 1 \in Int /\ i + 1 \in Int /\ Len(log) \in Int
    BY <1>1
  <2>2. \A j \in 1..(i - 1) : log[j] \in Fitting
    BY <1>1
  <2>3. \A j \in (i + 1)..Len(log) : log[j] \in Fitting
    BY <1>1
  <2>4. SubSeq(log, 1, i - 1) \in Seq(Fitting)
    BY <2>1, <2>2, SubSeqProperties
  <2>5. SubSeq(log, i + 1, Len(log)) \in Seq(Fitting)
    BY <2>1, <2>3, SubSeqProperties
  <2> QED
    BY <2>4, <2>5, ConcatProperties DEF RemoveAt
<1>4. ASSUME NEW i \in 1..(Len(log) - 1) PROVE Exchanged(log, i) \in Seq(Fitting)
  <2>1. i \in 1..Len(log) /\ i + 1 \in 1..Len(log)
    BY <1>1
  <2> DEFINE once == [log EXCEPT ![i] = log[i + 1]]
  <2>2. once \in Seq(Fitting) /\ Len(once) = Len(log)
    BY <1>1, <2>1, ExceptSeq
  <2>3. Exchanged(log, i) = [once EXCEPT ![i + 1] = log[i]]
    BY DEF Exchanged
  <2> HIDE DEF once
  <2> QED
    BY <1>1, <2>1, <2>2, <2>3, ExceptSeq
<1> QED
  BY <1>2, <1>3, <1>4 DEF Slips

(* A plan that is accepted is valid, and the run goes on from it.          *)
LEMMA PlanGoesOn ==
  ASSUME NEW log, InPlace(log), RecoveryAccepts(log),
         MissingMatches(GroupRecords(log)) = << >>,
         NEW i \in DOMAIN KnockoutPlan(log).requests, NEW o \in Outcomes
  PROVE  RecoveryAccepts(Append(log,
           [round |-> KnockoutPlan(log).round,
            series |-> KnockoutPlan(log).requests[i].series,
            game |-> KnockoutPlan(log).requests[i].game, outcome |-> o]))
<1> DEFINE plan == KnockoutPlan(log)
           last == PlannedRound(log)
           Q == NextGameRequests(RoundEvaluations(log, last))
<1>1. plan.round = last /\ plan.requests = Q
  BY PlanIs
<1>2. last \in 1..Rounds
  BY PlannedRoundsAre
<1> HIDE DEF plan, last
<1>3. \A j \in DOMAIN Q : \E s \in OpenSeries(log, last) : Q[j] = Request(log, last, s)
  BY <1>2, RequestsAre
<1> HIDE DEF Q
<1>4. i \in DOMAIN Q
  BY <1>1 DEF plan
<1>5. PICK s \in OpenSeries(log, last) : Q[i] = Request(log, last, s)
  BY <1>3, <1>4
<1>6. /\ plan.requests[i].series = s
      /\ plan.requests[i].game = Len(SeriesRecords(log, last, s)) + 1
  BY <1>1, <1>5 DEF Request
<1>7. StageComplete(Held(log), GroupStage)
  BY GroupPlanIs
<1>8. RecoveryAccepts(Append(log, [round |-> last, series |-> s,
                                   game |-> Len(SeriesRecords(log, last, s)) + 1,
                                   outcome |-> o]))
  BY <1>5, <1>7, AnswerAccepted DEF last
<1> QED
  BY <1>1, <1>6, <1>8 DEF plan

(* Recovery, walking through the rounds, refuses exactly the logs that are *)
(* no history of a run, also those a slip has made of one.  What it does   *)
(* accept it can go on from: the plan is valid and every answer to its     *)
(* requests is accepted in turn.                                           *)
THEOREM RecoveryExact == Spec => []RecoveryIsExact
<1>1. Invariants => RecoveryIsExact
  <2> SUFFICES ASSUME Invariants, RecoverableState,
                      NEW log \in {results} \cup Slips(results),
                      ~Log(log)!ConflictingDuplicates
               PROVE  /\ RecoveryAccepts(log) <=> Log(log)!RecoverableState
                      /\ (RecoveryAccepts(log) /\ MissingMatches(GroupRecords(log)) = << >>) =>
                           LET plan == KnockoutPlan(log)
                           IN  /\ ValidKnockoutPlan(plan)
                               /\ \A i \in DOMAIN plan.requests, o \in Outcomes :
                                    RecoveryAccepts(Append(log,
                                      [round |-> plan.round, series |-> plan.requests[i].series,
                                       game |-> plan.requests[i].game, outcome |-> o]))
    BY DEF RecoveryIsExact, Planning
  <2>1. log \in Seq(Fitting)
    BY ResultsFit, SlipsFit
  <2>2. \A i \in DOMAIN log : log[i] \in Fitting
    BY <2>1, LenProperties, ElementOfSeq
  <2>3. InPlace(log)
    <3>1. log \in Seq(Entry)
      BY <2>1, SeqMonotonic DEF Fitting
    <3>2. \A i \in DOMAIN log : Placed(log[i])
      BY <2>2 DEF Fitting, Fits
    <3>3. \A i, j \in DOMAIN log : SameMatch(log[i], log[j]) => log[i] = log[j]
      BY DEF Log!ConflictingDuplicates, Log!SameMatch, SameMatch
    <3> QED
      BY <3>1, <3>2, <3>3 DEF InPlace
  <2>4. RecoveryAccepts(log) <=> Log(log)!RecoverableState
    BY <2>2, <2>3, AcceptedExactly DEF Fitting
  <2>5. ASSUME RecoveryAccepts(log) PROVE ValidKnockoutPlan(KnockoutPlan(log))
    BY <2>3, <2>5, PlanIsValid
  <2>6. ASSUME RecoveryAccepts(log), MissingMatches(GroupRecords(log)) = << >>,
               NEW i \in DOMAIN KnockoutPlan(log).requests, NEW o \in Outcomes
        PROVE  RecoveryAccepts(Append(log,
                 [round |-> KnockoutPlan(log).round,
                  series |-> KnockoutPlan(log).requests[i].series,
                  game |-> KnockoutPlan(log).requests[i].game, outcome |-> o]))
    BY <2>3, <2>6, PlanGoesOn
  <2> QED
    BY <2>4, <2>5, <2>6
<1> QED
  BY <1>1, InvariantsHold, PTL
==============================================================================
