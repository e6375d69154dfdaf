---------------------------- MODULE ExplorerProofs ----------------------------
(***************************************************************************)
(* Proofs about the explorer: its answers are current, its replays stay    *)
(* within their bounds, and nobody who waits is forgotten.                 *)
(***************************************************************************)
EXTENDS ExplorerProperties, Integers, FiniteSetTheorems, SequenceTheorems,
        WellFoundedInduction, TLAPS

------------------------------------------------------------------------------
(* The inductive invariant.                                                *)

Contents == [Range(Files) -> Nat]
ReadSoFar == UNION {[D -> Nat] : D \in SUBSET Range(Required)}
Keys == [run : Runs, signature : Seq(Nat)]
ArtifactsOfRuns == [run : Runs, files : [Range(Required) -> Nat], hasReport : BOOLEAN]
ReplayKeys == [run : Runs, result : Nat]

(* What was read of a run is no older than the signature it is kept under. *)
NoOlderThan(artifacts, key) ==
  /\ artifacts.run = key.run
  /\ \A i \in DOMAIN Required : key.signature[i] <= artifacts.files[Required[i]]
  /\ key.signature[3] > 0 => artifacts.hasReport

SoundEntry(entry) ==
  /\ entry \in [key : Keys, artifacts : ArtifactsOfRuns]
  /\ Loadable(entry.artifacts.files) /\ NoOlderThan(entry.artifacts, entry.key)

StoreOK ==
  /\ dir \in [Runs -> Contents]
  /\ cachedRun # NoRun => SoundEntry(cachedRun)
  /\ summary = [r \in Runs |-> summary[r]]
  /\ \A r \in Runs : summary[r] # NoRun => SoundEntry(summary[r])

(* A signature was taken before the directories were as in d.              *)
SignatureOK(key, d) ==
  Len(key.signature) = 3 /\ \A i \in 1..3 : key.signature[i] <= d[key.run][Files[i]]

LoadOK(load, d) ==
  /\ load \in [key : Keys, read : ReadSoFar]
  /\ SignatureOK(load.key, d)
  /\ \A i \in DOMAIN Required : Required[i] \in DOMAIN load.read =>
       load.key.signature[i] <= load.read[Required[i]]

LoadsOK ==
  /\ loads \in Seq([key : Keys, read : ReadSoFar])
  /\ \A i \in 1..Len(loads) : LoadOK(loads[i], dir)

(* The request came before the directories were as in d.                   *)
AskedBefore(req, d) ==
  /\ req.todo \in Seq(Runs) /\ req.todo # << >>
  /\ req.since \in [Range(req.todo) -> Contents]
  /\ \A r \in Range(req.todo), f \in Range(Files) : req.since[r][f] <= d[r][f]

(* What was seen of the files lies between the request and d.              *)
SeenSince(req, d) ==
  /\ req.stats \in Seq(Nat)
  /\ \A i \in 1..Len(req.stats) :
       /\ req.since[Head(req.todo)][Files[i]] <= req.stats[i]
       /\ req.stats[i] <= d[Head(req.todo)][Files[i]]

GotCurrent(req) ==
  /\ req.got \in ArtifactsOfRuns /\ Loadable(req.got.files) /\ req.got.run = Head(req.todo)
  /\ \A f \in Range(Required) : req.since[Head(req.todo)][f] <= req.got.files[f]
  /\ req.since[Head(req.todo)][Report] > 0 => req.got.hasReport

Sinces == UNION {[R -> Contents] : R \in SUBSET Runs}

Asking == [pc : {"stat", "wait"}, kind : Kinds, todo : Seq(Runs), look : {"summary", "run"},
           stats : Seq(Nat), since : Sinces]
Answered == [pc : {"served"}, kind : Kinds, todo : Seq(Runs), since : Sinces, got : ArtifactsOfRuns]
Replaying == [pc : {"replay"}, key : ReplayKeys]

StatOK(req, d) ==
  /\ req \in Asking /\ req.pc = "stat" /\ Len(req.stats) <= 2
  /\ AskedBefore(req, d) /\ SeenSince(req, d)

WaitOK(req, d) ==
  /\ req \in Asking /\ req.pc = "wait" /\ Len(req.stats) = 3
  /\ AskedBefore(req, d) /\ SeenSince(req, d)

ServedOK(req, d) == req \in Answered /\ AskedBefore(req, d) /\ GotCurrent(req)

RequestOK(req, d) ==
  req = Idle \/ StatOK(req, d) \/ WaitOK(req, d) \/ ServedOK(req, d) \/ req \in Replaying

RequestsOK ==
  /\ request = [q \in Requests |-> request[q]]
  /\ \A q \in Requests : RequestOK(request[q], dir)

ReplaysOK ==
  /\ cache \in Seq([key : ReplayKeys, fresh : BOOLEAN])
  /\ cacheBytes \in Nat
  /\ pending \in SUBSET ReplayKeys /\ IsFiniteSet(pending)

ExplorerInv ==
  /\ StoreOK /\ LoadsOK /\ RequestsOK /\ ReplaysOK
  /\ ReplaysWithinBounds /\ NobodyIsForgotten

------------------------------------------------------------------------------
(* Induction, by a least counterexample.                                   *)

(* A set of numbers that is not empty has a least element.                 *)
LEMMA LeastNumber ==
  ASSUME NEW T, T \subseteq Nat, T # {}
  PROVE  \E m \in T : \A n \in T : m <= n
<1>1. PICK m \in T : \A n \in T : <<n, m>> \notin OpToRel(<, Nat)
  BY NatLessThanWellFounded, WFMin
<1>2. \A n \in T : ~(n < m)
  BY <1>1 DEF OpToRel
<1> QED
  BY <1>2

(* A recursion over the subsets of a finite set, which takes out one       *)
(* chosen element at a time, defines a function.                           *)
Chooses(choose, S) == \A T \in SUBSET S : T # {} => choose[T] \in T
Steps(step, S, V) == \A x \in S, v \in V : step[x][v] \in V
IsFold(h, S, base, choose, step) ==
  h = [T \in SUBSET S |-> IF T = {} THEN base ELSE step[choose[T]][h[T \ {choose[T]}]]]

(* There is such a function.                                               *)
LEMMA FoldIsDefined ==
  ASSUME NEW S, IsFiniteSet(S), NEW V, NEW base \in V,
         NEW choose, Chooses(choose, S), NEW step, Steps(step, S, V)
  PROVE  \E h \in [SUBSET S -> V] : IsFold(h, S, base, choose, step)
<1> USE DEF Chooses, Steps
<1> DEFINE Small(n) == {T \in SUBSET S : Cardinality(T) <= n}
           Rec(h, n) == /\ h \in [Small(n) -> V]
                        /\ \A T \in Small(n) : h[T] = IF T = {} THEN base
                                   ELSE step[choose[T]][h[T \ {choose[T]}]]
           Bad == {n \in Nat : \A h : ~Rec(h, n)}
<1>1. \A T \in SUBSET S : IsFiniteSet(T) /\ Cardinality(T) \in Nat
                            /\ Cardinality(T) <= Cardinality(S)
  BY FS_Subset, FS_CardinalityType
<1>2. \A T \in SUBSET S : T # {} => /\ T \ {choose[T]} \in SUBSET S
                                    /\ Cardinality(T \ {choose[T]}) = Cardinality(T) - 1
  BY <1>1, FS_RemoveElement
<1>3. \A T \in SUBSET S : Cardinality(T) = 0 <=> T = {}
  BY <1>1, FS_EmptySet
<1>4. Bad = {}
  <2> SUFFICES ASSUME Bad # {} PROVE FALSE
    OBVIOUS
  <2>1. PICK n \in Bad : \A m \in Bad : n <= m
    BY LeastNumber, Bad \subseteq Nat
  <2>2. n # 0
    <3> SUFFICES ASSUME n = 0 PROVE FALSE
      OBVIOUS
    <3>1. \A T \in Small(0) : T = {}
      BY <1>1, <1>3
    <3>2. Rec([T \in Small(0) |-> base], 0)
      BY <3>1
    <3> QED
      BY <3>2, <2>1
  <2>3. n \in Nat /\ n - 1 \in Nat
    BY <2>1, <2>2
  <2>4. PICK g : Rec(g, n - 1)
    <3>1. n - 1 \notin Bad
      <4> HIDE DEF Bad
      <4> QED
        BY <2>1, <2>3
    <3> QED
      BY <3>1, <2>3
  <2> DEFINE h == [T \in Small(n) |-> IF T = {} THEN base
                                      ELSE step[choose[T]][g[T \ {choose[T]}]]]
  <2>5. \A T \in Small(n) : T # {} => T \ {choose[T]} \in Small(n - 1) /\ T \ {choose[T]} \in Small(n)
    BY <1>1, <1>2, <2>3
  <2>6. \A T \in Small(n - 1) : T \in Small(n) /\ h[T] = g[T]
    <3> TAKE T \in Small(n - 1)
    <3>1. T \in Small(n)
      BY <1>1, <2>3
    <3>2. g[T] = IF T = {} THEN base ELSE step[choose[T]][g[T \ {choose[T]}]]
      BY <2>4
    <3> QED
      BY <3>1, <3>2
  <2>7. h \in [Small(n) -> V]
    <3> SUFFICES ASSUME NEW T \in Small(n), T # {}
                 PROVE  step[choose[T]][g[T \ {choose[T]}]] \in V
      OBVIOUS
    <3>1. g[T \ {choose[T]}] \in V
      BY <2>4, <2>5
    <3> QED
      BY <3>1
  <2>8. Rec(h, n)
    <3> SUFFICES ASSUME NEW T \in Small(n), T # {}
                 PROVE  h[T] = step[choose[T]][h[T \ {choose[T]}]]
      BY <2>7
    <3> QED
      BY <2>5, <2>6
  <2> QED
    BY <2>1, <2>8
<1>5. PICK h : Rec(h, Cardinality(S))
  <2>1. Cardinality(S) \in Nat /\ Cardinality(S) \notin Bad
    <3> HIDE DEF Bad
    <3> QED
      BY <1>1, <1>4
  <2> QED
    BY <2>1
<1>6. Small(Cardinality(S)) = SUBSET S
  BY <1>1
<1>7. /\ h \in [SUBSET S -> V]
      /\ \A T \in SUBSET S : h[T] = IF T = {} THEN base
                                     ELSE step[choose[T]][h[T \ {choose[T]}]]
  BY <1>5, <1>6
<1> DEFINE rec == [T \in SUBSET S |-> IF T = {} THEN base
                                     ELSE step[choose[T]][h[T \ {choose[T]}]]]
<1>8. h = rec
  BY <1>7
<1>9. h \in [SUBSET S -> V] /\ IsFold(h, S, base, choose, step)
  BY <1>7, <1>8 DEF IsFold
<1> QED
  BY <1>9

------------------------------------------------------------------------------
(* The sum of the sizes of a sequence of replays.                          *)

(* A running sum of the sizes.                                             *)
RunningSum(g, entries) ==
  /\ g \in [0..Len(entries) -> Int] /\ g[0] = 0
  /\ \A k \in 1..Len(entries) : g[k] = g[k - 1] + Size(entries[k].key)

Sizeable(E) == \A e \in E : Size(e.key) \in Nat

(* A set of positions that is not empty has a last one.                    *)
LEMMA LastPosition ==
  ASSUME NEW n \in Nat, NEW T \in SUBSET (1..n), T # {}
  PROVE  Max(T) \in T /\ \A y \in T : Max(T) >= y
<1> SUFFICES \E x \in T : \A y \in T : x >= y
  BY DEF Max
<1> DEFINE M == {n - x : x \in T}
<1>1. PICK m \in M : \A k \in M : m <= k
  <2>1. PICK x \in T : TRUE
    OBVIOUS
  <2>2. n - x \in M
    BY <2>1
  <2> QED
    BY <2>2, LeastNumber, M \subseteq Nat
<1>2. PICK x \in T : m = n - x
  BY <1>1
<1>3. \A y \in T : n - x <= n - y
  BY <1>1, <1>2
<1> QED
  BY <1>3

(* TotalOf is the last value of any running sum, and there is one.         *)
LEMMA TotalIsRunningSum ==
  ASSUME NEW E, Sizeable(E), NEW entries \in Seq(E)
  PROVE  /\ \A g : RunningSum(g, entries) => TotalOf(entries) = g[Len(entries)]
         /\ \E g : RunningSum(g, entries)
<1> DEFINE n == Len(entries)
           D == 1..n
           choose == [T \in SUBSET D |-> Max(T)]
           step == [x \in D |-> [v \in Int |-> v + Size(entries[x].key)]]
           Iter(h) == h = [T \in SUBSET D |-> IF T = {} THEN 0
                             ELSE h[T \ {Max(T)}] + Size(entries[Max(T)].key)]
<1>1. IsFiniteSet(D) /\ n \in Nat /\ DOMAIN entries = D
  BY FS_Interval
<1>2. \A T \in SUBSET D : T # {} => Max(T) \in T
  BY <1>1, LastPosition
<1>3. PICK h \in [SUBSET D -> Int] : IsFold(h, D, 0, choose, step)
  <2>1. Chooses(choose, D)
    BY <1>2 DEF Chooses
  <2>2. Steps(step, D, Int)
    BY <1>1 DEF Steps, Sizeable
  <2> HIDE DEF choose, step, D
  <2> QED
    BY <1>1, <2>1, <2>2, FoldIsDefined, 0 \in Int
<1>4. \A T \in SUBSET D : h[T] = IF T = {} THEN 0
                             ELSE h[T \ {Max(T)}] + Size(entries[Max(T)].key)
  <2> SUFFICES ASSUME NEW T \in SUBSET D, T # {}
               PROVE  h[T] = h[T \ {Max(T)}] + Size(entries[Max(T)].key)
    BY <1>3 DEF IsFold
  <2>1. h[T] = step[choose[T]][h[T \ {choose[T]}]]
    BY <1>3 DEF IsFold
  <2>2. choose[T] = Max(T) /\ Max(T) \in D
    BY <1>2
  <2>3. h[T \ {Max(T)}] \in Int
    BY <1>3
  <2> QED
    BY <2>1, <2>2, <2>3
<1>5. Iter(h)
  BY <1>3, <1>4
<1>6. \A k \in 1..n : /\ Max(1..k) = k /\ (1..k) \ {k} = 1..(k - 1)
                      /\ 1..k # {} /\ 1..k \in SUBSET D
  <2> TAKE k \in 1..n
  <2>1. k \in Nat /\ k >= 1 /\ k <= n
    BY <1>1
  <2>2. (1..k) \ {k} = 1..(k - 1) /\ 1..k \in SUBSET D /\ k \in 1..k
    BY <1>1, <2>1
  <2>3. Max(1..k) \in 1..k /\ Max(1..k) >= k
    <3> HIDE DEF D
    <3> QED
      BY LastPosition, <2>1, <2>2
  <2> QED
    BY <2>1, <2>2, <2>3
<1> DEFINE g == [k \in 0..n |-> h[1..k]]
<1>7. RunningSum(g, entries)
  <2>1. \A k \in 0..n : 1..k \in SUBSET D
    BY <1>1
  <2>2. h[{}] = 0 /\ 1..0 = {}
    <3>1. {} \in SUBSET D
      OBVIOUS
    <3>2. h[{}] = 0
      BY <1>4, <3>1
    <3>3. 1..0 = {}
      OBVIOUS
    <3> QED
      BY <3>2, <3>3
  <2>3. \A k \in 1..n : k - 1 \in 0..n /\ k \in 0..n
    BY <1>1
  <2>4. \A k \in 1..n : h[1..k] = h[1..(k - 1)] + Size(entries[k].key)
    BY <1>4, <1>6
  <2>5. g \in [0..n -> Int]
    BY <1>3, <2>1
  <2>6. g[0] = 0
    BY <1>1, <2>2
  <2>7. \A k \in 1..n : g[k] = g[k - 1] + Size(entries[k].key)
    BY <2>3, <2>4
  <2> HIDE DEF g
  <2> QED
    BY <2>5, <2>6, <2>7 DEF RunningSum
<1>8. TotalOf(entries) = (CHOOSE f : Iter(f))[D]
  BY <1>1 DEF TotalOf, FoldLeft, MapThenFoldSet
<1>9. \A f : RunningSum(f, entries) => TotalOf(entries) = f[n]
  <2> SUFFICES ASSUME NEW f, RunningSum(f, entries) PROVE TotalOf(entries) = f[n]
    OBVIOUS
  <2> DEFINE i == CHOOSE e : Iter(e)
  <2>1. Iter(i)
    BY <1>5
  <2> HIDE DEF i
  <2>2. \A T \in SUBSET D : i[T] = IF T = {} THEN 0
                             ELSE i[T \ {Max(T)}] + Size(entries[Max(T)].key)
    BY <2>1
  <2>3. \A k \in 1..n : i[1..k] = i[1..(k - 1)] + Size(entries[k].key)
    BY <1>6, <2>2
  <2>4. i[1..0] = 0
    BY <2>2, 1..0 = {}
  <2> DEFINE Bad == {k \in 0..n : i[1..k] # f[k]}
  <2>5. Bad = {}
    <3> SUFFICES ASSUME Bad # {} PROVE FALSE
      OBVIOUS
    <3>1. PICK m \in Bad : \A k \in Bad : m <= k
      BY LeastNumber, Bad \subseteq Nat, <1>1
    <3>2. m # 0
      BY <2>4, <3>1 DEF RunningSum
    <3>3. m \in 1..n /\ m - 1 \in 0..n /\ ~(m <= m - 1)
      BY <1>1, <3>1, <3>2
    <3>4. m - 1 \notin Bad
      <4> HIDE DEF Bad
      <4> QED
        BY <3>1, <3>3
    <3>5. i[1..(m - 1)] = f[m - 1]
      BY <3>3, <3>4
    <3> QED
      BY <2>3, <3>1, <3>3, <3>5 DEF RunningSum
  <2>6. n \in 0..n /\ n \notin Bad
    <3> HIDE DEF Bad
    <3> QED
      BY <1>1, <2>5
  <2> QED
    BY <1>8, <2>6 DEF i
<1> QED
  BY <1>7, <1>9

(* What appending, cutting off a prefix, removing one and expiring do to   *)
(* the sum.                                                                *)
LEMMA TotalIsNumber ==
  ASSUME NEW E, Sizeable(E), NEW entries \in Seq(E)
  PROVE  TotalOf(entries) \in Nat
<1> DEFINE n == Len(entries)
<1>1. PICK g : RunningSum(g, entries)
  BY TotalIsRunningSum
<1>2. TotalOf(entries) = g[n] /\ n \in Nat
  BY <1>1, TotalIsRunningSum
<1>3. \A k \in 1..n : Size(entries[k].key) \in Nat
  BY DEF Sizeable
<1>4. /\ g \in [0..n -> Int] /\ g[0] = 0
      /\ \A k \in 1..n : g[k] = g[k - 1] + Size(entries[k].key)
  BY <1>1 DEF RunningSum
<1> HIDE DEF n
<1> DEFINE Bad == {k \in 0..n : g[k] \notin Nat}
<1>5. Bad = {}
  <2> SUFFICES ASSUME Bad # {} PROVE FALSE
    OBVIOUS
  <2>1. PICK m \in Bad : \A k \in Bad : m <= k
    BY LeastNumber, Bad \subseteq Nat, <1>2
  <2>2. m # 0
    BY <1>4, <2>1
  <2>3. m \in 1..n /\ m - 1 \in 0..n /\ ~(m <= m - 1)
    BY <1>2, <2>1, <2>2
  <2>4. m - 1 \notin Bad
    <3> HIDE DEF Bad
    <3> QED
      BY <2>1, <2>3
  <2>5. g[m - 1] \in Nat
    BY <2>3, <2>4
  <2> QED
    BY <1>3, <1>4, <2>1, <2>3, <2>5
<1>6. n \in 0..n /\ n \notin Bad
  <2> HIDE DEF Bad
  <2> QED
    BY <1>2, <1>5
<1> QED
  BY <1>2, <1>6

(* Nothing has size 0.                                                     *)
LEMMA TotalOfNone == ASSUME NEW E, Sizeable(E) PROVE TotalOf(<< >>) = 0
<1>1. RunningSum([k \in 0..0 |-> 0], << >>)
  BY DEF RunningSum
<1>2. TotalOf(<< >>) = [k \in 0..0 |-> 0][Len(<< >>)]
  BY <1>1, TotalIsRunningSum, << >> \in Seq(E)
<1> QED
  BY <1>2

(* Appending adds the size.                                                *)
LEMMA TotalOfAppend ==
  ASSUME NEW E, Sizeable(E), NEW entries \in Seq(E), NEW e \in E
  PROVE  TotalOf(Append(entries, e)) = TotalOf(entries) + Size(e.key)
<1> DEFINE n == Len(entries)
           longer == Append(entries, e)
<1>1. PICK g : RunningSum(g, entries)
  BY TotalIsRunningSum
<1> DEFINE f == [k \in 0..(n + 1) |-> IF k = n + 1 THEN g[n] + Size(e.key) ELSE g[k]]
<1>2. /\ longer \in Seq(E) /\ Len(longer) = n + 1 /\ n \in Nat
      /\ longer[n + 1] = e /\ \A k \in 1..n : longer[k] = entries[k]
  OBVIOUS
<1>3. \A k \in 0..n : g[k] \in Int
  BY <1>1 DEF RunningSum
<1>4. f \in [0..(n + 1) -> Int] /\ f[0] = 0
  BY <1>1, <1>2, <1>3 DEF RunningSum, Sizeable
<1>5. \A k \in 1..(n + 1) : f[k] = f[k - 1] + Size(longer[k].key)
  BY <1>1, <1>2 DEF RunningSum
<1>6. RunningSum(f, longer)
  BY <1>2, <1>4, <1>5 DEF RunningSum
<1>7. TotalOf(longer) = f[n + 1]
  BY <1>2, <1>6, TotalIsRunningSum
<1>8. TotalOf(entries) = g[n]
  BY <1>1, TotalIsRunningSum
<1> QED
  BY <1>2, <1>7, <1>8

(* A prefix and the rest add up to the whole.                              *)
LEMMA TotalOfParts ==
  ASSUME NEW E, Sizeable(E), NEW entries \in Seq(E), NEW m \in 0..Len(entries)
  PROVE  TotalOf(entries)
           = TotalOf(SubSeq(entries, 1, m)) + TotalOf(SubSeq(entries, m + 1, Len(entries)))
<1> DEFINE n == Len(entries)
           front == SubSeq(entries, 1, m)
           back == SubSeq(entries, m + 1, n)
<1>1. PICK g : RunningSum(g, entries)
  BY TotalIsRunningSum
<1>2. /\ front \in Seq(E) /\ Len(front) = m /\ n \in Nat /\ m \in Nat /\ m <= n
      /\ \A k \in 1..m : front[k] = entries[k]
  OBVIOUS
<1>3. back \in Seq(E) /\ Len(back) = n - m /\ \A k \in 1..(n - m) : back[k] = entries[m + k]
  BY <1>2
<1>4. \A k \in 0..n : g[k] \in Int
  BY <1>1 DEF RunningSum
<1> DEFINE f == [k \in 0..m |-> g[k]]
           b == [k \in 0..(n - m) |-> g[m + k] - g[m]]
<1>5. RunningSum(f, front)
  <2>1. f \in [0..m -> Int] /\ f[0] = 0
    BY <1>1, <1>2, <1>4 DEF RunningSum
  <2>2. \A k \in 1..m : f[k] = f[k - 1] + Size(front[k].key)
    BY <1>1, <1>2 DEF RunningSum
  <2> QED
    BY <1>2, <2>1, <2>2 DEF RunningSum
<1>6. RunningSum(b, back)
  <2>1. b \in [0..(n - m) -> Int] /\ b[0] = 0
    BY <1>2, <1>4
  <2>2. ASSUME NEW k \in 1..(n - m) PROVE b[k] = b[k - 1] + Size(back[k].key)
    <3>1. /\ m + k \in 1..n /\ (m + k) - 1 = m + (k - 1) /\ m + (k - 1) \in 0..n /\ m \in 0..n
          /\ m + k \in 0..n /\ k \in 0..(n - m) /\ k - 1 \in 0..(n - m)
      BY <1>2
    <3>2. g[m + k] = g[m + (k - 1)] + Size(entries[m + k].key)
      BY <1>1, <3>1 DEF RunningSum
    <3>3. entries[m + k] \in E
      BY <3>1
    <3>4. Size(entries[m + k].key) \in Nat
      BY <3>3 DEF Sizeable
    <3>5. b[k] = g[m + k] - g[m] /\ b[k - 1] = g[m + (k - 1)] - g[m]
      BY <3>1
    <3>6. g[m + k] \in Int /\ g[m + (k - 1)] \in Int /\ g[m] \in Int
      BY <1>4, <3>1
    <3>7. back[k] = entries[m + k]
      BY <1>3
    <3> HIDE DEF b, back
    <3> QED
      BY <3>2, <3>4, <3>5, <3>6, <3>7
  <2> QED
    BY <1>3, <2>1, <2>2 DEF RunningSum
<1>7. TotalOf(entries) = g[n] /\ TotalOf(front) = f[m]
  BY <1>1, <1>2, <1>5, TotalIsRunningSum
<1>8. TotalOf(back) = b[n - m]
  BY <1>3, <1>6, TotalIsRunningSum
<1> QED
  BY <1>2, <1>4, <1>7, <1>8

(* Taking one entry out leaves the others, in their order.                 *)
LEMMA RemovedEntry ==
  ASSUME NEW E, NEW entries \in Seq(E), NEW i \in 1..Len(entries)
  PROVE  /\ RemoveAt(entries, i) \in Seq(E) /\ Len(RemoveAt(entries, i)) = Len(entries) - 1
         /\ \A k \in 1..(Len(entries) - 1) :
              RemoveAt(entries, i)[k] = IF k < i THEN entries[k] ELSE entries[k + 1]
<1> DEFINE n == Len(entries)
           rest == RemoveAt(entries, i)
           front == SubSeq(entries, 1, i - 1)
           back == SubSeq(entries, i + 1, n)
<1>1. n \in Nat /\ i \in Nat /\ i >= 1 /\ i <= n
  OBVIOUS
<1>2. front \in Seq(E) /\ Len(front) = i - 1 /\ \A k \in 1..(i - 1) : front[k] = entries[k]
  BY <1>1
<1>3. back \in Seq(E) /\ Len(back) = n - i /\ \A k \in 1..(n - i) : back[k] = entries[i + k]
  BY <1>1
<1>4. rest = front \o back
  BY DEF RemoveAt
<1> HIDE DEF front, back, rest
<1>5. rest \in Seq(E) /\ Len(rest) = n - 1
  BY <1>1, <1>2, <1>3, <1>4
<1>6. ASSUME NEW k \in 1..(n - 1)
      PROVE  rest[k] = IF k < i THEN entries[k] ELSE entries[k + 1]
  <2>1. CASE k < i
    BY <1>1, <1>2, <1>3, <1>4, <2>1
  <2>2. CASE ~(k < i)
    <3>1. rest[k] = back[k - (i - 1)]
      BY <1>1, <1>2, <1>3, <1>4, <2>2
    <3>2. k - (i - 1) \in 1..(n - i) /\ i + (k - (i - 1)) = k + 1
      BY <1>1, <2>2
    <3> QED
      BY <1>3, <2>2, <3>1, <3>2
  <2> QED
    BY <2>1, <2>2
<1> QED
  BY <1>5, <1>6 DEF rest

(* Taking one entry out subtracts its size.                                *)
LEMMA TotalOfRemoved ==
  ASSUME NEW E, Sizeable(E), NEW entries \in Seq(E), NEW i \in 1..Len(entries)
  PROVE  TotalOf(RemoveAt(entries, i)) = TotalOf(entries) - Size(entries[i].key)
<1> DEFINE n == Len(entries)
           rest == RemoveAt(entries, i)
<1>1. PICK g : RunningSum(g, entries)
  BY TotalIsRunningSum
<1>2. /\ rest \in Seq(E) /\ Len(rest) = n - 1 /\ n \in Nat /\ i \in Nat /\ i >= 1 /\ i <= n
      /\ \A k \in 1..(n - 1) : rest[k] = IF k < i THEN entries[k] ELSE entries[k + 1]
  <2>1. /\ rest \in Seq(E) /\ Len(rest) = n - 1
        /\ \A k \in 1..(n - 1) : rest[k] = IF k < i THEN entries[k] ELSE entries[k + 1]
    <3> HIDE DEF n, rest
    <3> QED
      BY RemovedEntry DEF n, rest
  <2>2. n \in Nat /\ i \in Nat /\ i >= 1 /\ i <= n
    OBVIOUS
  <2> QED
    BY <2>1, <2>2
<1>3. \A k \in 0..n : g[k] \in Int
  BY <1>1 DEF RunningSum
<1>4. Size(entries[i].key) \in Nat
  BY DEF Sizeable
<1> DEFINE f == [k \in 0..(n - 1) |-> IF k < i THEN g[k] ELSE g[k + 1] - Size(entries[i].key)]
<1>5. f \in [0..(n - 1) -> Int] /\ f[0] = 0
  <2>1. \A k \in 0..(n - 1) : k \in 0..n /\ k + 1 \in 0..n
    BY <1>2
  <2>2. \A k \in 0..(n - 1) : g[k] \in Int /\ g[k + 1] - Size(entries[i].key) \in Int
    BY <1>3, <1>4, <2>1
  <2>3. f \in [0..(n - 1) -> Int]
    BY <2>2
  <2>4. 0 \in 0..(n - 1) /\ 0 < i /\ g[0] = 0
    BY <1>1, <1>2 DEF RunningSum
  <2> QED
    BY <2>3, <2>4
<1>6. ASSUME NEW k \in 1..(n - 1) PROVE f[k] = f[k - 1] + Size(rest[k].key)
  <2>1. k \in 1..n /\ k + 1 \in 1..n /\ k \in 0..(n - 1) /\ k - 1 \in 0..(n - 1) /\ (k + 1) - 1 = k
        /\ k - 1 \in 0..n /\ k + 1 \in 0..n /\ k \in 0..n /\ (k - 1) + 1 = k
    BY <1>2
  <2>2. g[k] = g[k - 1] + Size(entries[k].key) /\ g[k + 1] = g[k] + Size(entries[k + 1].key)
    BY <1>1, <2>1 DEF RunningSum
  <2>3. Size(entries[k].key) \in Nat /\ Size(entries[k + 1].key) \in Nat
    <3>1. entries[k] \in E /\ entries[k + 1] \in E
      BY <2>1
    <3> QED
      BY <3>1 DEF Sizeable
  <2>4. g[k] \in Int /\ g[k - 1] \in Int /\ g[k + 1] \in Int
    BY <1>3, <2>1
  <2>5. CASE k < i
    <3>1. f[k] = g[k] /\ f[k - 1] = g[k - 1] /\ rest[k] = entries[k]
      BY <1>2, <2>1, <2>5
    <3> QED
      BY <2>2, <3>1
  <2>6. CASE k = i
    <3>1. /\ f[k] = g[k + 1] - Size(entries[k].key) /\ f[k - 1] = g[k - 1]
          /\ rest[k] = entries[k + 1]
      BY <1>2, <2>1, <2>6
    <3> QED
      BY SMTT(30), <2>2, <2>3, <2>4, <3>1
  <2>7. CASE k > i
    <3>1. /\ f[k] = g[k + 1] - Size(entries[i].key) /\ f[k - 1] = g[k] - Size(entries[i].key)
          /\ rest[k] = entries[k + 1]
      BY SMTT(30), <1>2, <2>1, <2>7
    <3> QED
      BY <1>4, <2>2, <2>3, <2>4, <3>1
  <2> QED
    BY <1>2, <2>1, <2>5, <2>6, <2>7
<1>7. RunningSum(f, rest)
  BY <1>2, <1>5, <1>6 DEF RunningSum
<1>8. TotalOf(rest) = f[n - 1] /\ TotalOf(entries) = g[n]
  BY <1>1, <1>2, <1>7, TotalIsRunningSum
<1>9. n - 1 < i => i = n /\ g[n] = g[n - 1] + Size(entries[n].key)
  BY <1>1, <1>2 DEF RunningSum
<1> QED
  BY <1>2, <1>3, <1>4, <1>8, <1>9

(* The sum depends on the keys only.                                       *)
LEMMA TotalOfSameKeys ==
  ASSUME NEW E, Sizeable(E), NEW entries \in Seq(E), NEW others \in Seq(E),
         Len(others) = Len(entries),
         \A k \in 1..Len(entries) : others[k].key = entries[k].key
  PROVE  TotalOf(others) = TotalOf(entries)
<1>1. PICK g : RunningSum(g, entries)
  BY TotalIsRunningSum
<1>2. RunningSum(g, others)
  BY <1>1 DEF RunningSum
<1> QED
  BY <1>1, <1>2, TotalIsRunningSum

------------------------------------------------------------------------------
(* The replays kept.                                                       *)

Entries == [key : ReplayKeys, fresh : BOOLEAN]
UniqueKeys(entries) == \A i, j \in DOMAIN entries : entries[i].key = entries[j].key => i = j
Lacks(entries, key) == \A i \in DOMAIN entries : entries[i].key # key

(* Replays have sizes.                                                     *)
LEMMA EntriesHaveSizes == Sizeable(Entries) /\ \A key \in ReplayKeys : Size(key) \in Nat
<1>1. \A key \in ReplayKeys : Size(key) \in Nat
  BY ReplayAssumption DEF ReplayKeys, Size
<1> QED
  BY <1>1 DEF Sizeable, Entries

(* Map.delete: no entry under the key, the others as they were.            *)
LEMMA WithoutKey ==
  ASSUME NEW entries \in Seq(Entries), UniqueKeys(entries), NEW key \in ReplayKeys
  PROVE  LET rest == Without(entries, key)
         IN  /\ rest \in Seq(Entries) /\ UniqueKeys(rest) /\ Lacks(rest, key)
             /\ Len(rest) = IF Lacks(entries, key) THEN Len(entries) ELSE Len(entries) - 1
             /\ \A k \in DOMAIN rest : \E j \in DOMAIN entries : rest[k] = entries[j]
             /\ TotalOf(rest) = IF Lacks(entries, key) THEN TotalOf(entries)
                                ELSE TotalOf(entries) - Size(key)
<1> DEFINE at == {i \in DOMAIN entries : entries[i].key = key}
           i == CHOOSE i \in at : TRUE
           rest == Without(entries, key)
           n == Len(entries)
<1>1. CASE at = {}
  <2>1. rest = entries /\ Lacks(entries, key)
    BY <1>1 DEF Without, Lacks
  <2> QED
    BY <2>1
<1>2. CASE at # {}
  <2>1. rest = RemoveAt(entries, i) /\ i \in at /\ ~Lacks(entries, key)
    BY <1>2 DEF Without, Lacks
  <2> HIDE DEF i, rest
  <2>2. i \in 1..n /\ entries[i].key = key /\ n \in Nat /\ DOMAIN entries = 1..n
    BY <2>1
  <2>3. rest \in Seq(Entries) /\ Len(rest) = n - 1 /\ DOMAIN rest = 1..(n - 1)
    <3>1. rest \in Seq(Entries) /\ Len(rest) = n - 1
      BY <2>1, <2>2, RemovedEntry
    <3> QED
      BY <2>2, <3>1
  <2>4. \A k \in 1..(n - 1) : rest[k] = IF k < i THEN entries[k] ELSE entries[k + 1]
    BY <2>1, <2>2, RemovedEntry
  <2>5. \A k \in 1..(n - 1) : \E j \in 1..n : /\ j # i /\ rest[k] = entries[j]
                                             /\ j = IF k < i THEN k ELSE k + 1
    BY <2>2, <2>4
  <2>6. UniqueKeys(rest)
    <3> SUFFICES ASSUME NEW k \in 1..(n - 1), NEW l \in 1..(n - 1), rest[k].key = rest[l].key
                 PROVE  k = l
      BY <2>3 DEF UniqueKeys
    <3>1. PICK a \in 1..n : rest[k] = entries[a] /\ a = IF k < i THEN k ELSE k + 1
      BY <2>5
    <3>2. PICK b \in 1..n : rest[l] = entries[b] /\ b = IF l < i THEN l ELSE l + 1
      BY <2>5
    <3>3. a = b
      BY <2>2, <3>1, <3>2 DEF UniqueKeys
    <3> QED
      BY <2>2, <3>1, <3>2, <3>3
  <2>7. Lacks(rest, key)
    <3> SUFFICES ASSUME NEW k \in 1..(n - 1), rest[k].key = key PROVE FALSE
      BY <2>3 DEF Lacks
    <3>1. PICK j \in 1..n : j # i /\ rest[k] = entries[j]
      BY <2>5
    <3> QED
      BY <2>2, <3>1 DEF UniqueKeys
  <2>8. TotalOf(rest) = TotalOf(entries) - Size(key)
    BY <2>1, <2>2, EntriesHaveSizes, TotalOfRemoved
  <2> QED
    BY <2>1, <2>2, <2>3, <2>5, <2>6, <2>7, <2>8 DEF rest
<1> QED
  BY <1>1, <1>2

(* Map.set of a key that is not there.                                     *)
LEMMA AppendedKey ==
  ASSUME NEW entries \in Seq(Entries), UniqueKeys(entries),
         NEW e \in Entries, Lacks(entries, e.key)
  PROVE  LET longer == Append(entries, e)
         IN  /\ longer \in Seq(Entries) /\ UniqueKeys(longer)
             /\ Len(longer) = Len(entries) + 1
             /\ \A key : Lacks(entries, key) /\ key # e.key => Lacks(longer, key)
             /\ TotalOf(longer) = TotalOf(entries) + Size(e.key)
<1> DEFINE longer == Append(entries, e)
           n == Len(entries)
<1>1. /\ longer \in Seq(Entries) /\ Len(longer) = n + 1 /\ n \in Nat
      /\ DOMAIN longer = 1..(n + 1) /\ DOMAIN entries = 1..n
      /\ longer[n + 1] = e /\ \A k \in 1..n : longer[k] = entries[k]
  OBVIOUS
<1>2. TotalOf(longer) = TotalOf(entries) + Size(e.key)
  BY EntriesHaveSizes, TotalOfAppend
<1> HIDE DEF longer
<1>3. \A k \in 1..(n + 1) : k = n + 1 \/ k \in 1..n
  BY <1>1
<1>4. UniqueKeys(longer)
  BY <1>1, <1>3 DEF UniqueKeys, Lacks
<1>5. \A key : Lacks(entries, key) /\ key # e.key => Lacks(longer, key)
  BY <1>1, <1>3 DEF Lacks
<1> QED
  BY <1>1, <1>2, <1>4, <1>5 DEF longer

(* Making room takes replays away from the front until the new one fits.   *)
LEMMA RoomIsMade ==
  ASSUME cache \in Seq(Entries), UniqueKeys(cache), cacheBytes = TotalOf(cache),
         Len(cache) <= MaxEntries,
         NEW key \in ReplayKeys, Size(key) <= MaxBytes, MaxEntries > 0
  PROVE  LET n == Evicted(key)
             left == SubSeq(cache, n + 1, Len(cache))
             bytes == cacheBytes - TotalOf(SubSeq(cache, 1, n)) + Size(key)
         IN  /\ left \in Seq(Entries) /\ UniqueKeys(left) /\ Len(left) < MaxEntries
             /\ \A other : Lacks(cache, other) => Lacks(left, other)
             /\ bytes = TotalOf(left) + Size(key) /\ bytes <= MaxBytes
<1> DEFINE last == Len(cache)
           F == {n \in 0..last : Fits(n, key)}
           n == Evicted(key)
           left == SubSeq(cache, n + 1, Len(cache))
<1>1. last \in Nat /\ MaxEntries \in Nat /\ MaxBytes \in Nat /\ Size(key) \in Nat
  BY ReplayAssumption, EntriesHaveSizes
<1>2. last \in F
  BY <1>1 DEF Fits
<1>3. PICK m \in F : \A k \in F : m <= k
  BY <1>1, <1>2, LeastNumber, F \subseteq Nat
<1>4. m \in 0..last /\ Fits(m, key) /\ \A k \in 0..(m - 1) : ~Fits(k, key)
  <2>1. ASSUME NEW k \in 0..(m - 1), Fits(k, key) PROVE FALSE
    <3>1. k \in 0..last /\ ~(m <= k)
      BY <1>1, <1>3, <2>1
    <3>2. k \in F
      BY <2>1, <3>1
    <3> QED
      BY <1>3, <3>1, <3>2
  <2> QED
    BY <1>3, <2>1
<1>5. n \in 0..last /\ Fits(n, key)
  BY <1>4 DEF Evicted
<1> HIDE DEF n, F
<1>6. /\ left \in Seq(Entries) /\ Len(left) = last - n /\ n \in Nat
      /\ \A k \in 1..(last - n) : left[k] = cache[n + k] /\ n + k \in 1..last
  BY <1>1, <1>5
<1>7. TotalOf(cache) = TotalOf(SubSeq(cache, 1, n)) + TotalOf(left)
  BY <1>5, EntriesHaveSizes, TotalOfParts
<1>8. TotalOf(SubSeq(cache, 1, n)) \in Nat /\ TotalOf(left) \in Nat
  <2>1. SubSeq(cache, 1, n) \in Seq(Entries)
    BY <1>1, <1>5
  <2> QED
    BY <1>6, <2>1, EntriesHaveSizes, TotalIsNumber
<1> DEFINE bytes == cacheBytes - TotalOf(SubSeq(cache, 1, n)) + Size(key)
<1>9. bytes = TotalOf(left) + Size(key)
  BY <1>1, <1>7, <1>8
<1>10. left = << >> \/ (Len(left) < MaxEntries /\ bytes <= MaxBytes)
  BY <1>5 DEF Fits
<1>11. Len(left) < MaxEntries /\ bytes <= MaxBytes
  <2>1. CASE left = << >>
    <3>1. Len(left) = 0 /\ TotalOf(left) = 0
      BY <2>1, EntriesHaveSizes, TotalOfNone
    <3> HIDE DEF left, bytes
    <3> QED
      BY <1>1, <1>9, <3>1
  <2> QED
    BY <1>10, <2>1
<1> HIDE DEF left, bytes
<1>12. DOMAIN left = 1..(last - n) /\ DOMAIN cache = 1..last
  BY <1>6
<1>13. UniqueKeys(left)
  <2> SUFFICES ASSUME NEW i \in 1..(last - n), NEW j \in 1..(last - n), left[i].key = left[j].key
               PROVE  i = j
    BY <1>12 DEF UniqueKeys
  <2>1. cache[n + i].key = cache[n + j].key /\ n + i \in 1..last /\ n + j \in 1..last
    BY <1>6
  <2>2. n + i = n + j
    BY <1>12, <2>1 DEF UniqueKeys
  <2> QED
    BY <1>6, <2>2
<1>14. \A other : Lacks(cache, other) => Lacks(left, other)
  BY <1>6, <1>12 DEF Lacks
<1> QED
  BY <1>6, <1>9, <1>11, <1>13, <1>14 DEF left, bytes, n

------------------------------------------------------------------------------
(* Short sequences.                                                        *)

(* The rest of a sequence of two or more.                                  *)
LEMMA LongerHasTail ==
  ASSUME NEW S, NEW s \in Seq(S), Len(s) > 1
  PROVE  Tail(s) # << >>
<1> DEFINE n == Len(s)
           m == Len(Tail(s))
<1>1. n \in Nat /\ n > 1 /\ m = n - 1
  BY EmptySeq, HeadTailProperties
<1>2. Tail(s) = << >> => m = 0
  BY EmptySeq, Zenon
<1> HIDE DEF n, m
<1> QED
  BY <1>1, <1>2

(* A third element is appended to two.                                     *)
LEMMA ThirdAppended ==
  ASSUME NEW S, NEW s \in Seq(S), NEW x \in S
  PROVE  Len(s) = 2 => /\ Append(s, x) \in Seq(S) /\ Len(Append(s, x)) = 3
                       /\ Append(s, x)[1] = s[1] /\ Append(s, x)[2] = s[2]
                       /\ Append(s, x)[3] = x
<1> DEFINE n == Len(s)
           longer == Append(s, x)
<1>1. longer \in Seq(S) /\ Len(longer) = n + 1 /\ longer[n + 1] = x /\ \A i \in 1..n : longer[i] = s[i]
  OBVIOUS
<1> HIDE DEF n, longer
<1>2. n = 2 => /\ longer \in Seq(S) /\ Len(longer) = 3
               /\ longer[1] = s[1] /\ longer[2] = s[2] /\ longer[3] = x
  BY <1>1
<1> QED
  BY <1>2, Zenon DEF longer, n

------------------------------------------------------------------------------
(* The requests.                                                           *)

(* The files, one by one.                                                  *)
LEMMA FilesKnown ==
  /\ Files[1] = "metadata" /\ Files[2] = "results" /\ Files[3] = "report"
  /\ Required[1] = "metadata" /\ Required[2] = "results"
  /\ Range(Files) = {"metadata", "results", "report"} /\ Range(Required) = {"metadata", "results"}
  /\ DOMAIN Required = 1..2 /\ DOMAIN Files = 1..3
<1> DEFINE Names == {"metadata", "results", "report"}
<1>1. /\ Required \in Seq(Names) /\ Len(Required) = 2
      /\ Required[1] = "metadata" /\ Required[2] = "results"
  BY DEF Required
<1>2. DOMAIN Required = {1, 2} /\ {1, 2} = 1..2 /\ {1, 2, 3} = 1..3
  BY <1>1
<1>3. Range(Required) = {"metadata", "results"}
  BY <1>1, <1>2 DEF Range
<1>4. /\ Files \in Seq(Names) /\ Len(Files) = 3
      /\ Files[1] = "metadata" /\ Files[2] = "results" /\ Files[3] = "report"
  <2>1. Report \in Names /\ Report = "report"
    BY DEF Report
  <2>2. Files = Append(Required, Report)
    BY DEF Files
  <2> HIDE DEF Names
  <2> QED
    BY <1>1, <2>1, <2>2, ThirdAppended
<1>5. DOMAIN Files = {1, 2, 3}
  BY <1>2, <1>4
<1>6. Range(Files) = {"metadata", "results", "report"}
  BY <1>4, <1>5 DEF Range
<1> QED
  BY <1>1, <1>2, <1>3, <1>4, <1>5, <1>6

(* What a request looks like follows from where it is.                     *)
LEMMA RequestCases ==
  ASSUME NEW d, NEW req, RequestOK(req, d)
  PROVE  /\ req.pc = "idle" => req = Idle
         /\ req.pc = "stat" => StatOK(req, d)
         /\ req.pc = "wait" => WaitOK(req, d)
         /\ req.pc = "served" => ServedOK(req, d)
         /\ req.pc = "replay" => req \in Replaying
<1>1. req = Idle => req.pc = "idle"
  BY DEF Idle
<1>2. StatOK(req, d) => req.pc = "stat"
  BY DEF StatOK
<1>3. WaitOK(req, d) => req.pc = "wait"
  BY DEF WaitOK
<1>4. ServedOK(req, d) => req.pc = "served"
  BY DEF ServedOK, Answered
<1>5. req \in Replaying => req.pc = "replay"
  BY DEF Replaying
<1> QED
  BY <1>1, <1>2, <1>3, <1>4, <1>5 DEF RequestOK

Grows(d, e) == \A r \in Runs, f \in Range(Files) : d[r][f] <= e[r][f]

Directories == [Runs -> Contents]

(* The runs a request still goes through.                                  *)
LEMMA RunsOfTodo ==
  ASSUME NEW todo \in Seq(Runs), todo # << >>
  PROVE  /\ Range(todo) \subseteq Runs /\ Head(todo) \in Range(todo) /\ Head(todo) \in Runs
         /\ Tail(todo) \in Seq(Runs) /\ Range(Tail(todo)) \subseteq Range(todo)
         /\ Len(todo) > 1 => Tail(todo) # << >>
<1>1. Range(todo) \subseteq Runs /\ Head(todo) = todo[1] /\ 1 \in DOMAIN todo
  BY DEF Range
<1>2. Head(todo) \in Range(todo) /\ Head(todo) \in Runs
  BY <1>1 DEF Range
<1>3. Tail(todo) \in Seq(Runs) /\ Len(Tail(todo)) = Len(todo) - 1 /\ Len(todo) \in Nat
  OBVIOUS
<1>4. \A i \in DOMAIN Tail(todo) : i + 1 \in DOMAIN todo /\ Tail(todo)[i] = todo[i + 1]
  OBVIOUS
<1>5. Range(Tail(todo)) \subseteq Range(todo)
  BY <1>4 DEF Range
<1>6. Len(todo) > 1 => Tail(todo) # << >>
  BY LongerHasTail
<1> QED
  BY <1>1, <1>2, <1>3, <1>5, <1>6

(* What holds of a request and of a load goes on holding as files are      *)
(* written.                                                                *)
LEMMA RequestOKGrows ==
  ASSUME NEW d \in Directories, NEW e \in Directories, Grows(d, e), NEW req, RequestOK(req, d)
  PROVE  RequestOK(req, e)
<1>1. ASSUME AskedBefore(req, d) PROVE AskedBefore(req, e)
  <2>1. Range(req.todo) \subseteq Runs
    BY <1>1, RunsOfTodo DEF AskedBefore
  <2>2. ASSUME NEW r \in Range(req.todo), NEW f \in Range(Files) PROVE req.since[r][f] <= e[r][f]
    <3>1. req.since[r][f] \in Nat /\ d[r][f] \in Nat /\ e[r][f] \in Nat
      BY <1>1, <2>1 DEF AskedBefore, Directories, Contents
    <3>2. req.since[r][f] <= d[r][f] /\ d[r][f] <= e[r][f]
      BY <1>1, <2>1 DEF AskedBefore, Grows
    <3> QED
      BY <3>1, <3>2
  <2> QED
    BY <1>1, <2>2 DEF AskedBefore
<1>2. ASSUME AskedBefore(req, d), SeenSince(req, d), Len(req.stats) <= 3 PROVE SeenSince(req, e)
  <2> DEFINE r == Head(req.todo)
  <2>1. r \in Runs
    BY <1>2, RunsOfTodo DEF AskedBefore
  <2>2. ASSUME NEW i \in 1..Len(req.stats) PROVE req.stats[i] <= e[r][Files[i]]
    <3>1. Files[i] \in Range(Files) /\ req.stats[i] \in Nat
      BY <1>2, FilesKnown DEF SeenSince
    <3>2. d[r][Files[i]] \in Nat /\ e[r][Files[i]] \in Nat
      BY <2>1, <3>1 DEF Directories, Contents
    <3>3. req.stats[i] <= d[r][Files[i]] /\ d[r][Files[i]] <= e[r][Files[i]]
      BY <1>2, <2>1, <3>1 DEF SeenSince, Grows
    <3> QED
      BY <3>1, <3>2, <3>3
  <2> QED
    BY <1>2, <2>2 DEF SeenSince
<1>3. StatOK(req, d) => StatOK(req, e)
  <2>1. StatOK(req, d) => Len(req.stats) <= 3
    BY DEF StatOK, Asking
  <2> QED
    BY <1>1, <1>2, <2>1 DEF StatOK
<1>4. WaitOK(req, d) => WaitOK(req, e)
  <2>1. WaitOK(req, d) => Len(req.stats) <= 3
    BY DEF WaitOK, Asking
  <2> QED
    BY <1>1, <1>2, <2>1 DEF WaitOK
<1>5. ServedOK(req, d) => ServedOK(req, e)
  BY <1>1 DEF ServedOK
<1> QED
  BY <1>3, <1>4, <1>5 DEF RequestOK

(* So does what holds of a load.                                           *)
LEMMA LoadOKGrows ==
  ASSUME NEW d \in Directories, NEW e \in Directories, Grows(d, e), NEW load, LoadOK(load, d)
  PROVE  LoadOK(load, e)
<1> DEFINE r == load.key.run
           s == load.key.signature
<1>1. r \in Runs /\ s \in Seq(Nat) /\ Len(s) = 3
  BY DEF LoadOK, Keys, SignatureOK
<1>2. ASSUME NEW i \in 1..3 PROVE s[i] <= e[r][Files[i]]
  <2>1. Files[i] \in Range(Files) /\ s[i] \in Nat
    BY <1>1, FilesKnown
  <2>2. d[r][Files[i]] \in Nat /\ e[r][Files[i]] \in Nat
    BY <1>1, <2>1 DEF Directories, Contents
  <2>3. s[i] <= d[r][Files[i]] /\ d[r][Files[i]] <= e[r][Files[i]]
    BY <1>1, <2>1 DEF LoadOK, SignatureOK, Grows
  <2> QED
    BY <2>1, <2>2, <2>3
<1> QED
  BY <1>2 DEF LoadOK, SignatureOK

(* A request that begins to look at its first run.                         *)
LEMMA LookingOK ==
  ASSUME NEW d \in Directories, NEW kind \in Kinds, NEW todo \in Seq(Runs), todo # << >>,
         NEW R \in SUBSET Runs, NEW since \in [R -> Contents], Range(todo) \subseteq R,
         \A r \in Range(todo), f \in Range(Files) : since[r][f] <= d[r][f]
  PROVE  RequestOK(Looking(kind, todo, since), d) /\ Looking(kind, todo, since).pc = "stat"
<1> DEFINE req == Looking(kind, todo, since)
           some == Restrict(since, Range(todo))
<1>1. some \in [Range(todo) -> Contents] /\ \A r \in Range(todo) : some[r] = since[r]
  BY DEF Restrict
<1>2. /\ req.pc = "stat" /\ req.kind = kind /\ req.todo = todo /\ req.stats = << >>
      /\ req.since = some
  BY DEF Looking
<1>3. req \in Asking
  <2>1. some \in Sinces
    <3>1. Range(todo) \in SUBSET Runs
      BY RunsOfTodo
    <3> QED
      BY <1>1, <3>1 DEF Sinces
  <2>2. FirstLook(kind) \in {"summary", "run"}
    BY DEF FirstLook
  <2>3. << >> \in Seq(Nat)
    OBVIOUS
  <2> HIDE DEF some
  <2> QED
    BY <2>1, <2>2, <2>3 DEF Asking, Looking, some
<1>4. AskedBefore(req, d)
  BY <1>1, <1>2 DEF AskedBefore
<1>5. SeenSince(req, d) /\ Len(req.stats) <= 2
  BY <1>2 DEF SeenSince
<1> QED
  BY <1>2, <1>3, <1>4, <1>5 DEF RequestOK, StatOK

(* A request that goes on to its next run.                                 *)
LEMMA AdvancedOK ==
  ASSUME NEW d \in Directories, NEW req, AskedBefore(req, d), req.kind \in Kinds
  PROVE  RequestOK(Advanced(req), d) /\ Advanced(req).pc \in {"idle", "stat"}
<1>1. CASE Len(req.todo) > 1
  <2> DEFINE rest == Tail(req.todo)
             R == Range(req.todo)
  <2>1. rest \in Seq(Runs) /\ rest # << >> /\ Range(rest) \subseteq R /\ R \in SUBSET Runs
    BY <1>1, RunsOfTodo DEF AskedBefore
  <2>2. /\ req.since \in [R -> Contents]
        /\ \A r \in Range(rest), f \in Range(Files) : req.since[r][f] <= d[r][f]
    BY <2>1 DEF AskedBefore
  <2>3. Advanced(req) = Looking(req.kind, rest, req.since)
    BY <1>1 DEF Advanced
  <2> HIDE DEF rest, R
  <2>4. /\ RequestOK(Looking(req.kind, rest, req.since), d)
        /\ Looking(req.kind, rest, req.since).pc = "stat"
    BY <2>1, <2>2, LookingOK
  <2> QED
    BY <2>3, <2>4
<1>2. CASE ~(Len(req.todo) > 1)
  BY <1>2 DEF Advanced, RequestOK, Idle
<1> QED
  BY <1>1, <1>2

(* A request whose run is refused.                                         *)
LEMMA RefusedOK ==
  ASSUME NEW d \in Directories, NEW req, AskedBefore(req, d), req.kind \in Kinds
  PROVE  RequestOK(Refused(req), d) /\ Refused(req).pc \in {"idle", "stat"}
<1>1. Idle.pc = "idle" /\ RequestOK(Idle, d)
  BY DEF Idle, RequestOK
<1> QED
  BY <1>1, AdvancedOK DEF Refused

(* A run that is no older than a signature taken since the request came    *)
(* answers it.                                                             *)
LEMMA ServedIsCurrent ==
  ASSUME NEW d \in Directories, NEW req \in Asking, AskedBefore(req, d),
         NEW key \in Keys, key.run = Head(req.todo),
         \A i \in 1..3 : req.since[Head(req.todo)][Files[i]] <= key.signature[i],
         Len(key.signature) = 3,
         NEW artifacts \in ArtifactsOfRuns, Loadable(artifacts.files), NoOlderThan(artifacts, key)
  PROVE  RequestOK(Served(req, artifacts), d) /\ Served(req, artifacts).pc = "served"
<1> DEFINE ans == Served(req, artifacts)
           r == Head(req.todo)
<1>1. /\ ans.pc = "served" /\ ans.kind = req.kind /\ ans.todo = req.todo
      /\ ans.since = req.since /\ ans.got = artifacts
  BY DEF Served
<1>2. ans \in Answered
  <2>1. req.kind \in Kinds /\ req.todo \in Seq(Runs) /\ req.since \in Sinces
    BY DEF Asking
  <2> QED
    BY <2>1 DEF Answered, Served
<1>3. AskedBefore(ans, d)
  BY <1>1 DEF AskedBefore
<1>4. r \in Range(req.todo) /\ req.since[r] \in Contents
  BY RunsOfTodo DEF AskedBefore
<1>5. \A i \in 1..3 : key.signature[i] \in Nat
  BY DEF Keys
<1>6. ASSUME NEW f \in Range(Required) PROVE req.since[r][f] <= artifacts.files[f]
  <2>1. PICK i \in 1..2 : f = Required[i] /\ f = Files[i] /\ f \in Range(Files)
    BY FilesKnown DEF Range
  <2>2. key.signature[i] <= artifacts.files[f]
    BY <2>1, FilesKnown DEF NoOlderThan
  <2>3. req.since[r][f] \in Nat /\ artifacts.files[f] \in Nat
    BY <1>4, <2>1 DEF Contents, ArtifactsOfRuns
  <2> QED
    BY <1>5, <2>1, <2>2, <2>3
<1>7. req.since[r][Report] > 0 => artifacts.hasReport
  <2>1. req.since[r][Report] <= key.signature[3] /\ Report \in Range(Files)
    BY FilesKnown DEF Report
  <2>2. req.since[r][Report] \in Nat
    BY <1>4, <2>1 DEF Contents
  <2> QED
    BY <1>5, <2>1, <2>2 DEF NoOlderThan
<1>8. GotCurrent(ans)
  BY <1>1, <1>6, <1>7 DEF GotCurrent, NoOlderThan
<1> HIDE DEF ans
<1> QED
  BY <1>1, <1>2, <1>3, <1>8 DEF ans, RequestOK, ServedOK

------------------------------------------------------------------------------
(* Those who wait, and what for.                                           *)

WaitsFor(req, key) == req.pc = "wait" /\ [run |-> Head(req.todo), signature |-> req.stats] = key
Awaits(req, key) == req.pc = "replay" /\ req.key = key

LoadsAwaited(reqs, line) ==
  /\ \A q \in Requests : reqs[q].pc = "wait" => \E i \in DOMAIN line : WaitsFor(reqs[q], line[i].key)
  /\ \A i, j \in DOMAIN line : line[i].key = line[j].key => i = j
  /\ \A i \in DOMAIN line : \E q \in Requests : WaitsFor(reqs[q], line[i].key)

ReplaysAwaited(reqs, running) ==
  /\ \A q \in Requests : reqs[q].pc = "replay" => reqs[q].key \in running
  /\ \A key \in running : \E q \in Requests : Awaits(reqs[q], key)

Bounded(kept, bytes, running) ==
  /\ UniqueKeys(kept) /\ bytes = TotalOf(kept) /\ bytes <= MaxBytes /\ Len(kept) <= MaxEntries
  /\ Cardinality(running) <= Concurrency /\ \A key \in running : Lacks(kept, key)

(* The properties, as predicates of what they depend on, in both states.   *)
LEMMA PartsOfProperties ==
  /\ NobodyIsForgotten <=> LoadsAwaited(request, loads) /\ ReplaysAwaited(request, pending)
  /\ NobodyIsForgotten' <=> LoadsAwaited(request', loads') /\ ReplaysAwaited(request', pending')
  /\ ReplaysWithinBounds <=> Bounded(cache, cacheBytes, pending)
  /\ ReplaysWithinBounds' <=> Bounded(cache', cacheBytes', pending')
<1>1. /\ NobodyIsForgotten <=> LoadsAwaited(request, loads) /\ ReplaysAwaited(request, pending)
      /\ NobodyIsForgotten' <=> LoadsAwaited(request', loads') /\ ReplaysAwaited(request', pending')
  BY DEF NobodyIsForgotten, LoadsAwaited, ReplaysAwaited, WaitsFor, Awaits, AwaitsReplay, At,
         KeyOf, Run, Loading
<1>2. ReplaysWithinBounds <=> Bounded(cache, cacheBytes, pending)
  BY DEF ReplaysWithinBounds, Bounded, UniqueKeys, Lacks, KeptAs
<1>3. ReplaysWithinBounds' <=> Bounded(cache', cacheBytes', pending')
  BY DEF ReplaysWithinBounds, Bounded, UniqueKeys, Lacks, KeptAs
<1> QED
  BY <1>1, <1>2, <1>3

(* The directories have their type.                                        *)
LEMMA DirTyped == ASSUME StoreOK PROVE dir \in Directories
  BY DEF StoreOK, Directories

(* One request goes from where it does not wait to where it does not wait. *)
LEMMA OneMoves ==
  ASSUME ExplorerInv, NEW q \in Requests, request[q].pc \notin {"wait", "replay"},
         NEW req, RequestOK(req, dir), req.pc \in {"idle", "stat", "served"},
         Set(q, req)
  PROVE  /\ dir' = dir => RequestsOK'
         /\ LoadsAwaited(request', loads) /\ ReplaysAwaited(request', pending)
<1>1. /\ request = [p \in Requests |-> request[p]]
      /\ \A p \in Requests : RequestOK(request[p], dir)
      /\ LoadsAwaited(request, loads) /\ ReplaysAwaited(request, pending)
  BY PartsOfProperties DEF ExplorerInv, RequestsOK
<1>2. /\ request' = [p \in Requests |-> request'[p]]
      /\ request'[q] = req /\ \A p \in Requests : p # q => request'[p] = request[p]
  BY <1>1 DEF Set
<1>3. dir' = dir => RequestsOK'
  BY <1>1, <1>2 DEF RequestsOK
<1>4. LoadsAwaited(request', loads)
  <2>1. \A p \in Requests : \A key : WaitsFor(request[p], key) => WaitsFor(request'[p], key)
    BY <1>2 DEF WaitsFor
  <2>2. \A p \in Requests : request'[p].pc = "wait" => request'[p] = request[p]
    BY <1>2
  <2> QED
    BY <1>1, <2>1, <2>2 DEF LoadsAwaited
<1>5. ReplaysAwaited(request', pending)
  <2>1. \A p \in Requests : \A key : Awaits(request[p], key) => Awaits(request'[p], key)
    BY <1>2 DEF Awaits
  <2>2. \A p \in Requests : request'[p].pc = "replay" => request'[p] = request[p]
    BY <1>2
  <2> QED
    BY <1>1, <2>1, <2>2 DEF ReplaysAwaited
<1> QED
  BY <1>3, <1>4, <1>5

(* And nothing else changes.                                               *)
LEMMA OneMovesAlone ==
  ASSUME ExplorerInv, NEW q \in Requests, request[q].pc \notin {"wait", "replay"},
         NEW req, RequestOK(req, dir), req.pc \in {"idle", "stat", "served"},
         Set(q, req), UNCHANGED storeVars, UNCHANGED replayVars
  PROVE  ExplorerInv'
<1>1. /\ dir' = dir /\ cachedRun' = cachedRun /\ loads' = loads /\ summary' = summary
      /\ cache' = cache /\ cacheBytes' = cacheBytes /\ pending' = pending
  BY DEF storeVars, replayVars
<1>2. RequestsOK' /\ LoadsAwaited(request', loads') /\ ReplaysAwaited(request', pending')
  BY <1>1, OneMoves
<1>3. StoreOK' /\ LoadsOK' /\ ReplaysOK'
  BY <1>1 DEF ExplorerInv, StoreOK, LoadsOK, ReplaysOK
<1>4. Bounded(cache', cacheBytes', pending')
  BY <1>1, PartsOfProperties DEF ExplorerInv
<1> QED
  BY <1>2, <1>3, <1>4, PartsOfProperties DEF ExplorerInv

(* Ask: what the directories are like is noted.                            *)
LEMMA AskOK == ASSUME ExplorerInv, NEW q \in Requests, Ask(q), UNCHANGED replayVars PROVE ExplorerInv'
<1>1. PICK kind \in Kinds :
        \E todo \in IF kind = "list" THEN {SetToSeq(Runs)} ELSE {<<r>> : r \in Runs} :
          Set(q, Looking(kind, todo, dir))
  BY DEF Ask
<1>2. PICK todo \in IF kind = "list" THEN {SetToSeq(Runs)} ELSE {<<r>> : r \in Runs} :
          Set(q, Looking(kind, todo, dir))
  BY <1>1
<1>3. todo \in Seq(Runs) /\ todo # << >>
  <2>1. CASE kind = "list"
    <3>1. todo = SetToSeq(Runs)
      BY <1>2, <2>1
    <3> DEFINE n == Cardinality(Runs)
    <3>2. n \in Nat /\ n # 0 /\ ExistsBijection(1..n, Runs)
      BY ExplorerAssumption, FS_CardinalityType, FS_EmptySet
    <3>3. \E f \in [1..n -> Runs] : IsInjective(f)
      BY <3>2 DEF ExistsBijection, Bijection, Injection, IsInjective
    <3>4. todo \in [1..n -> Runs]
      BY <3>1, <3>3 DEF SetToSeq
    <3>5. todo \in Seq(Runs) /\ Len(todo) = n
      BY <3>2, <3>4
    <3> HIDE DEF n
    <3>6. todo = << >> => n = 0
      BY <3>5, EmptySeq, Zenon
    <3> QED
      BY <3>2, <3>5, <3>6
  <2>2. CASE kind # "list"
    <3>1. PICK r \in Runs : todo = <<r>>
      BY <1>2, <2>2
    <3>2. <<r>> \in Seq(Runs) /\ Len(<<r>>) = 1
      OBVIOUS
    <3>3. todo = << >> => Len(<<r>>) = 0
      BY <3>1, EmptySeq, Zenon
    <3> QED
      BY <3>1, <3>2, <3>3
  <2> QED
    BY <2>1, <2>2
<1>4. dir \in Directories
  BY DirTyped DEF ExplorerInv
<1>5. Range(todo) \subseteq Runs
  BY <1>3, RunsOfTodo
<1>6. \A r \in Range(todo), f \in Range(Files) : dir[r][f] <= dir[r][f]
  BY <1>4, <1>5 DEF Directories, Contents
<1>7. RequestOK(Looking(kind, todo, dir), dir) /\ Looking(kind, todo, dir).pc = "stat"
  BY <1>3, <1>4, <1>5, <1>6, LookingOK DEF Directories
<1>8. request[q].pc \notin {"wait", "replay"} /\ UNCHANGED storeVars
  BY DEF Ask, At
<1> QED
  BY <1>2, <1>7, <1>8, OneMovesAlone

(* A request that is over.                                                 *)
LEMMA IdleOK == \A d : RequestOK(Idle, d) /\ Idle.pc = "idle"
  BY DEF Idle, RequestOK

(* What is known of a request, by where it is.                             *)
LEMMA RequestKnown ==
  ASSUME ExplorerInv, NEW q \in Requests
  PROVE  /\ At(q, "stat") => StatOK(request[q], dir)
         /\ At(q, "wait") => WaitOK(request[q], dir)
         /\ At(q, "served") => ServedOK(request[q], dir)
         /\ At(q, "replay") => request[q] \in Replaying
<1>1. RequestOK(request[q], dir)
  BY DEF ExplorerInv, RequestsOK
<1> QED
  BY <1>1, RequestCases DEF At

(* GoOn: the next run of the list.                                         *)
LEMMA GoOnOK ==
  ASSUME ExplorerInv, NEW q \in Requests, GoOn(q), UNCHANGED replayVars PROVE ExplorerInv'
<1> DEFINE req == request[q]
<1>1. ServedOK(req, dir) /\ req.pc = "served"
  BY RequestKnown DEF GoOn, At
<1>2. AskedBefore(req, dir) /\ req.kind \in Kinds
  BY <1>1 DEF ServedOK, Answered
<1>3. RequestOK(Advanced(req), dir) /\ Advanced(req).pc \in {"idle", "stat"}
  BY <1>2, AdvancedOK, DirTyped DEF ExplorerInv
<1>4. Set(q, Advanced(req)) /\ UNCHANGED storeVars
  BY DEF GoOn
<1> HIDE DEF req
<1> QED
  BY <1>1, <1>3, <1>4, OneMovesAlone DEF req

(* StatFails: the request fails.                                           *)
LEMMA StatFailsOK ==
  ASSUME ExplorerInv, NEW q \in Requests, StatFails(q), UNCHANGED replayVars PROVE ExplorerInv'
<1>1. request[q].pc = "stat" /\ Set(q, Idle) /\ UNCHANGED storeVars
  BY DEF StatFails, At, Unavailable
<1> QED
  BY <1>1, IdleOK, OneMovesAlone

(* The next lstat of a request.                                            *)
LEMMA NextStat ==
  ASSUME ExplorerInv, NEW q \in Requests, At(q, "stat")
  PROVE  /\ StatOK(request[q], dir) /\ Run(q) \in Runs /\ Run(q) = Head(request[q].todo)
         /\ NextFile(q) = Report => Len(request[q].stats) = 2
         /\ NextFile(q) # Report => Len(request[q].stats) \in {0, 1}
<1> DEFINE n == Len(request[q].stats)
<1>1. StatOK(request[q], dir)
  BY RequestKnown
<1>2. Run(q) \in Runs /\ Run(q) = Head(request[q].todo)
  BY <1>1, RunsOfTodo DEF StatOK, AskedBefore, Run
<1>3. n \in Nat /\ n <= 2 /\ NextFile(q) = Files[n + 1]
  BY <1>1 DEF StatOK, Asking, NextFile
<1> HIDE DEF n
<1>4. n \in {0, 1, 2}
  BY <1>3
<1>5. NextFile(q) = Report <=> n = 2
  BY <1>3, <1>4, FilesKnown DEF Report
<1> QED
  BY <1>1, <1>2, <1>4, <1>5 DEF n

(* Stat: what was seen lies between the request and now.                   *)
LEMMA StatIsOK ==
  ASSUME ExplorerInv, NEW q \in Requests, Stat(q), UNCHANGED replayVars PROVE ExplorerInv'
<1> DEFINE req == request[q]
           r == Run(q)
           f == NextFile(q)
           n == Len(req.stats)
           version == dir[r][f]
           next == IF version = 0 THEN Refused(req) ELSE [req EXCEPT !.stats = Append(@, version)]
<1>1. At(q, "stat") /\ f # Report /\ Set(q, next) /\ UNCHANGED storeVars
  BY DEF Stat
<1>2. /\ StatOK(req, dir) /\ r \in Runs /\ r = Head(req.todo) /\ n \in {0, 1}
      /\ f = Files[n + 1] /\ dir \in Directories
  BY <1>1, NextStat, DirTyped DEF NextFile, ExplorerInv
<1>3. CASE version = 0
  <2>1. RequestOK(Refused(req), dir) /\ Refused(req).pc \in {"idle", "stat"}
    BY <1>2, RefusedOK DEF StatOK, Asking
  <2>2. next = Refused(req)
    BY <1>3
  <2>3. req.pc = "stat"
    BY <1>1 DEF At
  <2> HIDE DEF next, req
  <2> QED
    BY <1>1, <2>1, <2>2, <2>3, OneMovesAlone DEF req
<1>4. CASE version # 0
  <2> DEFINE stats == Append(req.stats, version)
  <2>1. next = [req EXCEPT !.stats = stats]
    BY <1>4
  <2>2. req \in Asking /\ req.pc = "stat" /\ AskedBefore(req, dir) /\ SeenSince(req, dir)
    BY <1>2 DEF StatOK
  <2>3. f \in Range(Files) /\ version \in Nat /\ req.stats \in Seq(Nat)
    <3>1. f \in Range(Files)
      <4> HIDE DEF n, f
      <4> QED
        BY <1>2, FilesKnown
    <3> QED
      BY <1>2, <2>2, <3>1 DEF Directories, Contents, Asking
  <2>4. /\ stats \in Seq(Nat) /\ Len(stats) = n + 1 /\ stats[n + 1] = version
        /\ \A i \in 1..n : stats[i] = req.stats[i]
    BY <2>3
  <2>5. req.since[r][f] <= version /\ version <= version /\ f = Files[n + 1]
    <3>1. r \in Range(req.todo)
      BY <1>2, <2>2, RunsOfTodo DEF AskedBefore
    <3> QED
      BY SMTT(30), <1>2, <2>2, <2>3, <3>1 DEF AskedBefore
  <2> HIDE DEF stats, version
  <2>6. /\ next \in Asking /\ next.pc = "stat" /\ next.todo = req.todo /\ next.since = req.since
        /\ next.stats = stats
    BY <2>1, <2>2, <2>4 DEF Asking
  <2> HIDE DEF next
  <2>7. AskedBefore(next, dir)
    BY <2>2, <2>6 DEF AskedBefore
  <2>8. ASSUME NEW i \in 1..Len(next.stats)
        PROVE  /\ next.since[Head(next.todo)][Files[i]] <= next.stats[i]
               /\ next.stats[i] <= dir[Head(next.todo)][Files[i]]
    <3>1. i \in 1..n \/ i = n + 1
      <4> HIDE DEF n
      <4> QED
        BY <1>2, <2>4, <2>6
    <3>2. CASE i \in 1..n
      BY <2>2, <2>4, <2>6, <3>2 DEF SeenSince
    <3>3. CASE i = n + 1
      BY <1>2, <2>4, <2>5, <2>6, <3>3 DEF version
    <3> QED
      BY <3>1, <3>2, <3>3
  <2>9. SeenSince(next, dir)
    BY <2>4, <2>6, <2>8 DEF SeenSince
  <2>10. Len(next.stats) <= 2
    <3> HIDE DEF n
    <3> QED
      BY <1>2, <2>4, <2>6
  <2>11. RequestOK(next, dir)
    BY <2>6, <2>7, <2>9, <2>10 DEF RequestOK, StatOK
  <2> HIDE DEF req
  <2> QED
    BY <1>1, <2>2, <2>6, <2>11, OneMovesAlone DEF req
<1> QED
  BY <1>3, <1>4

(* The signature a request has seen.                                       *)
LEMMA SignedOK ==
  ASSUME ExplorerInv, NEW q \in Requests, NEW look, Signed(q, look)
  PROVE  /\ StatOK(request[q], dir) /\ At(q, "stat") /\ dir \in Directories
         /\ Key(q) \in Keys /\ SignatureOK(Key(q), dir)
         /\ Key(q).run = Run(q) /\ Run(q) = Head(request[q].todo)
         /\ \A i \in 1..3 : request[q].since[Run(q)][Files[i]] <= Key(q).signature[i]
<1> DEFINE req == request[q]
           r == Run(q)
           last == dir[r][Report]
           stats == Append(req.stats, last)
<1>1. At(q, "stat") /\ NextFile(q) = Report
  BY DEF Signed
<1>2. /\ StatOK(req, dir) /\ r \in Runs /\ r = Head(req.todo) /\ Len(req.stats) = 2
      /\ dir \in Directories
  BY <1>1, NextStat, DirTyped DEF ExplorerInv
<1>3. /\ req.stats \in Seq(Nat) /\ last \in Nat
      /\ req.since[r][Report] \in Nat /\ req.since[r][Report] <= last
  <2>1. Report \in Range(Files) /\ r \in Range(req.todo)
    BY <1>2, FilesKnown, RunsOfTodo DEF StatOK, AskedBefore, Report
  <2> QED
    BY <1>2, <2>1 DEF Directories, Contents, StatOK, Asking, AskedBefore
<1>4. /\ stats \in Seq(Nat) /\ Len(stats) = 3
      /\ stats[1] = req.stats[1] /\ stats[2] = req.stats[2] /\ stats[3] = last
  <2> DEFINE seen == req.stats
  <2>1. Len(seen) = 2 /\ seen \in Seq(Nat) /\ last \in Nat /\ stats = Append(seen, last)
    BY <1>2, <1>3
  <2> HIDE DEF seen, last, stats
  <2>2. Len(seen) = 2 => /\ Append(seen, last) \in Seq(Nat) /\ Len(Append(seen, last)) = 3
                         /\ Append(seen, last)[1] = seen[1] /\ Append(seen, last)[2] = seen[2]
                         /\ Append(seen, last)[3] = last
    BY <2>1, ThirdAppended
  <2> QED
    BY <2>1, <2>2, Zenon DEF seen
<1>5. Key(q) = [run |-> r, signature |-> stats]
  BY DEF Key
<1>6. Files[3] = Report
  BY FilesKnown DEF Report
<1>7. \A i \in 1..2 : /\ req.since[r][Files[i]] <= req.stats[i]
                      /\ req.stats[i] <= dir[r][Files[i]]
  BY <1>2 DEF StatOK, SeenSince
<1> HIDE DEF stats
<1>8. \A i \in 1..3 : /\ req.since[r][Files[i]] <= stats[i] /\ stats[i] <= dir[r][Files[i]]
  <2> TAKE i \in 1..3
  <2>1. i \in 1..2 \/ i = 3
    OBVIOUS
  <2>2. CASE i \in 1..2
    BY <1>4, <1>7, <2>2
  <2>3. CASE i = 3
    <3>1. last <= last
      BY <1>3
    <3> QED
      BY <1>3, <1>4, <1>6, <2>3, <3>1
  <2> QED
    BY <2>1, <2>2, <2>3
<1> DEFINE key == Key(q)
<1>9. key.run = r /\ key.signature = stats /\ key \in Keys
  BY <1>2, <1>4, <1>5 DEF Keys
<1> HIDE DEF key
<1>10. SignatureOK(key, dir)
  BY <1>4, <1>8, <1>9 DEF SignatureOK
<1>11. \A i \in 1..3 : request[q].since[Run(q)][Files[i]] <= key.signature[i]
  BY <1>8, <1>9
<1> QED
  BY <1>1, <1>2, <1>9, <1>10, <1>11 DEF key

(* A cached run is the answer of a request that saw its signature.         *)
LEMMA FromEntryOK ==
  ASSUME ExplorerInv, NEW q \in Requests, NEW look, Signed(q, look),
         NEW entry, SoundEntry(entry), entry.key = Key(q),
         Set(q, Served(request[q], entry.artifacts)),
         UNCHANGED storeVars, UNCHANGED replayVars
  PROVE  ExplorerInv'
<1> DEFINE req == request[q]
           key == Key(q)
<1>1. /\ StatOK(req, dir) /\ req.pc = "stat" /\ dir \in Directories
      /\ key \in Keys /\ Len(key.signature) = 3 /\ key.run = Head(req.todo)
      /\ \A i \in 1..3 : req.since[Head(req.todo)][Files[i]] <= key.signature[i]
  BY SignedOK DEF At, SignatureOK
<1>2. /\ entry.artifacts \in ArtifactsOfRuns /\ Loadable(entry.artifacts.files)
      /\ NoOlderThan(entry.artifacts, key)
  BY DEF SoundEntry
<1>3. req \in Asking /\ AskedBefore(req, dir)
  BY <1>1 DEF StatOK
<1> HIDE DEF req, key
<1>4. RequestOK(Served(req, entry.artifacts), dir) /\ Served(req, entry.artifacts).pc = "served"
  BY <1>1, <1>2, <1>3, ServedIsCurrent
<1> QED
  BY <1>1, <1>4, OneMovesAlone DEF req

(* FromSummary: the summary was asked with the same signature.             *)
LEMMA FromSummaryOK ==
  ASSUME ExplorerInv, NEW q \in Requests, FromSummary(q), UNCHANGED replayVars PROVE ExplorerInv'
<1>1. /\ Signed(q, "summary") /\ summary[Run(q)] # NoRun /\ summary[Run(q)].key = Key(q)
      /\ Set(q, Served(request[q], summary[Run(q)].artifacts)) /\ UNCHANGED storeVars
  BY DEF FromSummary, InSummary
<1>2. Run(q) \in Runs
  BY <1>1, SignedOK DEF Keys
<1>3. SoundEntry(summary[Run(q)])
  BY <1>1, <1>2 DEF ExplorerInv, StoreOK
<1> QED
  BY <1>1, <1>3, FromEntryOK

(* FromCache: so was the cached run.                                       *)
LEMMA FromCacheOK ==
  ASSUME ExplorerInv, NEW q \in Requests, FromCache(q), UNCHANGED replayVars PROVE ExplorerInv'
<1>1. /\ Signed(q, "run") /\ cachedRun # NoRun /\ cachedRun.key = Key(q)
      /\ Set(q, Served(request[q], cachedRun.artifacts)) /\ UNCHANGED storeVars
  BY DEF FromCache, InCache
<1>2. SoundEntry(cachedRun)
  BY <1>1 DEF ExplorerInv, StoreOK
<1> QED
  BY <1>1, <1>2, FromEntryOK

(* LookForRun: the lstats begin again.                                     *)
LEMMA LookForRunOK ==
  ASSUME ExplorerInv, NEW q \in Requests, LookForRun(q), UNCHANGED replayVars PROVE ExplorerInv'
<1> DEFINE req == request[q]
           next == [req EXCEPT !.look = "run", !.stats = << >>]
<1>1. Signed(q, "summary") /\ Set(q, next) /\ UNCHANGED storeVars
  BY DEF LookForRun
<1>2. StatOK(req, dir) /\ req.pc = "stat"
  BY <1>1, SignedOK DEF At
<1>3. << >> \in Seq(Nat) /\ Len(<< >>) = 0
  OBVIOUS
<1>4. /\ next \in Asking /\ next.pc = "stat" /\ next.todo = req.todo /\ next.since = req.since
      /\ next.stats = << >>
  BY <1>2, <1>3 DEF StatOK, Asking
<1> HIDE DEF next
<1>5. AskedBefore(next, dir)
  BY <1>2, <1>4 DEF StatOK, AskedBefore
<1>6. SeenSince(next, dir) /\ Len(next.stats) <= 2
  BY <1>3, <1>4 DEF SeenSince
<1>7. RequestOK(next, dir)
  BY <1>4, <1>5, <1>6 DEF RequestOK, StatOK
<1> HIDE DEF req
<1> QED
  BY <1>1, <1>2, <1>4, <1>7, OneMovesAlone DEF req

(* The request waits for the load of the run it saw.                       *)
LEMMA WaitIsOK ==
  ASSUME ExplorerInv, NEW q \in Requests, Signed(q, "run"), Wait(q, Key(q)), dir' = dir
  PROVE  /\ RequestsOK' /\ request[q].pc = "stat" /\ WaitsFor(request'[q], Key(q))
         /\ request' = [p \in Requests |-> request'[p]]
         /\ \A p \in Requests : p # q => request'[p] = request[p]
<1> DEFINE req == request[q]
           key == Key(q)
           next == [req EXCEPT !.pc = "wait", !.stats = key.signature]
<1>1. /\ StatOK(req, dir) /\ req.pc = "stat" /\ key \in Keys /\ SignatureOK(key, dir)
      /\ key.run = Head(req.todo)
      /\ \A i \in 1..3 : req.since[Head(req.todo)][Files[i]] <= key.signature[i]
  BY SignedOK DEF At
<1>2. request' = [request EXCEPT ![q] = next]
  BY DEF Wait, Set
<1>3. /\ next \in Asking /\ next.pc = "wait" /\ next.todo = req.todo /\ next.since = req.since
      /\ next.stats = key.signature
  BY <1>1 DEF StatOK, Asking, Keys
<1> HIDE DEF next
<1>4. AskedBefore(next, dir)
  BY <1>1, <1>3 DEF StatOK, AskedBefore
<1>5. SeenSince(next, dir) /\ Len(next.stats) = 3
  <2>1. Len(key.signature) = 3 /\ \A i \in 1..3 : key.signature[i] <= dir[Head(req.todo)][Files[i]]
    BY <1>1 DEF SignatureOK
  <2>2. next.stats \in Seq(Nat)
    BY <1>3 DEF Asking
  <2> HIDE DEF key, req
  <2> QED
    BY <1>1, <1>3, <2>1, <2>2 DEF SeenSince
<1>6. RequestOK(next, dir)
  BY <1>3, <1>4, <1>5 DEF RequestOK, WaitOK
<1>7. /\ request = [p \in Requests |-> request[p]]
      /\ \A p \in Requests : RequestOK(request[p], dir)
  BY DEF ExplorerInv, RequestsOK
<1>8. /\ request' = [p \in Requests |-> request'[p]] /\ request'[q] = next
      /\ \A p \in Requests : p # q => request'[p] = request[p]
  BY <1>2, <1>7
<1>9. RequestsOK'
  BY <1>6, <1>7, <1>8 DEF RequestsOK
<1>10. WaitsFor(request'[q], key)
  <2>1. key = [run |-> key.run, signature |-> key.signature]
    BY <1>1 DEF Keys
  <2> QED
    BY <1>1, <1>3, <1>8, <2>1 DEF WaitsFor
<1> QED
  BY <1>1, <1>8, <1>9, <1>10

(* Those who await replays still do.                                       *)
LEMMA ReplaysStillAwaited ==
  ASSUME NEW q \in Requests, ReplaysAwaited(request, pending),
         request[q].pc # "replay", request'[q].pc # "replay",
         \A p \in Requests : p # q => request'[p] = request[p]
  PROVE  ReplaysAwaited(request', pending)
<1>1. \A p \in Requests : \A key : Awaits(request[p], key) => Awaits(request'[p], key)
  BY DEF Awaits
<1>2. \A p \in Requests : request'[p].pc = "replay" => request'[p] = request[p]
  OBVIOUS
<1> QED
  BY <1>1, <1>2 DEF ReplaysAwaited

(* ShareLoad: the load is in line.                                         *)
LEMMA ShareLoadOK ==
  ASSUME ExplorerInv, NEW q \in Requests, ShareLoad(q), UNCHANGED replayVars PROVE ExplorerInv'
<1>1. /\ Signed(q, "run") /\ Loading(Key(q)) /\ Wait(q, Key(q))
      /\ dir' = dir /\ cachedRun' = cachedRun /\ loads' = loads /\ summary' = summary
      /\ cache' = cache /\ cacheBytes' = cacheBytes /\ pending' = pending
  BY DEF ShareLoad, storeVars, replayVars
<1>2. /\ RequestsOK' /\ request[q].pc = "stat" /\ WaitsFor(request'[q], Key(q))
      /\ \A p \in Requests : p # q => request'[p] = request[p]
  BY <1>1, WaitIsOK
<1>3. LoadsAwaited(request, loads) /\ ReplaysAwaited(request, pending)
  BY PartsOfProperties DEF ExplorerInv
<1>4. LoadsAwaited(request', loads)
  <2>1. \A p \in Requests : \A key : WaitsFor(request[p], key) => WaitsFor(request'[p], key)
    BY <1>2 DEF WaitsFor
  <2>2. ASSUME NEW p \in Requests, request'[p].pc = "wait"
        PROVE  \E i \in DOMAIN loads : WaitsFor(request'[p], loads[i].key)
    <3>1. CASE p = q
      BY <1>1, <1>2, <3>1 DEF Loading
    <3>2. CASE p # q
      BY <1>2, <1>3, <2>2, <3>2 DEF LoadsAwaited
    <3> QED
      BY <3>1, <3>2
  <2> QED
    BY <1>3, <2>1, <2>2 DEF LoadsAwaited
<1>5. request'[q].pc # "replay"
  BY <1>2 DEF WaitsFor
<1>6. ReplaysAwaited(request', pending)
  BY <1>2, <1>3, <1>5, ReplaysStillAwaited
<1>7. StoreOK' /\ LoadsOK' /\ ReplaysOK'
  BY <1>1 DEF ExplorerInv, StoreOK, LoadsOK, ReplaysOK
<1>8. Bounded(cache', cacheBytes', pending')
  BY <1>1, PartsOfProperties DEF ExplorerInv
<1> QED
  BY <1>1, <1>2, <1>4, <1>6, <1>7, <1>8, PartsOfProperties DEF ExplorerInv

(* NewLoad: the load comes to the end of the line, and has no twin.        *)
LEMMA NewLoadOK ==
  ASSUME ExplorerInv, NEW q \in Requests, NewLoad(q), UNCHANGED replayVars PROVE ExplorerInv'
<1> DEFINE key == Key(q)
           load == [key |-> key, read |-> NothingRead]
           n == Len(loads)
<1>1. /\ Signed(q, "run") /\ ~Loading(key) /\ Wait(q, key) /\ loads' = Append(loads, load)
      /\ cachedRun' \in {NoRun, cachedRun}
      /\ dir' = dir /\ summary' = summary
      /\ cache' = cache /\ cacheBytes' = cacheBytes /\ pending' = pending
  BY DEF NewLoad, replayVars
<1>2. /\ RequestsOK' /\ request[q].pc = "stat" /\ WaitsFor(request'[q], key)
      /\ \A p \in Requests : p # q => request'[p] = request[p]
  BY <1>1, WaitIsOK
<1>3. LoadsAwaited(request, loads) /\ ReplaysAwaited(request, pending)
  BY PartsOfProperties DEF ExplorerInv
<1>4. key \in Keys /\ SignatureOK(key, dir)
  BY <1>1, SignedOK
<1>5. LoadOK(load, dir) /\ load \in [key : Keys, read : ReadSoFar] /\ load.key = key
  <2>1. NothingRead \in ReadSoFar /\ DOMAIN NothingRead = {}
    <3>1. NothingRead \in [{} -> Nat]
      BY DEF NothingRead
    <3> QED
      BY <3>1 DEF ReadSoFar
  <2> HIDE DEF key
  <2> QED
    BY <1>4, <2>1 DEF LoadOK
<1> HIDE DEF load, key
<1>6. /\ loads \in Seq([key : Keys, read : ReadSoFar]) /\ n \in Nat /\ DOMAIN loads = 1..n
      /\ \A i \in 1..n : LoadOK(loads[i], dir)
  BY DEF ExplorerInv, LoadsOK
<1>7. /\ loads' \in Seq([key : Keys, read : ReadSoFar]) /\ Len(loads') = n + 1
      /\ loads'[n + 1] = load /\ \A i \in 1..n : loads'[i] = loads[i]
      /\ DOMAIN loads' = 1..(n + 1)
  <2> HIDE DEF LoadOK
  <2> QED
    BY <1>1, <1>5, <1>6
<1> HIDE DEF n
<1>8. \A i \in 1..(n + 1) : i \in 1..n \/ i = n + 1
  BY <1>6
<1>9. LoadsOK'
  <2>1. \A i \in 1..(n + 1) : LoadOK(loads'[i], dir')
    BY <1>1, <1>5, <1>6, <1>7, <1>8
  <2> QED
    BY <1>7, <2>1 DEF LoadsOK
<1>10. LoadsAwaited(request', loads')
  <2>1. \A p \in Requests : \A k : WaitsFor(request[p], k) => WaitsFor(request'[p], k)
    BY <1>2 DEF WaitsFor
  <2>2. 1..n \subseteq 1..(n + 1) /\ n + 1 \in 1..(n + 1)
    BY <1>6
  <2>3. ASSUME NEW p \in Requests, request'[p].pc = "wait"
        PROVE  \E i \in DOMAIN loads' : WaitsFor(request'[p], loads'[i].key)
    <3>1. CASE p = q
      BY <1>2, <1>5, <1>7, <2>2, <3>1
    <3>2. CASE p # q
      <4>1. PICK i \in 1..n : WaitsFor(request[p], loads[i].key)
        BY <1>2, <1>3, <1>6, <2>3, <3>2 DEF LoadsAwaited
      <4> QED
        BY <1>7, <2>1, <2>2, <4>1
    <3> QED
      BY <3>1, <3>2
  <2>4. \A i \in 1..n : loads[i].key # key
    BY <1>1, <1>6 DEF Loading
  <2>5. \A i, j \in 1..n : loads[i].key = loads[j].key => i = j
    BY <1>3, <1>6 DEF LoadsAwaited
  <2>6. \A i, j \in 1..(n + 1) : loads'[i].key = loads'[j].key => i = j
    BY <1>5, <1>7, <1>8, <2>4, <2>5
  <2>7. \A i \in 1..n : \E p \in Requests : WaitsFor(request[p], loads[i].key)
    BY <1>3, <1>6 DEF LoadsAwaited
  <2>8. \A i \in 1..(n + 1) : \E p \in Requests : WaitsFor(request'[p], loads'[i].key)
    BY <1>2, <1>5, <1>7, <1>8, <2>1, <2>7
  <2> QED
    BY <1>7, <2>3, <2>6, <2>8 DEF LoadsAwaited
<1>11. request'[q].pc # "replay"
  BY <1>2 DEF WaitsFor
<1>12. ReplaysAwaited(request', pending)
  BY <1>2, <1>3, <1>11, ReplaysStillAwaited
<1>13. StoreOK' /\ ReplaysOK'
  BY <1>1 DEF ExplorerInv, StoreOK, ReplaysOK
<1>14. Bounded(cache', cacheBytes', pending')
  BY <1>1, PartsOfProperties DEF ExplorerInv
<1> QED
  BY <1>1, <1>2, <1>9, <1>10, <1>12, <1>13, <1>14, PartsOfProperties DEF ExplorerInv

(* The line without its head.                                              *)
LEMMA TailOfLine ==
  ASSUME NEW S, NEW line \in Seq(S), line # << >>
  PROVE  /\ Tail(line) \in Seq(S) /\ 1 \in DOMAIN line /\ line[1] \in S
         /\ \A i \in DOMAIN Tail(line) : /\ i + 1 \in DOMAIN line /\ i + 1 # 1 /\ i \in Nat
                                         /\ Tail(line)[i] = line[i + 1]
         /\ \A j \in DOMAIN line : j # 1 => \E i \in DOMAIN Tail(line) : j = i + 1
<1> DEFINE n == Len(line)
           rest == Tail(line)
<1>1. /\ n \in Nat /\ n # 0 /\ DOMAIN line = 1..n /\ \A i \in 1..n : line[i] \in S
  BY EmptySeq
<1>2. rest \in Seq(S) /\ Len(rest) = n - 1 /\ \A i \in 1..Len(rest) : rest[i] = line[i + 1]
  BY HeadTailProperties
<1>3. DOMAIN rest = 1..Len(rest)
  BY <1>2
<1> HIDE DEF n, rest
<1>4. DOMAIN rest = 1..(n - 1) /\ \A i \in 1..(n - 1) : rest[i] = line[i + 1]
  BY <1>2, <1>3
<1>5. 1 \in 1..n /\ \A i \in 1..(n - 1) : i + 1 \in 1..n /\ i + 1 # 1 /\ i \in Nat
  BY <1>1
<1>6. ASSUME NEW j \in 1..n, j # 1 PROVE \E i \in 1..(n - 1) : j = i + 1
  <2>1. j - 1 \in 1..(n - 1) /\ j = (j - 1) + 1
    BY <1>1, <1>6
  <2> QED
    BY <2>1
<1> QED
  BY <1>1, <1>2, <1>4, <1>5, <1>6 DEF rest

(* The load at the head is gone, with everybody who waited for it.         *)
LEMMA HeadOfLineGone ==
  ASSUME ExplorerInv, loads # << >>, loads' = Tail(loads), dir' = dir, pending' = pending,
         request' = [q \in Requests |-> request'[q]],
         \A q \in Requests : IF Waits(q) THEN /\ RequestOK(request'[q], dir)
                                              /\ request'[q].pc \notin {"wait", "replay"}
                             ELSE request'[q] = request[q]
  PROVE  RequestsOK' /\ LoadsOK' /\ LoadsAwaited(request', loads') /\ ReplaysAwaited(request', pending')
<1>1. LoadsAwaited(request, loads) /\ ReplaysAwaited(request, pending)
  BY PartsOfProperties DEF ExplorerInv
<1>2. \A q \in Requests : Waits(q) <=> WaitsFor(request[q], loads[1].key)
  BY DEF Waits, WaitsFor, At, KeyOf, Run, Load
<1>3. RequestsOK'
  BY DEF ExplorerInv, RequestsOK
<1>4. /\ loads \in Seq([key : Keys, read : ReadSoFar])
      /\ \A i \in DOMAIN loads : LoadOK(loads[i], dir)
  BY DEF ExplorerInv, LoadsOK
<1>5. /\ loads' \in Seq([key : Keys, read : ReadSoFar]) /\ 1 \in DOMAIN loads
      /\ \A i \in DOMAIN loads' : /\ i + 1 \in DOMAIN loads /\ i + 1 # 1 /\ i \in Nat
                                  /\ loads'[i] = loads[i + 1]
      /\ \A j \in DOMAIN loads : j # 1 => \E i \in DOMAIN loads' : j = i + 1
  BY <1>4, TailOfLine
<1>6. LoadsOK'
  <2>1. \A i \in DOMAIN loads' : LoadOK(loads'[i], dir')
    BY <1>4, <1>5
  <2>2. DOMAIN loads' = 1..Len(loads')
    BY <1>5
  <2> QED
    BY <1>5, <2>1, <2>2 DEF LoadsOK
<1>7. LoadsAwaited(request', loads')
  <2>1. ASSUME NEW q \in Requests, request'[q].pc = "wait"
        PROVE  \E i \in DOMAIN loads' : WaitsFor(request'[q], loads'[i].key)
    <3>1. ~Waits(q) /\ request'[q] = request[q]
      BY <2>1
    <3>2. PICK j \in DOMAIN loads : WaitsFor(request[q], loads[j].key)
      BY <1>1, <2>1, <3>1 DEF LoadsAwaited
    <3>3. j # 1
      BY <1>2, <3>1, <3>2
    <3>4. PICK i \in DOMAIN loads' : j = i + 1
      BY <1>5, <3>3
    <3> QED
      BY <1>5, <3>1, <3>2, <3>4
  <2>2. ASSUME NEW i \in DOMAIN loads', NEW j \in DOMAIN loads', loads'[i].key = loads'[j].key
        PROVE  i = j
    <3>1. i + 1 = j + 1
      BY <1>1, <1>5, <2>2 DEF LoadsAwaited
    <3> QED
      BY <1>5, <3>1
  <2>3. ASSUME NEW i \in DOMAIN loads'
        PROVE  \E q \in Requests : WaitsFor(request'[q], loads'[i].key)
    <3>1. PICK q \in Requests : WaitsFor(request[q], loads[i + 1].key)
      BY <1>1, <1>5 DEF LoadsAwaited
    <3>2. loads[i + 1].key # loads[1].key
      BY <1>1, <1>5 DEF LoadsAwaited
    <3>3. ~WaitsFor(request[q], loads[1].key)
      BY <3>1, <3>2 DEF WaitsFor
    <3> QED
      BY <1>2, <1>5, <3>1, <3>3
  <2> QED
    BY <2>1, <2>2, <2>3 DEF LoadsAwaited
<1>8. ReplaysAwaited(request', pending')
  <2>1. \A q \in Requests : Waits(q) => request[q].pc = "wait"
    BY DEF Waits, At
  <2>2. \A q \in Requests : \A key : Awaits(request[q], key) => Awaits(request'[q], key)
    BY <2>1 DEF Awaits
  <2>3. \A q \in Requests : request'[q].pc = "replay" => request'[q] = request[q]
    OBVIOUS
  <2> QED
    BY <1>1, <2>2, <2>3 DEF ReplaysAwaited
<1> QED
  BY <1>3, <1>6, <1>7, <1>8

(* What a request that waits for the load at the head looks like.          *)
LEMMA WaiterKnown ==
  ASSUME ExplorerInv, NEW q \in Requests, Waits(q)
  PROVE  /\ WaitOK(request[q], dir) /\ Load.key.run = Head(request[q].todo)
         /\ Load.key.signature = request[q].stats
<1>1. At(q, "wait") /\ Load.key = [run |-> Head(request[q].todo), signature |-> request[q].stats]
  BY DEF Waits, KeyOf, Run
<1> QED
  BY <1>1, RequestKnown

(* LoadFails: those who wait for the load are told.                        *)
LEMMA LoadFailsOK == ASSUME ExplorerInv, LoadFails, UNCHANGED replayVars PROVE ExplorerInv'
<1>1. /\ loads # << >> /\ loads' = Tail(loads) /\ cachedRun' = NoRun /\ dir' = dir
      /\ summary' = summary
      /\ request' = [q \in Requests |-> IF Waits(q) THEN Idle ELSE request[q]]
      /\ cache' = cache /\ cacheBytes' = cacheBytes /\ pending' = pending
  BY DEF LoadFails, Settle, replayVars
<1>2. /\ request' = [q \in Requests |-> request'[q]]
      /\ \A q \in Requests : IF Waits(q) THEN /\ RequestOK(request'[q], dir)
                                              /\ request'[q].pc \notin {"wait", "replay"}
                             ELSE request'[q] = request[q]
  BY <1>1, IdleOK
<1>3. RequestsOK' /\ LoadsOK' /\ LoadsAwaited(request', loads') /\ ReplaysAwaited(request', pending')
  BY <1>1, <1>2, HeadOfLineGone
<1>4. StoreOK' /\ ReplaysOK'
  BY <1>1 DEF ExplorerInv, StoreOK, ReplaysOK
<1>5. Bounded(cache', cacheBytes', pending')
  BY <1>1, PartsOfProperties DEF ExplorerInv
<1> QED
  BY <1>3, <1>4, <1>5, PartsOfProperties DEF ExplorerInv

(* LoadRefused: what was read does not belong together.                    *)
LEMMA LoadRefusedOK == ASSUME ExplorerInv, LoadRefused, UNCHANGED replayVars PROVE ExplorerInv'
<1>1. /\ loads # << >> /\ loads' = Tail(loads) /\ cachedRun' = NoRun /\ dir' = dir
      /\ summary' = summary
      /\ request' = [q \in Requests |-> IF Waits(q) THEN Refused(request[q]) ELSE request[q]]
      /\ cache' = cache /\ cacheBytes' = cacheBytes /\ pending' = pending
  BY DEF LoadRefused, AllRead, Settle, replayVars
<1>2. ASSUME NEW q \in Requests, Waits(q)
      PROVE  RequestOK(Refused(request[q]), dir) /\ Refused(request[q]).pc \notin {"wait", "replay"}
  <2>1. AskedBefore(request[q], dir) /\ request[q].kind \in Kinds
    BY <1>2, WaiterKnown DEF WaitOK, Asking
  <2> QED
    BY <2>1, RefusedOK, DirTyped DEF ExplorerInv
<1>3. /\ request' = [q \in Requests |-> request'[q]]
      /\ \A q \in Requests : IF Waits(q) THEN /\ RequestOK(request'[q], dir)
                                              /\ request'[q].pc \notin {"wait", "replay"}
                             ELSE request'[q] = request[q]
  BY <1>1, <1>2
<1>4. RequestsOK' /\ LoadsOK' /\ LoadsAwaited(request', loads') /\ ReplaysAwaited(request', pending')
  BY <1>1, <1>3, HeadOfLineGone
<1>5. StoreOK' /\ ReplaysOK'
  BY <1>1 DEF ExplorerInv, StoreOK, ReplaysOK
<1>6. Bounded(cache', cacheBytes', pending')
  BY <1>1, PartsOfProperties DEF ExplorerInv
<1> QED
  BY <1>4, <1>5, <1>6, PartsOfProperties DEF ExplorerInv

(* What a complete load has read belongs to the signature it was asked     *)
(* with.                                                                   *)
LEMMA LoadedEntry ==
  ASSUME ExplorerInv, AllRead, Loadable(Read)
  PROVE  SoundEntry([key |-> Load.key, artifacts |-> Artifacts]) /\ Load.key.run \in Runs
<1> DEFINE load == loads[1]
           key == load.key
           read == load.read
           present == dir[key.run][Report]
<1>1. LoadOK(load, dir) /\ dir \in Directories
  <2>1. /\ loads \in Seq([key : Keys, read : ReadSoFar]) /\ loads # << >>
        /\ \A i \in 1..Len(loads) : LoadOK(loads[i], dir)
    BY DEF ExplorerInv, LoadsOK, AllRead
  <2>2. 1 \in 1..Len(loads)
    BY <2>1, TailOfLine
  <2> QED
    BY <2>1, <2>2, DirTyped DEF ExplorerInv
<1>2. key \in Keys /\ read \in ReadSoFar /\ DOMAIN read = Range(Required) /\ Loadable(read)
  BY <1>1 DEF LoadOK, AllRead, Read, Load
<1>3. read \in [Range(Required) -> Nat]
  BY <1>2 DEF ReadSoFar
<1>4. present \in Nat /\ Report \in Range(Files) /\ Files[3] = Report
  <2>1. Report \in Range(Files) /\ Files[3] = Report
    BY FilesKnown DEF Report
  <2> QED
    BY <1>1, <1>2, <2>1 DEF Directories, Contents, Keys
<1>5. Artifacts = [run |-> key.run, files |-> read, hasReport |-> present > 0]
  BY DEF Artifacts, Load, Read
<1>6. Artifacts \in ArtifactsOfRuns /\ Loadable(Artifacts.files)
  <2>1. (present > 0) \in BOOLEAN /\ key.run \in Runs
    BY <1>2 DEF Keys
  <2>2. Artifacts \in ArtifactsOfRuns
    <3> HIDE DEF key, read, present
    <3> QED
      BY <1>3, <1>5, <2>1 DEF ArtifactsOfRuns
  <2> QED
    BY <1>2, <1>5, <2>2
<1>7. NoOlderThan(Artifacts, key)
  <2>1. Artifacts.run = key.run /\ Artifacts.files = read /\ Artifacts.hasReport = (present > 0)
    BY <1>5
  <2>2. \A i \in DOMAIN Required : key.signature[i] <= read[Required[i]]
    BY <1>1, <1>2, FilesKnown DEF LoadOK
  <2>3. key.signature[3] > 0 => present > 0
    <3>1. key.signature[3] <= present
      BY <1>1, <1>4 DEF LoadOK, SignatureOK
    <3>2. key.signature[3] \in Nat
      BY <1>1, <1>2 DEF LoadOK, SignatureOK, Keys
    <3> QED
      BY <1>4, <3>1, <3>2
  <2> HIDE DEF key, read, present
  <2> QED
    BY <2>1, <2>2, <2>3 DEF NoOlderThan
<1> QED
  BY <1>2, <1>6, <1>7 DEF SoundEntry, Load, Keys

(* LoadSucceeds: the run is kept and handed out.                           *)
LEMMA LoadSucceedsOK == ASSUME ExplorerInv, LoadSucceeds, UNCHANGED replayVars PROVE ExplorerInv'
<1> DEFINE entry == [key |-> Load.key, artifacts |-> Artifacts]
<1>1. /\ AllRead /\ Loadable(Read) /\ loads # << >> /\ loads' = Tail(loads)
      /\ cachedRun' \in {NoRun, entry} /\ dir' = dir
      /\ summary' = [summary EXCEPT ![Load.key.run] = entry]
      /\ request' = [q \in Requests |-> IF Waits(q) THEN Served(request[q], Artifacts) ELSE request[q]]
      /\ cache' = cache /\ cacheBytes' = cacheBytes /\ pending' = pending
  BY DEF LoadSucceeds, Keep, AllRead, Settle, replayVars
<1>2. SoundEntry(entry) /\ Load.key.run \in Runs
  BY <1>1, LoadedEntry
<1>3. ASSUME NEW q \in Requests, Waits(q)
      PROVE  /\ RequestOK(Served(request[q], Artifacts), dir)
             /\ Served(request[q], Artifacts).pc \notin {"wait", "replay"}
  <2>1. /\ WaitOK(request[q], dir) /\ Load.key.run = Head(request[q].todo)
        /\ Load.key.signature = request[q].stats
    BY <1>3, WaiterKnown
  <2>2. /\ request[q] \in Asking /\ AskedBefore(request[q], dir) /\ Len(Load.key.signature) = 3
        /\ \A i \in 1..3 : request[q].since[Head(request[q].todo)][Files[i]] <= Load.key.signature[i]
    BY <2>1 DEF WaitOK, SeenSince
  <2>3. /\ Artifacts \in ArtifactsOfRuns /\ Loadable(Artifacts.files)
        /\ NoOlderThan(Artifacts, Load.key) /\ Load.key \in Keys
    BY <1>2 DEF SoundEntry
  <2>4. dir \in Directories
    BY DirTyped DEF ExplorerInv
  <2>5. RequestOK(Served(request[q], Artifacts), dir) /\ Served(request[q], Artifacts).pc = "served"
    BY <2>1, <2>2, <2>3, <2>4, ServedIsCurrent
  <2> QED
    BY <2>5
<1>4. /\ request' = [q \in Requests |-> request'[q]]
      /\ \A q \in Requests : IF Waits(q) THEN /\ RequestOK(request'[q], dir)
                                              /\ request'[q].pc \notin {"wait", "replay"}
                             ELSE request'[q] = request[q]
  BY <1>1, <1>3
<1>5. RequestsOK' /\ LoadsOK' /\ LoadsAwaited(request', loads') /\ ReplaysAwaited(request', pending')
  BY <1>1, <1>4, HeadOfLineGone
<1>6. StoreOK'
  <2> HIDE DEF entry
  <2>1. cachedRun' # NoRun => SoundEntry(cachedRun')
    BY <1>1, <1>2
  <2>2. /\ summary' = [r \in Runs |-> summary'[r]]
        /\ \A r \in Runs : summary'[r] # NoRun => SoundEntry(summary'[r])
    BY <1>1, <1>2 DEF ExplorerInv, StoreOK
  <2>3. dir' \in [Runs -> Contents]
    BY <1>1 DEF ExplorerInv, StoreOK
  <2> QED
    BY <2>1, <2>2, <2>3 DEF StoreOK, SoundEntry, NoOlderThan, Loadable
<1>7. ReplaysOK'
  BY <1>1 DEF ExplorerInv, ReplaysOK
<1>8. Bounded(cache', cacheBytes', pending')
  BY <1>1, PartsOfProperties DEF ExplorerInv
<1> QED
  BY <1>5, <1>6, <1>7, <1>8, PartsOfProperties DEF ExplorerInv

(* LoadFile: a file read now is no older than the signature.               *)
LEMMA LoadFileOK == ASSUME ExplorerInv, LoadFile, UNCHANGED replayVars PROVE ExplorerInv'
<1> DEFINE read == loads[1].read
           key == loads[1].key
<1>1. PICK f \in Range(Required) \ DOMAIN read :
        loads' = [loads EXCEPT ![1].read =
                    [g \in DOMAIN read \cup {f} |-> IF g = f THEN dir[key.run][f] ELSE read[g]]]
  BY DEF LoadFile, Read, Load
<1>2. /\ loads # << >> /\ dir' = dir /\ cachedRun' = cachedRun /\ summary' = summary /\ request' = request
      /\ cache' = cache /\ cacheBytes' = cacheBytes /\ pending' = pending
  BY DEF LoadFile, replayVars
<1>3. /\ loads \in Seq([key : Keys, read : ReadSoFar]) /\ 1 \in DOMAIN loads
      /\ \A i \in DOMAIN loads : LoadOK(loads[i], dir)
      /\ DOMAIN loads = 1..Len(loads) /\ Len(loads) \in Nat
  <2>1. loads \in Seq([key : Keys, read : ReadSoFar]) /\ \A i \in 1..Len(loads) : LoadOK(loads[i], dir)
    BY DEF ExplorerInv, LoadsOK
  <2> QED
    BY <1>2, <2>1, TailOfLine
<1> DEFINE more == [g \in DOMAIN read \cup {f} |-> IF g = f THEN dir[key.run][f] ELSE read[g]]
           load == [loads[1] EXCEPT !.read = more]
<1>4. LoadOK(loads[1], dir) /\ dir \in Directories /\ read \in ReadSoFar /\ key \in Keys
  BY <1>3, DirTyped DEF ExplorerInv, LoadOK
<1>5. dir[key.run][f] \in Nat
  <2>1. f \in Range(Files)
    BY FilesKnown
  <2> QED
    BY <1>4, <2>1 DEF Directories, Contents, Keys
<1>6. more \in ReadSoFar
  <2>1. PICK D \in SUBSET Range(Required) : read \in [D -> Nat]
    BY <1>4 DEF ReadSoFar
  <2>2. more \in [D \cup {f} -> Nat]
    BY <1>5, <2>1
  <2> HIDE DEF more
  <2> QED
    BY <2>2 DEF ReadSoFar
<1>7. /\ load \in [key : Keys, read : ReadSoFar] /\ load.key = key /\ load.read = more
  <2>1. loads[1] \in [key : Keys, read : ReadSoFar]
    BY <1>4 DEF LoadOK
  <2> HIDE DEF more
  <2> QED
    BY <1>6, <2>1
<1>8. LoadOK(load, dir)
  <2>1. SignatureOK(key, dir)
    BY <1>4 DEF LoadOK
  <2>2. ASSUME NEW i \in DOMAIN Required, Required[i] \in DOMAIN more
        PROVE  key.signature[i] <= more[Required[i]]
    <3>1. CASE Required[i] = f
      <4>1. Files[i] = f /\ i \in 1..3
        BY <3>1, FilesKnown
      <4>2. more[f] = dir[key.run][f]
        OBVIOUS
      <4> QED
        BY <2>1, <3>1, <4>1, <4>2 DEF SignatureOK
    <3>2. CASE Required[i] # f
      <4>1. Required[i] \in DOMAIN read /\ more[Required[i]] = read[Required[i]]
        BY <2>2, <3>2
      <4> QED
        BY <1>4, <4>1 DEF LoadOK
    <3> QED
      BY <3>1, <3>2
  <2> HIDE DEF more, load
  <2> QED
    BY <1>7, <2>1, <2>2 DEF LoadOK
<1>9. loads' = [loads EXCEPT ![1] = load]
  <2> HIDE DEF more
  <2>1. loads' = [loads EXCEPT ![1].read = more]
    BY <1>1 DEF more
  <2> QED
    BY <2>1
<1> HIDE DEF load, more
<1>10. /\ loads' \in Seq([key : Keys, read : ReadSoFar]) /\ Len(loads') = Len(loads)
       /\ DOMAIN loads' = DOMAIN loads
       /\ loads'[1] = load /\ \A i \in DOMAIN loads : i # 1 => loads'[i] = loads[i]
  <2> HIDE DEF LoadOK
  <2> QED
    BY <1>3, <1>7, <1>9
<1>11. \A i \in DOMAIN loads : LoadOK(loads'[i], dir) /\ loads'[i].key = loads[i].key
  BY <1>3, <1>7, <1>8, <1>10
<1>12. LoadsOK'
  BY <1>2, <1>3, <1>10, <1>11 DEF LoadsOK
<1>13. LoadsAwaited(request', loads') /\ ReplaysAwaited(request', pending')
  <2>1. LoadsAwaited(request, loads) /\ ReplaysAwaited(request, pending)
    BY PartsOfProperties DEF ExplorerInv
  <2> QED
    BY <1>2, <1>10, <1>11, <2>1 DEF LoadsAwaited
<1>14. StoreOK' /\ ReplaysOK' /\ RequestsOK'
  BY <1>2 DEF ExplorerInv, StoreOK, ReplaysOK, RequestsOK
<1>15. Bounded(cache', cacheBytes', pending')
  BY <1>2, PartsOfProperties DEF ExplorerInv
<1> QED
  BY <1>12, <1>13, <1>14, <1>15, PartsOfProperties DEF ExplorerInv

(* Write: files only grow newer.                                           *)
LEMMA WriteOK ==
  ASSUME ExplorerInv, NEW r \in Runs, NEW f \in Range(Files), Write(r, f), UNCHANGED replayVars
  PROVE  ExplorerInv'
<1>1. /\ dir' = [dir EXCEPT ![r][f] = @ + 1]
      /\ cachedRun' = cachedRun /\ loads' = loads /\ summary' = summary /\ request' = request
      /\ cache' = cache /\ cacheBytes' = cacheBytes /\ pending' = pending
  BY DEF Write, replayVars
<1>2. dir \in Directories
  BY DirTyped DEF ExplorerInv
<1> DEFINE after == [dir[r] EXCEPT ![f] = @ + 1]
<1>3. dir[r] \in Contents /\ after \in Contents /\ \A g \in Range(Files) : dir[r][g] <= after[g]
  BY <1>2 DEF Directories, Contents
<1>4. dir' = [dir EXCEPT ![r] = after]
  BY <1>1
<1> HIDE DEF after
<1>5. dir' \in Directories
  BY <1>2, <1>3, <1>4 DEF Directories
<1>6. Grows(dir, dir')
  <2>1. ASSUME NEW s \in Runs, NEW g \in Range(Files) PROVE dir[s][g] <= dir'[s][g]
    <3>1. CASE s = r
      BY <1>2, <1>3, <1>4, <3>1 DEF Directories
    <3>2. CASE s # r
      <4>1. dir[s][g] \in Nat
        BY <1>2 DEF Directories, Contents
      <4> QED
        BY <1>2, <1>4, <3>2, <4>1 DEF Directories
    <3> QED
      BY <3>1, <3>2
  <2> QED
    BY <2>1 DEF Grows
<1>7. RequestsOK'
  <2>1. \A q \in Requests : RequestOK(request[q], dir')
    <3> TAKE q \in Requests
    <3>1. RequestOK(request[q], dir)
      BY DEF ExplorerInv, RequestsOK
    <3> QED
      BY <1>2, <1>5, <1>6, <3>1, RequestOKGrows
  <2>2. request = [q \in Requests |-> request[q]]
    BY DEF ExplorerInv, RequestsOK
  <2> QED
    BY <1>1, <2>1, <2>2 DEF RequestsOK
<1>8. LoadsOK'
  <2>1. \A i \in 1..Len(loads) : LoadOK(loads[i], dir')
    <3> TAKE i \in 1..Len(loads)
    <3>1. LoadOK(loads[i], dir)
      BY DEF ExplorerInv, LoadsOK
    <3> QED
      BY <1>2, <1>5, <1>6, <3>1, LoadOKGrows
  <2> QED
    BY <1>1, <2>1 DEF ExplorerInv, LoadsOK
<1>9. StoreOK'
  BY <1>1, <1>5 DEF ExplorerInv, StoreOK, Directories
<1>10. ReplaysOK'
  BY <1>1 DEF ExplorerInv, ReplaysOK
<1>11. /\ Bounded(cache', cacheBytes', pending')
       /\ LoadsAwaited(request', loads') /\ ReplaysAwaited(request', pending')
  BY <1>1, PartsOfProperties DEF ExplorerInv
<1> QED
  BY <1>7, <1>8, <1>9, <1>10, <1>11, PartsOfProperties DEF ExplorerInv

------------------------------------------------------------------------------
(* The replays.                                                            *)

(* A request that looks for its replay.                                    *)
LEMMA LooksKnown ==
  ASSUME ExplorerInv, NEW q \in Requests, Looks(q)
  PROVE  /\ request[q].pc = "served" /\ Wanted(q) \in ReplayKeys
         /\ cache \in Seq(Entries) /\ UniqueKeys(cache)
         /\ Bounded(cache, cacheBytes, pending)
         /\ KeptAs(Wanted(q)) = {} <=> Lacks(cache, Wanted(q))
<1>1. ServedOK(request[q], dir) /\ request[q].pc = "served"
  BY RequestKnown DEF Looks, At
<1>2. Wanted(q) \in ReplayKeys
  <2>1. request[q].got \in ArtifactsOfRuns
    BY <1>1 DEF ServedOK, Answered
  <2>2. "results" \in Range(Required)
    BY FilesKnown
  <2> QED
    BY <2>1, <2>2 DEF Wanted, Identity, ReplayKeys, ArtifactsOfRuns
<1>3. Bounded(cache, cacheBytes, pending)
  BY PartsOfProperties DEF ExplorerInv
<1> QED
  BY <1>1, <1>2, <1>3 DEF Bounded, ExplorerInv, ReplaysOK, Entries, KeptAs, Lacks

(* ReplayHit: the replay moves to the end.                                 *)
LEMMA ReplayHitOK == ASSUME ExplorerInv, NEW q \in Requests, ReplayHit(q) PROVE ExplorerInv'
<1> DEFINE key == Wanted(q)
           entry == [key |-> key, fresh |-> TRUE]
<1>1. /\ Looks(q) /\ Fresh(key) /\ cache' = Append(Without(cache, key), entry)
      /\ Set(q, Idle) /\ UNCHANGED storeVars /\ cacheBytes' = cacheBytes /\ pending' = pending
  BY DEF ReplayHit
<1>2. /\ request[q].pc = "served" /\ key \in ReplayKeys /\ cache \in Seq(Entries)
      /\ UniqueKeys(cache) /\ Bounded(cache, cacheBytes, pending) /\ ~Lacks(cache, key)
  BY <1>1, LooksKnown DEF Fresh
<1> DEFINE rest == Without(cache, key)
<1>3. /\ rest \in Seq(Entries) /\ UniqueKeys(rest) /\ Lacks(rest, key)
      /\ Len(rest) = Len(cache) - 1 /\ TotalOf(rest) = TotalOf(cache) - Size(key)
      /\ \A k \in DOMAIN rest : \E j \in DOMAIN cache : rest[k] = cache[j]
  <2> HIDE DEF key
  <2> QED
    BY <1>2, WithoutKey
<1>4. entry \in Entries /\ entry.key = key
  BY <1>2 DEF Entries
<1> HIDE DEF rest, entry
<1>5. /\ cache' \in Seq(Entries) /\ UniqueKeys(cache') /\ Len(cache') = Len(rest) + 1
      /\ \A other : Lacks(rest, other) /\ other # key => Lacks(cache', other)
      /\ TotalOf(cache') = TotalOf(rest) + Size(key)
  <2>1. cache' = Append(rest, entry)
    BY <1>1 DEF rest, entry
  <2> HIDE DEF key
  <2> QED
    BY <1>3, <1>4, <2>1, AppendedKey
<1>6. Size(key) \in Nat /\ TotalOf(cache) \in Int /\ Len(cache) \in Nat
  BY <1>2, EntriesHaveSizes, TotalIsNumber
<1>7. \A other \in pending : Lacks(cache', other)
  <2> TAKE other \in pending
  <2>1. Lacks(cache, other)
    BY <1>2 DEF Bounded
  <2>2. Lacks(rest, other) /\ other # key
    BY <1>2, <1>3, <2>1 DEF Lacks
  <2> QED
    BY <1>5, <2>2
<1>8. TotalOf(cache') = TotalOf(cache) /\ Len(cache') = Len(cache)
  BY <1>3, <1>5, <1>6
<1>9. Bounded(cache', cacheBytes', pending')
  BY <1>1, <1>2, <1>5, <1>7, <1>8 DEF Bounded
<1>10. /\ dir' = dir /\ cachedRun' = cachedRun /\ loads' = loads /\ summary' = summary
  BY <1>1 DEF storeVars
<1>11. RequestsOK' /\ LoadsAwaited(request', loads') /\ ReplaysAwaited(request', pending')
  BY <1>1, <1>2, <1>10, IdleOK, OneMoves
<1>12. StoreOK' /\ LoadsOK' /\ ReplaysOK'
  BY <1>1, <1>5, <1>10 DEF ExplorerInv, StoreOK, LoadsOK, ReplaysOK, Entries
<1> QED
  BY <1>9, <1>11, <1>12, PartsOfProperties DEF ExplorerInv

(* A miss takes an expired replay out, so that none is kept under the key  *)
(* that is wanted.                                                         *)
LEMMA MissOK ==
  ASSUME ExplorerInv, NEW q \in Requests, Misses(q)
  PROVE  /\ request[q].pc = "served" /\ Wanted(q) \in ReplayKeys
         /\ dir' = dir /\ StoreOK' /\ loads' = loads
         /\ cache' \in Seq(Entries) /\ cacheBytes' \in Nat
         /\ Bounded(cache', cacheBytes', pending) /\ Lacks(cache', Wanted(q))
<1> DEFINE key == Wanted(q)
           rest == Without(cache, key)
<1>1. Looks(q) /\ RemoveExpired(q) /\ UNCHANGED storeVars
  BY DEF Misses
<1>2. /\ request[q].pc = "served" /\ key \in ReplayKeys /\ cache \in Seq(Entries)
      /\ UniqueKeys(cache) /\ Bounded(cache, cacheBytes, pending)
      /\ KeptAs(key) = {} <=> Lacks(cache, key)
  BY <1>1, LooksKnown
<1>3. /\ cache' = rest
      /\ cacheBytes' = IF Lacks(cache, key) THEN cacheBytes ELSE cacheBytes - Size(key)
  BY <1>1, <1>2 DEF RemoveExpired
<1>4. /\ rest \in Seq(Entries) /\ UniqueKeys(rest) /\ Lacks(rest, key)
      /\ Len(rest) = IF Lacks(cache, key) THEN Len(cache) ELSE Len(cache) - 1
      /\ TotalOf(rest) = IF Lacks(cache, key) THEN TotalOf(cache) ELSE TotalOf(cache) - Size(key)
      /\ \A k \in DOMAIN rest : \E j \in DOMAIN cache : rest[k] = cache[j]
  <2> HIDE DEF key
  <2> QED
    BY <1>2, WithoutKey
<1>5. /\ Size(key) \in Nat /\ TotalOf(cache) \in Int /\ Len(cache) \in Nat /\ cacheBytes \in Nat
      /\ MaxBytes \in Nat /\ MaxEntries \in Nat /\ TotalOf(rest) \in Nat
  BY <1>2, <1>4, EntriesHaveSizes, TotalIsNumber, ReplayAssumption DEF ExplorerInv, ReplaysOK
<1>6. \A other \in pending : Lacks(rest, other)
  BY <1>2, <1>4 DEF Bounded, Lacks
<1> HIDE DEF rest
<1>7. cacheBytes' = TotalOf(rest) /\ TotalOf(rest) <= MaxBytes /\ Len(rest) <= MaxEntries
  <2>1. cacheBytes = TotalOf(cache) /\ cacheBytes <= MaxBytes /\ Len(cache) <= MaxEntries
    BY <1>2 DEF Bounded
  <2> QED
    BY <1>3, <1>4, <1>5, <2>1
<1>8. Bounded(rest, cacheBytes', pending)
  BY <1>2, <1>4, <1>6, <1>7 DEF Bounded
<1>9. cacheBytes' \in Nat
  BY <1>5, <1>7
<1>10. /\ dir' = dir /\ cachedRun' = cachedRun /\ loads' = loads /\ summary' = summary
  BY <1>1 DEF storeVars
<1>11. StoreOK'
  BY <1>10 DEF ExplorerInv, StoreOK
<1> QED
  BY <1>2, <1>3, <1>4, <1>8, <1>9, <1>10, <1>11

(* ReplayBusy: the request is turned away.                                 *)
LEMMA ReplayBusyOK == ASSUME ExplorerInv, NEW q \in Requests, ReplayBusy(q) PROVE ExplorerInv'
<1>1. Misses(q) /\ Set(q, Idle) /\ pending' = pending /\ UNCHANGED storeVars
  BY DEF ReplayBusy, Misses
<1>2. /\ request[q].pc = "served" /\ dir' = dir /\ StoreOK' /\ loads' = loads
      /\ cache' \in Seq(Entries) /\ cacheBytes' \in Nat /\ Bounded(cache', cacheBytes', pending)
  BY <1>1, MissOK
<1>3. RequestsOK' /\ LoadsAwaited(request', loads') /\ ReplaysAwaited(request', pending')
  BY <1>1, <1>2, IdleOK, OneMoves
<1>4. LoadsOK' /\ ReplaysOK'
  BY <1>1, <1>2 DEF ExplorerInv, LoadsOK, ReplaysOK, Entries
<1> QED
  BY <1>1, <1>2, <1>3, <1>4, PartsOfProperties DEF ExplorerInv

(* The request begins to wait for a replay that is, or begins to be,       *)
(* simulated.                                                              *)
LEMMA AwaitReplayOK ==
  ASSUME ExplorerInv, NEW q \in Requests, Misses(q),
         Set(q, [pc |-> "replay", key |-> Wanted(q)]),
         pending' = pending \cup {Wanted(q)}, Cardinality(pending') <= Concurrency
  PROVE  ExplorerInv'
<1> DEFINE key == Wanted(q)
           next == [pc |-> "replay", key |-> key]
<1>1. /\ request[q].pc = "served" /\ key \in ReplayKeys /\ dir' = dir /\ StoreOK' /\ loads' = loads
      /\ cache' \in Seq(Entries) /\ cacheBytes' \in Nat
      /\ Bounded(cache', cacheBytes', pending) /\ Lacks(cache', key)
  BY MissOK
<1>2. next \in Replaying /\ next.pc = "replay" /\ next.key = key
  BY <1>1 DEF Replaying
<1>3. /\ request = [p \in Requests |-> request[p]]
      /\ \A p \in Requests : RequestOK(request[p], dir)
      /\ LoadsAwaited(request, loads) /\ ReplaysAwaited(request, pending)
  BY PartsOfProperties DEF ExplorerInv, RequestsOK
<1> HIDE DEF next, key
<1>4. /\ request' = [p \in Requests |-> request'[p]]
      /\ request'[q] = next /\ \A p \in Requests : p # q => request'[p] = request[p]
  BY <1>3 DEF Set, next, key
<1>5. RequestsOK'
  <2>1. RequestOK(next, dir)
    BY <1>2 DEF RequestOK
  <2> QED
    BY <1>1, <1>3, <1>4, <2>1 DEF RequestsOK
<1>6. LoadsAwaited(request', loads')
  <2>1. \A p \in Requests : \A k : WaitsFor(request[p], k) => WaitsFor(request'[p], k)
    BY <1>1, <1>4 DEF WaitsFor
  <2>2. \A p \in Requests : request'[p].pc = "wait" => request'[p] = request[p]
    BY <1>2, <1>4
  <2> QED
    BY <1>1, <1>3, <2>1, <2>2 DEF LoadsAwaited
<1>7. pending' = pending \cup {key}
  BY DEF key
<1>8. ReplaysAwaited(request', pending')
  <2>1. \A p \in Requests : \A k : Awaits(request[p], k) => Awaits(request'[p], k)
    BY <1>1, <1>4 DEF Awaits
  <2>2. Awaits(request'[q], key)
    BY <1>2, <1>4 DEF Awaits
  <2>3. \A p \in Requests : request'[p].pc = "replay" => request'[p].key \in pending'
    BY <1>2, <1>3, <1>4, <1>7 DEF ReplaysAwaited
  <2>4. ASSUME NEW other \in pending' PROVE \E p \in Requests : Awaits(request'[p], other)
    <3>1. CASE other = key
      BY <2>2, <3>1
    <3>2. CASE other # key
      <4>1. PICK p \in Requests : Awaits(request[p], other)
        BY <1>3, <1>7, <3>2 DEF ReplaysAwaited
      <4> QED
        BY <2>1, <4>1
    <3> QED
      BY <3>1, <3>2
  <2> QED
    BY <2>3, <2>4 DEF ReplaysAwaited
<1>9. LoadsOK'
  BY <1>1 DEF ExplorerInv, LoadsOK
<1>10. ReplaysOK'
  <2>1. pending \in SUBSET ReplayKeys /\ IsFiniteSet(pending)
    BY DEF ExplorerInv, ReplaysOK
  <2>2. pending' \in SUBSET ReplayKeys
    BY <1>1, <1>7, <2>1
  <2>3. IsFiniteSet(pending')
    BY <1>7, <2>1, FS_AddElement
  <2> QED
    BY <1>1, <2>2, <2>3 DEF ReplaysOK, Entries
<1>11. Bounded(cache', cacheBytes', pending')
  BY <1>1, <1>7 DEF Bounded
<1> QED
  BY <1>1, <1>5, <1>6, <1>8, <1>9, <1>10, <1>11, PartsOfProperties DEF ExplorerInv

(* ReplayShared: the simulation is under way.                              *)
LEMMA ReplaySharedOK == ASSUME ExplorerInv, NEW q \in Requests, ReplayShared(q) PROVE ExplorerInv'
<1>1. /\ Misses(q) /\ Wanted(q) \in pending /\ pending' = pending
      /\ Set(q, [pc |-> "replay", key |-> Wanted(q)])
  BY DEF ReplayShared
<1>2. pending' = pending \cup {Wanted(q)}
  BY <1>1
<1>3. Cardinality(pending') <= Concurrency
  BY <1>1, PartsOfProperties DEF ExplorerInv, Bounded
<1> QED
  BY <1>1, <1>2, <1>3, AwaitReplayOK

(* ReplayStarts: one more simulation, within Concurrency.                  *)
LEMMA ReplayStartsOK == ASSUME ExplorerInv, NEW q \in Requests, ReplayStarts(q) PROVE ExplorerInv'
<1>1. /\ Misses(q) /\ Wanted(q) \notin pending /\ Cardinality(pending) < Concurrency
      /\ pending' = pending \cup {Wanted(q)}
      /\ Set(q, [pc |-> "replay", key |-> Wanted(q)])
  BY DEF ReplayStarts
<1>2. IsFiniteSet(pending) /\ Concurrency \in Nat
  BY ReplayAssumption DEF ExplorerInv, ReplaysOK
<1>3. Cardinality(pending') = Cardinality(pending) + 1 /\ Cardinality(pending) \in Nat
  BY <1>1, <1>2, FS_AddElement, FS_CardinalityType
<1>4. Cardinality(pending') <= Concurrency
  BY <1>1, <1>2, <1>3
<1> QED
  BY <1>1, <1>4, AwaitReplayOK

(* NoReplay: there is nothing to simulate.                                 *)
LEMMA NoReplayOK == ASSUME ExplorerInv, NEW q \in Requests, NoReplay(q) PROVE ExplorerInv'
<1>1. /\ request[q].pc = "served" /\ Set(q, Idle) /\ UNCHANGED storeVars /\ UNCHANGED replayVars
  BY DEF NoReplay, Looks, At
<1> QED
  BY <1>1, IdleOK, OneMovesAlone

(* A replay is simulated, or has failed: those who wait for it go.         *)
LEMMA AnswerOK ==
  ASSUME ExplorerInv, NEW key \in pending, Answer(key),
         cache' \in Seq(Entries), cacheBytes' \in Nat, UniqueKeys(cache'),
         cacheBytes' = TotalOf(cache'), cacheBytes' <= MaxBytes, Len(cache') <= MaxEntries,
         \A other \in pending \ {key} : Lacks(cache', other)
  PROVE  ExplorerInv'
<1>1. /\ pending' = pending \ {key}
      /\ request' = [q \in Requests |-> IF AwaitsReplay(q, key) THEN Idle ELSE request[q]]
      /\ dir' = dir /\ cachedRun' = cachedRun /\ loads' = loads /\ summary' = summary
  BY DEF Answer, storeVars
<1>2. \A q \in Requests : AwaitsReplay(q, key) <=> Awaits(request[q], key)
  BY DEF AwaitsReplay, Awaits, At
<1>3. /\ request' = [q \in Requests |-> request'[q]]
      /\ \A q \in Requests : request'[q] = IF Awaits(request[q], key) THEN Idle ELSE request[q]
  BY <1>1, <1>2
<1>4. /\ \A q \in Requests : RequestOK(request[q], dir)
      /\ LoadsAwaited(request, loads) /\ ReplaysAwaited(request, pending)
  BY PartsOfProperties DEF ExplorerInv, RequestsOK
<1>5. RequestsOK'
  BY <1>1, <1>3, <1>4, IdleOK DEF RequestsOK
<1>6. LoadsAwaited(request', loads')
  <2>1. \A q \in Requests : \A k : WaitsFor(request[q], k) => WaitsFor(request'[q], k)
    BY <1>3 DEF WaitsFor, Awaits
  <2>2. \A q \in Requests : request'[q].pc = "wait" => request'[q] = request[q]
    BY <1>3, IdleOK
  <2> QED
    BY <1>1, <1>4, <2>1, <2>2 DEF LoadsAwaited
<1>7. ReplaysAwaited(request', pending')
  <2>1. ASSUME NEW q \in Requests, request'[q].pc = "replay" PROVE request'[q].key \in pending'
    <3>1. ~Awaits(request[q], key) /\ request'[q] = request[q]
      BY <1>3, <2>1, IdleOK
    <3> QED
      BY <1>1, <1>4, <2>1, <3>1 DEF ReplaysAwaited, Awaits
  <2>2. ASSUME NEW other \in pending' PROVE \E q \in Requests : Awaits(request'[q], other)
    <3>1. PICK q \in Requests : Awaits(request[q], other)
      BY <1>1, <1>4 DEF ReplaysAwaited
    <3>2. request'[q] = request[q]
      BY <1>1, <1>3, <3>1 DEF Awaits
    <3> QED
      BY <3>1, <3>2
  <2> QED
    BY <2>1, <2>2 DEF ReplaysAwaited
<1>8. StoreOK' /\ LoadsOK'
  BY <1>1 DEF ExplorerInv, StoreOK, LoadsOK
<1>9. /\ pending \in SUBSET ReplayKeys /\ IsFiniteSet(pending)
      /\ Cardinality(pending) <= Concurrency
  BY PartsOfProperties DEF ExplorerInv, ReplaysOK, Bounded
<1>10. ReplaysOK'
  <2>1. pending' \in SUBSET ReplayKeys /\ IsFiniteSet(pending')
    BY <1>1, <1>9, FS_Subset
  <2> QED
    BY <2>1 DEF ReplaysOK, Entries
<1>11. Bounded(cache', cacheBytes', pending')
  <2>1. /\ Cardinality(pending') \in Nat /\ Cardinality(pending) \in Nat
        /\ Cardinality(pending') <= Cardinality(pending)
    BY <1>1, <1>9, FS_Subset, FS_CardinalityType
  <2>2. Cardinality(pending') <= Concurrency
    BY <1>9, <2>1, ReplayAssumption
  <2> QED
    BY <1>1, <2>2 DEF Bounded
<1> QED
  BY <1>5, <1>6, <1>7, <1>8, <1>10, <1>11, PartsOfProperties DEF ExplorerInv

(* What is known of the cache.                                             *)
LEMMA CacheKnown ==
  ASSUME ExplorerInv
  PROVE  /\ cache \in Seq(Entries) /\ cacheBytes \in Nat /\ Bounded(cache, cacheBytes, pending)
         /\ pending \subseteq ReplayKeys
  BY PartsOfProperties DEF ExplorerInv, ReplaysOK, Entries

(* ReplayFails: nothing is kept.                                           *)
LEMMA ReplayFailsOK == ASSUME ExplorerInv, NEW key \in pending, ReplayFails(key) PROVE ExplorerInv'
<1>1. Answer(key) /\ cache' = cache /\ cacheBytes' = cacheBytes
  BY DEF ReplayFails
<1> QED
  BY <1>1, CacheKnown, AnswerOK DEF Bounded

(* ReplayVerified: room is made, and the replay kept.                      *)
LEMMA ReplayVerifiedOK ==
  ASSUME ExplorerInv, NEW key \in pending, ReplayVerified(key) PROVE ExplorerInv'
<1>1. CASE MaxEntries > 0 /\ Size(key) <= MaxBytes
  <2> DEFINE n == Evicted(key)
             left == SubSeq(cache, n + 1, Len(cache))
             bytes == cacheBytes - TotalOf(SubSeq(cache, 1, n)) + Size(key)
             entry == [key |-> key, fresh |-> TRUE]
  <2>1. /\ Answer(key) /\ cache' = Append(Without(left, key), entry) /\ cacheBytes' = bytes
    BY <1>1 DEF ReplayVerified
  <2>2. /\ cache \in Seq(Entries) /\ Bounded(cache, cacheBytes, pending) /\ key \in ReplayKeys
    BY CacheKnown
  <2>3. /\ left \in Seq(Entries) /\ UniqueKeys(left) /\ Len(left) < MaxEntries
        /\ \A other : Lacks(cache, other) => Lacks(left, other)
        /\ bytes = TotalOf(left) + Size(key) /\ bytes <= MaxBytes
    BY <1>1, <2>2, RoomIsMade DEF Bounded
  <2> HIDE DEF n, left, bytes
  <2>4. Lacks(left, key)
    BY <2>2, <2>3 DEF Bounded
  <2>5. Without(left, key) = left
    BY <2>4 DEF Without, Lacks
  <2>6. entry \in Entries /\ entry.key = key
    BY <2>2 DEF Entries
  <2> HIDE DEF entry
  <2>7. /\ cache' \in Seq(Entries) /\ UniqueKeys(cache') /\ Len(cache') = Len(left) + 1
        /\ \A other : Lacks(left, other) /\ other # key => Lacks(cache', other)
        /\ TotalOf(cache') = TotalOf(left) + Size(key)
    BY <2>1, <2>3, <2>4, <2>5, <2>6, AppendedKey
  <2>8. /\ TotalOf(left) \in Nat /\ Size(key) \in Nat /\ Len(left) \in Nat
        /\ MaxEntries \in Nat /\ MaxBytes \in Nat
    BY <2>2, <2>3, EntriesHaveSizes, TotalIsNumber, ReplayAssumption
  <2>9. Len(cache') <= MaxEntries /\ cacheBytes' \in Nat /\ cacheBytes' <= MaxBytes
        /\ cacheBytes' = TotalOf(cache')
    BY <2>1, <2>3, <2>7, <2>8
  <2>10. \A other \in pending \ {key} : Lacks(cache', other)
    BY <2>2, <2>3, <2>7 DEF Bounded
  <2> QED
    BY <2>1, <2>7, <2>9, <2>10, AnswerOK
<1>2. CASE ~(MaxEntries > 0 /\ Size(key) <= MaxBytes)
  <2>1. Answer(key) /\ cache' = cache /\ cacheBytes' = cacheBytes
    BY <1>2 DEF ReplayVerified
  <2> QED
    BY <2>1, CacheKnown, AnswerOK DEF Bounded
<1> QED
  BY <1>1, <1>2

(* Expire: an entry is stale, but counted.                                 *)
LEMMA ExpireOK == ASSUME ExplorerInv, Expire PROVE ExplorerInv'
<1>1. PICK i \in DOMAIN cache : cache' = [cache EXCEPT ![i].fresh = FALSE]
  BY DEF Expire
<1>2. /\ dir' = dir /\ cachedRun' = cachedRun /\ loads' = loads /\ summary' = summary
      /\ request' = request /\ cacheBytes' = cacheBytes /\ pending' = pending
  BY DEF Expire, storeVars
<1>3. cache \in Seq(Entries) /\ Bounded(cache, cacheBytes, pending)
  BY CacheKnown
<1> DEFINE stale == [cache[i] EXCEPT !.fresh = FALSE]
<1>4. stale \in Entries /\ stale.key = cache[i].key
  <2>1. cache[i] \in Entries
    BY <1>3
  <2> QED
    BY <2>1 DEF Entries
<1>5. cache' = [cache EXCEPT ![i] = stale]
  BY <1>1
<1> HIDE DEF stale
<1>6. /\ cache' \in Seq(Entries) /\ Len(cache') = Len(cache) /\ DOMAIN cache' = DOMAIN cache
      /\ cache'[i] = stale /\ \A j \in DOMAIN cache : j # i => cache'[j] = cache[j]
  BY <1>3, <1>4, <1>5
<1>7. \A j \in DOMAIN cache : cache'[j].key = cache[j].key
  BY <1>4, <1>6
<1>8. TotalOf(cache') = TotalOf(cache)
  <2>1. \A j \in 1..Len(cache) : cache'[j].key = cache[j].key
    BY <1>3, <1>7
  <2> QED
    BY <1>3, <1>6, <2>1, EntriesHaveSizes, TotalOfSameKeys
<1>9. Bounded(cache', cacheBytes', pending')
  BY <1>2, <1>3, <1>6, <1>7, <1>8 DEF Bounded, UniqueKeys, Lacks
<1>10. StoreOK' /\ LoadsOK' /\ RequestsOK'
  BY <1>2 DEF ExplorerInv, StoreOK, LoadsOK, RequestsOK
<1>11. ReplaysOK'
  BY <1>2, <1>6 DEF ExplorerInv, ReplaysOK, Entries
<1>12. LoadsAwaited(request', loads') /\ ReplaysAwaited(request', pending')
  BY <1>2, PartsOfProperties DEF ExplorerInv
<1> QED
  BY <1>9, <1>10, <1>11, <1>12, PartsOfProperties DEF ExplorerInv

------------------------------------------------------------------------------
(* The theorems.                                                           *)

(* The invariant holds initially.                                          *)
LEMMA ExplorerStarts == Init => ExplorerInv
<1> SUFFICES ASSUME Init PROVE ExplorerInv
  OBVIOUS
<1>1. /\ InitStore /\ cache = << >> /\ cacheBytes = 0 /\ pending = {}
  BY DEF Init
<1>2. StoreOK
  BY <1>1 DEF InitStore, StoreOK, Contents
<1>3. LoadsOK
  <2>1. loads = << >>
    BY <1>1 DEF InitStore
  <2> QED
    BY <2>1 DEF LoadsOK
<1>4. RequestsOK
  BY <1>1, IdleOK DEF InitStore, RequestsOK
<1>5. ReplaysOK
  BY <1>1, FS_EmptySet DEF ReplaysOK
<1>6. Bounded(cache, cacheBytes, pending)
  <2>1. Cardinality({}) = 0 /\ TotalOf(<< >>) = 0
    BY FS_EmptySet, EntriesHaveSizes, TotalOfNone
  <2>2. cache = << >> /\ Len(cache) = 0 /\ DOMAIN cache = {}
    BY <1>1
  <2>3. cacheBytes = TotalOf(cache) /\ cacheBytes <= MaxBytes /\ Len(cache) <= MaxEntries
    BY <1>1, <2>1, <2>2, ReplayAssumption
  <2>4. UniqueKeys(cache)
    BY <2>2 DEF UniqueKeys
  <2>5. Cardinality(pending) <= Concurrency
    BY <1>1, <2>1, ReplayAssumption
  <2> QED
    BY <1>1, <2>3, <2>4, <2>5 DEF Bounded
<1>7. LoadsAwaited(request, loads) /\ ReplaysAwaited(request, pending)
  <2>1. loads = << >> /\ \A q \in Requests : request[q].pc = "idle"
    BY <1>1, IdleOK DEF InitStore
  <2>2. DOMAIN loads = {}
    BY <2>1
  <2> QED
    BY <1>1, <2>1, <2>2 DEF LoadsAwaited, ReplaysAwaited
<1> QED
  BY <1>2, <1>3, <1>4, <1>5, <1>6, <1>7, PartsOfProperties DEF ExplorerInv

(* Every step keeps it.                                                    *)
LEMMA ExplorerSteps == ExplorerInv /\ [Next]_vars => ExplorerInv'
<1> SUFFICES ASSUME ExplorerInv, [Next]_vars PROVE ExplorerInv'
  OBVIOUS
<1>1. ASSUME NEW q \in Requests, Ask(q), UNCHANGED replayVars PROVE ExplorerInv'
  BY <1>1, AskOK
<1>2. ASSUME NEW q \in Requests, StoreStep(q), UNCHANGED replayVars PROVE ExplorerInv'
  BY <1>2, StatIsOK, FromSummaryOK, LookForRunOK, FromCacheOK, ShareLoadOK, NewLoadOK, GoOnOK
     DEF StoreStep
<1>3. ASSUME NEW q \in Requests, ReplayStep(q) PROVE ExplorerInv'
  BY <1>3, NoReplayOK, ReplayHitOK, ReplaySharedOK, ReplayBusyOK, ReplayStartsOK DEF ReplayStep
<1>4. ASSUME LoadStep, UNCHANGED replayVars PROVE ExplorerInv'
  BY <1>4, LoadFileOK, LoadSucceedsOK, LoadRefusedOK DEF LoadStep
<1>5. ASSUME StoreFault, UNCHANGED replayVars PROVE ExplorerInv'
  BY <1>5, LoadFailsOK, StatFailsOK DEF StoreFault
<1>6. ASSUME Simulated PROVE ExplorerInv'
  BY <1>6, ReplayVerifiedOK, ReplayFailsOK DEF Simulated
<1>7. ASSUME Expire PROVE ExplorerInv'
  BY <1>7, ExpireOK
<1>8. ASSUME NEW r \in Runs, NEW f \in Range(Files), Write(r, f), UNCHANGED replayVars PROVE ExplorerInv'
  BY <1>8, WriteOK
<1>9. ASSUME UNCHANGED vars PROVE ExplorerInv'
  <2>1. /\ dir' = dir /\ cachedRun' = cachedRun /\ loads' = loads /\ summary' = summary
        /\ request' = request /\ cache' = cache /\ cacheBytes' = cacheBytes /\ pending' = pending
    BY <1>9 DEF vars, storeVars, replayVars
  <2>2. StoreOK' /\ LoadsOK' /\ RequestsOK' /\ ReplaysOK'
    BY <2>1 DEF ExplorerInv, StoreOK, LoadsOK, RequestsOK, ReplaysOK
  <2> QED
    BY <2>1, <2>2, PartsOfProperties DEF ExplorerInv
<1> QED
  BY <1>1, <1>2, <1>3, <1>4, <1>5, <1>6, <1>7, <1>8, <1>9 DEF Next

(* For any number of runs, requests, files written and replays: the        *)
(* invariant.                                                              *)
THEOREM ExplorerInvariant == Spec => []ExplorerInv
  BY ExplorerStarts, ExplorerSteps, PTL DEF Spec

(* Every answer is whole and no older than its request, whichever cache or *)
(* shared load of runs.js it comes from.                                   *)
THEOREM AnswersStayCurrent == Spec => []AnswersAreCurrent
<1>1. ExplorerInv => AnswersAreCurrent
  <2> SUFFICES ASSUME ExplorerInv, NEW q \in Requests, At(q, "served")
               PROVE  LET got == request[q].got
                          since == request[q].since[got.run]
                      IN  /\ got.run = Run(q) /\ Loadable(got.files)
                          /\ \A f \in Range(Required) : got.files[f] >= since[f]
                          /\ since[Report] > 0 => got.hasReport
    BY DEF AnswersAreCurrent
  <2>1. ServedOK(request[q], dir)
    BY RequestKnown
  <2>2. /\ GotCurrent(request[q]) /\ AskedBefore(request[q], dir)
        /\ request[q].got \in ArtifactsOfRuns
    BY <2>1 DEF ServedOK, GotCurrent
  <2>3. request[q].since[Head(request[q].todo)] \in Contents
    BY <2>2, RunsOfTodo DEF AskedBefore
  <2>4. \A f \in Range(Required) : /\ request[q].since[Head(request[q].todo)][f] \in Nat
                                   /\ request[q].got.files[f] \in Nat
    BY <2>2, <2>3, FilesKnown DEF Contents, ArtifactsOfRuns
  <2> QED
    BY <2>2, <2>4 DEF GotCurrent, Run
<1> QED
  BY <1>1, ExplorerInvariant, PTL

(* The replay cache of replays.js counts what it keeps, under its limits,  *)
(* and no replay that is being simulated is kept.                          *)
THEOREM ReplaysStayWithinBounds == Spec => []ReplaysWithinBounds
<1>1. ExplorerInv => ReplaysWithinBounds
  BY DEF ExplorerInv
<1> QED
  BY <1>1, ExplorerInvariant, PTL

(* Every request that waits has its load or its simulation, and each of    *)
(* these is there once and for somebody.                                   *)
THEOREM NobodyIsEverForgotten == Spec => []NobodyIsForgotten
<1>1. ExplorerInv => NobodyIsForgotten
  BY DEF ExplorerInv
<1> QED
  BY <1>1, ExplorerInvariant, PTL
==============================================================================
