----------------------------- MODULE ServiceProofs -----------------------------
(***************************************************************************)
(* Proofs about the admission budget of a replica by itself, and about     *)
(* callers and replica together, for any number of calls, of attempts, of  *)
(* slots and of places in the queue.                                       *)
(***************************************************************************)
EXTENDS ServiceProperties, FiniteSetTheorems, SequenceTheorems, TLAPS

------------------------------------------------------------------------------
(* The admission budget.                                                   *)

(* A call that has not been made is nowhere.                               *)
Uncalled ==
  \A j \in Jobs : promise[j] = "none" =>
    j \notin running \cup Members(immediates) \cup Members(queue)

(* Whoever went away has been told so.                                     *)
CancelledAnswered == \A j \in cancelled : promise[j] = "aborted"

(* The inductive invariant.  That the slots are accounted for needs that   *)
(* no job is in two places, and that a step never finds more than one free *)
(* slot needs that nobody waits beside one.                                *)
SlotInv ==
  /\ AdmissionTypeOK
  /\ SlotsAccountedFor
  /\ NobodyWaitsBesideFreeSlot
  /\ NoCallIsLost
  /\ Uncalled
  /\ CancelledAnswered

(* Nothing is running and nothing waits at the start.                      *)
LEMMA SlotInit == AdmissionInit => SlotInv
<1> SUFFICES ASSUME AdmissionInit PROVE SlotInv
  OBVIOUS
<1>1. AdmissionTypeOK
  BY DEF AdmissionInit, AdmissionTypeOK
<1>2. SlotsAccountedFor
  BY FS_EmptySet, AdmissionAssumption DEF AdmissionInit, SlotsAccountedFor
<1>3. NobodyWaitsBesideFreeSlot
  BY DEF AdmissionInit, NobodyWaitsBesideFreeSlot
<1>4. NoCallIsLost /\ Uncalled /\ CancelledAnswered
  BY DEF AdmissionInit, NoCallIsLost, Uncalled, CancelledAnswered, Members,
         IsInjective
<1> QED  BY <1>1, <1>2, <1>3, <1>4 DEF SlotInv

(* Only finitely many jobs run, so they can be counted.                    *)
LEMMA RunningFinite ==
  ASSUME AdmissionTypeOK
  PROVE  IsFiniteSet(running) /\ Cardinality(running) \in Nat
<1>1. running \subseteq Jobs
  BY DEF AdmissionTypeOK
<1> QED  BY <1>1, AdmissionAssumption, FS_Subset, FS_CardinalityType

(* A slot that is given back goes to the head of the queue, if there is    *)
(* one: the loop over the queue runs at most once.                         *)
LEMMA OneMovesUp ==
  ASSUME AdmissionTypeOK, NobodyWaitsBesideFreeSlot, NEW waiting \in Seq(Jobs),
         active \in 1..MaxConcurrent, GiveSlotBack(waiting)
  PROVE  \/ /\ queue = << >> /\ queue' = << >>
            /\ immediates' = waiting /\ active' = active - 1
         \/ /\ queue # << >> /\ queue' = Tail(queue)
            /\ immediates' = Append(waiting, Head(queue)) /\ active' = active
<1> DEFINE free  == MaxConcurrent - (active - 1)
           moved == IF Len(queue) < free THEN Len(queue) ELSE free
<1>0. MaxConcurrent \in Nat /\ queue \in Seq(Jobs) /\ Len(queue) \in Nat
  BY AdmissionAssumption DEF AdmissionTypeOK
<1>1. /\ active' = active - 1 + moved
      /\ immediates' = waiting \o SubSeq(queue, 1, moved)
      /\ queue' = SubSeq(queue, moved + 1, Len(queue))
  BY DEF GiveSlotBack
<1>2. CASE queue = << >>
  <2>1. moved = 0
    BY <1>0, <1>2
  <2>2. SubSeq(queue, 1, 0) = << >> /\ SubSeq(queue, 1, Len(queue)) = << >>
    BY <1>2
  <2>3. waiting \o << >> = waiting
    OBVIOUS
  <2> QED  BY <1>1, <1>2, <2>1, <2>2, <2>3
<1>3. CASE queue # << >>
  <2>1. moved = 1
    BY <1>0, <1>3 DEF NobodyWaitsBesideFreeSlot
  <2>2. SubSeq(queue, 2, Len(queue)) = Tail(queue)
    BY <1>0, <1>3
  <2>3. waiting \o SubSeq(queue, 1, 1) = Append(waiting, Head(queue))
    BY <1>0, <1>3
  <2>4. active - 1 + moved = active /\ moved + 1 = 2
    <3>1. active \in Int
      BY AdmissionAssumption
    <3> HIDE DEF moved
    <3> QED  BY <2>1, <3>1
  <2> HIDE DEF moved
  <2> QED  BY <1>1, <1>3, <2>1, <2>2, <2>3, <2>4
<1> QED  BY <1>2, <1>3

------------------------------------------------------------------------------
(* Sequences without repetition.                                           *)

(* A new element at the end.                                               *)
LEMMA AppendNew ==
  ASSUME NEW S, NEW s \in Seq(S), NEW x \in S, IsInjective(s), x \notin Members(s)
  PROVE  /\ Append(s, x) \in Seq(S)
         /\ Len(Append(s, x)) = Len(s) + 1
         /\ IsInjective(Append(s, x))
         /\ Members(Append(s, x)) = Members(s) \cup {x}
<1> DEFINE t == Append(s, x)
<1>1. /\ t \in Seq(S) /\ Len(t) = Len(s) + 1 /\ t[Len(s) + 1] = x
      /\ DOMAIN s = 1..Len(s) /\ DOMAIN t = 1..(Len(s) + 1)
      /\ \A i \in 1..Len(s) : t[i] = s[i]
      /\ Len(s) \in Nat
  OBVIOUS
<1> HIDE DEF t
<1>2. IsInjective(t)
  BY <1>1 DEF IsInjective, Members
<1>3. Members(t) = Members(s) \cup {x}
  <2>1. \A y \in Members(t) : y \in Members(s) \cup {x}
    BY <1>1 DEF Members
  <2>2. \A y \in Members(s) \cup {x} : y \in Members(t)
    BY <1>1 DEF Members
  <2> QED  BY <2>1, <2>2
<1> QED  BY <1>1, <1>2, <1>3 DEF t

(* The rest of a sequence.                                                 *)
LEMMA TailOnce ==
  ASSUME NEW S, NEW s \in Seq(S), s # << >>, IsInjective(s)
  PROVE  /\ Tail(s) \in Seq(S) /\ Head(s) \in S
         /\ Len(Tail(s)) = Len(s) - 1 /\ Len(s) \in Nat \ {0}
         /\ IsInjective(Tail(s))
         /\ Head(s) \in Members(s)
         /\ Members(Tail(s)) = Members(s) \ {Head(s)}
<1> DEFINE t == Tail(s)
<1>1. /\ t \in Seq(S) /\ Len(t) = Len(s) - 1 /\ Len(s) \in Nat \ {0}
      /\ DOMAIN s = 1..Len(s) /\ DOMAIN t = 1..(Len(s) - 1)
      /\ \A i \in 1..(Len(s) - 1) : t[i] = s[i + 1]
      /\ Head(s) = s[1] /\ Head(s) \in S
  OBVIOUS
<1> HIDE DEF t
<1>2. IsInjective(t)
  BY SMTT(30), <1>1 DEF IsInjective
<1>3. Head(s) \in Members(s)
  BY <1>1 DEF Members
<1>4. \A y \in Members(t) : y \in Members(s) \ {Head(s)}
  BY <1>1 DEF Members, IsInjective
<1>5. ASSUME NEW y \in Members(s) \ {Head(s)} PROVE y \in Members(t)
  <2>1. PICK i \in 1..Len(s) : s[i] = y
    BY <1>1 DEF Members
  <2>2. i # 1
    BY <1>1, <2>1
  <2>3. i - 1 \in 1..(Len(s) - 1) /\ t[i - 1] = y
    BY <1>1, <2>1, <2>2
  <2> QED  BY <1>1, <2>3 DEF Members
<1> QED  BY <1>1, <1>2, <1>3, <1>4, <1>5 DEF t

(* A sequence without one of its elements.                                 *)
LEMMA RemoveOnce ==
  ASSUME NEW S, NEW s \in Seq(S), IsInjective(s), NEW i \in DOMAIN s
  PROVE  /\ RemoveAt(s, i) \in Seq(S)
         /\ Len(RemoveAt(s, i)) = Len(s) - 1 /\ Len(s) \in Nat \ {0}
         /\ IsInjective(RemoveAt(s, i))
         /\ Members(RemoveAt(s, i)) = Members(s) \ {s[i]}
         /\ \A k \in 1..(Len(s) - 1) :
              RemoveAt(s, i)[k] = s[IF k < i THEN k ELSE k + 1]
<1> DEFINE a == SubSeq(s, 1, i - 1)
           b == SubSeq(s, i + 1, Len(s))
           t == a \o b
<1>1. i \in 1..Len(s) /\ Len(s) \in Nat \ {0} /\ DOMAIN s = 1..Len(s)
  OBVIOUS
<1>2. /\ a \in Seq(S) /\ Len(a) = i - 1
      /\ \A k \in 1..(i - 1) : a[k] = s[k]
  <2>1. /\ \A k \in 1..(i - 1) : s[k] \in S /\ 1 + k - 1 = k
        /\ (IF 1 <= i - 1 THEN (i - 1) - 1 + 1 ELSE 0) = i - 1
    BY <1>1
  <2>2. /\ a \in Seq(S)
        /\ Len(a) = IF 1 <= i - 1 THEN (i - 1) - 1 + 1 ELSE 0
        /\ \A k \in 1..(i - 1) : a[k] = s[1 + k - 1]
    BY <1>1, SubSeqProperties
  <2> QED  BY <2>1, <2>2
<1>3. /\ b \in Seq(S) /\ Len(b) = Len(s) - i
      /\ \A k \in 1..(Len(s) - i) : b[k] = s[i + k]
  <2>1. b \in Seq(S) /\ Len(b) = Len(s) - i
    BY <1>1, SubSeqProperties
  <2>2. \A k \in 1..(Len(s) - i) : b[k] = s[i + k]
    BY <1>1, SubSeqProperties
  <2> QED  BY <2>1, <2>2
<1> HIDE DEF a, b
<1>4. /\ t \in Seq(S) /\ Len(t) = Len(s) - 1 /\ DOMAIN t = 1..(Len(s) - 1)
      /\ \A k \in 1..(i - 1) : t[k] = s[k]
      /\ \A k \in i..(Len(s) - 1) : t[k] = s[k + 1]
  <2>1. /\ t \in Seq(S) /\ Len(t) = (i - 1) + (Len(s) - i)
        /\ \A k \in 1..((i - 1) + (Len(s) - i)) :
             t[k] = IF k <= i - 1 THEN a[k] ELSE b[k - (i - 1)]
    <3>1. /\ t \in Seq(S) /\ Len(t) = Len(a) + Len(b)
          /\ \A k \in 1..(Len(a) + Len(b)) :
               t[k] = IF k <= Len(a) THEN a[k] ELSE b[k - Len(a)]
      BY <1>2, <1>3, ConcatProperties
    <3> HIDE DEF t
    <3> QED  BY <1>2, <1>3, <3>1
  <2>2. (i - 1) + (Len(s) - i) = Len(s) - 1 /\ Len(s) - 1 \in Nat
    BY <1>1
  <2> HIDE DEF t
  <2>3. DOMAIN t = 1..(Len(s) - 1) /\ Len(t) = Len(s) - 1
    BY <2>1, <2>2
  <2>4. \A k \in 1..(i - 1) : t[k] = s[k]
    BY <1>1, <1>2, <2>1, <2>2
  <2>5. ASSUME NEW k \in i..(Len(s) - 1) PROVE t[k] = s[k + 1]
    <3>1. k - (i - 1) \in 1..(Len(s) - i) /\ i + (k - (i - 1)) = k + 1
      BY <1>1
    <3>2. t[k] = b[k - (i - 1)]
      BY <1>1, <2>1, <2>2
    <3>3. b[k - (i - 1)] = s[i + (k - (i - 1))]
      BY <1>3, <3>1
    <3> QED  BY <3>1, <3>2, <3>3
  <2> QED  BY <2>1, <2>3, <2>4, <2>5
<1> HIDE DEF t
<1> DEFINE from(k) == IF k < i THEN k ELSE k + 1
<1>a. /\ \A k \in DOMAIN t : from(k) \in DOMAIN s /\ from(k) # i
      /\ \A k, l \in DOMAIN t : from(k) = from(l) => k = l
  BY <1>1, <1>4
<1>b. \A k \in DOMAIN t : t[k] = s[from(k)]
  BY <1>1, <1>4
<1> HIDE DEF from
<1>5. IsInjective(t)
  BY <1>a, <1>b DEF IsInjective
<1>6. ASSUME NEW y \in Members(t) PROVE y \in Members(s) \ {s[i]}
  <2>1. PICK k \in DOMAIN t : t[k] = y
    BY DEF Members
  <2>2. s[from(k)] = y /\ s[from(k)] # s[i]
    BY <1>a, <1>b, <2>1 DEF IsInjective
  <2> QED  BY <1>a, <2>2 DEF Members
<1>7. ASSUME NEW y \in Members(s) \ {s[i]} PROVE y \in Members(t)
  <2>1. PICK k \in 1..Len(s) : s[k] = y
    BY <1>1 DEF Members
  <2>2. CASE k < i
    <3>1. k \in 1..(i - 1) /\ k \in DOMAIN t
      BY <1>1, <1>4, <2>2
    <3> QED  BY <1>4, <2>1, <3>1 DEF Members
  <2>3. CASE k > i
    <3>1. k - 1 \in i..(Len(s) - 1) /\ k - 1 \in DOMAIN t /\ (k - 1) + 1 = k
      BY <1>1, <1>4, <2>3
    <3> QED  BY <1>4, <2>1, <3>1 DEF Members
  <2> QED  BY <1>1, <2>1, <2>2, <2>3
<1>8. RemoveAt(s, i) = t
  BY DEF RemoveAt, t, a, b
<1>9. \A k \in 1..(Len(s) - 1) : t[k] = s[IF k < i THEN k ELSE k + 1]
  BY <1>4, <1>b DEF from
<1> QED  BY <1>1, <1>4, <1>5, <1>6, <1>7, <1>8, <1>9

(* What giving a slot back does to the two lines of waiting jobs: the      *)
(* next job changes line, and nothing else happens to anyone.              *)
LEMMA SlotGivenBack ==
  ASSUME AdmissionTypeOK, NobodyWaitsBesideFreeSlot, IsInjective(queue),
         NEW waiting \in Seq(Jobs), IsInjective(waiting),
         Members(waiting) \cap Members(queue) = {},
         active \in 1..MaxConcurrent, GiveSlotBack(waiting)
  PROVE  /\ active' \in 0..MaxConcurrent
         /\ active' - Len(immediates') = active - 1 - Len(waiting)
         /\ immediates' \in Seq(Jobs) /\ IsInjective(immediates')
         /\ queue' \in Seq(Jobs) /\ IsInjective(queue')
         /\ Len(queue') <= Len(queue)
         /\ queue' # << >> => active' = MaxConcurrent
         /\ Members(immediates') \cap Members(queue') = {}
         /\ Members(immediates') \cup Members(queue') =
              Members(waiting) \cup Members(queue)
         /\ Members(queue') \subseteq Members(queue)
<1>0. /\ queue \in Seq(Jobs) /\ MaxConcurrent \in Nat \ {0}
      /\ Len(queue) \in Nat /\ Len(waiting) \in Nat /\ active \in Int
  BY AdmissionAssumption DEF AdmissionTypeOK
<1>1. CASE queue = << >> /\ queue' = << >> /\ immediates' = waiting /\ active' = active - 1
  BY <1>0, <1>1
<1>2. CASE /\ queue # << >> /\ queue' = Tail(queue)
           /\ immediates' = Append(waiting, Head(queue)) /\ active' = active
  <2>1. /\ Tail(queue) \in Seq(Jobs) /\ Head(queue) \in Jobs
        /\ Len(Tail(queue)) = Len(queue) - 1
        /\ IsInjective(Tail(queue)) /\ Head(queue) \in Members(queue)
        /\ Members(Tail(queue)) = Members(queue) \ {Head(queue)}
    BY <1>0, <1>2, TailOnce
  <2>2. Head(queue) \notin Members(waiting)
    BY <2>1
  <2>3. /\ Append(waiting, Head(queue)) \in Seq(Jobs)
        /\ Len(Append(waiting, Head(queue))) = Len(waiting) + 1
        /\ IsInjective(Append(waiting, Head(queue)))
        /\ Members(Append(waiting, Head(queue))) = Members(waiting) \cup {Head(queue)}
    BY <2>1, <2>2, AppendNew
  <2>4. active' \in 0..MaxConcurrent /\ active' - Len(immediates') = active - 1 - Len(waiting)
    BY <1>0, <1>2, <2>3
  <2>5. Len(queue') <= Len(queue)
    BY <1>0, <1>2, <2>1
  <2>6. queue' # << >> => active' = MaxConcurrent
    BY <1>2 DEF NobodyWaitsBesideFreeSlot
  <2>7. /\ Members(immediates') \cap Members(queue') = {}
        /\ Members(immediates') \cup Members(queue') = Members(waiting) \cup Members(queue)
        /\ Members(queue') \subseteq Members(queue)
    BY <1>2, <2>1, <2>3
  <2> QED  BY <1>2, <2>1, <2>3, <2>4, <2>5, <2>6, <2>7
<1> QED  BY <1>1, <1>2, OneMovesUp

------------------------------------------------------------------------------
(* Every step keeps the invariant.                                         *)

(* The numbers the steps compute with.                                     *)
LEMMA SlotNumbers ==
  ASSUME SlotInv
  PROVE  /\ active \in 0..MaxConcurrent /\ active \in Nat
         /\ MaxConcurrent \in Nat \ {0} /\ MaxQueued \in Nat
         /\ Len(immediates) \in Nat /\ Len(queue) \in Nat
         /\ queue \in Seq(Jobs) /\ immediates \in Seq(Jobs)
         /\ IsFiniteSet(running) /\ Cardinality(running) \in Nat
         /\ active = Len(immediates) + Cardinality(running)
<1>1. AdmissionTypeOK /\ SlotsAccountedFor
  BY DEF SlotInv
<1> QED  BY <1>1, RunningFinite, AdmissionAssumption
         DEF AdmissionTypeOK, SlotsAccountedFor

(* run finds a free slot: then nobody waits, and the new job is the last   *)
(* to begin.                                                               *)
LEMMA RunNowStep ==
  ASSUME SlotInv, NEW j \in Jobs, RunNow(j) PROVE SlotInv'
<1>0. /\ AdmissionTypeOK /\ SlotsAccountedFor /\ NobodyWaitsBesideFreeSlot
      /\ NoCallIsLost /\ Uncalled /\ CancelledAnswered
  BY DEF SlotInv
<1>1. j \notin Members(immediates) /\ j \notin running /\ queue = << >>
  BY <1>0, SlotNumbers DEF RunNow, Uncalled, NobodyWaitsBesideFreeSlot
<1>2. /\ immediates' \in Seq(Jobs) /\ Len(immediates') = Len(immediates) + 1
      /\ IsInjective(immediates')
      /\ Members(immediates') = Members(immediates) \cup {j}
  BY <1>0, <1>1, SlotNumbers, AppendNew DEF RunNow, NoCallIsLost
<1>3. AdmissionTypeOK'
  BY <1>0, <1>2, SlotNumbers DEF RunNow, AdmissionTypeOK
<1>4. SlotsAccountedFor'
  BY <1>0, <1>2, SlotNumbers DEF RunNow, SlotsAccountedFor
<1>5. NobodyWaitsBesideFreeSlot'
  BY <1>1 DEF RunNow, NobodyWaitsBesideFreeSlot
<1>6. Members(queue) = {} /\ UNCHANGED <<queue, running, cancelled>>
  BY <1>1 DEF RunNow, Members
<1>7. promise' = [promise EXCEPT ![j] = "pending"] /\ promise[j] = "none"
  BY DEF RunNow
<1>8. Members(queue') = {}
  BY <1>6
<1>9. /\ IsInjective(queue')
      /\ Members(immediates') \cap Members(queue') = {}
      /\ running' \cap (Members(immediates') \cup Members(queue')) = {}
  BY <1>0, <1>1, <1>2, <1>6, <1>8 DEF NoCallIsLost
<1>10. \A k \in Jobs : promise'[k] = "pending" =>
         k \in running' \cup Members(immediates') \cup Members(queue')
  BY <1>0, <1>2, <1>6, <1>7 DEF NoCallIsLost, AdmissionTypeOK
<1>11. NoCallIsLost'
  BY <1>2, <1>8, <1>9, <1>10 DEF NoCallIsLost, Members
<1>12. Uncalled' /\ CancelledAnswered'
  BY <1>0, <1>2, <1>6, <1>7, <1>8
     DEF Uncalled, CancelledAnswered, AdmissionTypeOK, Members
<1> QED  BY <1>3, <1>4, <1>5, <1>11, <1>12 DEF SlotInv

(* run finds none: the job takes the last place of the queue.              *)
LEMMA EnqueueStep ==
  ASSUME SlotInv, NEW j \in Jobs, Enqueue(j) PROVE SlotInv'
<1>0. /\ AdmissionTypeOK /\ SlotsAccountedFor /\ NobodyWaitsBesideFreeSlot
      /\ NoCallIsLost /\ Uncalled /\ CancelledAnswered
  BY DEF SlotInv
<1>1. j \notin Members(immediates) /\ j \notin Members(queue) /\ j \notin running
  BY <1>0 DEF Enqueue, Uncalled
<1>2. /\ queue' \in Seq(Jobs) /\ Len(queue') = Len(queue) + 1
      /\ IsInjective(queue')
      /\ Members(queue') = Members(queue) \cup {j}
  BY <1>0, <1>1, SlotNumbers, AppendNew DEF Enqueue, NoCallIsLost
<1>3. AdmissionTypeOK'
  BY <1>0, <1>2 DEF Enqueue, AdmissionTypeOK
<1>4. SlotsAccountedFor'
  BY <1>0, <1>2, SlotNumbers DEF Enqueue, SlotsAccountedFor
<1>5. NobodyWaitsBesideFreeSlot'
  BY SlotNumbers DEF Enqueue, NobodyWaitsBesideFreeSlot
<1>6. /\ promise' = [promise EXCEPT ![j] = "pending"] /\ promise[j] = "none"
      /\ UNCHANGED <<immediates, running, cancelled>>
  BY DEF Enqueue
<1>7. Members(immediates') = Members(immediates)
  BY <1>6
<1>8. /\ IsInjective(immediates')
      /\ Members(immediates') \cap Members(queue') = {}
      /\ running' \cap (Members(immediates') \cup Members(queue')) = {}
  BY <1>0, <1>1, <1>2, <1>6, <1>7 DEF NoCallIsLost
<1>9. /\ \A k \in Jobs : promise'[k] = "pending" =>
            k \in running' \cup Members(immediates') \cup Members(queue')
      /\ \A k \in Members(queue') : promise'[k] = "pending"
  BY <1>0, <1>1, <1>2, <1>6, <1>7 DEF NoCallIsLost, AdmissionTypeOK
<1>10. NoCallIsLost'
  BY <1>2, <1>8, <1>9 DEF NoCallIsLost, Members
<1>11. Uncalled' /\ CancelledAnswered'
  BY <1>0, <1>2, <1>6, <1>7
     DEF Uncalled, CancelledAnswered, AdmissionTypeOK, Members
<1> QED  BY <1>3, <1>4, <1>5, <1>10, <1>11 DEF SlotInv

(* A refused call takes no place.                                          *)
LEMMA RefuseStep ==
  ASSUME SlotInv, NEW j \in Jobs, Refuse(j) \/ RefuseAborted(j) PROVE SlotInv'
<1>0. /\ AdmissionTypeOK /\ SlotsAccountedFor /\ NobodyWaitsBesideFreeSlot
      /\ NoCallIsLost /\ Uncalled /\ CancelledAnswered
  BY DEF SlotInv
<1>1. /\ UNCHANGED <<active, queue, immediates, running, cancelled>>
      /\ promise[j] = "none"
      /\ promise' = [promise EXCEPT ![j] = "busy"] \/ promise' = [promise EXCEPT ![j] = "aborted"]
  BY DEF Refuse, RefuseAborted
<1>2. AdmissionTypeOK' /\ SlotsAccountedFor' /\ NobodyWaitsBesideFreeSlot'
  BY <1>0, <1>1 DEF AdmissionTypeOK, SlotsAccountedFor, NobodyWaitsBesideFreeSlot
<1>3. j \notin Members(queue)
  BY <1>0, <1>1 DEF Uncalled
<1>4. \A k \in Jobs : k # j => promise'[k] = promise[k]
  BY <1>0, <1>1 DEF AdmissionTypeOK
<1>5. promise'[j] # "pending" /\ promise'[j] # "none"
  BY <1>0, <1>1 DEF AdmissionTypeOK
<1>6. Members(queue) \subseteq Jobs
  BY SlotNumbers DEF Members
<1>7. /\ \A k \in Jobs : promise'[k] = "pending" =>
            k \in running \cup Members(immediates) \cup Members(queue)
      /\ \A k \in Members(queue) : promise'[k] = "pending"
      /\ \A k \in Jobs : promise'[k] = "none" =>
            k \notin running \cup Members(immediates) \cup Members(queue)
  BY <1>0, <1>3, <1>4, <1>5, <1>6 DEF NoCallIsLost, Uncalled
<1>8. NoCallIsLost' /\ Uncalled'
  BY <1>0, <1>1, <1>7 DEF NoCallIsLost, Uncalled, Members
<1>9. CancelledAnswered'
  BY <1>0, <1>1, <1>4 DEF CancelledAnswered, AdmissionTypeOK
<1> QED  BY <1>2, <1>8, <1>9 DEF SlotInv

(* A battle begins: its slot moves from the callbacks to the battles.      *)
LEMMA BeginStep ==
  ASSUME SlotInv, Begin PROVE SlotInv'
<1>0. /\ AdmissionTypeOK /\ SlotsAccountedFor /\ NobodyWaitsBesideFreeSlot
      /\ NoCallIsLost /\ Uncalled /\ CancelledAnswered
  BY DEF SlotInv
<1>1. PICK h : h = Head(immediates)
  OBVIOUS
<1>2. /\ immediates # << >> /\ immediates' = Tail(immediates)
      /\ running' = running \cup {h}
      /\ UNCHANGED <<active, queue, cancelled, promise>>
  BY <1>1 DEF Begin
<1>3. /\ immediates' \in Seq(Jobs) /\ h \in Jobs
      /\ Len(immediates') = Len(immediates) - 1 /\ IsInjective(immediates')
      /\ h \in Members(immediates)
      /\ Members(immediates') = Members(immediates) \ {h}
  BY <1>0, <1>1, <1>2, SlotNumbers, TailOnce DEF NoCallIsLost
<1>4. h \notin running /\ h \notin Members(queue)
  BY <1>0, <1>3 DEF NoCallIsLost
<1>5. Cardinality(running') = Cardinality(running) + 1
  BY <1>2, <1>4, SlotNumbers, FS_AddElement
<1>6. AdmissionTypeOK'
  BY <1>0, <1>2, <1>3 DEF AdmissionTypeOK
<1>7. SlotsAccountedFor'
  BY <1>0, <1>2, <1>3, <1>5, SlotNumbers DEF SlotsAccountedFor
<1>8. NobodyWaitsBesideFreeSlot'
  BY <1>0, <1>2 DEF NobodyWaitsBesideFreeSlot
<1>9. Members(queue') = Members(queue) /\ IsInjective(queue')
  BY <1>0, <1>2 DEF NoCallIsLost
<1>10. NoCallIsLost'
  BY <1>0, <1>2, <1>3, <1>4, <1>9 DEF NoCallIsLost, Members
<1>11. Uncalled' /\ CancelledAnswered'
  BY <1>0, <1>2, <1>3, <1>9 DEF Uncalled, CancelledAnswered, Members
<1> QED  BY <1>6, <1>7, <1>8, <1>10, <1>11 DEF SlotInv

(* A callback finds its caller gone: the slot goes to the next.            *)
LEMMA SkipCancelledStep ==
  ASSUME SlotInv, SkipCancelled PROVE SlotInv'
<1>0. /\ AdmissionTypeOK /\ SlotsAccountedFor /\ NobodyWaitsBesideFreeSlot
      /\ NoCallIsLost /\ Uncalled /\ CancelledAnswered
  BY DEF SlotInv
<1>1. PICK h, waiting : h = Head(immediates) /\ waiting = Tail(immediates)
  OBVIOUS
<1>2. /\ immediates # << >> /\ h \in cancelled /\ GiveSlotBack(waiting)
      /\ UNCHANGED <<running, cancelled, promise>>
  BY <1>1 DEF SkipCancelled
<1>3. /\ waiting \in Seq(Jobs) /\ h \in Jobs
      /\ Len(waiting) = Len(immediates) - 1 /\ Len(immediates) \in Nat \ {0}
      /\ IsInjective(waiting) /\ h \in Members(immediates)
      /\ Members(waiting) = Members(immediates) \ {h}
  BY <1>0, <1>1, <1>2, SlotNumbers, TailOnce DEF NoCallIsLost
<1>4. active \in 1..MaxConcurrent
  BY <1>3, SlotNumbers
<1>5. IsInjective(queue) /\ Members(waiting) \cap Members(queue) = {}
  BY <1>0, <1>3 DEF NoCallIsLost
<1>6. /\ active' \in 0..MaxConcurrent
      /\ active' - Len(immediates') = active - 1 - Len(waiting)
      /\ immediates' \in Seq(Jobs) /\ IsInjective(immediates')
      /\ queue' \in Seq(Jobs) /\ IsInjective(queue')
      /\ Len(queue') <= Len(queue)
      /\ queue' # << >> => active' = MaxConcurrent
      /\ Members(immediates') \cap Members(queue') = {}
      /\ Members(immediates') \cup Members(queue') =
           Members(waiting) \cup Members(queue)
      /\ Members(queue') \subseteq Members(queue)
  BY <1>0, <1>2, <1>3, <1>4, <1>5, SlotGivenBack
<1>7. AdmissionTypeOK'
  <2>1. active' \in Nat
    BY <1>6, SlotNumbers
  <2> QED  BY <1>0, <1>2, <1>6, <2>1 DEF AdmissionTypeOK
<1>8. SlotsAccountedFor'
  <2>1. Len(queue') <= MaxQueued
    BY SMTT(30), <1>0, <1>6, SlotNumbers DEF SlotsAccountedFor
  <2>2. active' = Len(immediates') + Cardinality(running')
    <3>1. /\ Cardinality(running') = Cardinality(running)
          /\ Len(immediates') \in Nat
      BY <1>2, <1>6
    <3>2. Len(waiting) = Len(immediates) - 1 /\ Len(immediates) \in Nat
      BY <1>3
    <3>3. active' - Len(immediates') = active - 1 - Len(waiting) /\ active' \in Nat
      BY <1>6, SlotNumbers
    <3>4. /\ active = Len(immediates) + Cardinality(running)
          /\ active \in Nat /\ Cardinality(running) \in Nat
      BY SlotNumbers
    <3> QED  BY ONLY SMTT(30), <3>1, <3>2, <3>3, <3>4
  <2>3. active' <= MaxConcurrent
    BY <1>6, SlotNumbers
  <2> QED  BY <2>1, <2>2, <2>3 DEF SlotsAccountedFor
<1>9. NobodyWaitsBesideFreeSlot'
  BY <1>6 DEF NobodyWaitsBesideFreeSlot
<1>10. promise[h] = "aborted"
  BY <1>0, <1>2 DEF CancelledAnswered
<1>11. NoCallIsLost'
  BY <1>0, <1>2, <1>3, <1>6, <1>10 DEF NoCallIsLost, Members
<1>12. Uncalled' /\ CancelledAnswered'
  BY <1>0, <1>2, <1>3, <1>6 DEF Uncalled, CancelledAnswered, Members
<1> QED  BY <1>7, <1>8, <1>9, <1>11, <1>12 DEF SlotInv

(* A battle ends: its slot goes to the next.                               *)
LEMMA FinishStep ==
  ASSUME SlotInv, NEW j \in Jobs, NEW outcome \in {"resolved", "rejected"},
         Finish(j, outcome)
  PROVE  SlotInv'
<1>0. /\ AdmissionTypeOK /\ SlotsAccountedFor /\ NobodyWaitsBesideFreeSlot
      /\ NoCallIsLost /\ Uncalled /\ CancelledAnswered
  BY DEF SlotInv
<1>1. /\ j \in running /\ running' = running \ {j}
      /\ promise' = [promise EXCEPT ![j] = IF @ = "pending" THEN outcome ELSE @]
      /\ GiveSlotBack(immediates) /\ UNCHANGED cancelled
  BY DEF Finish
<1>2. Cardinality(running') = Cardinality(running) - 1
  BY <1>1, SlotNumbers, FS_RemoveElement
<1>3. Cardinality(running') \in Nat
  <2>1. running' \subseteq running
    BY <1>1
  <2> QED  BY <2>1, SlotNumbers, FS_Subset, FS_CardinalityType
<1>4. active \in 1..MaxConcurrent
  BY <1>2, <1>3, SlotNumbers
<1>5. /\ IsInjective(immediates) /\ IsInjective(queue)
      /\ Members(immediates) \cap Members(queue) = {}
  BY <1>0 DEF NoCallIsLost
<1>6. /\ active' \in 0..MaxConcurrent
      /\ active' - Len(immediates') = active - 1 - Len(immediates)
      /\ immediates' \in Seq(Jobs) /\ IsInjective(immediates')
      /\ queue' \in Seq(Jobs) /\ IsInjective(queue')
      /\ Len(queue') <= Len(queue)
      /\ queue' # << >> => active' = MaxConcurrent
      /\ Members(immediates') \cap Members(queue') = {}
      /\ Members(immediates') \cup Members(queue') =
           Members(immediates) \cup Members(queue)
      /\ Members(queue') \subseteq Members(queue)
  BY <1>0, <1>1, <1>4, <1>5, SlotNumbers, SlotGivenBack
<1>7. AdmissionTypeOK'
  <2>1. running' \subseteq Jobs /\ cancelled' \subseteq Jobs
    BY <1>0, <1>1 DEF AdmissionTypeOK
  <2>2. promise' \in [Jobs -> {"none", "pending", "resolved", "rejected", "busy",
                             "aborted"}]
    BY <1>0, <1>1 DEF AdmissionTypeOK
  <2>3. active' \in Nat
    BY <1>6, SlotNumbers
  <2> QED  BY <1>6, <2>1, <2>2, <2>3 DEF AdmissionTypeOK
<1>8. SlotsAccountedFor'
  <2>1. Len(queue') <= MaxQueued
    BY SMTT(30), <1>0, <1>6, SlotNumbers DEF SlotsAccountedFor
  <2>2. active' = Len(immediates') + Cardinality(running')
    BY SMTT(30), <1>2, <1>6, SlotNumbers
  <2>3. active' <= MaxConcurrent
    BY <1>6, SlotNumbers
  <2> QED  BY <2>1, <2>2, <2>3 DEF SlotsAccountedFor
<1>9. NobodyWaitsBesideFreeSlot'
  BY <1>6 DEF NobodyWaitsBesideFreeSlot
<1>10. /\ \A k \in Jobs : k # j => promise'[k] = promise[k]
       /\ promise'[j] # "pending"
       /\ promise'[j] = "none" => promise[j] = "none"
       /\ promise[j] = "aborted" => promise'[j] = "aborted"
  BY <1>0, <1>1 DEF AdmissionTypeOK
<1>11. j \notin Members(queue) /\ Members(queue) \subseteq Jobs
  BY <1>0, <1>1, SlotNumbers DEF NoCallIsLost, Members
<1>12. /\ \A k \in Jobs : promise'[k] = "pending" =>
             k \in running' \cup Members(immediates') \cup Members(queue')
       /\ \A k \in Members(queue') : promise'[k] = "pending"
       /\ running' \cap (Members(immediates') \cup Members(queue')) = {}
  BY <1>0, <1>1, <1>6, <1>10, <1>11 DEF NoCallIsLost
<1>13. NoCallIsLost'
  BY <1>6, <1>12 DEF NoCallIsLost, Members
<1>14. Uncalled' /\ CancelledAnswered'
  <2>1. \A k \in Jobs : promise'[k] = "none" =>
          k \notin running' \cup Members(immediates') \cup Members(queue')
    BY <1>0, <1>1, <1>6, <1>10 DEF Uncalled
  <2>2. CancelledAnswered'
    BY <1>0, <1>1, <1>10 DEF CancelledAnswered, AdmissionTypeOK
  <2> QED  BY <2>1, <2>2 DEF Uncalled, Members
<1> QED  BY <1>7, <1>8, <1>9, <1>13, <1>14 DEF SlotInv

(* A caller goes away: at most its place in the queue becomes free.        *)
LEMMA CancelStep ==
  ASSUME SlotInv, NEW j \in Jobs, Cancel(j) PROVE SlotInv'
<1>0. /\ AdmissionTypeOK /\ SlotsAccountedFor /\ NobodyWaitsBesideFreeSlot
      /\ NoCallIsLost /\ Uncalled /\ CancelledAnswered
  BY DEF SlotInv
<1>1. /\ promise[j] = "pending" /\ cancelled' = cancelled \cup {j}
      /\ promise' = [promise EXCEPT ![j] = "aborted"]
      /\ UNCHANGED <<active, immediates, running>>
  BY DEF Cancel
<1>2. /\ queue' \in Seq(Jobs) /\ IsInjective(queue')
      /\ Len(queue') <= Len(queue)
      /\ Members(queue') = Members(queue) \ {j}
      /\ queue' # << >> => queue # << >>
  <2>1. IsInjective(queue) /\ queue \in Seq(Jobs) /\ Len(queue) \in Nat
    BY <1>0, SlotNumbers DEF NoCallIsLost
  <2>2. CASE \E i \in DOMAIN queue : queue[i] = j /\ queue' = RemoveAt(queue, i)
    <3>1. PICK i \in DOMAIN queue : queue[i] = j /\ queue' = RemoveAt(queue, i)
      BY <2>2
    <3>2. /\ queue' \in Seq(Jobs) /\ IsInjective(queue')
          /\ Len(queue') = Len(queue) - 1
          /\ Members(queue') = Members(queue) \ {j}
      BY <2>1, <3>1, RemoveOnce
    <3>3. queue # << >>
      BY <3>1
    <3> QED  BY <2>1, <3>2, <3>3
  <2>3. CASE (\A i \in DOMAIN queue : queue[i] # j) /\ UNCHANGED queue
    <3>1. j \notin Members(queue)
      BY <2>3 DEF Members
    <3>2. Members(queue') = Members(queue)
      BY <2>3
    <3>3. IsInjective(queue')
      BY <2>1, <2>3
    <3> QED  BY <2>1, <2>3, <3>1, <3>2, <3>3
  <2> QED  BY <2>2, <2>3 DEF Cancel
<1>3. AdmissionTypeOK'
  BY <1>0, <1>1, <1>2 DEF AdmissionTypeOK
<1>4. SlotsAccountedFor'
  <2>1. Len(queue') \in Nat
    BY <1>2
  <2> QED  BY <1>0, <1>1, <1>2, <2>1, SlotNumbers DEF SlotsAccountedFor
<1>5. NobodyWaitsBesideFreeSlot'
  BY <1>0, <1>1, <1>2 DEF NobodyWaitsBesideFreeSlot
<1>6. \A k \in Jobs : promise'[k] = IF k = j THEN "aborted" ELSE promise[k]
  BY <1>0, <1>1 DEF AdmissionTypeOK
<1>7. Members(immediates') = Members(immediates) /\ IsInjective(immediates')
  BY <1>0, <1>1 DEF NoCallIsLost
<1>8. Members(queue) \subseteq Jobs
  BY SlotNumbers DEF Members
<1>9. /\ \A k \in Jobs : promise'[k] = "pending" =>
            k \in running' \cup Members(immediates') \cup Members(queue')
      /\ \A k \in Members(queue') : promise'[k] = "pending"
      /\ Members(immediates') \cap Members(queue') = {}
      /\ running' \cap (Members(immediates') \cup Members(queue')) = {}
  BY <1>0, <1>1, <1>2, <1>6, <1>7, <1>8 DEF NoCallIsLost
<1>10. NoCallIsLost'
  BY <1>2, <1>7, <1>9 DEF NoCallIsLost, Members
<1>11. Uncalled' /\ CancelledAnswered'
  <2>1. \A k \in Jobs : promise'[k] = "none" =>
          k \notin running' \cup Members(immediates') \cup Members(queue')
    BY <1>0, <1>1, <1>2, <1>6, <1>7 DEF Uncalled
  <2>2. CancelledAnswered'
    BY <1>0, <1>1, <1>6 DEF CancelledAnswered, AdmissionTypeOK
  <2> QED  BY <2>1, <2>2 DEF Uncalled, Members
<1> QED  BY <1>3, <1>4, <1>5, <1>10, <1>11 DEF SlotInv

(* One step of the replica, or none.                                       *)
LEMMA SlotNext == SlotInv /\ [AdmissionNext]_admission => SlotInv'
<1> SUFFICES ASSUME SlotInv, [AdmissionNext]_admission PROVE SlotInv'
  OBVIOUS
<1>1. ASSUME NEW j \in Jobs, Run(j) \/ RefuseAborted(j) PROVE SlotInv'
  BY <1>1, RunNowStep, EnqueueStep, RefuseStep DEF Run
<1>2. ASSUME NEW j \in Jobs, Cancel(j) PROVE SlotInv'
  BY <1>2, CancelStep
<1>3. ASSUME NEW j \in Jobs, FinishSomehow(j) PROVE SlotInv'
  BY <1>3, FinishStep DEF FinishSomehow
<1>4. CASE Callback
  BY <1>4, BeginStep, SkipCancelledStep DEF Callback
<1>5. CASE UNCHANGED admission
  <2>1. UNCHANGED <<active, queue, immediates, running, cancelled, promise>>
    BY <1>5 DEF admission
  <2>2. AdmissionTypeOK' /\ SlotsAccountedFor' /\ NobodyWaitsBesideFreeSlot'
    BY <2>1 DEF SlotInv, AdmissionTypeOK, SlotsAccountedFor, NobodyWaitsBesideFreeSlot
  <2>3. NoCallIsLost'
    <3>1. IsInjective(immediates)' /\ IsInjective(queue)'
      BY <2>1 DEF SlotInv, NoCallIsLost, IsInjective
    <3>2. Members(immediates)' = Members(immediates) /\ Members(queue)' = Members(queue)
      BY <2>1 DEF Members
    <3> QED  BY <2>1, <3>1, <3>2 DEF SlotInv, NoCallIsLost
  <2>4. Uncalled' /\ CancelledAnswered'
    BY <2>1 DEF SlotInv, Uncalled, CancelledAnswered, Members
  <2> QED  BY <2>2, <2>3, <2>4 DEF SlotInv
<1> QED  BY <1>1, <1>2, <1>3, <1>4, <1>5 DEF AdmissionNext

(* The inductive invariant holds of every behaviour.                       *)
LEMMA SlotInvariant == AdmissionSpec => []SlotInv
  BY SlotInit, SlotNext, PTL DEF AdmissionSpec

------------------------------------------------------------------------------
(* The variables of createBattleAdmission keep their types, for any number *)
(* of calls, slots and places in the queue.                                *)
THEOREM AdmissionTypes == AdmissionSpec => []AdmissionTypeOK
<1>1. SlotInv => AdmissionTypeOK
  BY DEF SlotInv
<1> QED  BY <1>1, SlotInvariant, PTL

(* active is the number of jobs that hold a slot, never more than          *)
(* maxConcurrent, and at most maxQueued wait: start and the finally block  *)
(* match whatever is cancelled, fails or is refused in between.            *)
THEOREM SlotsNeverLeak == AdmissionSpec => []SlotsAccountedFor
<1>1. SlotInv => SlotsAccountedFor
  BY DEF SlotInv
<1> QED  BY <1>1, SlotInvariant, PTL

(* The while loop of the finally block leaves no job waiting beside a free *)
(* slot, so run never needs to look at the queue before it starts a job.   *)
THEOREM FreeSlotMeansEmptyQueue == AdmissionSpec => []NobodyWaitsBesideFreeSlot
<1>1. SlotInv => NobodyWaitsBesideFreeSlot
  BY DEF SlotInv
<1> QED  BY <1>1, SlotInvariant, PTL

(* A call without an answer is in exactly one of the queue, the callbacks  *)
(* and the battles, and the queue holds no abandoned call.                 *)
THEOREM PendingIsPlaced == AdmissionSpec => []NoCallIsLost
<1>1. SlotInv => NoCallIsLost
  BY DEF SlotInv
<1> QED  BY <1>1, SlotInvariant, PTL

------------------------------------------------------------------------------
(* The order of arrival.                                                   *)

(* The line as it was.                                                     *)
LEMMA NobodyMoves ==
  ASSUME NEW S, NEW s \in Seq(S), IsInjective(s)
  PROVE  GoesOn(s, s)
<1>1. DOMAIN s = 1..Len(s) /\ Len(s) \in Nat
  OBVIOUS
<1>2. \A c \in DOMAIN s : s[c] \in Members(s)
  BY DEF Members
<1>3. ASSUME NEW a \in DOMAIN s, NEW b \in DOMAIN s, NEW c \in DOMAIN s, NEW d \in DOMAIN s,
             s[a] = s[c], s[b] = s[d]
      PROVE  a < b <=> c < d
  BY <1>3 DEF IsInjective
<1> QED  BY <1>2, <1>3 DEF GoesOn

(* A newcomer behind it.                                                   *)
LEMMA NewcomerIsLast ==
  ASSUME NEW S, NEW s \in Seq(S), IsInjective(s), NEW x \in S, x \notin Members(s)
  PROVE  GoesOn(s, Append(s, x))
<1> DEFINE t == Append(s, x)
           n == Len(s)
<1>1. /\ DOMAIN s = 1..n /\ DOMAIN t = 1..(n + 1) /\ n \in Nat
      /\ Len(t) = n + 1 /\ t[n + 1] = x
      /\ \A i \in 1..n : t[i] = s[i]
  OBVIOUS
<1> HIDE DEF t, n
<1>2. ASSUME NEW a \in DOMAIN s, NEW c \in DOMAIN t, s[a] = t[c]
      PROVE  a = c
  <2>1. c # n + 1
    BY <1>1, <1>2 DEF Members
  <2>2. c \in DOMAIN s /\ s[c] = s[a]
    BY <1>1, <1>2, <2>1
  <2> QED  BY <2>2 DEF IsInjective
<1>3. ASSUME NEW c \in DOMAIN t, t[c] \notin Members(s)
      PROVE  c = Len(t)
  <2>1. c \notin 1..n
    BY <1>1, <1>3 DEF Members
  <2> QED  BY <1>1, <2>1
<1>4. GoesOn(s, t)
  BY <1>2, <1>3 DEF GoesOn
<1> QED  BY <1>4 DEF t

(* A line without the one at position i: everybody behind moves up.        *)
LEMMA OneLeaves ==
  ASSUME NEW S, NEW s \in Seq(S), IsInjective(s), NEW t \in Seq(S), NEW i \in 1..Len(s),
         Len(t) = Len(s) - 1,
         \A k \in 1..Len(t) : t[k] = s[IF k < i THEN k ELSE k + 1]
  PROVE  GoesOn(s, t)
<1> DEFINE n == Len(s)
           From(k) == IF k < i THEN k ELSE k + 1
<1>1. DOMAIN s = 1..n /\ DOMAIN t = 1..(n - 1) /\ n \in Nat /\ i \in Nat
  OBVIOUS
<1>2. \A k \in DOMAIN t : From(k) \in DOMAIN s /\ t[k] = s[From(k)]
  BY <1>1
<1>3. \A k, l \in DOMAIN t : k < l <=> From(k) < From(l)
  BY <1>1
<1> HIDE DEF n, From
<1>4. ASSUME NEW a \in DOMAIN s, NEW c \in DOMAIN t, s[a] = t[c]
      PROVE  a = From(c)
  BY <1>2, <1>4 DEF IsInjective
<1>5. \A c \in DOMAIN t : t[c] \in Members(s)
  BY <1>2 DEF Members
<1>6. ASSUME NEW a \in DOMAIN s, NEW b \in DOMAIN s, NEW c \in DOMAIN t, NEW d \in DOMAIN t,
             s[a] = t[c], s[b] = t[d]
      PROVE  a < b <=> c < d
  BY <1>3, <1>4, <1>6
<1> QED  BY <1>5, <1>6 DEF GoesOn

(* Two lines, one behind the other.                                        *)
LEMMA TwoLines ==
  ASSUME NEW S, NEW u \in Seq(S), NEW v \in Seq(S)
  PROVE  /\ u \o v \in Seq(S) /\ Len(u \o v) = Len(u) + Len(v)
         /\ Len(u) \in Nat /\ Len(v) \in Nat
         /\ \A k \in 1..(Len(u) + Len(v)) :
              (u \o v)[k] = IF k <= Len(u) THEN u[k] ELSE v[k - Len(u)]
  BY ConcatProperties, LenProperties

(* The line of those who wait.                                             *)
LEMMA TheLine ==
  ASSUME SlotInv
  PROVE  /\ Waiting \in Seq(Jobs) /\ IsInjective(Waiting)
         /\ Members(Waiting) = Members(immediates) \cup Members(queue)
<1> DEFINE u == immediates
           v == queue
           m == Len(u)
           n == Len(v)
<1>1. /\ u \in Seq(Jobs) /\ v \in Seq(Jobs) /\ IsInjective(u) /\ IsInjective(v)
      /\ Members(u) \cap Members(v) = {}
  BY DEF SlotInv, AdmissionTypeOK, NoCallIsLost
<1>2. /\ Waiting \in Seq(Jobs) /\ Len(Waiting) = m + n /\ m \in Nat /\ n \in Nat
      /\ \A k \in 1..(m + n) : Waiting[k] = IF k <= m THEN u[k] ELSE v[k - m]
  BY <1>1, TwoLines DEF Waiting
<1>3. DOMAIN Waiting = 1..(m + n) /\ DOMAIN u = 1..m /\ DOMAIN v = 1..n
  BY <1>1, <1>2
<1> HIDE DEF u, v, m, n
<1>4. \A k \in 1..(m + n) :
        \/ k \in 1..m /\ Waiting[k] = u[k] /\ u[k] \in Members(u)
        \/ k - m \in 1..n /\ ~(k \in 1..m) /\ Waiting[k] = v[k - m] /\ v[k - m] \in Members(v)
  <2>1. (\A k \in 1..m : u[k] \in Members(u)) /\ (\A k \in 1..n : v[k] \in Members(v))
    BY <1>3 DEF Members
  <2> TAKE k \in 1..(m + n)
  <2>2. CASE k <= m
    <3>1. k \in 1..m
      BY <1>2, <2>2
    <3> QED  BY <1>2, <2>1, <2>2, <3>1
  <2>3. CASE ~(k <= m)
    <3>1. k - m \in 1..n /\ ~(k \in 1..m)
      BY <1>2, <2>3
    <3> QED  BY <1>2, <2>1, <2>3, <3>1
  <2> QED  BY <2>2, <2>3
<1>5. IsInjective(Waiting)
  <2> SUFFICES ASSUME NEW a \in 1..(m + n), NEW b \in 1..(m + n), Waiting[a] = Waiting[b]
               PROVE  a = b
    BY <1>3 DEF IsInjective
  <2>1. CASE a \in 1..m /\ b \in 1..m
    BY <1>1, <1>3, <1>4, <2>1 DEF IsInjective
  <2>2. CASE ~(a \in 1..m) /\ ~(b \in 1..m)
    <3>1. a - m = b - m
      BY <1>1, <1>3, <1>4, <2>2 DEF IsInjective
    <3> QED  BY <1>2, <3>1
  <2>3. CASE a \in 1..m /\ ~(b \in 1..m)
    <3>1. Waiting[a] \in Members(u) /\ Waiting[b] \in Members(v)
      BY <1>4, <2>3
    <3> QED  BY <1>1, <3>1
  <2>4. CASE ~(a \in 1..m) /\ b \in 1..m
    <3>1. Waiting[a] \in Members(v) /\ Waiting[b] \in Members(u)
      BY <1>4, <2>4
    <3> QED  BY <1>1, <3>1
  <2> QED  BY <2>1, <2>2, <2>3, <2>4
<1>6. Members(Waiting) = Members(u) \cup Members(v)
  <2>1. \A y \in Members(Waiting) : y \in Members(u) \cup Members(v)
    BY <1>3, <1>4 DEF Members
  <2>2. \A y \in Members(u) : y \in Members(Waiting)
    <3> TAKE y \in Members(u)
    <3>1. PICK k \in 1..m : u[k] = y
      BY <1>3 DEF Members
    <3>2. k \in 1..(m + n) /\ Waiting[k] = y
      BY <1>2, <3>1
    <3> QED  BY <1>3, <3>2 DEF Members
  <2>3. \A y \in Members(v) : y \in Members(Waiting)
    <3> TAKE y \in Members(v)
    <3>1. PICK k \in 1..n : v[k] = y
      BY <1>3 DEF Members
    <3>2. m + k \in 1..(m + n) /\ (m + k) - m = k /\ ~(m + k <= m)
      BY <1>2, <3>1
    <3>3. Waiting[m + k] = y
      BY <1>2, <3>1, <3>2
    <3> QED  BY <1>3, <3>2, <3>3 DEF Members
  <2> QED  BY <2>1, <2>2, <2>3
<1> QED  BY <1>2, <1>5, <1>6 DEF u, v

(* The head of the callbacks leaves the line.                              *)
LEMMA HeadLeaves ==
  ASSUME NEW u \in Seq(Jobs), NEW v \in Seq(Jobs), u # << >>, IsInjective(u \o v),
         NEW t \in Seq(Jobs), t = Tail(u) \o v
  PROVE  GoesOn(u \o v, t)
<1> DEFINE s == u \o v
           m == Len(u)
           n == Len(v)
<1>1. /\ s \in Seq(Jobs) /\ Len(s) = m + n /\ m \in Nat /\ n \in Nat
      /\ \A k \in 1..(m + n) : s[k] = IF k <= m THEN u[k] ELSE v[k - m]
  BY TwoLines
<1>2. /\ Tail(u) \in Seq(Jobs) /\ Len(Tail(u)) = m - 1 /\ m >= 1
      /\ \A k \in 1..(m - 1) : Tail(u)[k] = u[k + 1]
  OBVIOUS
<1>3. /\ Len(t) = (m - 1) + n
      /\ \A k \in 1..((m - 1) + n) : t[k] = IF k <= m - 1 THEN Tail(u)[k] ELSE v[k - (m - 1)]
  BY <1>2, TwoLines
<1> DEFINE w == Tail(u)
<1>4. /\ \A k \in 1..(m - 1) : w[k] = u[k + 1]
      /\ \A k \in 1..((m - 1) + n) : t[k] = IF k <= m - 1 THEN w[k] ELSE v[k - (m - 1)]
  BY <1>2, <1>3
<1> HIDE DEF s, m, n, w
<1>5. \A k \in 1..Len(t) : t[k] = s[k + 1]
  <2> TAKE k \in 1..Len(t)
  <2>1. k \in 1..((m - 1) + n) /\ k + 1 \in 1..(m + n)
    BY <1>1, <1>3
  <2>2. CASE k <= m - 1
    <3>1. k \in 1..(m - 1) /\ k + 1 <= m
      BY <1>1, <2>1, <2>2
    <3> QED  BY <1>1, <1>4, <2>1, <2>2, <3>1
  <2>3. CASE ~(k <= m - 1)
    <3>1. ~(k + 1 <= m) /\ k - (m - 1) = (k + 1) - m
      BY <1>1, <2>1, <2>3
    <3> QED  BY <1>1, <1>4, <2>1, <2>3, <3>1
  <2> QED  BY <2>2, <2>3
<1>6. 1 \in 1..Len(s) /\ Len(t) = Len(s) - 1
  BY <1>1, <1>2, <1>3
<1>7. \A k \in 1..Len(t) : t[k] = s[IF k < 1 THEN k ELSE k + 1]
  <2>1. \A k \in 1..Len(t) : ~(k < 1)
    BY <1>6, <1>1
  <2> QED  BY <1>5, <2>1
<1>8. IsInjective(s)
  BY DEF s
<1>9. GoesOn(s, t)
  BY <1>1, <1>6, <1>7, <1>8, OneLeaves
<1> QED  BY <1>9 DEF s

(* Two lines are one: the head of the second may as well stand at the end  *)
(* of the first.                                                           *)
LEMMA HeadChangesLine ==
  ASSUME NEW S, NEW u \in Seq(S), NEW v \in Seq(S), v # << >>
  PROVE  Append(u, Head(v)) \o Tail(v) = u \o v
<1> DEFINE a == Append(u, Head(v))
           b == Tail(v)
           m == Len(u)
           n == Len(v)
           x == a \o b
           y == u \o v
<1>1. /\ a \in Seq(S) /\ Len(a) = m + 1 /\ m \in Nat
      /\ \A k \in 1..m : a[k] = u[k]
      /\ a[m + 1] = v[1]
  OBVIOUS
<1>2. /\ b \in Seq(S) /\ Len(b) = n - 1 /\ n \in Nat /\ n >= 1
      /\ \A k \in 1..(n - 1) : b[k] = v[k + 1]
  OBVIOUS
<1>3. /\ y \in Seq(S) /\ Len(y) = m + n
      /\ \A k \in 1..(m + n) : y[k] = IF k <= m THEN u[k] ELSE v[k - m]
  BY TwoLines
<1> HIDE DEF a, b
<1>4. /\ x \in Seq(S) /\ Len(x) = (m + 1) + (n - 1)
      /\ \A k \in 1..((m + 1) + (n - 1)) : x[k] = IF k <= m + 1 THEN a[k] ELSE b[k - (m + 1)]
  <2>1. /\ x \in Seq(S) /\ Len(x) = Len(a) + Len(b)
        /\ \A k \in 1..(Len(a) + Len(b)) : x[k] = IF k <= Len(a) THEN a[k] ELSE b[k - Len(a)]
    BY <1>1, <1>2, TwoLines
  <2> HIDE DEF x, m, n
  <2> QED  BY <1>1, <1>2, <2>1
<1> HIDE DEF x, y, m, n
<1>5. Len(x) = Len(y)
  BY <1>1, <1>2, <1>3, <1>4
<1>6. \A k \in 1..Len(x) : x[k] = y[k]
  <2> TAKE k \in 1..Len(x)
  <2>1. k \in 1..(m + n) /\ k \in 1..((m + 1) + (n - 1))
    BY <1>1, <1>2, <1>4
  <2>2. CASE k <= m
    <3>1. k \in 1..m /\ k <= m + 1
      BY <1>1, <2>1, <2>2
    <3> QED  BY <1>1, <1>3, <1>4, <2>1, <2>2, <3>1
  <2>3. CASE k = m + 1
    <3>1. ~(k <= m) /\ k <= m + 1 /\ k - m = 1
      BY <1>1, <2>1, <2>3
    <3> QED  BY <1>1, <1>3, <1>4, <2>1, <2>3, <3>1
  <2>4. CASE k > m + 1
    <3>1. ~(k <= m) /\ ~(k <= m + 1) /\ k - (m + 1) \in 1..(n - 1)
          /\ (k - (m + 1)) + 1 = k - m
      BY <1>1, <1>2, <2>1, <2>4
    <3> QED  BY <1>2, <1>3, <1>4, <2>1, <3>1
  <2> QED  BY <1>1, <2>1, <2>2, <2>3, <2>4
<1>7. x = y
  BY <1>3, <1>4, <1>5, <1>6, SeqEqual
<1> QED  BY <1>7 DEF x, y, a, b

(* One of the second line leaves.                                          *)
LEMMA QueuedLeaves ==
  ASSUME NEW u \in Seq(Jobs), NEW v \in Seq(Jobs), IsInjective(u \o v), IsInjective(v),
         NEW i \in DOMAIN v
  PROVE  GoesOn(u \o v, u \o RemoveAt(v, i))
<1> DEFINE s == u \o v
           w == RemoveAt(v, i)
           t == u \o w
           m == Len(u)
           n == Len(v)
<1>1. /\ s \in Seq(Jobs) /\ Len(s) = m + n /\ m \in Nat /\ n \in Nat
      /\ \A k \in 1..(m + n) : s[k] = IF k <= m THEN u[k] ELSE v[k - m]
  BY TwoLines
<1>2. /\ w \in Seq(Jobs) /\ Len(w) = n - 1 /\ n \in Nat \ {0} /\ i \in 1..n
      /\ \A k \in 1..(n - 1) : w[k] = v[IF k < i THEN k ELSE k + 1]
  BY RemoveOnce
<1> HIDE DEF w
<1>3. /\ t \in Seq(Jobs) /\ Len(t) = m + (n - 1)
      /\ \A k \in 1..(m + (n - 1)) : t[k] = IF k <= m THEN u[k] ELSE w[k - m]
  <2>1. /\ t \in Seq(Jobs) /\ Len(t) = Len(u) + Len(w)
        /\ \A k \in 1..(Len(u) + Len(w)) : t[k] = IF k <= Len(u) THEN u[k] ELSE w[k - Len(u)]
    BY <1>2, TwoLines
  <2> HIDE DEF t, n
  <2> QED  BY <1>2, <2>1
<1> HIDE DEF s, t, m, n
<1>4. m + i \in 1..Len(s) /\ Len(t) = Len(s) - 1
  BY <1>1, <1>2, <1>3
<1>5. \A k \in 1..Len(t) : t[k] = s[IF k < m + i THEN k ELSE k + 1]
  <2> TAKE k \in 1..Len(t)
  <2>1. k \in 1..(m + n) /\ k + 1 \in 1..(m + n) /\ k \in 1..(m + (n - 1))
    BY <1>1, <1>2, <1>3
  <2>2. CASE k <= m
    <3>1. k < m + i
      BY <1>1, <1>2, <2>1, <2>2
    <3> QED  BY <1>1, <1>3, <2>1, <2>2, <3>1
  <2>3. CASE ~(k <= m)
    <3>1. /\ k - m \in 1..(n - 1) /\ (k - m < i <=> k < m + i)
          /\ (k + 1) - m = (k - m) + 1 /\ ~(k + 1 <= m)
      BY <1>1, <1>2, <2>1, <2>3
    <3>2. t[k] = v[IF k - m < i THEN k - m ELSE (k - m) + 1]
      BY <1>2, <1>3, <2>1, <2>3, <3>1
    <3>3. CASE k < m + i
      BY <1>1, <2>1, <2>3, <3>1, <3>2, <3>3
    <3>4. CASE ~(k < m + i)
      BY <1>1, <2>1, <2>3, <3>1, <3>2, <3>4
    <3> QED  BY <3>3, <3>4
  <2> QED  BY <2>2, <2>3
<1>6. IsInjective(s)
  BY DEF s
<1>7. GoesOn(s, t)
  BY <1>1, <1>3, <1>4, <1>5, <1>6, OneLeaves
<1> QED  BY <1>7 DEF s, t, w

(* The line after a slot was given back is the rest of the callbacks and   *)
(* then the queue, as before.                                              *)
LEMMA LineMovesUp ==
  ASSUME SlotInv, NEW waiting \in Seq(Jobs), active \in 1..MaxConcurrent,
         GiveSlotBack(waiting)
  PROVE  Waiting' = waiting \o queue
<1>1. queue \in Seq(Jobs) /\ AdmissionTypeOK /\ NobodyWaitsBesideFreeSlot
  BY DEF SlotInv, AdmissionTypeOK
<1>2. CASE queue = << >> /\ queue' = << >> /\ immediates' = waiting
  BY <1>2 DEF Waiting
<1>3. CASE /\ queue # << >> /\ queue' = Tail(queue)
           /\ immediates' = Append(waiting, Head(queue))
  <2>1. Append(waiting, Head(queue)) \o Tail(queue) = waiting \o queue
    BY <1>1, <1>3, HeadChangesLine
  <2> QED  BY <1>3, <2>1 DEF Waiting
<1> QED  BY <1>1, <1>2, <1>3, OneMovesUp

(* What each step of the budget does to the line.                          *)
LEMMA LineStep ==
  ASSUME SlotInv, [AdmissionNext]_admission
  PROVE  GoesOn(Waiting, Waiting')
<1>1. /\ immediates \in Seq(Jobs) /\ queue \in Seq(Jobs)
      /\ Waiting \in Seq(Jobs) /\ IsInjective(Waiting) /\ IsInjective(queue)
      /\ Members(Waiting) = Members(immediates) \cup Members(queue)
  BY TheLine DEF SlotInv, AdmissionTypeOK, NoCallIsLost
<1>2. ASSUME UNCHANGED <<immediates, queue>> PROVE GoesOn(Waiting, Waiting')
  <2>1. Waiting' = Waiting
    BY <1>2 DEF Waiting
  <2> QED  BY <1>1, <2>1, NobodyMoves
<1>3. ASSUME NEW j \in Jobs, RunNow(j) \/ Enqueue(j) PROVE GoesOn(Waiting, Waiting')
  <2>1. j \notin Members(Waiting)
    BY <1>1, <1>3 DEF RunNow, Enqueue, SlotInv, Uncalled
  <2>2. Waiting' = Append(Waiting, j)
    <3>1. CASE RunNow(j)
      <4>1. queue = << >>
        BY <3>1, SlotNumbers DEF RunNow, SlotInv, NobodyWaitsBesideFreeSlot
      <4>2. immediates' = Append(immediates, j) /\ queue' = queue
        BY <3>1 DEF RunNow
      <4>3. immediates \o << >> = immediates
        BY <1>1
      <4>4. Append(immediates, j) \o << >> = Append(immediates, j)
        BY <1>1
      <4> QED  BY <4>1, <4>2, <4>3, <4>4 DEF Waiting
    <3>2. CASE Enqueue(j)
      <4>1. queue' = Append(queue, j) /\ immediates' = immediates
        BY <3>2 DEF Enqueue
      <4>2. immediates \o Append(queue, j) = Append(immediates \o queue, j)
        BY <1>1
      <4> QED  BY <4>1, <4>2 DEF Waiting
    <3> QED  BY <1>3, <3>1, <3>2
  <2> QED  BY <1>1, <2>1, <2>2, NewcomerIsLast
<1>4. ASSUME NEW t, immediates # << >>, t = Tail(immediates) \o queue
      PROVE  GoesOn(Waiting, t)
  <2>1. t \in Seq(Jobs)
    BY <1>1, <1>4
  <2>2. IsInjective(immediates \o queue)
    BY <1>1 DEF Waiting
  <2> QED  BY <1>1, <1>4, <2>1, <2>2, HeadLeaves DEF Waiting
<1>5. CASE Begin
  <2>1. immediates # << >> /\ Waiting' = Tail(immediates) \o queue
    BY <1>5 DEF Begin, Waiting
  <2> QED  BY <1>4, <2>1
<1>6. CASE SkipCancelled
  <2>1. immediates # << >> /\ Tail(immediates) \in Seq(Jobs) /\ Len(immediates) >= 1
    BY <1>1, <1>6 DEF SkipCancelled
  <2>2. active \in 1..MaxConcurrent
    BY <2>1, SlotNumbers, RunningFinite DEF SlotInv, SlotsAccountedFor
  <2>3. Waiting' = Tail(immediates) \o queue
    BY <1>6, <2>1, <2>2, LineMovesUp DEF SkipCancelled
  <2> QED  BY <1>4, <2>1, <2>3
<1>7. ASSUME NEW j \in Jobs, FinishSomehow(j) PROVE GoesOn(Waiting, Waiting')
  <2>1. j \in running /\ GiveSlotBack(immediates)
    BY <1>7 DEF FinishSomehow, Finish
  <2>2. active \in 1..MaxConcurrent
    <3>1. IsFiniteSet(running) /\ Cardinality(running) \in Nat
      BY RunningFinite DEF SlotInv
    <3>2. Cardinality(running) # 0
      BY <2>1, <3>1, FS_EmptySet
    <3> QED  BY <3>1, <3>2, SlotNumbers DEF SlotInv, SlotsAccountedFor
  <2>3. Waiting' = Waiting
    BY <1>1, <2>1, <2>2, LineMovesUp DEF Waiting
  <2> QED  BY <1>1, <2>3, NobodyMoves
<1>8. ASSUME NEW j \in Jobs, Cancel(j) PROVE GoesOn(Waiting, Waiting')
  <2>1. CASE UNCHANGED queue
    BY <1>2, <1>8, <2>1 DEF Cancel
  <2>2. CASE \E i \in DOMAIN queue : queue' = RemoveAt(queue, i)
    <3>1. PICK i \in DOMAIN queue : queue' = RemoveAt(queue, i)
      BY <2>2
    <3>2. immediates' = immediates
      BY <1>8 DEF Cancel
    <3>3. IsInjective(immediates \o queue)
      BY <1>1 DEF Waiting
    <3>4. GoesOn(immediates \o queue, immediates \o RemoveAt(queue, i))
      BY <1>1, <3>3, QueuedLeaves
    <3> QED  BY <3>1, <3>2, <3>4 DEF Waiting
  <2> QED  BY <1>8, <2>1, <2>2 DEF Cancel
<1>9. ASSUME NEW j \in Jobs, Refuse(j) \/ RefuseAborted(j)
      PROVE  UNCHANGED <<immediates, queue>>
  BY <1>9 DEF Refuse, RefuseAborted
<1>10. CASE UNCHANGED admission
  BY <1>2, <1>10 DEF admission
<1> QED
  BY <1>2, <1>3, <1>5, <1>6, <1>7, <1>8, <1>9, <1>10 DEF AdmissionNext, Run, Callback

(* Calls begin in the order in which they arrived, for any number of them: *)
(* no step lets one pass another, and a new one waits behind all others.   *)
THEOREM LineKeepsOrder == AdmissionSpec => ArrivalOrder
<1>1. SlotInv /\ [AdmissionNext]_admission => [GoesOn(Waiting, Waiting')]_admission
  BY LineStep
<1> QED  BY <1>1, SlotInvariant, PTL DEF AdmissionSpec, ArrivalOrder

------------------------------------------------------------------------------
(* Callers and replica.                                                    *)

(* Callers count their attempts and stop at the bound.                     *)
AttemptsCounted ==
  \A r \in Requests :
    /\ caller[r] = "idle" <=> attempt[r] = 0
    /\ caller[r] = "retrying" => attempt[r] < Attempts[r]

(* An open connection is the one its caller waits for, and an attempt that *)
(* was not made has left no trace.                                         *)
OpenIsCurrent ==
  \A j \in Jobs :
    /\ link[j] \in {"sent", "held", "answered"} =>
         caller[j[1]] = "asking" /\ j = Current(j[1])
    /\ j[2] > attempt[j[1]] => link[j] = "none"
    /\ link[j] = "none" => promise[j] = "none"

(* The inductive invariant.                                                *)
ServiceInv ==
  /\ ServiceTypeOK
  /\ AttemptsCounted
  /\ OpenIsCurrent
  /\ OneLiveAttempt
  /\ AnswersAreOwn

(* A job is a request and the number of one of its attempts.               *)
LEMMA JobShape ==
  /\ \A j \in Jobs : j[1] \in Requests /\ j[2] \in 1..Attempts[j[1]]
                     /\ j = <<j[1], j[2]>>
  /\ \A r \in Requests, a \in Nat :
       a >= 1 /\ a <= Attempts[r] => <<r, a>> \in Jobs
<1>1. ASSUME NEW j \in Jobs
      PROVE  j[1] \in Requests /\ j[2] \in 1..Attempts[j[1]] /\ j = <<j[1], j[2]>>
  <2>1. PICK r \in Requests : j \in {r} \X (1..Attempts[r])
    BY ServiceAssumption DEF HttpRequests
  <2>2. PICK a \in 1..Attempts[r] : j = <<r, a>>
    BY <2>1
  <2> QED  BY <2>2
<1>2. ASSUME NEW r \in Requests, NEW a \in Nat, a >= 1, a <= Attempts[r]
      PROVE  <<r, a>> \in Jobs
  <2>1. Attempts[r] \in Nat
    BY ServiceAssumption
  <2>2. a \in 1..Attempts[r]
    BY <1>2, <2>1
  <2>3. <<r, a>> \in {r} \X (1..Attempts[r])
    BY <2>2
  <2> QED  BY <2>3, ServiceAssumption DEF HttpRequests
<1> QED  BY <1>1, <1>2

(* Seen from the budget, callers and handler only do what run, its         *)
(* callbacks and the abort listener do.                                    *)
LEMMA StepOfBudget == [ServiceNext]_service => [AdmissionNext]_admission
<1> SUFFICES ASSUME [ServiceNext]_service PROVE [AdmissionNext]_admission
  OBVIOUS
<1>1. ASSUME NEW r \in Requests, Call(r) PROVE UNCHANGED admission
  BY <1>1 DEF Call, Ask, GiveUp, TakeResult, RefuseResult, TakeFailure
<1>2. ASSUME NEW j \in Jobs, Handle(j) PROVE [AdmissionNext]_admission
  BY <1>2 DEF Handle, Admit, TurnAway, RefuseRequest, AdmissionNext, Run
<1>3. ASSUME NEW j \in Jobs, FinishAndAnswer(j) PROVE [AdmissionNext]_admission
  BY <1>3 DEF FinishAndAnswer, AdmissionNext
<1>4. ASSUME NEW j \in Jobs, Notice(j) PROVE [AdmissionNext]_admission
  BY <1>4 DEF Notice, AdmissionNext
<1>5. CASE EventLoop
  BY <1>5 DEF EventLoop, AdmissionNext
<1>6. CASE UNCHANGED service
  BY <1>6 DEF service
<1> QED  BY <1>1, <1>2, <1>3, <1>4, <1>5, <1>6 DEF ServiceNext

(* Nothing has been asked at the start.                                    *)
LEMMA ServiceInvInit == ServiceInit => ServiceInv
<1> SUFFICES ASSUME ServiceInit PROVE ServiceInv
  OBVIOUS
<1>1. /\ \A r \in Requests : caller[r] = "idle" /\ attempt[r] = 0
      /\ \A j \in Jobs : link[j] = "none" /\ promise[j] = "none"
  BY DEF ServiceInit, AdmissionInit
<1>2. ServiceTypeOK
  <2>1. AdmissionTypeOK
    BY SlotInit DEF ServiceInit, SlotInv
  <2>2. \A r \in Requests : attempt[r] <= Attempts[r]
    BY <1>1, ServiceAssumption
  <2> QED  BY <2>1, <2>2 DEF ServiceInit, ServiceTypeOK, CallerStates, LinkStates
<1>3. AttemptsCounted /\ OpenIsCurrent /\ OneLiveAttempt /\ AnswersAreOwn
  BY <1>1 DEF AttemptsCounted, OpenIsCurrent, OneLiveAttempt, AnswersAreOwn
<1> QED  BY <1>2, <1>3 DEF ServiceInv

(* The attempt a caller waits for is a job.                                *)
LEMMA CurrentIsJob ==
  ASSUME ServiceInv, NEW r \in Requests, attempt[r] # 0
  PROVE  Current(r) \in Jobs /\ Current(r)[1] = r /\ Current(r)[2] = attempt[r]
<1>1. attempt[r] \in Nat /\ attempt[r] >= 1 /\ attempt[r] <= Attempts[r]
  BY DEF ServiceInv, ServiceTypeOK
<1> QED  BY <1>1, JobShape DEF Current

(* The next attempt is one that has left no trace.                         *)
LEMMA AskStep ==
  ASSUME ServiceInv, NEW r \in Requests, Ask(r)
  PROVE  ServiceInv'
<1> DEFINE next == <<r, attempt[r] + 1>>
<1>1. attempt[r] \in Nat /\ Attempts[r] \in Nat /\ attempt[r] < Attempts[r]
  <2>1. attempt[r] \in Nat /\ Attempts[r] \in Nat /\ Attempts[r] # 0
    BY ServiceAssumption DEF ServiceInv, ServiceTypeOK
  <2>2. attempt[r] = 0 \/ attempt[r] < Attempts[r]
    BY DEF Ask, ServiceInv, AttemptsCounted
  <2> QED  BY <2>1, <2>2
<1>2. next \in Jobs /\ next[1] = r /\ next[2] = attempt[r] + 1
  BY <1>1, JobShape
<1>3. link[next] = "none" /\ promise[next] = "none"
  BY <1>1, <1>2 DEF ServiceInv, OpenIsCurrent
<1>4. /\ \A q \in Requests : /\ attempt'[q] = IF q = r THEN attempt[r] + 1 ELSE attempt[q]
                             /\ caller'[q] = IF q = r THEN "asking" ELSE caller[q]
      /\ \A j \in Jobs : link'[j] = IF j = next THEN "sent" ELSE link[j]
      /\ promise' = promise
  BY DEF Ask, ServiceInv, ServiceTypeOK, admission
<1>5. ServiceTypeOK'
  <2>1. AdmissionTypeOK'
    BY DEF Ask, admission, ServiceInv, ServiceTypeOK, AdmissionTypeOK
  <2>2. \A q \in Requests : attempt'[q] <= Attempts[q]
    BY <1>1, <1>4 DEF ServiceInv, ServiceTypeOK
  <2>3. attempt' \in [Requests -> Nat] /\ caller' \in [Requests -> CallerStates]
        /\ link' \in [Jobs -> LinkStates]
    BY <1>1, <1>2 DEF Ask, ServiceInv, ServiceTypeOK, CallerStates, LinkStates
  <2> QED  BY <2>1, <2>2, <2>3 DEF ServiceTypeOK
<1>6. AttemptsCounted'
  BY <1>1, <1>4 DEF ServiceInv, AttemptsCounted
<1>7. \A j \in Jobs : j[1] = r => link[j] \notin {"sent", "held", "answered"}
  BY DEF Ask, ServiceInv, OpenIsCurrent
<1>8. \A j \in Jobs : /\ j[1] \in Requests /\ j[2] \in Nat /\ attempt[j[1]] \in Nat
                      /\ j = <<j[1], j[2]>>
  BY JobShape, ServiceAssumption DEF ServiceInv, ServiceTypeOK
<1>9. OpenIsCurrent'
  <2> SUFFICES ASSUME NEW j \in Jobs
               PROVE  /\ link'[j] \in {"sent", "held", "answered"} =>
                           caller'[j[1]] = "asking" /\ j = <<j[1], attempt'[j[1]]>>
                      /\ j[2] > attempt'[j[1]] => link'[j] = "none"
                      /\ link'[j] = "none" => promise'[j] = "none"
    BY DEF OpenIsCurrent, Current
  <2>1. CASE j = next
    BY <1>1, <1>2, <1>4, <2>1
  <2>2. CASE j # next
    <3>1. CASE j[1] = r
      BY <1>1, <1>4, <1>7, <1>8, <2>2, <3>1 DEF ServiceInv, OpenIsCurrent
    <3>2. CASE j[1] # r
      BY <1>4, <1>8, <2>2, <3>2 DEF ServiceInv, OpenIsCurrent, Current
    <3> QED  BY <3>1, <3>2
  <2> QED  BY <2>1, <2>2
<1>10. OneLiveAttempt'
  BY <1>3, <1>4, <1>7, <1>8 DEF ServiceInv, OneLiveAttempt, Current
<1>11. AnswersAreOwn'
  <2> SUFFICES ASSUME NEW q \in Requests
               PROVE  /\ caller'[q] = "returned" => promise'[<<q, attempt'[q]>>] = "resolved"
                      /\ caller'[q] = "failed" => attempt'[q] = Attempts[q]
                      /\ caller'[q] \in {"returned", "failed", "retrying"} =>
                           link'[<<q, attempt'[q]>>] \in {"dropped", "over"}
    BY DEF AnswersAreOwn, Current
  <2>1. CASE q = r
    BY <1>4, <2>1
  <2>2. CASE q # r
    <3>1. CASE attempt[q] = 0
      BY <1>4, <2>2, <3>1 DEF ServiceInv, AttemptsCounted
    <3>2. CASE attempt[q] # 0
      <4>1. Current(q) \in Jobs /\ Current(q) # next
        BY <2>2, <3>2, CurrentIsJob, <1>2 DEF Current
      <4> QED  BY <1>4, <2>2, <4>1 DEF ServiceInv, AnswersAreOwn, Current
    <3> QED  BY <3>1, <3>2
  <2> QED  BY <2>1, <2>2
<1> QED  BY <1>5, <1>6, <1>9, <1>10, <1>11 DEF ServiceInv

(* An attempt fails or its result is taken: in either case its connection  *)
(* is closed on the caller's side.                                         *)
LEMMA AttemptEnds ==
  ASSUME ServiceInv, NEW r \in Requests, caller[r] = "asking",
         UNCHANGED <<admission, attempt>>,
         NEW end \in {"dropped", "over"},
         link' = [link EXCEPT ![Current(r)] = end],
         promise[Current(r)] = "pending" => end = "dropped",
         \/ AttemptFails(r)
         \/ /\ caller' = [caller EXCEPT ![r] = "returned"]
            /\ promise[Current(r)] = "resolved"
  PROVE  ServiceInv'
<1> DEFINE last == Current(r)
<1>1. /\ attempt[r] \in Nat /\ attempt[r] # 0 /\ Attempts[r] \in Nat
      /\ attempt[r] <= Attempts[r]
  BY ServiceAssumption DEF ServiceInv, ServiceTypeOK, AttemptsCounted
<1>2. last \in Jobs /\ last[1] = r /\ last[2] = attempt[r]
  BY <1>1, CurrentIsJob
<1>3. PICK state \in {"retrying", "failed", "returned"} :
        /\ caller' = [caller EXCEPT ![r] = state]
        /\ state = "retrying" => attempt[r] < Attempts[r]
        /\ state = "failed" => attempt[r] = Attempts[r]
        /\ state = "returned" => promise[last] = "resolved"
  BY <1>1 DEF AttemptFails
<1>4. /\ \A q \in Requests : caller'[q] = IF q = r THEN state ELSE caller[q]
      /\ \A j \in Jobs : link'[j] = IF j = last THEN end ELSE link[j]
      /\ promise' = promise /\ attempt' = attempt
  BY <1>3 DEF ServiceInv, ServiceTypeOK, admission
<1>5. ServiceTypeOK'
  <2>1. AdmissionTypeOK'
    BY DEF admission, ServiceInv, ServiceTypeOK, AdmissionTypeOK
  <2>2. caller' \in [Requests -> CallerStates] /\ link' \in [Jobs -> LinkStates]
    BY <1>2, <1>3 DEF ServiceInv, ServiceTypeOK, CallerStates, LinkStates
  <2> QED  BY <1>4, <2>1, <2>2 DEF ServiceInv, ServiceTypeOK
<1>6. AttemptsCounted'
  BY <1>1, <1>3, <1>4 DEF ServiceInv, AttemptsCounted
<1>7. \A j \in Jobs : j[1] = r /\ j # last => link[j] \notin {"sent", "held", "answered"}
  BY DEF ServiceInv, OpenIsCurrent
<1>8. OpenIsCurrent'
  <2> SUFFICES ASSUME NEW j \in Jobs
               PROVE  /\ link'[j] \in {"sent", "held", "answered"} =>
                           caller'[j[1]] = "asking" /\ j = <<j[1], attempt'[j[1]]>>
                      /\ j[2] > attempt'[j[1]] => link'[j] = "none"
                      /\ link'[j] = "none" => promise'[j] = "none"
    BY DEF OpenIsCurrent, Current
  <2>1. CASE j = last
    BY <1>1, <1>2, <1>4, <2>1
  <2>2. CASE j # last
    BY <1>4, <1>7, <2>2, JobShape DEF ServiceInv, OpenIsCurrent, Current
  <2> QED  BY <2>1, <2>2
<1>9. OneLiveAttempt'
  <2> SUFFICES ASSUME NEW j \in Jobs, promise'[j] = "pending"
               PROVE  \/ link'[j] = "dropped"
                      \/ /\ link'[j] = "held" /\ caller'[j[1]] = "asking"
                         /\ j = <<j[1], attempt'[j[1]]>>
    BY DEF OneLiveAttempt, Current
  <2>1. CASE j = last
    BY <1>4, <2>1
  <2>2. CASE j # last
    BY <1>4, <1>7, <2>2, JobShape DEF ServiceInv, OneLiveAttempt, Current
  <2> QED  BY <2>1, <2>2
<1>10. AnswersAreOwn'
  <2> SUFFICES ASSUME NEW q \in Requests
               PROVE  /\ caller'[q] = "returned" => promise'[<<q, attempt'[q]>>] = "resolved"
                      /\ caller'[q] = "failed" => attempt'[q] = Attempts[q]
                      /\ caller'[q] \in {"returned", "failed", "retrying"} =>
                           link'[<<q, attempt'[q]>>] \in {"dropped", "over"}
    BY DEF AnswersAreOwn, Current
  <2>1. CASE q = r
    BY <1>2, <1>3, <1>4, <2>1 DEF Current
  <2>2. CASE q # r
    <3>1. CASE attempt[q] = 0
      BY <1>4, <2>2, <3>1 DEF ServiceInv, AttemptsCounted
    <3>2. CASE attempt[q] # 0
      <4>1. Current(q) \in Jobs /\ Current(q) # last
        BY <2>2, <3>2, CurrentIsJob DEF Current
      <4> QED  BY <1>4, <2>2, <4>1 DEF ServiceInv, AnswersAreOwn, Current
    <3> QED  BY <3>1, <3>2
  <2> QED  BY <2>1, <2>2
<1> QED  BY <1>5, <1>6, <1>8, <1>9, <1>10 DEF ServiceInv

(* Whatever a caller does.                                                 *)
LEMMA CallStep ==
  ASSUME ServiceInv, NEW r \in Requests, Call(r)
  PROVE  ServiceInv'
<1>1. CASE Ask(r)
  BY <1>1, AskStep
<1>2. CASE GiveUp(r)
  <2>1. caller[r] = "asking" /\ attempt[r] # 0
    BY <1>2 DEF GiveUp, ServiceInv, AttemptsCounted
  <2>2. Current(r) \in Jobs
    BY <2>1, CurrentIsJob
  <2>3. link[Current(r)] = "answered" => promise[Current(r)] # "pending"
    BY <2>2 DEF ServiceInv, OneLiveAttempt
  <2>4. PICK end \in {"dropped", "over"} :
          /\ link' = [link EXCEPT ![Current(r)] = end]
          /\ promise[Current(r)] = "pending" => end = "dropped"
    BY <1>2, <2>3 DEF GiveUp
  <2> QED  BY <1>2, <2>1, <2>4, AttemptEnds DEF GiveUp
<1>3. CASE TakeResult(r)
  <2>1. promise[Current(r)] # "pending"
    BY <1>3 DEF TakeResult
  <2> QED  BY <1>3, <2>1, AttemptEnds DEF TakeResult
<1>4. CASE RefuseResult(r)
  <2>1. promise[Current(r)] # "pending"
    BY <1>4 DEF RefuseResult
  <2> QED  BY <1>4, <2>1, AttemptEnds DEF RefuseResult
<1>5. CASE TakeFailure(r)
  <2>1. caller[r] = "asking" /\ attempt[r] # 0
    BY <1>5 DEF TakeFailure, ServiceInv, AttemptsCounted
  <2>2. Current(r) \in Jobs
    BY <2>1, CurrentIsJob
  <2>3. promise[Current(r)] # "pending"
    BY <1>5, <2>2 DEF TakeFailure, ServiceInv, OneLiveAttempt
  <2> QED  BY <1>5, <2>3, AttemptEnds DEF TakeFailure
<1> QED  BY <1>1, <1>2, <1>3, <1>4, <1>5 DEF Call

(* The server moves one job on: a connection it does not close stays with  *)
(* the caller that waits, a closed one stays closed, a result stands.      *)
LEMMA JobMoves ==
  ASSUME ServiceInv, AdmissionTypeOK', NEW j \in Jobs,
         UNCHANGED <<caller, attempt>>,
         NEW to \in LinkStates, link' = [link EXCEPT ![j] = to],
         NEW answer, promise' = [promise EXCEPT ![j] = answer],
         link[j] = "none" => to = "none",
         to = "none" => answer = "none",
         to \in {"sent", "held", "answered"} => link[j] \in {"sent", "held", "answered"},
         link[j] \in {"dropped", "over"} => to \in {"dropped", "over"},
         answer = "pending" => to \in {"held", "dropped"},
         promise[j] = "resolved" => answer = "resolved"
  PROVE  ServiceInv'
<1>1. /\ \A k \in Jobs : /\ link'[k] = IF k = j THEN to ELSE link[k]
                         /\ promise'[k] = IF k = j THEN answer ELSE promise[k]
      /\ caller' = caller /\ attempt' = attempt
  BY DEF ServiceInv, ServiceTypeOK, AdmissionTypeOK
<1>2. ServiceTypeOK'
  BY <1>1 DEF ServiceInv, ServiceTypeOK
<1>3. AttemptsCounted'
  BY <1>1 DEF ServiceInv, AttemptsCounted
<1>4. OpenIsCurrent'
  BY <1>1 DEF ServiceInv, OpenIsCurrent, Current
<1>5. OneLiveAttempt'
  <2> SUFFICES ASSUME NEW k \in Jobs, promise'[k] = "pending"
               PROVE  \/ link'[k] = "dropped"
                      \/ /\ link'[k] = "held" /\ caller'[k[1]] = "asking"
                         /\ k = <<k[1], attempt'[k[1]]>>
    BY DEF OneLiveAttempt, Current
  <2>1. CASE k = j
    BY <1>1, <2>1 DEF ServiceInv, OpenIsCurrent, Current
  <2>2. CASE k # j
    BY <1>1, <2>2 DEF ServiceInv, OneLiveAttempt, Current
  <2> QED  BY <2>1, <2>2
<1>6. AnswersAreOwn'
  <2> SUFFICES ASSUME NEW q \in Requests
               PROVE  /\ caller[q] = "returned" => promise'[Current(q)] = "resolved"
                      /\ caller[q] = "failed" => attempt[q] = Attempts[q]
                      /\ caller[q] \in {"returned", "failed", "retrying"} =>
                           link'[Current(q)] \in {"dropped", "over"}
    BY <1>1 DEF AnswersAreOwn, Current
  <2>1. CASE attempt[q] = 0
    BY <2>1 DEF ServiceInv, AttemptsCounted
  <2>2. CASE attempt[q] # 0
    <3>1. Current(q) \in Jobs
      BY <2>2, CurrentIsJob
    <3> QED  BY <1>1, <3>1 DEF ServiceInv, AnswersAreOwn
  <2> QED  BY <2>1, <2>2
<1> QED  BY <1>2, <1>3, <1>4, <1>5, <1>6 DEF ServiceInv

(* What the typed state says of one job.                                   *)
LEMMA JobTypes ==
  ASSUME ServiceInv, NEW j \in Jobs
  PROVE  /\ link[j] \in LinkStates
         /\ link = [link EXCEPT ![j] = link[j]]
         /\ promise = [promise EXCEPT ![j] = promise[j]]
         /\ link[j] = "none" => promise[j] = "none"
  BY DEF ServiceInv, ServiceTypeOK, AdmissionTypeOK, OpenIsCurrent

(* Whatever the handler does with a request that has arrived.              *)
LEMMA HandleStep ==
  ASSUME ServiceInv, AdmissionTypeOK', NEW j \in Jobs, Handle(j)
  PROVE  ServiceInv'
<1> USE JobTypes DEF LinkStates
<1>1. CASE Admit(j)
  <2>1. promise' = [promise EXCEPT ![j] = "pending"]
    BY <1>1 DEF Admit, RunNow, Enqueue
  <2>2. CASE link[j] = "sent"
    <3>1. link' = [link EXCEPT ![j] = "held"]
      BY <1>1, <2>2 DEF Admit
    <3>2. promise[j] = "none"
      BY <1>1 DEF Admit, Unread
    <3> QED  BY <1>1, <2>1, <2>2, <3>1, <3>2, JobMoves DEF Admit
  <2>3. CASE link[j] = "dropped"
    <3>1. link' = [link EXCEPT ![j] = "dropped"]
      BY <1>1, <2>3 DEF Admit
    <3>2. promise[j] = "none"
      BY <1>1 DEF Admit, Unread
    <3> QED  BY <1>1, <2>1, <2>3, <3>1, <3>2, JobMoves DEF Admit
  <2> QED  BY <1>1, <2>2, <2>3 DEF Admit, Unread
<1>2. CASE TurnAway(j)
  <2>1. promise' = [promise EXCEPT ![j] = "busy"] /\ promise[j] = "none"
    BY <1>2 DEF TurnAway, Refuse, Unread
  <2>2. CASE link[j] = "sent"
    <3>1. link' = [link EXCEPT ![j] = "answered"]
      BY <1>2, <2>2 DEF TurnAway, Answer
    <3> QED  BY <1>2, <2>1, <2>2, <3>1, JobMoves DEF TurnAway
  <2>3. CASE link[j] = "dropped"
    <3>1. link' = [link EXCEPT ![j] = "dropped"]
      BY <1>2, <2>3 DEF TurnAway, Answer
    <3> QED  BY <1>2, <2>1, <2>3, <3>1, JobMoves DEF TurnAway
  <2> QED  BY <1>2, <2>2, <2>3 DEF TurnAway, Unread
<1>3. CASE RefuseRequest(j)
  <2>1. promise' = promise /\ link[j] = "sent" /\ link' = [link EXCEPT ![j] = "answered"]
    BY <1>3 DEF RefuseRequest, Answer, admission
  <2>2. promise[j] # "pending"
    BY <2>1 DEF ServiceInv, OneLiveAttempt
  <2>3. promise' = [promise EXCEPT ![j] = promise[j]]
    BY <2>1
  <2> QED  BY <1>3, <2>1, <2>2, <2>3, JobMoves DEF RefuseRequest
<1> QED  BY <1>1, <1>2, <1>3 DEF Handle

(* A battle ends.                                                          *)
LEMMA FinishAndAnswerStep ==
  ASSUME ServiceInv, AdmissionTypeOK', NEW j \in Jobs, FinishAndAnswer(j)
  PROVE  ServiceInv'
<1>1. PICK outcome \in {"resolved", "rejected"} :
        promise' = [promise EXCEPT ![j] = IF promise[j] = "pending" THEN outcome
                                          ELSE promise[j]]
  BY DEF FinishAndAnswer, FinishSomehow, Finish
<1>2. link' = [link EXCEPT ![j] = IF link[j] \in {"sent", "held"} THEN "answered"
                                  ELSE link[j]]
  BY DEF FinishAndAnswer, Answer
<1>3. UNCHANGED <<caller, attempt>>
  BY DEF FinishAndAnswer
<1> DEFINE to     == IF link[j] \in {"sent", "held"} THEN "answered" ELSE link[j]
           answer == IF promise[j] = "pending" THEN outcome ELSE promise[j]
<1>4. /\ to \in LinkStates
      /\ link[j] = "none" => to = "none"
      /\ to = "none" => answer = "none"
      /\ to \in {"sent", "held", "answered"} => link[j] \in {"sent", "held", "answered"}
      /\ link[j] \in {"dropped", "over"} => to \in {"dropped", "over"}
      /\ answer # "pending"
      /\ promise[j] = "resolved" => answer = "resolved"
  BY JobTypes DEF LinkStates
<1>5. link' = [link EXCEPT ![j] = to] /\ promise' = [promise EXCEPT ![j] = answer]
  BY <1>1, <1>2
<1> HIDE DEF to, answer
<1> QED  BY <1>3, <1>4, <1>5, JobMoves

(* The server notices that a caller has gone.                              *)
LEMMA NoticeStep ==
  ASSUME ServiceInv, AdmissionTypeOK', NEW j \in Jobs, Notice(j)
  PROVE  ServiceInv'
<1>1. link[j] = "dropped" /\ link' = [link EXCEPT ![j] = "over"]
      /\ UNCHANGED <<caller, attempt>>
  BY DEF Notice
<1>2. CASE promise[j] = "pending"
  <2>1. promise' = [promise EXCEPT ![j] = "aborted"]
    BY <1>2 DEF Notice, Cancel
  <2> QED  BY <1>1, <1>2, <2>1, JobMoves DEF LinkStates
<1>3. CASE promise[j] # "pending"
  <2>1. promise' = [promise EXCEPT ![j] = promise[j]]
    BY <1>3, JobTypes DEF Notice, admission
  <2> QED  BY <1>1, <1>3, <2>1, JobMoves DEF LinkStates
<1> QED  BY <1>2, <1>3

(* One step of callers and replica, or none.                               *)
LEMMA ServiceInvNext ==
  ServiceInv /\ SlotInv /\ [ServiceNext]_service => ServiceInv'
<1> SUFFICES ASSUME ServiceInv, SlotInv, [ServiceNext]_service PROVE ServiceInv'
  OBVIOUS
<1>1. AdmissionTypeOK'
  BY StepOfBudget, SlotNext DEF SlotInv
<1>2. ASSUME UNCHANGED <<caller, attempt, link, promise>> PROVE ServiceInv'
  <2>1. ServiceTypeOK'
    BY <1>1, <1>2 DEF ServiceInv, ServiceTypeOK
  <2>2. AttemptsCounted' /\ OpenIsCurrent' /\ OneLiveAttempt' /\ AnswersAreOwn'
    BY <1>2 DEF ServiceInv, AttemptsCounted, OpenIsCurrent, OneLiveAttempt,
                AnswersAreOwn, Current
  <2> QED  BY <2>1, <2>2 DEF ServiceInv
<1>3. ASSUME NEW r \in Requests, Call(r) PROVE ServiceInv'
  BY <1>3, CallStep
<1>4. ASSUME NEW j \in Jobs, Handle(j) \/ FinishAndAnswer(j) \/ Notice(j)
      PROVE  ServiceInv'
  BY <1>1, <1>4, HandleStep, FinishAndAnswerStep, NoticeStep
<1>5. CASE EventLoop
  BY <1>2, <1>5 DEF EventLoop, Callback, Begin, SkipCancelled, clients
<1>6. CASE UNCHANGED service
  BY <1>2, <1>6 DEF service, clients, admission
<1> QED  BY <1>3, <1>4, <1>5, <1>6 DEF ServiceNext

------------------------------------------------------------------------------
(* Whatever callers do, give up or retry, the replica behaves as one that  *)
(* is called and cancelled at will: every theorem about the budget holds   *)
(* of it.                                                                  *)
THEOREM ServiceKeepsBudget == ServiceSpec => AdmissionSpec
<1>1. ServiceInit => AdmissionInit
  BY DEF ServiceInit
<1> QED  BY <1>1, StepOfBudget, PTL DEF ServiceSpec, AdmissionSpec

(* The inductive invariants of callers and budget hold together.           *)
LEMMA ServiceInvariant == ServiceSpec => []ServiceInv
<1>1. ServiceSpec => []SlotInv
  BY ServiceKeepsBudget, SlotInvariant, PTL
<1> QED  BY <1>1, ServiceInvInit, ServiceInvNext, PTL DEF ServiceSpec

(* Types, and that nobody asks more often than the retry delays allow.     *)
THEOREM ServiceTypes == ServiceSpec => []ServiceTypeOK
<1>1. ServiceInv => ServiceTypeOK
  BY DEF ServiceInv
<1> QED  BY <1>1, ServiceInvariant, PTL

(* The abort of a timed-out attempt (controller.abort in runBattle, the    *)
(* close listener in runSimulation) leaves a caller at most one battle it  *)
(* still waits for; every other unfinished one is on its way out.          *)
THEOREM OneLiveAttemptHolds == ServiceSpec => []OneLiveAttempt
<1>1. ServiceInv => OneLiveAttempt
  BY DEF ServiceInv
<1> QED  BY <1>1, ServiceInvariant, PTL

(* runBattle returns the battle of its last attempt and fails only when    *)
(* every attempt was made, without an open connection left behind.         *)
THEOREM AnswersAreOwnHolds == ServiceSpec => []AnswersAreOwn
<1>1. ServiceInv => AnswersAreOwn
  BY DEF ServiceInv
<1> QED  BY <1>1, ServiceInvariant, PTL
==============================================================================
