------------------------- MODULE AdmissionProperties -------------------------
(***************************************************************************)
(* What the admission budget of a simulator replica guarantees.            *)
(***************************************************************************)
EXTENDS BattleAdmission

Members(s) == {s[i] : i \in DOMAIN s}

(* active counts the jobs that hold a slot, abandoned ones included, and   *)
(* both bounds hold: no path through cancel, skip or failure loses or      *)
(* duplicates a slot.                                                      *)
SlotsAccountedFor ==
  /\ active = Len(immediates) + Cardinality(running)
  /\ active <= MaxConcurrent
  /\ Len(queue) <= MaxQueued

(* Nobody waits in the queue beside a free slot.                           *)
NobodyWaitsBesideFreeSlot == queue # << >> => active = MaxConcurrent

(* Every call that has not been answered is in exactly one place, once,    *)
(* and the queue holds no abandoned call that would keep others out.       *)
NoCallIsLost ==
  /\ IsInjective(immediates) /\ IsInjective(queue)
  /\ Members(immediates) \cap Members(queue) = {}
  /\ running \cap (Members(immediates) \cup Members(queue)) = {}
  /\ \A j \in Jobs :
       promise[j] = "pending" => j \in running \cup Members(immediates) \cup Members(queue)
  /\ \A j \in Members(queue) : promise[j] = "pending"

Waiting == immediates \o queue

(* t goes on from s: whoever is in both has kept its place among the       *)
(* others, and only its last element may be new.                           *)
GoesOn(s, t) ==
  /\ \A a, b \in DOMAIN s, c, d \in DOMAIN t :
       s[a] = t[c] /\ s[b] = t[d] => (a < b <=> c < d)
  /\ \A c \in DOMAIN t : t[c] \notin Members(s) => c = Len(t)

(* Calls begin in the order they arrived: of two that wait, before and     *)
(* after any step, the order stays, and a new one waits behind all others. *)
ArrivalOrder == [][GoesOn(Waiting, Waiting')]_admission
==============================================================================
