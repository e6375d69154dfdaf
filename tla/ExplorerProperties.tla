-------------------------- MODULE ExplorerProperties ---------------------------
(***************************************************************************)
(* What the explorer owes those who ask.                                   *)
(***************************************************************************)
EXTENDS ReplayService

(* Whatever comes from a cache or a shared load is whole and no older than *)
(* the request: nothing written before it came is missing from its answer. *)
AnswersAreCurrent ==
  \A q \in Requests : At(q, "served") =>
    LET got == request[q].got
        since == request[q].since[got.run]
    IN  /\ got.run = Run(q) /\ Loadable(got.files)
        /\ \A f \in Range(Required) : got.files[f] >= since[f]
        /\ since[Report] > 0 => got.hasReport

(* The bytes that are counted are those that are kept, under the limits,   *)
(* also when replays expire, are simulated again and make room.            *)
ReplaysWithinBounds ==
  /\ cacheBytes = TotalOf(cache) /\ cacheBytes <= MaxBytes /\ Len(cache) <= MaxEntries
  /\ \A i, j \in DOMAIN cache : cache[i].key = cache[j].key => i = j
  /\ Cardinality(pending) <= Concurrency
  /\ \A key \in pending : KeptAs(key) = {}

(* No request is left waiting: the load it waits for is in line, and the   *)
(* replay it waits for is being simulated.  Nothing else is: each load and *)
(* each simulation is there once, and somebody waits for it.               *)
NobodyIsForgotten ==
  /\ \A q \in Requests : At(q, "wait") => Loading(KeyOf(q))
  /\ \A q \in Requests : At(q, "replay") => request[q].key \in pending
  /\ \A i, j \in DOMAIN loads : loads[i].key = loads[j].key => i = j
  /\ \A i \in DOMAIN loads : \E q \in Requests : At(q, "wait") /\ KeyOf(q) = loads[i].key
  /\ \A key \in pending : \E q \in Requests : AwaitsReplay(q, key)
==============================================================================
