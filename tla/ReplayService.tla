---------------------------- MODULE ReplayService -----------------------------
(***************************************************************************)
(* Replays (explorer-api/src/replays.js) on top of the store: a battle is  *)
(* simulated again, compared with the saved result, and kept for a while.  *)
(* A replay is identified by the run and the result that was saved.        *)
(***************************************************************************)
EXTENDS RunExplorer

CONSTANTS
  Bytes,        \* the size of a run's replay
  MaxEntries,   \* maxEntries
  MaxBytes,     \* maxBytes
  Concurrency   \* simulations in flight

ASSUME ReplayAssumption ==
  /\ Bytes \in [Runs -> Nat]
  /\ MaxEntries \in Nat /\ MaxBytes \in Nat /\ Concurrency \in Nat

VARIABLES
  cache,        \* the replays kept, the one used last at the end
  cacheBytes,   \* their size, as it is counted
  pending       \* the replays being simulated

replayVars == <<cache, cacheBytes, pending>>
vars == <<storeVars, request, replayVars>>

Init == InitStore /\ cache = << >> /\ cacheBytes = 0 /\ pending = {}

Identity(artifacts) == [run |-> artifacts.run, result |-> artifacts.files["results"]]

(* getReplay has its context: the saved result.                            *)
Wanted(q) == Identity(request[q].got)

KeptAs(key) == {i \in DOMAIN cache : cache[i].key = key}
Fresh(key) == \E i \in KeptAs(key) : cache[i].fresh
Size(key) == Bytes[key.run]

(* Map.delete: a key has at most one entry.                                *)
Without(entries, key) ==
  LET at == {i \in DOMAIN entries : entries[i].key = key}
  IN  IF at = {} THEN entries ELSE RemoveAt(entries, CHOOSE i \in at : TRUE)

Looks(q) == At(q, "served") /\ request[q].kind = "replay"

(* MATCH_NOT_FOUND, or a version that cannot be simulated.                 *)
NoReplay(q) == Looks(q) /\ Set(q, Idle) /\ UNCHANGED <<storeVars, replayVars>>

ReplayHit(q) ==
  /\ Looks(q) /\ Fresh(Wanted(q))
  /\ cache' = Append(Without(cache, Wanted(q)), [key |-> Wanted(q), fresh |-> TRUE])
  /\ Set(q, Idle)
  /\ UNCHANGED <<storeVars, cacheBytes, pending>>

(* Deliberate bug: an expired replay stays until another takes its place.  *)
KeepExpired(q) == UNCHANGED <<cache, cacheBytes>>

RemoveExpired(q) ==
  /\ cache' = Without(cache, Wanted(q))
  /\ cacheBytes' = IF KeptAs(Wanted(q)) = {} THEN cacheBytes
                   ELSE cacheBytes - Size(Wanted(q))

Misses(q) == Looks(q) /\ ~Fresh(Wanted(q)) /\ RemoveExpired(q) /\ UNCHANGED storeVars

ReplayShared(q) ==
  /\ Misses(q) /\ Wanted(q) \in pending
  /\ Set(q, [pc |-> "replay", key |-> Wanted(q)])
  /\ UNCHANGED pending

ReplayBusy(q) ==
  /\ Misses(q) /\ Wanted(q) \notin pending /\ Cardinality(pending) >= Concurrency
  /\ Set(q, Idle)
  /\ UNCHANGED pending

ReplayStarts(q) ==
  /\ Misses(q) /\ Wanted(q) \notin pending /\ Cardinality(pending) < Concurrency
  /\ pending' = pending \cup {Wanted(q)}
  /\ Set(q, [pc |-> "replay", key |-> Wanted(q)])

------------------------------------------------------------------------------
(* regenerate                                                              *)

AwaitsReplay(q, key) == At(q, "replay") /\ request[q].key = key

(* Everyone who waits for the replay gets it, or the error.                *)
Answer(key) ==
  /\ pending' = pending \ {key}
  /\ request' = [q \in Requests |-> IF AwaitsReplay(q, key) THEN Idle ELSE request[q]]
  /\ UNCHANGED storeVars

TotalOf(entries) == FoldLeft(LAMBDA sum, entry : sum + Size(entry.key), 0, entries)

(* From the oldest on, replays make room until the new one fits.           *)
Fits(n, key) ==
  LET left == SubSeq(cache, n + 1, Len(cache))
  IN  left = << >> \/ /\ Len(left) < MaxEntries
                      /\ cacheBytes - TotalOf(SubSeq(cache, 1, n)) + Size(key) <= MaxBytes

Evicted(key) == CHOOSE n \in 0..Len(cache) : Fits(n, key) /\ \A m \in 0..(n - 1) : ~Fits(m, key)

(* cache.set under a key that is there takes its place.                    *)
ReplayVerified(key) ==
  /\ Answer(key)
  /\ IF MaxEntries > 0 /\ Size(key) <= MaxBytes
     THEN LET n == Evicted(key)
              left == SubSeq(cache, n + 1, Len(cache))
          IN  /\ cache' = Append(Without(left, key), [key |-> key, fresh |-> TRUE])
              /\ cacheBytes' = cacheBytes - TotalOf(SubSeq(cache, 1, n)) + Size(key)
     ELSE UNCHANGED <<cache, cacheBytes>>

(* No answer in time, an invalid one, or another battle than the saved one.*)
ReplayFails(key) == Answer(key) /\ UNCHANGED <<cache, cacheBytes>>

Expire ==
  /\ \E i \in DOMAIN cache : cache[i].fresh /\ cache' = [cache EXCEPT ![i].fresh = FALSE]
  /\ UNCHANGED <<storeVars, request, cacheBytes, pending>>

ReplayStep(q) ==
  NoReplay(q) \/ ReplayHit(q) \/ ReplayShared(q) \/ ReplayBusy(q) \/ ReplayStarts(q)

Simulated == \E key \in pending : ReplayVerified(key) \/ ReplayFails(key)

Next ==
  \/ \E q \in Requests : \/ Ask(q) /\ UNCHANGED replayVars
                         \/ StoreStep(q) /\ UNCHANGED replayVars
                         \/ ReplayStep(q)
  \/ LoadStep /\ UNCHANGED replayVars
  \/ StoreFault /\ UNCHANGED replayVars
  \/ Simulated
  \/ Expire
  \/ \E r \in Runs, f \in Range(Files) : Write(r, f) /\ UNCHANGED replayVars

Spec == Init /\ [][Next]_vars
==============================================================================
