--------------------------- MODULE RunnerProperties --------------------------
(***************************************************************************)
(* What the tournament runner must guarantee about its run directory.      *)
(***************************************************************************)
EXTENDS TournamentRunner

(* No match has two records in results.jsonl, however often its request    *)
(* was repeated by a restart: the append is the commit point, and recovery *)
(* skips what the log holds.                                               *)
UniqueResults ==
  \A i, j \in DOMAIN results : SameMatch(results[i], results[j]) => i = j

(* Whatever the executors wrote before they stopped or died, the planner   *)
(* of the next process accepts it; only a torn record makes it refuse.     *)
(* The recovery guards of group-recovery.js and knockout-recovery.js must  *)
(* never reject the runner's own evidence.                                 *)
EvidenceRecoverable == ~torn => RecoverableState

(* The checkpoint is written after the result it counts: it never claims   *)
(* progress the results do not back.                                       *)
CheckpointBacked ==
  /\ checkpoint.count <= Cardinality(Accepted)
  /\ checkpoint.stage = "groups" =>
       \A s \in 1..checkpoint.position : SeriesDone(Accepted, GroupStage, s)
  /\ checkpoint.stage \in {"knockout", "complete"} =>
       /\ \A q \in 0..(checkpoint.round - 1) : StageComplete(Accepted, q)
       /\ checkpoint.position <=
            Cardinality({e \in Accepted : e.round = checkpoint.round})
  /\ checkpoint.stage = "complete" => StageComplete(Accepted, Rounds)

(* At a barrier the bracket is durable before the checkpoint: once the     *)
(* checkpoint names a knockout round, the standings are final and the      *)
(* bracket lists that round and shows every game of the rounds before it.  *)
BarrierOrder ==
  checkpoint.stage \in {"knockout", "complete"} =>
    LET before(E) == {e \in KnockoutGames(E) : e.round < checkpoint.round}
    IN  /\ standings = Standings("final", GroupMatches)
        /\ bracket.rounds >= checkpoint.round
        /\ before(bracket.games) = before(Accepted)

(* Every outstanding request is for the next game of an undecided series   *)
(* of the stage, no two workers share a series, and so no battle is asked  *)
(* for twice or after its result is durable: the guards of executeSeries   *)
(* and acceptResponse against that never fire.                             *)
RequestsAreNew ==
  proc = "working" =>
    \A w \in Workers : worker[w].pc # "idle" =>
      /\ \A v \in Workers \ {w} :
           worker[v].pc # "idle" => worker[v].series # worker[w].series
      /\ \/ /\ worker[w].game = NextGame(Accepted, active, worker[w].series)
            /\ ~SeriesDone(Accepted, active, worker[w].series)
         \/ lane # << >> /\ w = Head(lane) /\ laneStep # "append"

(* Workers that end without a failure or a stop have left nothing undone:  *)
(* the throw "stopped before every series completed" is unreachable.       *)
ExecutorFinishesStage ==
  (Settled /\ ~storageFailed /\ ~requestFailed /\ ~stopping) =>
    StageComplete(known, active)

(* The memory an executor acts on is what the log holds, result by result, *)
(* unless a failed append left a record behind.                            *)
MemoryMatchesLog ==
  proc \notin {"down", "loop", "plan", "initCheckpoint"} =>
    /\ count = Cardinality(known)
    /\ ~storageFailed => known = Accepted

(* Before a group result is appended, the provisional standings cover the  *)
(* last multiple of the cadence, also after a crash between the checkpoint *)
(* and the snapshot.                                                       *)
ProvisionalStandingsCurrent ==
  LET passed == Min({count, GroupMatches - 1})
      due    == passed - (passed % Cadence)
  IN  (LaneAt("append") /\ active = GroupStage /\ ~storageFailed /\ due > 0) =>
        standings.status = "provisional" /\ standings.count >= due

(* A completed run is one the archive loader accepts, its diagnostics      *)
(* apart: bracket, standings, checkpoint and results agree.                *)
CompletedRunIsCanonical == metadata = "completed" => CanonicalArtifacts

(* A failed run has a record of the request that failed it.                *)
FailedRunHasDiagnostic == metadata = "failed" => failures # "none"

(* A completed or failed run is read-only history.                         *)
TerminalIsFinal == [][Terminal => UNCHANGED disk]_vars

(* Only a request failure fails a run, and only after every other response *)
(* was dealt with: storage trouble, a stop or a crash leaves it running.   *)
OnlyRequestFailuresFailRun ==
  [][metadata' = "failed" /\ metadata # "failed" =>
       /\ requestFailed /\ ~storageFailed
       /\ \A w \in Workers : worker[w].pc = "idle"]_vars

StageRank(c) ==
  CASE c.stage = "absent" -> 0 [] c.stage = "groups" -> 1
    [] c.stage = "knockout" -> 2 [] c.stage = "complete" -> 3

(* The checkpoint never moves back, across restarts and rewritten barriers *)
(* alike.                                                                  *)
CheckpointNeverRegresses ==
  [][/\ checkpoint'.count >= checkpoint.count
     /\ \/ StageRank(checkpoint') > StageRank(checkpoint)
        \/ /\ checkpoint'.stage = checkpoint.stage
           /\ \/ checkpoint'.round > checkpoint.round
              \/ /\ checkpoint'.round = checkpoint.round
                 /\ checkpoint'.position >= checkpoint.position]_vars

------------------------------------------------------------------------------
(* Refinement: results.jsonl and the status in run-metadata.json.          *)

Promise == INSTANCE TournamentRun
  WITH accepted <- Accepted,
       status   <- IF metadata = "absent" THEN "running" ELSE metadata

(* The runner keeps the promise of TournamentRun.                          *)
KeepsPromise == Promise!Spec

------------------------------------------------------------------------------
(* Liveness.  The event loop goes on with whatever it can do, and every    *)
(* request ends, well or badly (four attempts of bounded time).  Nobody is *)
(* obliged to start the process again: its Job gives up after two retries. *)

LiveSpec == Spec /\ WF_vars(Plan \/ Work \/ Finish \/ BattleFault)

(* Once the faults stop, a process that is up takes the run to completed   *)
(* or failed, or finds a torn record; otherwise no process is ever started *)
(* again.  The planner and the executors never go round in circles.        *)
EventuallyTerminal ==
  <>[][~Fault]_vars => <>(Terminal \/ torn) \/ <>[](proc = "down")

(* A process asked to stop drains its requests and ends.                   *)
StopEnds == stopping ~> proc = "down"

------------------------------------------------------------------------------
(* docs/runner-state-contract.md calls failures.jsonl "optional            *)
(* non-authoritative diagnostics".  Read literally, a completed run can    *)
(* then be published whatever that file holds.                             *)
CompletedRunIsPublishable == metadata = "completed" => Publishable
==============================================================================
