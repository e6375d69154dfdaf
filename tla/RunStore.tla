------------------------------ MODULE RunStore -------------------------------
(***************************************************************************)
(* The run directory: the files one tournament run keeps on disk, the      *)
(* ways the state layer changes them, and what the planner and the archive *)
(* loader read out of them.  A JSON file is replaced atomically (write a   *)
(* temporary, flush, rename); the two JSON Lines files are appended to,    *)
(* and an append that fails or is cut short may leave nothing, the whole   *)
(* line or a torn one.                                                     *)
(***************************************************************************)
EXTENDS TournamentRules, Sequences

VARIABLES
  metadata,     \* run-metadata.json: "absent" or its status
  roster,       \* roster.json exists
  results,      \* results.jsonl: the complete records, in file order
  torn,         \* results.jsonl ends in a truncated record
  checkpoint,   \* checkpoint.json
  standings,    \* standings.json
  bracket,      \* bracket.json
  failures      \* failures.jsonl: "none", "lines" or "torn"

disk == <<metadata, roster, results, torn, checkpoint, standings, bracket,
          failures>>

Checkpoint(stage, round, position, count) ==
  [stage |-> stage, round |-> round, position |-> position, count |-> count]

Standings(status, count) == [status |-> status, count |-> count]

(* rounds: how many rounds it lists, the last one maybe still without      *)
(* games; games: the results its enriched rounds show.                     *)
Bracket(status, rounds, games) ==
  [status |-> status, rounds |-> rounds, games |-> games]

CheckpointType == [stage    : {"absent", "groups", "knockout", "complete"},
                   round    : 0..Rounds,
                   position : Nat,
                   count    : Nat]
StandingsType  == [status : {"absent", "provisional", "final"}, count : Nat]
BracketType    == [status : {"absent", "running", "completed"},
                   rounds : 0..Rounds,
                   games  : SUBSET Entry]

DiskTypeOK ==
  /\ metadata \in {"absent", "running", "failed", "completed"}
  /\ roster \in BOOLEAN
  /\ results \in Seq(Entry)
  /\ torn \in BOOLEAN
  /\ checkpoint \in CheckpointType
  /\ standings \in StandingsType
  /\ bracket \in BracketType
  /\ failures \in {"none", "lines", "torn"}

EmptyDisk ==
  /\ metadata = "absent"
  /\ roster = FALSE
  /\ results = << >>
  /\ torn = FALSE
  /\ checkpoint = Checkpoint("absent", 0, 0, 0)
  /\ standings = Standings("absent", 0)
  /\ bracket = Bracket("absent", 0, {})
  /\ failures = "none"

------------------------------------------------------------------------------
(* Writes.  Each changes one file.                                         *)

PutMetadata(status) ==
  /\ metadata' = status
  /\ UNCHANGED <<roster, results, torn, checkpoint, standings, bracket, failures>>

PutRoster ==
  /\ roster' = TRUE
  /\ UNCHANGED <<metadata, results, torn, checkpoint, standings, bracket, failures>>

PutCheckpoint(stage, round, position, count) ==
  /\ checkpoint' = Checkpoint(stage, round, position, count)
  /\ UNCHANGED <<metadata, roster, results, torn, standings, bracket, failures>>

PutStandings(status, count) ==
  /\ standings' = Standings(status, count)
  /\ UNCHANGED <<metadata, roster, results, torn, checkpoint, bracket, failures>>

PutBracket(status, rounds, games) ==
  /\ bracket' = Bracket(status, rounds, games)
  /\ UNCHANGED <<metadata, roster, results, torn, checkpoint, standings, failures>>

AppendRecord(e) ==
  /\ results' = Append(results, e)
  /\ UNCHANGED <<metadata, roster, torn, checkpoint, standings, bracket, failures>>

TearRecord ==
  /\ torn' = TRUE
  /\ UNCHANGED <<metadata, roster, results, checkpoint, standings, bracket, failures>>

(* A line after a torn one continues it: the file stays unreadable.        *)
PutFailure(f) ==
  /\ failures' = IF failures = "torn" THEN "torn" ELSE f
  /\ UNCHANGED <<metadata, roster, results, torn, checkpoint, standings, bracket>>

------------------------------------------------------------------------------
(* Reads.                                                                  *)

(* The canonical records: equal duplicates collapse to one.                *)
Accepted == {results[i] : i \in DOMAIN results}

Terminal == metadata \in {"completed", "failed"}

HasKnockoutEvidence == KnockoutGames(Accepted) # {}

ConflictingDuplicates ==
  \E i, j \in DOMAIN results :
    SameMatch(results[i], results[j]) /\ results[i] # results[j]

(* Positions of the canonical knockout records.                            *)
KnockoutRecords ==
  {i \in DOMAIN results : /\ results[i].round # GroupStage
                          /\ \A j \in 1..(i - 1) : results[j] # results[i]}

(* The games of one series appear as 1, 2, 3, ..., none after the one      *)
(* that decided it.                                                        *)
SeriesInOrder ==
  \A i \in KnockoutRecords :
    LET e       == results[i]
        earlier == {results[j] : j \in {k \in KnockoutRecords : k < i}}
    IN  /\ e.game = NextGame(earlier, e.round, e.series)
        /\ ~SeriesDecided(earlier, e.round, e.series)

(* No game of a round before the earlier rounds are complete, neither in   *)
(* the whole log nor in its order.                                         *)
RoundsInOrder ==
  /\ \A i, j \in KnockoutRecords : i < j => results[i].round <= results[j].round
  /\ \A i \in KnockoutRecords : \A r \in 1..(results[i].round - 1) :
       StageComplete(Accepted, r)

(* What the planner accepts.  Its refusals throw, and the run stays as it  *)
(* is: torn or conflicting records, results without a roster, knockout     *)
(* games before the whole group stage, games or rounds out of order.       *)
ReadableState ==
  /\ ~torn
  /\ ~ConflictingDuplicates
  /\ Accepted # {} => roster

RecoverableState ==
  /\ ReadableState
  /\ HasKnockoutEvidence =>
       StageComplete(Accepted, GroupStage) /\ SeriesInOrder /\ RoundsInOrder

(* Deliberate bug: only knockout results lead out of the group stage.      *)
KnockoutPlannedByResults == HasKnockoutEvidence

(* Which executor the planner picks.                                       *)
KnockoutPlanned ==
  \/ HasKnockoutEvidence
  \/ StageComplete(Accepted, GroupStage) /\ checkpoint.stage \in {"knockout", "complete"}

(* What the archive loader demands of a completed run, failures.jsonl      *)
(* apart, and of its diagnostics.  It derives the standings and every      *)
(* round, series and game again from the results, and accepts no result    *)
(* that has no place in the schedule or the bracket.                       *)
CanonicalStandings ==
  /\ StageComplete(Accepted, GroupStage)
  /\ standings = Standings("final", GroupMatches)

CanonicalBracket ==
  /\ \A r \in 1..Rounds : StageComplete(Accepted, r)
  /\ bracket = Bracket("completed", Rounds, KnockoutGames(Accepted))

CanonicalArtifacts ==
  /\ metadata = "completed"
  /\ ~torn /\ roster
  /\ \A i, j \in DOMAIN results : SameMatch(results[i], results[j]) => i = j
  /\ CanonicalStandings
  /\ CanonicalBracket
  /\ checkpoint = Checkpoint("complete", Rounds,
                             Cardinality(Games(Accepted, Rounds, 1)),
                             Cardinality(Accepted))

Publishable == CanonicalArtifacts /\ failures # "torn"
==============================================================================
