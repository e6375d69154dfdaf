------------------------------ MODULE RunExplorer ------------------------------
(***************************************************************************)
(* The explorer's store of runs (explorer-api/src/store): a request looks  *)
(* at the files of a run, one lstat after the other, and takes the run     *)
(* from the cache if they are as they were; otherwise it waits for a load. *)
(* One load is at work at a time, and requests that saw the same files     *)
(* share it.                                                               *)
(*                                                                         *)
(* The files are on a disk that others write: the runner that plays the    *)
(* run, the publisher, the report command.  A step is the completion of    *)
(* one file operation and what the handlers do up to the next.             *)
(***************************************************************************)
EXTENDS Naturals, FiniteSets, SequencesExt, Functions, TLC

CONSTANTS
  Runs,         \* run IDs
  Begun,        \* those without metadata yet when the explorer starts
  Requests,     \* HTTP requests that may be in progress at once
  Kinds,        \* what they ask for: of "run", "list", "replay"
  MaxWrites,    \* bound: files written while the explorer is up
  NoRun         \* nothing is cached

ASSUME ExplorerAssumption ==
  /\ IsFiniteSet(Runs) /\ Runs # {} /\ Begun \subseteq Runs
  /\ Kinds \subseteq {"run", "list", "replay"} /\ MaxWrites \in Nat

VARIABLES
  dir,        \* the run directories: the version of each file, 0 if absent
  written,    \* how many files have been written
  cachedRun,  \* the last run loaded, and the signature it was asked with
  loads,      \* pendingLoads, in the order of loadTail: the first is at work
  summary,    \* summaryCache
  request     \* the requests

storeVars == <<dir, written, cachedRun, loads, summary>>

(* Two files that must agree, and the report, in the order of the lstats.  *)
Required == <<"metadata", "results">>
Report == "report"
Files == Append(Required, Report)

(* loadTournamentArtifacts: what is read must belong together.             *)
Loadable(read) == read["metadata"] = read["results"]

NothingRead == [f \in {} |-> 0]
Idle == [pc |-> "idle"]

InitStore ==
  /\ dir = [r \in Runs |-> [f \in Range(Files) |->
              IF f = "results" \/ (f = "metadata" /\ r \notin Begun) THEN 1 ELSE 0]]
  /\ written = 0
  /\ cachedRun = NoRun
  /\ loads = << >>
  /\ summary = [r \in Runs |-> NoRun]
  /\ request = [q \in Requests |-> Idle]

(* Somebody writes a file of a run, or creates it.                         *)
Write(r, f) ==
  /\ written < MaxWrites
  /\ written' = written + 1
  /\ dir' = [dir EXCEPT ![r][f] = @ + 1]
  /\ UNCHANGED <<cachedRun, loads, summary, request>>

------------------------------------------------------------------------------
(* A request goes through its runs: all of them for the list, else one.    *)

At(q, pc) == request[q].pc = pc
Run(q) == Head(request[q].todo)

Set(q, state) == request' = [request EXCEPT ![q] = state]

(* The list looks for a summary of each run first, and for the run itself  *)
(* only if there is none.                                                  *)
FirstLook(kind) == IF kind = "list" THEN "summary" ELSE "run"

Looking(kind, todo, since) ==
  [pc |-> "stat", kind |-> kind, todo |-> todo, look |-> FirstLook(kind),
   stats |-> << >>, since |-> Restrict(since, Range(todo))]

(* since: what the directories were like when the request came.            *)
Ask(q) ==
  /\ At(q, "idle")
  /\ \E kind \in Kinds :
       \E todo \in IF kind = "list" THEN {SetToSeq(Runs)} ELSE {<<r>> : r \in Runs} :
         Set(q, Looking(kind, todo, dir))
  /\ UNCHANGED storeVars

(* The next run of the list, or the end.                                   *)
Advanced(req) ==
  IF Len(req.todo) > 1 THEN Looking(req.kind, Tail(req.todo), req.since) ELSE Idle

(* A run is handed to the request: it is the answer, or one line of the    *)
(* list, or says what is to be replayed.                                   *)
Served(req, artifacts) ==
  [pc |-> "served", kind |-> req.kind, todo |-> req.todo, since |-> req.since,
   got |-> artifacts]

GoOn(q) ==
  /\ At(q, "served") /\ request[q].kind # "replay"
  /\ Set(q, Advanced(request[q]))
  /\ UNCHANGED storeVars

(* RUN_NOT_FOUND and INVALID_RUN: the list leaves the run out.             *)
Refused(req) == IF req.kind = "list" THEN Advanced(req) ELSE Idle

(* ARTIFACT_STORE_UNAVAILABLE: the request fails.                          *)
Unavailable(q) == Set(q, Idle)

(* canonicalSignature                                                      *)
NextFile(q) == Files[Len(request[q].stats) + 1]

Stat(q) ==
  /\ At(q, "stat") /\ NextFile(q) # Report
  /\ LET version == dir[Run(q)][NextFile(q)]
     IN  Set(q, IF version = 0 THEN Refused(request[q])
                ELSE [request[q] EXCEPT !.stats = Append(@, version)])
  /\ UNCHANGED storeVars

StatFails(q) == At(q, "stat") /\ Unavailable(q) /\ UNCHANGED storeVars

(* The last lstat, and what listRuns and loadCompletedRun do at once with  *)
(* the signature.                                                          *)
Signed(q, look) == At(q, "stat") /\ NextFile(q) = Report /\ request[q].look = look

Key(q) == [run |-> Run(q), signature |-> Append(request[q].stats, dir[Run(q)][Report])]

InSummary(q) == summary[Run(q)] # NoRun /\ summary[Run(q)].key = Key(q)

InCache(q) == cachedRun # NoRun /\ cachedRun.key = Key(q)

Loading(key) == \E i \in DOMAIN loads : loads[i].key = key

FromSummary(q) ==
  /\ Signed(q, "summary") /\ InSummary(q)
  /\ Set(q, Served(request[q], summary[Run(q)].artifacts))
  /\ UNCHANGED storeVars

LookForRun(q) ==
  /\ Signed(q, "summary") /\ ~InSummary(q)
  /\ Set(q, [request[q] EXCEPT !.look = "run", !.stats = << >>])
  /\ UNCHANGED storeVars

FromCache(q) ==
  /\ Signed(q, "run") /\ InCache(q)
  /\ Set(q, Served(request[q], cachedRun.artifacts))
  /\ UNCHANGED storeVars

Wait(q, key) == Set(q, [request[q] EXCEPT !.pc = "wait", !.stats = key.signature])

ShareLoad(q) ==
  /\ Signed(q, "run") /\ ~InCache(q) /\ Loading(Key(q))
  /\ Wait(q, Key(q))
  /\ UNCHANGED storeVars

NewLoad(q) ==
  /\ Signed(q, "run") /\ ~InCache(q) /\ ~Loading(Key(q))
  /\ Wait(q, Key(q))
  /\ loads' = Append(loads, [key |-> Key(q), read |-> NothingRead])
  /\ cachedRun' = IF loads = << >> THEN NoRun ELSE cachedRun
  /\ UNCHANGED <<dir, written, summary>>

------------------------------------------------------------------------------
(* loadAndCacheRun, of the load at work.                                   *)

Load == loads[1]
Read == Load.read

LoadFile ==
  /\ loads # << >>
  /\ \E f \in Range(Required) \ DOMAIN Read :
       loads' = [loads EXCEPT ![1].read =
         [g \in DOMAIN Read \cup {f} |-> IF g = f THEN dir[Load.key.run][f] ELSE Read[g]]]
  /\ UNCHANGED <<dir, written, cachedRun, summary, request>>

KeyOf(q) == [run |-> Run(q), signature |-> request[q].stats]

Waits(q) == At(q, "wait") /\ KeyOf(q) = Load.key

(* The load is settled: its key is forgotten, and the next in line begins, *)
(* which empties the cache.                                                *)
Settle(cached) ==
  /\ loads' = Tail(loads)
  /\ cachedRun' = IF Len(loads) > 1 THEN NoRun ELSE cached
  /\ UNCHANGED <<dir, written>>

AllRead == loads # << >> /\ DOMAIN Read = Range(Required)

Artifacts == [run |-> Load.key.run, files |-> Read, hasReport |-> dir[Load.key.run][Report] > 0]

Keep(key) ==
  LET entry == [key |-> key, artifacts |-> Artifacts]
  IN  /\ Settle(entry)
      /\ summary' = [summary EXCEPT ![Load.key.run] = entry]
      /\ request' = [q \in Requests |-> IF Waits(q) THEN Served(request[q], Artifacts)
                                        ELSE request[q]]

(* Deliberate bug: the run is kept under the signature it has by now.      *)
LoadKeptAsOfNow ==
  /\ AllRead /\ Loadable(Read)
  /\ Keep([Load.key EXCEPT !.signature = [i \in DOMAIN Files |-> dir[Load.key.run][Files[i]]]])

LoadSucceeds == AllRead /\ Loadable(Read) /\ Keep(Load.key)

LoadRefused ==
  /\ AllRead /\ ~Loadable(Read)
  /\ Settle(NoRun)
  /\ request' = [q \in Requests |-> IF Waits(q) THEN Refused(request[q]) ELSE request[q]]
  /\ UNCHANGED summary

(* Deliberate bug: a failed load stays at the head of the line.            *)
LoadPoisons ==
  /\ loads # << >>
  /\ request' = [q \in Requests |-> IF Waits(q) THEN Idle ELSE request[q]]
  /\ UNCHANGED storeVars

LoadFails ==
  /\ loads # << >>
  /\ Settle(NoRun)
  /\ request' = [q \in Requests |-> IF Waits(q) THEN Idle ELSE request[q]]
  /\ UNCHANGED summary

StoreStep(q) ==
  Stat(q) \/ FromSummary(q) \/ LookForRun(q) \/ FromCache(q) \/ ShareLoad(q) \/ NewLoad(q) \/ GoOn(q)

LoadStep == LoadFile \/ LoadSucceeds \/ LoadRefused

StoreFault == LoadFails \/ \E q \in Requests : StatFails(q)
==============================================================================
