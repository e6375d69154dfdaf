--------------------------- MODULE ArchivePublisher ---------------------------
(***************************************************************************)
(* Publication of a completed run (publish-cli.js): its evidence is read   *)
(* and checked, fingerprinted, copied into a staging directory of the      *)
(* publisher's own, checked again there, and renamed into the archive.     *)
(*                                                                         *)
(* A publisher may die between any two steps and be started again, and     *)
(* several may be at work on one run.  The source is another disk; it may  *)
(* be written while it is read, one file after the other.                  *)
(***************************************************************************)
EXTENDS Naturals, FiniteSets, Sequences, Functions

CONSTANTS
  Publishers,    \* publisher processes that may be at work at once
  MaxWrites,     \* bound: writes of files of the source
  NoArchive      \* the archive has no directory for the run

VARIABLES
  source,    \* the run's state directory: the version of each file
  past,      \* history: every content the state directory has had
  archive,   \* the run's directory in the archive
  publisher  \* the publisher processes

vars == <<source, past, archive, publisher>>

(* The files stand for three kinds of evidence: what identifies the run,   *)
(* what was played, and what must follow from it.  failures.jsonl is       *)
(* optional.  Version 0 is a run in progress, or an absent optional file.  *)
Required == <<"metadata", "results", "bracket">>
Optional == "failures"
Files == Range(Required) \cup {Optional}

(* loadTournamentArtifacts and the check for duplicates: metadata says     *)
(* completed, and what was played is whole and leads to the bracket.       *)
Loadable(files) == files["metadata"] > 0 /\ files["results"] = files["bracket"]

(* sourceFiles: failures.jsonl is evidence if it was there to be loaded.   *)
SourceFiles(files) ==
  IF files[Optional] > 0 THEN Append(Required, Optional) ELSE Required

(* What NoArchive must not be mistaken for.                                *)
Contents == UNION {[names -> Nat] : names \in SUBSET Files}

ASSUME PublisherAssumption ==
  NoArchive \notin [evidence : Contents, report : Contents, hashes : Contents]

(* A directory without the optional file, or with it, as the loader sees.  *)
Whole(files) == [f \in Files |-> IF f \in DOMAIN files THEN files[f] ELSE 0]

Empty == [f \in {} |-> 0]
Put(files, f, v) == [x \in DOMAIN files \cup {f} |-> IF x = f THEN v ELSE files[x]]
Idle == [pc |-> "idle"]

Init ==
  /\ source \in {[f \in Files |-> CASE f \in {"results", "bracket"} -> 1
                                     [] f = Optional -> 0
                                     [] OTHER -> v] : v \in {0, 1}}
  /\ past = {source}
  /\ archive = NoArchive
  /\ publisher = [p \in Publishers |-> Idle]

------------------------------------------------------------------------------
At(p, pc) == publisher[p].pc = pc

Go(p, state) == publisher' = [publisher EXCEPT ![p] = state]

(* The process ends with an error, and may be started again.               *)
Fail(p) == Go(p, Idle)

Start(p) ==
  /\ publisher[p].pc \in {"idle", "done"}
  /\ Go(p, [pc |-> "load", read |-> Empty])
  /\ UNCHANGED <<source, past, archive>>

(* The loader and the fingerprints read all files at the same time.        *)
ReadFile(p, wanted) ==
  /\ \E f \in wanted \ DOMAIN publisher[p].read :
       Go(p, [publisher[p] EXCEPT !.read = Put(@, f, source[f])])
  /\ UNCHANGED <<source, past, archive>>

Load(p) == At(p, "load") /\ ReadFile(p, Files)

Loaded(p) ==
  /\ At(p, "load") /\ DOMAIN publisher[p].read = Files
  /\ LET files == publisher[p].read
     IN  IF Loadable(files)
         THEN Go(p, [pc |-> "hash", names |-> SourceFiles(files), read |-> Empty])
         ELSE Fail(p)
  /\ UNCHANGED <<source, past, archive>>

Fingerprint(p) == At(p, "hash") /\ ReadFile(p, Range(publisher[p].names))

(* lstat(destination)                                                      *)
LookForArchive(p) ==
  /\ At(p, "hash") /\ DOMAIN publisher[p].read = Range(publisher[p].names)
  /\ LET hashes == publisher[p].read
     IN  Go(p, IF archive = NoArchive
               THEN [pc |-> "copy", names |-> publisher[p].names, hashes |-> hashes,
                     staged |-> Empty]
               ELSE [pc |-> "verify", names |-> publisher[p].names, hashes |-> hashes,
                     staged |-> Empty, first |-> TRUE])
  /\ UNCHANGED <<source, past, archive>>

Copy(p) ==
  /\ At(p, "copy") /\ Cardinality(DOMAIN publisher[p].staged) < Len(publisher[p].names)
  /\ LET f == publisher[p].names[Cardinality(DOMAIN publisher[p].staged) + 1]
     IN  Go(p, [publisher[p] EXCEPT !.staged = Put(@, f, source[f])])
  /\ UNCHANGED <<source, past, archive>>

Copied(p) == /\ At(p, "copy")
             /\ Cardinality(DOMAIN publisher[p].staged) = Len(publisher[p].names)

(* Deliberate bug: only the copy's own consistency is looked at.           *)
CheckCopyAlone(p) ==
  /\ Copied(p)
  /\ IF Loadable(Whole(publisher[p].staged))
     THEN Go(p, [publisher[p] EXCEPT !.pc = "rename"])
     ELSE Fail(p)
  /\ UNCHANGED <<source, past, archive>>

(* The staged copy is loaded, and compared with the fingerprints of the    *)
(* source; then its report and publication.json are written beside it.     *)
CheckCopy(p) ==
  /\ Copied(p)
  /\ IF Loadable(Whole(publisher[p].staged)) /\ publisher[p].staged = publisher[p].hashes
     THEN Go(p, [publisher[p] EXCEPT !.pc = "rename"])
     ELSE Fail(p)
  /\ UNCHANGED <<source, past, archive>>

Published(p) ==
  [evidence |-> publisher[p].staged, report |-> publisher[p].staged,
   hashes |-> publisher[p].hashes]

Done(p) == Go(p, [pc |-> "done", names |-> publisher[p].names, hashes |-> publisher[p].hashes])

(* A rename does not replace a directory that has files.                   *)
Rename(p) ==
  /\ At(p, "rename") /\ archive = NoArchive
  /\ archive' = Published(p) /\ Done(p)
  /\ UNCHANGED <<source, past>>

RenameRefused(p) ==
  /\ At(p, "rename") /\ archive # NoArchive
  /\ Go(p, [pc |-> "verify", names |-> publisher[p].names, hashes |-> publisher[p].hashes,
            staged |-> publisher[p].staged, first |-> FALSE])
  /\ UNCHANGED <<source, past, archive>>

(* verifyExisting                                                          *)
HasAllFiles(p) == Range(publisher[p].names) \subseteq DOMAIN archive.evidence

SameEvidence(p) ==
  HasAllFiles(p) /\ Restrict(archive.evidence, Range(publisher[p].names)) = publisher[p].hashes

(* Deliberate bug: an archive of the run is taken for this evidence.       *)
AdoptExisting(p) ==
  /\ At(p, "verify") /\ Loadable(Whole(archive.evidence))
  /\ Done(p) /\ UNCHANGED <<source, past, archive>>

VerifyExisting(p) ==
  /\ At(p, "verify") /\ Loadable(Whole(archive.evidence)) /\ SameEvidence(p)
  /\ Done(p) /\ UNCHANGED <<source, past, archive>>

(* A file that the archive lacks fails with the code that also says "no    *)
(* archive": the first time, the publisher goes on and copies in vain.     *)
FileMissing(p) ==
  /\ At(p, "verify") /\ Loadable(Whole(archive.evidence)) /\ ~HasAllFiles(p)
  /\ IF publisher[p].first
     THEN Go(p, [pc |-> "copy", names |-> publisher[p].names,
                 hashes |-> publisher[p].hashes, staged |-> Empty])
     ELSE Fail(p)
  /\ UNCHANGED <<source, past, archive>>

DifferentEvidence(p) ==
  /\ At(p, "verify")
  /\ Loadable(Whole(archive.evidence)) => HasAllFiles(p) /\ ~SameEvidence(p)
  /\ Fail(p) /\ UNCHANGED <<source, past, archive>>

Working(p) == publisher[p].pc \in {"load", "hash", "copy", "rename", "verify"}

(* The process dies, or a file operation fails; a staging directory left   *)
(* behind has a name of its own and is never looked at again.              *)
Break(p) == Working(p) /\ Fail(p) /\ UNCHANGED <<source, past, archive>>

(* Somebody writes a file of the state directory.                          *)
Write(f) ==
  /\ Cardinality(past) <= MaxWrites
  /\ source' = [source EXCEPT ![f] = @ + 1]
  /\ past' = past \cup {source'}
  /\ UNCHANGED <<archive, publisher>>

Step(p) ==
  \/ Load(p) \/ Loaded(p) \/ Fingerprint(p) \/ LookForArchive(p) \/ Copy(p)
  \/ CheckCopy(p) \/ Rename(p) \/ RenameRefused(p) \/ VerifyExisting(p)
  \/ FileMissing(p) \/ DifferentEvidence(p)

Next ==
  \/ \E p \in Publishers : Start(p) \/ Step(p) \/ Break(p)
  \/ \E f \in Files : Write(f)

Spec == Init /\ [][Next]_vars
==============================================================================
