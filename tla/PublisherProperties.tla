-------------------------- MODULE PublisherProperties --------------------------
(***************************************************************************)
(* What the archive promises to those who read it.                         *)
(***************************************************************************)
EXTENDS ArchivePublisher

(* What is in the archive is a whole run, and as it was at one moment:     *)
(* never a mixture of files from before and after somebody's write.        *)
(* Failures recorded after the source was loaded may be missing.  The      *)
(* report was made of the same evidence, and the fingerprints are its own. *)
ArchiveIsOneMoment ==
  archive # NoArchive =>
    /\ Loadable(Whole(archive.evidence))
    /\ \E files \in past : archive.evidence = Restrict(files, DOMAIN archive.evidence)
    /\ archive.report = archive.evidence /\ archive.hashes = archive.evidence

(* What is in the archive stays there as it is, whoever publishes again.   *)
ArchiveNeverChanges == [][archive = NoArchive]_archive

(* A publisher that reports success has seen its own evidence in the       *)
(* archive, whether it put it there or found it, and it stays so.          *)
SuccessIsArchived ==
  \A p \in Publishers : publisher[p].pc = "done" => archive # NoArchive /\ SameEvidence(p)
==============================================================================
