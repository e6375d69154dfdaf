---------------------------- MODULE PublisherProofs ----------------------------
(***************************************************************************)
(* Proofs about the publication of a run, for any number of publishers and *)
(* of writes to the source.  The moment an archive shows is the one at     *)
(* which its publisher looked for an archive: every fingerprint was taken  *)
(* before it, every copy after it, and versions never go back, so a copy   *)
(* that equals its fingerprint is the version of that moment.              *)
(***************************************************************************)
EXTENDS PublisherProperties, FiniteSetTheorems, SequenceTheorems, TLAPS

NameLists == {Required, Append(Required, Optional)}

LoadWork == [pc : {"load"}, read : Contents]
HashWork == [pc : {"hash"}, names : NameLists, read : Contents]
CopyWork == [pc : {"copy", "rename"}, names : NameLists, hashes : Contents, staged : Contents]
VerifyWork == [pc : {"verify"}, names : NameLists, hashes : Contents, staged : Contents,
               first : BOOLEAN]
DoneWork == [pc : {"done"}, names : NameLists, hashes : Contents]

WorkType == {Idle} \cup LoadWork \cup HashWork \cup CopyWork \cup VerifyWork \cup DoneWork

SourceStands == source \in [Files -> Nat] /\ source \in past /\ past \subseteq [Files -> Nat]

(* A moment after all of the fingerprints and before all of the copies.    *)
Between(w) ==
  \E files \in past : \A f \in Range(w.names) :
    /\ w.hashes[f] <= files[f] /\ files[f] <= source[f]
    /\ f \in DOMAIN w.staged => files[f] <= w.staged[f]

OneMoment(evidence) ==
  /\ Loadable(Whole(evidence))
  /\ \E files \in past : evidence = Restrict(files, DOMAIN evidence)

WorkStands(p) ==
  LET w == publisher[p]
  IN  /\ w.pc = "hash" => \A f \in DOMAIN w.read : f \in Range(w.names) /\ w.read[f] <= source[f]
      /\ w.pc \in {"copy", "rename", "verify"} => DOMAIN w.hashes = Range(w.names)
      /\ w.pc = "copy" => Between(w)
      /\ w.pc = "rename" => w.staged = w.hashes /\ OneMoment(w.staged)
      /\ w.pc = "verify" => archive # NoArchive /\ (w.first => w.staged = Empty /\ Between(w))
      /\ w.pc = "done" => archive # NoArchive /\ SameEvidence(p)

ArchiveStands ==
  archive # NoArchive =>
    /\ archive \in [evidence : Contents, report : Contents, hashes : Contents]
    /\ OneMoment(archive.evidence)
    /\ archive.report = archive.evidence /\ archive.hashes = archive.evidence

PublisherInv ==
  /\ SourceStands /\ ArchiveStands
  /\ publisher \in [Publishers -> WorkType]
  /\ \A p \in Publishers : WorkStands(p)

------------------------------------------------------------------------------
(* Files and contents.                                                     *)

LEMMA FileNames ==
  /\ Range(Required) = {"metadata", "results", "bracket"}
  /\ Range(Append(Required, Optional)) = {"metadata", "results", "bracket", "failures"}
  /\ Files = {"metadata", "results", "bracket", "failures"}
  BY DEF Range, Required, Optional, Files

LEMMA ListsOfFiles ==
  ASSUME NEW names \in NameLists
  PROVE  /\ Range(names) \subseteq Files
         /\ Len(names) \in Nat /\ \A i \in 1..Len(names) : names[i] \in Files
  <1>1. CASE names = Required
    <2>1. names = <<"metadata", "results", "bracket">>
      BY <1>1 DEF Required
    <2>2. Len(names) = 3
      BY <2>1
    <2>3. ASSUME NEW i \in 1..3 PROVE names[i] \in Files
      <3>1. i = 1 \/ i = 2 \/ i = 3
        OBVIOUS
      <3> QED BY <2>1, <3>1, FileNames
    <2> QED BY <1>1, <2>2, <2>3, FileNames
  <1>2. CASE names = Append(Required, Optional)
    <2>1. Required \in Seq(Files) /\ Len(Required) = 3 /\ Optional \in Files
      BY FileNames DEF Required, Optional
    <2>2. names \in Seq(Files) /\ Len(names) = 4
      <3>1. ASSUME NEW list \in Seq(Files), NEW file \in Files, Len(list) = 3
            PROVE  Append(list, file) \in Seq(Files) /\ Len(Append(list, file)) = 4
        <4>1. Append(list, file) \in Seq(Files) /\ Len(Append(list, file)) = Len(list) + 1
          BY AppendProperties, Zenon
        <4> QED BY ONLY <3>1, <4>1
      <3> QED BY ONLY <1>2, <2>1, <3>1
    <2> QED BY <1>2, <2>2, FileNames
  <1> QED BY <1>1, <1>2 DEF NameLists

LEMMA FilesFinite == IsFiniteSet(Files)
  <1>1. IsFiniteSet({"metadata"}) /\ IsFiniteSet({"results"}) /\ IsFiniteSet({"bracket"})
        /\ IsFiniteSet({"failures"})
    BY FS_Singleton
  <1>2. IsFiniteSet({"metadata"} \cup {"results"}) /\ IsFiniteSet({"bracket"} \cup {"failures"})
    BY <1>1, FS_Union
  <1>3. IsFiniteSet(({"metadata"} \cup {"results"}) \cup ({"bracket"} \cup {"failures"}))
    BY <1>2, FS_Union
  <1>4. Files = ({"metadata"} \cup {"results"}) \cup ({"bracket"} \cup {"failures"})
    BY FileNames
  <1> QED BY <1>3, <1>4

LEMMA ContentsAre ==
  \A files : files \in Contents <=> /\ DOMAIN files \subseteq Files
                                    /\ files \in [DOMAIN files -> Nat]
  BY DEF Contents

LEMMA EmptyContents == Empty \in Contents /\ DOMAIN Empty = {}
  BY DEF Empty, Contents

LEMMA PutContents ==
  ASSUME NEW files \in Contents, NEW f \in Files, NEW v \in Nat
  PROVE  /\ Put(files, f, v) \in Contents
         /\ DOMAIN Put(files, f, v) = DOMAIN files \cup {f}
         /\ \A x \in DOMAIN files \cup {f} : Put(files, f, v)[x] = IF x = f THEN v ELSE files[x]
  BY ContentsAre DEF Put

------------------------------------------------------------------------------
(* What the others do leaves a publisher's work alone.                     *)
Grows ==
  /\ past \subseteq past' /\ (archive = NoArchive \/ archive' = archive)
  /\ \A f \in Files : source[f] \in Nat /\ source'[f] \in Nat /\ source[f] <= source'[f]

LEMMA WorkStable ==
  ASSUME PublisherInv, Grows, NEW p \in Publishers, publisher'[p] = publisher[p]
  PROVE  WorkStands(p)'
  <1> DEFINE w == publisher[p]
  <1>1. w \in WorkType /\ WorkStands(p) /\ past \subseteq [Files -> Nat]
    BY DEF PublisherInv, SourceStands
  <1>2. CASE w.pc = "hash"
    <2>1. w \in HashWork
      BY <1>1, <1>2 DEF WorkType, Idle, LoadWork, CopyWork, VerifyWork, DoneWork
    <2>2. ASSUME NEW f \in DOMAIN w.read
          PROVE  f \in Range(w.names) /\ w.read[f] <= source'[f]
      <3>1. f \in Files /\ w.read[f] \in Nat
        BY <2>1, ContentsAre DEF HashWork
      <3> QED BY <1>1, <1>2, <3>1 DEF WorkStands, Grows
    <2> QED BY <1>2, <2>2 DEF WorkStands
  <1>3. ASSUME w.pc \in {"copy", "verify"}, Between(w) PROVE Between(w)'
    <2>1. w.hashes \in Contents /\ w.staged \in Contents /\ w.names \in NameLists
      BY <1>1, <1>3 DEF WorkType, Idle, LoadWork, HashWork, CopyWork, VerifyWork, DoneWork
    <2>2. PICK files \in past : \A f \in Range(w.names) :
            /\ w.hashes[f] <= files[f] /\ files[f] <= source[f]
            /\ f \in DOMAIN w.staged => files[f] <= w.staged[f]
      BY <1>3 DEF Between
    <2>3. \A f \in Range(w.names) : files[f] <= source'[f]
      BY <1>1, <2>1, <2>2, ListsOfFiles DEF Grows
    <2> QED BY <2>2, <2>3 DEF Between, Grows
  <1>4. ASSUME w.pc = "rename" PROVE OneMoment(w.staged)'
    BY <1>1, <1>4 DEF WorkStands, OneMoment, Grows
  <1> QED BY <1>1, <1>2, <1>3, <1>4
    DEF WorkStands, Grows, SameEvidence, HasAllFiles, WorkType, Idle, LoadWork, CopyWork,
        VerifyWork, DoneWork

------------------------------------------------------------------------------
(* A publisher moves: its work is new, and the others' stands.             *)
LEMMA PublisherMoves ==
  ASSUME PublisherInv, Grows, SourceStands', ArchiveStands', NEW p \in Publishers,
         NEW new \in WorkType, Go(p, new), WorkStands(p)'
  PROVE  PublisherInv'
  <1>1. publisher' \in [Publishers -> WorkType]
    BY DEF PublisherInv, Go
  <1>2. ASSUME NEW q \in Publishers, q # p PROVE WorkStands(q)'
    BY <1>2, WorkStable DEF PublisherInv, Go
  <1> QED BY <1>1, <1>2 DEF PublisherInv

LEMMA Quiet ==
  ASSUME PublisherInv, UNCHANGED <<source, past, archive>>
  PROVE  Grows /\ SourceStands' /\ ArchiveStands'
  <1>1. ArchiveStands'
    BY DEF PublisherInv, ArchiveStands, OneMoment
  <1> QED BY <1>1 DEF PublisherInv, Grows, SourceStands

(* The publisher gives up, has not begun, or begins to load.               *)
LEMMA Nothing ==
  ASSUME PublisherInv, UNCHANGED <<source, past, archive>>, NEW p \in Publishers,
         Fail(p) \/ Go(p, [pc |-> "load", read |-> Empty])
  PROVE  PublisherInv'
  <1>1. Idle \in WorkType /\ [pc |-> "load", read |-> Empty] \in WorkType
    BY EmptyContents DEF WorkType, LoadWork
  <1>2. WorkStands(p)'
    BY DEF WorkStands, Fail, Go, Idle, PublisherInv
  <1> QED BY <1>1, <1>2, Quiet, PublisherMoves DEF Fail

LEMMA LoadStep ==
  ASSUME PublisherInv, NEW p \in Publishers, Load(p)
  PROVE  PublisherInv'
  <1> DEFINE w == publisher[p]
  <1>1. w \in LoadWork /\ source \in [Files -> Nat]
    BY DEF Load, At, PublisherInv, SourceStands, WorkType, Idle, HashWork, CopyWork, VerifyWork, DoneWork
  <1>2. PICK f \in Files : Go(p, [w EXCEPT !.read = Put(w.read, f, source[f])])
    BY DEF Load, ReadFile
  <1>3. Put(w.read, f, source[f]) \in Contents
    BY <1>1, PutContents DEF LoadWork
  <1> DEFINE new == [w EXCEPT !.read = Put(w.read, f, source[f])]
  <1>4. new \in LoadWork /\ new.pc = "load"
    BY <1>1, <1>3 DEF LoadWork
  <1>5. publisher'[p] = new
    BY <1>2 DEF Go, PublisherInv
  <1>6. WorkStands(p)'
    BY <1>4, <1>5 DEF WorkStands
  <1>7. UNCHANGED <<source, past, archive>>
    BY DEF Load, ReadFile
  <1> QED BY <1>2, <1>4, <1>6, <1>7, Quiet, PublisherMoves DEF WorkType

LEMMA LoadedStep ==
  ASSUME PublisherInv, NEW p \in Publishers, Loaded(p)
  PROVE  PublisherInv'
  <1>1. UNCHANGED <<source, past, archive>>
    BY DEF Loaded
  <1>2. CASE Fail(p)
    BY <1>1, <1>2, Nothing
  <1>3. CASE ~Fail(p)
    <2>1. PICK names \in NameLists : Go(p, [pc |-> "hash", names |-> names, read |-> Empty])
      BY <1>3 DEF Loaded, SourceFiles, NameLists
    <2>2. [pc |-> "hash", names |-> names, read |-> Empty] \in WorkType
      BY EmptyContents DEF WorkType, HashWork
    <2>3. WorkStands(p)'
      BY <2>1, EmptyContents DEF WorkStands, Go, PublisherInv
    <2> QED BY <1>1, <2>1, <2>2, <2>3, Quiet, PublisherMoves
  <1> QED BY <1>2, <1>3

LEMMA FingerprintStep ==
  ASSUME PublisherInv, NEW p \in Publishers, Fingerprint(p)
  PROVE  PublisherInv'
  <1> DEFINE w == publisher[p]
  <1>1. /\ w \in HashWork /\ w.pc = "hash" /\ source \in [Files -> Nat] /\ WorkStands(p)
    BY DEF Fingerprint, At, PublisherInv, SourceStands, WorkType, Idle, LoadWork, CopyWork,
           VerifyWork, DoneWork
  <1>2. PICK f \in Range(w.names) : Go(p, [w EXCEPT !.read = Put(w.read, f, source[f])])
    BY DEF Fingerprint, ReadFile
  <1>3. f \in Files
    BY <1>1, ListsOfFiles DEF HashWork
  <1> DEFINE read == Put(w.read, f, source[f])
             new == [w EXCEPT !.read = read]
  <1>4. /\ read \in Contents /\ DOMAIN read = DOMAIN w.read \cup {f}
        /\ \A x \in DOMAIN read : read[x] = IF x = f THEN source[f] ELSE w.read[x]
    <2>1. w.read \in Contents /\ source[f] \in Nat
      BY <1>1, <1>3 DEF HashWork
    <2>2. read \in Contents
      BY <1>3, <2>1, PutContents
    <2>3. DOMAIN read = DOMAIN w.read \cup {f}
      BY <1>3, <2>1, PutContents
    <2>4. \A x \in DOMAIN w.read \cup {f} : read[x] = IF x = f THEN source[f] ELSE w.read[x]
      BY DEF Put
    <2> HIDE DEF read
    <2> QED BY <2>2, <2>3, <2>4
  <1>5. source[f] <= source[f]
    BY <1>1, <1>3
  <1>6. /\ new \in HashWork /\ new.pc = "hash" /\ new.read = read /\ new.names = w.names
    BY <1>1, <1>4 DEF HashWork
  <1>7. publisher'[p] = new /\ UNCHANGED <<source, past, archive>>
    BY <1>2 DEF Go, PublisherInv, Fingerprint, ReadFile
  <1> HIDE DEF new, read
  <1>8. ASSUME NEW x \in DOMAIN read PROVE x \in Range(w.names) /\ read[x] <= source[x]
    BY <1>1, <1>4, <1>5 DEF WorkStands
  <1>9. WorkStands(p)'
    BY <1>6, <1>7, <1>8 DEF WorkStands
  <1> QED BY <1>2, <1>6, <1>7, <1>9, Quiet, PublisherMoves DEF WorkType, new, read

(* The moment: no file was fingerprinted later, and none is copied yet.    *)
LEMMA LookForArchiveStep ==
  ASSUME PublisherInv, NEW p \in Publishers, LookForArchive(p)
  PROVE  PublisherInv'
  <1> DEFINE w == publisher[p]
             copying == [pc |-> "copy", names |-> w.names, hashes |-> w.read, staged |-> Empty]
             verifying == [pc |-> "verify", names |-> w.names, hashes |-> w.read, staged |-> Empty,
                           first |-> TRUE]
  <1>1. /\ w \in HashWork /\ w.pc = "hash" /\ SourceStands /\ WorkStands(p)
        /\ DOMAIN w.read = Range(w.names)
    BY DEF LookForArchive, At, PublisherInv, WorkType, Idle, LoadWork, CopyWork, VerifyWork, DoneWork
  <1>2. UNCHANGED <<source, past, archive>>
    BY DEF LookForArchive
  <1>3. \A f \in Range(w.names) : w.read[f] <= source[f] /\ source[f] <= source[f]
    BY <1>1, ListsOfFiles DEF HashWork, SourceStands, WorkStands
  <1>4. ASSUME NEW new, new.names = w.names, new.hashes = w.read, new.staged = Empty
        PROVE  \E files \in past' : \A f \in Range(new.names) :
                 /\ new.hashes[f] <= files[f] /\ files[f] <= source'[f]
                 /\ f \in DOMAIN new.staged => files[f] <= new.staged[f]
    BY <1>1, <1>2, <1>3, <1>4, EmptyContents DEF SourceStands
  <1>5. CASE Go(p, copying)
    <2>1. copying \in CopyWork
      BY <1>1, EmptyContents DEF CopyWork, HashWork
    <2>2. publisher'[p] = copying
      BY <1>5 DEF Go, PublisherInv
    <2>3. WorkStands(p)'
      BY <1>1, <1>4, <2>2 DEF WorkStands, Between
    <2> QED BY <1>2, <1>5, <2>1, <2>3, Quiet, PublisherMoves DEF WorkType
  <1>6. CASE archive # NoArchive /\ Go(p, verifying)
    <2>1. verifying \in VerifyWork
      BY <1>1, EmptyContents DEF VerifyWork, HashWork
    <2>2. publisher'[p] = verifying
      BY <1>6 DEF Go, PublisherInv
    <2>3. WorkStands(p)'
      BY <1>1, <1>2, <1>4, <1>6, <2>2 DEF WorkStands, Between
    <2> QED BY <1>2, <1>6, <2>1, <2>3, Quiet, PublisherMoves DEF WorkType
  <1> QED BY <1>5, <1>6 DEF LookForArchive

(* A copy is at least as new as the moment.                                *)
LEMMA CopyStep ==
  ASSUME PublisherInv, NEW p \in Publishers, Copy(p)
  PROVE  PublisherInv'
  <1> DEFINE w == publisher[p]
  <1>1. /\ w \in CopyWork /\ w.pc = "copy" /\ source \in [Files -> Nat] /\ WorkStands(p)
    BY DEF Copy, At, PublisherInv, SourceStands, WorkType, Idle, LoadWork, HashWork, VerifyWork, DoneWork
  <1>2. w.names \in NameLists /\ w.staged \in Contents
    BY <1>1 DEF CopyWork
  <1>3. PICK f : /\ f = w.names[Cardinality(DOMAIN w.staged) + 1]
                 /\ Go(p, [w EXCEPT !.staged = Put(w.staged, f, source[f])])
    BY DEF Copy
  <1>4. f \in Files
    <2>1. IsFiniteSet(DOMAIN w.staged)
      BY <1>2, FilesFinite, ContentsAre, FS_Subset
    <2>2. Cardinality(DOMAIN w.staged) \in Nat
      BY <2>1, FS_CardinalityType
    <2>3. Cardinality(DOMAIN w.staged) < Len(w.names)
      BY DEF Copy
    <2> QED BY <1>2, <1>3, <2>2, <2>3, ListsOfFiles
  <1> DEFINE staged == Put(w.staged, f, source[f])
             new == [w EXCEPT !.staged = staged]
  <1>5. /\ staged \in Contents /\ DOMAIN staged = DOMAIN w.staged \cup {f}
        /\ \A x \in DOMAIN w.staged \cup {f} : staged[x] = IF x = f THEN source[f] ELSE w.staged[x]
    <2>1. w.staged \in Contents /\ source[f] \in Nat
      BY <1>1, <1>2, <1>4
    <2>2. staged \in Contents
      BY <1>4, <2>1, PutContents
    <2>3. DOMAIN staged = DOMAIN w.staged \cup {f}
      BY <1>4, <2>1, PutContents
    <2>4. \A x \in DOMAIN w.staged \cup {f} : staged[x] = IF x = f THEN source[f] ELSE w.staged[x]
      BY DEF Put
    <2> HIDE DEF staged
    <2> QED BY <2>2, <2>3, <2>4
  <1>6. /\ new \in CopyWork /\ new.pc = "copy" /\ new.staged = staged /\ new.names = w.names
        /\ new.hashes = w.hashes
    BY <1>1, <1>5 DEF CopyWork
  <1>7. publisher'[p] = new /\ UNCHANGED <<source, past, archive>>
    BY <1>3 DEF Go, PublisherInv, Copy
  <1> HIDE DEF new, staged
  <1>8. PICK files \in past : \A x \in Range(w.names) :
          /\ w.hashes[x] <= files[x] /\ files[x] <= source[x]
          /\ x \in DOMAIN w.staged => files[x] <= w.staged[x]
    BY <1>1 DEF WorkStands, Between
  <1>9. \A x \in Range(w.names) : x \in DOMAIN staged => files[x] <= staged[x]
    BY <1>5, <1>8
  <1>10. WorkStands(p)'
    BY <1>1, <1>6, <1>7, <1>8, <1>9 DEF WorkStands, Between
  <1> QED BY <1>3, <1>6, <1>7, <1>10, Quiet, PublisherMoves DEF WorkType, new, staged

(* A copy that equals its fingerprints is the source of the moment.        *)
LEMMA CheckCopyStep ==
  ASSUME PublisherInv, NEW p \in Publishers, CheckCopy(p)
  PROVE  PublisherInv'
  <1> DEFINE w == publisher[p]
             new == [w EXCEPT !.pc = "rename"]
  <1>1. /\ w \in CopyWork /\ w.pc = "copy" /\ SourceStands /\ WorkStands(p)
        /\ UNCHANGED <<source, past, archive>>
    BY DEF CheckCopy, Copied, At, PublisherInv, WorkType, Idle, LoadWork, HashWork, VerifyWork, DoneWork
  <1>2. CASE Fail(p)
    BY <1>1, <1>2, Nothing
  <1>3. CASE Loadable(Whole(w.staged)) /\ w.staged = w.hashes /\ Go(p, new)
    <2>1. /\ new \in CopyWork /\ new.pc = "rename" /\ new.names = w.names /\ new.staged = w.staged
          /\ new.hashes = w.hashes
      BY <1>1 DEF CopyWork
    <2>2. publisher'[p] = new
      BY <1>3 DEF Go, PublisherInv
    <2>3. /\ w.names \in NameLists /\ w.staged \in Contents /\ DOMAIN w.staged = Range(w.names)
      BY <1>1, <1>3 DEF CopyWork, WorkStands
    <2>4. PICK files \in past : \A f \in Range(w.names) :
            /\ w.hashes[f] <= files[f] /\ files[f] <= source[f]
            /\ f \in DOMAIN w.staged => files[f] <= w.staged[f]
      BY <1>1 DEF WorkStands, Between
    <2>5. \A f \in DOMAIN w.staged : w.staged[f] = files[f]
      <3>1. files \in [Files -> Nat] /\ Range(w.names) \subseteq Files
        BY <1>1, <2>3, <2>4, ListsOfFiles DEF SourceStands
      <3>2. ASSUME NEW f \in DOMAIN w.staged PROVE w.staged[f] = files[f]
        <4>1. w.staged[f] \in Nat /\ files[f] \in Nat
          BY <2>3, <3>1, ContentsAre
        <4>2. w.staged[f] <= files[f] /\ files[f] <= w.staged[f]
          BY <1>3, <2>3, <2>4
        <4> QED BY ONLY <4>1, <4>2
      <3> QED BY <3>2
    <2>6. w.staged = Restrict(files, DOMAIN w.staged)
      BY <2>3, <2>5, ContentsAre DEF Restrict
    <2>7. OneMoment(w.staged)
      BY <1>3, <2>4, <2>6 DEF OneMoment
    <2> HIDE DEF new
    <2>8. WorkStands(p)'
      BY <1>1, <1>3, <2>1, <2>2, <2>3, <2>7 DEF WorkStands, OneMoment
    <2> QED BY <1>1, <1>3, <2>1, <2>8, Quiet, PublisherMoves DEF WorkType
  <1> QED BY <1>2, <1>3 DEF CheckCopy

LEMMA RenameStep ==
  ASSUME PublisherInv, NEW p \in Publishers, Rename(p)
  PROVE  PublisherInv'
  <1> DEFINE w == publisher[p]
             new == [pc |-> "done", names |-> w.names, hashes |-> w.hashes]
  <1>1. /\ w \in CopyWork /\ w.pc = "rename" /\ SourceStands /\ WorkStands(p)
    BY DEF Rename, At, PublisherInv, WorkType, Idle, LoadWork, HashWork, VerifyWork, DoneWork
  <1>2. /\ w.staged = w.hashes /\ OneMoment(w.staged) /\ DOMAIN w.hashes = Range(w.names)
        /\ w.names \in NameLists /\ w.staged \in Contents
    BY <1>1 DEF WorkStands, CopyWork
  <1>3. /\ archive = NoArchive /\ Go(p, new) /\ UNCHANGED <<source, past>>
        /\ archive' = [evidence |-> w.staged, report |-> w.staged, hashes |-> w.hashes]
    BY DEF Rename, Done, Published
  <1>4. archive' \in [evidence : Contents, report : Contents, hashes : Contents]
    BY <1>2, <1>3
  <1>5. archive' # NoArchive
    BY <1>4, PublisherAssumption
  <1>6. ArchiveStands' /\ SourceStands' /\ Grows
    BY <1>1, <1>2, <1>3, <1>4 DEF ArchiveStands, OneMoment, SourceStands, Grows
  <1>7. new \in WorkType
    BY <1>2 DEF WorkType, DoneWork
  <1>8. publisher'[p] = new
    BY <1>3 DEF Go, PublisherInv
  <1>9. w.staged = Restrict(w.staged, Range(w.names))
    BY <1>2, ContentsAre DEF Restrict
  <1>10. WorkStands(p)'
    BY <1>2, <1>3, <1>5, <1>8, <1>9 DEF WorkStands, SameEvidence, HasAllFiles
  <1> QED BY <1>3, <1>6, <1>7, <1>10, PublisherMoves

LEMMA RenameRefusedStep ==
  ASSUME PublisherInv, NEW p \in Publishers, RenameRefused(p)
  PROVE  PublisherInv'
  <1> DEFINE w == publisher[p]
             new == [pc |-> "verify", names |-> w.names, hashes |-> w.hashes, staged |-> w.staged,
                     first |-> FALSE]
  <1>1. /\ w \in CopyWork /\ w.pc = "rename" /\ WorkStands(p) /\ archive # NoArchive
        /\ UNCHANGED <<source, past, archive>>
    BY DEF RenameRefused, At, PublisherInv, WorkType, Idle, LoadWork, HashWork, VerifyWork, DoneWork
  <1>2. new \in VerifyWork
    BY <1>1 DEF CopyWork, VerifyWork
  <1>3. Go(p, new) /\ publisher'[p] = new
    BY DEF RenameRefused, Go, PublisherInv
  <1>4. WorkStands(p)'
    BY <1>1, <1>3 DEF WorkStands
  <1> QED BY <1>1, <1>2, <1>3, <1>4, Quiet, PublisherMoves DEF WorkType

LEMMA VerifySteps ==
  ASSUME PublisherInv, NEW p \in Publishers, VerifyExisting(p) \/ FileMissing(p)
  PROVE  PublisherInv'
  <1> DEFINE w == publisher[p]
             finished == [pc |-> "done", names |-> w.names, hashes |-> w.hashes]
             copying == [pc |-> "copy", names |-> w.names, hashes |-> w.hashes, staged |-> Empty]
  <1>1. /\ w \in VerifyWork /\ w.pc = "verify" /\ WorkStands(p)
        /\ UNCHANGED <<source, past, archive>>
    BY DEF VerifyExisting, FileMissing, At, PublisherInv, WorkType, Idle, LoadWork, HashWork, CopyWork,
           DoneWork
  <1>2. /\ w.names \in NameLists /\ w.hashes \in Contents /\ archive # NoArchive
        /\ DOMAIN w.hashes = Range(w.names)
    BY <1>1 DEF VerifyWork, WorkStands
  <1>3. CASE VerifyExisting(p)
    <2>1. Go(p, finished) /\ SameEvidence(p) /\ publisher'[p] = finished
      BY <1>3 DEF VerifyExisting, Done, Go, PublisherInv
    <2>2. finished \in WorkType
      BY <1>2 DEF WorkType, DoneWork
    <2>3. WorkStands(p)'
      BY <1>1, <1>2, <2>1 DEF WorkStands, SameEvidence, HasAllFiles
    <2> QED BY <1>1, <2>1, <2>2, <2>3, Quiet, PublisherMoves
  <1>4. CASE FileMissing(p) /\ w.first
    <2>1. Go(p, copying) /\ publisher'[p] = copying
      BY <1>4 DEF FileMissing, Go, PublisherInv
    <2>2. copying \in WorkType
      BY <1>2, EmptyContents DEF WorkType, CopyWork
    <2>3. PICK files \in past : \A f \in Range(w.names) :
            w.hashes[f] <= files[f] /\ files[f] <= source[f]
      BY <1>1, <1>4 DEF WorkStands, Between
    <2>4. WorkStands(p)'
      BY <1>1, <1>2, <2>1, <2>3, EmptyContents DEF WorkStands, Between
    <2> QED BY <1>1, <2>1, <2>2, <2>4, Quiet, PublisherMoves
  <1>5. CASE FileMissing(p) /\ ~w.first
    BY <1>1, <1>5, Nothing DEF FileMissing
  <1> QED BY <1>3, <1>4, <1>5

LEMMA WriteStep ==
  ASSUME PublisherInv, NEW f \in Files, Write(f)
  PROVE  PublisherInv'
  <1>1. /\ source \in [Files -> Nat] /\ source' = [source EXCEPT ![f] = source[f] + 1]
        /\ past' = past \cup {source'} /\ UNCHANGED <<archive, publisher>>
    BY DEF Write, PublisherInv, SourceStands
  <1>2. source' \in [Files -> Nat] /\ \A g \in Files : source[g] <= source'[g]
    BY <1>1
  <1>3. SourceStands' /\ Grows
    BY <1>1, <1>2 DEF SourceStands, Grows, PublisherInv
  <1>4. ArchiveStands'
    BY <1>1 DEF ArchiveStands, PublisherInv, OneMoment
  <1> QED BY <1>1, <1>3, <1>4, WorkStable DEF PublisherInv

LEMMA PublisherInit == Init => PublisherInv
  <1> SUFFICES ASSUME Init PROVE PublisherInv
    OBVIOUS
  <1>1. source \in [Files -> Nat]
    BY FileNames DEF Init, Optional
  <1> QED BY <1>1
    DEF Init, PublisherInv, SourceStands, ArchiveStands, WorkType, WorkStands, Idle

------------------------------------------------------------------------------
(* Fingerprints, moment and copies stand in that order for every publisher *)
(* at work: the inductive invariant of publication.                        *)
THEOREM PublisherIsSound == Spec => []PublisherInv
  <1>1. ASSUME PublisherInv, Next PROVE PublisherInv'
    <2>1. ASSUME NEW p \in Publishers, Start(p) \/ DifferentEvidence(p) \/ Break(p)
          PROVE  PublisherInv'
      BY <1>1, <2>1, Nothing DEF Start, DifferentEvidence, Break
    <2> QED BY <1>1, <2>1, LoadStep, LoadedStep, FingerprintStep, LookForArchiveStep, CopyStep,
               CheckCopyStep, RenameStep, RenameRefusedStep, VerifySteps, WriteStep DEF Next, Step
  <1>2. ASSUME PublisherInv, UNCHANGED vars PROVE PublisherInv'
    BY <1>2, Quiet, WorkStable DEF vars, PublisherInv
  <1> QED BY PublisherInit, <1>1, <1>2, PTL DEF Spec

(* The archive shows the run as it was at one moment, whoever wrote to the *)
(* state directory while it was published.                                 *)
THEOREM ArchivedMomentIsOne == Spec => []ArchiveIsOneMoment
  <1>1. PublisherInv => ArchiveIsOneMoment
    BY DEF PublisherInv, ArchiveStands, OneMoment, ArchiveIsOneMoment
  <1> QED BY PublisherIsSound, <1>1, PTL

(* Who reports success has its evidence in the archive.                    *)
THEOREM SuccessMeansArchived == Spec => []SuccessIsArchived
  <1>1. PublisherInv => SuccessIsArchived
    BY DEF PublisherInv, WorkStands, SuccessIsArchived
  <1> QED BY PublisherIsSound, <1>1, PTL

(* No publisher replaces or changes what is in the archive.                *)
THEOREM ArchiveStays == Spec => ArchiveNeverChanges
  <1>1. [Next]_vars => [archive = NoArchive]_archive
    BY DEF Next, vars, Start, Step, Break, Write, Load, Loaded, Fingerprint, ReadFile, LookForArchive,
           Copy, CheckCopy, Rename, RenameRefused, VerifyExisting, FileMissing, DifferentEvidence
  <1> QED BY <1>1, PTL DEF Spec, ArchiveNeverChanges
==============================================================================
