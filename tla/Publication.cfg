SPECIFICATION Spec
CONSTANTS
  Publishers = {p1, p2}
  MaxWrites = 3
  NoArchive = NoArchive
SYMMETRY Symmetry
INVARIANTS
  ArchiveIsOneMoment
  SuccessIsArchived
