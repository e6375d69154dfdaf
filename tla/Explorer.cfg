SPECIFICATION Spec
SYMMETRY Symmetry
CONSTANTS
  r1 = r1
  r2 = r2
  Runs = {r1, r2}
  Begun = {r2}
  Requests = {q1, q2}
  Kinds = {"list", "replay"}
  MaxWrites = 2
  NoRun = NoRun
  Bytes <- ReplayBytes
  MaxEntries = 2
  MaxBytes = 2
  Concurrency = 1
INVARIANTS
  AnswersAreCurrent
  ReplaysWithinBounds
  NobodyIsForgotten
