SPECIFICATION Spec
CONSTANTS
  Runs = {r1, r2}
  Settings = {s1, s2}
  Calls = {q1}
  MaxAttempts = 2
  NoRun = NoRun
SYMMETRY Symmetry
INVARIANTS
  SlotCoversJobs
  PublisherIsAlone
  CompletedIsArchived
PROPERTIES
  DecisionsStand
  ReleasedOnlyWhenOver
