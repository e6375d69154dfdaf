SPECIFICATION Spec
CONSTANTS
  Runs = {r1}
  Settings = {s1}
  Calls = {q1}
  MaxAttempts = 1
  NoRun = NoRun
INVARIANTS
  PausedIsDrained
