SPECIFICATION LiveSpec
CONSTANTS
  Runs = {r1}
  Settings = {s1}
  Calls = {q1}
  MaxAttempts = 2
  NoRun = NoRun
PROPERTIES
  RunGetsThrough
  PauseTakesHold
