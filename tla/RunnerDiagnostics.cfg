SPECIFICATION Spec
CONSTANTS
  GroupMatches = 1
  Rounds = 1
  WinsNeeded = 1
  GameCap = 2
  Outcomes = {"entrant1", "tie"}
  Cadence = 2
  Concurrency = 1
INVARIANTS
  CompletedRunIsPublishable
