SPECIFICATION Spec
CONSTANTS
  GroupMatches = 4
  Rounds = 1
  WinsNeeded = 2
  GameCap = 3
  Outcomes = {"entrant1", "entrant2", "tie"}
  Cadence = 2
  Concurrency = 3
INVARIANTS
  UniqueResults
  ExecutorFinishesStage
  MemoryMatchesLog
  ProvisionalStandingsCurrent
PROPERTIES
  TerminalIsFinal
  GroupExecutorAcceptsPlan
