SPECIFICATION LiveSpec
CONSTANTS
  GroupMatches = 1
  Rounds = 2
  WinsNeeded = 1
  GameCap = 2
  Outcomes = {"entrant1", "tie"}
  Cadence = 2
  Concurrency = 2
INVARIANTS
  EvidenceRecoverable
  CheckpointBacked
  BarrierOrder
  RequestsAreNew
  CompletedRunIsCanonical
  RecoveryIsExact
PROPERTIES
  CheckpointNeverRegresses
  KeepsPromise
  KnockoutExecutorAcceptsPlan
  EventuallyTerminal
  StopEnds
