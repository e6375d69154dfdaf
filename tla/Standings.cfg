SPECIFICATION Spec
CONSTANTS
  Size = 4
  InFlight = 2
  SwapSides <- MCSwapSides
  TieKey <- MCTieKey
CHECK_DEADLOCK FALSE
INVARIANTS
  StandingsFollowRules
PROPERTIES
  WinnerNeverDrops
