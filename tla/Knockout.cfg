SPECIFICATION Spec
CONSTANTS
  Advancers = 4
  WinsNeeded = 2
  GameCap = 3
  Lottery <- MCLottery
CHECK_DEADLOCK FALSE
INVARIANTS
  BracketIsATree
  EvaluationIsFair
