SPECIFICATION ServiceLiveSpec
CONSTANTS
  Battles = {b1}
  Replays = {p1, p2}
  MaxAttempts = 2
  Requests <- MCRequests
  Attempts <- MCAttempts
  Jobs <- MCJobs
  MaxConcurrent = 1
  MaxQueued = 2
CHECK_DEADLOCK FALSE
INVARIANTS
  SlotsAccountedFor
  NobodyWaitsBesideFreeSlot
  NoCallIsLost
  OneLiveAttempt
  AnswersAreOwn
PROPERTIES
  ArrivalOrder
  NobodyWaitsForEver
