SPECIFICATION LiveSpec
CONSTANTS
  Price = 1
  Purse = 2
  MaxAttempts = 1
  MaxTries = 2
  Requests = {r1, r2}
  Retriable = TRUE
  Reliable = TRUE
INVARIANTS
  ZeroOwesNothing
  PointsNeverLost
  CapturedIsTaken
PROPERTIES
  CapturedIsFinal
  PaidIsRecorded
  PendingEnds
CHECK_DEADLOCK FALSE
