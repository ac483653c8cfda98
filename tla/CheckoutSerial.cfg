SPECIFICATION Spec
CONSTANTS
  Price = 2
  Purse = 1
  MaxAttempts = 2
  MaxTries = 2
  Requests = {r1}
  Retriable = TRUE
  Reliable = FALSE
INVARIANTS
  TypeOK
  OneConfirmation
  NoFalseAlarm
  PointsReturnedOnce
PROPERTIES
  CancelReturnsPoints
CHECK_DEADLOCK FALSE
