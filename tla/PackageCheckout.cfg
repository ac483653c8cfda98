SPECIFICATION LiveSpec
CONSTANTS
  Purchases <- MCPurchases
  MaxAttempts = 2
  MaxTries = 2
  Requests = {r1, r2}
INVARIANTS TypeOK
PROPERTIES CapturedIsFinal StrandedBehindActive PaidIsRecorded
CHECK_DEADLOCK FALSE
