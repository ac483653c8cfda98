SPECIFICATION Spec
CONSTANTS
  Prices = {1, 2, 3}
  MaxBalances = 2
  MaxPages = 1
  Requests = {r1}
PROPERTY BalanceIsDifference
CHECK_DEADLOCK FALSE
