SPECIFICATION Spec
CONSTANTS
  Prices = {0, 1, 3}
  MaxBalances = 2
  MaxPages = 2
  Requests = {r1, r2}
INVARIANTS TypeOK PriceIsCovered RefundsAddUp
SYMMETRY MCSlots
CHECK_DEADLOCK FALSE
