SPECIFICATION Spec
CONSTANTS
  b1 = b1
  b2 = b2
  e1 = e1
  Buckets = {p1, p2}
  Wanted <- MCWanted
  Bookings <- MCBookings
  Extensions = {e1}
  Of <- MCOf
  Underway <- MCUnderway
  Size = 2
  Requests = {r1, r2}
INVARIANTS TypeOK BucketsBalance CancelReturnsHours
SYMMETRY MCAlike
CHECK_DEADLOCK FALSE
