SPECIFICATION Spec
CONSTANTS
  ann = ann
  beth = beth
  shift = shift
  NoMother = NoMother
  Mothers <- MCMothers
  Bookings <- MCBookings
  Owner <- MCOwner
  Grants <- MCGrants
  Earn = 1
  Cost = 1
  Welcome = 1
  Bonus = 1
  MaxRows = 2
  Requests = {r1, r2}
INVARIANT StatementsAddUp
CHECK_DEADLOCK FALSE
