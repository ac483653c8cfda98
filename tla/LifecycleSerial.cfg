SPECIFICATION Spec
CONSTANTS
  b1 = b1
  b2 = b2
  n1 = n1
  n2 = n2
  Bookings = {b1, b2}
  Nannies = {n1, n2}
  Slots = {s1, s2}
  Requests = {r1}
  Covered = {b2}
  Routed = {b1}
  NoNanny = NoNanny
SYMMETRY Symmetry
INVARIANTS
  TypeOK
  NoDoubleBooking
  LiveHasNanny
PROPERTIES
  ImplementsAbstract
CHECK_DEADLOCK FALSE
