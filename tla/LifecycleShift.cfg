SPECIFICATION Spec
CONSTANTS
  b1 = b1
  b2 = b2
  n1 = n1
  n2 = n2
  Bookings = {b1}
  Nannies = {n1, n2}
  Slots = {s1}
  Requests = {r1, r2}
  Covered = {}
  Routed = {}
  NoNanny = NoNanny
SYMMETRY Symmetry
PROPERTY NoPartyCancelsShift
CHECK_DEADLOCK FALSE
