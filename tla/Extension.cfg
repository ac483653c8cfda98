SPECIFICATION LiveSpec
CONSTANTS
  Extensions = {e1, e2}
  Requests = {r1}
  Hours = 2
  Purse = 2
  Prepaid = 1
  MaxCrashes = 1
INVARIANTS TypeOK CreditsAddUp HoursAddedOnce CapturedIsApplied
PROPERTY OpenEnds
CHECK_DEADLOCK FALSE
