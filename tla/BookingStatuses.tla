-------------------------- MODULE BookingStatuses --------------------------
(***************************************************************************)
(* The booking status enum and the predicates every handler shares:        *)
(* packages/shared/src/booking.ts and the status lists of                  *)
(* booking.service.ts.  No state; the state machines EXTEND this module.   *)
(***************************************************************************)

Status ==
  { "PENDING", "APPROVED", "PENDING_CONFIRMATION", "CONFIRMED",
    "IN_PROGRESS", "COMPLETED", "CANCELLED", "REFUNDED" }

\* VALID_BOOKING_TRANSITIONS: the statuses reachable from each status.
NextStatuses(s) ==
  CASE s = "PENDING"              -> {"APPROVED", "CANCELLED"}
    [] s = "APPROVED"             -> {"CONFIRMED", "CANCELLED"}
    [] s = "PENDING_CONFIRMATION" -> {"CONFIRMED", "CANCELLED"}
    [] s = "CONFIRMED"            -> {"IN_PROGRESS", "CANCELLED"}
    [] s = "IN_PROGRESS"          -> {"COMPLETED", "CANCELLED"}
    [] OTHER                      -> {}

CanTransition(s, t) == t \in NextStatuses(s)

\* UNPAID_STATUSES: nothing has been paid, credits can still be handed back.
UnpaidStatuses == {"PENDING", "APPROVED"}

\* BOOKING_NANNY_ASSIGNABLE_STATUSES: an admin may still set or swap the nanny.
AssignableStatuses == {"PENDING", "APPROVED", "CONFIRMED"}

\* EDITABLE_STATUSES: applyBookingEdit takes these.
EditableStatuses == {"PENDING", "APPROVED", "CONFIRMED"}

\* The bookings assertNoConflict ignores: they take no time of the nanny's.
FreedStatuses == {"CANCELLED", "REFUNDED"}

\* updateBookingTimes refuses these.
LockedStatuses == {"COMPLETED", "CANCELLED", "REFUNDED"}
=============================================================================
