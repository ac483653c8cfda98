------------------------- MODULE AbstractLifecycle -------------------------
(***************************************************************************)
(* What the booking handlers promise together, with no handler in sight:   *)
(* a booking changes hands, time or status in one step, along the          *)
(* transition table, never onto a nanny who is busy, and never towards a   *)
(* shift without one.                                                      *)
(***************************************************************************)
EXTENDS BookingStatuses

CONSTANTS Bookings, Nannies, Slots, Routed, NoNanny

VARIABLES status, nanny, slot

vars == <<status, nanny, slot>>

Free(n, s, b) ==
  \A c \in Bookings \ {b} :
    nanny[c] = n /\ slot[c] = s => status[c] \in FreedStatuses

Init ==
  /\ status = [b \in Bookings |-> "PENDING"]
  /\ nanny \in [Bookings -> Nannies \cup {NoNanny}]
  /\ slot \in [Bookings -> Slots]
  /\ \A b \in Bookings : nanny[b] # NoNanny => b \in Routed /\ Free(nanny[b], slot[b], b)

\* A nanny takes the booking, or is put on it; an open request gets approved.
Take(b, n) ==
  /\ status[b] \in AssignableStatuses
  /\ Free(n, slot[b], b)
  /\ nanny'  = [nanny EXCEPT ![b] = n]
  /\ status' = [status EXCEPT ![b] = IF @ = "PENDING" THEN "APPROVED" ELSE @]
  /\ UNCHANGED slot

\* The nanny of an unpaid booking gives it back to the pool.
GiveBack(b) ==
  /\ status[b] \in UnpaidStatuses
  /\ nanny[b] # NoNanny
  /\ nanny'  = [nanny EXCEPT ![b] = NoNanny]
  /\ status' = [status EXCEPT ![b] = "PENDING"]
  /\ UNCHANGED slot

\* A status change along the table; only a cancel does without a nanny.
Move(b, t) ==
  /\ CanTransition(status[b], t)
  /\ t # "CANCELLED" => nanny[b] # NoNanny
  /\ status' = [status EXCEPT ![b] = t]
  /\ UNCHANGED <<nanny, slot>>

\* A cancelled booking is settled.
Refund(b) ==
  /\ status[b] = "CANCELLED"
  /\ status' = [status EXCEPT ![b] = "REFUNDED"]
  /\ UNCHANGED <<nanny, slot>>

\* The booking moves to another time.
Reschedule(b, s) ==
  /\ status[b] \notin LockedStatuses
  /\ nanny[b] # NoNanny => Free(nanny[b], s, b)
  /\ slot' = [slot EXCEPT ![b] = s]
  /\ UNCHANGED <<status, nanny>>

Next ==
  \E b \in Bookings :
    \/ \E n \in Nannies : Take(b, n)
    \/ GiveBack(b)
    \/ \E t \in Status : Move(b, t)
    \/ Refund(b)
    \/ \E s \in Slots : Reschedule(b, s)

Spec == Init /\ [][Next]_vars

-----------------------------------------------------------------------------

TypeOK ==
  /\ status \in [Bookings -> Status]
  /\ nanny  \in [Bookings -> Nannies \cup {NoNanny}]
  /\ slot   \in [Bookings -> Slots]

\* No nanny has two live bookings at one time (assertNoConflict).
NoDoubleBooking ==
  \A b, c \in Bookings :
    /\ b # c
    /\ nanny[b] = nanny[c]
    /\ nanny[b] # NoNanny
    /\ slot[b] = slot[c]
    => status[b] \in FreedStatuses \/ status[c] \in FreedStatuses

\* A booking that is payable, paid, running or done has a nanny.
LiveHasNanny ==
  \A b \in Bookings :
    status[b] \in {"APPROVED", "CONFIRMED", "IN_PROGRESS", "COMPLETED"}
      => nanny[b] # NoNanny
=============================================================================
