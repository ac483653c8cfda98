-------------------------- MODULE BookingLifecycle --------------------------
(***************************************************************************)
(* The life of a booking row: who holds it, which status it is in, and the *)
(* HTTP handlers and background settlements that move it.                  *)
(*                                                                         *)
(* A handler is a process in a slot of `req`.  It reads the row, awaits    *)
(* (the conflict query, a call to Paymob, the next statement) and writes.  *)
(* Every await is a step boundary: other handlers run in between.  The     *)
(* database is Postgres at READ COMMITTED, so a guarded updateMany tests   *)
(* its WHERE on the row as it is when the write happens, and an update by  *)
(* id does not test anything.  A slot being a request in progress, one     *)
(* slot means that requests never overlap.                                 *)
(*                                                                         *)
(* Left to other modules: amounts, payment rows and credits                *)
(* (BookingCheckout).  Left out: notifications, the clock (a time window   *)
(* may be open or not whenever it is looked at), skills.                   *)
(***************************************************************************)
EXTENDS BookingStatuses

CONSTANTS
  Bookings,  \* the bookings' ids
  Nannies,   \* the nanny profiles
  Slots,     \* time slots; two bookings overlap iff they have the same slot
  Requests,  \* the slots for handlers in progress
  Covered,   \* the bookings a promo, hours or points covered when created
  Routed,    \* legacy requests that were sent to one nanny, not broadcast
  NoNanny    \* nannyProfileId = null

ASSUME ConstantsAssumption ==
  /\ NoNanny \notin Nannies
  /\ Covered \subseteq Bookings
  /\ Routed \subseteq Bookings

VARIABLES
  status,    \* status[b]: booking.status
  nanny,     \* nanny[b]: booking.nannyProfileId
  slot,      \* slot[b]: startTime .. endTime
  covered,   \* covered[b]: totalAmount <= 0, nothing is owed
  billed,    \* billed[b]: a checkout has been opened for it, now or earlier
  pin,       \* pin[b]: a start PIN is on the row, unexpired, attempts left
  req,       \* req[r]: the handler in slot r
  winners    \* history: the nannies told that they have b since it was open

vars == <<status, nanny, slot, covered, billed, pin, req, winners>>

Row(b) == [status |-> status[b], nanny |-> nanny[b], slot |-> slot[b]]

Idle == [op |-> "idle"]

Ops == {"claim", "cancel", "console", "assign", "reschedule", "edit", "capture",
        "settle", "pin", "checkin", "complete"}

Points == {"conflict", "check", "settle", "reread", "read", "write"}

\* A handler: what it does, where it is, for which booking, the nanny it is
\* about (its caller, or the one to assign), its target, and the row it read.
Handler ==
  { h \in [op   : Ops,
           pc   : Points,
           b    : Bookings,
           n    : Nannies \cup {NoNanny},
           to   : Status \cup Slots,
           seen : [status : Status, nanny : Nannies \cup {NoNanny}, slot : Slots]] :
    /\ h.op \in {"claim", "assign"} => h.n \in Nannies
    /\ h.to \in IF h.op \in {"reschedule", "edit"} THEN Slots ELSE Status }

TypeOK ==
  /\ status  \in [Bookings -> Status]
  /\ nanny   \in [Bookings -> Nannies \cup {NoNanny}]
  /\ slot    \in [Bookings -> Slots]
  /\ covered \in [Bookings -> BOOLEAN]
  /\ billed  \in [Bookings -> BOOLEAN]
  /\ pin     \in [Bookings -> BOOLEAN]
  /\ req     \in [Requests -> Handler \cup {Idle}]
  /\ winners \in [Bookings -> SUBSET Nannies]

\* createBooking broadcasts a request: PENDING, no nanny.
Init ==
  /\ status = [b \in Bookings |-> "PENDING"]
  /\ nanny \in [Bookings -> Nannies \cup {NoNanny}]
  /\ \A b \in Bookings : nanny[b] = NoNanny <=> b \notin Routed
  /\ slot \in [Bookings -> Slots]
  /\ \A b, c \in Routed : b # c /\ nanny[b] = nanny[c] => slot[b] # slot[c]
  /\ covered = [b \in Bookings |-> b \in Covered]
  /\ billed = [b \in Bookings |-> FALSE]
  /\ pin = [b \in Bookings |-> FALSE]
  /\ req = [r \in Requests |-> Idle]
  /\ winners = [b \in Bookings |-> {nanny[b]} \ {NoNanny}]

-----------------------------------------------------------------------------
(* Handlers in general. *)

Begin(r, op, pc, b, n, to) ==
  /\ req[r] = Idle
  /\ req' = [req EXCEPT ![r] = [op |-> op, pc |-> pc, b |-> b, n |-> n,
                                to |-> to, seen |-> Row(b)]]

At(r, op, pc) == req[r] # Idle /\ req[r].op = op /\ req[r].pc = pc

Continue(r, pc) == req' = [req EXCEPT ![r].pc = pc]

Finish(r) == req' = [req EXCEPT ![r] = Idle]

\* Carry on, as the same request, with confirmBookingIfNothingOwed.
ThenSettle(r) == req' = [req EXCEPT ![r].op = "settle", ![r].pc = "read"]

UnchangedRows == UNCHANGED <<status, nanny, slot, covered, billed, pin, winners>>

SetStatus(b, t) ==
  /\ status' = [status EXCEPT ![b] = t]
  /\ UNCHANGED <<nanny, slot, covered, billed, pin, winners>>

\* Mutant: only paid bookings take the nanny's time.
NoConflictPaidOnly(n, s, b) ==
  \A c \in Bookings \ {b} :
    ~ (nanny[c] = n /\ slot[c] = s /\ status[c] \notin FreedStatuses \cup UnpaidStatuses)

\* assertNoConflict: n has no other live booking in slot s.
NoConflict(n, s, b) ==
  \A c \in Bookings \ {b} :
    ~ (nanny[c] = n /\ slot[c] = s /\ status[c] \notin FreedStatuses)

-----------------------------------------------------------------------------
(* A nanny answers a request: acceptBooking, declineBooking. *)

\* The read of an ACCEPT on an unclaimed request.  (On a request that already
\* has a nanny, and on a DECLINE, only her informational decision is written.)
ClaimRead(r, b, n) ==
  /\ status[b] = "PENDING"
  /\ nanny[b] = NoNanny
  /\ Begin(r, "claim", "conflict", b, n, "APPROVED")
  /\ UnchangedRows

\* The query of assertNoConflict, about the times as read; a clash fails the request.
ClaimConflict(r) ==
  /\ At(r, "claim", "conflict")
  /\ IF NoConflict(req[r].n, req[r].seen.slot, req[r].b)
     THEN Continue(r, "write")
     ELSE Finish(r)
  /\ UnchangedRows

\* Mutant: the claim is an update by id.
ClaimGuardById(b) == TRUE

\* The guard of the claiming updateMany.
ClaimGuard(b) == status[b] = "PENDING" /\ nanny[b] = NoNanny

ClaimWrite(r) ==
  /\ At(r, "claim", "write")
  /\ LET b == req[r].b
         n == req[r].n
     IN IF ClaimGuard(b)
        THEN /\ status'  = [status EXCEPT ![b] = "APPROVED"]
             /\ nanny'   = [nanny EXCEPT ![b] = n]
             /\ winners' = [winners EXCEPT ![b] = @ \cup {n}]
             /\ ThenSettle(r)
             /\ UNCHANGED <<slot, covered, billed, pin>>
        ELSE Finish(r) /\ UnchangedRows

-----------------------------------------------------------------------------
(* The mother or the nanny cancels: cancelBooking. *)

\* A nanny dropping an unpaid booking releases it; any other cancel ends it.
Releases(h) == h.n # NoNanny /\ h.seen.status \in UnpaidStatuses

\* What remains of a cancel once the row has been read for good.
CancelAllowed(n, s) ==
  (n # NoNanny /\ s \in UnpaidStatuses) \/ CanTransition(s, "CANCELLED")

\* Who may ask (n = NoNanny is the mother), and not during the shift.
PartyOfRequest(b, n) == n \in {NoNanny, nanny[b]} /\ status[b] # "IN_PROGRESS"

\* The first read: who asks, and whether a checkout has to be looked at.
CancelRead(r, b, n) ==
  /\ PartyOfRequest(b, n)
  /\ CancelAllowed(n, status[b])
  /\ Begin(r, "cancel", IF status[b] = "APPROVED" THEN "check" ELSE "write",
           b, n, "CANCELLED")
  /\ UnchangedRows

\* assertNoPaymentInProgress: a checkout is open and the cancel refused, there
\* is none, or it turns out to be paid and is captured here.
CancelCheck(r) ==
  /\ At(r, "cancel", "check")
  /\ \/ Finish(r)
     \/ Continue(r, "reread")
     \/ /\ billed[req[r].b]
        /\ CanTransition(status[req[r].b], "CONFIRMED")
        /\ Continue(r, "settle")
  /\ UnchangedRows

\* The confirming update of that capture.
CancelSettle(r) ==
  /\ At(r, "cancel", "settle")
  /\ SetStatus(req[r].b, "CONFIRMED")
  /\ Continue(r, "reread")

\* The row is read again; isNanny and the IN_PROGRESS refusal are not.
CancelReread(r) ==
  /\ At(r, "cancel", "reread")
  /\ IF CancelAllowed(req[r].n, status[req[r].b])
     THEN req' = [req EXCEPT ![r].pc = "write", ![r].seen = Row(req[r].b)]
     ELSE Finish(r)
  /\ UnchangedRows

\* The row still has the status and the nanny that h read.
HolderAsSeen(h) == status[h.b] = h.seen.status /\ nanny[h.b] = h.seen.nanny

\* Mutant: the release compares the nanny and forgets the status.
ReleaseGuardNannyOnly(h) == nanny[h.b] = h.seen.nanny

\* The guard of releaseBookingToPool's updateMany: the row as read.
ReleaseGuard(h) == HolderAsSeen(h)

ReleaseWrite(r) ==
  /\ At(r, "cancel", "write")
  /\ Releases(req[r])
  /\ LET b == req[r].b
     IN IF ReleaseGuard(req[r])
        THEN /\ status'  = [status EXCEPT ![b] = "PENDING"]
             /\ nanny'   = [nanny EXCEPT ![b] = NoNanny]
             /\ winners' = [winners EXCEPT ![b] = {}]
             /\ UNCHANGED <<slot, covered, billed, pin>>
        ELSE UnchangedRows
  /\ Finish(r)

\* The guard of the cancelling updateMany: the status as read.
CancelGuard(h) == status[h.b] = h.seen.status

CancelWrite(r) ==
  /\ At(r, "cancel", "write")
  /\ ~ Releases(req[r])
  /\ IF CancelGuard(req[r])
     THEN SetStatus(req[r].b, "CANCELLED")
     ELSE UnchangedRows
  /\ Finish(r)

-----------------------------------------------------------------------------
(* The console: approve, reject, override, assign, reschedule, refund. *)

ApproveRead(r, b) ==
  /\ status[b] = "PENDING"
  /\ nanny[b] # NoNanny
  /\ Begin(r, "console", "write", b, NoNanny, "APPROVED")
  /\ UnchangedRows

\* Mutant: the console rejects a booking whatever its status.
RejectReadAnyStatus(r, b) ==
  /\ Begin(r, "console", "write", b, NoNanny, "CANCELLED")
  /\ UnchangedRows

\* The check of an open checkout comes before this read; it refuses, or it
\* settles the payment as Capture does.
RejectRead(r, b) ==
  /\ CanTransition(status[b], "CANCELLED")
  /\ Begin(r, "console", "write", b, NoNanny, "CANCELLED")
  /\ UnchangedRows

\* Mutant: the override may approve a request nobody has claimed.
OverrideAllowedNannyless(b, t) == t # "REFUNDED" /\ CanTransition(status[b], t)

\* Any transition of the table, never a nannyless approval.
OverrideAllowed(b, t) ==
  /\ t # "REFUNDED"
  /\ CanTransition(status[b], t)
  /\ t = "APPROVED" => nanny[b] # NoNanny

\* setBookingStatus.
OverrideRead(r, b, t) ==
  /\ OverrideAllowed(b, t)
  /\ Begin(r, "console", "write", b, NoNanny, t)
  /\ UnchangedRows

\* booking.update by id, of all three: the row is not compared with what was read.
ConsoleWrite(r) ==
  /\ At(r, "console", "write")
  /\ SetStatus(req[r].b, req[r].to)
  /\ IF req[r].to = "APPROVED" THEN ThenSettle(r) ELSE Finish(r)

AssignRead(r, b, n) ==
  /\ status[b] \in AssignableStatuses
  /\ n # nanny[b]
  /\ Begin(r, "assign", "conflict", b, n, "APPROVED")
  /\ UnchangedRows

\* The same query, about the times as read.
AssignConflict(r) ==
  /\ At(r, "assign", "conflict")
  /\ IF NoConflict(req[r].n, req[r].seen.slot, req[r].b)
     THEN Continue(r, "write")
     ELSE Finish(r)
  /\ UnchangedRows

\* Mutant: the assignment compares the nanny and forgets the status.
AssignGuardNannyOnly(h) == nanny[h.b] = h.seen.nanny

\* The guard of the assigning updateMany: the status and the nanny as read.
AssignGuard(h) == HolderAsSeen(h)

\* Mutant: the nanny who was replaced is told that she has the booking.
WinnersAfterAssignSwapped(h) == (winners[h.b] \ {h.n}) \cup {h.seen.nanny}

\* The replaced nanny is told so, the new one that she has the booking.
WinnersAfterAssign(h) == (winners[h.b] \ {h.seen.nanny}) \cup {h.n}

AssignWrite(r) ==
  /\ At(r, "assign", "write")
  /\ LET h == req[r]
     IN IF AssignGuard(h)
        THEN /\ nanny'   = [nanny EXCEPT ![h.b] = h.n]
             /\ status'  = [status EXCEPT ![h.b] =
                              IF @ = "PENDING" THEN "APPROVED" ELSE @]
             /\ winners' = [winners EXCEPT ![h.b] = WinnersAfterAssign(h)]
             /\ UNCHANGED <<slot, covered, billed, pin>>
        ELSE UnchangedRows
  /\ Finish(r)

\* updateBookingTimes; the conflict query runs only if the row had a nanny.
RescheduleRead(r, b, s) ==
  /\ status[b] \notin LockedStatuses
  /\ Begin(r, "reschedule", IF nanny[b] = NoNanny THEN "write" ELSE "conflict",
           b, nanny[b], s)
  /\ UnchangedRows

\* applyBookingEdit; its price may change and its time may not.
EditRead(r, b, s) ==
  /\ status[b] \in EditableStatuses
  /\ Begin(r, "edit", IF nanny[b] = NoNanny THEN "write" ELSE "conflict",
           b, nanny[b], s)
  /\ UnchangedRows

\* The query of assertNoConflict, of both.
RescheduleConflict(r) ==
  /\ At(r, "reschedule", "conflict") \/ At(r, "edit", "conflict")
  /\ IF NoConflict(req[r].n, req[r].to, req[r].b)
     THEN Continue(r, "write")
     ELSE Finish(r)
  /\ UnchangedRows

\* The booking at its new time, at whatever that time costs.
SetSlot(b, s) ==
  /\ slot' = [slot EXCEPT ![b] = s]
  /\ \E owesNothing \in BOOLEAN : covered' = [covered EXCEPT ![b] = owesNothing]
  /\ UNCHANGED <<status, nanny, billed, pin, winners>>

\* booking.update by id.
RescheduleWrite(r) ==
  /\ At(r, "reschedule", "write")
  /\ SetSlot(req[r].b, req[r].to)
  /\ Finish(r)

\* The guard of the edit's updateMany: the revision as read (of the columns that
\* this module has).
EditGuard(h) == Row(h.b) = h.seen

EditWrite(r) ==
  /\ At(r, "edit", "write")
  /\ IF EditGuard(req[r])
     THEN SetSlot(req[r].b, req[r].to)
     ELSE UnchangedRows
  /\ Finish(r)

\* markRefunded, for what was paid, before or after the cancel: one conditional
\* update, nothing read before it matters to it.
MarkRefunded(b) ==
  /\ billed[b]
  /\ status[b] = "CANCELLED"
  /\ SetStatus(b, "REFUNDED")
  /\ UNCHANGED req

-----------------------------------------------------------------------------
(* Payment: a capture (webhook, poll or mock pay) and the zero settlement. *)

\* findPayableBooking and openIntention; how the payment fares is BookingCheckout's.
OpenCheckout(b) ==
  /\ status[b] = "APPROVED"
  /\ nanny[b] # NoNanny
  /\ ~ covered[b]
  /\ billed' = [billed EXCEPT ![b] = TRUE]
  /\ UNCHANGED <<status, nanny, slot, covered, pin, req, winners>>

\* captureAndConfirmBooking reads the row.  A booking that cannot be confirmed
\* keeps its status (the money is BookingCheckout's concern).
CaptureRead(r, b) ==
  /\ billed[b]
  /\ CanTransition(status[b], "CONFIRMED")
  /\ Begin(r, "capture", "write", b, NoNanny, "CONFIRMED")
  /\ UnchangedRows

\* ... and confirms it by id.
CaptureWrite(r) ==
  /\ At(r, "capture", "write")
  /\ SetStatus(req[r].b, "CONFIRMED")
  /\ Finish(r)

\* The mother spends Care Points on what is left to pay (redeemBookingPoints);
\* the write is compared with the read, so they are one step.
RedeemPoints(r, b) ==
  /\ status[b] = "APPROVED"
  /\ ~ covered[b]
  /\ covered' = [covered EXCEPT ![b] = TRUE]
  /\ Begin(r, "settle", "read", b, NoNanny, "CONFIRMED")
  /\ UNCHANGED <<status, nanny, slot, billed, pin, winners>>

\* Credits come off an unpaid booking: the mother removes her points, or a
\* cancel that is under way hands them back (returnUnpaidCredits).
ReturnCredits(b) ==
  /\ status[b] \in UnpaidStatuses
  /\ covered[b]
  /\ covered' = [covered EXCEPT ![b] = FALSE]
  /\ UNCHANGED <<status, nanny, slot, billed, pin, req, winners>>

\* findPayableBooking, and the read of confirmBookingIfNothingOwed.
Settleable(b) == status[b] = "APPROVED" /\ nanny[b] # NoNanny /\ covered[b]

\* confirmBookingWithoutPayment: the mother taps "Confirm booking".
SettleRequest(r, b) ==
  /\ Settleable(b)
  /\ Begin(r, "settle", "write", b, NoNanny, "CONFIRMED")
  /\ UnchangedRows

SettleRead(r) ==
  /\ At(r, "settle", "read")
  /\ IF Settleable(req[r].b) THEN Continue(r, "write") ELSE Finish(r)
  /\ UnchangedRows

\* The row is read again and the confirming updateMany compared with it.
SettleWrite(r) ==
  /\ At(r, "settle", "write")
  /\ LET b == req[r].b
     IN IF CanTransition(status[b], "CONFIRMED") /\ covered[b]
        THEN SetStatus(b, "CONFIRMED")
        ELSE UnchangedRows
  /\ Finish(r)

-----------------------------------------------------------------------------
(* The shift: start PIN, check-in, check-out and the mother's early end. *)

PinRead(r, b) ==
  /\ status[b] = "CONFIRMED"
  /\ Begin(r, "pin", "write", b, NoNanny, "CONFIRMED")
  /\ UnchangedRows

PinWrite(r) ==
  /\ At(r, "pin", "write")
  /\ pin' = [pin EXCEPT ![req[r].b] = TRUE]
  /\ Finish(r)
  /\ UNCHANGED <<status, nanny, slot, covered, billed, winners>>

\* The PIN expires, or the last wrong guess uses it up.
PinLapses(b) ==
  /\ pin[b]
  /\ pin' = [pin EXCEPT ![b] = FALSE]
  /\ UNCHANGED <<status, nanny, slot, covered, billed, req, winners>>

CheckInRead(r, b) ==
  /\ status[b] = "CONFIRMED"
  /\ nanny[b] # NoNanny
  /\ pin[b]
  /\ Begin(r, "checkin", "write", b, nanny[b], "IN_PROGRESS")
  /\ UnchangedRows

CheckInWrite(r) ==
  /\ At(r, "checkin", "write")
  /\ status' = [status EXCEPT ![req[r].b] = "IN_PROGRESS"]
  /\ pin' = [pin EXCEPT ![req[r].b] = FALSE]
  /\ Finish(r)
  /\ UNCHANGED <<nanny, slot, covered, billed, winners>>

\* checkOutBooking by the nanny, endBookingByMother by the mother.
CompleteRead(r, b) ==
  /\ status[b] = "IN_PROGRESS"
  /\ Begin(r, "complete", "write", b, NoNanny, "COMPLETED")
  /\ UnchangedRows

CompleteWrite(r) ==
  /\ At(r, "complete", "write")
  /\ SetStatus(req[r].b, "COMPLETED")
  /\ Finish(r)

-----------------------------------------------------------------------------

\* A nanny's or the mother's handler, or the settlement it leads to.
PartyStep(r) ==
  \/ \E b \in Bookings, n \in Nannies : ClaimRead(r, b, n)
  \/ ClaimConflict(r)
  \/ ClaimWrite(r)
  \/ \E b \in Bookings, n \in Nannies \cup {NoNanny} : CancelRead(r, b, n)
  \/ CancelCheck(r)
  \/ CancelSettle(r)
  \/ CancelReread(r)
  \/ ReleaseWrite(r)
  \/ CancelWrite(r)

ConsoleStep(r) ==
  \/ \E b \in Bookings : ApproveRead(r, b)
  \/ \E b \in Bookings : RejectRead(r, b)
  \/ \E b \in Bookings, t \in Status : OverrideRead(r, b, t)
  \/ ConsoleWrite(r)
  \/ \E b \in Bookings, n \in Nannies : AssignRead(r, b, n)
  \/ AssignConflict(r)
  \/ AssignWrite(r)
  \/ \E b \in Bookings, s \in Slots : RescheduleRead(r, b, s)
  \/ \E b \in Bookings, s \in Slots : EditRead(r, b, s)
  \/ RescheduleConflict(r)
  \/ RescheduleWrite(r)
  \/ EditWrite(r)

PaymentStep(r) ==
  \/ \E b \in Bookings : CaptureRead(r, b)
  \/ CaptureWrite(r)
  \/ \E b \in Bookings : RedeemPoints(r, b)
  \/ \E b \in Bookings : SettleRequest(r, b)
  \/ SettleRead(r)
  \/ SettleWrite(r)

ShiftStep(r) ==
  \/ \E b \in Bookings : PinRead(r, b)
  \/ PinWrite(r)
  \/ \E b \in Bookings : CheckInRead(r, b)
  \/ CheckInWrite(r)
  \/ \E b \in Bookings : CompleteRead(r, b)
  \/ CompleteWrite(r)

Next ==
  \/ \E r \in Requests :
       PartyStep(r) \/ ConsoleStep(r) \/ PaymentStep(r) \/ ShiftStep(r)
  \/ \E b \in Bookings :
       MarkRefunded(b) \/ OpenCheckout(b) \/ ReturnCredits(b) \/ PinLapses(b)

Spec == Init /\ [][Next]_vars
-----------------------------------------------------------------------------
(* Properties that hold however the requests overlap. *)

\* First to accept wins: since a request was last open, nobody but the nanny on
\* the row has been told that she has it (applyNannyDecision's guarded claim,
\* against a second claim, an assign and a release in between).
OneWinnerPerOpening == \A b \in Bookings : winners[b] \subseteq {nanny[b]}

\* A booking loses its nanny only by going back to the pool, and only while
\* nothing is paid: a release never unassigns a booking that was confirmed
\* after the release had read it (releaseBookingToPool).
ReleaseOnlyUnpaid ==
  [][\A b \in Bookings :
       nanny[b] # NoNanny /\ nanny'[b] = NoNanny
         => status[b] \in UnpaidStatuses /\ status'[b] = "PENDING"]_vars

\* Nobody is put on a booking that has started, ended or been called off while
\* the claim or the assignment was in flight (applyNannyDecision,
\* assignBookingNanny).
NoLateAssignment ==
  [][\A b \in Bookings :
       nanny'[b] # nanny[b] => status[b] \in AssignableStatuses]_vars

-----------------------------------------------------------------------------
(* Properties of requests that do not overlap (one slot). *)

Abstract == INSTANCE AbstractLifecycle

\* The handlers implement the abstract life of a booking.
ImplementsAbstract == Abstract!Spec

\* No nanny is on two live bookings at one time (assertNoConflict, in the
\* claim, the assignment and the reschedule).
NoDoubleBooking == Abstract!NoDoubleBooking

\* A booking that is payable, paid, running or done has a nanny
\* (approveBooking's and findPayableBooking's checks, releaseBookingToPool).
LiveHasNanny == Abstract!LiveHasNanny

-----------------------------------------------------------------------------
(* What the code checks or says of itself and does not keep. *)

\* A payment confirms a booking that has a nanny: a release at the same moment
\* loses to it (releaseBookingToPool's guard, captureAndConfirmBooking).
CaptureConfirmsAssigned ==
  [][\A r \in Requests :
       At(r, "capture", "write") /\ req'[r] = Idle
         => nanny[req[r].b] # NoNanny]_vars

\* Whoever gives a booking back has it (cancelBooking's check of who asks, made
\* on the row before the call to Paymob).
OnlyHolderReleases ==
  [][\A b \in Bookings :
       nanny[b] # NoNanny /\ nanny'[b] = NoNanny
         => \E r \in Requests : /\ req[r] # Idle /\ req'[r] = Idle
                               /\ req[r].b = b /\ req[r].n = nanny[b]]_vars

\* Neither party can call off from the app a shift that is under way, also not
\* one that began while Paymob was asked (cancelBooking, booking.service.ts:1562).
NoPartyCancelsShift ==
  [][\A b \in Bookings :
       status[b] = "IN_PROGRESS" /\ status'[b] = "CANCELLED"
         => \A r \in Requests :
              req'[r] # req[r] => req[r].op # "cancel"]_vars

\* An approved booking that owes nothing is on its way to being confirmed: the
\* mother is never left with a payment step (confirmBookingIfNothingOwed).
CoveredNeedsNoPayment ==
  \A b \in Bookings :
    status[b] = "APPROVED" /\ covered[b] => \E r \in Requests : req[r] # Idle /\ req[r].b = b
=============================================================================
