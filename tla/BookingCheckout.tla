-------------------------- MODULE BookingCheckout --------------------------
(***************************************************************************)
(* The money of one booking, from approval to confirmation or cancel: the  *)
(* payment attempts, the hosted checkout pages that Paymob keeps for them, *)
(* the Care Points spent on the booking, and the handlers that race to     *)
(* settle it.                                                              *)
(*                                                                         *)
(* As in BookingLifecycle, a handler in progress occupies a slot of `req`, *)
(* an await is a step boundary, a guarded updateMany is tested on the row  *)
(* as it is, an update by id is not.  A transaction's uncommitted row is   *)
(* locked: other writers of that payment wait, readers see the old row.    *)
(*                                                                         *)
(* One unit of money is the price of one hour and costs one point.  Left   *)
(* to other modules: the nanny (she stays), package hours, the promo code, *)
(* edits after payment.  Left out: HMAC and payload checks, the mother's   *)
(* access rights, the mock payment of installations without Paymob.        *)
(***************************************************************************)
EXTENDS BookingStatuses, Integers

CONSTANTS
  Price,       \* what the booking costs before points
  Purse,       \* the points in the mother's wallet at first
  MaxAttempts, \* bound on the payment rows of the booking
  MaxTries,    \* PAYMOB_RECONCILE_OFFSETS_MS.length
  Requests,    \* the slots for handlers in progress
  Reliable,    \* whether Paymob's API always answers
  Retriable    \* whether a page takes another card after a decline

ASSUME CheckoutAssumption ==
  /\ Price \in Nat \ {0}
  /\ Purse \in Nat
  /\ MaxAttempts \in Nat
  /\ MaxTries \in Nat \ {0}
  /\ Reliable \in BOOLEAN
  /\ Retriable \in BOOLEAN

VARIABLES
  status,   \* booking.status
  total,    \* booking.totalAmount
  points,   \* booking.rewardCreditPoints, and their value
  wallet,   \* the mother's rewardWallet.pointsBalance
  zeroPaid, \* the booking has a CAPTURED payment of zero
  pay,      \* pay[i]: payment.status of attempt i
  amount,   \* amount[i]: payment.amount
  link,     \* link[i]: payment.paymobClientSecret is on the row
  tries,    \* tries[i]: payment.paymobReconcileAttempt
  page,     \* page[i]: what Paymob knows of it ("repaid": after a decline)
  age,      \* age[i]: of the page, by our TTL and by Paymob's expiration
  req,      \* req[r]: the handler in slot r
  payers,   \* history: the attempts whose capture confirmed the booking
  told      \* history: the payments reported as money with nothing to pay

booking == <<status, total, points, wallet, zeroPaid>>
payment == <<pay, amount, link, tries>>
paymob  == <<page, age>>
history == <<payers, told>>
vars    == <<booking, payment, paymob, req, history>>

Attempts == 1..MaxAttempts

\* The rows that exist, and the newest, as the handlers order them.
Made == {i \in Attempts : pay[i] # "none"}
IsLatest(i, S) == i \in S /\ \A j \in S : j <= i

\* The rows whose page can be looked up.
Linked == {i \in Attempts : pay[i] = "PENDING" /\ link[i]}

Row == [status |-> status, total |-> total, points |-> points]

Idle == [op |-> "idle"]

Handler ==
  [op   : {"pay", "capture", "settle", "cancel", "reject", "redeem", "remove", "override"},
   pc   : {"supersede", "create", "store", "mark", "commit", "read", "sync", "zero",
           "check", "reread", "credits", "write"},
   i    : 0..MaxAttempts,
   todo : SUBSET Attempts,
   seen : [status : Status, total : 0..Price, points : 0..Price]]

TypeOK ==
  /\ status \in Status
  /\ total \in 0..Price
  /\ points \in 0..Price
  /\ wallet \in Nat
  /\ zeroPaid \in BOOLEAN
  /\ pay \in [Attempts -> {"none", "PENDING", "FAILED", "CAPTURED"}]
  /\ amount \in [Attempts -> 0..Price]
  /\ link \in [Attempts -> BOOLEAN]
  /\ tries \in [Attempts -> 0..(MaxTries - 1)]
  /\ page \in [Attempts -> {"none", "open", "declined", "paid", "repaid"}]
  /\ age \in [Attempts -> {"fresh", "stale", "expired"}]
  /\ req \in [Requests -> Handler \cup {Idle}]
  /\ payers \subseteq Attempts
  /\ told \subseteq Attempts

\* A booking that was just approved.
Init ==
  /\ status = "APPROVED"
  /\ total = Price
  /\ points = 0
  /\ wallet = Purse
  /\ zeroPaid = FALSE
  /\ pay = [i \in Attempts |-> "none"]
  /\ amount = [i \in Attempts |-> 0]
  /\ link = [i \in Attempts |-> FALSE]
  /\ tries = [i \in Attempts |-> 0]
  /\ page = [i \in Attempts |-> "none"]
  /\ age = [i \in Attempts |-> "fresh"]
  /\ req = [r \in Requests |-> Idle]
  /\ payers = {}
  /\ told = {}

-----------------------------------------------------------------------------
(* Handlers in general. *)

Begin(r, op, pc, i, todo) ==
  /\ req[r] = Idle
  /\ req' = [req EXCEPT ![r] = [op |-> op, pc |-> pc, i |-> i, todo |-> todo,
                                seen |-> Row]]

At(r, pc) == req[r] # Idle /\ req[r].pc = pc

Continue(r, pc) == req' = [req EXCEPT ![r].pc = pc]

Finish(r) == req' = [req EXCEPT ![r] = Idle]

\* The transaction of another handler holds the payment row.
Locked(i) == \E r \in Requests : At(r, "commit") /\ req[r].i = i

\* Rows of S are given up: FAILED, no link, no more polling.
GiveUp(S) ==
  /\ pay'  = [i \in Attempts |-> IF i \in S THEN "FAILED" ELSE pay[i]]
  /\ link' = [i \in Attempts |-> link[i] /\ i \notin S]
  /\ UNCHANGED <<amount, tries>>

-----------------------------------------------------------------------------
(* Paymob, and the customer at its page. *)

Paid(i) == page[i] \in {"paid", "repaid"}

\* The page still takes money.
Payable(i) ==
  /\ page[i] = "open" \/ (Retriable /\ page[i] = "declined")
  /\ age[i] # "expired"

MotherPays(i) ==
  /\ Payable(i)
  /\ page' = [page EXCEPT ![i] = IF @ = "open" THEN "paid" ELSE "repaid"]
  /\ UNCHANGED <<booking, payment, age, req, history>>

CardDeclined(i) ==
  /\ Payable(i)
  /\ page[i] = "open"
  /\ page' = [page EXCEPT ![i] = "declined"]
  /\ UNCHANGED <<booking, payment, age, req, history>>

\* PAYMOB_INTENTION_TTL_MS passes on our clock, which started first, then on Paymob's.
TimePasses(i) ==
  /\ page[i] # "none"
  /\ age[i] # "expired"
  /\ age' = [age EXCEPT ![i] = IF @ = "fresh" THEN "stale" ELSE "expired"]
  /\ UNCHANGED <<booking, payment, page, req, history>>

\* Mutant: a fresh intention that looks confirmed counts as paid.
ElementTrusting(i) ==
  CASE page[i] \in {"open", "paid", "repaid"} -> "captured"
    [] page[i] = "declined" -> "failed"
    [] OTHER -> "pending"

\* mapIntentionElement: the newest finished transaction of the page decides.
Element(i) ==
  CASE Paid(i) -> "captured"
    [] page[i] = "declined" -> "failed"
    [] OTHER -> "pending"

-----------------------------------------------------------------------------
(* Opening a checkout: createPaymobIntentionForBooking, openIntention. *)

\* findPayableBooking: approved, and no captured payment on it.
IsPayable == status = "APPROVED" /\ ~ zeroPaid /\ \A i \in Attempts : pay[i] # "CAPTURED"

\* The newest attempt is handed out again while its page is fresh, at the
\* amount it was opened with.
Resumable == \E i \in Attempts : IsLatest(i, Made) /\ i \in Linked /\ age[i] = "fresh"

PayRead(r) ==
  /\ IsPayable
  /\ total > 0
  /\ ~ Resumable
  /\ Made # Attempts
  /\ Begin(r, "pay", "supersede", 0, {})
  /\ UNCHANGED <<booking, payment, paymob, history>>

PaySupersede(r) ==
  /\ At(r, "supersede")
  /\ \A i \in Attempts : pay[i] = "PENDING" => ~ Locked(i)
  /\ GiveUp({i \in Attempts : pay[i] = "PENDING"})
  /\ Continue(r, "create")
  /\ UNCHANGED <<booking, paymob, history>>

\* The new row, for the total as read.  (At the bound the handler ends here.)
PayCreate(r) ==
  /\ At(r, "create")
  /\ IF Made = Attempts
     THEN Finish(r) /\ UNCHANGED payment
     ELSE \E i \in Attempts \ Made :
            /\ \A j \in Attempts \ Made : i <= j
            /\ pay' = [pay EXCEPT ![i] = "PENDING"]
            /\ amount' = [amount EXCEPT ![i] = req[r].seen.total]
            /\ req' = [req EXCEPT ![r].pc = "store", ![r].i = i]
            /\ UNCHANGED <<link, tries>>
  /\ UNCHANGED <<booking, paymob, history>>

\* Paymob opens the page and its link is stored, both by id: whatever has become
\* of the row since.
PayStore(r) ==
  /\ At(r, "store")
  /\ page' = [page EXCEPT ![req[r].i] = "open"]
  /\ link' = [link EXCEPT ![req[r].i] = TRUE]
  /\ Finish(r)
  /\ UNCHANGED <<booking, pay, amount, tries, age, history>>

\* Paymob refuses or cannot be reached.
PayRefused(r) ==
  /\ At(r, "store")
  /\ GiveUp({req[r].i})
  /\ Finish(r)
  /\ UNCHANGED <<booking, paymob, history>>

-----------------------------------------------------------------------------
(* A payment that went through: captureAndConfirmBooking. *)

\* Mutant: a payment that was captured can be captured again.
CapturableAll == {"PENDING", "FAILED", "CAPTURED"}

\* Mutant: an attempt that was given up is not captured any more.
CapturablePendingOnly == {"PENDING"}

\* CAPTURABLE_PAYMENT_STATUSES.
Capturable == {"PENDING", "FAILED"}

\* Paymob's callback; it may come late, again, or never.
WebhookSuccess(r, i) ==
  /\ Paid(i)
  /\ pay[i] \in Capturable
  /\ Begin(r, "capture", "mark", i, {})
  /\ UNCHANGED <<booking, payment, paymob, history>>

\* The reconciler's tick or the mother's sync on her return finds it paid.
PollSuccess(r, i) ==
  /\ i \in Linked
  /\ Element(i) = "captured"
  /\ pay[i] \in Capturable
  /\ Begin(r, "capture", "mark", i, {})
  /\ UNCHANGED <<booking, payment, paymob, history>>

\* In the transaction: the payment row is written (and locked), the booking read.
CaptureMark(r) ==
  /\ At(r, "mark")
  /\ ~ Locked(req[r].i)
  /\ req' = [req EXCEPT ![r].pc = "commit", ![r].seen = Row]
  /\ UNCHANGED <<booking, payment, paymob, history>>

\* Mutant: any booking that is not called off is confirmed (again).
ConfirmableLive(s) == s # "CANCELLED"

\* The status lets the booking be confirmed.
Confirmable(s) == CanTransition(s, "CONFIRMED")

\* Where a handler goes on after it has settled an attempt with Paymob.
AfterCapture(r) ==
  IF req[r].op \in {"cancel", "reject"} THEN Continue(r, "reread") ELSE Finish(r)

\* ... and the commit: the payment is CAPTURED, and the booking CONFIRMED by
\* id, or the money reported to the mother and the team.
CaptureCommit(r) ==
  /\ At(r, "commit")
  /\ LET i == req[r].i
     IN /\ pay' = [pay EXCEPT ![i] = "CAPTURED"]
        /\ link' = [link EXCEPT ![i] = FALSE]
        /\ IF Confirmable(req[r].seen.status)
           THEN /\ status' = "CONFIRMED"
                /\ payers' = payers \cup {i}
                /\ UNCHANGED told
           ELSE /\ told' = told \cup {i}
                /\ UNCHANGED <<status, payers>>
  /\ AfterCapture(r)
  /\ UNCHANGED <<total, points, wallet, zeroPaid, amount, tries, paymob>>

-----------------------------------------------------------------------------
(* An attempt that did not go through. *)

\* Mutant: a failure is recorded by id.
FailGuardById(i) == pay[i] # "none"

\* finalizePaymentFailed's guard; a locked row is waited for, and CAPTURED then.
FailGuard(i) == pay[i] = "PENDING" /\ ~ Locked(i)

\* A decline arrives: by callback, possibly late, or by a poll.
AttemptFails(i) ==
  /\ page[i] \in {"declined", "repaid"}
  /\ FailGuard(i)
  /\ GiveUp({i})
  /\ UNCHANGED <<booking, paymob, req, history>>

\* Mutant: one try more than there are offsets.
LastTryOffByOne(i) == tries[i] + 1 > MaxTries

\* The tries are used up.
LastTry(i) == tries[i] + 1 >= MaxTries

\* Mutant: the counter is not written back.
NextTriesKept(i) == tries[i]

\* The counter that is written back otherwise.
NextTries(i) == tries[i] + 1

\* reconcileStalePaymobPayments finds the attempt still open: later again, or
\* never again.
ReconcileOpen(i) ==
  /\ i \in Linked
  /\ Element(i) = "pending"
  /\ IF LastTry(i)
     THEN FailGuard(i) /\ GiveUp({i})
     ELSE /\ tries' = [tries EXCEPT ![i] = NextTries(i)]
          /\ UNCHANGED <<pay, amount, link>>
  /\ UNCHANGED <<booking, paymob, req, history>>

-----------------------------------------------------------------------------
(* Nothing owed: settleWithoutCharge. *)

\* confirmBookingWithoutPayment, or the checkout of an old build.
SettleRequest(r) ==
  /\ IsPayable
  /\ total = 0
  /\ Begin(r, "settle", "sync", 0, Linked)
  /\ UNCHANGED <<booking, payment, paymob, history>>

\* confirmBookingIfNothingOwed, from the redemption.
SettleRead(r) ==
  /\ At(r, "read")
  /\ IF IsPayable /\ total = 0
     THEN req' = [req EXCEPT ![r].op = "settle", ![r].pc = "sync", ![r].todo = Linked]
     ELSE Finish(r)
  /\ UNCHANGED <<booking, payment, paymob, history>>

\* Every attempt that was open when the booking was read is looked up first.
SettleSync(r) ==
  /\ At(r, "sync")
  /\ \E i \in req[r].todo :
       /\ IsLatest(i, req[r].todo)
       /\ \/ /\ Element(i) = "captured"
             /\ IF pay[i] \in Capturable
                THEN req' = [req EXCEPT ![r].pc = "mark", ![r].i = i]
                ELSE Finish(r)
             /\ UNCHANGED payment
          \/ /\ Element(i) # "captured"
             /\ IF Element(i) = "failed" /\ FailGuard(i) THEN GiveUp({i}) ELSE UNCHANGED payment
             /\ req' = [req EXCEPT ![r].todo = @ \ {i}]
          \/ ~ Reliable /\ Finish(r) /\ UNCHANGED payment
  /\ UNCHANGED <<booking, paymob, history>>

\* Mutant: the confirming write forgets the total.
NothingOwedUnchecked == Confirmable(status)

\* The guard of the confirming updateMany, in the transaction that read the status.
NothingOwed == Confirmable(status) /\ total <= 0

\* One transaction: rows with no link can never be paid, a zero payment is
\* captured, the booking is confirmed; or nothing at all.
SettleZero(r) ==
  /\ At(r, "sync")
  /\ req[r].todo = {}
  /\ \A i \in Attempts : pay[i] = "PENDING" /\ ~ link[i] => ~ Locked(i)
  /\ IF NothingOwed
     THEN /\ status' = "CONFIRMED"
          /\ zeroPaid' = TRUE
          /\ GiveUp({i \in Attempts : pay[i] = "PENDING" /\ ~ link[i]})
     ELSE UNCHANGED <<status, zeroPaid, payment>>
  /\ Finish(r)
  /\ UNCHANGED <<total, points, wallet, paymob, history>>

-----------------------------------------------------------------------------
(* Care Points: redeemBookingPoints, refundBookingPoints. *)

RedeemRead(r) ==
  /\ status = "APPROVED"
  /\ points = 0
  /\ total > 0
  /\ Begin(r, "redeem", "write", 0, {})
  /\ UNCHANGED <<booking, payment, paymob, history>>

\* Mutant: the redemption does not ask for a row without points.
RedeemGuardStatusOnly(h) == status = h.seen.status

\* The guard of applyPointsToBooking: the row as read, and no points on it.
RedeemGuard(h) == status = h.seen.status /\ total = h.seen.total /\ points = 0

\* Debit and discount in one transaction, then the settlement of a zero total.
RedeemWrite(r) ==
  /\ At(r, "write")
  /\ req[r].op = "redeem"
  /\ \E hours \in 1..req[r].seen.total :
       IF hours <= wallet /\ RedeemGuard(req[r])
       THEN /\ wallet' = wallet - hours
            /\ points' = hours
            /\ total'  = total - hours
            /\ Continue(r, "read")
       ELSE /\ Finish(r)
            /\ UNCHANGED <<wallet, points, total>>
  /\ UNCHANGED <<status, zeroPaid, payment, paymob, history>>

RemoveRead(r) ==
  /\ status \in UnpaidStatuses
  /\ points > 0
  /\ Begin(r, "remove", "credits", 0, {})
  /\ UNCHANGED <<booking, payment, paymob, history>>

\* The guard of refundBookingIfApplied: unpaid now, with the points as read.
ReturnGuard(h) == status \in UnpaidStatuses /\ points = h.seen.points

ReturnPoints(r) ==
  /\ At(r, "credits")
  /\ IF ReturnGuard(req[r])
     THEN /\ wallet' = wallet + points
          /\ total'  = total + points
          /\ points' = 0
     ELSE UNCHANGED <<wallet, total, points>>
  /\ IF req[r].op = "remove" THEN Finish(r) ELSE Continue(r, "write")
  /\ UNCHANGED <<status, zeroPaid, payment, paymob, history>>

-----------------------------------------------------------------------------
(* Cancelling: cancelBooking by the mother, or by the nanny once it is paid; *)
(* rejectBooking and setBookingStatus(CANCELLED) by the console.             *)

\* The mother's first read; an approved booking may have an open checkout.
CancelRead(r) ==
  /\ CanTransition(status, "CANCELLED")
  /\ Begin(r, "cancel", IF status = "APPROVED" THEN "check" ELSE "write", 0, {})
  /\ UNCHANGED <<booking, payment, paymob, history>>

\* The console checks before it reads.
RejectStart(r) ==
  /\ Begin(r, "reject", "check", 0, {})
  /\ UNCHANGED <<booking, payment, paymob, history>>

\* The attempt that bookingPaymentInProgress asks Paymob about.
OpenCheckout(i) == IsLatest(i, Linked) /\ age[i] = "fresh"

\* Nothing to ask about: the cancel goes on.
CheckNone(r) ==
  /\ At(r, "check")
  /\ ~ Reliable \/ \A i \in Attempts : ~ OpenCheckout(i)
  /\ Continue(r, "reread")
  /\ UNCHANGED <<booking, payment, paymob, history>>

\* bookingPaymentInProgress, with an answer: still open, paid or failed.
CheckOpen(r) ==
  /\ At(r, "check")
  /\ \E i \in Attempts :
       /\ OpenCheckout(i)
       /\ \/ Element(i) = "pending" /\ Finish(r) /\ UNCHANGED payment
          \/ /\ Element(i) = "captured"
             /\ req' = [req EXCEPT ![r].pc = "mark", ![r].i = i]
             /\ UNCHANGED payment
          \/ /\ Element(i) = "failed"
             /\ FailGuard(i)
             /\ GiveUp({i})
             /\ Continue(r, "reread")
  /\ UNCHANGED <<booking, paymob, history>>

\* Mutant: the console's and the mother's cancel forget the credits.
ReturnsCreditsNever(s) == FALSE

\* Credits are handed back before the cancel of an unpaid booking.
ReturnsCredits(s) == s \in UnpaidStatuses

\* The read that counts, and the transition table.
CancelReread(r) ==
  /\ At(r, "reread")
  /\ IF CanTransition(status, "CANCELLED")
     THEN req' = [req EXCEPT ![r].pc = IF ReturnsCredits(status) /\ points > 0
                                       THEN "credits" ELSE "write",
                             ![r].seen = Row]
     ELSE Finish(r)
  /\ UNCHANGED <<booking, payment, paymob, history>>

\* The guard of the cancelling updateMany.
CancelGuard(h) == status = h.seen.status

\* Mutant: an early cancel returns the points whether or not it was paid.
ReturnsAtCancelUnpaid(h, early) == early

\* A paid booking's points come back if the mother cancels it early enough.
ReturnsAtCancel(h, early) == early /\ h.seen.status = "CONFIRMED"

\* Cancel and return in one transaction; the booking keeps its figures.
CancelWrite(r) ==
  /\ At(r, "write")
  /\ req[r].op = "cancel"
  /\ IF CancelGuard(req[r])
     THEN /\ status' = "CANCELLED"
          /\ \E early \in BOOLEAN :
               wallet' = wallet + IF ReturnsAtCancel(req[r], early)
                                  THEN req[r].seen.points ELSE 0
     ELSE UNCHANGED <<status, wallet>>
  /\ Finish(r)
  /\ UNCHANGED <<total, points, zeroPaid, payment, paymob, history>>

\* By id, whatever has happened since the read.
RejectWrite(r) ==
  /\ At(r, "write")
  /\ req[r].op = "reject"
  /\ status' = "CANCELLED"
  /\ Finish(r)
  /\ UNCHANGED <<total, points, wallet, zeroPaid, payment, paymob, history>>

\* setBookingStatus(CONFIRMED): the operator's word, no payment, by id.
OverrideRead(r) ==
  /\ CanTransition(status, "CONFIRMED")
  /\ Begin(r, "override", "write", 0, {})
  /\ UNCHANGED <<booking, payment, paymob, history>>

OverrideWrite(r) ==
  /\ At(r, "write")
  /\ req[r].op = "override"
  /\ status' = "CONFIRMED"
  /\ Finish(r)
  /\ UNCHANGED <<total, points, wallet, zeroPaid, payment, paymob, history>>

-----------------------------------------------------------------------------

PayStep(r) == PayRead(r) \/ PaySupersede(r) \/ PayCreate(r) \/ PayStore(r) \/ PayRefused(r)

CaptureStep(r) ==
  \/ \E i \in Attempts : WebhookSuccess(r, i) \/ PollSuccess(r, i)
  \/ CaptureMark(r)
  \/ CaptureCommit(r)

SettleStep(r) == SettleRequest(r) \/ SettleRead(r) \/ SettleSync(r) \/ SettleZero(r)

PointsStep(r) == RedeemRead(r) \/ RedeemWrite(r) \/ RemoveRead(r) \/ ReturnPoints(r)

CancelStep(r) ==
  \/ CancelRead(r) \/ RejectStart(r) \/ CheckNone(r) \/ CheckOpen(r)
  \/ CancelReread(r) \/ CancelWrite(r) \/ RejectWrite(r)
  \/ OverrideRead(r) \/ OverrideWrite(r)

Background(i) ==
  MotherPays(i) \/ CardDeclined(i) \/ TimePasses(i) \/ AttemptFails(i) \/ ReconcileOpen(i)

Next ==
  \/ \E r \in Requests :
       PayStep(r) \/ CaptureStep(r) \/ SettleStep(r) \/ PointsStep(r) \/ CancelStep(r)
  \/ \E i \in Attempts : Background(i)

Spec == Init /\ [][Next]_vars

\* The steps of a handler that has begun: the server runs it to its end.
Proceed(r) ==
  \/ PaySupersede(r) \/ PayCreate(r) \/ PayStore(r) \/ PayRefused(r)
  \/ CaptureMark(r) \/ CaptureCommit(r)
  \/ SettleRead(r) \/ SettleSync(r) \/ SettleZero(r)
  \/ RedeemWrite(r) \/ ReturnPoints(r)
  \/ CheckNone(r) \/ CheckOpen(r) \/ CancelReread(r) \/ CancelWrite(r) \/ RejectWrite(r)
  \/ OverrideWrite(r)

\* The reconciler's timer, which looks at every linked attempt until it ends;
\* the slots of `req` being a bound of the model, a free one comes in the end.
FairReconciler ==
  /\ \A r \in Requests : WF_vars(Proceed(r))
  /\ \A i \in Attempts :
       /\ WF_vars(ReconcileOpen(i))
       /\ WF_vars(AttemptFails(i))
       /\ SF_vars(\E r \in Requests : PollSuccess(r, i))

\* Paymob repeats a callback until it is answered.
FairCallbacks == \A i \in Attempts : SF_vars(\E r \in Requests : WebhookSuccess(r, i))

\* Callbacks may be lost.
PollSpec == Spec /\ FairReconciler

LiveSpec == PollSpec /\ FairCallbacks

-----------------------------------------------------------------------------
(* Properties that hold however the handlers overlap. *)

\* A captured payment stays captured: no late decline, timeout, superseding
\* attempt or failed intention takes the record of taken money back
\* (finalizePaymentFailed, openIntention, settleWithoutCharge).
CapturedIsFinal ==
  [][\A i \in Attempts : pay[i] = "CAPTURED" => pay'[i] = "CAPTURED"]_vars

\* Nothing is recorded as captured that Paymob did not take: a page that is
\* merely open, however it was looked up, confirms nothing (mapIntentionElement,
\* captureAndConfirmBooking).
CapturedIsTaken == \A i \in Attempts : pay[i] = "CAPTURED" => Paid(i)

\* A booking that was confirmed with a zero payment owes nothing then and ever
\* after: points taken off it at the same moment either stop the confirm or come
\* too late (settleWithoutCharge, refundBookingIfApplied).
ZeroOwesNothing == zeroPaid => total = 0

\* Points that leave the wallet are on the booking, whichever of two redemptions,
\* a removal and a cancel comes first (applyPointsToBooking, refundBookingIfApplied).
PointsNeverLost == wallet + points >= Purse

-----------------------------------------------------------------------------
(* Properties of handlers that do not overlap (one slot). *)

\* One payment confirms the booking; any other is reported as money with nothing
\* to pay, and a zero settlement is not made next to a payment
\* (captureAndConfirmBooking).
OneConfirmation ==
  \A i \in payers : ~ zeroPaid /\ \A j \in payers : i = j

\* The payment that confirmed the booking is never reported as stranded: a
\* callback that comes twice changes nothing (captureAndConfirmBooking).
NoFalseAlarm == payers \cap told = {}

\* The wallet never gets back more than was spent (cancelBooking,
\* returnPaidBookingCredits).
PointsReturnedOnce == wallet <= Purse

\* A booking that is cancelled before it was paid keeps none of the mother's
\* points (returnUnpaidCredits).
CancelReturnsPoints ==
  [][(status \in UnpaidStatuses /\ status' = "CANCELLED") => points' = 0]_vars

\* Points lower the amount to be charged: who paid for the booking paid what it
\* cost after points (redeemBookingPoints).
ChargedWhatIsOwed ==
  \A i \in payers : status = "CONFIRMED" => amount[i] = total

-----------------------------------------------------------------------------
(* Liveness. *)

\* Money taken is recorded, in the end (processPaymobWebhook,
\* reconcileStalePaymobPayments, CAPTURABLE_PAYMENT_STATUSES).
PaidIsRecorded == \A i \in Attempts : Paid(i) ~> pay[i] = "CAPTURED"

\* No attempt stays pending: the reconciler settles it or gives it up.
PendingEnds == \A i \in Attempts : i \in Linked ~> i \notin Linked
=============================================================================
