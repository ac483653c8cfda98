----------------------------- MODULE BookingEdit -----------------------------
(***************************************************************************)
(* The console changes a booking's price after it was agreed or paid, bills*)
(* the difference, and gives money back: to the card through Paymob, or in *)
(* Care Points.                                                            *)
(*                                                                         *)
(* An edit is one transaction that re-tests, by updatedAt, the row it read;*)
(* the payments it read with it are not re-tested.  A refund is not a      *)
(* transaction: it reads, calls Paymob or settles, then records or grants. *)
(* The rest of this module is what may come between.                       *)
(*                                                                         *)
(* Amounts are whole units; the final total of an edit stands for what     *)
(* buildEditPlan and the credits make of it (PackageHours and CarePoints   *)
(* have the credits), and is 0 when they cover everything.  One attempt    *)
(* pays for the booking: BookingCheckout has the rest.  A balance may have *)
(* several pages, all payable.                                             *)
(***************************************************************************)
EXTENDS Integers, FiniteSets, FiniteSetsExt

CONSTANTS
  Prices,
  MaxBalances, \* bound on the booking_adjustments rows
  MaxPages,    \* bound on the pages of one balance that she pays
  Requests

ASSUME BookingEditAssumption ==
  /\ Prices \subseteq Nat
  /\ MaxBalances \in Nat
  /\ MaxPages \in Nat
  /\ IsFiniteSet(Requests)

Balances == 1..MaxBalances

VARIABLES
  status,    \* booking.status
  total,     \* booking.totalAmount
  settled,   \* booking.refundSettledAmount
  fresh,     \* the edits whose row is still as they read it (booking.updatedAt)
  pay,       \* payment.status
  amount,    \* payment.amount
  refunded,  \* payment.refundedAmount
  sent,      \* what Paymob has sent back to her card
  adj,       \* adj[b]: bookingAdjustment.status
  due,       \* due[b]: bookingAdjustment.amountEgp
  taken,     \* taken[b]: the payments of the balance that were captured
  granted,   \* Care Points rows: what they settled, and how many closed a cancel
  req,       \* req[r]: the handler in slot r
  odd        \* history: what has happened that no guard is there for

booking == <<status, total, settled, fresh>>
payment == <<pay, amount, refunded, sent>>
balance == <<adj, due, taken>>
vars    == <<booking, payment, balance, granted, req, odd>>

Idle == [pc |-> "idle"]

Amount == Nat \ {0}

Handler ==
  [pc : {"pay"}, amount : Prices]
  \cup [pc : {"edit"}, to : Prices, paid : Int]
  \cup [pc : {"card"}, amount : Amount, last : BOOLEAN]
  \cup [pc : {"record"}, amount : Amount, last : BOOLEAN, before : Nat]
  \cup [pc : {"settle"}, worth : Amount, before : Nat]
  \cup [pc : {"shut", "close"}]
  \cup [pc : {"grant"}, worth : Nat]

TypeOK ==
  /\ status \in {"APPROVED", "CONFIRMED", "CANCELLED", "REFUNDED"}
  /\ total \in Prices
  /\ settled \in Nat
  /\ fresh \subseteq Requests
  /\ pay \in {"none", "PENDING", "FAILED", "CAPTURED", "REFUNDED"}
  /\ amount \in {0} \cup Prices
  /\ sent \in 0..amount
  /\ refunded \in 0..sent
  /\ adj \in [Balances -> {"none", "PENDING_PAYMENT", "PAID"}]
  /\ due \in [Balances -> Nat]
  /\ taken \in [Balances -> 0..MaxPages]
  /\ granted \in [over : Nat, close : Nat]
  /\ req \in [Requests -> Handler \cup {Idle}]
  /\ odd \subseteq {"overlap", "reschedule", "amount", "crash"}

\* A request that has a nanny and waits for the payment.
Init ==
  /\ status = "APPROVED"
  /\ total \in Prices
  /\ settled = 0
  /\ fresh = {}
  /\ pay = "none"
  /\ amount = 0
  /\ refunded = 0
  /\ sent = 0
  /\ adj = [b \in Balances |-> "none"]
  /\ due = [b \in Balances |-> 0]
  /\ taken = [b \in Balances |-> 0]
  /\ granted = [over |-> 0, close |-> 0]
  /\ req = [r \in Requests |-> Idle]
  /\ odd = {}

Kind(pc) == CASE pc \in {"settle", "shut", "grant"} -> "points"
              [] pc \in {"card", "record", "close"} -> "card"
              [] OTHER -> pc

\* The guards are for two edits, and for two settlements in points.
Guarded(pc, other) == Kind(pc) = Kind(other) /\ Kind(pc) \in {"edit", "points"}

Begin(r, handler) ==
  /\ req[r] = Idle
  /\ req' = [req EXCEPT ![r] = handler]
  /\ odd' = IF \E s \in Requests : req[s] # Idle /\ ~ Guarded(handler.pc, req[s].pc)
            THEN odd \cup {"overlap"}
            ELSE odd

At(r, pc) == req[r].pc = pc

Goto(r, handler) == req' = [req EXCEPT ![r] = handler] /\ UNCHANGED odd

Finish(r) == Goto(r, Idle)

\* Every write of the row moves its updatedAt.
Touched == fresh' = {}

-----------------------------------------------------------------------------
(* What she has paid, and what is owed back. *)

Captured == pay \in {"CAPTURED", "REFUNDED"}

\* Mutant: what was settled in points is left out.
NetAmountPaidCardOnly == IF Captured THEN amount - refunded ELSE 0

\* A balance's payment carries no bookingId: it is not among booking.payments.
NetAmountPaid == (IF Captured THEN amount - refunded ELSE 0) - settled

Positive(n) == IF n > 0 THEN n ELSE 0

\* refundPosition
Refundable ==
  CASE status = "REFUNDED"  -> 0
    [] status = "CANCELLED" -> Positive(NetAmountPaid)
    [] OTHER                -> Positive(NetAmountPaid - total)

-----------------------------------------------------------------------------
(* The mother pays, the booking is called off or moved. *)

\* createPaymobIntentionForBooking: the price as read is the amount of the row.
PayRead(r) ==
  /\ status = "APPROVED"
  /\ total > 0
  /\ pay \in {"none", "FAILED"}
  /\ Begin(r, [pc |-> "pay", amount |-> total])
  /\ UNCHANGED <<booking, payment, balance, granted>>

\* An attempt opened behind a capture is BookingCheckout's.
PayCreate(r) ==
  /\ At(r, "pay")
  /\ IF Captured
     THEN UNCHANGED <<pay, amount>>
     ELSE pay' = "PENDING" /\ amount' = req[r].amount
  /\ Finish(r)
  /\ UNCHANGED <<booking, refunded, sent, balance, granted>>

PayFailed ==
  /\ pay = "PENDING"
  /\ pay' = "FAILED"
  /\ UNCHANGED <<booking, amount, refunded, sent, balance, granted, req, odd>>

\* A failed attempt is capturable too, at the amount it was opened with.
Capture ==
  /\ pay \in {"PENDING", "FAILED"}
  /\ pay' = "CAPTURED"
  /\ IF status = "APPROVED"
     THEN status' = "CONFIRMED" /\ Touched
     ELSE UNCHANGED <<status, fresh>>
  /\ odd' = IF amount # total THEN odd \cup {"amount"} ELSE odd
  /\ UNCHANGED <<total, settled, amount, refunded, sent, balance, granted, req>>

\* settleWithoutCharge: nothing is owed, and a payment of 0 confirms the booking.  The
\* total is tested again in the confirming write.
SettleWithoutCharge ==
  /\ status = "APPROVED"
  /\ total = 0
  /\ pay \in {"none", "FAILED"}
  /\ pay' = "CAPTURED"
  /\ amount' = 0
  /\ status' = "CONFIRMED"
  /\ Touched
  /\ UNCHANGED <<total, settled, refunded, sent, balance, granted, req, odd>>

Cancel ==
  /\ status \in {"APPROVED", "CONFIRMED"}
  /\ status' = "CANCELLED"
  /\ Touched
  /\ UNCHANGED <<total, settled, payment, balance, granted, req, odd>>

\* updateBookingTimes sets the price of the new hours, and bills nobody.
Reschedule ==
  /\ status \in {"APPROVED", "CONFIRMED"}
  /\ \E to \in Prices \ {total} : total' = to
  /\ Touched
  /\ odd' = odd \cup {"reschedule"}
  /\ UNCHANGED <<status, settled, payment, balance, granted, req>>

-----------------------------------------------------------------------------
(* applyBookingEdit *)

NoOpenObligation ==
  /\ \A b \in Balances : adj[b] # "PENDING_PAYMENT"
  /\ pay # "PENDING"

EditRead(r) ==
  /\ status \in {"APPROVED", "CONFIRMED"}
  /\ NoOpenObligation
  /\ \E to \in Prices :
       /\ Begin(r, [pc |-> "edit", to |-> to, paid |-> NetAmountPaid])
       /\ fresh' = fresh \cup {r}
  /\ UNCHANGED <<status, total, settled, payment, balance, granted>>

\* Mutant: the touch is by id.
TouchGuardById(r) == status \in {"APPROVED", "CONFIRMED"}

\* The guarded touch: updatedAt is as it was read.
TouchGuard(r) == r \in fresh

Unused == {b \in Balances : adj[b] = "none"}

\* Mutant: any change of the price of a paid booking is billed.
OwesAnyDelta(r) == req[r].paid > 0 /\ req[r].to # req[r].paid

\* She has paid, and the new price is more than the payments as they were read.
OwesMore(r) == req[r].paid > 0 /\ req[r].to > req[r].paid

EditWrite(r) ==
  /\ At(r, "edit")
  /\ Finish(r)
  /\ UNCHANGED <<status, settled, payment, granted>>
  /\ IF ~ TouchGuard(r)
     THEN UNCHANGED <<total, fresh, balance>>
     ELSE /\ total' = req[r].to
          /\ Touched
          /\ IF OwesMore(r)
             THEN \E b \in Unused :
                    /\ \A c \in Unused : b <= c
                    /\ adj' = [adj EXCEPT ![b] = "PENDING_PAYMENT"]
                    /\ due' = [due EXCEPT ![b] = req[r].to - req[r].paid]
                    /\ UNCHANGED taken
             ELSE UNCHANGED balance

\* finalizeAdjustmentPaymentCaptured: the payment is captured, and the balance is PAID
\* if it was PENDING_PAYMENT.  A page opened before another one was paid takes her money
\* again, and only its own row tells.  Nothing here reads the booking, and no code voids
\* a balance.
BalancePaid(b) ==
  /\ adj[b] # "none"
  /\ taken[b] < MaxPages
  /\ taken' = [taken EXCEPT ![b] = @ + 1]
  /\ adj' = [adj EXCEPT ![b] = "PAID"]
  /\ UNCHANGED <<booking, payment, due, granted, req, odd>>

-----------------------------------------------------------------------------
(* refundBooking *)

RefundToCard(r) ==
  /\ \E a \in 1..Refundable :
       Begin(r, [pc |-> "card", amount |-> a, last |-> status = "CANCELLED" /\ a = Refundable])
  /\ UNCHANGED <<booking, payment, balance, granted>>

RefundInPoints(r) ==
  /\ Refundable > 0
  /\ Begin(r, IF status = "CANCELLED"
              THEN [pc |-> "shut"]
              ELSE [pc |-> "settle", worth |-> Refundable, before |-> settled])
  /\ UNCHANGED <<booking, payment, balance, granted>>

\* refundBookingPayment: the payment is read again, and must cover the amount.
Coverable(a) == pay = "CAPTURED" /\ amount - refunded >= a

CardSend(r) ==
  /\ At(r, "card")
  /\ LET a == req[r].amount
         gone == Coverable(a) /\ amount - sent >= a
     IN /\ sent' = sent + (IF gone THEN a ELSE 0)
        /\ Goto(r, IF gone
                   THEN [pc |-> "record", amount |-> a, last |-> req[r].last, before |-> refunded]
                   ELSE Idle)
  /\ UNCHANGED <<booking, pay, amount, refunded, balance, granted>>

\* The money has left; the row takes it if refundedAmount is as it was read.
RecordGuard(r) == refunded = req[r].before

CardRecord(r) ==
  /\ At(r, "record")
  /\ IF RecordGuard(r)
     THEN /\ refunded' = req[r].before + req[r].amount
          /\ pay' = IF refunded' >= amount THEN "REFUNDED" ELSE "CAPTURED"
          /\ Goto(r, IF req[r].last THEN [pc |-> "close"] ELSE Idle)
     ELSE /\ Finish(r)
          /\ UNCHANGED <<refunded, pay>>
  /\ UNCHANGED <<booking, amount, sent, balance, granted>>

\* markRefunded, which losing a race does not stop here.
CardClose(r) ==
  /\ At(r, "close")
  /\ IF status = "CANCELLED"
     THEN status' = "REFUNDED" /\ Touched
     ELSE UNCHANGED <<status, fresh>>
  /\ Finish(r)
  /\ UNCHANGED <<total, settled, payment, balance, granted>>

\* markRefunded's where clause.
ShutGuard == status = "CANCELLED"

PointsShut(r) ==
  /\ At(r, "shut")
  /\ IF ShutGuard
     THEN /\ status' = "REFUNDED"
          /\ Touched
          /\ Goto(r, [pc |-> "grant", worth |-> 0])
     ELSE /\ Finish(r)
          /\ UNCHANGED <<status, fresh>>
  /\ UNCHANGED <<total, settled, payment, balance, granted>>

\* settleOverpaymentWithPoints' where clause.
SettleGuard(r) == settled = req[r].before

PointsSettle(r) ==
  /\ At(r, "settle")
  /\ IF SettleGuard(r)
     THEN /\ settled' = settled + req[r].worth
          /\ Touched
          /\ Goto(r, [pc |-> "grant", worth |-> req[r].worth])
     ELSE /\ Finish(r)
          /\ UNCHANGED <<settled, fresh>>
  /\ UNCHANGED <<status, total, payment, balance, granted>>

\* grantPoints: a worth of 0 is the grant that closes a cancelled booking.
PointsGrant(r) ==
  /\ At(r, "grant")
  /\ granted' = IF req[r].worth = 0
                THEN [granted EXCEPT !.close = @ + 1]
                ELSE [granted EXCEPT !.over = @ + req[r].worth]
  /\ Finish(r)
  /\ UNCHANGED <<booking, payment, balance>>

\* The server stops between two steps of a refund.
Crash(r) ==
  /\ \E pc \in {"record", "close", "grant"} : At(r, pc)
  /\ req' = [req EXCEPT ![r] = Idle]
  /\ odd' = odd \cup {"crash"}
  /\ UNCHANGED <<booking, payment, balance, granted>>

-----------------------------------------------------------------------------
RefundStep(r) ==
  \/ CardSend(r) \/ CardRecord(r) \/ CardClose(r)
  \/ PointsShut(r) \/ PointsSettle(r) \/ PointsGrant(r)

Next ==
  \/ PayFailed \/ Capture \/ SettleWithoutCharge \/ Cancel \/ Reschedule
  \/ \E b \in Balances : BalancePaid(b)
  \/ \E r \in Requests :
       \/ PayRead(r) \/ PayCreate(r) \/ EditRead(r) \/ EditWrite(r)
       \/ RefundToCard(r) \/ RefundInPoints(r) \/ RefundStep(r) \/ Crash(r)

Spec == Init /\ [][Next]_vars

-----------------------------------------------------------------------------
(* Properties *)

Open   == {b \in Balances : adj[b] = "PENDING_PAYMENT"}
Quiet  == \A r \in Requests : req[r] = Idle

OneBalanceOpen == Cardinality(Open) <= 1

\* It takes that nothing unguarded overlapped, that her payment was of the price, that
\* no reschedule changed it, and that she still has money on the booking: a deficit on
\* one that was covered, or given back in full, is billed by nobody (the test of
\* amountPaid at admin-booking-edit.service.ts:688).
DeficitIsBilled ==
  (status = "CONFIRMED" /\ odd = {} /\ Quiet /\ 0 < NetAmountPaid /\ NetAmountPaid < total) =>
    \E b \in Balances : adj[b] # "none" /\ due[b] = total - NetAmountPaid

\* Two operators who save their edits of one booking at once raise one balance, not
\* two; and a booking with money on it whose price is above that money has a balance of
\* exactly the difference, whatever edits and refunds came before: no refund, to the
\* card or in points, gives back more than was overpaid
\* (admin-booking-edit.service.ts:561, 666, 779).
PriceIsCovered == OneBalanceOpen /\ DeficitIsBilled

CardAddsUp ==
  odd \subseteq {"reschedule", "amount"} =>
    /\ sent + settled <= amount
    /\ Quiet => sent = refunded

PointsAddUp ==
  /\ granted.over <= settled
  /\ granted.close <= 1
  /\ (Quiet /\ "crash" \notin odd) => granted.over = settled

\* What went back to her card and what was settled in points is never more than she
\* paid, and the payment's row knows what Paymob sent, where neither a crash nor two
\* unguarded handlers at once came between: two refunds to the card at once, and a
\* crash after Paymob's answer, are excused by `odd`.  Points are granted for what
\* was settled first, and a cancelled booking is settled in points once, however many
\* operators press the button (payment-refund.service.ts:51,
\* admin-booking-edit.service.ts:816).
RefundsAddUp == CardAddsUp /\ PointsAddUp

Paid == NetAmountPaid + MapThenSumSet(LAMBDA b : due[b] * taken[b], Balances)

\* A new balance asks for the difference between the price and all she has paid, a
\* balance she paid before included (admin-booking.service.ts:85).
BalanceIsDifference ==
  [][\A b \in Balances :
       (adj[b] = "none" /\ adj'[b] = "PENDING_PAYMENT" /\ odd = {}) => due'[b] = total' - Paid]_vars
=============================================================================
