-------------------------- MODULE BookingEditProofs --------------------------
(***************************************************************************)
(* For any prices, 0 included, any balances and number of operators at     *)
(* once: one balance is open at most, a deficit on a booking with money on *)
(* it is billed to the unit, and no more goes back than was paid.          *)
(***************************************************************************)
EXTENDS BookingEdit, SumTheorems

\* Money goes back only after money came in, and a capture confirms the booking.
MoneyCameFirst ==
  /\ ~ Captured => sent = 0 /\ settled = 0
  /\ status = "CONFIRMED" => Captured
  /\ status = "APPROVED" => ~ Captured

\* An edit whose row is as it was read has seen that nothing is open.
FreshSawNothingOpen ==
  /\ fresh # {} => Open = {} /\ status \in {"APPROVED", "CONFIRMED"}
  /\ \A b, c \in Open : b = c

\* What `odd` is a history of.
NothingOverlaps ==
  "overlap" \notin odd =>
    \A r, q \in Requests :
      (r # q /\ req[r] # Idle /\ req[q] # Idle) => Guarded(req[r].pc, req[q].pc)

EditSees(r) ==
  (At(r, "edit") /\ r \in fresh /\ "overlap" \notin odd) => req[r].paid = NetAmountPaid

CardSees(r) ==
  At(r, "card") =>
    /\ Captured
    /\ "overlap" \notin odd => refunded + settled + req[r].amount <= amount
    /\ (odd = {} /\ status = "CONFIRMED") => NetAmountPaid - req[r].amount >= total

RecordSees(r) ==
  At(r, "record") =>
    /\ Captured
    /\ req[r].before <= refunded
    /\ RecordGuard(r) =>
         /\ refunded + req[r].amount <= sent
         /\ (odd = {} /\ status = "CONFIRMED") => NetAmountPaid - req[r].amount >= total

SettleSees(r) ==
  At(r, "settle") =>
    /\ Captured
    /\ req[r].before <= settled
    /\ SettleGuard(r) =>
         /\ "overlap" \notin odd => refunded + settled + req[r].worth <= amount
         /\ (odd = {} /\ status = "CONFIRMED") => NetAmountPaid - req[r].worth >= total

\* What a handler read is still so where nothing unguarded came between.
HandlersSee ==
  \A r \in Requests : EditSees(r) /\ CardSees(r) /\ RecordSees(r) /\ SettleSees(r)

\* What Paymob sent is on the row, or a handler is about to put it there.
SentIsKnown ==
  odd \subseteq {"reschedule", "amount"} =>
    /\ sent + settled <= amount
    /\ \/ sent = refunded
       \/ \E r \in Requests :
            At(r, "record") /\ RecordGuard(r) /\ sent = refunded + req[r].amount

\* A deficit on a booking with money on it is billed.
Covered ==
  (odd = {} /\ status = "CONFIRMED" /\ 0 < NetAmountPaid /\ NetAmountPaid < total) =>
    \E b \in Balances : adj[b] # "none" /\ due[b] = total - NetAmountPaid

\* The points that handlers are about to grant.
Coming == [r \in Requests |-> IF At(r, "grant") THEN req[r].worth ELSE 0]

GrantsAddUp ==
  /\ granted.over + SumFunctionOnSet(Coming, Requests) <= settled
  /\ "crash" \notin odd => granted.over + SumFunctionOnSet(Coming, Requests) = settled

Closing(r) == At(r, "grant") /\ req[r].worth = 0

\* One settlement in points closes a cancelled booking.
ClosedOnce ==
  /\ granted.close <= 1
  /\ granted.close = 1 => status = "REFUNDED"
  /\ \A r \in Requests : Closing(r) => status = "REFUNDED" /\ granted.close = 0
  /\ \A r, q \in Requests : Closing(r) /\ Closing(q) => r = q

\* The inductive invariant.
EditInv ==
  /\ TypeOK /\ MoneyCameFirst /\ FreshSawNothingOpen /\ NothingOverlaps
  /\ HandlersSee /\ SentIsKnown /\ Covered /\ GrantsAddUp /\ ClosedOnce

-----------------------------------------------------------------------------
(* Types, handlers and their kinds. *)

LEMMA Numbers ==
  ASSUME TypeOK
  PROVE  /\ amount \in Nat /\ sent \in Nat /\ refunded \in Nat /\ settled \in Nat
         /\ refunded <= sent /\ sent <= amount
         /\ total \in Nat
         /\ NetAmountPaid \in Int
BY BookingEditAssumption DEF TypeOK, NetAmountPaid

LEMMA HandlerFields ==
  ASSUME TypeOK, NEW r \in Requests
  PROVE  /\ req[r].pc = "pay" => req[r].amount \in Prices
         /\ req[r].pc = "edit" => req[r].to \in Prices /\ req[r].paid \in Int
         /\ req[r].pc \in {"card", "record"} => req[r].amount \in Amount /\ req[r].last \in BOOLEAN
         /\ req[r].pc = "record" => req[r].before \in Nat
         /\ req[r].pc = "settle" => req[r].worth \in Amount /\ req[r].before \in Nat
         /\ req[r].pc = "grant" => req[r].worth \in Nat
<1>1. req[r] \in Handler \cup {Idle}
  BY DEF TypeOK
<1> QED
  BY <1>1 DEF Handler, Idle

\* The sum of what is coming is a number.
LEMMA ComingType ==
  ASSUME TypeOK
  PROVE  /\ \A r \in Requests : Coming[r] \in Nat
         /\ SumFunctionOnSet(Coming, Requests) \in Nat
<1>1. \A r \in Requests : Coming[r] \in Nat
  BY HandlerFields DEF Coming, At
<1> QED
  BY <1>1, SumNat, BookingEditAssumption

\* A handler begins: what it overlaps with is guarded, or recorded in `odd`.
LEMMA BeginKeeps ==
  ASSUME TypeOK, NothingOverlaps, NEW r \in Requests, NEW h, Begin(r, h)
  PROVE  /\ NothingOverlaps'
         /\ odd \subseteq odd' /\ odd' \subseteq odd \cup {"overlap"}
         /\ req[r] = Idle
         /\ \A q \in Requests : req'[q] = IF q = r THEN h ELSE req[q]
<1>1. /\ req[r] = Idle
      /\ \A q \in Requests : req'[q] = IF q = r THEN h ELSE req[q]
  BY DEF Begin, TypeOK
<1>2. odd \subseteq odd' /\ odd' \subseteq odd \cup {"overlap"}
  BY DEF Begin
<1>3. "overlap" \notin odd' => \A q \in Requests : req[q] # Idle => Guarded(h.pc, req[q].pc)
  BY DEF Begin
<1>4. \A x, y : Guarded(x, y) => Guarded(y, x)
  BY DEF Guarded
<1>5. NothingOverlaps'
  BY <1>1, <1>2, <1>3, <1>4 DEF NothingOverlaps
<1> QED
  BY <1>1, <1>2, <1>5

\* A handler goes on with what it is about, or ends.
LEMMA GoingOnKeeps ==
  ASSUME TypeOK, NothingOverlaps, NEW r \in Requests, req[r] # Idle, odd \subseteq odd',
         NEW h, h = Idle \/ Kind(h.pc) = Kind(req[r].pc), req' = [req EXCEPT ![r] = h]
  PROVE  /\ NothingOverlaps'
         /\ \A q \in Requests : req'[q] = IF q = r THEN h ELSE req[q]
<1>1. \A q \in Requests : req'[q] = IF q = r THEN h ELSE req[q]
  BY DEF TypeOK
<1>2. \A q \in Requests : Kind(req[r].pc) = Kind(h.pc) =>
        /\ Guarded(req[r].pc, req[q].pc) => Guarded(h.pc, req[q].pc)
        /\ Guarded(req[q].pc, req[r].pc) => Guarded(req[q].pc, h.pc)
  BY DEF Guarded
<1> QED
  BY <1>1, <1>2 DEF NothingOverlaps

LEMMA EndingKeeps ==
  ASSUME TypeOK, NothingOverlaps, NEW r \in Requests, req[r].pc # "idle", odd \subseteq odd',
         req' = [req EXCEPT ![r] = Idle]
  PROVE  /\ NothingOverlaps'
         /\ \A q \in Requests : req'[q] = IF q = r THEN Idle ELSE req[q]
<1>1. req[r] # Idle
  BY DEF Idle
<1> QED
  BY <1>1, GoingOnKeeps

\* A handler of the card, and one that edits, have nothing else beside them.
LEMMA AloneThen ==
  ASSUME TypeOK, NothingOverlaps, "overlap" \notin odd, NEW r \in Requests, NEW q \in Requests,
         r # q, req[r] # Idle, req[q] # Idle
  PROVE  /\ Kind(req[r].pc) = Kind(req[q].pc)
         /\ req[r].pc \notin {"card", "record", "close"}
         /\ req[r].pc = "edit" <=> req[q].pc = "edit"
BY DEF NothingOverlaps, Guarded, Kind

\* What is coming does not change with handlers that are not about to grant.
LEMMA ComingKept ==
  ASSUME TypeOK, TypeOK', GrantsAddUp, UNCHANGED <<granted, settled>>, odd \subseteq odd',
         \A q \in Requests : Coming'[q] = Coming[q]
  PROVE  GrantsAddUp'
<1>1. SumFunctionOnSet(Coming', Requests) = SumFunctionOnSet(Coming, Requests)
  BY SumSame, ComingType, BookingEditAssumption
<1> QED
  BY <1>1 DEF GrantsAddUp

-----------------------------------------------------------------------------
(* Steps that are no handler's. *)

LEMMA SameHandlers ==
  ASSUME TypeOK, UNCHANGED req
  PROVE  /\ \A r \in Requests : Coming'[r] = Coming[r]
         /\ \A r : Closing(r)' <=> Closing(r)
         /\ \A r, pc : At(r, pc)' <=> At(r, pc)
         /\ odd \subseteq odd' /\ NothingOverlaps => NothingOverlaps'
BY DEF Coming, Closing, At, NothingOverlaps

LEMMA PayFailedOK ==
  ASSUME EditInv, PayFailed
  PROVE  EditInv'
<1>1. UNCHANGED <<status, total, settled, fresh, amount, refunded, sent, adj, due, taken, granted,
                  req, odd>>
  BY DEF PayFailed, booking, balance
<1>2. ~ Captured /\ ~ Captured'
  BY DEF PayFailed, Captured
<1>3. NetAmountPaid' = NetAmountPaid
  BY <1>1, <1>2 DEF NetAmountPaid
<1>4. TypeOK'
  BY <1>1 DEF EditInv, TypeOK, PayFailed
<1>5. MoneyCameFirst' /\ FreshSawNothingOpen' /\ ClosedOnce'
  BY <1>1, <1>2 DEF EditInv, MoneyCameFirst, FreshSawNothingOpen, Open, ClosedOnce, Closing, At
<1>6. NothingOverlaps' /\ GrantsAddUp'
  BY <1>1, <1>4, SameHandlers, ComingKept DEF EditInv
<1>7. HandlersSee'
  BY <1>1, <1>2, <1>3 DEF EditInv, HandlersSee, EditSees, CardSees, RecordSees, SettleSees, At,
     RecordGuard, SettleGuard
<1>8. SentIsKnown' /\ Covered'
  BY <1>1, <1>2, <1>3 DEF EditInv, SentIsKnown, Covered, At, RecordGuard
<1> QED
  BY <1>4, <1>5, <1>6, <1>7, <1>8 DEF EditInv

LEMMA CaptureOK ==
  ASSUME EditInv, Capture
  PROVE  EditInv'
<1>1. UNCHANGED <<total, settled, amount, refunded, sent, adj, due, taken, granted, req>>
  BY DEF Capture, balance
<1>2. ~ Captured /\ Captured' /\ status # "CONFIRMED"
  BY DEF Capture, Captured, EditInv, MoneyCameFirst
<1>3. sent = 0 /\ settled = 0 /\ refunded = 0
  BY <1>2, Numbers DEF EditInv, MoneyCameFirst
<1>4. odd \subseteq odd' /\ odd' \subseteq odd \cup {"amount"} /\ (odd' = {} => amount = total)
  BY DEF Capture
<1>5. fresh' = {}
  BY <1>2 DEF Capture, Touched, EditInv, FreshSawNothingOpen
<1>6. TypeOK'
  BY <1>1, <1>4, <1>5 DEF EditInv, TypeOK, Capture
<1>7. MoneyCameFirst' /\ FreshSawNothingOpen'
  BY <1>1, <1>2, <1>5 DEF EditInv, MoneyCameFirst, FreshSawNothingOpen, Open, Capture
<1>8. NothingOverlaps' /\ GrantsAddUp'
  BY <1>1, <1>4, <1>6, SameHandlers, ComingKept DEF EditInv
<1>9. HandlersSee'
  BY <1>1, <1>2, <1>5 DEF EditInv, HandlersSee, EditSees, CardSees, RecordSees, SettleSees, At
<1>10. SentIsKnown'
  BY <1>1, <1>4 DEF EditInv, SentIsKnown, At, RecordGuard
<1>11. Covered'
  <2>1. NetAmountPaid' = amount
    BY <1>1, <1>2, <1>3, Numbers DEF EditInv, NetAmountPaid
  <2> QED
    BY <1>1, <1>4, <2>1, Numbers DEF EditInv, Covered
<1>12. ClosedOnce'
  BY <1>1 DEF Capture, EditInv, ClosedOnce, Closing, At
<1> QED
  BY <1>6, <1>7, <1>8, <1>9, <1>10, <1>11, <1>12 DEF EditInv

LEMMA SettleWithoutChargeOK ==
  ASSUME EditInv, SettleWithoutCharge
  PROVE  EditInv'
<1>1. UNCHANGED <<total, settled, refunded, sent, adj, due, taken, granted, req, odd>>
  BY DEF SettleWithoutCharge, balance
<1>2. ~ Captured /\ Captured' /\ pay' = "CAPTURED" /\ amount' = 0 /\ status' = "CONFIRMED"
  BY DEF SettleWithoutCharge, Captured
<1>3. sent = 0 /\ settled = 0 /\ refunded = 0
  BY <1>2, Numbers DEF EditInv, MoneyCameFirst
<1>4. status = "APPROVED" /\ fresh' = {} /\ (fresh # {} => Open = {})
  BY DEF SettleWithoutCharge, Touched, EditInv, FreshSawNothingOpen
<1>5. TypeOK'
  BY <1>1, <1>2, <1>3, <1>4 DEF EditInv, TypeOK
<1>6. MoneyCameFirst' /\ FreshSawNothingOpen'
  BY <1>1, <1>2, <1>4 DEF EditInv, MoneyCameFirst, FreshSawNothingOpen, Open
<1>7. NothingOverlaps' /\ GrantsAddUp'
  BY <1>1, <1>5, SameHandlers, ComingKept DEF EditInv
<1>8. HandlersSee'
  BY <1>1, <1>2, <1>4 DEF EditInv, HandlersSee, EditSees, CardSees, RecordSees, SettleSees, At
<1>9. SentIsKnown'
  BY <1>1, <1>2, <1>3 DEF SentIsKnown
<1>10. Covered'
  <2>1. NetAmountPaid' = 0
    BY <1>1, <1>2, <1>3 DEF NetAmountPaid
  <2> QED
    BY <2>1 DEF Covered
<1>11. ClosedOnce'
  BY <1>1, <1>4 DEF EditInv, ClosedOnce, Closing, At
<1> QED
  BY <1>5, <1>6, <1>7, <1>8, <1>9, <1>10, <1>11 DEF EditInv

LEMMA CancelOK ==
  ASSUME EditInv, Cancel
  PROVE  EditInv'
<1>1. UNCHANGED <<total, settled, pay, amount, refunded, sent, adj, due, taken, granted, req, odd>>
  BY DEF Cancel, balance, payment
<1>2. status' = "CANCELLED" /\ status # "REFUNDED" /\ fresh' = {}
  BY DEF Cancel, Touched
<1>3. TypeOK'
  BY <1>1, <1>2 DEF EditInv, TypeOK
<1>4. MoneyCameFirst' /\ FreshSawNothingOpen' /\ ClosedOnce'
  BY <1>1, <1>2 DEF EditInv, MoneyCameFirst, FreshSawNothingOpen, Open, Captured, ClosedOnce,
     Closing, At
<1>5. NothingOverlaps' /\ GrantsAddUp'
  BY <1>1, <1>3, SameHandlers, ComingKept DEF EditInv
<1>6. HandlersSee'
  BY <1>1, <1>2 DEF EditInv, HandlersSee, EditSees, CardSees, RecordSees, SettleSees, At,
     RecordGuard, SettleGuard, Captured
<1>7. SentIsKnown' /\ Covered'
  BY <1>1, <1>2 DEF EditInv, SentIsKnown, Covered, At, RecordGuard
<1> QED
  BY <1>3, <1>4, <1>5, <1>6, <1>7 DEF EditInv

LEMMA RescheduleOK ==
  ASSUME EditInv, Reschedule
  PROVE  EditInv'
<1>1. UNCHANGED <<status, settled, pay, amount, refunded, sent, adj, due, taken, granted, req>>
  BY DEF Reschedule, balance, payment
<1>2. fresh' = {} /\ total' \in Prices /\ odd' = odd \cup {"reschedule"}
  BY DEF Reschedule, Touched
<1>3. TypeOK'
  BY <1>1, <1>2 DEF EditInv, TypeOK
<1>4. MoneyCameFirst' /\ FreshSawNothingOpen' /\ ClosedOnce'
  BY <1>1, <1>2 DEF EditInv, MoneyCameFirst, FreshSawNothingOpen, Open, Captured, ClosedOnce,
     Closing, At
<1>5. NothingOverlaps' /\ GrantsAddUp'
  BY <1>1, <1>2, <1>3, SameHandlers, ComingKept DEF EditInv
<1>6. HandlersSee'
  BY <1>1, <1>2 DEF EditInv, HandlersSee, EditSees, CardSees, RecordSees, SettleSees, At,
     RecordGuard, SettleGuard, Captured
<1>7. SentIsKnown' /\ Covered'
  BY <1>1, <1>2 DEF EditInv, SentIsKnown, Covered, At, RecordGuard
<1> QED
  BY <1>3, <1>4, <1>5, <1>6, <1>7 DEF EditInv

LEMMA BalancePaidOK ==
  ASSUME EditInv, NEW b \in Balances, BalancePaid(b)
  PROVE  EditInv'
<1>1. UNCHANGED <<status, total, settled, fresh, pay, amount, refunded, sent, due, granted, req, odd>>
  BY DEF BalancePaid, booking, payment
<1>2. adj[b] # "none" /\ \A c \in Balances : adj'[c] = IF c = b THEN "PAID" ELSE adj[c]
  BY DEF BalancePaid, EditInv, TypeOK
<1>3. TypeOK'
  <2>1. taken[b] + 1 \in 0..MaxPages
    BY BookingEditAssumption DEF BalancePaid, EditInv, TypeOK
  <2>2. taken' \in [Balances -> 0..MaxPages]
    BY <2>1 DEF BalancePaid, EditInv, TypeOK
  <2>3. adj' \in [Balances -> {"none", "PENDING_PAYMENT", "PAID"}]
    BY DEF BalancePaid, EditInv, TypeOK
  <2> QED
    BY <1>1, <2>2, <2>3 DEF EditInv, TypeOK
<1>4. MoneyCameFirst' /\ FreshSawNothingOpen' /\ ClosedOnce'
  BY <1>1, <1>2 DEF EditInv, MoneyCameFirst, FreshSawNothingOpen, Open, Captured, ClosedOnce,
     Closing, At
<1>5. NothingOverlaps' /\ GrantsAddUp'
  BY <1>1, <1>3, SameHandlers, ComingKept DEF EditInv
<1>6. NetAmountPaid' = NetAmountPaid
  BY <1>1 DEF NetAmountPaid, Captured
<1>7. HandlersSee'
  BY <1>1, <1>6 DEF EditInv, HandlersSee, EditSees, CardSees, RecordSees, SettleSees, At,
     RecordGuard, SettleGuard, Captured
<1>8. SentIsKnown' /\ Covered'
  BY <1>1, <1>2, <1>6 DEF EditInv, SentIsKnown, Covered, At, RecordGuard
<1> QED
  BY <1>3, <1>4, <1>5, <1>7, <1>8 DEF EditInv

-----------------------------------------------------------------------------
(* Handlers that begin. *)

\* A handler begins, and what it has read is so.
LEMMA BeginOK ==
  ASSUME EditInv, NEW r \in Requests, NEW h \in Handler, Begin(r, h), h.pc # "grant",
         h.pc # "record", UNCHANGED <<status, total, settled, pay, amount, refunded, sent, balance,
                                      granted>>,
         fresh' = fresh \/ (NoOpenObligation /\ status \in {"APPROVED", "CONFIRMED"}
                              /\ fresh' = fresh \cup {r}),
         h.pc = "edit" => h.paid = NetAmountPaid,
         h.pc = "card" => CardSees(r)', h.pc = "settle" => SettleSees(r)'
  PROVE  EditInv'
<1>1. UNCHANGED <<status, total, settled, pay, amount, refunded, sent, adj, due, taken, granted>>
  BY DEF balance
<1>2. /\ NothingOverlaps'
      /\ odd \subseteq odd' /\ odd' \subseteq odd \cup {"overlap"}
      /\ req[r] = Idle
      /\ \A q \in Requests : req'[q] = IF q = r THEN h ELSE req[q]
  BY BeginKeeps DEF EditInv
<1>3. TypeOK'
  <2>1. req' \in [Requests -> Handler \cup {Idle}]
    BY DEF Begin, EditInv, TypeOK
  <2> QED
    BY <1>1, <1>2, <2>1 DEF EditInv, TypeOK
<1>4. MoneyCameFirst' /\ FreshSawNothingOpen'
  BY <1>1 DEF EditInv, MoneyCameFirst, FreshSawNothingOpen, Open, Captured, NoOpenObligation
<1>5. \A q \in Requests : Coming'[q] = Coming[q] /\ (Closing(q)' <=> Closing(q))
  BY <1>2 DEF Coming, Closing, At, Idle
<1>6. GrantsAddUp' /\ ClosedOnce'
  <2>1. GrantsAddUp'
    BY <1>1, <1>2, <1>3, <1>5, ComingKept DEF EditInv
  <2>2. ClosedOnce'
    BY <1>1, <1>5 DEF EditInv, ClosedOnce
  <2> QED
    BY <2>1, <2>2
<1>7. NetAmountPaid' = NetAmountPaid
  BY <1>1 DEF NetAmountPaid, Captured
<1>8. HandlersSee'
  <2> SUFFICES ASSUME NEW q \in Requests
               PROVE  EditSees(q)' /\ CardSees(q)' /\ RecordSees(q)' /\ SettleSees(q)'
    BY DEF HandlersSee
  <2>1. CASE q = r
    <3>1. req'[r] = h
      BY <1>2
    <3>2. EditSees(r)'
      BY <1>7, <3>1 DEF EditSees, At
    <3>3. CardSees(r)' /\ RecordSees(r)' /\ SettleSees(r)'
      BY <3>1 DEF CardSees, RecordSees, SettleSees, At
    <3> QED
      BY <2>1, <3>2, <3>3
  <2>2. CASE q # r
    <3>1. req'[q] = req[q] /\ (q \in fresh' => q \in fresh)
      BY <1>2, <2>2
    <3>2. EditSees(q) /\ CardSees(q) /\ RecordSees(q) /\ SettleSees(q)
      BY DEF EditInv, HandlersSee
    <3> QED
      BY <1>1, <1>2, <1>7, <3>1, <3>2 DEF EditSees, CardSees, RecordSees, SettleSees, At,
         RecordGuard, SettleGuard, Captured
  <2> QED
    BY <2>1, <2>2
<1>9. SentIsKnown'
  BY <1>1, <1>2 DEF EditInv, SentIsKnown, At, RecordGuard, Idle
<1>10. Covered'
  BY <1>1, <1>2, <1>7 DEF EditInv, Covered
<1> QED
  BY <1>2, <1>3, <1>4, <1>6, <1>8, <1>9, <1>10 DEF EditInv

LEMMA PayReadOK ==
  ASSUME EditInv, NEW r \in Requests, PayRead(r)
  PROVE  EditInv'
<1> DEFINE h == [pc |-> "pay", amount |-> total]
<1>1. h \in Handler /\ h.pc = "pay"
  BY DEF Handler, EditInv, TypeOK
<1>2. Begin(r, h) /\ UNCHANGED <<status, total, settled, fresh, pay, amount, refunded, sent, balance,
                                 granted>>
  BY DEF PayRead, booking, payment
<1> HIDE DEF h
<1> QED
  BY <1>1, <1>2, BeginOK

LEMMA EditReadOK ==
  ASSUME EditInv, NEW r \in Requests, EditRead(r)
  PROVE  EditInv'
<1>1. PICK to \in Prices : /\ Begin(r, [pc |-> "edit", to |-> to, paid |-> NetAmountPaid])
                           /\ fresh' = fresh \cup {r}
  BY DEF EditRead
<1> DEFINE h == [pc |-> "edit", to |-> to, paid |-> NetAmountPaid]
<1>2. h \in Handler /\ h.pc = "edit" /\ h.paid = NetAmountPaid
  BY Numbers DEF Handler, EditInv
<1>3. /\ UNCHANGED <<status, total, settled, pay, amount, refunded, sent, balance, granted>>
      /\ NoOpenObligation /\ status \in {"APPROVED", "CONFIRMED"}
  BY DEF EditRead, payment
<1>4. Begin(r, h) /\ fresh' = fresh \cup {r}
  BY <1>1
<1> HIDE DEF h
<1> QED
  BY <1>2, <1>3, <1>4, BeginOK

\* What is refundable was paid, and leaves the price of a booking that stands.
LEMMA RefundableIsPaid ==
  ASSUME EditInv, Refundable > 0
  PROVE  /\ Refundable \in Nat
         /\ Captured
         /\ refunded + settled + Refundable <= amount
         /\ status = "CONFIRMED" => NetAmountPaid - Refundable >= total
<1>1. NetAmountPaid > 0
  BY Numbers DEF EditInv, Refundable, Positive
<1>2. Captured
  BY <1>1, Numbers DEF EditInv, NetAmountPaid
<1>3. NetAmountPaid = amount - refunded - settled
  BY <1>2, Numbers DEF EditInv, NetAmountPaid
<1> QED
  BY <1>2, <1>3, Numbers DEF EditInv, Refundable, Positive

LEMMA RefundToCardOK ==
  ASSUME EditInv, NEW r \in Requests, RefundToCard(r)
  PROVE  EditInv'
<1>1. PICK a \in 1..Refundable :
        Begin(r, [pc |-> "card", amount |-> a, last |-> status = "CANCELLED" /\ a = Refundable])
  BY DEF RefundToCard
<1> DEFINE h == [pc |-> "card", amount |-> a, last |-> status = "CANCELLED" /\ a = Refundable]
<1>2. Refundable \in Int
  BY Numbers DEF EditInv, Refundable, Positive
<1>3. a \in Nat \ {0} /\ a <= Refundable /\ Refundable > 0
  BY <1>1, <1>2
<1>4. h \in Handler /\ h.pc = "card" /\ h.amount = a
  BY <1>3 DEF Handler, Amount
<1>5. UNCHANGED <<status, total, settled, fresh, pay, amount, refunded, sent, balance, granted>>
  BY DEF RefundToCard, booking, payment
<1>6. Begin(r, h)
  BY <1>1
<1> HIDE DEF h
<1>7. req'[r] = h
  BY <1>6, BeginKeeps DEF EditInv
<1>8. NetAmountPaid' = NetAmountPaid /\ Captured'
  BY <1>3, <1>5, RefundableIsPaid DEF NetAmountPaid, Captured
<1>9. CardSees(r)'
  <2>1. /\ refunded + settled + a <= amount
        /\ status = "CONFIRMED" => NetAmountPaid - a >= total
    BY <1>3, RefundableIsPaid, Numbers DEF EditInv
  <2> QED
    BY <1>4, <1>5, <1>7, <1>8, <2>1 DEF CardSees, At
<1> QED
  BY <1>4, <1>5, <1>6, <1>9, BeginOK

LEMMA RefundInPointsOK ==
  ASSUME EditInv, NEW r \in Requests, RefundInPoints(r)
  PROVE  EditInv'
<1>1. UNCHANGED <<status, total, settled, fresh, pay, amount, refunded, sent, balance, granted>>
  BY DEF RefundInPoints, booking, payment
<1>2. CASE status = "CANCELLED"
  <2> DEFINE h == [pc |-> "shut"]
  <2>1. h \in Handler /\ h.pc = "shut" /\ Begin(r, h)
    BY <1>2 DEF Handler, RefundInPoints
  <2> HIDE DEF h
  <2> QED
    BY <1>1, <2>1, BeginOK
<1>3. CASE status # "CANCELLED"
  <2> DEFINE h == [pc |-> "settle", worth |-> Refundable, before |-> settled]
  <2>1. Refundable > 0 /\ Begin(r, h)
    BY <1>3 DEF RefundInPoints
  <2>2. h \in Handler /\ h.pc = "settle" /\ h.worth = Refundable /\ h.before = settled
    BY <2>1, RefundableIsPaid, Numbers DEF Handler, Amount, EditInv
  <2> HIDE DEF h
  <2>3. req'[r] = h
    BY <2>1, BeginKeeps DEF EditInv
  <2>4. NetAmountPaid' = NetAmountPaid /\ Captured'
    BY <1>1, <2>1, RefundableIsPaid DEF NetAmountPaid, Captured
  <2>5. SettleSees(r)'
    BY <1>1, <2>1, <2>2, <2>3, <2>4, RefundableIsPaid, Numbers DEF SettleSees, At, SettleGuard,
       EditInv
  <2> QED
    BY <1>1, <2>1, <2>2, <2>5, BeginOK
<1> QED
  BY <1>2, <1>3

-----------------------------------------------------------------------------
(* Handlers that go on. *)

\* The handlers beside r see what they saw, if what changes is not theirs.
OthersSee(r) ==
  \A q \in Requests \ {r} : (EditSees(q) /\ CardSees(q) /\ RecordSees(q) /\ SettleSees(q))'

\* A handler that is not about to grant goes on to a step that is not a grant either.
LEMMA NoGrant ==
  ASSUME EditInv, NEW r \in Requests, req[r].pc # "grant", NEW h, h.pc # "grant",
         \A q \in Requests : req'[q] = IF q = r THEN h ELSE req[q]
  PROVE  \A q \in Requests : Coming'[q] = Coming[q] /\ (Closing(q)' <=> Closing(q))
BY DEF Coming, Closing, At

\* What r sees now, with what the others see.
LEMMA AllSee ==
  ASSUME NEW r \in Requests, OthersSee(r), EditSees(r)', CardSees(r)', RecordSees(r)', SettleSees(r)'
  PROVE  HandlersSee'
BY DEF OthersSee, HandlersSee

\* A handler that ends sees nothing.
LEMMA IdleSees ==
  ASSUME NEW r \in Requests, req'[r] = Idle
  PROVE  EditSees(r)' /\ CardSees(r)' /\ RecordSees(r)' /\ SettleSees(r)'
BY DEF EditSees, CardSees, RecordSees, SettleSees, At, Idle

LEMMA PayOpens ==
  ASSUME EditInv, NEW r \in Requests, PayCreate(r), ~ Captured
  PROVE  EditInv'
<1>1. /\ UNCHANGED <<status, total, settled, fresh, refunded, sent, adj, due, taken, granted, odd>>
      /\ ~ Captured /\ pay' = "PENDING" /\ amount' = req[r].amount
      /\ req[r].pc = "pay" /\ req' = [req EXCEPT ![r] = Idle]
  BY DEF PayCreate, booking, balance, Finish, Goto, At
<1>2. sent = 0 /\ settled = 0 /\ refunded = 0
  BY <1>1, Numbers DEF EditInv, MoneyCameFirst
<1>3. amount' \in Prices /\ amount' \in Nat
  BY <1>1, HandlerFields, BookingEditAssumption DEF EditInv
<1>4. NothingOverlaps' /\ \A q \in Requests : req'[q] = IF q = r THEN Idle ELSE req[q]
  BY <1>1, EndingKeeps DEF EditInv
<1>5. TypeOK'
  BY <1>1, <1>2, <1>3 DEF EditInv, TypeOK
<1>6. ~ Captured' /\ NetAmountPaid' = NetAmountPaid
  BY <1>1 DEF Captured, NetAmountPaid
<1>7. MoneyCameFirst' /\ FreshSawNothingOpen'
  BY <1>1, <1>6 DEF EditInv, MoneyCameFirst, FreshSawNothingOpen, Open
<1>8. \A q \in Requests : Coming'[q] = Coming[q] /\ (Closing(q)' <=> Closing(q))
  BY <1>1, <1>4, NoGrant DEF Idle
<1>9. GrantsAddUp'
  BY <1>1, <1>5, <1>8, ComingKept DEF EditInv
<1>10. ClosedOnce'
  BY <1>1, <1>8 DEF EditInv, ClosedOnce
<1>11. OthersSee(r)
  BY <1>1, <1>4, <1>6 DEF EditInv, HandlersSee, OthersSee, EditSees, CardSees, RecordSees,
     SettleSees, At
<1>12. HandlersSee'
  BY <1>4, <1>11, AllSee, IdleSees
<1>13. SentIsKnown'
  BY <1>1, <1>2, <1>3 DEF SentIsKnown
<1>14. Covered'
  BY <1>1, <1>6 DEF EditInv, Covered
<1> QED
  BY <1>4, <1>5, <1>7, <1>9, <1>10, <1>12, <1>13, <1>14 DEF EditInv

LEMMA EditWriteOK ==
  ASSUME EditInv, NEW r \in Requests, EditWrite(r)
  PROVE  EditInv'
<1>1. /\ UNCHANGED <<status, settled, pay, amount, refunded, sent, granted, odd>>
      /\ req[r].pc = "edit" /\ req' = [req EXCEPT ![r] = Idle]
  BY DEF EditWrite, payment, Finish, Goto, At
<1>2. NothingOverlaps' /\ \A q \in Requests : req'[q] = IF q = r THEN Idle ELSE req[q]
  BY <1>1, EndingKeeps DEF EditInv
<1>3. req[r].to \in Prices /\ req[r].paid \in Int /\ req[r].to \in Nat
  BY <1>1, HandlerFields, BookingEditAssumption DEF EditInv
<1>4. \A q \in Requests : Coming'[q] = Coming[q] /\ (Closing(q)' <=> Closing(q))
  BY <1>1, <1>2, NoGrant DEF Idle
<1>5. NetAmountPaid' = NetAmountPaid
  BY <1>1 DEF Captured, NetAmountPaid
<1>6. ClosedOnce'
  BY <1>1, <1>4 DEF EditInv, ClosedOnce
<1>7. SentIsKnown'
  BY <1>1, <1>2 DEF EditInv, SentIsKnown, At, RecordGuard, Idle
<1>8. CASE ~ TouchGuard(r)
  <2>1. UNCHANGED <<total, fresh, adj, due, taken>>
    BY <1>8 DEF EditWrite, balance
  <2>2. TypeOK'
    BY <1>1, <2>1 DEF EditInv, TypeOK
  <2>3. MoneyCameFirst' /\ FreshSawNothingOpen' /\ Covered'
    BY <1>1, <1>5, <2>1 DEF EditInv, MoneyCameFirst, FreshSawNothingOpen, Open, Captured, Covered
  <2>4. GrantsAddUp'
    BY <1>1, <1>4, <2>2, ComingKept DEF EditInv
  <2>5. OthersSee(r)
    BY <1>1, <1>2, <1>5, <2>1 DEF EditInv, HandlersSee, OthersSee, EditSees, CardSees, RecordSees,
       SettleSees, At, RecordGuard, SettleGuard, Captured
  <2> QED
    BY <1>2, <1>6, <1>7, <2>2, <2>3, <2>4, <2>5, AllSee, IdleSees DEF EditInv
<1>9. CASE TouchGuard(r)
  <2>1. total' = req[r].to /\ fresh' = {} /\ Open = {} /\ r \in fresh
    BY <1>9 DEF EditWrite, Touched, TouchGuard, EditInv, FreshSawNothingOpen
  <2>2. /\ adj' \in [Balances -> {"none", "PENDING_PAYMENT", "PAID"}] /\ due' \in [Balances -> Nat]
        /\ taken' = taken
        /\ \A b, c \in Open' : b = c
        /\ IF OwesMore(r)
           THEN \E b \in Balances : adj'[b] # "none" /\ due'[b] = total' - req[r].paid
           ELSE UNCHANGED <<adj, due, taken>>
    <3>1. CASE OwesMore(r)
      <4>1. PICK b \in Unused : /\ adj' = [adj EXCEPT ![b] = "PENDING_PAYMENT"]
                                /\ due' = [due EXCEPT ![b] = req[r].to - req[r].paid]
                                /\ taken' = taken
        BY <1>9, <3>1 DEF EditWrite
      <4>2. req[r].to - req[r].paid \in Nat
        BY <1>3, <3>1 DEF OwesMore
      <4>3. adj' \in [Balances -> {"none", "PENDING_PAYMENT", "PAID"}] /\ due' \in [Balances -> Nat]
        BY <4>1, <4>2 DEF EditInv, TypeOK
      <4>4. Open' = {b}
        BY <2>1, <4>1 DEF Open, Unused, EditInv, TypeOK
      <4>5. b \in Balances /\ adj'[b] # "none" /\ due'[b] = total' - req[r].paid
        BY <2>1, <4>1 DEF Unused, EditInv, TypeOK
      <4> QED
        BY <3>1, <4>1, <4>3, <4>4, <4>5
    <3>2. CASE ~ OwesMore(r)
      <4>1. UNCHANGED <<adj, due, taken>>
        BY <1>9, <3>2 DEF EditWrite, balance
      <4> QED
        BY <2>1, <3>2, <4>1 DEF EditInv, TypeOK, Open
    <3> QED
      BY <3>1, <3>2
  <2>3. TypeOK'
    <3>1. req' \in [Requests -> Handler \cup {Idle}]
      BY <1>1 DEF EditInv, TypeOK
    <3> QED
      BY <1>1, <1>3, <2>1, <2>2, <3>1 DEF EditInv, TypeOK
  <2>4. MoneyCameFirst' /\ FreshSawNothingOpen'
    BY <1>1, <2>1, <2>2 DEF EditInv, MoneyCameFirst, FreshSawNothingOpen, Captured
  <2>5. GrantsAddUp'
    BY <1>1, <1>4, <2>3, ComingKept DEF EditInv
  <2>6. Covered'
    <3> SUFFICES ASSUME odd = {}, status = "CONFIRMED", 0 < NetAmountPaid, NetAmountPaid < total'
                 PROVE  \E b \in Balances : adj'[b] # "none" /\ due'[b] = total' - NetAmountPaid
      BY <1>1, <1>5 DEF Covered
    <3>1. req[r].paid = NetAmountPaid
      BY <1>1, <2>1 DEF EditInv, HandlersSee, EditSees, At
    <3> QED
      BY <1>3, <2>1, <2>2, <3>1 DEF OwesMore
  <2>7. OthersSee(r)
    <3> SUFFICES ASSUME NEW q \in Requests \ {r}
                 PROVE  (EditSees(q) /\ CardSees(q) /\ RecordSees(q) /\ SettleSees(q))'
      BY DEF OthersSee
    <3>1. req'[q] = req[q] /\ req[r] # Idle
      BY <1>1, <1>2 DEF Idle
    <3>2. EditSees(q)'
      BY <2>1 DEF EditSees
    <3>3. odd = {} => req[q].pc \notin {"card", "record", "settle"}
      BY <1>1, <3>1, AloneThen DEF EditInv, Idle
    <3>4. CardSees(q)' /\ RecordSees(q)' /\ SettleSees(q)'
      BY <1>1, <3>1, <3>3 DEF EditInv, HandlersSee, CardSees, RecordSees, SettleSees, At,
         RecordGuard, SettleGuard, Captured
    <3> QED
      BY <3>2, <3>4
  <2> QED
    BY <1>2, <1>6, <1>7, <2>3, <2>4, <2>5, <2>6, <2>7, AllSee, IdleSees DEF EditInv
<1> QED
  BY <1>8, <1>9

\* A handler ends, or stops, with nothing done: not one that Paymob has sent money for.
LEMMA EndOK ==
  ASSUME EditInv, NEW r \in Requests, req[r].pc \notin {"idle", "grant"},
         req' = [req EXCEPT ![r] = Idle], odd' \in {odd, odd \cup {"crash"}},
         UNCHANGED <<status, total, settled, fresh, pay, amount, refunded, sent, adj, due, taken, granted>>,
         req[r].pc = "record" => ~ RecordGuard(r) \/ "crash" \in odd'
  PROVE  EditInv'
<1>1. odd \subseteq odd' /\ odd' \subseteq odd \cup {"crash"}
  OBVIOUS
<1>2. NothingOverlaps' /\ \A q \in Requests : req'[q] = IF q = r THEN Idle ELSE req[q]
  BY <1>1, EndingKeeps DEF EditInv
<1>3. TypeOK'
  BY <1>1 DEF EditInv, TypeOK
<1>4. NetAmountPaid' = NetAmountPaid
  BY DEF NetAmountPaid, Captured
<1>5. MoneyCameFirst' /\ FreshSawNothingOpen' /\ Covered'
  BY <1>1, <1>4 DEF EditInv, MoneyCameFirst, FreshSawNothingOpen, Open, Covered, Captured
<1>6. \A q \in Requests : Coming'[q] = Coming[q] /\ (Closing(q)' <=> Closing(q))
  BY <1>2, NoGrant DEF Idle
<1>7. GrantsAddUp'
  BY <1>1, <1>3, <1>6, ComingKept DEF EditInv
<1>8. ClosedOnce'
  BY <1>6 DEF EditInv, ClosedOnce
<1>9. OthersSee(r)
  BY <1>1, <1>2, <1>4 DEF EditInv, HandlersSee, OthersSee, EditSees, CardSees, RecordSees,
     SettleSees, At, RecordGuard, SettleGuard, Captured
<1>10. HandlersSee'
  BY <1>2, <1>9, AllSee, IdleSees
<1>11. SentIsKnown'
  BY <1>1, <1>2 DEF EditInv, SentIsKnown, At, RecordGuard
<1> QED
  BY <1>2, <1>3, <1>5, <1>7, <1>8, <1>10, <1>11 DEF EditInv

LEMMA PayCreateOK ==
  ASSUME EditInv, NEW r \in Requests, PayCreate(r)
  PROVE  EditInv'
<1>1. CASE ~ Captured
  BY <1>1, PayOpens
<1>2. CASE Captured
  <2>1. /\ UNCHANGED <<status, total, settled, fresh, pay, amount, refunded, sent, adj, due, taken,
                       granted, odd>>
        /\ req[r].pc = "pay" /\ req' = [req EXCEPT ![r] = Idle]
    BY <1>2 DEF PayCreate, booking, balance, Finish, Goto, At
  <2>2. req[r].pc \notin {"idle", "grant", "record"}
    BY <2>1
  <2> QED
    BY <2>1, <2>2, EndOK
<1> QED
  BY <1>1, <1>2

LEMMA CardSendOK ==
  ASSUME EditInv, NEW r \in Requests, CardSend(r)
  PROVE  EditInv'
<1> DEFINE a == req[r].amount
           h == [pc |-> "record", amount |-> a, last |-> req[r].last, before |-> refunded]
<1>1. /\ UNCHANGED <<status, total, settled, fresh, pay, amount, refunded, adj, due, taken, granted, odd>>
      /\ req[r].pc = "card"
  BY DEF CardSend, booking, balance, Goto, At
<1>2. a \in Nat /\ a > 0 /\ req[r].last \in BOOLEAN
  BY <1>1, HandlerFields DEF EditInv, Amount
<1>3. CASE ~ (Coverable(a) /\ amount - sent >= a)
  <2>1. req' = [req EXCEPT ![r] = Idle] /\ sent' = sent + 0
    BY <1>3 DEF CardSend, Goto
  <2>2. sent' = sent
    BY <2>1, Numbers DEF EditInv
  <2>3. req[r].pc \notin {"idle", "grant", "record"}
    BY <1>1
  <2> QED
    BY <1>1, <2>1, <2>2, <2>3, EndOK
<1>4. CASE Coverable(a) /\ amount - sent >= a
  <2>1. req' = [req EXCEPT ![r] = h] /\ sent' = sent + a
    BY <1>4 DEF CardSend, Goto
  <2>2. h \in Handler /\ h.pc = "record" /\ h.amount = a /\ h.before = refunded
    BY <1>2, Numbers DEF EditInv, Handler, Amount
  <2> HIDE DEF h
  <2>3. sent' \in Nat /\ sent < sent' /\ sent' <= amount
    BY <1>2, <1>4, <2>1, Numbers DEF EditInv
  <2>4. NothingOverlaps' /\ \A q \in Requests : req'[q] = IF q = r THEN h ELSE req[q]
    <3>1. Kind(h.pc) = Kind(req[r].pc)
      BY <1>1, <2>2 DEF Kind
    <3>2. req[r] # Idle
      BY <1>1 DEF Idle
    <3> QED
      BY <1>1, <2>1, <3>1, <3>2, GoingOnKeeps DEF EditInv
  <2>5. TypeOK'
    <3>1. sent' \in 0..amount /\ refunded \in 0..sent'
      BY <2>3, Numbers DEF EditInv
    <3>2. req' \in [Requests -> Handler \cup {Idle}]
      BY <2>1, <2>2 DEF EditInv, TypeOK
    <3> QED
      BY <1>1, <3>1, <3>2 DEF EditInv, TypeOK
  <2>6. Captured /\ Captured' /\ NetAmountPaid' = NetAmountPaid
    BY <1>1 DEF EditInv, HandlersSee, CardSees, At, Captured, NetAmountPaid
  <2>7. MoneyCameFirst' /\ FreshSawNothingOpen' /\ Covered'
    BY <1>1, <2>6 DEF EditInv, MoneyCameFirst, FreshSawNothingOpen, Open, Covered
  <2>8. \A q \in Requests : Coming'[q] = Coming[q] /\ (Closing(q)' <=> Closing(q))
    BY <1>1, <2>2, <2>4, NoGrant
  <2>9. GrantsAddUp'
    BY <1>1, <2>5, <2>8, ComingKept DEF EditInv
  <2>10. ClosedOnce'
    BY <1>1, <2>8 DEF EditInv, ClosedOnce
  <2>11. OthersSee(r)
    <3> SUFFICES ASSUME NEW q \in Requests \ {r}
                 PROVE  (EditSees(q) /\ CardSees(q) /\ RecordSees(q) /\ SettleSees(q))'
      BY DEF OthersSee
    <3>1. req'[q] = req[q] /\ EditSees(q) /\ CardSees(q) /\ RecordSees(q) /\ SettleSees(q)
      BY <2>4 DEF EditInv, HandlersSee
    <3>2. EditSees(q)' /\ CardSees(q)' /\ SettleSees(q)'
      BY <1>1, <2>6, <3>1 DEF EditSees, CardSees, SettleSees, At, SettleGuard
    <3>3. req[q].pc = "record" => req[q].amount \in Nat
      BY HandlerFields DEF EditInv, Amount
    <3>4. RecordSees(q)'
      BY <1>1, <2>3, <2>6, <3>1, <3>3, Numbers DEF RecordSees, At, RecordGuard, EditInv
    <3> QED
      BY <3>2, <3>4
  <2>12. EditSees(r)' /\ CardSees(r)' /\ RecordSees(r)' /\ SettleSees(r)'
    <3>1. req'[r] = h
      BY <2>4
    <3>2. (odd = {} /\ status = "CONFIRMED") => NetAmountPaid - a >= total
      BY <1>1 DEF EditInv, HandlersSee, CardSees, At
    <3>3. refunded + a <= sent'
      BY <1>2, <2>1, Numbers DEF EditInv
    <3>4. RecordSees(r)'
      BY <1>1, <2>2, <2>6, <3>1, <3>2, <3>3, Numbers DEF EditInv, RecordSees, At, RecordGuard
    <3> QED
      BY <2>2, <3>1, <3>4 DEF EditSees, CardSees, SettleSees, At
  <2>13. SentIsKnown'
    <3> SUFFICES ASSUME odd \subseteq {"reschedule", "amount"}
                 PROVE  /\ sent' + settled <= amount
                        /\ req'[r].pc = "record" /\ refunded = req'[r].before
                        /\ sent' = refunded + req'[r].amount
      BY <1>1 DEF SentIsKnown, At, RecordGuard
    <3>1. \A q \in Requests : ~ At(q, "record")
      BY <1>1, AloneThen DEF EditInv, At, Idle
    <3>2. sent = refunded
      BY <3>1 DEF EditInv, SentIsKnown
    <3>3. refunded + settled + a <= amount
      BY <1>1 DEF EditInv, HandlersSee, CardSees, At
    <3>4. req'[r] = h
      BY <2>4
    <3> QED
      BY <1>2, <2>1, <2>2, <3>2, <3>3, <3>4, Numbers DEF EditInv
  <2> QED
    BY <2>4, <2>5, <2>7, <2>9, <2>10, <2>11, <2>12, <2>13, AllSee DEF EditInv
<1> QED
  BY <1>3, <1>4

LEMMA CardRecordOK ==
  ASSUME EditInv, NEW r \in Requests, CardRecord(r)
  PROVE  EditInv'
<1> DEFINE a == req[r].amount
<1>1. /\ UNCHANGED <<status, total, settled, fresh, amount, sent, adj, due, taken, granted, odd>>
      /\ req[r].pc = "record"
  BY DEF CardRecord, booking, balance, Goto, Finish, At
<1>2. a \in Nat /\ a > 0 /\ req[r].last \in BOOLEAN
  BY <1>1, HandlerFields DEF EditInv, Amount
<1>3. CASE ~ RecordGuard(r)
  <2>1. req' = [req EXCEPT ![r] = Idle] /\ UNCHANGED <<refunded, pay>>
    BY <1>3 DEF CardRecord, Finish, Goto
  <2>2. req[r].pc \notin {"idle", "grant"}
    BY <1>1
  <2> QED
    BY <1>1, <1>3, <2>1, <2>2, EndOK
<1>4. CASE RecordGuard(r)
  <2>1. /\ refunded' = refunded + a
        /\ pay' = IF refunded' >= amount THEN "REFUNDED" ELSE "CAPTURED"
        /\ req' = [req EXCEPT ![r] = IF req[r].last THEN [pc |-> "close"] ELSE Idle]
    BY <1>4 DEF CardRecord, Goto, RecordGuard
  <2>2. PICK h \in Handler \cup {Idle} : h.pc \in {"close", "idle"} /\ req' = [req EXCEPT ![r] = h]
                                     /\ (h = Idle \/ h.pc = "close")
    <3>1. PICK h : h = [pc |-> "close"]
      OBVIOUS
    <3>2. CASE req[r].last
      <4>1. h \in Handler /\ h.pc = "close"
        BY <3>1 DEF Handler
      <4>2. req' = [req EXCEPT ![r] = h]
        BY <2>1, <3>1, <3>2
      <4> QED
        BY <4>1, <4>2
    <3>3. CASE ~ req[r].last
      BY <2>1, <3>3 DEF Idle
    <3> QED
      BY <3>2, <3>3
  <2>3. Captured /\ Captured'
    BY <1>1, <2>1 DEF EditInv, HandlersSee, RecordSees, At, Captured
  <2>4. refunded' \in Nat /\ refunded < refunded' /\ refunded' <= sent
    BY <1>1, <1>2, <1>4, <2>1, Numbers DEF EditInv, HandlersSee, RecordSees, At
  <2>5. NothingOverlaps' /\ \A q \in Requests : req'[q] = IF q = r THEN h ELSE req[q]
    <3>1. h = Idle \/ Kind(h.pc) = Kind(req[r].pc)
      BY <1>1, <2>2 DEF Kind
    <3>2. req[r] # Idle
      BY <1>1 DEF Idle
    <3> QED
      BY <1>1, <2>2, <3>1, <3>2, GoingOnKeeps DEF EditInv
  <2>6. TypeOK'
    <3>1. refunded' \in 0..sent
      BY <2>4, Numbers DEF EditInv
    <3>2. req' \in [Requests -> Handler \cup {Idle}]
      BY <2>2 DEF EditInv, TypeOK
    <3> QED
      BY <1>1, <2>1, <3>1, <3>2 DEF EditInv, TypeOK
  <2>7. NetAmountPaid' = NetAmountPaid - a
    BY <1>1, <1>2, <2>1, <2>3, Numbers DEF EditInv, NetAmountPaid
  <2>8. MoneyCameFirst' /\ FreshSawNothingOpen'
    BY <1>1, <2>3 DEF EditInv, MoneyCameFirst, FreshSawNothingOpen, Open
  <2>9. Covered'
    <3>1. (odd = {} /\ status = "CONFIRMED") => NetAmountPaid - a >= total
      BY <1>1, <1>4 DEF EditInv, HandlersSee, RecordSees, At
    <3> QED
      BY <1>1, <1>2, <2>7, <3>1, Numbers DEF EditInv, Covered
  <2>10. \A q \in Requests : Coming'[q] = Coming[q] /\ (Closing(q)' <=> Closing(q))
    BY <1>1, <2>2, <2>5, NoGrant
  <2>11. GrantsAddUp'
    BY <1>1, <2>6, <2>10, ComingKept DEF EditInv
  <2>12. ClosedOnce'
    BY <1>1, <2>10 DEF EditInv, ClosedOnce
  <2>13. OthersSee(r)
    <3> SUFFICES ASSUME NEW q \in Requests \ {r}
                 PROVE  (EditSees(q) /\ CardSees(q) /\ RecordSees(q) /\ SettleSees(q))'
      BY DEF OthersSee
    <3>1. req'[q] = req[q] /\ EditSees(q) /\ CardSees(q) /\ RecordSees(q) /\ SettleSees(q)
      BY <2>5 DEF EditInv, HandlersSee
    <3>2. "overlap" \notin odd => req[q] = Idle
      BY <1>1, AloneThen DEF EditInv, Idle
    <3>3. EditSees(q)' /\ CardSees(q)' /\ SettleSees(q)'
      BY <1>1, <2>3, <3>1, <3>2 DEF EditSees, CardSees, SettleSees, At, SettleGuard, Idle
    <3>4. req[q].pc = "record" => req[q].before \in Nat
      BY HandlerFields DEF EditInv
    <3>5. RecordSees(q)'
      BY <1>1, <2>3, <2>4, <3>1, <3>4, Numbers DEF RecordSees, At, RecordGuard, EditInv
    <3> QED
      BY <3>3, <3>5
  <2>14. EditSees(r)' /\ CardSees(r)' /\ RecordSees(r)' /\ SettleSees(r)'
    BY <2>2, <2>5 DEF EditSees, CardSees, RecordSees, SettleSees, At
  <2>15. SentIsKnown'
    <3> SUFFICES ASSUME odd \subseteq {"reschedule", "amount"}
                 PROVE  sent + settled <= amount /\ sent = refunded'
      BY <1>1 DEF SentIsKnown
    <3>1. \A q \in Requests \ {r} : ~ At(q, "record")
      BY <1>1, AloneThen DEF EditInv, At, Idle
    <3>2. refunded + a <= sent
      BY <1>1, <1>4 DEF EditInv, HandlersSee, RecordSees, At
    <3>3. sent # refunded
      BY <1>2, <3>2, Numbers DEF EditInv
    <3> QED
      BY <2>1, <3>1, <3>3 DEF EditInv, SentIsKnown
  <2> QED
    BY <2>5, <2>6, <2>8, <2>9, <2>11, <2>12, <2>13, <2>14, <2>15, AllSee DEF EditInv
<1> QED
  BY <1>3, <1>4

\* A cancelled booking is closed, by a handler that ends or goes on to grant.
LEMMA CloseKeeps ==
  ASSUME EditInv, status = "CANCELLED", status' = "REFUNDED", fresh' = {}, NEW r \in Requests,
         req[r].pc \in {"close", "shut"}, NEW h \in Handler \cup {Idle},
         h = Idle \/ (h.pc = "grant" /\ req[r].pc = "shut" /\ h.worth = 0),
         req' = [req EXCEPT ![r] = h],
         UNCHANGED <<total, settled, pay, amount, refunded, sent, adj, due, taken, granted, odd>>
  PROVE  EditInv'
<1>1. NothingOverlaps' /\ \A q \in Requests : req'[q] = IF q = r THEN h ELSE req[q]
  <2>1. h = Idle \/ Kind(h.pc) = Kind(req[r].pc)
    BY DEF Kind
  <2>2. req[r] # Idle
    BY DEF Idle
  <2> QED
    BY <2>1, <2>2, GoingOnKeeps DEF EditInv
<1>2. TypeOK'
  BY DEF EditInv, TypeOK
<1>3. MoneyCameFirst' /\ FreshSawNothingOpen' /\ Covered'
  BY DEF EditInv, MoneyCameFirst, FreshSawNothingOpen, Open, Covered, Captured
<1>4. \A q \in Requests : Coming'[q] = Coming[q]
  BY <1>1 DEF Coming, At, Idle
<1>5. GrantsAddUp'
  BY <1>2, <1>4, ComingKept DEF EditInv
<1>6. ClosedOnce'
  <2>1. granted.close \in Nat
    BY DEF EditInv, TypeOK
  <2>2. granted.close = 0 /\ \A q \in Requests : ~ Closing(q)
    BY <2>1 DEF EditInv, ClosedOnce
  <2>3. \A q \in Requests : Closing(q)' => q = r
    BY <1>1, <2>2 DEF Closing, At
  <2> QED
    BY <2>2, <2>3 DEF ClosedOnce
<1>7. OthersSee(r)
  BY <1>1 DEF EditInv, HandlersSee, OthersSee, EditSees, CardSees, RecordSees,
     SettleSees, At, RecordGuard, SettleGuard, Captured
<1>8. EditSees(r)' /\ CardSees(r)' /\ RecordSees(r)' /\ SettleSees(r)'
  BY <1>1 DEF EditSees, CardSees, RecordSees, SettleSees, At, Idle
<1>9. SentIsKnown'
  BY <1>1 DEF EditInv, SentIsKnown, At, RecordGuard
<1> QED
  BY <1>1, <1>2, <1>3, <1>5, <1>6, <1>7, <1>8, <1>9, AllSee DEF EditInv

LEMMA CardCloseOK ==
  ASSUME EditInv, NEW r \in Requests, CardClose(r)
  PROVE  EditInv'
<1>1. /\ UNCHANGED <<total, settled, pay, amount, refunded, sent, adj, due, taken, granted, odd>>
      /\ req[r].pc = "close" /\ req' = [req EXCEPT ![r] = Idle]
      /\ \/ status = "CANCELLED" /\ status' = "REFUNDED" /\ fresh' = {}
         \/ UNCHANGED <<status, fresh>>
  BY DEF CardClose, payment, balance, Finish, Goto, At, Touched
<1>2. Idle \in Handler \cup {Idle} /\ req[r].pc \in {"close", "shut"}
      /\ req[r].pc \notin {"idle", "grant", "record"}
  BY <1>1
<1> QED
  BY <1>1, <1>2, CloseKeeps, EndOK

LEMMA PointsShutOK ==
  ASSUME EditInv, NEW r \in Requests, PointsShut(r)
  PROVE  EditInv'
<1> DEFINE h == [pc |-> "grant", worth |-> 0]
<1>1. /\ UNCHANGED <<total, settled, pay, amount, refunded, sent, adj, due, taken, granted, odd>>
      /\ req[r].pc = "shut"
  BY DEF PointsShut, payment, balance, Finish, Goto, At
<1>2. CASE ShutGuard
  <2>1. status = "CANCELLED" /\ status' = "REFUNDED" /\ fresh' = {} /\ req' = [req EXCEPT ![r] = h]
    BY <1>2 DEF PointsShut, Goto, Touched, ShutGuard
  <2>2. h \in Handler \cup {Idle} /\ h.pc = "grant" /\ h.worth = 0
    BY DEF Handler
  <2> HIDE DEF h
  <2> QED
    BY <1>1, <2>1, <2>2, CloseKeeps
<1>3. CASE ~ ShutGuard
  <2>1. req' = [req EXCEPT ![r] = Idle] /\ UNCHANGED <<status, fresh>>
    BY <1>3 DEF PointsShut, Goto, Finish
  <2>2. req[r].pc \notin {"idle", "grant", "record"}
    BY <1>1
  <2> QED
    BY <1>1, <2>1, <2>2, EndOK
<1> QED
  BY <1>2, <1>3

\* What is coming with the handler r, before a step and after it.
LEMMA ComingChanges ==
  ASSUME TypeOK, TypeOK', NEW r \in Requests,
         \A q \in Requests \ {r} : req'[q] = req[q]
  PROVE  SumFunctionOnSet(Coming', Requests)
           = SumFunctionOnSet(Coming, Requests) + Coming'[r] - Coming[r]
<1>1. \A q \in Requests : Coming[q] \in Int
  BY ComingType
<1>2. \A q \in Requests : req'[q].pc = "grant" => req'[q].worth \in Nat
  BY DEF TypeOK, Handler, Idle
<1>3. \A q \in Requests : Coming'[q] \in Int
  BY <1>2 DEF Coming, At
<1>4. \A q \in Requests \ {r} : Coming'[q] = Coming[q]
  BY DEF Coming, At
<1> QED
  BY <1>1, <1>3, <1>4, SumChange, BookingEditAssumption

LEMMA PointsSettleOK ==
  ASSUME EditInv, NEW r \in Requests, PointsSettle(r)
  PROVE  EditInv'
<1> DEFINE w == req[r].worth
           h == [pc |-> "grant", worth |-> w]
<1>1. /\ UNCHANGED <<status, total, pay, amount, refunded, sent, adj, due, taken, granted, odd>>
      /\ req[r].pc = "settle"
  BY DEF PointsSettle, payment, balance, Finish, Goto, At
<1>2. w \in Nat /\ w > 0
  BY <1>1, HandlerFields DEF EditInv, Amount
<1>3. CASE ~ SettleGuard(r)
  <2>1. req' = [req EXCEPT ![r] = Idle] /\ UNCHANGED <<settled, fresh>>
    BY <1>3 DEF PointsSettle, Goto, Finish
  <2>2. req[r].pc \notin {"idle", "grant", "record"}
    BY <1>1
  <2> QED
    BY <1>1, <2>1, <2>2, EndOK
<1>4. CASE SettleGuard(r)
  <2>1. settled' = settled + w /\ fresh' = {} /\ req' = [req EXCEPT ![r] = h]
    BY <1>4 DEF PointsSettle, Goto, Touched
  <2>2. h \in Handler /\ h.pc = "grant" /\ h.worth = w
    BY <1>2 DEF Handler
  <2> HIDE DEF h
  <2>3. Captured /\ Captured'
    BY <1>1 DEF EditInv, HandlersSee, SettleSees, At, Captured
  <2>4. settled' \in Nat /\ settled < settled'
    BY <1>2, <2>1, Numbers DEF EditInv
  <2>5. NothingOverlaps' /\ \A q \in Requests : req'[q] = IF q = r THEN h ELSE req[q]
    <3>1. Kind(h.pc) = Kind(req[r].pc)
      BY <1>1, <2>2 DEF Kind
    <3>2. req[r] # Idle
      BY <1>1 DEF Idle
    <3> QED
      BY <1>1, <2>1, <2>2, <3>1, <3>2, GoingOnKeeps DEF EditInv
  <2>6. TypeOK'
    <3>1. req' \in [Requests -> Handler \cup {Idle}]
      BY <2>1, <2>2 DEF EditInv, TypeOK
    <3> QED
      BY <1>1, <2>1, <2>4, <3>1 DEF EditInv, TypeOK
  <2>7. NetAmountPaid' = NetAmountPaid - w
    BY <1>1, <1>2, <2>1, <2>3, Numbers DEF EditInv, NetAmountPaid, Captured
  <2>8. MoneyCameFirst' /\ FreshSawNothingOpen'
    BY <1>1, <2>1, <2>3 DEF EditInv, MoneyCameFirst, FreshSawNothingOpen, Open
  <2>9. Covered'
    <3>1. (odd = {} /\ status = "CONFIRMED") => NetAmountPaid - w >= total
      BY <1>1, <1>4 DEF EditInv, HandlersSee, SettleSees, At
    <3> QED
      BY <1>1, <1>2, <2>7, <3>1, Numbers DEF EditInv, Covered
  <2>10. GrantsAddUp'
    <3>1. Coming[r] = 0 /\ Coming'[r] = w
      BY <1>1, <2>2, <2>5 DEF Coming, At
    <3>2. SumFunctionOnSet(Coming', Requests) = SumFunctionOnSet(Coming, Requests) + w
      BY <1>2, <2>5, <2>6, <3>1, ComingChanges, ComingType DEF EditInv
    <3>3. granted.over \in Nat /\ SumFunctionOnSet(Coming, Requests) \in Nat
      BY ComingType DEF EditInv, TypeOK
    <3> QED
      BY <1>1, <1>2, <2>1, <3>2, <3>3, Numbers DEF EditInv, GrantsAddUp
  <2>11. ClosedOnce'
    <3>1. \A q \in Requests : Closing(q)' <=> Closing(q)
      BY <1>1, <1>2, <2>2, <2>5 DEF Closing, At
    <3> QED
      BY <1>1, <3>1 DEF EditInv, ClosedOnce
  <2>12. OthersSee(r)
    <3> SUFFICES ASSUME NEW q \in Requests \ {r}
                 PROVE  (EditSees(q) /\ CardSees(q) /\ RecordSees(q) /\ SettleSees(q))'
      BY DEF OthersSee
    <3>1. req'[q] = req[q] /\ EditSees(q) /\ CardSees(q) /\ RecordSees(q) /\ SettleSees(q)
      BY <2>5 DEF EditInv, HandlersSee
    <3>2. "overlap" \notin odd => req[q].pc \notin {"card", "record"}
      BY <1>1, AloneThen DEF EditInv, Idle
    <3>3. EditSees(q)' /\ CardSees(q)' /\ RecordSees(q)'
      BY <1>1, <2>1, <2>3, <3>1, <3>2 DEF EditSees, CardSees, RecordSees, At, RecordGuard
    <3>4. req[q].pc = "settle" => req[q].before \in Nat
      BY HandlerFields DEF EditInv
    <3>5. SettleSees(q)'
      BY <1>1, <2>3, <2>4, <3>1, <3>4, Numbers DEF SettleSees, At, SettleGuard, EditInv
    <3> QED
      BY <3>3, <3>5
  <2>13. EditSees(r)' /\ CardSees(r)' /\ RecordSees(r)' /\ SettleSees(r)'
    BY <2>2, <2>5 DEF EditSees, CardSees, RecordSees, SettleSees, At
  <2>14. SentIsKnown'
    <3> SUFFICES ASSUME odd \subseteq {"reschedule", "amount"}
                 PROVE  sent + settled' <= amount /\ sent = refunded
      BY <1>1 DEF SentIsKnown
    <3>1. \A q \in Requests : ~ At(q, "record")
      BY <1>1, AloneThen DEF EditInv, At, Idle
    <3>2. sent = refunded
      BY <3>1 DEF EditInv, SentIsKnown
    <3>3. refunded + settled + w <= amount
      BY <1>1, <1>4 DEF EditInv, HandlersSee, SettleSees, At
    <3> QED
      BY <1>2, <2>1, <3>2, <3>3, Numbers DEF EditInv
  <2> QED
    BY <2>5, <2>6, <2>8, <2>9, <2>10, <2>11, <2>12, <2>13, <2>14, AllSee DEF EditInv
<1> QED
  BY <1>3, <1>4

\* A handler that was about to grant is done, or has stopped.
LEMMA GrantEnds ==
  ASSUME EditInv, NEW r \in Requests, req[r].pc = "grant", req' = [req EXCEPT ![r] = Idle],
         UNCHANGED <<status, total, settled, fresh, pay, amount, refunded, sent, adj, due, taken>>,
         odd \subseteq odd', odd' \subseteq odd \cup {"crash"}, granted' \in [over : Nat, close : Nat],
         granted'.over <= granted.over + req[r].worth,
         "crash" \notin odd' => granted'.over = granted.over + req[r].worth,
         granted'.close = granted.close \/ (Closing(r) /\ granted'.close = 1)
  PROVE  EditInv'
<1>1. NothingOverlaps' /\ \A q \in Requests : req'[q] = IF q = r THEN Idle ELSE req[q]
  BY EndingKeeps DEF EditInv
<1>2. TypeOK'
  BY DEF EditInv, TypeOK
<1>3. NetAmountPaid' = NetAmountPaid
  BY DEF NetAmountPaid, Captured
<1>4. MoneyCameFirst' /\ FreshSawNothingOpen' /\ Covered'
  BY <1>3 DEF EditInv, MoneyCameFirst, FreshSawNothingOpen, Open, Covered, Captured
<1>5. GrantsAddUp'
  <2>1. Coming[r] = req[r].worth /\ Coming'[r] = 0 /\ req[r].worth \in Nat
    BY <1>1, HandlerFields DEF Coming, At, Idle, EditInv
  <2>2. SumFunctionOnSet(Coming', Requests) = SumFunctionOnSet(Coming, Requests) - req[r].worth
    BY <1>1, <1>2, <2>1, ComingChanges, ComingType DEF EditInv
  <2>3. granted.over \in Nat /\ granted'.over \in Nat /\ SumFunctionOnSet(Coming, Requests) \in Nat
    BY ComingType DEF EditInv, TypeOK
  <2> QED
    BY <2>1, <2>2, <2>3, Numbers DEF EditInv, GrantsAddUp
<1>6. ClosedOnce'
  <2>1. \A q \in Requests : Closing(q)' => q # r /\ Closing(q)
    BY <1>1 DEF Closing, At, Idle
  <2> QED
    BY <2>1 DEF EditInv, ClosedOnce
<1>7. OthersSee(r)
  BY <1>1, <1>3 DEF EditInv, HandlersSee, OthersSee, EditSees, CardSees, RecordSees,
     SettleSees, At, RecordGuard, SettleGuard, Captured
<1>8. SentIsKnown'
  BY <1>1 DEF EditInv, SentIsKnown, At, RecordGuard
<1> QED
  BY <1>1, <1>2, <1>4, <1>5, <1>6, <1>7, <1>8, AllSee, IdleSees DEF EditInv

LEMMA PointsGrantOK ==
  ASSUME EditInv, NEW r \in Requests, PointsGrant(r)
  PROVE  EditInv'
<1>1. /\ UNCHANGED <<status, total, settled, fresh, pay, amount, refunded, sent, adj, due, taken, odd>>
      /\ req[r].pc = "grant" /\ req' = [req EXCEPT ![r] = Idle]
  BY DEF PointsGrant, booking, payment, balance, Finish, Goto, At
<1>2. req[r].worth \in Nat /\ granted \in [over : Nat, close : Nat]
  BY <1>1, HandlerFields DEF EditInv, TypeOK
<1>3. CASE req[r].worth = 0
  <2>1. granted' = [granted EXCEPT !.close = granted.close + 1] /\ Closing(r)
    BY <1>1, <1>3 DEF PointsGrant, Closing, At
  <2>2. granted' \in [over : Nat, close : Nat] /\ granted'.over = granted.over /\ granted.over \in Nat
    BY <1>2, <2>1
  <2>3. granted.close = 0 /\ granted'.close = 1
    BY <1>2, <2>1 DEF EditInv, ClosedOnce
  <2>4. odd \subseteq odd' /\ odd' \subseteq odd \cup {"crash"}
    BY <1>1
  <2>5. granted'.over = granted.over + req[r].worth /\ granted'.over <= granted.over + req[r].worth
    BY <1>2, <1>3, <2>2
  <2> QED
    BY <1>1, <2>1, <2>2, <2>3, <2>4, <2>5, GrantEnds
<1>4. CASE req[r].worth # 0
  <2>1. granted' = [granted EXCEPT !.over = granted.over + req[r].worth]
    BY <1>4 DEF PointsGrant
  <2>2. granted.over + req[r].worth \in Nat
    BY <1>2
  <2>3. /\ granted' \in [over : Nat, close : Nat] /\ granted'.close = granted.close
        /\ granted'.over = granted.over + req[r].worth
    BY <1>2, <2>1, <2>2
  <2>4. odd \subseteq odd' /\ odd' \subseteq odd \cup {"crash"}
    BY <1>1
  <2>5. granted'.over <= granted.over + req[r].worth
    BY <2>2, <2>3
  <2> QED
    BY <1>1, <2>3, <2>4, <2>5, GrantEnds
<1> QED
  BY <1>3, <1>4

LEMMA CrashOK ==
  ASSUME EditInv, NEW r \in Requests, Crash(r)
  PROVE  EditInv'
<1>1. /\ UNCHANGED <<status, total, settled, fresh, pay, amount, refunded, sent, adj, due, taken, granted>>
      /\ req[r].pc \in {"record", "close", "grant"} /\ req' = [req EXCEPT ![r] = Idle]
      /\ odd' = odd \cup {"crash"}
  BY DEF Crash, booking, payment, balance, At
<1>2. CASE req[r].pc = "grant"
  <2>1. req[r].worth \in Nat /\ granted \in [over : Nat, close : Nat]
    BY <1>2, HandlerFields DEF EditInv, TypeOK
  <2>2. /\ granted' \in [over : Nat, close : Nat] /\ granted'.close = granted.close
        /\ granted'.over <= granted.over + req[r].worth
    BY <1>1, <2>1
  <2>3. odd \subseteq odd' /\ odd' \subseteq odd \cup {"crash"} /\ "crash" \in odd'
    BY <1>1
  <2> QED
    BY <1>1, <1>2, <2>2, <2>3, GrantEnds
<1>3. CASE req[r].pc # "grant"
  <2>1. req[r].pc \notin {"idle", "grant"}
    BY <1>1, <1>3
  <2> QED
    BY <1>1, <2>1, EndOK
<1> QED
  BY <1>2, <1>3

-----------------------------------------------------------------------------

LEMMA InitOK == Init => EditInv
<1> SUFFICES ASSUME Init PROVE EditInv
  OBVIOUS
<1>1. TypeOK
  BY BookingEditAssumption DEF Init, TypeOK
<1>2. MoneyCameFirst /\ FreshSawNothingOpen /\ NothingOverlaps /\ SentIsKnown /\ Covered
  BY DEF Init, MoneyCameFirst, FreshSawNothingOpen, NothingOverlaps, SentIsKnown, Covered,
     Captured, Open
<1>3. HandlersSee /\ ClosedOnce
  BY DEF Init, HandlersSee, EditSees, CardSees, RecordSees, SettleSees, ClosedOnce, Closing,
     At, Idle
<1>4. GrantsAddUp
  <2>1. \A q \in Requests : Coming[q] = 0
    BY DEF Init, Coming, At, Idle
  <2>2. SumFunctionOnSet(Coming, Requests) = 0
    BY <2>1, SumZero, BookingEditAssumption
  <2> QED
    BY <2>2 DEF Init, GrantsAddUp
<1> QED
  BY <1>1, <1>2, <1>3, <1>4 DEF EditInv

LEMMA EditInvariant == Spec => []EditInv
<1>1. ASSUME EditInv, UNCHANGED vars PROVE EditInv'
  BY <1>1 DEF vars, booking, payment, balance, EditInv, TypeOK, MoneyCameFirst,
     FreshSawNothingOpen, NothingOverlaps, HandlersSee, EditSees, CardSees, RecordSees,
     SettleSees, SentIsKnown, Covered, GrantsAddUp, ClosedOnce, Closing, Coming, At, Captured,
     NetAmountPaid, Open, RecordGuard, SettleGuard
<1>2. ASSUME EditInv, Next PROVE EditInv'
  BY <1>2, PayFailedOK, CaptureOK, SettleWithoutChargeOK, CancelOK, RescheduleOK, BalancePaidOK, PayReadOK, PayCreateOK,
     EditReadOK, EditWriteOK, RefundToCardOK, RefundInPointsOK, CardSendOK, CardRecordOK,
     CardCloseOK, PointsShutOK, PointsSettleOK, PointsGrantOK, CrashOK
  DEF Next, RefundStep
<1>3. EditInv /\ [Next]_vars => EditInv'
  BY <1>1, <1>2
<1> QED
  BY <1>3, InitOK, PTL DEF Spec

\* The variables keep their types; in particular the payment's row never says more
\* was refunded than Paymob sent, nor Paymob sent more than was paid.
THEOREM TypeInvariant == Spec => []TypeOK
<1>1. EditInv => TypeOK
  BY DEF EditInv
<1> QED
  BY <1>1, EditInvariant, PTL

\* However many operators edit and refund one booking, a balance is open once, and a
\* deficit on a booking with money on it is billed to the unit (applyBookingEdit,
\* refundBooking).
THEOREM PriceAlwaysCovered == Spec => []PriceIsCovered
<1>1. EditInv => OneBalanceOpen
  <2> SUFFICES ASSUME EditInv PROVE Cardinality(Open) <= 1
    BY DEF OneBalanceOpen
  <2>1. CASE Open = {}
    BY <2>1, FS_EmptySet
  <2>2. ASSUME NEW b \in Open PROVE Cardinality(Open) <= 1
    <3>1. Open = {b}
      BY DEF EditInv, FreshSawNothingOpen
    <3> QED
      BY <3>1, FS_Singleton
  <2> QED
    BY <2>1, <2>2
<1>2. EditInv => DeficitIsBilled
  BY DEF EditInv, Covered, DeficitIsBilled
<1> QED
  BY <1>1, <1>2, EditInvariant, PTL DEF PriceIsCovered

\* No more goes back than was paid, the row knows what was sent, and points are granted
\* for what was settled, once (refundBooking, settleOverpaymentWithPoints).
THEOREM RefundsAlwaysAddUp == Spec => []RefundsAddUp
<1>1. EditInv => CardAddsUp
  BY DEF EditInv, SentIsKnown, CardAddsUp, Quiet, At, Idle
<1>2. ASSUME EditInv PROVE PointsAddUp
  <2>1. granted.over \in Nat /\ SumFunctionOnSet(Coming, Requests) \in Nat /\ settled \in Nat
    BY <1>2, ComingType DEF EditInv, TypeOK
  <2>2. granted.over <= settled /\ granted.close <= 1
    BY <1>2, <2>1 DEF EditInv, GrantsAddUp, ClosedOnce
  <2>3. Quiet => SumFunctionOnSet(Coming, Requests) = 0
    <3>1. Quiet => \A q \in Requests : Coming[q] = 0
      BY DEF Quiet, Coming, At, Idle
    <3> QED
      BY <3>1, SumZero, BookingEditAssumption
  <2> QED
    BY <1>2, <2>1, <2>2, <2>3 DEF EditInv, GrantsAddUp, PointsAddUp
<1> QED
  BY <1>1, <1>2, EditInvariant, PTL DEF RefundsAddUp
=============================================================================
