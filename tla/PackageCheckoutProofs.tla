------------------------ MODULE PackageCheckoutProofs ------------------------
(***************************************************************************)
(* For any purchases, attempts, tries and number of handlers at once: a    *)
(* captured payment stays captured, and one is captured for nothing only   *)
(* while another bucket is active.                                         *)
(***************************************************************************)
EXTENDS PackageCheckout, TLAPS

\* A row is a purchase's, and Paymob knows of no page without one.
RowsOfPurchases ==
  \A i \in Attempts :
    /\ pay[i] # "none" => of[i] \in Purchases
    /\ page[i] # "none" => pay[i] # "none"

\* What is captured, or about to be, Paymob was paid.
CapturesArePaid ==
  /\ \A i \in Attempts : pay[i] = "CAPTURED" => Paid(i)
  /\ \A r \in Requests : req[r].pc \in {"update", "credit", "promote"} => Paid(req[r].i)

\* A handler that opens a page is the only one with its row, which had none.
OpenersAreAlone ==
  \A r \in Requests : At(r, "open") =>
    /\ pay[req[r].i] # "none"
    /\ page[req[r].i] = "none"
    /\ \A q \in Requests \ {r} : At(q, "open") => req[q].i # req[r].i

\* The slot is an active purchase's, and hours are credited with it.
SlotIsActive ==
  \A p \in Purchases :
    /\ slot[p] => status[p] = "ACTIVE"
    /\ status[p] \in {"none", "PENDING_PAYMENT"} => credits[p] = 0

\* The inductive invariant.  Without OpenersAreAlone a refused page could close
\* the row of another that was paid meanwhile.
CheckoutInv ==
  TypeOK /\ RowsOfPurchases /\ CapturesArePaid /\ OpenersAreAlone /\ SlotIsActive

StaysCaptured == \A i \in Attempts : pay[i] = "CAPTURED" => pay'[i] = "CAPTURED"

NotForNothing ==
  \A i \in Attempts :
    (pay[i] # "CAPTURED" /\ pay'[i] = "CAPTURED") =>
      \/ status'[of[i]] # "PENDING_PAYMENT"
      \/ \E q \in Purchases : status[q] = "ACTIVE"

StepOK == CheckoutInv' /\ StaysCaptured /\ NotForNothing

CaptureSteps == {"update", "credit", "promote"}

-----------------------------------------------------------------------------
(* Steps of one kind. *)

LEMMA HandlerFields ==
  ASSUME TypeOK, NEW r \in Requests
  PROVE  /\ req[r].pc \in {"buy", "supersede", "create"} => req[r].p \in Purchases
         /\ req[r].pc \in {"open", "store", "drop"} \cup CaptureSteps => req[r].i \in Attempts
BY DEF TypeOK, Handler, Idle, CaptureSteps

\* A handler moves on and touches nothing.
LEMMA HandlerStep ==
  ASSUME CheckoutInv, NEW r \in Requests, NEW h \in Handler \cup {Idle},
         req' = [req EXCEPT ![r] = h], UNCHANGED <<purchase, payment, paymob>>,
         h.pc # "open", h.pc \in CaptureSteps => Paid(h.i)
  PROVE  StepOK
<1>1. \A q \in Requests : req'[q] = IF q = r THEN h ELSE req[q]
  BY DEF CheckoutInv, TypeOK
<1>2. UNCHANGED <<status, slot, usable, credits, pay, of, link, tries, page, old>>
  BY DEF purchase, payment, paymob
<1>3. TypeOK'
  BY <1>2 DEF CheckoutInv, TypeOK
<1>4. RowsOfPurchases' /\ SlotIsActive'
  BY <1>2 DEF CheckoutInv, RowsOfPurchases, SlotIsActive
<1>5. CapturesArePaid'
  BY <1>1, <1>2 DEF CheckoutInv, CapturesArePaid, CaptureSteps, Paid
<1>6. OpenersAreAlone'
  BY <1>1, <1>2 DEF CheckoutInv, OpenersAreAlone, At
<1>7. StaysCaptured /\ NotForNothing
  BY <1>2 DEF StaysCaptured, NotForNothing
<1> QED
  BY <1>3, <1>4, <1>5, <1>6, <1>7 DEF StepOK, CheckoutInv

\* Paymob's page moves on: what was paid stays paid, what was not open stays so.
LEMMA PageStep ==
  ASSUME CheckoutInv, NEW i \in Attempts, page[i] # "none", ~ Paid(i),
         NEW to \in {"processing", "declined", "reprocessing", "paid", "repaid"},
         page' = [page EXCEPT ![i] = to], UNCHANGED <<purchase, payment, old, req>>
  PROVE  StepOK
<1>1. \A j \in Attempts : page'[j] = IF j = i THEN to ELSE page[j]
  BY DEF CheckoutInv, TypeOK
<1>2. UNCHANGED <<status, slot, usable, credits, pay, of, link, tries, old, req>>
  BY DEF purchase, payment
<1>3. TypeOK'
  BY <1>2 DEF CheckoutInv, TypeOK
<1>4. RowsOfPurchases' /\ SlotIsActive'
  BY <1>1, <1>2 DEF CheckoutInv, RowsOfPurchases, SlotIsActive
<1>5. \A j \in Attempts : Paid(j) => Paid(j)'
  BY <1>1 DEF Paid
<1>6. CapturesArePaid'
  BY <1>2, <1>5, HandlerFields DEF CheckoutInv, CapturesArePaid, CaptureSteps
<1>7. OpenersAreAlone'
  BY <1>1, <1>2, HandlerFields DEF CheckoutInv, OpenersAreAlone, At
<1>8. StaysCaptured /\ NotForNothing
  BY <1>2 DEF StaysCaptured, NotForNothing
<1> QED
  BY <1>3, <1>4, <1>6, <1>7, <1>8 DEF StepOK, CheckoutInv

\* Pending attempts are closed; the handler that does it opens and captures nothing.
LEMMA CloseStep ==
  ASSUME CheckoutInv, pay' \in [Attempts -> {"none", "PENDING", "FAILED", "CAPTURED"}],
         \A i \in Attempts : pay'[i] = pay[i] \/ (pay[i] = "PENDING" /\ pay'[i] = "FAILED"),
         link' \in [Attempts -> BOOLEAN], tries' \in [Attempts -> 0..(MaxTries - 1)],
         UNCHANGED <<purchase, of, paymob>>,
         req' \in [Requests -> Handler \cup {Idle}],
         \A r \in Requests :
           req'[r] = req[r] \/ req'[r].pc \notin CaptureSteps \cup {"open"}
  PROVE  StepOK
<1>1. UNCHANGED <<status, slot, usable, credits, of, page, old>>
  BY DEF purchase, paymob
<1>2. \A i \in Attempts :
        /\ pay[i] = "none" <=> pay'[i] = "none"
        /\ pay[i] = "CAPTURED" <=> pay'[i] = "CAPTURED"
  OBVIOUS
<1>3. TypeOK'
  BY <1>1 DEF CheckoutInv, TypeOK
<1>4. RowsOfPurchases' /\ SlotIsActive'
  BY <1>1, <1>2 DEF CheckoutInv, RowsOfPurchases, SlotIsActive
<1>5. CapturesArePaid'
  BY <1>1, <1>2 DEF CheckoutInv, CapturesArePaid, CaptureSteps, Paid
<1>6. OpenersAreAlone'
  BY <1>1, <1>2, HandlerFields DEF CheckoutInv, OpenersAreAlone, At
<1>7. StaysCaptured /\ NotForNothing
  BY <1>2 DEF StaysCaptured, NotForNothing
<1> QED
  BY <1>3, <1>4, <1>5, <1>6, <1>7 DEF StepOK, CheckoutInv

\* Only a purchase changes, and not into one that holds the slot or can be paid.
LEMMA PurchaseStep ==
  ASSUME CheckoutInv, TypeOK', SlotIsActive', UNCHANGED <<payment, paymob>>,
         \A r \in Requests : req'[r] = req[r] \/ req'[r] = Idle
  PROVE  StepOK
<1>1. UNCHANGED <<pay, of, link, tries, page, old>>
  BY DEF payment, paymob
<1>2. RowsOfPurchases'
  BY <1>1 DEF CheckoutInv, RowsOfPurchases
<1>3. CapturesArePaid'
  BY <1>1 DEF CheckoutInv, CapturesArePaid, Paid, Idle
<1>4. OpenersAreAlone'
  BY <1>1 DEF CheckoutInv, OpenersAreAlone, At, Idle
<1>5. StaysCaptured /\ NotForNothing
  BY <1>1 DEF StaysCaptured, NotForNothing
<1> QED
  BY <1>2, <1>3, <1>4, <1>5 DEF StepOK, CheckoutInv

\* A paid attempt is captured, by the handler that has locked it, and the purchases
\* change as they may.
LEMMA CaptureCommit ==
  ASSUME CheckoutInv, NEW r \in Requests, req[r].pc \in CaptureSteps, Captured(req[r].i),
         Finish(r), UNCHANGED paymob,
         status' \in [Purchases -> {"none", "PENDING_PAYMENT", "ACTIVE", "EXPIRED"}],
         slot' \in [Purchases -> BOOLEAN], usable' \in [Purchases -> BOOLEAN],
         credits' \in [Purchases -> 0..1], SlotIsActive',
         \/ status'[of[req[r].i]] # "PENDING_PAYMENT"
         \/ \E q \in Purchases : status[q] = "ACTIVE"
  PROVE  StepOK
<1> DEFINE i == req[r].i
<1>1. i \in Attempts /\ Paid(i)
  BY HandlerFields DEF CheckoutInv, CaptureSteps, CapturesArePaid
<1>2. \A j \in Attempts : pay'[j] = IF j = i THEN "CAPTURED" ELSE pay[j]
  BY DEF Captured, CheckoutInv, TypeOK
<1>3. UNCHANGED <<of, tries, page, old>>
  BY DEF Captured, paymob
<1>4. \A q \in Requests : req'[q] = IF q = r THEN Idle ELSE req[q]
  BY DEF Finish, CheckoutInv, TypeOK
<1>5. pay[i] # "none"
  BY <1>1 DEF CheckoutInv, RowsOfPurchases, Paid
<1>6. TypeOK'
  <2>1. pay' \in [Attempts -> {"none", "PENDING", "FAILED", "CAPTURED"}]
        /\ link' \in [Attempts -> BOOLEAN]
    BY DEF Captured, CheckoutInv, TypeOK
  <2>2. req' \in [Requests -> Handler \cup {Idle}]
    BY DEF Finish, CheckoutInv, TypeOK
  <2> QED
    BY <1>3, <2>1, <2>2 DEF CheckoutInv, TypeOK
<1> HIDE DEF i
<1>7. RowsOfPurchases'
  BY <1>1, <1>2, <1>3, <1>5 DEF CheckoutInv, RowsOfPurchases
<1>8. CapturesArePaid'
  BY <1>1, <1>2, <1>3, <1>4 DEF CheckoutInv, CapturesArePaid, Paid, Idle
<1>9. OpenersAreAlone'
  <2>1. \A q \in Requests : At(q, "open") => req[q].i \in Attempts
    BY HandlerFields DEF CheckoutInv, At
  <2> QED
    BY <1>2, <1>3, <1>4, <2>1 DEF CheckoutInv, OpenersAreAlone, At, Idle
<1>10. StaysCaptured /\ NotForNothing
  BY <1>2 DEF StaysCaptured, NotForNothing, i
<1> QED
  BY <1>6, <1>7, <1>8, <1>9, <1>10 DEF StepOK, CheckoutInv

-----------------------------------------------------------------------------
(* The steps. *)

\* Next, with the steps of the same kind under one name.
CardStep(i) == CardEntered(i) \/ CardTaken(i) \/ CardDeclined(i)

LEMMA CardStepOK ==
  ASSUME CheckoutInv, NEW i \in Attempts, CardStep(i)
  PROVE  StepOK
<1>1. PICK to \in {"processing", "declined", "reprocessing", "paid", "repaid"} :
        page' = [page EXCEPT ![i] = to]
  BY DEF CardStep, CardEntered, CardTaken, CardDeclined, PageGoes
<1>2. page[i] # "none" /\ ~ Paid(i)
  BY DEF CardStep, CardEntered, CardTaken, CardDeclined, PageGoes, Paid
<1>3. UNCHANGED <<purchase, payment, old, req>>
  BY DEF CardStep, CardEntered, CardTaken, CardDeclined
<1> QED
  BY <1>1, <1>2, <1>3, PageStep

LEMMA TimePassesOK ==
  ASSUME CheckoutInv, NEW i \in Attempts, TimePasses(i)
  PROVE  StepOK
<1>1. UNCHANGED <<status, slot, usable, credits, pay, of, link, tries, page, req>>
  BY DEF TimePasses, purchase, payment
<1>2. TypeOK'
  BY <1>1 DEF CheckoutInv, TypeOK, TimePasses
<1> QED
  BY <1>1, <1>2 DEF StepOK, CheckoutInv, RowsOfPurchases, CapturesArePaid, OpenersAreAlone,
     SlotIsActive, StaysCaptured, NotForNothing, Paid, At

LEMMA HoursEndOK ==
  ASSUME CheckoutInv, NEW p \in Purchases, HoursEnd(p)
  PROVE  StepOK
<1>1. TypeOK' /\ SlotIsActive'
  BY DEF HoursEnd, payment, paymob, CheckoutInv, TypeOK, SlotIsActive
<1> QED
  BY <1>1, PurchaseStep DEF HoursEnd

LEMMA ExpireOK ==
  ASSUME CheckoutInv, NEW p \in Purchases, Expire(p)
  PROVE  StepOK
<1>1. TypeOK' /\ SlotIsActive'
  BY DEF Expire, SlotAfterExpiry, payment, paymob, CheckoutInv, TypeOK, SlotIsActive
<1> QED
  BY <1>1, PurchaseStep DEF Expire

LEMMA BuyCreateOK ==
  ASSUME CheckoutInv, NEW r \in Requests, BuyCreate(r)
  PROVE  StepOK
<1>1. TypeOK' /\ SlotIsActive'
  BY DEF BuyCreate, Finish, payment, paymob, CheckoutInv, TypeOK, SlotIsActive
<1>2. \A q \in Requests : req'[q] = req[q] \/ req'[q] = Idle
  BY DEF BuyCreate, Finish, CheckoutInv, TypeOK
<1> QED
  BY <1>1, <1>2, PurchaseStep DEF BuyCreate

\* The reads of a purchase, of a payment and of a cancel.
LEMMA ReadOK ==
  ASSUME CheckoutInv, NEW r \in Requests, NEW p \in Purchases,
         BuyRead(r, p) \/ PayRead(r, p) \/ CancelRead(r, p)
  PROVE  StepOK
<1>1. PICK h \in Handler :
        h.pc \in {"buy", "supersede", "drop"} /\ req' = [req EXCEPT ![r] = h]
  <2>1. [pc |-> "buy", p |-> p] \in Handler /\ [pc |-> "supersede", p |-> p] \in Handler
        /\ \A i \in Attempts : [pc |-> "drop", i |-> i] \in Handler
    BY DEF Handler
  <2> QED
    BY <2>1 DEF BuyRead, PayRead, CancelRead, Begin
<1>2. UNCHANGED <<purchase, payment, paymob>>
  BY DEF BuyRead, PayRead, CancelRead
<1> QED
  BY <1>1, <1>2, HandlerStep DEF CaptureSteps

LEMMA CaptureReadOK ==
  ASSUME CheckoutInv, NEW r \in Requests, NEW i \in Attempts, Webhook(r, i) \/ Poll(r, i)
  PROVE  StepOK
<1> DEFINE h == [pc |-> "update", i |-> i]
<1>1. h \in Handler /\ h.pc # "open" /\ h.i = i
  BY DEF Handler
<1>2. Paid(i) /\ CaptureRead(r, i)
  BY DEF Webhook, Poll
<1> QED
  BY <1>1, <1>2, HandlerStep DEF CaptureRead, Begin

\* The steps of a capture before its commit.
LEMMA CaptureGoesOnOK ==
  ASSUME CheckoutInv, NEW r \in Requests, CaptureUpdate(r) \/ CaptureCredit(r)
  PROVE  StepOK
<1>1. PICK pc \in {"credit", "promote"} : req' = [req EXCEPT ![r].pc = pc]
  BY DEF CaptureUpdate, CaptureCredit, Continue
<1> DEFINE h == [pc |-> pc, i |-> req[r].i]
<1>2. req[r].pc \in CaptureSteps /\ UNCHANGED <<purchase, payment, paymob>>
  BY DEF CaptureUpdate, CaptureCredit, At, CaptureSteps
<1>3. [req[r] EXCEPT !.pc = pc] = h
  BY <1>2 DEF CheckoutInv, TypeOK, Handler, Idle, CaptureSteps
<1>4. h \in Handler /\ h.pc # "open" /\ h.i = req[r].i
  BY <1>2, HandlerFields DEF CheckoutInv, Handler
<1>5. Paid(req[r].i)
  BY <1>2 DEF CheckoutInv, CapturesArePaid, CaptureSteps
<1> HIDE DEF h
<1>6. req' = [req EXCEPT ![r] = h]
  BY <1>1, <1>3
<1> QED
  BY <1>2, <1>4, <1>5, <1>6, HandlerStep

LEMMA CrashOK ==
  ASSUME CheckoutInv, NEW r \in Requests, Crash(r)
  PROVE  StepOK
<1>1. Idle \in Handler \cup {Idle} /\ Idle.pc # "open" /\ Idle.pc \notin CaptureSteps
  BY DEF Idle, CaptureSteps
<1> QED
  BY <1>1, HandlerStep DEF Crash, Finish

LEMMA PaySupersedeOK ==
  ASSUME CheckoutInv, NEW r \in Requests, PaySupersede(r)
  PROVE  StepOK
<1> DEFINE T == {i \in AttemptsOf(req[r].p) : pay[i] = "PENDING"}
<1>1. /\ pay' = [i \in Attempts |-> IF i \in T THEN "FAILED" ELSE pay[i]]
      /\ link' = [i \in Attempts |-> link[i] /\ i \notin T]
      /\ UNCHANGED <<of, tries>>
  BY DEF PaySupersede, GiveUp
<1>2. /\ pay' \in [Attempts -> {"none", "PENDING", "FAILED", "CAPTURED"}]
      /\ \A i \in Attempts : pay'[i] = pay[i] \/ (pay[i] = "PENDING" /\ pay'[i] = "FAILED")
  BY <1>1 DEF CheckoutInv, TypeOK
<1> HIDE DEF T
<1>3. link' \in [Attempts -> BOOLEAN] /\ tries' \in [Attempts -> 0..(MaxTries - 1)]
  <2>1. \A i \in Attempts : (link[i] /\ i \notin T) \in BOOLEAN
    OBVIOUS
  <2> QED
    BY <1>1, <2>1 DEF CheckoutInv, TypeOK
<1> DEFINE h == [pc |-> "create", p |-> req[r].p]
<1>4. h \in Handler /\ h.pc \notin CaptureSteps \cup {"open"} /\ [req[r] EXCEPT !.pc = "create"] = h
  BY HandlerFields DEF PaySupersede, At, CheckoutInv, TypeOK, Handler, Idle, CaptureSteps
<1> HIDE DEF h
<1>5. req' = [req EXCEPT ![r] = h]
  BY <1>4 DEF PaySupersede, Continue
<1>6. /\ req' \in [Requests -> Handler \cup {Idle}]
      /\ \A q \in Requests : req'[q] = req[q] \/ req'[q].pc \notin CaptureSteps \cup {"open"}
  BY <1>4, <1>5 DEF CheckoutInv, TypeOK
<1> QED
  BY <1>1, <1>2, <1>3, <1>6, CloseStep DEF PaySupersede

LEMMA FailOK ==
  ASSUME CheckoutInv, NEW i \in Attempts, Fail(i), UNCHANGED <<purchase, paymob>>,
         req' = req \/ \E r \in Requests : Finish(r)
  PROVE  StepOK
<1>1. /\ pay' \in [Attempts -> {"none", "PENDING", "FAILED", "CAPTURED"}]
      /\ \A j \in Attempts : pay'[j] = pay[j] \/ (pay[j] = "PENDING" /\ pay'[j] = "FAILED")
  BY DEF Fail, FailGuard, CheckoutInv, TypeOK
<1>3. link' \in [Attempts -> BOOLEAN] /\ tries' \in [Attempts -> 0..(MaxTries - 1)]
  BY DEF Fail, CheckoutInv, TypeOK
<1>4. UNCHANGED of
  BY DEF Fail
<1>5. /\ req' \in [Requests -> Handler \cup {Idle}]
      /\ \A q \in Requests : req'[q] = req[q] \/ req'[q].pc \notin CaptureSteps \cup {"open"}
  BY DEF CheckoutInv, TypeOK, Finish, Idle, CaptureSteps
<1> QED
  BY <1>1, <1>3, <1>4, <1>5, CloseStep

\* A callback, the reconciler, and the end of a cancel.
LEMMA ClosedOK ==
  ASSUME CheckoutInv,
         \/ \E i \in Attempts : FailedNotice(i) \/ ReconcileOpen(i)
         \/ \E r \in Requests : CancelDrop(r)
  PROVE  StepOK
<1>1. ASSUME NEW i \in Attempts, FailedNotice(i) PROVE StepOK
  <2>1. Fail(i) /\ UNCHANGED <<purchase, paymob, req>>
    BY <1>1 DEF FailedNotice
  <2> QED
    BY <2>1, FailOK
<1>2. ASSUME NEW i \in Attempts, ReconcileOpen(i), tries[i] + 1 >= MaxTries PROVE StepOK
  <2>1. Fail(i) /\ UNCHANGED <<purchase, paymob, req>>
    BY <1>2 DEF ReconcileOpen
  <2> QED
    BY <2>1, FailOK
<1>3. ASSUME NEW i \in Attempts, ReconcileOpen(i), ~ (tries[i] + 1 >= MaxTries) PROVE StepOK
  <2>1. tries[i] \in 0..(MaxTries - 1) /\ MaxTries \in Nat
    BY PackageCheckoutAssumption DEF CheckoutInv, TypeOK
  <2>2. tries[i] + 1 \in 0..(MaxTries - 1)
    BY <1>3, <2>1
  <2>3. tries' \in [Attempts -> 0..(MaxTries - 1)]
    BY <1>3, <2>2 DEF ReconcileOpen, CheckoutInv, TypeOK
  <2>4. UNCHANGED <<pay, of, link, purchase, paymob, req>>
    BY <1>3 DEF ReconcileOpen
  <2>5. pay' \in [Attempts -> {"none", "PENDING", "FAILED", "CAPTURED"}]
    BY <2>4 DEF CheckoutInv, TypeOK
  <2>6. link' \in [Attempts -> BOOLEAN] /\ req' \in [Requests -> Handler \cup {Idle}]
    BY <2>4 DEF CheckoutInv, TypeOK
  <2> QED
    BY <2>3, <2>4, <2>5, <2>6, CloseStep
<1>4. ASSUME NEW r \in Requests, CancelDrop(r) PROVE StepOK
  <2>1. req[r].i \in Attempts
    BY <1>4, HandlerFields DEF CancelDrop, At, CheckoutInv
  <2>2. Fail(req[r].i) /\ Finish(r) /\ UNCHANGED <<purchase, paymob>>
    BY <1>4 DEF CancelDrop
  <2> QED
    BY <2>1, <2>2, FailOK
<1> QED
  BY <1>1, <1>2, <1>3, <1>4

LEMMA PayCreateOK ==
  ASSUME CheckoutInv, NEW r \in Requests, PayCreate(r)
  PROVE  StepOK
<1>1. PICK i \in Attempts :
        /\ pay[i] = "none"
        /\ pay' = [pay EXCEPT ![i] = "PENDING"]
        /\ of' = [of EXCEPT ![i] = req[r].p]
        /\ req' = [req EXCEPT ![r] = [pc |-> "open", i |-> i]]
  BY DEF PayCreate
<1> DEFINE h == [pc |-> "open", i |-> i]
<1>2. h \in Handler /\ h.pc = "open" /\ h.i = i
  BY DEF Handler
<1>3. req[r].p \in Purchases
  BY HandlerFields DEF PayCreate, At, CheckoutInv
<1>4. UNCHANGED <<status, slot, usable, credits, link, tries, page, old>>
  BY DEF PayCreate, purchase, paymob
<1>5. \A j \in Attempts : /\ pay'[j] = IF j = i THEN "PENDING" ELSE pay[j]
                          /\ of'[j] = IF j = i THEN req[r].p ELSE of[j]
  BY <1>1 DEF CheckoutInv, TypeOK
<1>6. TypeOK'
  BY <1>1, <1>2, <1>3, <1>4 DEF CheckoutInv, TypeOK
<1> HIDE DEF h
<1>7. \A q \in Requests : req'[q] = IF q = r THEN h ELSE req[q]
  BY <1>1 DEF CheckoutInv, TypeOK, h
<1>8. RowsOfPurchases' /\ SlotIsActive'
  BY <1>3, <1>4, <1>5 DEF CheckoutInv, RowsOfPurchases, SlotIsActive
<1>9. CapturesArePaid'
  BY <1>2, <1>4, <1>5, <1>7 DEF CheckoutInv, CapturesArePaid, Paid
<1>10. OpenersAreAlone'
  <2>1. page[i] = "none"
    BY <1>1 DEF CheckoutInv, RowsOfPurchases
  <2>2. \A q \in Requests : At(q, "open") => req[q].i \in Attempts /\ req[q].i # i
    BY <1>1, HandlerFields DEF CheckoutInv, OpenersAreAlone, At
  <2> QED
    BY <1>2, <1>4, <1>5, <1>7, <2>1, <2>2 DEF CheckoutInv, OpenersAreAlone, At
<1>11. StaysCaptured /\ NotForNothing
  BY <1>1, <1>5 DEF StaysCaptured, NotForNothing
<1> QED
  BY <1>6, <1>8, <1>9, <1>10, <1>11 DEF StepOK, CheckoutInv

\* Paymob's answer to the one that opens a page.
LEMMA PayOpenOK ==
  ASSUME CheckoutInv, NEW r \in Requests, PayOpen(r)
  PROVE  StepOK
<1> DEFINE i == req[r].i
<1>1. i \in Attempts /\ pay[i] # "none" /\ page[i] = "none"
  BY HandlerFields DEF PayOpen, At, CheckoutInv, OpenersAreAlone
<1> DEFINE h == [pc |-> "store", i |-> i]
<1>2. h \in Handler /\ [req[r] EXCEPT !.pc = "store"] = h /\ h.pc = "store"
  BY <1>1 DEF PayOpen, At, CheckoutInv, TypeOK, Handler, Idle
<1>3. UNCHANGED <<status, slot, usable, credits, pay, of, link, tries, old>>
  BY DEF PayOpen, purchase, payment
<1>4. TypeOK'
  BY <1>2, <1>3 DEF CheckoutInv, TypeOK, PayOpen, Continue
<1>5. \A j \in Attempts : page'[j] = IF j = i THEN "open" ELSE page[j]
  BY DEF PayOpen, CheckoutInv, TypeOK
<1> HIDE DEF h
<1>6. \A q \in Requests : req'[q] = IF q = r THEN h ELSE req[q]
  BY <1>2 DEF PayOpen, Continue, CheckoutInv, TypeOK
<1>7. \A q \in Requests \ {r} : At(q, "open") => req[q].i \in Attempts /\ req[q].i # i
  BY HandlerFields DEF PayOpen, CheckoutInv, OpenersAreAlone, At
<1> HIDE DEF i
<1>8. RowsOfPurchases' /\ SlotIsActive'
  BY <1>1, <1>3, <1>5 DEF CheckoutInv, RowsOfPurchases, SlotIsActive
<1>9. CapturesArePaid'
  <2>1. \A j \in Attempts : Paid(j) => Paid(j)'
    BY <1>1, <1>5 DEF Paid
  <2>2. \A q \in Requests : req[q].pc \in {"update", "credit", "promote"} => req[q].i \in Attempts
    BY HandlerFields DEF CheckoutInv, CaptureSteps
  <2> QED
    BY <1>2, <1>3, <1>6, <2>1, <2>2 DEF CheckoutInv, CapturesArePaid
<1>10. OpenersAreAlone'
  BY <1>2, <1>3, <1>5, <1>6, <1>7 DEF CheckoutInv, OpenersAreAlone, At
<1>11. StaysCaptured /\ NotForNothing
  BY <1>3 DEF StaysCaptured, NotForNothing
<1> QED
  BY <1>4, <1>8, <1>9, <1>10, <1>11 DEF StepOK, CheckoutInv

LEMMA PayRefusedOK ==
  ASSUME CheckoutInv, NEW r \in Requests, PayRefused(r)
  PROVE  StepOK
<1> DEFINE i == req[r].i
<1>1. i \in Attempts /\ pay[i] # "none" /\ page[i] = "none"
  BY HandlerFields DEF PayRefused, At, CheckoutInv, OpenersAreAlone
<1>2. pay[i] # "CAPTURED"
  BY <1>1 DEF CheckoutInv, CapturesArePaid, Paid
<1>3. UNCHANGED <<status, slot, usable, credits, of, tries, page, old>>
  BY DEF PayRefused, purchase, paymob
<1>4. TypeOK'
  BY <1>3 DEF CheckoutInv, TypeOK, PayRefused, Finish
<1>5. \A j \in Attempts : pay'[j] = IF j = i THEN "FAILED" ELSE pay[j]
  BY DEF PayRefused, CheckoutInv, TypeOK
<1>6. \A q \in Requests : req'[q] = IF q = r THEN Idle ELSE req[q]
  BY DEF PayRefused, Finish, CheckoutInv, TypeOK
<1> HIDE DEF i
<1>7. RowsOfPurchases' /\ SlotIsActive'
  BY <1>1, <1>3, <1>5 DEF CheckoutInv, RowsOfPurchases, SlotIsActive
<1>8. CapturesArePaid'
  BY <1>3, <1>5, <1>6 DEF CheckoutInv, CapturesArePaid, Paid, Idle
<1>9. OpenersAreAlone'
  <2>1. \A q \in Requests : At(q, "open") => req[q].i \in Attempts
    BY HandlerFields DEF CheckoutInv, At
  <2> QED
    BY <1>1, <1>3, <1>5, <1>6, <2>1 DEF CheckoutInv, OpenersAreAlone, At, Idle
<1>10. StaysCaptured /\ NotForNothing
  BY <1>2, <1>5 DEF StaysCaptured, NotForNothing
<1> QED
  BY <1>4, <1>7, <1>8, <1>9, <1>10 DEF StepOK, CheckoutInv

LEMMA PayStoreOK ==
  ASSUME CheckoutInv, NEW r \in Requests, PayStore(r)
  PROVE  StepOK
<1>1. pay' = pay /\ pay \in [Attempts -> {"none", "PENDING", "FAILED", "CAPTURED"}]
  BY DEF PayStore, CheckoutInv, TypeOK
<1>2. link' \in [Attempts -> BOOLEAN] /\ tries' \in [Attempts -> 0..(MaxTries - 1)]
  BY DEF PayStore, CheckoutInv, TypeOK
<1>3. /\ req' \in [Requests -> Handler \cup {Idle}]
      /\ \A q \in Requests : req'[q] = req[q] \/ req'[q].pc \notin CaptureSteps \cup {"open"}
  BY DEF PayStore, CheckoutInv, TypeOK, Finish, Idle, CaptureSteps
<1>4. UNCHANGED <<purchase, of, paymob>>
  BY DEF PayStore
<1> QED
  BY <1>1, <1>2, <1>3, <1>4, CloseStep

LEMMA CaptureStrandedOK ==
  ASSUME CheckoutInv, NEW r \in Requests, CaptureStranded(r)
  PROVE  StepOK
<1>1. UNCHANGED <<status, slot, usable, credits>>
  BY DEF CaptureStranded, purchase
<1>2. \/ status'[of[req[r].i]] # "PENDING_PAYMENT"
      \/ \E q \in Purchases : status[q] = "ACTIVE"
  BY <1>1 DEF CaptureStranded, SlotTaken, CheckoutInv, SlotIsActive
<1>3. req[r].pc \in CaptureSteps
  BY DEF CaptureStranded, At, CaptureSteps
<1>4. /\ status' \in [Purchases -> {"none", "PENDING_PAYMENT", "ACTIVE", "EXPIRED"}]
      /\ slot' \in [Purchases -> BOOLEAN] /\ usable' \in [Purchases -> BOOLEAN]
      /\ credits' \in [Purchases -> 0..1] /\ SlotIsActive'
  BY <1>1 DEF CheckoutInv, TypeOK, SlotIsActive
<1>5. Captured(req[r].i) /\ Finish(r) /\ UNCHANGED paymob
  BY DEF CaptureStranded
<1> QED
  BY <1>2, <1>3, <1>4, <1>5, CaptureCommit

LEMMA CapturePromoteOK ==
  ASSUME CheckoutInv, NEW r \in Requests, CapturePromote(r)
  PROVE  StepOK
<1> DEFINE i == req[r].i
           p == of[i]
<1>1. CASE KeyViolated(p)
  <2>1. Finish(r) /\ UNCHANGED <<purchase, payment, paymob>>
    BY <1>1 DEF CapturePromote
  <2>2. Idle.pc # "open" /\ Idle.pc \notin CaptureSteps
    BY DEF Idle, CaptureSteps
  <2> QED
    BY <2>1, <2>2, HandlerStep DEF Finish
<1>2. CASE ~ KeyViolated(p)
  <2>1. i \in Attempts /\ Paid(i) /\ req[r].pc \in CaptureSteps
    BY HandlerFields DEF CapturePromote, At, CheckoutInv, CapturesArePaid, CaptureSteps
  <2>2. p \in Purchases
    BY <2>1 DEF CheckoutInv, RowsOfPurchases, Paid
  <2>3. Captured(i) /\ Finish(r) /\ UNCHANGED paymob
    BY <1>2 DEF CapturePromote
  <2>4. CASE Promotable(p)
    <3>1. credits[p] = 0
      BY <2>2, <2>4 DEF Promotable, CheckoutInv, SlotIsActive
    <3>2. /\ status' = [status EXCEPT ![p] = "ACTIVE"]
          /\ slot' = [slot EXCEPT ![p] = TRUE]
          /\ usable' = [usable EXCEPT ![p] = TRUE]
          /\ credits' = [credits EXCEPT ![p] = 1]
      BY <1>2, <2>2, <2>4, <3>1 DEF CapturePromote, CheckoutInv, TypeOK
    <3> HIDE DEF p
    <3>3. /\ status' \in [Purchases -> {"none", "PENDING_PAYMENT", "ACTIVE", "EXPIRED"}]
          /\ slot' \in [Purchases -> BOOLEAN] /\ usable' \in [Purchases -> BOOLEAN]
      BY <3>2 DEF CheckoutInv, TypeOK
    <3>4. credits' \in [Purchases -> 0..1]
      <4>1. 1 \in 0..1
        OBVIOUS
      <4> QED
        BY <3>2, <4>1 DEF CheckoutInv, TypeOK
    <3>5. SlotIsActive' /\ status'[p] = "ACTIVE"
      BY <2>2, <3>2 DEF CheckoutInv, TypeOK, SlotIsActive
    <3> QED
      BY <2>1, <2>3, <3>3, <3>4, <3>5, CaptureCommit DEF p
  <2>5. CASE ~ Promotable(p)
    <3>1. UNCHANGED <<status, slot, usable, credits>>
      BY <1>2, <2>5 DEF CapturePromote, purchase
    <3>2. /\ status' \in [Purchases -> {"none", "PENDING_PAYMENT", "ACTIVE", "EXPIRED"}]
          /\ slot' \in [Purchases -> BOOLEAN] /\ usable' \in [Purchases -> BOOLEAN]
          /\ credits' \in [Purchases -> 0..1] /\ SlotIsActive'
      BY <3>1 DEF CheckoutInv, TypeOK, SlotIsActive
    <3>3. status'[p] # "PENDING_PAYMENT"
      BY <2>5, <3>1 DEF Promotable
    <3> QED
      BY <2>1, <2>3, <3>2, <3>3, CaptureCommit
  <2> QED
    BY <2>4, <2>5
<1> QED
  BY <1>1, <1>2

-----------------------------------------------------------------------------

LEMMA NextStep ==
  ASSUME CheckoutInv, Next
  PROVE  StepOK
BY CardStepOK, TimePassesOK, HoursEndOK, ExpireOK, BuyCreateOK, ReadOK, CaptureReadOK,
   CaptureGoesOnOK, CrashOK, PaySupersedeOK, ClosedOK, PayCreateOK, PayOpenOK, PayRefusedOK,
   PayStoreOK, CaptureStrandedOK, CapturePromoteOK
DEF Next, CardStep, PayStep, CaptureStep

LEMMA InitOK == Init => CheckoutInv
<1> SUFFICES ASSUME Init PROVE CheckoutInv
  OBVIOUS
<1>1. TypeOK
  <2>1. 0 \in 0..(MaxTries - 1) /\ 0 \in 0..1
    BY PackageCheckoutAssumption
  <2>2. tries \in [Attempts -> 0..(MaxTries - 1)] /\ credits \in [Purchases -> 0..1]
    BY <2>1 DEF Init
  <2> QED
    BY <2>2 DEF Init, TypeOK
<1> QED
  BY <1>1 DEF Init, CheckoutInv, RowsOfPurchases, CapturesArePaid, OpenersAreAlone,
     SlotIsActive, Paid, At, Idle

LEMMA CheckoutInvariant == Spec => []CheckoutInv
<1>1. CheckoutInv /\ UNCHANGED vars => CheckoutInv'
  BY DEF vars, purchase, payment, paymob, CheckoutInv, TypeOK, RowsOfPurchases,
     CapturesArePaid, OpenersAreAlone, SlotIsActive, Paid, At
<1>2. CheckoutInv /\ [Next]_vars => CheckoutInv'
  BY <1>1, NextStep DEF StepOK
<1> QED
  BY <1>2, InitOK, PTL DEF Spec

\* The variables keep their types; in particular no purchase is credited twice.
THEOREM TypeInvariant == Spec => []TypeOK
<1>1. CheckoutInv => TypeOK
  BY DEF CheckoutInv
<1> QED
  BY <1>1, CheckoutInvariant, PTL

\* Money that is recorded stays recorded, whatever comes late: a decline, a cancel,
\* the reconciler's last try, a newer attempt (finalizePackagePaymentFailed).
THEOREM CapturedStaysCaptured == Spec => CapturedIsFinal
<1>1. CheckoutInv /\ [Next]_vars => [StaysCaptured]_vars
  BY NextStep DEF StepOK
<1>2. [StaysCaptured]_vars
        => [\A i \in Attempts : pay[i] = "CAPTURED" => pay'[i] = "CAPTURED"]_vars
  BY DEF StaysCaptured
<1> QED
  BY <1>1, <1>2, CheckoutInvariant, PTL DEF Spec, CapturedIsFinal

\* A payment is captured without giving the mother her hours only if she has others
\* (finalizePackagePaymentCaptured, SLOT_TAKEN).
THEOREM NothingStrandedAlone == Spec => StrandedBehindActive
<1>1. CheckoutInv /\ [Next]_vars => [NotForNothing]_vars
  BY NextStep DEF StepOK
<1>2. [NotForNothing]_vars
        => [\A i \in Attempts :
              (pay[i] # "CAPTURED" /\ pay'[i] = "CAPTURED") =>
                \/ status'[of[i]] # "PENDING_PAYMENT"
                \/ \E q \in Purchases : status[q] = "ACTIVE"]_vars
  BY DEF NotForNothing
<1> QED
  BY <1>1, <1>2, CheckoutInvariant, PTL DEF Spec, StrandedBehindActive
=============================================================================
