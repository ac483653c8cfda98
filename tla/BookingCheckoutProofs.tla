------------------------ MODULE BookingCheckoutProofs ------------------------
(***************************************************************************)
(* For any price, purse, number of attempts and of overlapping handlers:   *)
(* what is recorded as captured was taken and stays captured, a zero       *)
(* payment owes nothing, and no points are lost.  For any price, purse and *)
(* number of attempts, when handlers do not overlap: one payment confirms, *)
(* none is reported as stranded falsely, and points come back once.        *)
(***************************************************************************)
EXTENDS BookingCheckout, TLAPS

-----------------------------------------------------------------------------
(* The inductive invariant, in four parts that a step can be proved to keep  *)
(* one at a time.                                                            *)

\* The booking's figures.
Money ==
  /\ status \in Status
  /\ total \in 0..Price
  /\ points \in 0..Price
  /\ wallet \in Nat
  /\ zeroPaid \in BOOLEAN
  /\ total + points = Price
  /\ wallet + points >= Purse
  /\ zeroPaid => total = 0 /\ status \in {"CONFIRMED", "CANCELLED"}

\* The attempts and their pages: a page belongs to a row, captured money was taken.
Payments ==
  /\ pay \in [Attempts -> {"none", "PENDING", "FAILED", "CAPTURED"}]
  /\ amount \in [Attempts -> 0..Price]
  /\ link \in [Attempts -> BOOLEAN]
  /\ tries \in [Attempts -> 0..(MaxTries - 1)]
  /\ page \in [Attempts -> {"none", "open", "declined", "paid", "repaid"}]
  /\ age \in [Attempts -> {"fresh", "stale", "expired"}]
  /\ \A i \in Attempts : pay[i] = "none" => page[i] = "none"
  /\ \A i \in Attempts : pay[i] = "CAPTURED" => Paid(i)

\* A capture in progress has been paid for; a checkout that waits for Paymob has
\* a row and no page.
HandlerOK(h) ==
  /\ h.pc \in {"mark", "commit"} => h.i \in Attempts /\ Paid(h.i)
  /\ h.pc = "store" => h.i \in Attempts /\ page[h.i] = "none" /\ pay[h.i] # "none"

\* ... a row of its own.
Slots ==
  /\ req \in [Requests -> Handler \cup {Idle}]
  /\ \A r \in Requests : req[r] # Idle => HandlerOK(req[r])
  /\ \A r, s \in Requests :
       At(r, "store") /\ At(s, "store") /\ req[r].i = req[s].i => r = s

History ==
  /\ payers \subseteq Attempts
  /\ told \subseteq Attempts

CheckoutInv == Money /\ Payments /\ Slots /\ History

-----------------------------------------------------------------------------
(* Frames, and what the steps share. *)

LEMMA SameMoney ==
  ASSUME Money, UNCHANGED booking
  PROVE  Money'
BY DEF Money, booking

LEMMA SamePayments ==
  ASSUME Payments, UNCHANGED payment, UNCHANGED paymob
  PROVE  Payments'
BY DEF Payments, payment, paymob, Paid

LEMMA SameHistory ==
  ASSUME History, UNCHANGED history
  PROVE  History'
BY DEF History, history

\* An occupied slot holds a handler.
LEMMA BusyIsHandler ==
  ASSUME Slots, NEW r \in Requests, req[r] # Idle
  PROVE  req[r] \in Handler /\ HandlerOK(req[r])
BY DEF Slots

\* What is captured stays so.
KeepsCaptured == \A i \in Attempts : pay[i] = "CAPTURED" => pay'[i] = "CAPTURED"

\* ... no row is deleted, no page is opened or lost, a paid one stays paid.
Forward ==
  /\ KeepsCaptured
  /\ \A i \in Attempts :
       /\ pay[i] # "none" => pay'[i] # "none"
       /\ page[i] = "none" => page'[i] = "none"
       /\ Paid(i) => Paid(i)'

LEMMA SamePages ==
  ASSUME UNCHANGED payment, UNCHANGED paymob
  PROVE  Forward
BY DEF Forward, KeepsCaptured, payment, paymob, Paid

\* Giving up rows that are not captured loses nothing.
LEMMA GiveUpKeeps ==
  ASSUME Payments, NEW S \in SUBSET Attempts, GiveUp(S), UNCHANGED paymob,
         \A i \in S : pay[i] \notin {"none", "CAPTURED"}
  PROVE  Payments' /\ Forward
<1>1. \A i \in Attempts : /\ pay'[i] = "none" <=> pay[i] = "none"
                          /\ pay'[i] = "CAPTURED" <=> pay[i] = "CAPTURED"
  BY DEF GiveUp
<1>2. UNCHANGED <<page, age, amount, tries>>
  BY DEF GiveUp, paymob
<1>3. /\ pay' \in [Attempts -> {"none", "PENDING", "FAILED", "CAPTURED"}]
      /\ link' \in [Attempts -> BOOLEAN]
  BY DEF GiveUp, Payments
<1> QED
  BY <1>1, <1>2, <1>3 DEF Payments, Forward, KeepsCaptured, Paid

\* The handlers are as they were while the pages go forward.
LEMMA SameSlots ==
  ASSUME Slots, Forward, UNCHANGED req
  PROVE  Slots'
BY DEF Slots, Forward, HandlerOK, At

\* A handler goes on to anything but a row of its own.
LEMMA MoveOn ==
  ASSUME Slots, Forward, NEW r \in Requests, NEW h \in Handler,
         req' = [req EXCEPT ![r] = h],
         h.pc # "store",
         h.pc \in {"mark", "commit"} => h.i \in Attempts /\ Paid(h.i)
  PROVE  Slots'
<1>1. HandlerOK(h)'
  BY DEF HandlerOK, Forward
<1>2. req' \in [Requests -> Handler \cup {Idle}]
  BY DEF Slots
<1>3. \A s \in Requests : req'[s] = IF s = r THEN h ELSE req[s]
  BY DEF Slots
<1>4. (\A s \in Requests : req[s] # Idle => HandlerOK(req[s]))'
  <2>1. TAKE s \in Requests
  <2>2. CASE s = r
    BY <1>1, <1>3, <2>2 DEF HandlerOK
  <2>3. CASE s # r
    BY <1>3, <2>3 DEF Slots, HandlerOK, Forward
  <2> QED
    BY <2>2, <2>3
<1>5. \A s \in Requests : At(s, "store")' => s # r /\ At(s, "store") /\ req'[s] = req[s]
  BY <1>3 DEF At
<1> QED
  BY <1>2, <1>4, <1>5 DEF Slots, At

\* A handler ends.
LEMMA FinishKeeps ==
  ASSUME Slots, Forward, NEW r \in Requests, Finish(r)
  PROVE  Slots'
<1>1. req' \in [Requests -> Handler \cup {Idle}]
  BY DEF Slots, Finish
<1>2. \A s \in Requests : req'[s] # Idle => s # r /\ req'[s] = req[s]
  BY DEF Slots, Finish
<1>3. (\A s \in Requests : req[s] # Idle => HandlerOK(req[s]))'
  BY <1>2 DEF Slots, HandlerOK, Forward
<1> QED
  BY <1>1, <1>2, <1>3 DEF Slots, At

LEMMA AttemptNumbers ==
  /\ 0 \in 0..MaxAttempts
  /\ \A i \in Attempts : i \in 0..MaxAttempts
BY CheckoutAssumption DEF Attempts

LEMMA RowType ==
  ASSUME Money
  PROVE  Row \in [status : Status, total : 0..Price, points : 0..Price]
BY DEF Row, Money

\* A new handler that does not begin with a row or a capture.
LEMMA BeginKeeps ==
  ASSUME Money, Slots, Forward, NEW r \in Requests,
         NEW op \in {"pay", "capture", "settle", "cancel", "reject", "redeem", "remove",
                     "override"},
         NEW pc \in {"supersede", "mark", "sync", "check", "credits", "write"},
         NEW i \in 0..MaxAttempts, NEW todo \in SUBSET Attempts,
         pc = "mark" => i \in Attempts /\ Paid(i),
         Begin(r, op, pc, i, todo)
  PROVE  Slots'
<1> DEFINE h == [op |-> op, pc |-> pc, i |-> i, todo |-> todo, seen |-> Row]
<1>1. h \in Handler
  BY RowType DEF Handler
<1>2. req' = [req EXCEPT ![r] = h]
  BY DEF Begin
<1>3. /\ h.pc # "store"
      /\ h.pc \in {"mark", "commit"} => h.i \in Attempts /\ Paid(h.i)
  OBVIOUS
<1> HIDE DEF h
<1> QED
  BY <1>1, <1>2, <1>3, MoveOn

\* A handler that only moves to its next step.
LEMMA ContinueKeeps ==
  ASSUME Slots, Forward, NEW r \in Requests, req[r] # Idle,
         NEW pc \in {"create", "read", "check", "reread", "credits", "write"},
         Continue(r, pc)
  PROVE  Slots'
<1> DEFINE h == [req[r] EXCEPT !.pc = pc]
<1>1. h \in Handler /\ h.pc = pc
  BY BusyIsHandler DEF Handler
<1>2. req' = [req EXCEPT ![r] = h]
  BY DEF Continue
<1> HIDE DEF h
<1> QED
  BY <1>1, <1>2, MoveOn

-----------------------------------------------------------------------------
(* Every step keeps the invariant, and what was captured. *)

\* A capture that is about to commit.
LEMMA AtCapture ==
  ASSUME Slots, NEW r \in Requests, At(r, "mark") \/ At(r, "commit")
  PROVE  req[r].i \in Attempts /\ Paid(req[r].i)
BY BusyIsHandler DEF At, HandlerOK

\* A checkout that waits for Paymob.
LEMMA AtStore ==
  ASSUME Slots, NEW r \in Requests, At(r, "store")
  PROVE  /\ req[r].i \in Attempts
         /\ page[req[r].i] = "none"
         /\ pay[req[r].i] # "none"
BY BusyIsHandler DEF At, HandlerOK

LEMMA PayKeeps ==
  ASSUME CheckoutInv, NEW r \in Requests, PayStep(r)
  PROVE  CheckoutInv' /\ KeepsCaptured
<1> USE DEF CheckoutInv
<1>1. CASE PayRead(r)
  <2>1. Slots'
    BY <1>1, SamePages, BeginKeeps, AttemptNumbers DEF PayRead
  <2> QED
    BY <1>1, <2>1, SameMoney, SamePayments, SameHistory, SamePages DEF PayRead, Forward
<1>2. CASE PaySupersede(r)
  <2>1. Payments' /\ Forward
    BY <1>2, GiveUpKeeps DEF PaySupersede
  <2> QED
    BY <1>2, <2>1, SameMoney, SameHistory, ContinueKeeps DEF PaySupersede, At, Forward
<1>3. CASE PayCreate(r) /\ Made = Attempts
  BY <1>3, SameMoney, SamePayments, SameHistory, SamePages, FinishKeeps
  DEF PayCreate, Forward
<1>4. CASE PayCreate(r) /\ Made # Attempts
  <2>1. PICK i \in Attempts \ Made :
          /\ pay' = [pay EXCEPT ![i] = "PENDING"]
          /\ amount' = [amount EXCEPT ![i] = req[r].seen.total]
          /\ req' = [req EXCEPT ![r].pc = "store", ![r].i = i]
          /\ UNCHANGED <<link, tries>>
    BY <1>4 DEF PayCreate
  <2>2. pay[i] = "none" /\ page[i] = "none"
    BY <2>1 DEF Made, Payments
  <2>3. req[r] # Idle /\ req[r] \in Handler
    BY <1>4, BusyIsHandler DEF PayCreate, At
  <2>4. UNCHANGED <<page, age>>
    BY <1>4 DEF PayCreate, paymob
  <2>5. Payments'
    BY <2>1, <2>2, <2>3, <2>4 DEF Payments, Paid, Handler
  <2>6. Forward
    BY <2>1, <2>2, <2>4 DEF Payments, Forward, KeepsCaptured, Paid
  <2>7. Slots'
    <3> DEFINE h == [req[r] EXCEPT !.pc = "store", !.i = i]
    <3>1. h \in Handler /\ h.pc = "store" /\ h.i = i
      BY <2>1, <2>3, AttemptNumbers DEF Handler
    <3>2. req' = [req EXCEPT ![r] = h]
      BY <2>1
    <3> HIDE DEF h
    <3>3. \A s \in Requests : req'[s] = IF s = r THEN h ELSE req[s]
      BY <3>2 DEF Slots
    <3>4. page'[i] = "none" /\ pay'[i] # "none"
      BY <2>1, <2>2, <2>4 DEF Payments
    <3>5. (\A s \in Requests : req[s] # Idle => HandlerOK(req[s]))'
      <4>1. TAKE s \in Requests
      <4>2. CASE s = r
        BY <3>1, <3>3, <3>4, <4>2 DEF HandlerOK
      <4>3. CASE s # r
        BY <2>6, <3>3, <4>3 DEF Slots, HandlerOK, Forward
      <4> QED
        BY <4>2, <4>3
    <3>6. \A s \in Requests : At(s, "store") => req[s].i # i
      BY <2>2, AtStore
    <3>7. \A s \in Requests : s # r => (At(s, "store")' => At(s, "store")) /\ req'[s] = req[s]
      BY <3>3 DEF At
    <3>8. \A s, t \in Requests :
            At(s, "store")' /\ At(t, "store")' /\ req'[s].i = req'[t].i => s = t
      BY <3>1, <3>3, <3>6, <3>7 DEF Slots
    <3>9. req' \in [Requests -> Handler \cup {Idle}]
      BY <3>1, <3>2 DEF Slots
    <3> QED
      BY <3>5, <3>8, <3>9 DEF Slots
  <2> QED
    BY <1>4, <2>5, <2>6, <2>7, SameMoney, SameHistory DEF PayCreate, Forward
<1>5. CASE PayStore(r)
  <2>1. /\ req[r].i \in Attempts
        /\ page[req[r].i] = "none"
        /\ pay[req[r].i] # "none"
    BY <1>5, AtStore DEF PayStore
  <2>2. Payments'
    BY <1>5, <2>1 DEF PayStore, Payments, Paid
  <2>3. \A i \in Attempts : /\ Paid(i) => Paid(i)'
                            /\ i # req[r].i /\ page[i] = "none" => page'[i] = "none"
    BY <1>5, <2>1 DEF PayStore, Payments, Paid
  <2>4. \A s \in Requests : s # r /\ At(s, "store") => req[s].i # req[r].i
    BY <1>5 DEF PayStore, Slots
  <2>5. \A s \in Requests : req'[s] # Idle => s # r /\ req'[s] = req[s]
    BY <1>5 DEF PayStore, Finish, Slots
  <2>6. (\A s \in Requests : req[s] # Idle => HandlerOK(req[s]))'
    BY <1>5, <2>3, <2>4, <2>5 DEF PayStore, Slots, HandlerOK, At
  <2>7. Slots'
    BY <1>5, <2>5, <2>6 DEF PayStore, Finish, Slots, At
  <2> QED
    BY <1>5, <2>2, <2>7, SameMoney, SameHistory DEF PayStore, KeepsCaptured
<1>6. CASE PayRefused(r)
  <2>1. /\ req[r].i \in Attempts
        /\ pay[req[r].i] \notin {"none", "CAPTURED"}
    BY <1>6, AtStore DEF PayRefused, Payments, Paid
  <2>2. Payments' /\ Forward
    BY <1>6, <2>1, GiveUpKeeps DEF PayRefused
  <2> QED
    BY <1>6, <2>2, SameMoney, SameHistory, FinishKeeps DEF PayRefused, Forward
<1> QED
  BY <1>1, <1>2, <1>3, <1>4, <1>5, <1>6 DEF PayStep

LEMMA CaptureKeeps ==
  ASSUME CheckoutInv, NEW r \in Requests, CaptureStep(r)
  PROVE  CheckoutInv' /\ KeepsCaptured
<1> USE DEF CheckoutInv
<1>1. ASSUME NEW i \in Attempts, WebhookSuccess(r, i) \/ PollSuccess(r, i)
      PROVE  CheckoutInv' /\ KeepsCaptured
  <2>1. Paid(i)
    BY <1>1 DEF WebhookSuccess, PollSuccess, Element
  <2>2. UNCHANGED <<booking, payment, paymob, history>> /\ Begin(r, "capture", "mark", i, {})
    BY <1>1 DEF WebhookSuccess, PollSuccess
  <2>3. Slots'
    BY <2>1, <2>2, SamePages, BeginKeeps, AttemptNumbers
  <2> QED
    BY <2>2, <2>3, SameMoney, SamePayments, SameHistory, SamePages DEF Forward
<1>2. CASE CaptureMark(r)
  <2> DEFINE h == [req[r] EXCEPT !.pc = "commit", !.seen = Row]
  <2>1. req[r] # Idle /\ req[r].i \in Attempts /\ Paid(req[r].i)
    BY <1>2, AtCapture DEF CaptureMark, At
  <2>2. h \in Handler /\ h.pc = "commit" /\ h.i = req[r].i
    <3>1. req[r] \in Handler
      BY <2>1, BusyIsHandler
    <3>2. Row \in [status : Status, total : 0..Price, points : 0..Price]
      BY RowType
    <3> QED
      BY <3>1, <3>2 DEF Handler
  <2>3. req' = [req EXCEPT ![r] = h]
    BY <1>2 DEF CaptureMark
  <2> HIDE DEF h
  <2>4. Slots'
    BY <1>2, <2>1, <2>2, <2>3, SamePages, MoveOn DEF CaptureMark
  <2> QED
    BY <1>2, <2>4, SameMoney, SamePayments, SameHistory, SamePages DEF CaptureMark, Forward
<1>3. CASE CaptureCommit(r)
  <2> DEFINE i == req[r].i
  <2>1. i \in Attempts /\ Paid(i) /\ req[r] # Idle
    BY <1>3, AtCapture DEF CaptureCommit, At
  <2>2. /\ pay' = [pay EXCEPT ![i] = "CAPTURED"]
        /\ link' = [link EXCEPT ![i] = FALSE]
        /\ UNCHANGED <<total, points, wallet, zeroPaid, amount, tries, page, age>>
    BY <1>3 DEF CaptureCommit, paymob
  <2>3. Payments'
    BY <2>1, <2>2 DEF Payments, Paid
  <2>4. Forward
    BY <2>1, <2>2 DEF Payments, Forward, KeepsCaptured, Paid
  <2>5. status' \in {"CONFIRMED", status}
    BY <1>3 DEF CaptureCommit
  <2>6. Money'
    BY <2>2, <2>5 DEF Money, Status
  <2>7. History'
    BY <1>3, <2>1 DEF CaptureCommit, History
  <2>8. Slots'
    BY <1>3, <2>1, <2>4, ContinueKeeps, FinishKeeps DEF CaptureCommit, AfterCapture
  <2> QED
    BY <2>3, <2>4, <2>6, <2>7, <2>8 DEF Forward
<1> QED
  BY <1>1, <1>2, <1>3 DEF CaptureStep

LEMMA SettleKeeps ==
  ASSUME CheckoutInv, NEW r \in Requests, SettleStep(r)
  PROVE  CheckoutInv' /\ KeepsCaptured
<1> USE DEF CheckoutInv
<1>1. CASE SettleRequest(r)
  <2>1. Linked \in SUBSET Attempts
    BY DEF Linked
  <2>2. Slots'
    BY <1>1, <2>1, SamePages, BeginKeeps, AttemptNumbers DEF SettleRequest
  <2> QED
    BY <1>1, <2>2, SameMoney, SamePayments, SameHistory, SamePages
    DEF SettleRequest, Forward
<1>2. CASE SettleRead(r)
  <2> DEFINE h == [req[r] EXCEPT !.op = "settle", !.pc = "sync", !.todo = Linked]
  <2>1. h \in Handler /\ h.pc = "sync"
    BY <1>2, BusyIsHandler DEF SettleRead, At, Handler, Linked
  <2>2. req' = [req EXCEPT ![r] = h] \/ Finish(r)
    BY <1>2 DEF SettleRead
  <2> HIDE DEF h
  <2>3. Slots'
    BY <1>2, <2>1, <2>2, SamePages, MoveOn, FinishKeeps DEF SettleRead
  <2> QED
    BY <1>2, <2>3, SameMoney, SamePayments, SameHistory, SamePages DEF SettleRead, Forward
<1>3. CASE SettleSync(r)
  <2>1. PICK i \in req[r].todo :
          \/ /\ Element(i) = "captured"
             /\ \/ req' = [req EXCEPT ![r].pc = "mark", ![r].i = i]
                \/ Finish(r)
             /\ UNCHANGED payment
          \/ /\ (FailGuard(i) /\ GiveUp({i})) \/ UNCHANGED payment
             /\ req' = [req EXCEPT ![r].todo = @ \ {i}]
          \/ Finish(r) /\ UNCHANGED payment
    BY <1>3 DEF SettleSync
  <2>2. req[r] \in Handler /\ req[r].pc = "sync" /\ i \in Attempts
    BY <1>3, BusyIsHandler DEF SettleSync, At, Handler
  <2>3. UNCHANGED <<booking, paymob, history>>
    BY <1>3 DEF SettleSync
  <2>4. Payments' /\ Forward
    <3>1. CASE UNCHANGED payment
      BY <2>3, <3>1, SamePayments, SamePages
    <3>2. CASE FailGuard(i) /\ GiveUp({i})
      BY <2>2, <2>3, <3>2, GiveUpKeeps DEF FailGuard
    <3> QED
      BY <2>1, <3>1, <3>2
  <2>5. Slots'
    <3>1. CASE Element(i) = "captured" /\ req' = [req EXCEPT ![r].pc = "mark", ![r].i = i]
      <4> DEFINE h == [req[r] EXCEPT !.pc = "mark", !.i = i]
      <4>1. h \in Handler /\ h.pc = "mark" /\ h.i = i
        BY <2>2, AttemptNumbers DEF Handler
      <4>2. Paid(i)
        BY <3>1 DEF Element
      <4>3. req' = [req EXCEPT ![r] = h]
        BY <3>1
      <4> HIDE DEF h
      <4> QED
        BY <2>2, <2>4, <4>1, <4>2, <4>3, MoveOn
    <3>2. CASE req' = [req EXCEPT ![r].todo = @ \ {i}]
      <4> DEFINE h == [req[r] EXCEPT !.todo = @ \ {i}]
      <4>1. h \in Handler /\ h.pc = "sync"
        BY <2>2 DEF Handler
      <4>2. req' = [req EXCEPT ![r] = h]
        BY <3>2
      <4> HIDE DEF h
      <4> QED
        BY <2>4, <4>1, <4>2, MoveOn
    <3>3. CASE Finish(r)
      BY <2>4, <3>3, FinishKeeps
    <3> QED
      BY <2>1, <3>1, <3>2, <3>3
  <2> QED
    BY <2>3, <2>4, <2>5, SameMoney, SameHistory DEF Forward
<1>4. CASE SettleZero(r)
  <2> DEFINE S == {i \in Attempts : pay[i] = "PENDING" /\ ~ link[i]}
  <2>1. UNCHANGED <<total, points, wallet, page, age, payers, told>> /\ Finish(r)
    BY <1>4 DEF SettleZero, paymob, history
  <2>2. CASE NothingOwed
    <3>1. status' = "CONFIRMED" /\ zeroPaid' = TRUE /\ total <= 0 /\ GiveUp(S)
      BY <1>4, <2>2 DEF SettleZero, NothingOwed
    <3>2. total = 0
      BY <3>1, CheckoutAssumption DEF Money
    <3>3. Payments' /\ Forward
      BY <2>1, <3>1, GiveUpKeeps DEF paymob
    <3>4. Money'
      BY <2>1, <3>1, <3>2 DEF Money, Status
    <3> QED
      BY <2>1, <3>3, <3>4, FinishKeeps, SameHistory DEF history, Forward
  <2>3. CASE ~ NothingOwed
    <3>1. UNCHANGED <<booking, payment, paymob>>
      BY <1>4, <2>1, <2>3 DEF SettleZero, booking, paymob
    <3> QED
      BY <2>1, <3>1, SameMoney, SamePayments, SameHistory, SamePages, FinishKeeps
      DEF history, Forward
  <2> QED
    BY <2>2, <2>3
<1> QED
  BY <1>1, <1>2, <1>3, <1>4 DEF SettleStep

LEMMA PointsKeep ==
  ASSUME CheckoutInv, NEW r \in Requests, PointsStep(r)
  PROVE  CheckoutInv' /\ KeepsCaptured
<1> USE DEF CheckoutInv
<1>1. CASE RedeemRead(r)
  <2>1. Slots'
    BY <1>1, SamePages, BeginKeeps, AttemptNumbers DEF RedeemRead
  <2> QED
    BY <1>1, <2>1, SameMoney, SamePayments, SameHistory, SamePages DEF RedeemRead, Forward
<1>2. CASE RedeemWrite(r)
  <2>1. /\ UNCHANGED <<status, zeroPaid, payment, paymob, history>>
        /\ req[r] # Idle
    BY <1>2 DEF RedeemWrite, At
  <2>2. PICK hours \in 1..req[r].seen.total :
          \/ /\ hours <= wallet /\ RedeemGuard(req[r])
             /\ wallet' = wallet - hours
             /\ points' = hours
             /\ total'  = total - hours
             /\ Continue(r, "read")
          \/ Finish(r) /\ UNCHANGED <<wallet, points, total>>
    BY <1>2 DEF RedeemWrite
  <2>3. Money'
    \* A discount needs a total of at least the hours, so nothing is zeroPaid.
    <3>1. CASE UNCHANGED <<wallet, points, total>>
      BY <2>1, <3>1, SameMoney DEF booking
    <3>2. CASE /\ hours <= wallet /\ RedeemGuard(req[r])
               /\ wallet' = wallet - hours
               /\ points' = hours
               /\ total'  = total - hours
      <4>1. hours \in 1..total /\ points = 0
        BY <3>2 DEF RedeemGuard
      <4>2. hours \in Nat /\ 1 <= hours /\ hours <= total /\ total = Price
        BY <4>1, CheckoutAssumption DEF Money
      <4> QED
        BY <2>1, <3>2, <4>1, <4>2, CheckoutAssumption DEF Money
    <3> QED
      BY <2>2, <3>1, <3>2
  <2>4. Slots'
    BY <2>1, <2>2, SamePages, ContinueKeeps, FinishKeeps
  <2> QED
    BY <2>1, <2>3, <2>4, SamePayments, SameHistory, SamePages DEF Forward
<1>3. CASE RemoveRead(r)
  <2>1. Slots'
    BY <1>3, SamePages, BeginKeeps, AttemptNumbers DEF RemoveRead
  <2> QED
    BY <1>3, <2>1, SameMoney, SamePayments, SameHistory, SamePages DEF RemoveRead, Forward
<1>4. CASE ReturnPoints(r)
  <2>1. /\ UNCHANGED <<status, zeroPaid, payment, paymob, history>>
        /\ req[r] # Idle
        /\ Finish(r) \/ Continue(r, "write")
    BY <1>4 DEF ReturnPoints, At
  <2>2. Money'
    <3>1. CASE ReturnGuard(req[r])
      <4>1. /\ status \in UnpaidStatuses
            /\ wallet' = wallet + points
            /\ total'  = total + points
            /\ points' = 0
        BY <1>4, <3>1 DEF ReturnPoints, ReturnGuard
      <4> QED
        BY <2>1, <4>1, CheckoutAssumption DEF Money, UnpaidStatuses
    <3>2. CASE ~ ReturnGuard(req[r])
      BY <1>4, <2>1, <3>2, SameMoney DEF ReturnPoints, booking
    <3> QED
      BY <3>1, <3>2
  <2>3. Slots'
    BY <2>1, SamePages, ContinueKeeps, FinishKeeps
  <2> QED
    BY <2>1, <2>2, <2>3, SamePayments, SameHistory, SamePages DEF Forward
<1> QED
  BY <1>1, <1>2, <1>3, <1>4 DEF PointsStep

\* The end of a booking leaves its figures alone, and adds to the wallet at most.
LEMMA EndKeepsMoney ==
  ASSUME Money, status' \in {"CONFIRMED", "CANCELLED", status},
         UNCHANGED <<total, points, zeroPaid>>,
         NEW k \in Nat, wallet' = wallet + k
  PROVE  Money'
<1>1. status' \in Status /\ (zeroPaid' => total' = 0 /\ status' \in {"CONFIRMED", "CANCELLED"})
  BY DEF Money, Status
<1>2. wallet' \in Nat /\ wallet' + points' >= Purse
  BY CheckoutAssumption DEF Money
<1> QED
  BY <1>1, <1>2 DEF Money

LEMMA CancelKeeps ==
  ASSUME CheckoutInv, NEW r \in Requests, CancelStep(r)
  PROVE  CheckoutInv' /\ KeepsCaptured
<1> USE DEF CheckoutInv
<1>1. CASE CancelRead(r) \/ RejectStart(r) \/ OverrideRead(r)
  <2>1. UNCHANGED <<booking, payment, paymob, history>>
    BY <1>1 DEF CancelRead, RejectStart, OverrideRead
  <2>2. PICK op \in {"cancel", "reject", "override"}, pc \in {"check", "write"} :
          Begin(r, op, pc, 0, {})
    BY <1>1 DEF CancelRead, RejectStart, OverrideRead
  <2>3. Slots'
    BY <2>1, <2>2, SamePages, BeginKeeps, AttemptNumbers
  <2> QED
    BY <2>1, <2>3, SameMoney, SamePayments, SameHistory, SamePages DEF Forward
<1>2. CASE CheckNone(r)
  BY <1>2, SameMoney, SamePayments, SameHistory, SamePages, ContinueKeeps
  DEF CheckNone, At, Forward
<1>3. CASE CheckOpen(r)
  <2>1. PICK i \in Attempts :
          \/ Finish(r) /\ UNCHANGED payment
          \/ /\ Element(i) = "captured"
             /\ req' = [req EXCEPT ![r].pc = "mark", ![r].i = i]
             /\ UNCHANGED payment
          \/ FailGuard(i) /\ GiveUp({i}) /\ Continue(r, "reread")
    BY <1>3 DEF CheckOpen
  <2>2. UNCHANGED <<booking, paymob, history>> /\ req[r] # Idle
    BY <1>3 DEF CheckOpen, At
  <2>3. CASE Finish(r) /\ UNCHANGED payment
    BY <2>2, <2>3, SameMoney, SamePayments, SameHistory, SamePages, FinishKeeps DEF Forward
  <2>4. CASE /\ Element(i) = "captured"
             /\ req' = [req EXCEPT ![r].pc = "mark", ![r].i = i]
             /\ UNCHANGED payment
    <3> DEFINE h == [req[r] EXCEPT !.pc = "mark", !.i = i]
    <3>1. h \in Handler /\ h.pc = "mark" /\ h.i = i
      BY <2>2, BusyIsHandler, AttemptNumbers DEF Handler
    <3>2. Paid(i)
      BY <2>4 DEF Element
    <3>3. req' = [req EXCEPT ![r] = h]
      BY <2>4
    <3> HIDE DEF h
    <3>4. Slots'
      BY <2>2, <2>4, <3>1, <3>2, <3>3, SamePages, MoveOn
    <3> QED
      BY <2>2, <2>4, <3>4, SameMoney, SamePayments, SameHistory, SamePages DEF Forward
  <2>5. CASE FailGuard(i) /\ GiveUp({i}) /\ Continue(r, "reread")
    <3>1. Payments' /\ Forward
      BY <2>2, <2>5, GiveUpKeeps DEF FailGuard
    <3> QED
      BY <2>2, <2>5, <3>1, SameMoney, SameHistory, ContinueKeeps DEF Forward
  <2> QED
    BY <2>1, <2>3, <2>4, <2>5
<1>4. CASE CancelReread(r)
  <2> DEFINE pc == IF ReturnsCredits(status) /\ points > 0 THEN "credits" ELSE "write"
             h  == [req[r] EXCEPT !.pc = pc, !.seen = Row]
  <2>1. UNCHANGED <<booking, payment, paymob, history>> /\ req[r] # Idle
    BY <1>4 DEF CancelReread, At
  <2>2. h \in Handler /\ h.pc \in {"credits", "write"}
    <3>1. req[r] \in Handler
      BY <2>1, BusyIsHandler
    <3>2. Row \in [status : Status, total : 0..Price, points : 0..Price]
      BY RowType
    <3> QED
      BY <3>1, <3>2 DEF Handler
  <2>3. req' = [req EXCEPT ![r] = h] \/ Finish(r)
    BY <1>4 DEF CancelReread
  <2> HIDE DEF h
  <2>4. Slots'
    BY <2>1, <2>2, <2>3, SamePages, MoveOn, FinishKeeps
  <2> QED
    BY <2>1, <2>4, SameMoney, SamePayments, SameHistory, SamePages DEF Forward
<1>5. CASE CancelWrite(r) \/ RejectWrite(r) \/ OverrideWrite(r)
  <2>1. /\ UNCHANGED <<total, points, zeroPaid, payment, paymob, history>>
        /\ status' \in {"CONFIRMED", "CANCELLED", status}
        /\ Finish(r)
        /\ req[r] # Idle
    BY <1>5 DEF CancelWrite, RejectWrite, OverrideWrite, At
  <2>2. wallet' = wallet \/ (wallet' = wallet + 0) \/ (wallet' = wallet + req[r].seen.points)
    BY <1>5 DEF CancelWrite, RejectWrite, OverrideWrite
  <2>3. req[r].seen.points \in Nat
    BY <2>1, BusyIsHandler, CheckoutAssumption DEF Handler
  <2>4. Money'
    <3>1. PICK k \in Nat : wallet' = wallet + k
      BY <2>2, <2>3 DEF Money
    <3> QED
      BY <2>1, <3>1, EndKeepsMoney
  <2>5. Slots'
    BY <2>1, SamePages, FinishKeeps
  <2> QED
    BY <2>1, <2>4, <2>5, SamePayments, SameHistory, SamePages DEF Forward
<1> QED
  BY <1>1, <1>2, <1>3, <1>4, <1>5 DEF CancelStep

\* Paymob, the customer, and the reconciler.
LEMMA BackgroundKeeps ==
  ASSUME CheckoutInv, NEW i \in Attempts, Background(i)
  PROVE  CheckoutInv' /\ KeepsCaptured
<1> USE DEF CheckoutInv
<1>1. CASE MotherPays(i) \/ CardDeclined(i)
  <2>1. /\ UNCHANGED <<booking, payment, age, req, history>>
        /\ page[i] \in {"open", "declined"}
    BY <1>1 DEF MotherPays, CardDeclined, Payable
  <2>2. \/ page' = [page EXCEPT ![i] = IF page[i] = "open" THEN "paid" ELSE "repaid"]
        \/ page' = [page EXCEPT ![i] = "declined"]
    BY <1>1 DEF MotherPays, CardDeclined
  <2>3. Payments'
    BY <2>1, <2>2 DEF Payments, payment, Paid
  <2>4. Forward
    BY <2>1, <2>2 DEF Payments, Forward, KeepsCaptured, payment, Paid
  <2> QED
    BY <2>1, <2>3, <2>4, SameMoney, SameHistory, SameSlots DEF Forward
<1>2. CASE TimePasses(i)
  <2>1. UNCHANGED <<booking, payment, page, req, history>>
    BY <1>2 DEF TimePasses
  <2>2. Payments'
    BY <1>2, <2>1 DEF TimePasses, Payments, payment, Paid
  <2>3. Forward
    BY <2>1 DEF Forward, KeepsCaptured, payment, Paid
  <2> QED
    BY <2>1, <2>2, <2>3, SameMoney, SameHistory, SameSlots DEF Forward
<1>3. CASE UNCHANGED <<booking, paymob, req, history>> /\ FailGuard(i) /\ GiveUp({i})
  <2>1. Payments' /\ Forward
    BY <1>3, GiveUpKeeps DEF FailGuard
  <2> QED
    BY <1>3, <2>1, SameMoney, SameHistory, SameSlots DEF Forward
<1>4. CASE ReconcileOpen(i) /\ ~ LastTry(i)
  <2>1. /\ tries' = [tries EXCEPT ![i] = tries[i] + 1]
        /\ UNCHANGED <<pay, amount, link, booking, paymob, req, history>>
    BY <1>4 DEF ReconcileOpen, NextTries
  <2>2. tries[i] + 1 \in 0..(MaxTries - 1)
    <3>1. tries[i] \in 0..(MaxTries - 1)
      BY DEF Payments
    <3> QED
      BY <1>4, <3>1, CheckoutAssumption DEF LastTry
  <2>3. Payments'
    BY <2>1, <2>2 DEF Payments, paymob, Paid
  <2>4. Forward
    BY <2>1 DEF Forward, KeepsCaptured, paymob, Paid
  <2> QED
    BY <2>1, <2>3, <2>4, SameMoney, SameHistory, SameSlots DEF Forward
<1> QED
  BY <1>1, <1>2, <1>3, <1>4 DEF Background, AttemptFails, ReconcileOpen

-----------------------------------------------------------------------------

LEMMA InitCheckoutInv ==
  ASSUME Init PROVE CheckoutInv
<1> USE CheckoutAssumption DEF Init
<1>1. Money
  <2>1. status \in Status /\ zeroPaid = FALSE
    BY DEF Status
  <2>2. /\ total = Price /\ points = 0 /\ wallet = Purse
        /\ Price \in Nat /\ Purse \in Nat
    OBVIOUS
  <2>3. total \in 0..Price /\ points \in 0..Price /\ total + points = Price
    BY <2>2
  <2>4. wallet \in Nat /\ wallet + points >= Purse
    BY <2>2
  <2> QED
    BY <2>1, <2>3, <2>4 DEF Money
<1>2. Payments
  <2>1. 0 \in 0..(MaxTries - 1) /\ 0 \in 0..Price
    OBVIOUS
  <2> QED
    BY <2>1 DEF Payments, Paid
<1>3. Slots
  BY DEF Slots, At
<1>4. History
  BY DEF History
<1> QED
  BY <1>1, <1>2, <1>3, <1>4 DEF CheckoutInv

LEMMA NextKeeps ==
  ASSUME CheckoutInv, [Next]_vars
  PROVE  CheckoutInv' /\ KeepsCaptured
<1>1. CASE UNCHANGED vars
  <2>1. UNCHANGED <<booking, payment, paymob, req, history>>
    BY <1>1 DEF vars
  <2> QED
    BY <2>1, SameMoney, SamePayments, SameSlots, SameHistory, SamePages
    DEF CheckoutInv, Forward
<1>2. ASSUME NEW r \in Requests, PayStep(r) PROVE CheckoutInv' /\ KeepsCaptured
  BY <1>2, PayKeeps
<1>3. ASSUME NEW r \in Requests, CaptureStep(r) PROVE CheckoutInv' /\ KeepsCaptured
  BY <1>3, CaptureKeeps
<1>4. ASSUME NEW r \in Requests, SettleStep(r) PROVE CheckoutInv' /\ KeepsCaptured
  BY <1>4, SettleKeeps
<1>5. ASSUME NEW r \in Requests, PointsStep(r) PROVE CheckoutInv' /\ KeepsCaptured
  BY <1>5, PointsKeep
<1>6. ASSUME NEW r \in Requests, CancelStep(r) PROVE CheckoutInv' /\ KeepsCaptured
  BY <1>6, CancelKeeps
<1>7. ASSUME NEW i \in Attempts, Background(i) PROVE CheckoutInv' /\ KeepsCaptured
  BY <1>7, BackgroundKeeps
<1> QED
  BY <1>1, <1>2, <1>3, <1>4, <1>5, <1>6, <1>7 DEF Next

LEMMA CheckoutInvariant == Spec => []CheckoutInv
<1>1. CheckoutInv /\ [Next]_vars => CheckoutInv'
  BY NextKeeps
<1> QED
  BY InitCheckoutInv, <1>1, PTL DEF Spec

-----------------------------------------------------------------------------
(* Handlers that do not overlap. *)

\* Points are on the booking or in the wallet until it is called off.
SoloMoney ==
  /\ status \in {"APPROVED", "CONFIRMED", "CANCELLED"}
  /\ wallet <= Purse
  /\ status # "CANCELLED" => wallet + points = Purse

\* One payment confirmed the booking, or none did.
SoloHistory ==
  /\ \A i \in payers \cup told : pay[i] = "CAPTURED"
  /\ payers # {} => status # "APPROVED" /\ ~ zeroPaid
  /\ \A i, j \in payers : i = j
  /\ payers \cap told = {}

\* What a handler acts on is so: a capture is of a payment that is not captured, a
\* cancel of a booking as it was read, with no points on it unless it is paid.
Sees(h) ==
  /\ h.pc \in {"mark", "commit"} => pay[h.i] \in Capturable
  /\ h.pc = "commit" => h.seen.status = status
  /\ h.pc \in {"check", "reread"} => h.op \in {"cancel", "reject"}
  /\ (h.pc = "credits" /\ h.op # "remove") =>
       /\ h.op \in {"cancel", "reject"}
       /\ status = "APPROVED"
       /\ h.seen.status = status /\ h.seen.points = points
  /\ (h.pc = "write" /\ h.op \in {"cancel", "reject"}) =>
       /\ h.seen.status = status
       /\ \/ status = "APPROVED" /\ points = 0
          \/ status = "CONFIRMED" /\ h.seen.points = points
  /\ (h.pc = "write" /\ h.op = "override") => status = "APPROVED"

SlotsSee == \A r \in Requests : req[r] # Idle => Sees(req[r])

\* The inductive invariant of one handler at a time.
SoloInv == CheckoutInv /\ SoloMoney /\ SoloHistory /\ SlotsSee

LEMMA SoloFigures ==
  ASSUME SoloInv, KeepsCaptured, UNCHANGED <<booking, history>>
  PROVE  SoloMoney' /\ SoloHistory'
<1>1. UNCHANGED <<status, points, wallet, zeroPaid, payers, told>>
  BY DEF booking, history
<1>2. payers \cup told \subseteq Attempts
  BY DEF SoloInv, CheckoutInv, History
<1> QED
  BY <1>1, <1>2 DEF SoloInv, SoloMoney, SoloHistory, KeepsCaptured

LEMMA SoloGoes ==
  ASSUME NEW r \in Requests, Requests = {r}, SoloInv, NEW h, req' = [req EXCEPT ![r] = h],
         Sees(h)'
  PROVE  SlotsSee'
<1>1. req'[r] = h
  BY DEF SoloInv, CheckoutInv, Slots
<1>2. PICK g : g = req'[r]
  OBVIOUS
<1>3. Sees(g)'
  BY <1>1, <1>2
<1> QED
  BY <1>2, <1>3 DEF SlotsSee, Sees

LEMMA SoloEnds ==
  ASSUME NEW r \in Requests, Requests = {r}, SoloInv, Finish(r)
  PROVE  SlotsSee'
<1>1. req'[r] = Idle
  BY DEF Finish, SoloInv, CheckoutInv, Slots
<1> QED
  BY <1>1 DEF SlotsSee

\* Steps whose handler relies on nothing.
Plain == {"supersede", "create", "store", "read", "sync"}

LEMMA PlainSees ==
  ASSUME NEW h, h.pc \in Plain
  PROVE  Sees(h)'
BY DEF Sees, Plain

LEMMA SoloPay ==
  ASSUME NEW r \in Requests, Requests = {r}, SoloInv, KeepsCaptured, PayStep(r)
  PROVE  SoloMoney' /\ SoloHistory' /\ SlotsSee'
<1>1. UNCHANGED <<booking, history>>
  BY DEF PayStep, PayRead, PaySupersede, PayCreate, PayStore, PayRefused
<1>2. Finish(r) \/ \E h : h.pc \in Plain /\ req' = [req EXCEPT ![r] = h]
  <2>1. CASE PayRead(r)
    <3>1. PICK h : h = [op |-> "pay", pc |-> "supersede", i |-> 0, todo |-> {}, seen |-> Row]
      OBVIOUS
    <3>2. h.pc \in Plain
      BY <3>1 DEF Plain
    <3>3. req' = [req EXCEPT ![r] = h]
      BY <2>1, <3>1 DEF PayRead, Begin
    <3> QED
      BY <3>2, <3>3
  <2>2. CASE PaySupersede(r)
    <3>1. req[r] \in Handler
      BY <2>2, BusyIsHandler DEF PaySupersede, At, SoloInv, CheckoutInv
    <3>2. PICK h : h = [req[r] EXCEPT !.pc = "create"]
      OBVIOUS
    <3>3. h.pc \in Plain
      BY <3>1, <3>2 DEF Handler, Plain
    <3>4. req' = [req EXCEPT ![r] = h]
      BY <2>2, <3>2 DEF PaySupersede, Continue
    <3> QED
      BY <3>3, <3>4
  <2>3. CASE PayCreate(r)
    <3>1. req[r] \in Handler
      BY <2>3, BusyIsHandler DEF PayCreate, At, SoloInv, CheckoutInv
    <3>2. ASSUME NEW i, req' = [req EXCEPT ![r].pc = "store", ![r].i = i]
          PROVE  \E h : h.pc \in Plain /\ req' = [req EXCEPT ![r] = h]
      <4>1. PICK h : h = [req[r] EXCEPT !.pc = "store", !.i = i]
        OBVIOUS
      <4>2. h.pc \in Plain
        BY <3>1, <4>1 DEF Handler, Plain
      <4>3. req' = [req EXCEPT ![r] = h]
        BY <3>2, <4>1 DEF SoloInv, CheckoutInv, Slots
      <4> QED
        BY <4>2, <4>3
    <3> QED
      BY <2>3, <3>2 DEF PayCreate
  <2> QED
    BY <2>1, <2>2, <2>3 DEF PayStep, PayStore, PayRefused
<1> QED
  BY <1>1, <1>2, SoloFigures, SoloGoes, SoloEnds, PlainSees

LEMMA SoloCapture ==
  ASSUME NEW r \in Requests, Requests = {r}, SoloInv, KeepsCaptured, CaptureStep(r)
  PROVE  SoloMoney' /\ SoloHistory' /\ SlotsSee'
<1>1. ASSUME NEW i \in Attempts, WebhookSuccess(r, i) \/ PollSuccess(r, i)
      PROVE  SoloMoney' /\ SoloHistory' /\ SlotsSee'
  <2>1. UNCHANGED <<booking, payment, history>> /\ pay[i] \in Capturable
        /\ Begin(r, "capture", "mark", i, {})
    BY <1>1 DEF WebhookSuccess, PollSuccess
  <2>2. PICK h : h = [op |-> "capture", pc |-> "mark", i |-> i, todo |-> {}, seen |-> Row]
    OBVIOUS
  <2>3. Sees(h)' /\ req' = [req EXCEPT ![r] = h]
    BY <2>1, <2>2 DEF Sees, Begin, payment
  <2> QED
    BY <2>1, <2>3, SoloFigures, SoloGoes
<1>2. CASE CaptureMark(r)
  <2>1. UNCHANGED <<booking, payment, history>> /\ req[r] \in Handler /\ req[r].pc = "mark"
    BY <1>2, BusyIsHandler DEF CaptureMark, At, SoloInv, CheckoutInv
  <2>2. pay[req[r].i] \in Capturable
    BY <2>1 DEF SoloInv, SlotsSee, Sees, Handler, Idle
  <2>3. PICK h : h = [req[r] EXCEPT !.pc = "commit", !.seen = Row]
    OBVIOUS
  <2>4. h.pc = "commit" /\ h.i = req[r].i /\ h.seen = Row
    BY <2>1, <2>3 DEF Handler
  <2>5. req' = [req EXCEPT ![r] = h]
    BY <1>2, <2>3 DEF CaptureMark, SoloInv, CheckoutInv, Slots
  <2>6. h.seen.status = status' /\ pay'[h.i] \in Capturable
    BY <2>1, <2>2, <2>4 DEF Row, booking, payment
  <2>7. Sees(h)'
    BY <2>4, <2>6 DEF Sees, Capturable
  <2> QED
    BY <2>1, <2>5, <2>7, SoloFigures, SoloGoes
<1>3. CASE CaptureCommit(r)
  <2>1. PICK i : i = req[r].i
    OBVIOUS
  <2>2. /\ req[r] \in Handler /\ req[r].pc = "commit" /\ i \in Attempts
        /\ pay[i] \in Capturable /\ req[r].seen.status = status
    <3>1. req[r] # Idle /\ req[r].pc = "commit" /\ req[r] \in Handler /\ i \in Attempts
      BY <1>3, <2>1, BusyIsHandler, AtCapture DEF CaptureCommit, At, SoloInv, CheckoutInv
    <3> QED
      BY <2>1, <3>1 DEF SoloInv, SlotsSee, Sees
  <2>3. /\ pay' = [pay EXCEPT ![i] = "CAPTURED"]
        /\ UNCHANGED <<points, wallet, zeroPaid>>
        /\ \/ /\ status = "APPROVED" /\ status' = "CONFIRMED"
              /\ payers' = payers \cup {i} /\ told' = told
           \/ /\ status # "APPROVED" /\ status' = status
              /\ payers' = payers /\ told' = told \cup {i}
    BY <1>3, <2>1, <2>2
    DEF CaptureCommit, Confirmable, CanTransition, NextStatuses, SoloInv, SoloMoney
  <2>4. SoloMoney'
    BY <2>3 DEF SoloInv, SoloMoney
  <2>5. i \notin payers \cup told /\ pay'[i] = "CAPTURED"
    BY <2>2, <2>3 DEF SoloInv, SoloHistory, Capturable, CheckoutInv, Payments
  <2>6. \A j \in payers' \cup told' : pay'[j] = "CAPTURED"
    BY <2>2, <2>3, <2>5 DEF SoloInv, SoloHistory, KeepsCaptured, CheckoutInv, History
  <2>7. status = "APPROVED" => payers = {} /\ ~ zeroPaid
    BY DEF SoloInv, SoloHistory, CheckoutInv, Money
  <2>8. SoloHistory'
    BY <2>3, <2>5, <2>6, <2>7 DEF SoloInv, SoloHistory
  <2>9. SlotsSee'
    <3>1. CASE Finish(r)
      BY <3>1, SoloEnds
    <3>2. CASE req[r].op \in {"cancel", "reject"} /\ Continue(r, "reread")
      <4>1. PICK h : h = [req[r] EXCEPT !.pc = "reread"]
        OBVIOUS
      <4>2. h.pc = "reread" /\ h.op = req[r].op
        BY <2>2, <4>1 DEF Handler
      <4>3. Sees(h)' /\ req' = [req EXCEPT ![r] = h]
        BY <3>2, <4>1, <4>2 DEF Sees, Continue
      <4> QED
        BY <4>3, SoloGoes
    <3> QED
      BY <1>3, <3>1, <3>2 DEF CaptureCommit, AfterCapture
  <2> QED
    BY <2>4, <2>8, <2>9
<1> QED
  BY <1>1, <1>2, <1>3 DEF CaptureStep

LEMMA SoloSettle ==
  ASSUME NEW r \in Requests, Requests = {r}, SoloInv, KeepsCaptured, SettleStep(r)
  PROVE  SoloMoney' /\ SoloHistory' /\ SlotsSee'
<1>1. CASE SettleRequest(r)
  <2>1. UNCHANGED <<booking, history>> /\ Begin(r, "settle", "sync", 0, Linked)
    BY <1>1 DEF SettleRequest
  <2>2. PICK h : h = [op |-> "settle", pc |-> "sync", i |-> 0, todo |-> Linked, seen |-> Row]
    OBVIOUS
  <2>3. h.pc \in Plain
    BY <2>2 DEF Plain
  <2>4. req' = [req EXCEPT ![r] = h]
    BY <2>1, <2>2 DEF Begin
  <2> QED
    BY <2>1, <2>3, <2>4, SoloFigures, SoloGoes, PlainSees
<1>2. CASE SettleRead(r)
  <2>1. UNCHANGED <<booking, history>> /\ req[r] \in Handler
    BY <1>2, BusyIsHandler DEF SettleRead, At, SoloInv, CheckoutInv
  <2>2. PICK h : h = [req[r] EXCEPT !.op = "settle", !.pc = "sync", !.todo = Linked]
    OBVIOUS
  <2>3. h.pc \in Plain /\ (Finish(r) \/ req' = [req EXCEPT ![r] = h])
    BY <1>2, <2>1, <2>2 DEF SettleRead, Handler, Plain
  <2> QED
    BY <2>1, <2>3, SoloFigures, SoloGoes, SoloEnds, PlainSees
<1>3. CASE SettleSync(r)
  <2>1. /\ UNCHANGED <<booking, history>> /\ req[r] \in Handler /\ req[r].pc = "sync"
    BY <1>3, BusyIsHandler DEF SettleSync, At, SoloInv, CheckoutInv
  <2>2. PICK i \in req[r].todo :
          \/ pay[i] \in Capturable /\ req' = [req EXCEPT ![r].pc = "mark", ![r].i = i]
             /\ UNCHANGED payment
          \/ req' = [req EXCEPT ![r].todo = @ \ {i}]
          \/ Finish(r)
    BY <1>3 DEF SettleSync
  <2>3. CASE pay[i] \in Capturable /\ req' = [req EXCEPT ![r].pc = "mark", ![r].i = i]
             /\ UNCHANGED payment
    <3>1. PICK h : h = [req[r] EXCEPT !.pc = "mark", !.i = i]
      OBVIOUS
    <3>2. h.pc = "mark" /\ h.i = i
      BY <2>1, <3>1 DEF Handler
    <3>3. Sees(h)' /\ req' = [req EXCEPT ![r] = h]
      BY <2>3, <3>1, <3>2 DEF Sees, payment
    <3> QED
      BY <2>1, <3>3, SoloFigures, SoloGoes
  <2>4. CASE req' = [req EXCEPT ![r].todo = @ \ {i}]
    <3>1. PICK h : h = [req[r] EXCEPT !.todo = req[r].todo \ {i}]
      OBVIOUS
    <3>2. h.pc \in Plain /\ req' = [req EXCEPT ![r] = h]
      BY <2>1, <2>4, <3>1 DEF Handler, Plain
    <3> QED
      BY <2>1, <3>2, SoloFigures, SoloGoes, PlainSees
  <2>5. CASE Finish(r)
    BY <2>1, <2>5, SoloFigures, SoloEnds
  <2> QED
    BY <2>2, <2>3, <2>4, <2>5
<1>4. CASE SettleZero(r)
  <2>1. Finish(r) /\ UNCHANGED <<points, wallet, payers, told>>
    BY <1>4 DEF SettleZero, history
  <2>2. \/ UNCHANGED <<status, zeroPaid>>
        \/ status = "APPROVED" /\ status' = "CONFIRMED"
    BY <1>4 DEF SettleZero, NothingOwed, Confirmable, CanTransition, NextStatuses, SoloInv,
                SoloMoney
  <2>3. SoloMoney'
    BY <2>1, <2>2 DEF SoloInv, SoloMoney
  <2>4. \A i \in payers \cup told : pay'[i] = "CAPTURED"
    BY DEF SoloInv, SoloHistory, KeepsCaptured, CheckoutInv, History
  <2>5. SoloHistory'
    BY <2>1, <2>2, <2>4 DEF SoloInv, SoloHistory
  <2> QED
    BY <2>1, <2>3, <2>5, SoloEnds
<1> QED
  BY <1>1, <1>2, <1>3, <1>4 DEF SettleStep

LEMMA SoloPoints ==
  ASSUME NEW r \in Requests, Requests = {r}, SoloInv, KeepsCaptured, PointsStep(r)
  PROVE  SoloMoney' /\ SoloHistory' /\ SlotsSee'
<1>1. CASE RedeemRead(r) \/ RemoveRead(r)
  <2>1. PICK h : h = [op |-> IF RedeemRead(r) THEN "redeem" ELSE "remove",
                      pc |-> IF RedeemRead(r) THEN "write" ELSE "credits",
                      i |-> 0, todo |-> {}, seen |-> Row]
    OBVIOUS
  <2>2. Sees(h)'
    BY <2>1 DEF Sees
  <2>3. UNCHANGED <<booking, history>> /\ req' = [req EXCEPT ![r] = h]
    BY <1>1, <2>1 DEF RedeemRead, RemoveRead, Begin
  <2> QED
    BY <2>2, <2>3, SoloFigures, SoloGoes
<1>2. SoloHistory'
  <2>1. UNCHANGED <<status, zeroPaid, payers, told, pay>>
    BY DEF PointsStep, RedeemRead, RedeemWrite, RemoveRead, ReturnPoints, booking, payment,
           history
  <2> QED
    BY <2>1 DEF SoloInv, SoloHistory
<1>3. CASE RedeemWrite(r)
  <2>1. UNCHANGED status /\ req[r] \in Handler /\ req[r].seen.total \in Nat
    BY <1>3, BusyIsHandler, CheckoutAssumption
    DEF RedeemWrite, At, SoloInv, CheckoutInv, Handler
  <2>2. PICK n \in 1..req[r].seen.total :
          \/ /\ points = 0 /\ wallet' = wallet - n /\ points' = n
             /\ Continue(r, "read")
          \/ Finish(r) /\ UNCHANGED <<wallet, points>>
    BY <1>3 DEF RedeemWrite, RedeemGuard
  <2>3. wallet \in Nat /\ points \in Nat /\ n \in Nat
    BY <2>1, CheckoutAssumption DEF SoloInv, CheckoutInv, Money
  <2>4. SoloMoney'
    BY <2>1, <2>2, <2>3, CheckoutAssumption DEF SoloInv, SoloMoney
  <2>5. PICK h : h = [req[r] EXCEPT !.pc = "read"]
    OBVIOUS
  <2>6. h.pc \in Plain /\ (Finish(r) \/ req' = [req EXCEPT ![r] = h])
    BY <2>1, <2>2, <2>5 DEF Handler, Plain, Continue
  <2> QED
    BY <1>2, <2>4, <2>6, SoloGoes, SoloEnds, PlainSees
<1>4. CASE ReturnPoints(r)
  <2>1. UNCHANGED status /\ req[r] \in Handler /\ req[r].pc = "credits" /\ Sees(req[r])
    BY <1>4, BusyIsHandler DEF ReturnPoints, At, SoloInv, CheckoutInv, SlotsSee
  <2>2. \/ status \in UnpaidStatuses /\ wallet' = wallet + points /\ points' = 0
        \/ ~ ReturnGuard(req[r]) /\ UNCHANGED <<wallet, points>>
    BY <1>4 DEF ReturnPoints, ReturnGuard
  <2>3. wallet \in Nat /\ points \in Nat
    BY CheckoutAssumption DEF SoloInv, CheckoutInv, Money
  <2>4. SoloMoney'
    BY <2>1, <2>2, <2>3, CheckoutAssumption DEF SoloInv, SoloMoney, UnpaidStatuses
  <2>5. CASE Finish(r)
    BY <1>2, <2>4, <2>5, SoloEnds
  <2>6. CASE req[r].op # "remove" /\ Continue(r, "write")
    <3>1. PICK h : h = [req[r] EXCEPT !.pc = "write"]
      OBVIOUS
    <3>2. h.pc = "write" /\ h.op = req[r].op /\ h.seen = req[r].seen
      BY <2>1, <3>1 DEF Handler
    <3>3. /\ req[r].op \in {"cancel", "reject"} /\ status = "APPROVED"
          /\ req[r].seen.status = status /\ req[r].seen.points = points
      BY <2>1, <2>6 DEF Sees
    <3>4. points' = 0
      BY <2>2, <3>3 DEF ReturnGuard, UnpaidStatuses
    <3>5. Sees(h)' /\ req' = [req EXCEPT ![r] = h]
      BY <2>1, <2>6, <3>1, <3>2, <3>3, <3>4 DEF Sees, Continue
    <3> QED
      BY <1>2, <2>4, <3>5, SoloGoes
  <2> QED
    BY <1>4, <2>5, <2>6 DEF ReturnPoints
<1> QED
  BY <1>1, <1>3, <1>4 DEF PointsStep

\* A booking that is called off unpaid has no points on it.
NothingKept == (status \in UnpaidStatuses /\ status' = "CANCELLED") => points' = 0

LEMMA SoloCancel ==
  ASSUME NEW r \in Requests, Requests = {r}, SoloInv, KeepsCaptured, CancelStep(r)
  PROVE  SoloMoney' /\ SoloHistory' /\ SlotsSee' /\ NothingKept
<1>0. ASSUME UNCHANGED booking PROVE NothingKept
  BY <1>0 DEF NothingKept, booking, UnpaidStatuses
<1>1. CASE CancelRead(r) \/ RejectStart(r) \/ OverrideRead(r)
  <2>1. UNCHANGED <<booking, history>>
    BY <1>1 DEF CancelRead, RejectStart, OverrideRead
  <2>2. PICK op, pc : /\ Begin(r, op, pc, 0, {})
                      /\ \/ op \in {"cancel", "reject"} /\ pc = "check"
                         \/ op = "cancel" /\ pc = "write" /\ status = "CONFIRMED"
                         \/ op = "override" /\ pc = "write" /\ status = "APPROVED"
    BY <1>1 DEF CancelRead, RejectStart, OverrideRead, SoloInv, SoloMoney, CanTransition,
                NextStatuses
  <2>3. PICK h : h = [op |-> op, pc |-> pc, i |-> 0, todo |-> {}, seen |-> Row]
    OBVIOUS
  <2>4. Sees(h)' /\ req' = [req EXCEPT ![r] = h]
    BY <2>1, <2>2, <2>3 DEF Sees, Begin, Row, booking
  <2> QED
    BY <1>0, <2>1, <2>4, SoloFigures, SoloGoes
<1>2. CASE CheckNone(r) \/ CheckOpen(r)
  <2>1. /\ UNCHANGED <<booking, history>> /\ req[r] \in Handler
        /\ req[r].pc = "check" /\ Sees(req[r])
    BY <1>2, BusyIsHandler DEF CheckNone, CheckOpen, At, SoloInv, CheckoutInv, SlotsSee
  <2>2. \/ Finish(r)
        \/ Continue(r, "reread")
        \/ \E i : pay[i] = "PENDING" /\ req' = [req EXCEPT ![r].pc = "mark", ![r].i = i]
                  /\ UNCHANGED payment
    BY <1>2 DEF CheckNone, CheckOpen, OpenCheckout, IsLatest, Linked
  <2>3. CASE Continue(r, "reread")
    <3>1. PICK h : h = [req[r] EXCEPT !.pc = "reread"]
      OBVIOUS
    <3>2. h.pc = "reread" /\ h.op = req[r].op
      BY <2>1, <3>1 DEF Handler
    <3>3. Sees(h)' /\ req' = [req EXCEPT ![r] = h]
      BY <2>1, <2>3, <3>1, <3>2 DEF Sees, Continue
    <3> QED
      BY <1>0, <2>1, <3>3, SoloFigures, SoloGoes
  <2>4. ASSUME NEW i, pay[i] = "PENDING", UNCHANGED payment,
               req' = [req EXCEPT ![r].pc = "mark", ![r].i = i]
        PROVE  SoloMoney' /\ SoloHistory' /\ SlotsSee' /\ NothingKept
    <3>1. PICK h : h = [req[r] EXCEPT !.pc = "mark", !.i = i]
      OBVIOUS
    <3>2. h.pc = "mark" /\ h.i = i
      BY <2>1, <3>1 DEF Handler
    <3>3. Sees(h)' /\ req' = [req EXCEPT ![r] = h]
      BY <2>4, <3>1, <3>2 DEF Sees, Capturable, payment
    <3> QED
      BY <1>0, <2>1, <3>3, SoloFigures, SoloGoes
  <2>5. CASE Finish(r)
    BY <1>0, <2>1, <2>5, SoloFigures, SoloEnds
  <2> QED
    BY <2>2, <2>3, <2>4, <2>5
<1>3. CASE CancelReread(r)
  <2>1. /\ UNCHANGED <<booking, history>> /\ req[r] \in Handler
        /\ req[r].pc = "reread" /\ req[r].op \in {"cancel", "reject"}
    BY <1>3, BusyIsHandler DEF CancelReread, At, SoloInv, CheckoutInv, SlotsSee, Sees
  <2>2. CASE Finish(r)
    BY <1>0, <2>1, <2>2, SoloFigures, SoloEnds
  <2>3. CASE ~ Finish(r)
    <3>1. PICK pc : pc = IF status = "APPROVED" /\ points > 0 THEN "credits" ELSE "write"
      OBVIOUS
    <3>2. PICK h : h = [req[r] EXCEPT !.pc = pc, !.seen = Row]
      OBVIOUS
    <3>3. h.pc = pc /\ h.op = req[r].op /\ h.seen = Row
      BY <2>1, <3>2 DEF Handler
    <3>4. CanTransition(status, "CANCELLED") /\ req' = [req EXCEPT ![r] = h]
      BY <1>3, <2>3, <3>1, <3>2
      DEF CancelReread, ReturnsCredits, UnpaidStatuses, SoloInv, SoloMoney
    <3>5. status \in {"APPROVED", "CONFIRMED"}
      BY <3>4 DEF CanTransition, NextStatuses, SoloInv, SoloMoney
    <3>6. points > 0 \/ points = 0
      BY CheckoutAssumption DEF SoloInv, CheckoutInv, Money
    <3>7. Sees(h)'
      BY <2>1, <3>1, <3>3, <3>5, <3>6 DEF Sees, Row, booking
    <3> QED
      BY <1>0, <2>1, <3>4, <3>7, SoloFigures, SoloGoes
  <2> QED
    BY <2>2, <2>3
<1>4. CASE CancelWrite(r) \/ RejectWrite(r)
  <2>1. /\ UNCHANGED <<points, zeroPaid, pay, payers, told>> /\ Finish(r)
        /\ req[r].pc = "write" /\ req[r].op \in {"cancel", "reject"} /\ req[r] # Idle
    BY <1>4 DEF CancelWrite, RejectWrite, At, payment, history
  <2>2. /\ req[r].seen.status = status
        /\ \/ status = "APPROVED" /\ points = 0
           \/ status = "CONFIRMED" /\ req[r].seen.points = points
    BY <2>1 DEF SoloInv, SlotsSee, Sees
  <2>3. /\ status' = "CANCELLED"
        /\ wallet' \in {wallet, wallet + 0, wallet + points}
    BY <1>4, <2>2 DEF CancelWrite, RejectWrite, CancelGuard, ReturnsAtCancel
  <2>4. SoloMoney'
    BY <2>1, <2>2, <2>3, CheckoutAssumption DEF SoloInv, SoloMoney, CheckoutInv, Money
  <2>5. SoloHistory'
    BY <2>1, <2>3 DEF SoloInv, SoloHistory
  <2>6. NothingKept
    BY <2>1, <2>2 DEF NothingKept, UnpaidStatuses
  <2> QED
    BY <2>1, <2>4, <2>5, <2>6, SoloEnds
<1>5. CASE OverrideWrite(r)
  <2>1. /\ UNCHANGED <<points, wallet, zeroPaid, pay, payers, told>> /\ Finish(r)
        /\ status' = "CONFIRMED" /\ status = "APPROVED"
    BY <1>5 DEF OverrideWrite, At, payment, history, SoloInv, SlotsSee, Sees
  <2> QED
    BY <2>1, SoloEnds DEF SoloInv, SoloMoney, SoloHistory, NothingKept
<1> QED
  BY <1>1, <1>2, <1>3, <1>4, <1>5 DEF CancelStep

LEMMA SoloBackground ==
  ASSUME SoloInv, KeepsCaptured, NEW i \in Attempts, Background(i)
  PROVE  SoloMoney' /\ SoloHistory' /\ SlotsSee'
<1>1. UNCHANGED <<booking, req, history>>
  BY DEF Background, MotherPays, CardDeclined, TimePasses, AttemptFails, ReconcileOpen
<1>2. \A j \in Attempts : pay'[j] \in {pay[j], "FAILED"}
  BY DEF Background, MotherPays, CardDeclined, TimePasses, AttemptFails, ReconcileOpen,
         GiveUp, payment
<1>3. \A r \in Requests : req[r] # Idle => Sees(req[r])'
  <2>1. TAKE r \in Requests
  <2>2. PICK h : h = req[r]
    OBVIOUS
  <2>3. ASSUME h # Idle PROVE Sees(h)'
    <3>1. Sees(h) /\ (h.pc \in {"mark", "commit"} => h.i \in Attempts)
      BY <2>2, <2>3, BusyIsHandler DEF SoloInv, SlotsSee, CheckoutInv, HandlerOK
    <3>2. h.pc \in {"mark", "commit"} => pay'[h.i] \in Capturable
      BY <1>2, <3>1 DEF Sees, Capturable
    <3>3. UNCHANGED <<status, points>>
      BY <1>1 DEF booking
    <3> QED
      BY <3>1, <3>2, <3>3 DEF Sees
  <2> QED
    BY <1>1, <2>2, <2>3 DEF Sees
<1> QED
  BY <1>1, <1>3, SoloFigures DEF SlotsSee

LEMMA SoloStep ==
  ASSUME NEW r, Requests = {r}, SoloInv, [Next]_vars
  PROVE  SoloInv' /\ NothingKept
<1>1. CheckoutInv' /\ KeepsCaptured
  BY NextKeeps DEF SoloInv
<1>2. ASSUME status' # "CANCELLED" \/ status \notin UnpaidStatuses PROVE NothingKept
  BY <1>2 DEF NothingKept
<1>3. CASE UNCHANGED vars
  <2>1. UNCHANGED <<booking, payment, req, history>>
    BY <1>3 DEF vars
  <2>2. UNCHANGED <<status, points, pay>>
    BY <2>1 DEF booking, payment
  <2>3. SlotsSee'
    BY <2>1, <2>2 DEF SoloInv, SlotsSee, Sees
  <2>4. NothingKept
    BY <2>2 DEF NothingKept, UnpaidStatuses
  <2> QED
    BY <1>1, <2>1, <2>3, <2>4, SoloFigures DEF SoloInv
<1>4. CASE CancelStep(r)
  BY <1>1, <1>4, SoloCancel DEF SoloInv
<1>5. CASE PayStep(r) \/ CaptureStep(r) \/ SettleStep(r) \/ PointsStep(r)
  <2>1. SoloInv'
    BY <1>1, <1>5, SoloPay, SoloCapture, SoloSettle, SoloPoints DEF SoloInv
  <2>2. status' \in {status, "CONFIRMED"}
    BY <1>5 DEF PayStep, PayRead, PaySupersede, PayCreate, PayStore, PayRefused,
      CaptureStep, WebhookSuccess, PollSuccess, CaptureMark, CaptureCommit,
      SettleStep, SettleRequest, SettleRead, SettleSync, SettleZero,
      PointsStep, RedeemRead, RedeemWrite, RemoveRead, ReturnPoints, booking
  <2> QED
    BY <1>2, <2>1, <2>2 DEF UnpaidStatuses
<1>6. ASSUME NEW i \in Attempts, Background(i) PROVE SoloInv' /\ NothingKept
  <2>1. SoloInv'
    BY <1>1, <1>6, SoloBackground DEF SoloInv
  <2>2. status' = status
    BY <1>6 DEF Background, MotherPays, CardDeclined, TimePasses, AttemptFails,
                ReconcileOpen, booking
  <2> QED
    BY <1>2, <2>1, <2>2 DEF UnpaidStatuses
<1> QED
  BY <1>3, <1>4, <1>5, <1>6 DEF Next

LEMMA SoloAlways ==
  ASSUME NEW r, Requests = {r}
  PROVE  Spec => [](SoloInv)
<1>1. Init => SoloInv
  <2> SUFFICES ASSUME Init PROVE SoloInv
    OBVIOUS
  <2>1. SoloMoney
    BY CheckoutAssumption DEF Init, SoloMoney
  <2>2. SoloHistory /\ SlotsSee
    BY DEF Init, SoloHistory, SlotsSee
  <2> QED
    BY <2>1, <2>2, InitCheckoutInv DEF SoloInv
<1>2. SoloInv /\ [Next]_vars => SoloInv'
  BY SoloStep
<1> QED
  BY <1>1, <1>2, PTL DEF Spec

-----------------------------------------------------------------------------
(* The theorems. *)

\* However the handlers overlap, every row, page and slot has a value of its type
\* (the types of BookingCheckout).
THEOREM CheckoutTypes == Spec => []TypeOK
<1>1. CheckoutInv => TypeOK
  BY DEF CheckoutInv, Money, Payments, Slots, History, TypeOK
<1> QED
  BY CheckoutInvariant, <1>1, PTL

\* Nothing is ever recorded as captured that Paymob did not take, whichever of
\* callback, poll, sync and cancel found it (captureAndConfirmBooking).
THEOREM CapturedWasTaken == Spec => []CapturedIsTaken
<1>1. CheckoutInv => CapturedIsTaken
  BY DEF CheckoutInv, Payments, CapturedIsTaken
<1> QED
  BY CheckoutInvariant, <1>1, PTL

\* A booking confirmed with a zero payment owes nothing, then and ever after
\* (settleWithoutCharge against redeemBookingPoints, refundBookingPoints, cancel).
THEOREM ZeroPaymentOwesNothing == Spec => []ZeroOwesNothing
<1>1. CheckoutInv => ZeroOwesNothing
  BY DEF CheckoutInv, Money, ZeroOwesNothing
<1> QED
  BY CheckoutInvariant, <1>1, PTL

\* No interleaving of redemptions, removals and cancels takes points from the
\* mother that are not on the booking (applyPointsToBooking, refundBookingIfApplied).
THEOREM NoPointsLost == Spec => []PointsNeverLost
<1>1. CheckoutInv => PointsNeverLost
  BY DEF CheckoutInv, Money, PointsNeverLost
<1> QED
  BY CheckoutInvariant, <1>1, PTL

\* No decline, timeout, superseding attempt or failed intention undoes a capture
\* (finalizePaymentFailed, openIntention, settleWithoutCharge).
THEOREM CapturesAreFinal == Spec => CapturedIsFinal
<1>1. CheckoutInv /\ [Next]_vars
        => [\A i \in Attempts : pay[i] = "CAPTURED" => pay'[i] = "CAPTURED"]_vars
  BY NextKeeps DEF KeepsCaptured
<1> QED
  BY CheckoutInvariant, <1>1, PTL DEF Spec, CapturedIsFinal

\* While handlers do not overlap, one payment confirms the booking, and not next to a
\* zero settlement (captureAndConfirmBooking).
THEOREM OnePaymentConfirms ==
  ASSUME NEW r, Requests = {r}
  PROVE  Spec => []OneConfirmation
<1>1. SoloInv => OneConfirmation
  BY DEF SoloInv, SoloHistory, OneConfirmation
<1> QED
  BY <1>1, SoloAlways, PTL

\* ... the payment that confirmed it is never reported as stranded, however often its
\* callback comes (captureAndConfirmBooking).
THEOREM NoAlarmIsFalse ==
  ASSUME NEW r, Requests = {r}
  PROVE  Spec => []NoFalseAlarm
<1>1. SoloInv => NoFalseAlarm
  BY DEF SoloInv, SoloHistory, NoFalseAlarm
<1> QED
  BY <1>1, SoloAlways, PTL

\* ... the wallet never gets back more than was spent (returnPaidBookingCredits).
THEOREM PointsComeBackOnce ==
  ASSUME NEW r, Requests = {r}
  PROVE  Spec => []PointsReturnedOnce
<1>1. SoloInv => PointsReturnedOnce
  BY DEF SoloInv, SoloMoney, PointsReturnedOnce
<1> QED
  BY <1>1, SoloAlways, PTL

\* ... and a booking called off unpaid keeps none of the mother's points
\* (returnUnpaidCredits).
THEOREM UnpaidCancelsReturnPoints ==
  ASSUME NEW r, Requests = {r}
  PROVE  Spec => CancelReturnsPoints
<1>1. SoloInv /\ [Next]_vars
        => [(status \in UnpaidStatuses /\ status' = "CANCELLED") => points' = 0]_vars
  BY SoloStep DEF NothingKept
<1> QED
  BY <1>1, SoloAlways, PTL DEF Spec, CancelReturnsPoints
=============================================================================
