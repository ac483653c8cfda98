--------------------------- MODULE PackageCheckout ---------------------------
(***************************************************************************)
(* Buying packages of hours: one mother's purchases, the payment attempts  *)
(* of each, their pages at Paymob, and the capture that turns a purchase   *)
(* into the one active bucket she may have.                                *)
(*                                                                         *)
(* The capture is a transaction of several steps: its update of the payment*)
(* locks that row and is seen by nobody until it commits; the purchase and *)
(* the slot are read in between; the promotion may meet the unique key on  *)
(* (userId, isActiveSlot) and then takes the payment's update back with it.*)
(* A handler that stops in a transaction has done nothing; Crash is about  *)
(* the others.  Left out: which package, its price, and the hours of a     *)
(* bucket (PackageHours), of which only "usable" is kept: some are left and*)
(* the date has not passed.                                                *)
(***************************************************************************)
EXTENDS Integers, FiniteSets

CONSTANTS
  Purchases,
  MaxAttempts, \* bound on the payment rows
  MaxTries,    \* PAYMOB_RECONCILE_OFFSETS_MS.length
  Requests

ASSUME PackageCheckoutAssumption ==
  /\ MaxAttempts \in Nat
  /\ MaxTries \in Nat \ {0}

Attempts == 1..MaxAttempts

VARIABLES
  status,   \* status[p]: packagePurchase.status
  slot,     \* slot[p]: packagePurchase.isActiveSlot
  usable,   \* usable[p]: it has hours and its date has not passed
  pay,      \* pay[i]: payment.status
  of,       \* of[i]: payment.packagePurchaseId; 0 for no row
  link,     \* link[i]: payment.paymobClientSecret is on the row
  tries,    \* tries[i]: payment.paymobReconcileAttempt
  page,     \* page[i]: what Paymob knows of it ("re...": after a decline)
  old,      \* old[i]: its page, and the window it holds, are past their time
  req,      \* req[r]: the handler in slot r
  credits   \* credits[p]: the PURCHASE rows of its hours ledger

purchase == <<status, slot, usable, credits>>
payment  == <<pay, of, link, tries>>
paymob   == <<page, old>>
vars     == <<purchase, payment, paymob, req>>

Idle == [pc |-> "idle"]

Handler ==
  [pc : {"buy"}, p : Purchases]
  \cup [pc : {"supersede", "create"}, p : Purchases]
  \cup [pc : {"open", "store", "update", "credit", "promote", "drop"}, i : Attempts]

TypeOK ==
  /\ status \in [Purchases -> {"none", "PENDING_PAYMENT", "ACTIVE", "EXPIRED"}]
  /\ slot \in [Purchases -> BOOLEAN]
  /\ usable \in [Purchases -> BOOLEAN]
  /\ pay \in [Attempts -> {"none", "PENDING", "FAILED", "CAPTURED"}]
  /\ of \in [Attempts -> Purchases \cup {0}]
  /\ link \in [Attempts -> BOOLEAN]
  /\ tries \in [Attempts -> 0..(MaxTries - 1)]
  /\ page \in [Attempts -> {"none", "open", "processing", "declined", "reprocessing",
                        "paid", "repaid"}]
  /\ old \in [Attempts -> BOOLEAN]
  /\ req \in [Requests -> Handler \cup {Idle}]
  /\ credits \in [Purchases -> 0..1]

Init ==
  /\ status = [p \in Purchases |-> "none"]
  /\ slot = [p \in Purchases |-> FALSE]
  /\ usable = [p \in Purchases |-> FALSE]
  /\ pay = [i \in Attempts |-> "none"]
  /\ of = [i \in Attempts |-> 0]
  /\ link = [i \in Attempts |-> FALSE]
  /\ tries = [i \in Attempts |-> 0]
  /\ page = [i \in Attempts |-> "none"]
  /\ old = [i \in Attempts |-> FALSE]
  /\ req = [r \in Requests |-> Idle]
  /\ credits = [p \in Purchases |-> 0]

Begin(r, handler) ==
  /\ req[r] = Idle
  /\ req' = [req EXCEPT ![r] = handler]

At(r, pc) == req[r].pc = pc

Continue(r, pc) == req' = [req EXCEPT ![r].pc = pc]

Finish(r) == req' = [req EXCEPT ![r] = Idle]

AttemptsOf(p) == {i \in Attempts : of[i] = p}
IsLatest(i, p) == i \in AttemptsOf(p) /\ \A j \in AttemptsOf(p) : j <= i

\* A capture that has not committed holds the payment row.
Locked(i) == \E r \in Requests : (At(r, "credit") \/ At(r, "promote")) /\ req[r].i = i

\* Pending rows of S are given up.
GiveUp(S) ==
  LET T == {i \in S : pay[i] = "PENDING"}
  IN /\ \A i \in T : ~ Locked(i)
     /\ pay' = [i \in Attempts |-> IF i \in T THEN "FAILED" ELSE pay[i]]
     /\ link' = [i \in Attempts |-> link[i] /\ i \notin T]
     /\ UNCHANGED <<of, tries>>

-----------------------------------------------------------------------------
(* Paymob's page, and the hours once they are hers. *)

Paid(i) == page[i] \in {"paid", "repaid"}

PageGoes(i, from, to) == page[i] = from /\ page' = [page EXCEPT ![i] = to]

\* A page takes cards while it lives; what it has begun it ends.
CardEntered(i) ==
  /\ ~ old[i]
  /\ PageGoes(i, "open", "processing") \/ PageGoes(i, "declined", "reprocessing")
  /\ UNCHANGED <<purchase, payment, old, req>>

CardTaken(i) ==
  /\ PageGoes(i, "processing", "paid") \/ PageGoes(i, "reprocessing", "repaid")
  /\ UNCHANGED <<purchase, payment, old, req>>

CardDeclined(i) ==
  /\ PageGoes(i, "processing", "declined") \/ PageGoes(i, "reprocessing", "declined")
  /\ UNCHANGED <<purchase, payment, old, req>>

TimePasses(i) ==
  /\ pay[i] # "none" /\ ~ old[i]
  /\ old' = [old EXCEPT ![i] = TRUE]
  /\ UNCHANGED <<purchase, payment, page, req>>

\* Her hours are spent, or run out of time.
HoursEnd(p) ==
  /\ usable[p]
  /\ usable' = [usable EXCEPT ![p] = FALSE]
  /\ UNCHANGED <<status, slot, credits, payment, paymob, req>>

\* Mutant: the slot is not freed.
SlotAfterExpiryKept(p) == slot[p]

SlotAfterExpiry(p) == FALSE

\* expirePackagesForUser
Expire(p) ==
  /\ status[p] = "ACTIVE"
  /\ ~ usable[p]
  /\ status' = [status EXCEPT ![p] = "EXPIRED"]
  /\ slot' = [slot EXCEPT ![p] = SlotAfterExpiry(p)]
  /\ UNCHANGED <<usable, credits, payment, paymob, req>>

-----------------------------------------------------------------------------
(* createPackagePurchase, createPaymobIntentionForPackagePurchase *)

CheckoutOpen(p) ==
  /\ status[p] = "PENDING_PAYMENT"
  /\ \E i \in AttemptsOf(p) : pay[i] = "PENDING" /\ ~ old[i]

BuyRead(r, p) ==
  /\ status[p] = "none"
  /\ \A q \in Purchases : ~ (status[q] = "ACTIVE" /\ usable[q])
  /\ \A q \in Purchases : ~ CheckoutOpen(q)
  /\ Begin(r, [pc |-> "buy", p |-> p])
  /\ UNCHANGED <<purchase, payment, paymob>>

BuyCreate(r) ==
  /\ At(r, "buy")
  /\ status[req[r].p] = "none"
  /\ status' = [status EXCEPT ![req[r].p] = "PENDING_PAYMENT"]
  /\ Finish(r)
  /\ UNCHANGED <<slot, usable, credits, payment, paymob>>

\* The newest attempt can be paid still: its session is handed out again.
Resumable(p) ==
  \E i \in Attempts : IsLatest(i, p) /\ pay[i] = "PENDING" /\ link[i] /\ ~ old[i]

\* Bound: a row is left for every handler that is going to create one.
RowLeft ==
  Cardinality({i \in Attempts : pay[i] = "none"})
    > Cardinality({q \in Requests : At(q, "supersede") \/ At(q, "create")})

PayRead(r, p) ==
  /\ RowLeft
  /\ status[p] = "PENDING_PAYMENT"
  /\ \A i \in AttemptsOf(p) : pay[i] # "CAPTURED"
  /\ ~ Resumable(p)
  /\ Begin(r, [pc |-> "supersede", p |-> p])
  /\ UNCHANGED <<purchase, payment, paymob>>

PaySupersede(r) ==
  /\ At(r, "supersede")
  /\ GiveUp(AttemptsOf(req[r].p))
  /\ Continue(r, "create")
  /\ UNCHANGED <<purchase, paymob>>

PayCreate(r) ==
  /\ At(r, "create")
  /\ \E i \in Attempts :
       /\ pay[i] = "none"
       /\ \A j \in Attempts : j < i => pay[j] # "none"
       /\ pay' = [pay EXCEPT ![i] = "PENDING"]
       /\ of' = [of EXCEPT ![i] = req[r].p]
       /\ req' = [req EXCEPT ![r] = [pc |-> "open", i |-> i]]
  /\ UNCHANGED <<purchase, link, tries, paymob>>

\* Paymob opens a page, or the call fails and the row is closed by id.
PayOpen(r) ==
  /\ At(r, "open")
  /\ page' = [page EXCEPT ![req[r].i] = "open"]
  /\ Continue(r, "store")
  /\ UNCHANGED <<purchase, payment, old>>

PayRefused(r) ==
  /\ At(r, "open")
  /\ pay' = [pay EXCEPT ![req[r].i] = "FAILED"]
  /\ link' = [link EXCEPT ![req[r].i] = FALSE]
  /\ Finish(r)
  /\ UNCHANGED <<purchase, of, tries, paymob>>

PayStore(r) ==
  /\ At(r, "store")
  /\ ~ Locked(req[r].i)
  /\ link' = [link EXCEPT ![req[r].i] = TRUE]
  /\ Finish(r)
  /\ UNCHANGED <<purchase, pay, of, tries, paymob>>

-----------------------------------------------------------------------------
(* finalizePackagePaymentCaptured and creditPurchaseHours: one transaction. *)

\* CAPTURABLE_PAYMENT_STATUSES
Capturable(i) == pay[i] \in {"PENDING", "FAILED"}

CaptureRead(r, i) ==
  /\ Capturable(i)
  /\ Begin(r, [pc |-> "update", i |-> i])
  /\ UNCHANGED <<purchase, payment, paymob>>

Webhook(r, i) == Paid(i) /\ CaptureRead(r, i)

\* The reconciler, or the parent's return from the page.
Poll(r, i) == Paid(i) /\ pay[i] = "PENDING" /\ link[i] /\ CaptureRead(r, i)

CaptureUpdate(r) ==
  /\ At(r, "update")
  /\ ~ Locked(req[r].i)
  /\ Continue(r, "credit")
  /\ UNCHANGED <<purchase, payment, paymob>>

\* The commit of the payment's update.
Captured(i) ==
  /\ pay' = [pay EXCEPT ![i] = "CAPTURED"]
  /\ link' = [link EXCEPT ![i] = FALSE]
  /\ UNCHANGED <<of, tries>>

\* Mutant: the unique key alone stands guard.
SlotTakenUnread == FALSE

SlotTaken == \E q \in Purchases : slot[q]

\* Credited already, or SLOT_TAKEN: the money is recorded and no more.
CaptureStranded(r) ==
  /\ At(r, "credit")
  /\ status[of[req[r].i]] # "PENDING_PAYMENT" \/ SlotTaken
  /\ Captured(req[r].i)
  /\ Finish(r)
  /\ UNCHANGED <<purchase, paymob>>

CaptureCredit(r) ==
  /\ At(r, "credit")
  /\ status[of[req[r].i]] = "PENDING_PAYMENT"
  /\ ~ SlotTaken
  /\ Continue(r, "promote")
  /\ UNCHANGED <<purchase, payment, paymob>>

\* Mutant: the promotion is by id.
PromotableById(p) == TRUE

\* The promotion's where clause.
Promotable(p) == status[p] = "PENDING_PAYMENT"

\* The unique key: the transaction aborts, the payment's update with it.
KeyViolated(p) == Promotable(p) /\ \E q \in Purchases \ {p} : slot[q]

CapturePromote(r) ==
  /\ At(r, "promote")
  /\ LET i == req[r].i
         p == of[i]
     IN IF KeyViolated(p)
        THEN UNCHANGED <<purchase, payment>>
        ELSE /\ Captured(i)
             /\ IF Promotable(p)
                THEN /\ status' = [status EXCEPT ![p] = "ACTIVE"]
                     /\ slot' = [slot EXCEPT ![p] = TRUE]
                     /\ usable' = [usable EXCEPT ![p] = TRUE]
                     /\ credits' = [credits EXCEPT ![p] = @ + 1]
                ELSE UNCHANGED purchase
  /\ Finish(r)
  /\ UNCHANGED paymob

-----------------------------------------------------------------------------
(* Attempts that are given up. *)

\* Mutant: the row is closed by id.
FailGuardById(i) == pay[i] # "none"

\* finalizePackagePaymentFailed's where clause.
FailGuard(i) == pay[i] = "PENDING"

Fail(i) ==
  /\ IF FailGuard(i)
     THEN /\ ~ Locked(i)
          /\ pay' = [pay EXCEPT ![i] = "FAILED"]
          /\ link' = [link EXCEPT ![i] = FALSE]
     ELSE UNCHANGED <<pay, link>>
  /\ UNCHANGED <<of, tries>>

\* A callback about a declined card, whenever it comes.
FailedNotice(i) ==
  /\ page[i] \in {"declined", "reprocessing", "repaid"}
  /\ Fail(i)
  /\ UNCHANGED <<purchase, paymob, req>>

\* The reconciler saw the page open when it asked; at the last try it gives up.
ReconcileOpen(i) ==
  /\ pay[i] = "PENDING" /\ link[i]
  /\ IF tries[i] + 1 >= MaxTries
     THEN Fail(i)
     ELSE /\ ~ Locked(i)
          /\ tries' = [tries EXCEPT ![i] = @ + 1]
          /\ UNCHANGED <<pay, of, link>>
  /\ UNCHANGED <<purchase, paymob, req>>

\* cancelPackageCheckout asks Paymob, if it can: a payment in progress refuses the
\* cancel, a finished one is captured (Poll).
CancelRead(r, p) ==
  /\ \E i \in Attempts :
       /\ IsLatest(i, p)
       /\ pay[i] = "PENDING"
       /\ link[i] => page[i] \in {"open", "declined"}
       /\ Begin(r, [pc |-> "drop", i |-> i])
  /\ UNCHANGED <<purchase, payment, paymob>>

CancelDrop(r) ==
  /\ At(r, "drop")
  /\ Fail(req[r].i)
  /\ Finish(r)
  /\ UNCHANGED <<purchase, paymob>>

\* The server stops outside a transaction.
Crash(r) ==
  /\ \E pc \in {"buy", "supersede", "create", "open", "store", "drop"} : At(r, pc)
  /\ Finish(r)
  /\ UNCHANGED <<purchase, payment, paymob>>

-----------------------------------------------------------------------------
PayStep(r) ==
  BuyCreate(r) \/ PaySupersede(r) \/ PayCreate(r) \/ PayOpen(r) \/ PayRefused(r) \/ PayStore(r)

CaptureStep(r) ==
  CaptureUpdate(r) \/ CaptureStranded(r) \/ CaptureCredit(r) \/ CapturePromote(r)

Next ==
  \/ \E p \in Purchases : HoursEnd(p) \/ Expire(p)
  \/ \E i \in Attempts :
       \/ CardEntered(i) \/ CardTaken(i) \/ CardDeclined(i) \/ TimePasses(i)
       \/ FailedNotice(i) \/ ReconcileOpen(i)
  \/ \E r \in Requests :
       \/ \E p \in Purchases : BuyRead(r, p) \/ PayRead(r, p) \/ CancelRead(r, p)
       \/ \E i \in Attempts : Webhook(r, i) \/ Poll(r, i)
       \/ PayStep(r) \/ CaptureStep(r) \/ CancelDrop(r) \/ Crash(r)

Spec == Init /\ [][Next]_vars

\* What has begun is run to its end, and Paymob repeats a callback until it is
\* answered; the slots of `req` are a bound of the model and come free.
Fairness ==
  /\ \A r \in Requests : WF_vars(PayStep(r) \/ CaptureStep(r) \/ CancelDrop(r))
  /\ \A i \in Attempts : SF_vars(\E r \in Requests : Webhook(r, i))

\* Checkouts in the middle of their life: those of S are open, each with its first
\* page and the reconciler about to look for the last time; the others are to come.
OpenFor(S) ==
  /\ status = [p \in Purchases |-> IF p \in S THEN "PENDING_PAYMENT" ELSE "none"]
  /\ slot = [p \in Purchases |-> FALSE]
  /\ usable = [p \in Purchases |-> FALSE]
  /\ pay = [i \in Attempts |-> IF i \in S THEN "PENDING" ELSE "none"]
  /\ of = [i \in Attempts |-> IF i \in S THEN i ELSE 0]
  /\ link = [i \in Attempts |-> i \in S]
  /\ tries = [i \in Attempts |-> IF i \in S THEN MaxTries - 1 ELSE 0]
  /\ page = [i \in Attempts |-> IF i \in S THEN "open" ELSE "none"]
  /\ old = [i \in Attempts |-> FALSE]
  /\ req = [r \in Requests |-> Idle]
  /\ credits = [p \in Purchases |-> 0]

\* The first few checkouts were opened side by side, one at least.
OpenInit ==
  \E n \in Attempts :
    /\ 1..n \subseteq Purchases
    /\ OpenFor(1..n)

LiveSpec == OpenInit /\ [][Next]_vars /\ Fairness

-----------------------------------------------------------------------------
(* Properties *)

\* Money that Paymob took is recorded in the end, even where the slot was taken by
\* another purchase between the look and the promotion, and where the attempt had
\* been given up (package-hours.service.ts:93, constants.ts:37).
PaidIsRecorded == \A i \in Attempts : Paid(i) ~> pay[i] = "CAPTURED"

\* A captured payment stays captured, whatever late decline, cancel, timeout or
\* newer attempt comes after it (package-payment.service.ts:98).
CapturedIsFinal ==
  [][\A i \in Attempts : pay[i] = "CAPTURED" => pay'[i] = "CAPTURED"]_vars

\* A payment is captured for a purchase that stays without hours only while another
\* bucket is ACTIVE (package-hours.service.ts:98).
StrandedBehindActive ==
  [][\A i \in Attempts :
       (pay[i] # "CAPTURED" /\ pay'[i] = "CAPTURED") =>
         \/ status'[of[i]] # "PENDING_PAYMENT"
         \/ \E q \in Purchases : status[q] = "ACTIVE"]_vars
=============================================================================
