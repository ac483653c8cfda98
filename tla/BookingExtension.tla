-------------------------- MODULE BookingExtension --------------------------
(***************************************************************************)
(* Extra hours for a shift under way: the mother asks, the nanny agrees,   *)
(* credits are reserved, the rest is paid at Paymob, and the hours are     *)
(* added to the booking; or the request ends unpaid and the credits go     *)
(* back.                                                                   *)
(*                                                                         *)
(* Nearly every write here is by id, after a read of its own transaction;  *)
(* a step boundary lies between any two statements that another handler    *)
(* could come between.  A crash ends a handler: what its transaction had   *)
(* not committed was never done.                                           *)
(*                                                                         *)
(* One unit of money is the price of an hour, which a prepaid hour or a    *)
(* point also pays for.  Each extension has one payment row: superseded    *)
(* attempts and the page's life are in BookingCheckout, whose openIntention*)
(* is shared.  The hours ledger is in PackageHours.  Left out: the nanny's *)
(* calendar, the daily window, notices.                                    *)
(***************************************************************************)
EXTENDS Integers, FiniteSets, Functions

CONSTANTS
  Extensions,
  Requests,
  Hours,      \* bookingExtension.hours, and its price
  Purse,      \* the points in the mother's wallet at first
  Prepaid,    \* the hours in her bucket at first
  MaxCrashes

ASSUME ExtensionAssumption ==
  /\ IsFiniteSet(Extensions)
  /\ Hours \in Nat \ {0}
  /\ Purse \in Nat
  /\ Prepaid \in Nat
  /\ MaxCrashes \in Nat

VARIABLES
  status,   \* booking.status
  extra,    \* the hours that booking.durationHours has gained
  ext,      \* ext[e]: bookingExtension.status
  late,     \* late[e]: expiresAt has passed
  owed,     \* owed[e]: totalAmount
  points,   \* points[e]: rewardCreditPoints
  hours,    \* hours[e]: packageHoursApplied
  rows,     \* the extensions with a REDEMPTION row in the hours ledger
  wallet,   \* rewardWallet.pointsBalance
  bucket,   \* packagePurchase.hoursRemaining
  pay,      \* pay[e]: the status of its payment
  page,     \* page[e]: what Paymob knows of it
  req,      \* req[r]: the handler in slot r
  crashes,  \* how often a handler was cut short
  cut       \* history: the extensions whose handler was

booking   == <<status, extra>>
extension == <<ext, late, owed, points, hours>>
credits   == <<wallet, bucket, rows>>
payment   == <<pay, page>>
history   == <<crashes, cut>>
vars      == <<booking, extension, credits, payment, req, history>>

OpenStatuses == {"PENDING_NANNY", "ACCEPTED"}
Closed       == {"DECLINED", "EXPIRED", "CANCELLED"}
Open         == {e \in Extensions : ext[e] \in OpenStatuses}

Idle == [pc |-> "idle"]

Handler ==
  [pc : {"request", "accept", "page", "capture", "apply", "applyBooking"}, e : Extensions]
  \cup [pc : {"redeem"}, e : Extensions, owed : 1..Hours]
  \cup [pc : {"add"}, e : Extensions, extra : Nat]
  \cup [pc : {"settle"}, todo : SUBSET Extensions, to : Closed]
  \cup [pc : {"return"}, e : Extensions, points : 0..Hours, todo : SUBSET Extensions, to : Closed]

TypeOK ==
  /\ status \in {"IN_PROGRESS", "COMPLETED", "CANCELLED"}
  /\ extra \in Nat
  /\ ext \in [Extensions -> {"none", "PAID"} \cup OpenStatuses \cup Closed]
  /\ late \in [Extensions -> BOOLEAN]
  /\ owed \in [Extensions -> 0..Hours]
  /\ points \in [Extensions -> 0..Hours]
  /\ hours \in [Extensions -> 0..Hours]
  /\ rows \subseteq Extensions
  /\ wallet \in Nat
  /\ bucket \in Nat
  /\ pay \in [Extensions -> {"none", "PENDING", "FAILED", "CAPTURED"}]
  /\ page \in [Extensions -> {"none", "open", "paid"}]
  /\ req \in [Requests -> Handler \cup {Idle}]
  /\ crashes \in 0..MaxCrashes
  /\ cut \subseteq Extensions

\* A shift that has begun.
Init ==
  /\ status = "IN_PROGRESS"
  /\ extra = 0
  /\ ext = [e \in Extensions |-> "none"]
  /\ late = [e \in Extensions |-> FALSE]
  /\ owed = [e \in Extensions |-> 0]
  /\ points = [e \in Extensions |-> 0]
  /\ hours = [e \in Extensions |-> 0]
  /\ rows = {}
  /\ wallet = Purse
  /\ bucket = Prepaid
  /\ pay = [e \in Extensions |-> "none"]
  /\ page = [e \in Extensions |-> "none"]
  /\ req = [r \in Requests |-> Idle]
  /\ crashes = 0
  /\ cut = {}

Begin(r, handler) ==
  /\ req[r] = Idle
  /\ req' = [req EXCEPT ![r] = handler]

At(r, pc) == req[r].pc = pc

Goto(r, handler) == req' = [req EXCEPT ![r] = handler]

Finish(r) == Goto(r, Idle)

-----------------------------------------------------------------------------
(* The shift and the clock. *)

\* checkOutBooking and endBookingByMother: completed, then what is open is released.
Complete(r) ==
  /\ status = "IN_PROGRESS"
  /\ status' = "COMPLETED"
  /\ Begin(r, [pc |-> "settle", todo |-> Open, to |-> "CANCELLED"])
  /\ UNCHANGED <<extra, extension, credits, payment, history>>

\* The console calls a shift off, and releases nothing.
ConsoleCancel ==
  /\ status = "IN_PROGRESS"
  /\ status' = "CANCELLED"
  /\ UNCHANGED <<extra, extension, credits, payment, req, history>>

DeadlinePasses(e) ==
  /\ e \in Open
  /\ ~ late[e]
  /\ late' = [late EXCEPT ![e] = TRUE]
  /\ UNCHANGED <<booking, ext, owed, points, hours, credits, payment, req, history>>

-----------------------------------------------------------------------------
(* requestBookingExtension *)

\* One that is late is settled first (Sweep).
RequestRead(r, e) ==
  /\ status = "IN_PROGRESS"
  /\ ext[e] = "none"
  /\ Open = {}
  /\ Begin(r, [pc |-> "request", e |-> e])
  /\ UNCHANGED <<booking, extension, credits, payment, history>>

RequestCreate(r) ==
  /\ At(r, "request")
  /\ LET e == req[r].e
     IN /\ ext[e] = "none"
        /\ ext' = [ext EXCEPT ![e] = "PENDING_NANNY"]
        /\ owed' = [owed EXCEPT ![e] = Hours]
  /\ Finish(r)
  /\ UNCHANGED <<booking, late, points, hours, credits, payment, history>>

-----------------------------------------------------------------------------
(* respondToBookingExtension *)

DeclineRead(r, e) ==
  /\ ext[e] = "PENDING_NANNY" /\ ~ late[e]
  /\ Begin(r, [pc |-> "settle", todo |-> {e}, to |-> "DECLINED"])
  /\ UNCHANGED <<booking, extension, credits, payment, history>>

AcceptRead(r, e) ==
  /\ ext[e] = "PENDING_NANNY" /\ ~ late[e]
  /\ Begin(r, [pc |-> "accept", e |-> e])
  /\ UNCHANGED <<booking, extension, credits, payment, history>>

\* By id: accepted, with a new deadline and as many prepaid hours as there are.  The
\* unique key on the REDEMPTION rows aborts a second draw.
AcceptWrite(r) ==
  /\ At(r, "accept")
  /\ LET e == req[r].e
         take == IF bucket < owed[e] THEN bucket ELSE owed[e]
     IN IF take > 0 /\ e \in rows
        THEN Finish(r) /\ UNCHANGED <<extension, bucket, rows>>
        ELSE /\ ext' = [ext EXCEPT ![e] = "ACCEPTED"]
             /\ late' = [late EXCEPT ![e] = FALSE]
             /\ hours' = [hours EXCEPT ![e] = IF take > 0 THEN take ELSE @]
             /\ owed' = [owed EXCEPT ![e] = @ - take]
             /\ bucket' = bucket - take
             /\ rows' = IF take > 0 THEN rows \cup {e} ELSE rows
             /\ IF owed[e] = take THEN Goto(r, [pc |-> "apply", e |-> e]) ELSE Finish(r)
             /\ UNCHANGED points
  /\ UNCHANGED <<booking, wallet, payment, history>>

-----------------------------------------------------------------------------
(* redeemExtensionPoints *)

RedeemRead(r, e) ==
  /\ ext[e] = "ACCEPTED" /\ ~ late[e]
  /\ points[e] = 0
  /\ owed[e] > 0
  /\ Begin(r, [pc |-> "redeem", e |-> e, owed |-> owed[e]])
  /\ UNCHANGED <<booking, extension, credits, payment, history>>

\* Mutant: the balance is not looked at.
WalletCoversAll(n) == TRUE

\* The debit's where clause.
WalletCovers(n) == wallet >= n

\* The wallet is guarded; the extension is written by id, from what was read.
RedeemWrite(r) ==
  /\ At(r, "redeem")
  /\ LET e == req[r].e
         seen == req[r].owed
     IN \/ \E n \in 1..seen :
             /\ WalletCovers(n)
             /\ wallet' = wallet - n
             /\ points' = [points EXCEPT ![e] = n]
             /\ owed' = [owed EXCEPT ![e] = seen - n]
             /\ IF seen = n THEN Goto(r, [pc |-> "apply", e |-> e]) ELSE Finish(r)
        \/ /\ wallet < seen
           /\ Finish(r)
           /\ UNCHANGED <<wallet, points, owed>>
  /\ UNCHANGED <<booking, ext, late, hours, bucket, rows, payment, history>>

-----------------------------------------------------------------------------
(* createPaymobIntentionForExtension, and the payment. *)

PayRead(r, e) ==
  /\ ext[e] = "ACCEPTED" /\ ~ late[e]
  /\ owed[e] > 0
  /\ pay[e] = "none"
  /\ Begin(r, [pc |-> "page", e |-> e])
  /\ UNCHANGED <<booking, extension, credits, payment, history>>

PayOpen(r) ==
  /\ At(r, "page")
  /\ pay[req[r].e] = "none"
  /\ pay' = [pay EXCEPT ![req[r].e] = "PENDING"]
  /\ page' = [page EXCEPT ![req[r].e] = "open"]
  /\ Finish(r)
  /\ UNCHANGED <<booking, extension, credits, history>>

MotherPays(e) ==
  /\ page[e] = "open"
  /\ page' = [page EXCEPT ![e] = "paid"]
  /\ UNCHANGED <<booking, extension, credits, pay, req, history>>

\* A declined card, or the reconciler's last try.
AttemptFails(e) ==
  /\ pay[e] = "PENDING"
  /\ pay' = [pay EXCEPT ![e] = "FAILED"]
  /\ UNCHANGED <<booking, extension, credits, page, req, history>>

\* finalizeExtensionPaymentCaptured: read, written by id, then applied.
CaptureRead(r, e) ==
  /\ page[e] = "paid"
  /\ pay[e] \in {"PENDING", "FAILED"}
  /\ Begin(r, [pc |-> "capture", e |-> e])
  /\ UNCHANGED <<booking, extension, credits, payment, history>>

CaptureWrite(r) ==
  /\ At(r, "capture")
  /\ pay' = [pay EXCEPT ![req[r].e] = "CAPTURED"]
  /\ Goto(r, [pc |-> "apply", e |-> req[r].e])
  /\ UNCHANGED <<booking, extension, credits, page, history>>

-----------------------------------------------------------------------------
(* applyPaidExtension: one transaction. *)

\* Mutant: past its deadline it is not applied.
ApplicableInTime(e) == ext[e] = "ACCEPTED" /\ ~ late[e]

\* Mutant: one that was applied is applied again.
ApplicableAgain(e) == ext[e] \in {"ACCEPTED", "PAID"}

Applicable(e) == ext[e] = "ACCEPTED"

ApplyRead(r) ==
  /\ At(r, "apply")
  /\ IF Applicable(req[r].e)
     THEN Goto(r, [pc |-> "applyBooking", e |-> req[r].e])
     ELSE Finish(r)
  /\ UNCHANGED <<booking, extension, credits, payment, history>>

\* A shift that has ended gains nothing.
ApplyBooking(r) ==
  /\ At(r, "applyBooking")
  /\ IF status = "IN_PROGRESS"
     THEN Goto(r, [pc |-> "add", e |-> req[r].e, extra |-> extra])
     ELSE Finish(r)
  /\ UNCHANGED <<booking, extension, credits, payment, history>>

ApplyWrite(r) ==
  /\ At(r, "add")
  /\ extra' = req[r].extra + Hours
  /\ ext' = [ext EXCEPT ![req[r].e] = "PAID"]
  /\ Finish(r)
  /\ UNCHANGED <<status, late, owed, points, hours, credits, payment, history>>

-----------------------------------------------------------------------------
(* settleExtensionUnpaid, and who calls it. *)

\* Mutant: only requests without an answer are swept.
StaleUnanswered(e) == ext[e] = "PENDING_NANNY" /\ late[e]

Stale(e) == e \in Open /\ late[e]

\* expireStaleBookingExtensions, and expireIfPastDeadline before a request, an
\* answer, a redemption or a look.
Sweep(r) ==
  /\ \E e \in Extensions : Stale(e)
  /\ Begin(r, [pc |-> "settle", todo |-> {e \in Extensions : Stale(e)}, to |-> "EXPIRED"])
  /\ UNCHANGED <<booking, extension, credits, payment, history>>

\* cancelBookingExtension
WithdrawRead(r, e) ==
  /\ ext[e] \notin {"none", "PAID"}
  /\ Begin(r, [pc |-> "settle", todo |-> {e}, to |-> "CANCELLED"])
  /\ UNCHANGED <<booking, extension, credits, payment, history>>

Settleable(e) == ext[e] \in OpenStatuses

SettleRead(r) ==
  /\ At(r, "settle")
  /\ LET todo == req[r].todo
         to == req[r].to
     IN \/ todo = {} /\ Finish(r)
        \/ \E e \in todo :
             IF Settleable(e)
             THEN Goto(r, [pc |-> "return", e |-> e, points |-> points[e],
                           todo |-> todo \ {e}, to |-> to])
             ELSE Goto(r, [pc |-> "settle", todo |-> todo \ {e}, to |-> to])
  /\ UNCHANGED <<booking, extension, credits, payment, history>>

\* Mutant: the row still reads as holding them.
PointsAfterSettleKept(e) == points[e]

PointsAfterSettle(e) == 0

\* The points as read, the hours by their ledger (once), the row by id.
SettleWrite(r) ==
  /\ At(r, "return")
  /\ LET e == req[r].e
     IN /\ wallet' = wallet + req[r].points
        /\ bucket' = bucket + hours[e]
        /\ ext' = [ext EXCEPT ![e] = req[r].to]
        /\ points' = [points EXCEPT ![e] = PointsAfterSettle(e)]
        /\ hours' = [hours EXCEPT ![e] = 0]
  /\ Goto(r, [pc |-> "settle", todo |-> req[r].todo, to |-> req[r].to])
  /\ UNCHANGED <<booking, late, owed, rows, payment, history>>

-----------------------------------------------------------------------------
\* What a handler in progress was about to deal with.
Touched(r) == IF "todo" \in DOMAIN req[r] THEN req[r].todo ELSE {req[r].e}

Crash(r) ==
  /\ req[r] # Idle
  /\ crashes < MaxCrashes
  /\ crashes' = crashes + 1
  /\ cut' = cut \cup Touched(r)
  /\ Finish(r)
  /\ UNCHANGED <<booking, extension, credits, payment>>

Proceed(r) ==
  \/ RequestCreate(r) \/ AcceptWrite(r) \/ RedeemWrite(r) \/ PayOpen(r) \/ CaptureWrite(r)
  \/ ApplyRead(r) \/ ApplyBooking(r) \/ ApplyWrite(r) \/ SettleRead(r) \/ SettleWrite(r)

Next ==
  \/ ConsoleCancel
  \/ \E e \in Extensions : DeadlinePasses(e) \/ MotherPays(e) \/ AttemptFails(e)
  \/ \E r \in Requests :
       \/ Complete(r) \/ Sweep(r) \/ Proceed(r) \/ Crash(r)
       \/ \E e \in Extensions :
            \/ RequestRead(r, e) \/ DeclineRead(r, e) \/ AcceptRead(r, e) \/ RedeemRead(r, e)
            \/ PayRead(r, e) \/ CaptureRead(r, e) \/ WithdrawRead(r, e)

Spec == Init /\ [][Next]_vars

\* The clock runs, the sweep is on a timer and finds a free slot in the end, and a
\* handler that has begun is run to its end.
Fairness ==
  /\ \A e \in Extensions : WF_vars(DeadlinePasses(e))
  /\ SF_vars(\E r \in Requests : Sweep(r))
  /\ \A r \in Requests : WF_vars(Proceed(r))

LiveSpec == Spec /\ Fairness

-----------------------------------------------------------------------------
(* Properties *)

\* No extension stays open: whatever the nanny and the mother do or leave undone,
\* and wherever the server stops, it is paid for or closed
\* (booking-extension.service.ts:533).
OpenEnds == \A e \in Extensions : e \in Open ~> e \notin Open

\* Her credits are in the wallet and the bucket, or on extensions that are open or
\* paid; one that ended unpaid holds nothing, and nothing comes back twice
\* (booking.service.ts:875).
CreditsAddUp ==
  /\ wallet + SumFunctionOnSet(points, Extensions) = Purse
  /\ bucket + SumFunctionOnSet(hours, Extensions) = Prepaid
  /\ \A e \in Extensions : ext[e] \in Closed => points[e] = 0 /\ hours[e] = 0

\* A retry or a race hands nothing back twice: she never has more than she had.
ReturnedOnce == wallet <= Purse /\ bucket <= Prepaid

Gained == [e \in Extensions |-> IF ext[e] = "PAID" THEN Hours ELSE 0]

\* The shift is longer by the hours of the extensions that are PAID, however often a
\* capture is reported (booking-extension.service.ts:458).
HoursAddedOnce == extra = SumFunctionOnSet(Gained, Extensions)

\* What is captured for an open extension of a running shift is applied, unless the
\* server stopped in between; nothing else keeps the money without the hours
\* (booking-extension.service.ts:486, paymob.service.ts:710).
CapturedIsApplied ==
  \A e \in Extensions :
    (pay[e] = "CAPTURED" /\ ext[e] = "ACCEPTED" /\ status = "IN_PROGRESS") =>
      \/ e \in cut
      \/ \E r \in Requests : req[r] # Idle /\ ~ At(r, "settle") /\ req[r].e = e
=============================================================================
