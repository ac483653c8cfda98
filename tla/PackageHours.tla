---------------------------- MODULE PackageHours ----------------------------
(***************************************************************************)
(* The prepaid hours of one mother: the buckets she bought, the ledger of  *)
(* every hour drawn, returned and forfeited, and the bookings and mid-shift*)
(* extensions that hold hours.                                             *)
(*                                                                         *)
(* A transaction that begins with a guarded write of its booking, or with  *)
(* the write that takes its bucket, is one step: the row stays locked.     *)
(* What is read before that, and what is written in a later transaction,   *)
(* is a step of its own, with a slot of `req` in between.  A slot may      *)
(* crash.                                                                  *)
(*                                                                         *)
(* The unique key on (userId, isActiveSlot) lets one bucket be ACTIVE at a *)
(* time, so the first-expiring-first loops visit one bucket.  Left out:    *)
(* the price of the hours, the skills they cover, who pays for a bucket    *)
(* (PackageCheckout), and a stale status override by the console that      *)
(* brings a booking back; a stale one that cancels it is here.             *)
(***************************************************************************)
EXTENDS Integers, FiniteSets, Functions

CONSTANTS
  Buckets,    \* the purchases
  Bookings, Extensions,
  Of,         \* Of[e]: bookingExtension.bookingId
  Underway,   \* the bookings that run from the start, on no prepaid hours
  Requests,
  Size,       \* packagePurchase.hoursPurchased
  Wanted      \* Wanted[s]: the hours that s may be worth spending

ASSUME PackageHoursAssumption ==
  /\ IsFiniteSet(Buckets)
  /\ IsFiniteSet(Bookings \cup Extensions)
  /\ Size \in Nat \ {0}
  /\ Bookings \cap Extensions = {}
  /\ Wanted \in [Bookings \cup Extensions -> SUBSET (Nat \ {0})]
  /\ Of \in [Extensions -> Bookings]
  /\ Underway \subseteq Bookings

Scopes == Bookings \cup Extensions

VARIABLES
  status,   \* status[p]: packagePurchase.status
  left,     \* left[p]: packagePurchase.hoursRemaining
  due,      \* due[p]: packagePurchase.expiresAt has passed
  state,    \* state[s]: of the booking or extension, as far as hours go
  applied,  \* applied[s]: packageHoursApplied
  drawn,    \* drawn[s][p]: hours of the REDEMPTION row; 0 when there is none
  live,     \* live[s][p]: that row is not soft-deleted
  back,     \* back[s][p]: hours of the REFUND row; 0 when there is none
  lost,     \* lost[p]: hours of the EXPIRY row
  req,      \* req[r]: the handler in slot r
  kept,     \* history: bookings called off that keep their hours by policy
  overtaken \* history: bookings edited once a cancel had returned their hours or
            \* found none; extensions accepted while being closed

bucket  == <<status, left, due, lost>>
scope   == <<state, applied, drawn, live, back>>
history == <<kept, overtaken>>
vars    == <<bucket, scope, req, history>>

Idle == [pc |-> "idle"]

Handler ==
  [pc : {"draw"}, scope : Scopes, bucket : Buckets, hours : Nat]
  \cup [pc : {"return", "cancel"}, scope : Bookings, byId : BOOLEAN]
  \cup [pc : {"settle"}, scope : Extensions, seen : SUBSET Buckets]
  \cup [pc : {"apply"}, scope : Extensions, hours : Nat, seen : Nat]

\* UNPAID: a PENDING or APPROVED booking, an ACCEPTED extension.
States == {"none", "ASKED", "UNPAID", "PAID", "RUNNING", "OVER", "CANCELLED"}

TypeOK ==
  /\ status \in [Buckets -> {"PENDING_PAYMENT", "ACTIVE", "EXPIRED"}]
  /\ left \in [Buckets -> Nat]
  /\ due \in [Buckets -> BOOLEAN]
  /\ state \in [Scopes -> States]
  /\ applied \in [Scopes -> Nat]
  /\ drawn \in [Scopes -> [Buckets -> Nat]]
  /\ live \in [Scopes -> [Buckets -> BOOLEAN]]
  /\ back \in [Scopes -> [Buckets -> Nat]]
  /\ lost \in [Buckets -> Nat]
  /\ req \in [Requests -> Handler \cup {Idle}]
  /\ kept \subseteq Scopes
  /\ overtaken \subseteq Scopes

Init ==
  /\ status = [p \in Buckets |-> "PENDING_PAYMENT"]
  /\ left = [p \in Buckets |-> 0]
  /\ due = [p \in Buckets |-> FALSE]
  /\ state = [s \in Scopes |-> IF s \in Underway THEN "RUNNING" ELSE "none"]
  /\ applied = [s \in Scopes |-> 0]
  /\ drawn = [s \in Scopes |-> [p \in Buckets |-> 0]]
  /\ live = [s \in Scopes |-> [p \in Buckets |-> FALSE]]
  /\ back = [s \in Scopes |-> [p \in Buckets |-> 0]]
  /\ lost = [p \in Buckets |-> 0]
  /\ req = [r \in Requests |-> Idle]
  /\ kept = {}
  /\ overtaken = {}

Begin(r, handler) ==
  /\ req[r] = Idle
  /\ req' = [req EXCEPT ![r] = handler]

At(r, pc) == req[r].pc = pc

Continue(r, pc) == req' = [req EXCEPT ![r].pc = pc]

Finish(r) == req' = [req EXCEPT ![r] = Idle]

Least(a, b) == IF a < b THEN a ELSE b

-----------------------------------------------------------------------------
(* The buckets. *)

\* creditPurchaseHours promotes a paid purchase, if the slot is free.
Activate(p) ==
  /\ status[p] = "PENDING_PAYMENT"
  /\ \A q \in Buckets : status[q] # "ACTIVE"
  /\ status' = [status EXCEPT ![p] = "ACTIVE"]
  /\ left' = [left EXCEPT ![p] = Size]
  /\ UNCHANGED <<due, lost, scope, req, history>>

Lapse(p) ==
  /\ status[p] = "ACTIVE"
  /\ ~ due[p]
  /\ due' = [due EXCEPT ![p] = TRUE]
  /\ UNCHANGED <<status, left, lost, scope, req, history>>

\* expirePackagesForUser: the status first, then what is left by then.
Expire(p) ==
  /\ status[p] = "ACTIVE"
  /\ due[p]
  /\ status' = [status EXCEPT ![p] = "EXPIRED"]
  /\ lost' = [lost EXCEPT ![p] = left[p]]
  /\ left' = [left EXCEPT ![p] = 0]
  /\ UNCHANGED <<due, scope, req, history>>

\* activeBuckets
Usable(p) == status[p] = "ACTIVE" /\ ~ due[p] /\ left[p] > 0

-----------------------------------------------------------------------------
(* Drawing hours: createBooking, and the acceptance of an extension. *)

\* requestBookingExtension, while the shift runs.
Ask(e) ==
  /\ state[e] = "none"
  /\ state[Of[e]] = "RUNNING"
  /\ state' = [state EXCEPT ![e] = "ASKED"]
  /\ UNCHANGED <<bucket, applied, drawn, live, back, req, history>>

\* A booking not yet made, or an extension the nanny has yet to answer.
Undrawn(s) == state[s] = IF s \in Bookings THEN "none" ELSE "ASKED"

\* The plan, from the buckets as read.
DrawPlan(r, s) ==
  /\ Undrawn(s)
  /\ \E p \in Buckets, want \in Wanted[s] :
       /\ Usable(p)
       /\ Begin(r, [pc |-> "draw", scope |-> s, bucket |-> p, hours |-> Least(want, left[p])])
  /\ UNCHANGED <<bucket, scope, history>>

\* Nothing to draw from.
DrawNothing(s) ==
  /\ Undrawn(s)
  /\ \A p \in Buckets : ~ Usable(p)
  /\ state' = [state EXCEPT ![s] = "UNPAID"]
  /\ UNCHANGED <<bucket, applied, drawn, live, back, req, history>>

\* Mutant: the balance is not looked at again.
CanTakeUnguarded(p, hours) == status[p] = "ACTIVE"

\* The debit's where clause.
CanTake(p, hours) == status[p] = "ACTIVE" /\ left[p] >= hours

\* The extension is being closed: the rows to give back have been read.
Closing(s) == \E r \in Requests : At(r, "settle") /\ req[r].scope = s

\* The guarded debit, its row, and the commit.  A booking is made by this commit; an
\* extension is accepted by id, whatever it has become.
DrawWrite(r) ==
  /\ At(r, "draw")
  /\ LET s == req[r].scope
         p == req[r].bucket
         hours == req[r].hours
     IN /\ s \in Bookings => state[s] = "none"
        /\ \/ /\ CanTake(p, hours)
              /\ drawn[s][p] = 0
              /\ left' = [left EXCEPT ![p] = @ - hours]
              /\ drawn' = [drawn EXCEPT ![s][p] = hours]
              /\ live' = [live EXCEPT ![s][p] = TRUE]
              /\ applied' = [applied EXCEPT ![s] = hours]
              /\ state' = [state EXCEPT ![s] = "UNPAID"]
              /\ overtaken' = IF Closing(s) THEN overtaken \cup {s} ELSE overtaken
           \/ /\ ~ CanTake(p, hours)
              /\ state' = [state EXCEPT ![s] = "UNPAID"]
              /\ UNCHANGED <<left, drawn, live, applied, overtaken>>
           \/ \* a second REDEMPTION row for the bucket: the transaction aborts
              /\ CanTake(p, hours)
              /\ drawn[s][p] > 0
              /\ UNCHANGED <<left, drawn, live, applied, state, overtaken>>
  /\ Finish(r)
  /\ UNCHANGED <<status, due, lost, back, kept>>

-----------------------------------------------------------------------------
(* Paying, and the shift. *)

\* The booking is paid for.
Pay(b) ==
  /\ state[b] = "UNPAID"
  /\ state' = [state EXCEPT ![b] = "PAID"]
  /\ UNCHANGED <<bucket, applied, drawn, live, back, req, history>>

Start(b) ==
  /\ state[b] = "PAID"
  /\ state' = [state EXCEPT ![b] = "RUNNING"]
  /\ UNCHANGED <<bucket, applied, drawn, live, back, req, history>>

\* Completed, or called off by the console: either way it keeps what it spent.
End(b) ==
  /\ state[b] = "RUNNING"
  /\ state' = [state EXCEPT ![b] = "OVER"]
  /\ UNCHANGED <<bucket, applied, drawn, live, back, req, history>>

\* applyPaidExtension reads the extension and its booking, ...
ApplyRead(r, e) ==
  /\ state[e] = "UNPAID"
  /\ state[Of[e]] = "RUNNING"
  /\ Begin(r, [pc |-> "apply", scope |-> e, hours |-> applied[e], seen |-> applied[Of[e]]])
  /\ UNCHANGED <<bucket, scope, history>>

\* ... and writes both by id: the extension's hours are added to the booking's column.
ApplyWrite(r) ==
  /\ At(r, "apply")
  /\ LET e == req[r].scope
     IN /\ applied' = [applied EXCEPT ![Of[e]] = req[r].seen + req[r].hours]
        /\ state' = [state EXCEPT ![e] = "PAID"]
  /\ Finish(r)
  /\ UNCHANGED <<bucket, drawn, live, back, history>>

-----------------------------------------------------------------------------
(* Returning hours: refundPackageHours. *)

\* The live REDEMPTION rows of s that have no REFUND row.
Unreturned(s) == {p \in Buckets : drawn[s][p] > 0 /\ live[s][p] /\ back[s][p] = 0}

\* Mutant: only the buckets activeBuckets lists are credited.
CreditableIfUsable(p) == Usable(p)

\* The increment's where clause.
Creditable(p) == status[p] = "ACTIVE"

\* The buckets of S get back what s drew from them, each with a REFUND row.
GiveBack(s, S) ==
  LET T == {p \in S : Creditable(p)}
  IN /\ left' = [p \in Buckets |-> IF p \in T THEN left[p] + drawn[s][p] ELSE left[p]]
     /\ back' = [back EXCEPT ![s] = [p \in Buckets |-> IF p \in T THEN drawn[s][p] ELSE @[p]]]

\* A cancel of an unpaid booking, by a party or the console, as it is read: with no
\* hours on it there is nothing to return.
CancelRead(r, b) ==
  /\ state[b] = "UNPAID"
  /\ \E byId \in BOOLEAN :
       Begin(r, [pc |-> IF applied[b] > 0 THEN "return" ELSE "cancel",
                 scope |-> b, byId |-> byId])
  /\ UNCHANGED <<bucket, scope, history>>

\* refundPackageHoursIfApplied's where clause.
ReturnGuard(b) == state[b] = "UNPAID" /\ applied[b] > 0

CancelReturn(r) ==
  /\ At(r, "return")
  /\ LET b == req[r].scope
     IN IF ReturnGuard(b)
        THEN /\ GiveBack(b, Unreturned(b))
             /\ applied' = [applied EXCEPT ![b] = 0]
        ELSE UNCHANGED <<left, back, applied>>
  /\ Continue(r, "cancel")
  /\ UNCHANGED <<status, due, lost, state, drawn, live, history>>

\* The cancelling write: the parties' is guarded, the console's is by id.
CancelWrite(r) ==
  /\ At(r, "cancel")
  /\ LET b == req[r].scope
     IN IF state[b] = "UNPAID" \/ req[r].byId
        THEN /\ state' = [state EXCEPT ![b] = "CANCELLED"]
             /\ kept' = IF state[b] \in {"UNPAID", "CANCELLED"} THEN kept ELSE kept \cup {b}
        ELSE UNCHANGED <<state, kept>>
  /\ Finish(r)
  /\ UNCHANGED <<bucket, applied, drawn, live, back, overtaken>>

\* A paid booking is called off: by the mother outside the window, and the cancelling
\* transaction returns what it spent; by anyone else, and it keeps that.
CancelPaid(b) ==
  /\ state[b] = "PAID"
  /\ state' = [state EXCEPT ![b] = "CANCELLED"]
  /\ \/ GiveBack(b, Unreturned(b)) /\ UNCHANGED kept
     \/ kept' = kept \cup {b} /\ UNCHANGED <<left, back>>
  /\ UNCHANGED <<status, due, lost, applied, drawn, live, req, overtaken>>

\* settleExtensionUnpaid reads the extension as open, and its rows, ...
SettleRead(r, e) ==
  /\ state[e] \in {"ASKED", "UNPAID"}
  /\ Begin(r, [pc |-> "settle", scope |-> e, seen |-> Unreturned(e)])
  /\ UNCHANGED <<bucket, scope, history>>

\* Mutant: no unique key on (bookingExtensionId, purchaseId, type).
RefundIsNewAlways(e, S) == TRUE

\* The unique key on the REFUND rows.
RefundIsNew(e, S) == \A p \in S : Creditable(p) => back[e][p] = 0

\* ... and closes it by id, holding no hours; a second REFUND row aborts that.
SettleWrite(r) ==
  /\ At(r, "settle")
  /\ LET e == req[r].scope
         S == req[r].seen
     IN IF RefundIsNew(e, S)
        THEN /\ GiveBack(e, S)
             /\ applied' = [applied EXCEPT ![e] = 0]
             /\ state' = [state EXCEPT ![e] = "CANCELLED"]
        ELSE UNCHANGED <<left, back, applied, state>>
  /\ Finish(r)
  /\ UNCHANGED <<status, due, lost, drawn, live, history>>

-----------------------------------------------------------------------------
(* An edit of the booking: reapplyPackageHoursForBooking. *)

\* Rows that are not drawn from again are soft-deleted.
RowLiveAfterEdit(b, p, from) == p = from

\* A cancel has returned the credits of b or found none, and may be about to write.
Overtakes(b) ==
  \/ \E p \in Buckets : back[b][p] > 0
  \/ \E r \in Requests : At(r, "cancel") /\ req[r].scope = b

\* Bound: a booking whose hours were returned and restored again is left alone.
EditBound(b) == b \notin overtaken

\* The live rows' hours go back to their buckets, new ones are drawn, and the rows
\* are altered in place.  `from` is the bucket drawn from, if any.
Edit(b) ==
  /\ EditBound(b)
  /\ state[b] \in {"UNPAID", "PAID"}
  /\ LET restored ==
           [p \in Buckets |->
              IF live[b][p] /\ status[p] = "ACTIVE" THEN left[p] + drawn[b][p] ELSE left[p]]
     IN \/ \E p \in Buckets, want \in Wanted[b] :
             /\ status[p] = "ACTIVE" /\ ~ due[p] /\ restored[p] > 0
             /\ LET hours == Least(want, restored[p])
                IN /\ left' = [restored EXCEPT ![p] = @ - hours]
                   /\ drawn' = [drawn EXCEPT ![b][p] = hours]
                   /\ applied' = [applied EXCEPT ![b] = hours]
             /\ live' = [live EXCEPT ![b] = [q \in Buckets |-> RowLiveAfterEdit(b, q, p)]]
        \/ \* package hours turned off, none left, or taken since they were counted
           /\ left' = restored
           /\ applied' = [applied EXCEPT ![b] = 0]
           /\ live' = [live EXCEPT ![b] = [q \in Buckets |-> FALSE]]
           /\ UNCHANGED drawn
  /\ overtaken' = IF Overtakes(b) THEN overtaken \cup {b} ELSE overtaken
  /\ UNCHANGED <<status, due, lost, state, back, req, kept>>

-----------------------------------------------------------------------------
Crash(r) ==
  /\ req[r] # Idle
  /\ Finish(r)
  /\ UNCHANGED <<bucket, scope, history>>

Next ==
  \/ \E p \in Buckets : Activate(p) \/ Lapse(p) \/ Expire(p)
  \/ \E s \in Scopes : DrawNothing(s)
  \/ \E b \in Bookings : Pay(b) \/ Start(b) \/ End(b) \/ CancelPaid(b) \/ Edit(b)
  \/ \E e \in Extensions : Ask(e)
  \/ \E r \in Requests :
       \/ \E s \in Scopes : DrawPlan(r, s)
       \/ \E b \in Bookings : CancelRead(r, b)
       \/ \E e \in Extensions : SettleRead(r, e) \/ ApplyRead(r, e)
       \/ DrawWrite(r) \/ ApplyWrite(r)
       \/ CancelReturn(r) \/ CancelWrite(r) \/ SettleWrite(r) \/ Crash(r)

Spec == Init /\ [][Next]_vars

-----------------------------------------------------------------------------
(* Properties *)

\* The hours of p's live REDEMPTION rows, and of its REFUND rows.
Taken(p)    == [s \in Scopes |-> IF live[s][p] THEN drawn[s][p] ELSE 0]
Returned(p) == [s \in Scopes |-> back[s][p]]

\* What the live rows of p's ledger add up to.
LedgerSum(p) ==
  (IF status[p] = "PENDING_PAYMENT" THEN 0 ELSE Size)
  - SumFunctionOnSet(Taken(p), Scopes) + SumFunctionOnSet(Returned(p), Scopes) - lost[p]

\* A usable bucket holds what its ledger says, although draws, returns, forfeits
\* and edits of several bookings overlap and edits alter the rows in place
\* (package-hours.service.ts:184, :249, :318).  It does not say that an hour comes back
\* once: a return followed by an edit adds the hours twice, and the rows agree.
BucketsBalance == \A p \in Buckets : status[p] = "ACTIVE" => left[p] = LedgerSum(p)

\* Whatever is called off has its hours back in their bucket, unless the bucket
\* expired or the policy keeps them (package-hours.service.ts:223).  A booking edited
\* behind a cancel and an extension accepted behind its closing are excused: those
\* lose their hours.
CancelReturnsHours ==
  \A s \in Scopes \ (kept \cup overtaken) :
    state[s] = "CANCELLED" =>
      \A p \in Buckets : p \in Unreturned(s) => status[p] = "EXPIRED"
=============================================================================
