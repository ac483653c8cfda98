----------------------------- MODULE CarePoints -----------------------------
(***************************************************************************)
(* The mothers' Care Points: their wallets, the ledger of every movement,  *)
(* the referrals that pay both sides, and the handlers that move points:   *)
(* the end of a shift, a redemption on a booking and its returns (unpaid,  *)
(* paid, or by an edit), a code entered after signing up, the console's    *)
(* grants, one by one or in bulk.                                          *)
(*                                                                         *)
(* A handler in progress occupies a slot of `req`; an await is a step      *)
(* boundary.  A credit reads the wallet and writes the balance it read     *)
(* plus its points; getOrCreateWallet's upsert has an empty update, so it  *)
(* locks nothing and others move the wallet in between.  A claimed or new  *)
(* referral is locked until the commit.  What a transaction writes appears *)
(* at its commit.  A slot may crash at any step: the server stopped (or a  *)
(* statement failed), and the open transaction rolled back.                *)
(*                                                                         *)
(* The amounts are constants: what one booking earns and costs, and what   *)
(* the two sides of a referral get.  Of a booking's life only what moves   *)
(* points is here; an extension's points move by the same two relative     *)
(* statements and are BookingExtension's.  Left out: notifications, lists  *)
(* and the config screen (that a program is off is a choice at each read). *)
(***************************************************************************)
EXTENDS Integers, Sequences, FiniteSets, Functions

CONSTANTS
  Mothers, Bookings, Requests,
  Owner,      \* Owner[b]: booking.motherId
  Earn,       \* round(durationHours * pointsPerBookedHour)
  Cost,       \* the points a redemption of a booking takes
  Welcome,    \* config.refereePoints
  Bonus,      \* config.referrerPoints
  Grants,     \* the amounts an admin may enter: negative ones revoke
  MaxRows,    \* bound: with so many rows, nothing that may be repeated is begun
  NoMother

ASSUME CarePointsAssumption ==
  /\ Owner \in [Bookings -> Mothers]
  /\ Earn \in Nat \ {0} /\ Cost \in Nat \ {0}
  /\ Welcome \in Nat \ {0} /\ Bonus \in Nat \ {0}
  /\ Grants \subseteq Int \ {0}
  /\ MaxRows \in Nat
  /\ NoMother \notin Mothers
  /\ Mothers \cap Bookings = {}
  /\ IsFiniteSet(Bookings)

VARIABLES
  wallet,    \* wallet[m]: the rewardWallet row; zero before it is created
  ledger,    \* ledger[m]: the rewardLedgerEntry rows, oldest first
  status,    \* status[b]: of the booking, as far as points go
  spent,     \* spent[b]: booking.rewardCreditPoints
  referral,  \* referral[m]: the row with refereeId m
  req,       \* req[r]: the handler in slot r
  missed     \* history: completed bookings whose handler crashed or found the program off

vars == <<wallet, ledger, status, spent, referral, req, missed>>

Idle == [pc |-> "idle"]

Handler ==
  [op     : {"complete", "convert", "welcome", "grant", "cancel"},
   pc     : {"write", "check", "read", "credit", "refer", "claim", "create", "close"},
   mother : Mothers,                 \* whose wallet
   about  : Mothers \cup Bookings,   \* the booking, the referee, or the mother granted to
   by     : Mothers \cup {NoMother}, \* the referrer
   points : Int,
   read   : Nat]                     \* the balance read in the transaction

EntryType == {"EARN", "REDEEM", "REFUND", "ADMIN", "REFERRAL"}

TypeOK ==
  /\ wallet \in [Mothers -> [balance : Nat, earned : Nat, redeemed : Int]]
  /\ \A m \in Mothers : \A i \in DOMAIN ledger[m] :
       ledger[m][i] \in [type : EntryType, points : Int, after : Nat, about : Mothers \cup Bookings]
  /\ status \in [Bookings -> {"APPROVED", "CONFIRMED", "CANCELLED", "IN_PROGRESS", "COMPLETED"}]
  /\ spent \in [Bookings -> {0, Cost}]
  /\ referral \in [Mothers -> [status : {"none", "PENDING", "CONVERTED"},
                               by : Mothers \cup {NoMother}]]
  /\ req \in [Requests -> Handler \cup {Idle}]
  /\ missed \subseteq Bookings

Init ==
  /\ wallet = [m \in Mothers |-> [balance |-> 0, earned |-> 0, redeemed |-> 0]]
  /\ ledger = [m \in Mothers |-> <<>>]
  /\ status = [b \in Bookings |-> "APPROVED"]
  /\ spent = [b \in Bookings |-> 0]
  /\ referral = [m \in Mothers |-> [status |-> "none", by |-> NoMother]]
  /\ req = [r \in Requests |-> Idle]
  /\ missed = {}

-----------------------------------------------------------------------------
(* Handlers, locks and ledger rows. *)

Begin(r, op, pc, m, about, by, points) ==
  /\ req[r] = Idle
  /\ req' = [req EXCEPT ![r] = [op |-> op, pc |-> pc, mother |-> m, about |-> about,
                                by |-> by, points |-> points, read |-> 0]]

At(r, pc) == req[r] # Idle /\ req[r].pc = pc

Continue(r, pc) == req' = [req EXCEPT ![r].pc = pc]

Finish(r) == req' = [req EXCEPT ![r] = Idle]

\* An open transaction has claimed or inserted the referral of m.
ReferralLocked(m) ==
  \E r \in Requests :
    /\ req[r] # Idle
    /\ req[r].op \in {"convert", "welcome"}
    /\ req[r].pc \in {"read", "credit"}
    /\ req[r].about = m

Room == SumFunction([m \in Mothers |-> Len(ledger[m])]) < MaxRows

Row(type, points, after, about) ==
  [type |-> type, points |-> points, after |-> after, about |-> about]

\* The row for m, in the ledger.
Record(m, type, points, after, about) ==
  ledger' = [ledger EXCEPT ![m] = Append(@, Row(type, points, after, about))]

-----------------------------------------------------------------------------
(* A transaction that credits a wallet with the balance it has read. *)

TypeOf(op) ==
  CASE op = "complete" -> "EARN"
    [] op = "grant" -> "ADMIN"
    [] OTHER -> "REFERRAL"

\* A revoke is clamped at the balance.
Delta(r) == IF req[r].points < -req[r].read THEN -req[r].read ELSE req[r].points

\* getOrCreateWallet in the transaction.
ReadWallet(r) ==
  /\ At(r, "read")
  /\ req' = [req EXCEPT ![r].pc = "credit", ![r].read = wallet[req[r].mother].balance]
  /\ UNCHANGED <<wallet, ledger, status, spent, referral, missed>>

\* What the transaction makes of the referral's row.
Settled(op, by) ==
  [status |-> IF op = "convert" THEN "CONVERTED" ELSE "PENDING", by |-> by]

\* Mutant: a revoke takes from the lifetime total as well.
EarnedNowNet(earned, delta) == earned + delta

\* lifetimeEarned grows with what is granted only.
EarnedNow(earned, delta) == IF delta > 0 THEN earned + delta ELSE earned

\* The absolute write of the wallet, its ledger row, and the commit.
CreditWallet(r) ==
  /\ At(r, "credit")
  /\ Delta(r) # 0
  /\ LET h == req[r]
         after == h.read + Delta(r)
     IN /\ wallet' = [wallet EXCEPT
                        ![h.mother].balance = after,
                        ![h.mother].earned = EarnedNow(@, Delta(r))]
        /\ Record(h.mother, TypeOf(h.op), Delta(r), after, h.about)
        /\ IF h.op \in {"convert", "welcome"}
           THEN referral' = [referral EXCEPT ![h.about] = Settled(h.op, h.by)]
           ELSE UNCHANGED referral
        /\ IF h.op = "complete" THEN Continue(r, "refer") ELSE Finish(r)
  /\ UNCHANGED <<status, spent, missed>>

\* grantPoints finds nothing to revoke: the transaction is rolled back.
NothingToRevoke(r) ==
  /\ At(r, "credit")
  /\ Delta(r) = 0
  /\ Finish(r)
  /\ UNCHANGED <<wallet, ledger, status, spent, referral, missed>>

-----------------------------------------------------------------------------
(* The end of a shift: completeBooking, awardPointsForBooking and            *)
(* convertReferralForBooking.                                                *)

\* The booking is paid, or owes nothing.
Pay(b) ==
  /\ status[b] = "APPROVED"
  /\ status' = [status EXCEPT ![b] = "CONFIRMED"]
  /\ UNCHANGED <<wallet, ledger, spent, referral, req, missed>>

StartShift(b) ==
  /\ status[b] = "CONFIRMED"
  /\ status' = [status EXCEPT ![b] = "IN_PROGRESS"]
  /\ UNCHANGED <<wallet, ledger, spent, referral, req, missed>>

\* The nanny checks out, or the mother ends the shift.
CompleteRead(r, b) ==
  /\ status[b] = "IN_PROGRESS"
  /\ Begin(r, "complete", "write", Owner[b], b, NoMother, Earn)
  /\ UNCHANGED <<wallet, ledger, status, spent, referral, missed>>

CompleteWrite(r) ==
  /\ At(r, "write")
  /\ status' = [status EXCEPT ![req[r].about] = "COMPLETED"]
  /\ Continue(r, "check")
  /\ UNCHANGED <<wallet, ledger, spent, referral, missed>>

\* The rows of one kind about one booking or referee.
Rows(m, type, about) ==
  {i \in DOMAIN ledger[m] : ledger[m][i].type = type /\ ledger[m][i].about = about}

\* Mutant: a completed booking is taken for an awarded one.
AwardedByStatus(b) == status[b] = "COMPLETED"

\* The booking has its EARN row.
Awarded(b) == Rows(Owner[b], "EARN", b) # {}

\* In the transaction, before the wallet is read.
AwardCheck(r) ==
  /\ At(r, "check")
  /\ Continue(r, IF Awarded(req[r].about) THEN "refer" ELSE "read")
  /\ UNCHANGED <<wallet, ledger, status, spent, referral, missed>>

\* The program is off when its config is read.
AwardOff(r) ==
  /\ At(r, "check")
  /\ Continue(r, "refer")
  /\ missed' = missed \cup {req[r].about}
  /\ UNCHANGED <<wallet, ledger, status, spent, referral>>

\* The referral of the mother whose booking it was, if it still is PENDING.
ConvertRead(r) ==
  /\ At(r, "refer")
  /\ LET m == req[r].mother
     IN IF referral[m].status = "PENDING"
        THEN req' = [req EXCEPT ![r] = [@ EXCEPT !.op = "convert", !.pc = "claim",
                                          !.mother = referral[m].by, !.about = m,
                                          !.by = referral[m].by, !.points = Bonus]]
        ELSE Finish(r)
  /\ UNCHANGED <<wallet, ledger, status, spent, referral, missed>>

\* Referrals are off when their config is read.
ConvertOff(r) ==
  /\ At(r, "refer")
  /\ Finish(r)
  /\ UNCHANGED <<wallet, ledger, status, spent, referral, missed>>

\* Mutant: the claim is written by id.
ClaimGuardById(m) == TRUE

\* The claim's where clause.
ClaimGuard(m) == referral[m].status = "PENDING"

\* The guarded claim; its row stays locked until the bonus is credited.
ConvertClaim(r) ==
  /\ At(r, "claim")
  /\ ~ ReferralLocked(req[r].about)
  /\ IF ClaimGuard(req[r].about) THEN Continue(r, "read") ELSE Finish(r)
  /\ UNCHANGED <<wallet, ledger, status, spent, referral, missed>>

-----------------------------------------------------------------------------
(* A referral code entered after signing up: applyReferralCode. *)

ApplyRead(r, m, by) ==
  /\ m # by
  /\ referral[m].status = "none"
  /\ \A b \in Bookings : Owner[b] = m => status[b] # "COMPLETED"
  /\ Room
  /\ Begin(r, "welcome", "create", m, m, by, Welcome)
  /\ UNCHANGED <<wallet, ledger, status, spent, referral, missed>>

\* The unique key on refereeId.
NewReferral(m) == referral[m].status = "none"

\* The insert, which waits for another insert of the same referee.
ApplyCreate(r) ==
  /\ At(r, "create")
  /\ ~ ReferralLocked(req[r].about)
  /\ IF NewReferral(req[r].about) THEN Continue(r, "read") ELSE Finish(r)
  /\ UNCHANGED <<wallet, ledger, status, spent, referral, missed>>

-----------------------------------------------------------------------------
(* Points spent on a booking and returned, relative to the balance as it is. *)

\* Mutant: the debit does not look at the balance.
CanSpendAlways(m) == TRUE

\* The debit's where clause.
CanSpend(m) == wallet[m].balance >= Cost

\* applyBookingRedemption, in the transaction that writes the booking: a redemption
\* of the mother's, or an edit.
Redeem(b) ==
  /\ status[b] \in {"APPROVED", "CONFIRMED"}
  /\ spent[b] = 0
  /\ LET m == Owner[b]
     IN /\ Room
        /\ CanSpend(m)
        /\ wallet' = [wallet EXCEPT ![m].balance = @ - Cost, ![m].redeemed = @ + Cost]
        /\ Record(m, "REDEEM", -Cost, wallet[m].balance - Cost, b)
  /\ spent' = [spent EXCEPT ![b] = Cost]
  /\ UNCHANGED <<status, referral, req, missed>>

RedeemedAfterReturn(redeemed, points) == redeemed - points

\* refundBookingRedemption: the points of b go back to its mother's wallet.
GiveBack(b, points) ==
  LET m == Owner[b]
  IN /\ wallet' = [wallet EXCEPT ![m].balance = @ + points,
                                 ![m].redeemed = RedeemedAfterReturn(@, points)]
     /\ Record(m, "REFUND", points, wallet[m].balance + points, b)

\* The mother takes the points off, the unpaid booking is called off, or an edit
\* leaves nothing for points to pay: they leave the row in the same transaction.
Return(b, called) ==
  /\ status[b] \in (IF called THEN {"APPROVED"} ELSE {"APPROVED", "CONFIRMED"})
  /\ spent[b] > 0
  /\ GiveBack(b, spent[b])
  /\ spent' = [spent EXCEPT ![b] = 0]
  /\ status' = IF called THEN [status EXCEPT ![b] = "CANCELLED"] ELSE status
  /\ UNCHANGED <<referral, req, missed>>

\* The mother calls off a paid booking outside the window: cancelBooking reads it.
CancelRead(r, b) ==
  /\ status[b] = "CONFIRMED"
  /\ Begin(r, "cancel", "close", Owner[b], b, NoMother, spent[b])
  /\ UNCHANGED <<wallet, ledger, status, spent, referral, missed>>

\* returnPaidBookingCredits, behind the guarded cancel: the points as read go back
\* and stay on the row.
CancelWrite(r) ==
  /\ At(r, "close")
  /\ LET b == req[r].about
         points == req[r].points
     IN IF status[b] = "CONFIRMED"
        THEN /\ status' = [status EXCEPT ![b] = "CANCELLED"]
             /\ IF points > 0 THEN GiveBack(b, points) ELSE UNCHANGED <<wallet, ledger>>
        ELSE UNCHANGED <<wallet, ledger, status>>
  /\ Finish(r)
  /\ UNCHANGED <<spent, referral, missed>>

-----------------------------------------------------------------------------
(* The console's grants. *)

\* grantPoints
Grant(r, m, points) ==
  /\ Room
  /\ Begin(r, "grant", "read", m, m, NoMother, points)
  /\ UNCHANGED <<wallet, ledger, status, spent, referral, missed>>

\* bulkGrantPoints: one statement for the audience, relative to the balances.
BulkGrant(audience, points) ==
  /\ audience # {}
  /\ points > 0
  /\ Room
  /\ wallet' = [m \in Mothers |->
                  IF m \in audience
                  THEN [wallet[m] EXCEPT !.balance = @ + points, !.earned = @ + points]
                  ELSE wallet[m]]
  /\ ledger' = [m \in Mothers |->
                  IF m \in audience
                  THEN Append(ledger[m], Row("ADMIN", points, wallet[m].balance + points, m))
                  ELSE ledger[m]]
  /\ UNCHANGED <<status, spent, referral, req, missed>>

-----------------------------------------------------------------------------
(* The server stops: the handler is gone and its transaction rolled back. *)

Crash(r) ==
  /\ req[r] # Idle
  /\ missed' = IF req[r].op = "complete" /\ req[r].pc # "refer"
               THEN missed \cup {req[r].about} ELSE missed
  /\ Finish(r)
  /\ UNCHANGED <<wallet, ledger, status, spent, referral>>

Step(r) ==
  \/ ReadWallet(r) \/ CreditWallet(r) \/ NothingToRevoke(r)
  \/ CompleteWrite(r) \/ AwardCheck(r) \/ ConvertRead(r) \/ ConvertClaim(r)
  \/ ApplyCreate(r) \/ CancelWrite(r)

Next ==
  \/ \E b \in Bookings :
       \/ Pay(b) \/ StartShift(b) \/ Redeem(b)
       \/ \E called \in BOOLEAN : Return(b, called)
       \/ \E r \in Requests : CompleteRead(r, b) \/ CancelRead(r, b)
  \/ \E r \in Requests :
       \/ Step(r) \/ AwardOff(r) \/ ConvertOff(r) \/ Crash(r)
       \/ \E m, by \in Mothers : ApplyRead(r, m, by)
       \/ \E m \in Mothers, points \in Grants : Grant(r, m, points)
  \/ \E audience \in SUBSET Mothers, points \in Grants : BulkGrant(audience, points)

\* A handler that has begun goes on unless the server stops; Postgres hands a locked
\* referral to those who wait for it in turn, so nobody waits for ever.
Fairness == \A r \in Requests : SF_vars(Step(r))

Spec == Init /\ [][Next]_vars /\ Fairness

-----------------------------------------------------------------------------
(* Properties *)

Points(m) == [i \in DOMAIN ledger[m] |-> ledger[m][i].points]

RowsOf(m, types) == {i \in DOMAIN ledger[m] : ledger[m][i].type \in types}

GrantRows(m) == {i \in RowsOf(m, {"ADMIN"}) : ledger[m][i].points > 0}

Sum(m, types) == SumFunctionOnSet(Points(m), RowsOf(m, types))

Granted(m) == SumFunctionOnSet(Points(m), GrantRows(m))

\* The lifetime totals on a wallet are those of its rows, also where a credit writes
\* over a balance that moved since it was read: the totals are only ever incremented
\* (reward.service.ts:210, :303, :353, :439).
TotalsAgree ==
  \A m \in Mothers :
    /\ wallet[m].earned = Sum(m, {"EARN", "REFERRAL"}) + Granted(m)
    /\ wallet[m].redeemed = -Sum(m, {"REDEEM", "REFUND"})

\* Whoever was referred has her welcome points once, and her referrer has the
\* bonus once if the referral is converted and not before, however many of her
\* bookings end at the same time, and whatever crashes (referral.service.ts:210).
ReferralPaidOnce ==
  \A m \in Mothers :
    /\ Cardinality(Rows(m, "REFERRAL", m)) = (IF referral[m].status = "none" THEN 0 ELSE 1)
    /\ \A s \in Mothers \ {m} :
         Cardinality(Rows(s, "REFERRAL", m)) =
           (IF referral[m].status = "CONVERTED" /\ referral[m].by = s THEN 1 ELSE 0)

\* A completed booking earns its points in the end, unless the server stopped in
\* the middle of its completion, which nothing repeats, or the program was off
\* (booking.service.ts:2471).
CompletionPays ==
  \A b \in Bookings : (status[b] = "COMPLETED") ~> (Rows(Owner[b], "EARN", b) # {} \/ b \in missed)

-----------------------------------------------------------------------------
(* What the code says of itself and overlapping handlers break. *)

\* The ledger is the history of every movement, with signed changes and the running
\* balance after each (schema.prisma:806, :813, :815): the balance is their sum.
StatementsAddUp ==
  \A m \in Mothers : wallet[m].balance = SumFunctionOnSet(Points(m), DOMAIN ledger[m])

\* A booking earns points once (reward.service.ts:182).
EarnedOnce == \A b \in Bookings : Cardinality(Rows(Owner[b], "EARN", b)) <= 1

\* Points come back at most as often as they were spent on the booking
\* (booking.service.ts:1648).
ReturnedOnce ==
  \A b \in Bookings :
    Cardinality(Rows(Owner[b], "REFUND", b)) <= Cardinality(Rows(Owner[b], "REDEEM", b))
=============================================================================
