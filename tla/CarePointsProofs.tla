-------------------------- MODULE CarePointsProofs --------------------------
(***************************************************************************)
(* For any mothers, bookings and grants and any number of overlapping      *)
(* handlers: no balance goes below zero, the lifetime totals of a wallet   *)
(* are those of its rows, and a referral pays each side once.  The first   *)
(* two rest on the statements themselves (a credit adds what is clamped at *)
(* the balance it read, a debit is conditional, the totals are only ever   *)
(* incremented), the third on the lock of a claimed or inserted referral.  *)
(***************************************************************************)
EXTENDS CarePoints, SequenceTheorems, SumTheorems

Wallet == [balance : Nat, earned : Int, redeemed : Int]

LedgerRow == [type : EntryType, points : Int, after : Nat, about : Mothers \cup Bookings]

WalletsType ==
  /\ wallet \in [Mothers -> Wallet]
  /\ ledger \in [Mothers -> Seq(LedgerRow)]

HandlersType == req \in [Requests -> Handler \cup {Idle}]

Referral == [status : {"none", "PENDING", "CONVERTED"}, by : Mothers \cup {NoMother}]

ReferralsType == referral \in [Mothers -> Referral]

\* A referral that can still be converted names its referrer, and so does every
\* handler that is about to credit one.
ReferrersKnown ==
  /\ \A m \in Mothers : referral[m].status = "PENDING" => referral[m].by \in Mothers
  /\ \A r \in Requests :
       req[r] # Idle /\ req[r].op \in {"convert", "welcome"} => req[r].by \in Mothers

\* What a booking carries, and what a cancel in progress is about.
SpendingKnown ==
  /\ spent \in [Bookings -> {0, Cost}]
  /\ \A r \in Requests : At(r, "close") => req[r].about \in Bookings

BaseInv == WalletsType /\ HandlersType /\ ReferralsType /\ ReferrersKnown

-----------------------------------------------------------------------------
(* The handlers' slots. *)

LEMMA BusyIsHandler ==
  ASSUME HandlersType, NEW r \in Requests, req[r] # Idle
  PROVE  req[r] \in Handler
BY DEF HandlersType

\* A step that leaves referrals alone keeps the invariant if the handler that moves
\* is one, with its referrer if it needs one.
LEMMA SlotMoves ==
  ASSUME BaseInv, WalletsType', UNCHANGED referral,
         NEW r \in Requests, NEW h \in Handler \cup {Idle},
         h # Idle => (h.op \in {"convert", "welcome"} => h.by \in Mothers),
         req' = [req EXCEPT ![r] = h]
  PROVE  BaseInv'
<1>1. req' \in [Requests -> Handler \cup {Idle}]
      /\ req'[r] = h /\ \A s \in Requests \ {r} : req'[s] = req[s]
  BY DEF BaseInv, HandlersType
<1>2. HandlersType' /\ ReferralsType'
  BY <1>1 DEF BaseInv, HandlersType, ReferralsType
<1>3. ReferrersKnown'
  BY <1>1 DEF BaseInv, ReferrersKnown
<1> QED
  BY <1>2, <1>3 DEF BaseInv

\* Wallets nobody writes.
LEMMA SameWallets ==
  ASSUME BaseInv, UNCHANGED <<wallet, ledger>>
  PROVE  WalletsType'
BY DEF BaseInv, WalletsType

\* A handler that ends.
LEMMA Finishes ==
  ASSUME BaseInv, UNCHANGED <<wallet, ledger, referral>>, NEW r \in Requests, Finish(r)
  PROVE  BaseInv'
BY SlotMoves, SameWallets DEF Finish

\* A handler that goes on.
LEMMA Continues ==
  ASSUME BaseInv, UNCHANGED <<wallet, ledger, referral>>, NEW r \in Requests,
         req[r] # Idle, NEW pc \in {"write", "check", "read", "refer", "claim", "create"},
         Continue(r, pc)
  PROVE  BaseInv'
<1> DEFINE h == [req[r] EXCEPT !.pc = pc]
<1>1. req[r] \in Handler
  BY BusyIsHandler DEF BaseInv
<1>2. h \in Handler /\ h.pc = pc /\ h.op = req[r].op /\ h.by = req[r].by
  BY <1>1 DEF Handler
<1>3. req' = [req EXCEPT ![r] = h]
  BY DEF Continue
<1>4. h.op \in {"convert", "welcome"} => h.by \in Mothers
  BY <1>2 DEF BaseInv, ReferrersKnown
<1> HIDE DEF h
<1> QED
  BY <1>2, <1>3, <1>4, SlotMoves, SameWallets

\* A handler that begins.
LEMMA Begins ==
  ASSUME BaseInv, UNCHANGED <<wallet, ledger, referral>>, NEW r \in Requests,
         NEW op \in {"complete", "convert", "welcome", "grant", "cancel"},
         NEW pc \in {"write", "check", "read", "refer", "claim", "create", "close"},
         NEW m \in Mothers, NEW about \in Mothers \cup Bookings,
         NEW by \in Mothers \cup {NoMother}, NEW points \in Int,
         op \in {"convert", "welcome"} => by \in Mothers,
         Begin(r, op, pc, m, about, by, points)
  PROVE  BaseInv'
<1> DEFINE h == [op |-> op, pc |-> pc, mother |-> m, about |-> about,
                 by |-> by, points |-> points, read |-> 0]
<1>1. h \in Handler /\ h.pc = pc /\ h.op = op /\ h.by = by
  BY DEF Handler
<1>2. req' = [req EXCEPT ![r] = h]
  BY DEF Begin
<1> HIDE DEF h
<1> QED
  BY <1>1, <1>2, SlotMoves, SameWallets

-----------------------------------------------------------------------------
(* Statements that move a wallet. *)

\* One row more for one mother.
LEMMA OneRow ==
  ASSUME WalletsType, NEW m \in Mothers, NEW w \in Wallet,
         wallet' = [wallet EXCEPT ![m] = w],
         NEW type \in EntryType, NEW points \in Int, NEW after \in Nat,
         NEW about \in Mothers \cup Bookings,
         Record(m, type, points, after, about)
  PROVE  WalletsType'
<1> DEFINE e == Row(type, points, after, about)
<1>1. e \in LedgerRow
  BY DEF Row, LedgerRow
<1>2. ledger' = [ledger EXCEPT ![m] = Append(ledger[m], e)]
  BY DEF Record
<1> HIDE DEF e
<1>3. Append(ledger[m], e) \in Seq(LedgerRow)
  BY <1>1, AppendProperties DEF WalletsType
<1> QED
  BY <1>2, <1>3 DEF WalletsType

\* Points that go back to a wallet.
LEMMA GivesBack ==
  ASSUME WalletsType, NEW b \in Bookings, NEW points \in Nat, GiveBack(b, points)
  PROVE  WalletsType'
<1> DEFINE m == Owner[b]
           w == [wallet[m] EXCEPT !.balance = wallet[m].balance + points,
                                  !.redeemed = wallet[m].redeemed - points]
<1>1. m \in Mothers /\ b \in Mothers \cup Bookings
  BY CarePointsAssumption
<1>2. wallet[m] \in Wallet
  BY <1>1 DEF WalletsType
<1>3. wallet[m].balance + points \in Nat /\ wallet[m].redeemed - points \in Int
  BY <1>2 DEF Wallet
<1>4. w \in Wallet
  BY <1>2, <1>3 DEF Wallet
<1>5. wallet' = [wallet EXCEPT ![m] = w]
  BY <1>1, <1>2 DEF GiveBack, RedeemedAfterReturn, Wallet
<1>6. Record(m, "REFUND", points, wallet[m].balance + points, b)
  BY DEF GiveBack
<1>7. "REFUND" \in EntryType
  BY DEF EntryType
<1> HIDE DEF w, m
<1>8. points \in Int
  OBVIOUS
<1> QED
  BY <1>1, <1>3, <1>4, <1>5, <1>6, <1>7, <1>8, OneRow

-----------------------------------------------------------------------------
(* The actions. *)

LEMMA ReadWalletOK ==
  ASSUME BaseInv, NEW r \in Requests, ReadWallet(r)
  PROVE  BaseInv'
<1> DEFINE h == [req[r] EXCEPT !.pc = "credit", !.read = wallet[req[r].mother].balance]
<1>1. req[r] \in Handler /\ req[r] # Idle
  BY BusyIsHandler DEF ReadWallet, At, BaseInv
<1>2. wallet[req[r].mother].balance \in Nat
  BY <1>1 DEF BaseInv, WalletsType, Wallet, Handler
<1>3. h \in Handler /\ h.op = req[r].op /\ h.by = req[r].by
  BY <1>1, <1>2 DEF Handler
<1>4. h.op \in {"convert", "welcome"} => h.by \in Mothers
  BY <1>1, <1>3 DEF BaseInv, ReferrersKnown
<1>5. req' = [req EXCEPT ![r] = h] /\ UNCHANGED <<wallet, ledger, referral>>
  BY DEF ReadWallet
<1> HIDE DEF h
<1> QED
  BY <1>3, <1>4, <1>5, SlotMoves, SameWallets

\* The credit writes the balance it read and its change, which is clamped there.
LEMMA CreditWalletOK ==
  ASSUME BaseInv, NEW r \in Requests, CreditWallet(r)
  PROVE  BaseInv'
<1> DEFINE h == req[r]
           m == h.mother
           after == h.read + Delta(r)
           w == [wallet[m] EXCEPT !.balance = after, !.earned = EarnedNow(wallet[m].earned, Delta(r))]
<1>1. h \in Handler /\ h # Idle
  BY BusyIsHandler DEF CreditWallet, At, BaseInv
<1>2. m \in Mothers /\ h.read \in Nat /\ h.points \in Int
      /\ h.about \in Mothers \cup Bookings /\ h.by \in Mothers \cup {NoMother}
  BY <1>1 DEF Handler
<1>3. Delta(r) \in Int /\ after \in Nat
  BY <1>2 DEF Delta
<1>4. wallet[m] \in Wallet
  BY <1>2 DEF BaseInv, WalletsType
<1>5. w \in Wallet
  <2>1. EarnedNow(wallet[m].earned, Delta(r)) \in Int
    BY <1>3, <1>4 DEF Wallet, EarnedNow
  <2> QED
    BY <1>3, <1>4, <2>1 DEF Wallet
<1>6. wallet' = [wallet EXCEPT ![m] = w]
  BY DEF CreditWallet
<1>7. Record(m, TypeOf(h.op), Delta(r), after, h.about)
  BY DEF CreditWallet
<1>8. TypeOf(h.op) \in EntryType
  BY DEF TypeOf, EntryType
<1>9. WalletsType
  BY DEF BaseInv
<1>10. req' = [req EXCEPT ![r].pc = "refer"] \/ req' = [req EXCEPT ![r] = Idle]
  BY DEF CreditWallet, Continue, Finish
<1>11. [h EXCEPT !.pc = "refer"] \in Handler
  BY <1>1 DEF Handler
<1>12. /\ req' \in [Requests -> Handler \cup {Idle}]
       /\ \A s \in Requests \ {r} : req'[s] = req[s]
       /\ req'[r] = Idle \/ req'[r] = [h EXCEPT !.pc = "refer"]
  BY <1>10, <1>11 DEF BaseInv, HandlersType
<1>13. h.op \in {"convert", "welcome"} => h.by \in Mothers
  BY <1>1 DEF BaseInv, ReferrersKnown
<1>14. \/ UNCHANGED referral
       \/ /\ h.op \in {"convert", "welcome"}
          /\ referral' = [referral EXCEPT ![h.about] = Settled(h.op, h.by)]
  BY DEF CreditWallet
<1>15. h.op \in {"convert", "welcome"} => Settled(h.op, h.by) \in Referral
         /\ Settled(h.op, h.by).by \in Mothers
  BY <1>13 DEF Settled, Referral
<1> HIDE DEF w, after, m, h
<1>16. WalletsType'
  BY <1>2, <1>3, <1>5, <1>6, <1>7, <1>8, <1>9, OneRow
<1>17. /\ ReferralsType'
       /\ \A o \in Mothers : referral'[o].status = "PENDING" => referral'[o].by \in Mothers
  <2>1. CASE UNCHANGED referral
    BY <2>1 DEF BaseInv, ReferralsType, ReferrersKnown
  <2>2. CASE /\ h.op \in {"convert", "welcome"}
             /\ referral' = [referral EXCEPT ![h.about] = Settled(h.op, h.by)]
    BY <1>15, <2>2 DEF BaseInv, ReferralsType, ReferrersKnown
  <2> QED
    BY <1>14, <2>1, <2>2
<1>18. \A s \in Requests :
         req'[s] # Idle /\ req'[s].op \in {"convert", "welcome"} => req'[s].by \in Mothers
  BY <1>1, <1>12, <1>13 DEF BaseInv, ReferrersKnown, Handler
<1> QED
  BY <1>12, <1>16, <1>17, <1>18 DEF BaseInv, HandlersType, ReferrersKnown

LEMMA CompletionOK ==
  ASSUME BaseInv, NEW r \in Requests,
         \/ CompleteWrite(r) \/ AwardCheck(r) \/ AwardOff(r)
         \/ ConvertOff(r) \/ ConvertClaim(r) \/ ApplyCreate(r)
         \/ NothingToRevoke(r) \/ Crash(r)
  PROVE  BaseInv'
<1>1. UNCHANGED <<wallet, ledger, referral>> /\ req[r] # Idle
  BY DEF CompleteWrite, AwardCheck, AwardOff, ConvertOff, ConvertClaim, ApplyCreate,
         NothingToRevoke, Crash, At
<1>2. Finish(r) \/ \E pc \in {"write", "check", "read", "refer", "claim", "create"} :
                     Continue(r, pc)
  BY DEF CompleteWrite, AwardCheck, AwardOff, ConvertOff, ConvertClaim, ApplyCreate,
         NothingToRevoke, Crash
<1> QED
  BY <1>1, <1>2, Finishes, Continues

\* Who is to be paid for a conversion is read from the referral.
LEMMA ConvertReadOK ==
  ASSUME BaseInv, NEW r \in Requests, ConvertRead(r)
  PROVE  BaseInv'
<1> DEFINE m == req[r].mother
           h == [req[r] EXCEPT !.op = "convert", !.pc = "claim", !.mother = referral[m].by,
                               !.about = m, !.by = referral[m].by, !.points = Bonus]
<1>1. req[r] \in Handler
  BY BusyIsHandler DEF ConvertRead, At, BaseInv
<1>2. UNCHANGED <<wallet, ledger, referral>>
  BY DEF ConvertRead
<1>3. CASE referral[m].status = "PENDING"
  <2>1. m \in Mothers
    BY <1>1 DEF Handler
  <2>2. referral[m].by \in Mothers
    BY <1>3, <2>1 DEF BaseInv, ReferrersKnown
  <2>3. Bonus \in Int
    BY CarePointsAssumption
  <2>4. h \in Handler /\ h.pc = "claim" /\ h.by \in Mothers
    BY <1>1, <2>1, <2>2, <2>3 DEF Handler
  <2>5. req' = [req EXCEPT ![r] = h]
    BY <1>3 DEF ConvertRead
  <2> HIDE DEF h
  <2> QED
    BY <1>2, <2>4, <2>5, SlotMoves, SameWallets
<1>4. CASE referral[m].status # "PENDING"
  BY <1>2, <1>4, Finishes DEF ConvertRead
<1> QED
  BY <1>3, <1>4

LEMMA BeginningsOK ==
  ASSUME BaseInv, SpendingKnown, NEW r \in Requests,
         \/ \E b \in Bookings : CompleteRead(r, b) \/ CancelRead(r, b)
         \/ \E m, by \in Mothers : ApplyRead(r, m, by)
         \/ \E m \in Mothers, points \in Grants : Grant(r, m, points)
  PROVE  BaseInv'
<1>1. CASE \E b \in Bookings : CompleteRead(r, b)
  <2>1. PICK b \in Bookings : CompleteRead(r, b)
    BY <1>1
  <2>2. Owner[b] \in Mothers /\ Earn \in Int
    BY CarePointsAssumption
  <2>3. Begin(r, "complete", "write", Owner[b], b, NoMother, Earn)
        /\ UNCHANGED <<wallet, ledger, referral>>
    BY <2>1 DEF CompleteRead
  <2> QED
    BY <2>2, <2>3, Begins
<1>2. CASE \E m, by \in Mothers : ApplyRead(r, m, by)
  <2>1. PICK m \in Mothers, by \in Mothers : ApplyRead(r, m, by)
    BY <1>2
  <2>2. Welcome \in Int
    BY CarePointsAssumption
  <2>3. Begin(r, "welcome", "create", m, m, by, Welcome)
        /\ UNCHANGED <<wallet, ledger, referral>>
    BY <2>1 DEF ApplyRead
  <2> QED
    BY <2>2, <2>3, Begins
<1>3. CASE \E m \in Mothers, points \in Grants : Grant(r, m, points)
  <2>1. PICK m \in Mothers, points \in Grants : Grant(r, m, points)
    BY <1>3
  <2>2. points \in Int
    BY CarePointsAssumption
  <2>3. Begin(r, "grant", "read", m, m, NoMother, points)
        /\ UNCHANGED <<wallet, ledger, referral>>
    BY <2>1 DEF Grant
  <2> QED
    BY <2>2, <2>3, Begins
<1>4. CASE \E b \in Bookings : CancelRead(r, b)
  <2>1. PICK b \in Bookings : CancelRead(r, b)
    BY <1>4
  <2>2. Owner[b] \in Mothers /\ spent[b] \in Int
    BY CarePointsAssumption DEF SpendingKnown
  <2>3. Begin(r, "cancel", "close", Owner[b], b, NoMother, spent[b])
        /\ UNCHANGED <<wallet, ledger, referral>>
    BY <2>1 DEF CancelRead
  <2> QED
    BY <2>2, <2>3, Begins
<1> QED
  BY <1>1, <1>2, <1>3, <1>4

\* The guarded cancel gives back what it read.
LEMMA CancelWriteOK ==
  ASSUME BaseInv, SpendingKnown, NEW r \in Requests, CancelWrite(r)
  PROVE  BaseInv'
<1>1. req[r] \in Handler /\ req[r] # Idle
  BY BusyIsHandler DEF CancelWrite, At, BaseInv
<1>2. WalletsType'
  <2>1. CASE UNCHANGED <<wallet, ledger>>
    BY <2>1, SameWallets
  <2>2. CASE ~ UNCHANGED <<wallet, ledger>>
    <3>1. req[r].points > 0 /\ GiveBack(req[r].about, req[r].points)
      BY <2>2 DEF CancelWrite
    <3>2. req[r].points \in Nat
      BY <1>1, <3>1 DEF Handler
    <3>3. req[r].about \in Bookings
      BY DEF CancelWrite, SpendingKnown
    <3> QED
      BY <3>1, <3>2, <3>3, GivesBack DEF BaseInv
  <2> QED
    BY <2>1, <2>2
<1>3. UNCHANGED referral /\ req' = [req EXCEPT ![r] = Idle]
  BY DEF CancelWrite, Finish
<1> QED
  BY <1>2, <1>3, SlotMoves

\* Spending and returning: no handler moves.
LEMMA SpendingOK ==
  ASSUME BaseInv, SpendingKnown, NEW b \in Bookings,
         Redeem(b) \/ \E called \in BOOLEAN : Return(b, called)
  PROVE  BaseInv'
<1> DEFINE m == Owner[b]
<1>1. m \in Mothers /\ b \in Mothers \cup Bookings /\ Cost \in Nat \ {0}
  BY CarePointsAssumption
<1>2. wallet[m] \in Wallet /\ WalletsType
  BY <1>1 DEF BaseInv, WalletsType
<1>3. UNCHANGED <<req, referral>>
  BY DEF Redeem, Return
<1>4. WalletsType'
  <2>1. CASE Redeem(b)
    <3> DEFINE w == [wallet[m] EXCEPT !.balance = wallet[m].balance - Cost,
                                      !.redeemed = wallet[m].redeemed + Cost]
    <3>1. wallet[m].balance >= Cost
      BY <2>1 DEF Redeem, CanSpend
    <3>2. wallet[m].balance - Cost \in Nat /\ wallet[m].redeemed + Cost \in Int /\ -Cost \in Int
      BY <1>1, <1>2, <3>1 DEF Wallet
    <3>3. w \in Wallet
      BY <1>2, <3>2 DEF Wallet
    <3>4. wallet' = [wallet EXCEPT ![m] = w]
      BY <1>1, <1>2, <2>1 DEF Redeem, Wallet
    <3>5. Record(m, "REDEEM", -Cost, wallet[m].balance - Cost, b)
      BY <2>1 DEF Redeem
    <3>6. "REDEEM" \in EntryType
      BY DEF EntryType
    <3> HIDE DEF w, m
    <3> QED
      BY <1>1, <1>2, <3>2, <3>3, <3>4, <3>5, <3>6, OneRow
  <2>2. CASE \E called \in BOOLEAN : Return(b, called)
    <3>1. GiveBack(b, spent[b]) /\ spent[b] \in Nat
      BY <1>1, <2>2 DEF Return, SpendingKnown
    <3> QED
      BY <1>2, <3>1, GivesBack
  <2> QED
    BY <2>1, <2>2
<1> QED
  BY <1>3, <1>4 DEF BaseInv, HandlersType, ReferralsType, ReferrersKnown

LEMMA BulkGrantOK ==
  ASSUME BaseInv, NEW audience \in SUBSET Mothers, NEW points \in Grants,
         BulkGrant(audience, points)
  PROVE  BaseInv'
<1>1. points \in Nat \ {0}
  <2>1. points \in Int
    BY CarePointsAssumption
  <2>2. points > 0
    BY DEF BulkGrant
  <2> QED
    BY <2>1, <2>2
<1>2. /\ UNCHANGED <<req, referral>>
      /\ wallet' = [m \in Mothers |->
                      IF m \in audience
                      THEN [wallet[m] EXCEPT !.balance = wallet[m].balance + points,
                                             !.earned = wallet[m].earned + points]
                      ELSE wallet[m]]
      /\ ledger' = [m \in Mothers |->
                      IF m \in audience
                      THEN Append(ledger[m], Row("ADMIN", points, wallet[m].balance + points, m))
                      ELSE ledger[m]]
  BY DEF BulkGrant
<1>3. ASSUME NEW m \in audience
      PROVE  /\ wallet'[m] \in Wallet
             /\ ledger'[m] \in Seq(LedgerRow)
  <2> DEFINE e == Row("ADMIN", points, wallet[m].balance + points, m)
  <2>1. wallet[m] \in Wallet /\ ledger[m] \in Seq(LedgerRow)
    BY DEF BaseInv, WalletsType
  <2>2. wallet[m].balance + points \in Nat /\ wallet[m].earned + points \in Int
    BY <1>1, <2>1 DEF Wallet
  <2>3. wallet'[m] \in Wallet
    BY <1>2, <2>1, <2>2 DEF Wallet
  <2>4. "ADMIN" \in EntryType
    BY DEF EntryType
  <2>5. e \in LedgerRow
    BY <1>1, <2>2, <2>4 DEF Row, LedgerRow
  <2>6. ledger'[m] = Append(ledger[m], e)
    BY <1>2
  <2> HIDE DEF e
  <2> QED
    BY <2>1, <2>3, <2>5, <2>6, AppendProperties
<1>4. WalletsType'
  BY <1>2, <1>3 DEF BaseInv, WalletsType
<1> QED
  BY <1>2, <1>4 DEF BaseInv, HandlersType, ReferralsType, ReferrersKnown

LEMMA StepOK ==
  ASSUME BaseInv, SpendingKnown, NEW r \in Requests, Step(r)
  PROVE  BaseInv'
BY ReadWalletOK, CreditWalletOK, CompletionOK, ConvertReadOK, CancelWriteOK DEF Step

LEMMA NextOK ==
  ASSUME BaseInv, SpendingKnown, Next
  PROVE  BaseInv'
<1>1. CASE \E b \in Bookings :
             \/ Pay(b) \/ StartShift(b) \/ Redeem(b)
             \/ \E called \in BOOLEAN : Return(b, called)
             \/ \E r \in Requests : CompleteRead(r, b) \/ CancelRead(r, b)
  <2>1. ASSUME NEW b \in Bookings, Pay(b) \/ StartShift(b) PROVE BaseInv'
    BY <2>1 DEF Pay, StartShift, BaseInv, WalletsType, HandlersType, ReferralsType, ReferrersKnown
  <2> QED
    BY <1>1, <2>1, SpendingOK, BeginningsOK
<1>2. CASE \E r \in Requests :
             \/ Step(r) \/ AwardOff(r) \/ ConvertOff(r) \/ Crash(r)
             \/ \E m, by \in Mothers : ApplyRead(r, m, by)
             \/ \E m \in Mothers, points \in Grants : Grant(r, m, points)
  BY <1>2, StepOK, CompletionOK, BeginningsOK
<1>3. CASE \E audience \in SUBSET Mothers, points \in Grants : BulkGrant(audience, points)
  BY <1>3, BulkGrantOK
<1> QED
  BY <1>1, <1>2, <1>3 DEF Next

-----------------------------------------------------------------------------
(* What the rows of a ledger add up to, and how many there are. *)

Chosen(s, T) == {i \in DOMAIN s : s[i] \in T}

PointsIn(s, T) == SumFunctionOnSet([i \in DOMAIN s |-> s[i].points], Chosen(s, T))

\* A row more is among the chosen ones, or changes nothing.
LEMMA AppendChosen ==
  ASSUME NEW s \in Seq(LedgerRow), NEW e \in LedgerRow, NEW T
  PROVE  /\ IsFiniteSet(Chosen(s, T))
         /\ Cardinality(Chosen(s, T)) \in Nat
         /\ PointsIn(s, T) \in Int
         /\ Cardinality(Chosen(Append(s, e), T)) =
              Cardinality(Chosen(s, T)) + (IF e \in T THEN 1 ELSE 0)
         /\ PointsIn(Append(s, e), T) = PointsIn(s, T) + (IF e \in T THEN e.points ELSE 0)
<1> DEFINE A == Chosen(s, T)
           t == Append(s, e)
           B == Chosen(t, T)
           f == [i \in DOMAIN s |-> s[i].points]
           g == [i \in DOMAIN t |-> t[i].points]
           n == Len(s) + 1
<1>1. /\ Len(s) \in Nat /\ DOMAIN s = 1 .. Len(s)
      /\ \A i \in 1 .. Len(s) : s[i] \in LedgerRow
      /\ DOMAIN t = 1 .. n /\ t[n] = e
      /\ \A i \in 1 .. Len(s) : t[i] = s[i]
  OBVIOUS
<1> HIDE DEF t
<1>2. IsFiniteSet(A) /\ Cardinality(A) \in Nat /\ n \notin A
  <2>1. IsFiniteSet(1 .. Len(s)) /\ A \subseteq 1 .. Len(s)
    BY <1>1, FS_Interval DEF Chosen
  <2>2. IsFiniteSet(A) /\ n \notin A
    BY <1>1, <2>1, FS_Subset
  <2> QED
    BY <2>2, FS_CardinalityType
<1>3. \A i \in A : f[i] \in Int /\ g[i] = f[i] /\ i \in 1 .. n
  BY <1>1 DEF Chosen, LedgerRow
<1>4. e.points \in Int /\ g[n] = e.points
  BY <1>1 DEF LedgerRow
<1>5. PointsIn(s, T) = SumFunctionOnSet(f, A) /\ PointsIn(t, T) = SumFunctionOnSet(g, B)
  BY DEF PointsIn
<1>6. B = IF e \in T THEN A \cup {n} ELSE A
  <2>1. \A i : i \in 1 .. n <=> i \in 1 .. Len(s) \/ i = n
    BY <1>1
  <2> QED
    BY <1>1, <2>1 DEF Chosen
<1> HIDE DEF A, B, f, g, n
<1>7. SumFunctionOnSet(f, A) \in Int
  BY <1>2, <1>3, SumInt
<1>8. CASE e \in T
  <2>1. Cardinality(A \cup {n}) = Cardinality(A) + 1
    BY <1>2, FS_AddElement
  <2>2. SumFunctionOnSet(g, A \cup {n}) = SumFunctionOnSet(f, A) + g[n]
    BY <1>2, <1>3, <1>4, SumAdd
  <2> QED
    BY <1>2, <1>4, <1>5, <1>6, <1>7, <1>8, <2>1, <2>2 DEF A, B, t
<1>9. CASE e \notin T
  <2>1. SumFunctionOnSet(g, A) = SumFunctionOnSet(f, A)
    BY <1>2, <1>3, SumSame
  <2> QED
    BY <1>2, <1>5, <1>6, <1>7, <1>9, <2>1 DEF A, B, t
<1> QED
  BY <1>8, <1>9

OfTypes(types) == {row \in LedgerRow : row.type \in types}

Additions == {row \in LedgerRow : row.type = "ADMIN" /\ row.points > 0}

OfType(type, about) == {row \in LedgerRow : row.type = type /\ row.about = about}

Count(m, about) == Cardinality(Rows(m, "REFERRAL", about))

\* The sums and counts of the properties, in these terms.
LEMMA SumsAreOfRows ==
  ASSUME WalletsType, NEW m \in Mothers
  PROVE  /\ \A types : Sum(m, types) = PointsIn(ledger[m], OfTypes(types))
         /\ Granted(m) = PointsIn(ledger[m], Additions)
         /\ \A about : Count(m, about) = Cardinality(Chosen(ledger[m], OfType("REFERRAL", about)))
<1>1. \A i \in DOMAIN ledger[m] : ledger[m][i] \in LedgerRow
  BY DEF WalletsType
<1>2. \A types : RowsOf(m, types) = Chosen(ledger[m], OfTypes(types))
  BY <1>1 DEF RowsOf, Chosen, OfTypes
<1>3. GrantRows(m) = Chosen(ledger[m], Additions)
  BY <1>1 DEF GrantRows, RowsOf, Chosen, Additions
<1>4. \A about : Rows(m, "REFERRAL", about) = Chosen(ledger[m], OfType("REFERRAL", about))
  BY <1>1 DEF Rows, Chosen, OfType
<1> QED
  BY <1>2, <1>3, <1>4 DEF Sum, Granted, Count, Points, PointsIn

\* What one row more changes.
LEMMA RowCounts ==
  ASSUME WalletsType, WalletsType', NEW m \in Mothers, NEW e \in LedgerRow,
         ledger'[m] = Append(ledger[m], e)
  PROVE  /\ \A types : /\ Sum(m, types) \in Int
                       /\ Sum(m, types)' = Sum(m, types) + (IF e.type \in types THEN e.points ELSE 0)
         /\ Granted(m) \in Int
         /\ Granted(m)' = Granted(m) + (IF e.type = "ADMIN" /\ e.points > 0 THEN e.points ELSE 0)
         /\ \A about : /\ Count(m, about) \in Nat
                       /\ Count(m, about)' =
                            Count(m, about) + (IF e.type = "REFERRAL" /\ e.about = about THEN 1 ELSE 0)
<1>1. ledger[m] \in Seq(LedgerRow)
  BY DEF WalletsType
<1>2. /\ \A types : Sum(m, types)' = PointsIn(ledger'[m], OfTypes(types))
      /\ Granted(m)' = PointsIn(ledger'[m], Additions)
      /\ \A about : Count(m, about)' = Cardinality(Chosen(ledger'[m], OfType("REFERRAL", about)))
  <2>1. \A i \in DOMAIN ledger'[m] : ledger'[m][i] \in LedgerRow
    BY DEF WalletsType
  <2>2. \A types : RowsOf(m, types)' = Chosen(ledger'[m], OfTypes(types))
    BY <2>1 DEF RowsOf, Chosen, OfTypes
  <2>3. GrantRows(m)' = Chosen(ledger'[m], Additions)
    BY <2>1 DEF GrantRows, RowsOf, Chosen, Additions
  <2>4. \A about : Rows(m, "REFERRAL", about)' = Chosen(ledger'[m], OfType("REFERRAL", about))
    BY <2>1 DEF Rows, Chosen, OfType
  <2> QED
    BY <2>2, <2>3, <2>4 DEF Sum, Granted, Count, Points, PointsIn
<1>3. ASSUME NEW types
      PROVE  /\ Sum(m, types) \in Int
             /\ Sum(m, types)' = Sum(m, types) + (IF e.type \in types THEN e.points ELSE 0)
  <2>1. e \in OfTypes(types) <=> e.type \in types
    BY DEF OfTypes
  <2> QED
    BY <1>1, <1>2, <2>1, AppendChosen, SumsAreOfRows
<1>4. /\ Granted(m) \in Int
      /\ Granted(m)' = Granted(m) + (IF e.type = "ADMIN" /\ e.points > 0 THEN e.points ELSE 0)
  <2>1. e \in Additions <=> e.type = "ADMIN" /\ e.points > 0
    BY DEF Additions
  <2> QED
    BY <1>1, <1>2, <2>1, AppendChosen, SumsAreOfRows
<1>5. ASSUME NEW about
      PROVE  /\ Count(m, about) \in Nat
             /\ Count(m, about)' =
                  Count(m, about) + (IF e.type = "REFERRAL" /\ e.about = about THEN 1 ELSE 0)
  <2>1. e \in OfType("REFERRAL", about) <=> e.type = "REFERRAL" /\ e.about = about
    BY DEF OfType
  <2> QED
    BY <1>1, <1>2, <2>1, AppendChosen, SumsAreOfRows
<1> QED
  BY <1>3, <1>4, <1>5

\* A ledger that is as it was counts what it counted.
LEMMA SameCounts ==
  ASSUME NEW m, ledger'[m] = ledger[m]
  PROVE  /\ \A types : Sum(m, types)' = Sum(m, types)
         /\ Granted(m)' = Granted(m)
         /\ \A about : Count(m, about)' = Count(m, about)
BY DEF Sum, Granted, Count, Points, RowsOf, GrantRows, Rows

-----------------------------------------------------------------------------
(* The invariant of the totals and the referrals. *)

FieldsType ==
  /\ \A m \in Mothers : wallet[m].earned \in Nat
  /\ status \in [Bookings -> {"APPROVED", "CONFIRMED", "CANCELLED", "IN_PROGRESS", "COMPLETED"}]
  /\ spent \in [Bookings -> {0, Cost}]
  /\ missed \subseteq Bookings

Totals(m) ==
  /\ wallet[m].earned = Sum(m, {"EARN", "REFERRAL"}) + Granted(m)
  /\ wallet[m].redeemed = -Sum(m, {"REDEEM", "REFUND"})

PaidOnce(m) ==
  /\ Count(m, m) = (IF referral[m].status = "none" THEN 0 ELSE 1)
  /\ \A s \in Mothers \ {m} :
       Count(s, m) = (IF referral[m].status = "CONVERTED" /\ referral[m].by = s THEN 1 ELSE 0)

\* What a handler is doing, for whom and about what.
Shape(h) ==
  \/ /\ h.op = "complete"
     /\ h.pc \in {"write", "check", "read", "credit", "refer"}
     /\ h.about \in Bookings /\ h.mother = Owner[h.about] /\ h.points = Earn
  \/ /\ h.op = "convert"
     /\ h.pc \in {"claim", "read", "credit"}
     /\ h.about \in Mothers /\ h.mother \in Mothers \ {h.about} /\ h.by = h.mother
     /\ h.points = Bonus
  \/ /\ h.op = "welcome"
     /\ h.pc \in {"create", "read", "credit"}
     /\ h.about \in Mothers /\ h.mother = h.about /\ h.by \in Mothers \ {h.about}
     /\ h.points = Welcome
  \/ /\ h.op = "grant"
     /\ h.pc \in {"read", "credit"}
     /\ h.about = h.mother /\ h.points \in Grants
  \/ /\ h.op = "cancel"
     /\ h.pc = "close"
     /\ h.about \in Bookings /\ h.points \in {0, Cost}

Shapes == \A r \in Requests : req[r] # Idle => Shape(req[r])

\* The handler's transaction has claimed the referral it is about, or inserted it.
HasReferral(h) == h # Idle /\ h.op \in {"convert", "welcome"} /\ h.pc \in {"read", "credit"}

\* What a handler that has the referral, or is after it, knows of it.
KnowsReferral(h) ==
  /\ HasReferral(h) =>
       referral[h.about].status = (IF h.op = "convert" THEN "PENDING" ELSE "none")
  /\ (h # Idle /\ h.op = "convert") =>
       referral[h.about].status # "none" /\ referral[h.about].by = h.by

ReferralsHeld ==
  /\ \A m \in Mothers : referral[m].status # "none" => referral[m].by \in Mothers \ {m}
  /\ \A r \in Requests : KnowsReferral(req[r])
  /\ \A r, s \in Requests :
       HasReferral(req[r]) /\ HasReferral(req[s]) /\ req[r].about = req[s].about => r = s

PointsInv ==
  /\ FieldsType /\ Shapes /\ ReferralsHeld
  /\ \A m \in Mothers : Totals(m)
  /\ \A m \in Mothers : PaidOnce(m)

\* A mother nothing was recorded for.
LEMMA KeptTotals ==
  ASSUME PointsInv, NEW m \in Mothers, wallet'[m] = wallet[m], ledger'[m] = ledger[m]
  PROVE  Totals(m)'
BY SameCounts DEF PointsInv, Totals

\* A slot moves to a handler of a shape, which knows what it needs to, and nobody is
\* paid for a referral.
LEMMA SlotMovesWith ==
  ASSUME BaseInv, PointsInv, UNCHANGED referral, FieldsType',
         \A m \in Mothers : Totals(m)',
         \A s, m \in Mothers : Count(s, m)' = Count(s, m),
         NEW r \in Requests, NEW h, req' = [req EXCEPT ![r] = h],
         h # Idle => Shape(h), KnowsReferral(h),
         HasReferral(h) => \A s \in Requests \ {r} : HasReferral(req[s]) => req[s].about # h.about
  PROVE  PointsInv'
<1>1. req'[r] = h /\ \A s \in Requests \ {r} : req'[s] = req[s]
  BY DEF BaseInv, HandlersType
<1>2. Shapes'
  BY <1>1 DEF PointsInv, Shapes, Shape
<1>3. ReferralsHeld'
  <2>1. \A s \in Requests : KnowsReferral(req[s])'
    BY <1>1 DEF PointsInv, ReferralsHeld, KnowsReferral, HasReferral
  <2>2. ASSUME NEW s \in Requests, NEW u \in Requests, HasReferral(req[s])', HasReferral(req[u])',
               req'[s].about = req'[u].about
        PROVE  s = u
    BY <1>1, <2>2 DEF PointsInv, ReferralsHeld, HasReferral
  <2> QED
    BY <2>1, <2>2 DEF PointsInv, ReferralsHeld
<1>4. \A m \in Mothers : PaidOnce(m)'
  BY DEF PointsInv, PaidOnce
<1> QED
  BY <1>2, <1>3, <1>4 DEF PointsInv

\* Nothing moves but a slot: to a handler of a shape, which knows what it needs to.
LEMMA SlotMovesOn ==
  ASSUME BaseInv, PointsInv, UNCHANGED <<wallet, ledger, referral, spent>>, FieldsType',
         NEW r \in Requests, NEW h, req' = [req EXCEPT ![r] = h],
         h # Idle => Shape(h), KnowsReferral(h),
         HasReferral(h) => \A s \in Requests \ {r} : HasReferral(req[s]) => req[s].about # h.about
  PROVE  PointsInv'
<1>1. \A m \in Mothers : Totals(m)'
  BY KeptTotals
<1>2. \A s, m \in Mothers : Count(s, m)' = Count(s, m)
  BY SameCounts
<1> QED
  BY <1>1, <1>2, SlotMovesWith

\* A handler that ends.
LEMMA EndsWell ==
  ASSUME BaseInv, PointsInv, UNCHANGED <<wallet, ledger, referral, spent>>, FieldsType',
         NEW r \in Requests, Finish(r)
  PROVE  PointsInv'
<1>1. KnowsReferral(Idle) /\ ~ HasReferral(Idle)
  BY DEF KnowsReferral, HasReferral
<1> QED
  BY <1>1, SlotMovesOn DEF Finish

\* A handler that goes on; it is given the referral only if nobody has it.
LEMMA GoesOn ==
  ASSUME BaseInv, PointsInv, UNCHANGED <<wallet, ledger, referral, spent>>, FieldsType',
         NEW r \in Requests, req[r] # Idle, NEW pc \in {"check", "read", "refer"}, Continue(r, pc),
         Shape([req[r] EXCEPT !.pc = pc]),
         (pc = "read" /\ req[r].op \in {"convert", "welcome"}) =>
            /\ ~ ReferralLocked(req[r].about)
            /\ referral[req[r].about].status = (IF req[r].op = "convert" THEN "PENDING" ELSE "none")
  PROVE  PointsInv'
<1> DEFINE h == [req[r] EXCEPT !.pc = pc]
<1>1. req[r] \in Handler
  BY BusyIsHandler DEF BaseInv
<1>2. h.pc = pc /\ h.op = req[r].op /\ h.by = req[r].by /\ h.about = req[r].about
  BY <1>1 DEF Handler
<1>3. req' = [req EXCEPT ![r] = h] /\ Shape(h)
  BY DEF Continue
<1> HIDE DEF h
<1>4. KnowsReferral(h)
  BY <1>2 DEF KnowsReferral, HasReferral, PointsInv, ReferralsHeld
<1>5. HasReferral(h) => \A s \in Requests \ {r} : HasReferral(req[s]) => req[s].about # h.about
  BY <1>2 DEF HasReferral, ReferralLocked
<1> QED
  BY <1>3, <1>4, <1>5, SlotMovesOn

\* A handler that begins: none begins with a referral.
LEMMA BeginsWell ==
  ASSUME BaseInv, PointsInv, UNCHANGED <<wallet, ledger, referral, spent>>, FieldsType',
         NEW r \in Requests, NEW h, req' = [req EXCEPT ![r] = h], h # Idle => Shape(h),
         h.op # "convert", ~ HasReferral(h)
  PROVE  PointsInv'
<1>1. KnowsReferral(h)
  BY DEF KnowsReferral
<1> QED
  BY <1>1, SlotMovesOn

LEMMA BeginningsKeep ==
  ASSUME BaseInv, PointsInv, NEW r \in Requests,
         \/ \E b \in Bookings : CompleteRead(r, b) \/ CancelRead(r, b)
         \/ \E m, by \in Mothers : ApplyRead(r, m, by)
         \/ \E m \in Mothers, points \in Grants : Grant(r, m, points)
  PROVE  PointsInv'
<1>1. CASE \E b \in Bookings : CompleteRead(r, b)
  <2>1. PICK b \in Bookings : CompleteRead(r, b)
    BY <1>1
  <2> DEFINE h == [op |-> "complete", pc |-> "write", mother |-> Owner[b], about |-> b,
                   by |-> NoMother, points |-> Earn, read |-> 0]
  <2>2. UNCHANGED <<wallet, ledger, referral, spent, status, missed>> /\ req' = [req EXCEPT ![r] = h]
    BY <2>1 DEF CompleteRead, Begin
  <2>3. Shape(h) /\ h.op # "convert" /\ ~ HasReferral(h)
    BY DEF Shape, HasReferral
  <2>4. FieldsType'
    BY <2>2 DEF PointsInv, FieldsType
  <2> HIDE DEF h
  <2> QED
    BY <2>2, <2>3, <2>4, BeginsWell
<1>2. CASE \E m, by \in Mothers : ApplyRead(r, m, by)
  <2>1. PICK m \in Mothers, by \in Mothers : ApplyRead(r, m, by)
    BY <1>2
  <2> DEFINE h == [op |-> "welcome", pc |-> "create", mother |-> m, about |-> m,
                   by |-> by, points |-> Welcome, read |-> 0]
  <2>2. /\ UNCHANGED <<wallet, ledger, referral, spent, status, missed>>
        /\ req' = [req EXCEPT ![r] = h] /\ m # by
    BY <2>1 DEF ApplyRead, Begin
  <2>3. Shape(h) /\ h.op # "convert" /\ ~ HasReferral(h)
    BY <2>2 DEF Shape, HasReferral
  <2>4. FieldsType'
    BY <2>2 DEF PointsInv, FieldsType
  <2> HIDE DEF h
  <2> QED
    BY <2>2, <2>3, <2>4, BeginsWell
<1>3. CASE \E m \in Mothers, points \in Grants : Grant(r, m, points)
  <2>1. PICK m \in Mothers, points \in Grants : Grant(r, m, points)
    BY <1>3
  <2> DEFINE h == [op |-> "grant", pc |-> "read", mother |-> m, about |-> m,
                   by |-> NoMother, points |-> points, read |-> 0]
  <2>2. /\ UNCHANGED <<wallet, ledger, referral, spent, status, missed>>
        /\ req' = [req EXCEPT ![r] = h]
    BY <2>1 DEF Grant, Begin
  <2>3. Shape(h) /\ h.op # "convert" /\ ~ HasReferral(h)
    BY DEF Shape, HasReferral
  <2>4. FieldsType'
    BY <2>2 DEF PointsInv, FieldsType
  <2> HIDE DEF h
  <2> QED
    BY <2>2, <2>3, <2>4, BeginsWell
<1>4. CASE \E b \in Bookings : CancelRead(r, b)
  <2>1. PICK b \in Bookings : CancelRead(r, b)
    BY <1>4
  <2> DEFINE h == [op |-> "cancel", pc |-> "close", mother |-> Owner[b], about |-> b,
                   by |-> NoMother, points |-> spent[b], read |-> 0]
  <2>2. UNCHANGED <<wallet, ledger, referral, spent, status, missed>> /\ req' = [req EXCEPT ![r] = h]
    BY <2>1 DEF CancelRead, Begin
  <2>3. Shape(h) /\ h.op # "convert" /\ ~ HasReferral(h)
    BY DEF Shape, HasReferral, PointsInv, FieldsType
  <2>4. FieldsType'
    BY <2>2 DEF PointsInv, FieldsType
  <2> HIDE DEF h
  <2> QED
    BY <2>2, <2>3, <2>4, BeginsWell
<1> QED
  BY <1>1, <1>2, <1>3, <1>4

\* A handler that is at a point of its program has the shape that belongs to it.
LEMMA ShapeAt ==
  ASSUME BaseInv, PointsInv, NEW r \in Requests, req[r] # Idle
  PROVE  /\ req[r] \in Handler /\ Shape(req[r]) /\ KnowsReferral(req[r])
         /\ req[r].pc \in {"write", "check", "refer"} => req[r].op = "complete"
         /\ req[r].pc = "claim" => req[r].op = "convert"
         /\ req[r].pc = "create" => req[r].op = "welcome"
         /\ req[r].op = "complete" => req[r].about \in Bookings
         /\ req[r].pc = "close" => req[r].about \in Bookings /\ req[r].points \in {0, Cost}
         /\ req[r].pc = "credit" => req[r].op # "cancel"
<1>1. req[r] \in Handler /\ Shape(req[r]) /\ KnowsReferral(req[r])
  BY BusyIsHandler DEF BaseInv, PointsInv, Shapes, ReferralsHeld
<1> QED
  BY <1>1 DEF Shape

LEMMA CompletionKeeps ==
  ASSUME BaseInv, PointsInv, NEW r \in Requests,
         \/ CompleteWrite(r) \/ AwardCheck(r) \/ AwardOff(r)
         \/ ConvertOff(r) \/ ConvertClaim(r) \/ ApplyCreate(r)
         \/ NothingToRevoke(r) \/ Crash(r)
  PROVE  PointsInv'
<1>1. UNCHANGED <<wallet, ledger, referral, spent>> /\ req[r] # Idle
  BY DEF CompleteWrite, AwardCheck, AwardOff, ConvertOff, ConvertClaim, ApplyCreate,
         NothingToRevoke, Crash, At
<1>2. /\ req[r] \in Handler /\ Shape(req[r]) /\ KnowsReferral(req[r])
      /\ req[r].pc \in {"write", "check", "refer"} => req[r].op = "complete"
      /\ req[r].pc = "claim" => req[r].op = "convert"
      /\ req[r].pc = "create" => req[r].op = "welcome"
      /\ req[r].op = "complete" => req[r].about \in Bookings
  BY <1>1, ShapeAt
<1>3. FieldsType'
  <2>1. CASE CompleteWrite(r)
    BY <1>2, <2>1 DEF CompleteWrite, At, PointsInv, FieldsType
  <2>2. CASE AwardOff(r) \/ Crash(r)
    BY <1>2, <2>2 DEF AwardOff, Crash, At, PointsInv, FieldsType
  <2>3. CASE AwardCheck(r) \/ ConvertOff(r) \/ ConvertClaim(r) \/ ApplyCreate(r) \/ NothingToRevoke(r)
    BY <2>3 DEF AwardCheck, ConvertOff, ConvertClaim, ApplyCreate, NothingToRevoke, PointsInv,
                FieldsType
  <2> QED
    BY <2>1, <2>2, <2>3
<1>4. CASE Finish(r)
  BY <1>1, <1>3, <1>4, EndsWell
<1>5. CASE ~ Finish(r)
  <2>1. \/ At(r, "write") /\ Continue(r, "check")
        \/ At(r, "check") /\ Continue(r, "read")
        \/ At(r, "check") /\ Continue(r, "refer")
        \/ At(r, "claim") /\ Continue(r, "read") /\ ~ ReferralLocked(req[r].about)
             /\ referral[req[r].about].status = "PENDING"
        \/ At(r, "create") /\ Continue(r, "read") /\ ~ ReferralLocked(req[r].about)
             /\ referral[req[r].about].status = "none"
    BY <1>5 DEF CompleteWrite, AwardCheck, AwardOff, ConvertOff, ConvertClaim, ApplyCreate,
                NothingToRevoke, Crash, ClaimGuard, NewReferral
  <2>2. PICK pc \in {"check", "read", "refer"} :
          /\ Continue(r, pc)
          /\ \/ req[r].op = "complete"
             \/ req[r].op = "convert" /\ pc = "read" /\ ~ ReferralLocked(req[r].about)
                  /\ referral[req[r].about].status = "PENDING"
             \/ req[r].op = "welcome" /\ pc = "read" /\ ~ ReferralLocked(req[r].about)
                  /\ referral[req[r].about].status = "none"
    BY <1>2, <2>1 DEF At
  <2>3. Shape([req[r] EXCEPT !.pc = pc])
    BY <1>2, <2>2 DEF Shape, Handler
  <2> QED
    BY <1>1, <1>3, <2>2, <2>3, GoesOn
<1> QED
  BY <1>4, <1>5

LEMMA ConvertReadKeeps ==
  ASSUME BaseInv, PointsInv, NEW r \in Requests, ConvertRead(r)
  PROVE  PointsInv'
<1> DEFINE m == req[r].mother
           h == [req[r] EXCEPT !.op = "convert", !.pc = "claim", !.mother = referral[m].by,
                               !.about = m, !.by = referral[m].by, !.points = Bonus]
<1>1. UNCHANGED <<wallet, ledger, referral, spent, status, missed>> /\ req[r] # Idle
  BY DEF ConvertRead, At
<1>2. req[r] \in Handler
  BY <1>1, ShapeAt
<1>3. FieldsType'
  BY <1>1 DEF PointsInv, FieldsType
<1>4. CASE referral[m].status = "PENDING"
  <2>1. m \in Mothers /\ referral[m].by \in Mothers \ {m}
    BY <1>2, <1>4 DEF Handler, PointsInv, ReferralsHeld
  <2>2. /\ h.op = "convert" /\ h.pc = "claim" /\ h.mother = referral[m].by /\ h.about = m
        /\ h.by = referral[m].by /\ h.points = Bonus
    BY <1>2 DEF Handler
  <2>3. req' = [req EXCEPT ![r] = h]
    BY <1>4 DEF ConvertRead
  <2> HIDE DEF h, m
  <2>4. Shape(h) /\ ~ HasReferral(h) /\ KnowsReferral(h)
    BY <1>4, <2>1, <2>2 DEF Shape, HasReferral, KnowsReferral
  <2> QED
    BY <1>1, <1>3, <2>3, <2>4, SlotMovesOn
<1>5. CASE referral[m].status # "PENDING"
  BY <1>1, <1>3, <1>5, EndsWell DEF ConvertRead
<1> QED
  BY <1>4, <1>5

LEMMA ReadWalletKeeps ==
  ASSUME BaseInv, PointsInv, NEW r \in Requests, ReadWallet(r)
  PROVE  PointsInv'
<1> DEFINE h == [req[r] EXCEPT !.pc = "credit", !.read = wallet[req[r].mother].balance]
<1>1. UNCHANGED <<wallet, ledger, referral, spent, status, missed>> /\ req[r] # Idle
      /\ req[r].pc = "read" /\ req' = [req EXCEPT ![r] = h]
  BY DEF ReadWallet, At
<1>2. req[r] \in Handler /\ Shape(req[r]) /\ KnowsReferral(req[r])
  BY <1>1, ShapeAt
<1>3. FieldsType'
  BY <1>1 DEF PointsInv, FieldsType
<1>4. /\ h.pc = "credit" /\ h.op = req[r].op /\ h.mother = req[r].mother
      /\ h.about = req[r].about /\ h.by = req[r].by /\ h.points = req[r].points
  BY <1>2 DEF Handler
<1> HIDE DEF h
<1>5. Shape(h) /\ KnowsReferral(h)
  BY <1>1, <1>2, <1>4 DEF Shape, KnowsReferral, HasReferral
<1>6. HasReferral(h) => \A s \in Requests \ {r} : HasReferral(req[s]) => req[s].about # h.about
  BY <1>1, <1>4 DEF HasReferral, PointsInv, ReferralsHeld
<1> QED
  BY <1>1, <1>3, <1>5, <1>6, SlotMovesOn

\* What a credit adds, by the kind of its handler.
LEMMA CreditTotals ==
  ASSUME BaseInv, WalletsType', PointsInv, NEW r \in Requests, CreditWallet(r)
  PROVE  /\ FieldsType'
         /\ \A m \in Mothers : Totals(m)'
         /\ \A s \in Mothers : \A m :
              Count(s, m)' = Count(s, m) + (IF /\ req[r].op \in {"convert", "welcome"}
                                               /\ req[r].mother = s /\ req[r].about = m
                                            THEN 1 ELSE 0)
         /\ \A s, m \in Mothers : Count(s, m) \in Nat
<1> DEFINE d == Delta(r)
           e == Row(TypeOf(req[r].op), d, req[r].read + d, req[r].about)
<1>1. req[r] \in Handler /\ Shape(req[r]) /\ req[r].op # "cancel"
  BY ShapeAt DEF CreditWallet, At
<1>m. PICK m \in Mothers : m = req[r].mother
  BY <1>1 DEF Handler
<1>2. m \in Mothers /\ req[r].read \in Nat /\ req[r].points \in Int
      /\ req[r].about \in Mothers \cup Bookings
  BY <1>1 DEF Handler
<1>3. d \in Int /\ d # 0 /\ req[r].read + d \in Nat
  BY <1>2 DEF Delta, CreditWallet
<1>4. req[r].op # "grant" => d = req[r].points /\ d > 0
  BY <1>1, <1>2, CarePointsAssumption DEF Shape, Delta
<1>5. /\ wallet' = [wallet EXCEPT ![m].balance = req[r].read + d,
                                  ![m].earned = EarnedNow(wallet[m].earned, d)]
      /\ ledger' = [ledger EXCEPT ![m] = Append(ledger[m], e)]
      /\ UNCHANGED <<spent, status, missed>>
  BY <1>m DEF CreditWallet, Record
<1>6. TypeOf(req[r].op) \in EntryType
      /\ (TypeOf(req[r].op) = "ADMIN" <=> req[r].op = "grant")
      /\ (TypeOf(req[r].op) = "EARN" <=> req[r].op = "complete")
      /\ (TypeOf(req[r].op) = "REFERRAL" <=> req[r].op \in {"convert", "welcome"})
  BY <1>1 DEF TypeOf, EntryType, Handler
<1>7. e \in LedgerRow /\ e.type = TypeOf(req[r].op) /\ e.points = d /\ e.about = req[r].about
  BY <1>2, <1>3, <1>6 DEF Row, LedgerRow
<1>8. /\ wallet[m] \in Wallet
      /\ wallet'[m].earned = EarnedNow(wallet[m].earned, d)
      /\ wallet'[m].redeemed = wallet[m].redeemed
      /\ ledger'[m] = Append(ledger[m], e)
      /\ \A o \in Mothers \ {m} : wallet'[o] = wallet[o] /\ ledger'[o] = ledger[o]
  <2>1. wallet \in [Mothers -> Wallet] /\ ledger \in [Mothers -> Seq(LedgerRow)]
    BY DEF BaseInv, WalletsType
  <2>2. wallet[m] \in Wallet
    BY <1>2, <2>1
  <2> HIDE DEF e, d
  <2> QED
    BY <1>2, <1>5, <2>1, <2>2 DEF Wallet
<1> HIDE DEF e, d
<1>9. /\ \A types : /\ Sum(m, types) \in Int
                    /\ Sum(m, types)' = Sum(m, types) + (IF e.type \in types THEN e.points ELSE 0)
      /\ Granted(m) \in Int
      /\ Granted(m)' = Granted(m) + (IF e.type = "ADMIN" /\ e.points > 0 THEN e.points ELSE 0)
      /\ \A about : /\ Count(m, about) \in Nat
                    /\ Count(m, about)' =
                         Count(m, about) + (IF e.type = "REFERRAL" /\ e.about = about THEN 1 ELSE 0)
  BY <1>2, <1>7, <1>8, RowCounts DEF BaseInv
<1>10. FieldsType'
  <2>1. \A o \in Mothers : wallet[o].earned \in Nat
    BY DEF PointsInv, FieldsType
  <2>2. EarnedNow(wallet[m].earned, d) \in Nat
    BY <1>2, <1>3, <2>1 DEF EarnedNow
  <2> QED
    BY <1>5, <1>8, <2>1, <2>2 DEF PointsInv, FieldsType
<1>11. Totals(m)'
  <2>1. Totals(m)
    BY <1>2 DEF PointsInv
  <2>2. wallet'[m].earned = Sum(m, {"EARN", "REFERRAL"})' + Granted(m)'
    <3>1. wallet'[m].earned = wallet[m].earned + (IF d > 0 THEN d ELSE 0)
      <4>1. wallet[m].earned \in Int
        BY <1>8 DEF Wallet
      <4> QED
        BY <1>3, <1>8, <4>1 DEF EarnedNow
    <3>2. Sum(m, {"EARN", "REFERRAL"})' = Sum(m, {"EARN", "REFERRAL"}) + (IF req[r].op # "grant" THEN d ELSE 0)
      BY <1>1, <1>6, <1>7, <1>9 DEF Shape
    <3>3. Granted(m)' = Granted(m) + (IF req[r].op = "grant" /\ d > 0 THEN d ELSE 0)
      BY <1>6, <1>7, <1>9
    <3> QED
      BY <1>3, <1>4, <1>9, <2>1, <3>1, <3>2, <3>3 DEF Totals
  <2>3. Sum(m, {"REDEEM", "REFUND"})' = Sum(m, {"REDEEM", "REFUND"})
    BY <1>1, <1>6, <1>7, <1>9 DEF TypeOf
  <2> QED
    BY <1>8, <2>1, <2>2, <2>3 DEF Totals
<1>12. \A o \in Mothers : Totals(o)'
  BY <1>5, <1>8, <1>11, KeptTotals
<1>13. ASSUME NEW s \in Mothers, NEW o
       PROVE  Count(s, o)' = Count(s, o) + (IF /\ req[r].op \in {"convert", "welcome"}
                                               /\ m = s /\ req[r].about = o
                                            THEN 1 ELSE 0)
  <2>1. CASE s = m
    BY <1>6, <1>7, <1>9, <2>1
  <2>2. CASE s # m
    <3>1. ledger'[s] = ledger[s]
      BY <1>8, <2>2
    <3>2. Count(s, o) \in Nat
      <4>1. IsFiniteSet(Rows(s, "REFERRAL", o))
        <5>1. ledger[s] \in Seq(LedgerRow)
          BY DEF BaseInv, WalletsType
        <5>2. DOMAIN ledger[s] = 1 .. Len(ledger[s]) /\ Len(ledger[s]) \in Nat
          BY <5>1
        <5>3. Rows(s, "REFERRAL", o) \subseteq 1 .. Len(ledger[s])
          BY <5>2 DEF Rows
        <5>4. IsFiniteSet(1 .. Len(ledger[s]))
          BY <5>2, FS_Interval
        <5> QED
          BY <5>3, <5>4, FS_Subset
      <4> QED
        BY <4>1, FS_CardinalityType DEF Count
    <3> QED
      BY <2>2, <3>1, <3>2, SameCounts
  <2> QED
    BY <2>1, <2>2
<1>14. \A s, o \in Mothers : Count(s, o) \in Nat
  BY DEF PointsInv, PaidOnce
<1> QED
  BY <1>m, <1>10, <1>12, <1>13, <1>14

\* A referral is settled by the transaction that has it, and pays one side once.
LEMMA CreditReferral ==
  ASSUME BaseInv, WalletsType', PointsInv, NEW r \in Requests, CreditWallet(r),
         req[r].op \in {"convert", "welcome"}
  PROVE  PointsInv'
<1> DEFINE h == req[r]
<1>1. h \in Handler /\ Shape(h) /\ KnowsReferral(h) /\ h # Idle /\ h.pc = "credit" /\ HasReferral(h)
  BY ShapeAt DEF CreditWallet, At, HasReferral
<1>2. /\ h.about \in Mothers /\ h.by \in Mothers \ {h.about}
      /\ h.op = "convert" => h.mother = h.by
      /\ h.op = "welcome" => h.mother = h.about
  BY <1>1 DEF Shape
<1>3. PICK m \in Mothers, by \in Mothers, op \in {"convert", "welcome"} :
        m = h.about /\ by = h.by /\ op = h.op /\ by # m
  BY <1>2
<1>4. referral' = [referral EXCEPT ![m] = Settled(op, by)] /\ req' = [req EXCEPT ![r] = Idle]
  BY <1>3 DEF CreditWallet, Finish
<1>5. referral[m].status = (IF op = "convert" THEN "PENDING" ELSE "none")
      /\ (op = "convert" => referral[m].by = by)
  BY <1>1, <1>3 DEF KnowsReferral
<1>6. /\ referral'[m].status = (IF op = "convert" THEN "CONVERTED" ELSE "PENDING")
      /\ referral'[m].by = by
      /\ \A o \in Mothers \ {m} : referral'[o] = referral[o]
  BY <1>4 DEF BaseInv, ReferralsType, Settled
<1>7. req'[r] = Idle /\ \A s \in Requests \ {r} : req'[s] = req[s]
  BY <1>4 DEF BaseInv, HandlersType
<1>8. \A s \in Requests \ {r} : HasReferral(req[s]) => req[s].about # m
  BY <1>1, <1>3 DEF PointsInv, ReferralsHeld
<1>9. Shapes'
  BY <1>7 DEF PointsInv, Shapes, Shape
<1>10. ReferralsHeld'
  <2>1. ASSUME NEW s \in Requests PROVE KnowsReferral(req[s])'
    <3>1. CASE s = r
      BY <1>7, <3>1 DEF KnowsReferral, HasReferral
    <3>2. CASE s # r
      <4>1. req'[s] = req[s] /\ KnowsReferral(req[s])
        BY <1>7, <3>2 DEF PointsInv, ReferralsHeld
      <4>2. (req[s] # Idle /\ req[s].op \in {"convert", "welcome"}) => req[s].about \in Mothers
        BY DEF PointsInv, Shapes, Shape
      <4>3. CASE req[s] # Idle /\ req[s].op \in {"convert", "welcome"} /\ req[s].about = m
        BY <1>5, <1>6, <1>8, <3>2, <4>1, <4>3 DEF KnowsReferral, HasReferral
      <4>4. CASE ~ (req[s] # Idle /\ req[s].op \in {"convert", "welcome"} /\ req[s].about = m)
        BY <1>6, <4>1, <4>2, <4>4 DEF KnowsReferral, HasReferral
      <4> QED
        BY <4>3, <4>4
    <3> QED
      BY <3>1, <3>2
  <2>2. ASSUME NEW s \in Requests, NEW u \in Requests, HasReferral(req[s])', HasReferral(req[u])',
               req'[s].about = req'[u].about
        PROVE  s = u
    BY <1>7, <2>2 DEF PointsInv, ReferralsHeld, HasReferral
  <2>3. \A o \in Mothers : referral'[o].status # "none" => referral'[o].by \in Mothers \ {o}
    BY <1>3, <1>6 DEF PointsInv, ReferralsHeld
  <2> QED
    BY <2>1, <2>2, <2>3 DEF ReferralsHeld
<1>11. /\ FieldsType' /\ \A o \in Mothers : Totals(o)'
       /\ \A s \in Mothers : \A o :
            Count(s, o)' = Count(s, o) + (IF (IF op = "convert" THEN by ELSE m) = s /\ m = o THEN 1 ELSE 0)
       /\ \A s, o \in Mothers : Count(s, o) \in Nat
  BY <1>2, <1>3, CreditTotals
<1>12. ASSUME NEW o \in Mothers PROVE PaidOnce(o)'
  <2>1. PaidOnce(o)
    BY DEF PointsInv
  <2>2. CASE o = m
    BY <1>3, <1>5, <1>6, <1>11, <2>1, <2>2 DEF PaidOnce
  <2>3. CASE o # m
    BY <1>6, <1>11, <2>1, <2>3 DEF PaidOnce
  <2> QED
    BY <2>2, <2>3
<1> QED
  BY <1>9, <1>10, <1>11, <1>12 DEF PointsInv

\* A credit that settles no referral.
LEMMA CreditOther ==
  ASSUME BaseInv, WalletsType', PointsInv, NEW r \in Requests, CreditWallet(r),
         req[r].op \notin {"convert", "welcome"}
  PROVE  PointsInv'
<1>1. req[r] \in Handler /\ Shape(req[r]) /\ KnowsReferral(req[r]) /\ req[r] # Idle
      /\ req[r].pc = "credit"
  BY ShapeAt DEF CreditWallet, At
<1>2. UNCHANGED referral
  BY DEF CreditWallet
<1>3. PICK h : /\ req' = [req EXCEPT ![r] = h]
               /\ h # Idle => Shape(h) /\ h.op \notin {"convert", "welcome"}
  <2>1. CASE req[r].op = "complete"
    <3>1. req' = [req EXCEPT ![r] = [req[r] EXCEPT !.pc = "refer"]]
      BY <2>1 DEF CreditWallet, Continue
    <3>2. Shape([req[r] EXCEPT !.pc = "refer"])
          /\ [req[r] EXCEPT !.pc = "refer"].op = "complete"
      BY <1>1, <2>1 DEF Shape, Handler
    <3> QED
      BY <3>1, <3>2
  <2>2. CASE req[r].op # "complete"
    BY <2>2 DEF CreditWallet, Finish
  <2> QED
    BY <2>1, <2>2
<1>4. req'[r] = h /\ \A s \in Requests \ {r} : req'[s] = req[s]
  BY <1>3 DEF BaseInv, HandlersType
<1>5. Shapes'
  BY <1>3, <1>4 DEF PointsInv, Shapes, Shape
<1>6. ReferralsHeld'
  <2>1. ~ HasReferral(h) /\ KnowsReferral(h)
    BY <1>3 DEF HasReferral, KnowsReferral
  <2>2. \A s \in Requests : KnowsReferral(req[s])'
    BY <1>2, <1>4, <2>1 DEF PointsInv, ReferralsHeld, KnowsReferral, HasReferral
  <2>3. ASSUME NEW s \in Requests, NEW u \in Requests, HasReferral(req[s])', HasReferral(req[u])',
               req'[s].about = req'[u].about
        PROVE  s = u
    BY <1>4, <2>1, <2>3 DEF PointsInv, ReferralsHeld, HasReferral
  <2> QED
    BY <1>2, <2>2, <2>3 DEF PointsInv, ReferralsHeld
<1>7. /\ FieldsType' /\ \A o \in Mothers : Totals(o)'
      /\ \A s, o \in Mothers : Count(s, o)' = Count(s, o)
  BY CreditTotals
<1>8. \A o \in Mothers : PaidOnce(o)'
  BY <1>2, <1>7 DEF PointsInv, PaidOnce
<1> QED
  BY <1>5, <1>6, <1>7, <1>8 DEF PointsInv

\* No handler moves and nobody is paid for a referral.
LEMMA NoReferralRow ==
  ASSUME PointsInv, UNCHANGED <<req, referral>>, FieldsType',
         \A m \in Mothers : Totals(m)',
         \A s, m \in Mothers : Count(s, m)' = Count(s, m)
  PROVE  PointsInv'
<1>1. Shapes' /\ ReferralsHeld'
  BY DEF PointsInv, Shapes, Shape, ReferralsHeld, KnowsReferral, HasReferral
<1>2. \A m \in Mothers : PaidOnce(m)'
  BY DEF PointsInv, PaidOnce
<1> QED
  BY <1>1, <1>2 DEF PointsInv

\* A booking is paid, or its shift begins.
LEMMA StatusKeeps ==
  ASSUME BaseInv, PointsInv, NEW b \in Bookings, Pay(b) \/ StartShift(b)
  PROVE  PointsInv'
<1>1. FieldsType' /\ UNCHANGED <<wallet, ledger, req, referral>>
  BY DEF Pay, StartShift, PointsInv, FieldsType
<1>2. \A m \in Mothers : Totals(m)'
  BY <1>1, KeptTotals
<1> QED
  BY <1>1, <1>2, SameCounts, NoReferralRow

\* A row of a redemption or a return, and the total that goes with it.
LEMMA SpentChanges ==
  ASSUME BaseInv, WalletsType', PointsInv, NEW b \in Bookings,
         NEW e \in LedgerRow, e.type \in {"REDEEM", "REFUND"},
         ledger' = [ledger EXCEPT ![Owner[b]] = Append(ledger[Owner[b]], e)],
         wallet'[Owner[b]].earned = wallet[Owner[b]].earned,
         wallet'[Owner[b]].redeemed = wallet[Owner[b]].redeemed - e.points,
         \A o \in Mothers \ {Owner[b]} : wallet'[o] = wallet[o]
  PROVE  /\ \A o \in Mothers : Totals(o)'
         /\ \A s, o \in Mothers : Count(s, o)' = Count(s, o)
         /\ \A o \in Mothers : wallet'[o].earned \in Nat
<1> DEFINE m == Owner[b]
<1>1. m \in Mothers
  BY CarePointsAssumption
<1>2. ledger'[m] = Append(ledger[m], e) /\ \A o \in Mothers \ {m} : ledger'[o] = ledger[o]
  BY <1>1 DEF BaseInv, WalletsType
<1>3. /\ \A types : /\ Sum(m, types) \in Int
                    /\ Sum(m, types)' = Sum(m, types) + (IF e.type \in types THEN e.points ELSE 0)
      /\ Granted(m) \in Int /\ Granted(m)' = Granted(m)
      /\ \A about : Count(m, about)' = Count(m, about)
  <2>1. /\ \A types : /\ Sum(m, types) \in Int
                      /\ Sum(m, types)' = Sum(m, types) + (IF e.type \in types THEN e.points ELSE 0)
        /\ Granted(m) \in Int
        /\ Granted(m)' = Granted(m) + (IF e.type = "ADMIN" /\ e.points > 0 THEN e.points ELSE 0)
        /\ \A about : /\ Count(m, about) \in Nat
                      /\ Count(m, about)' =
                           Count(m, about) + (IF e.type = "REFERRAL" /\ e.about = about THEN 1 ELSE 0)
    BY <1>1, <1>2, RowCounts DEF BaseInv
  <2>2. e.type \notin {"ADMIN", "REFERRAL"}
    OBVIOUS
  <2> HIDE DEF m
  <2> QED
    BY <2>1, <2>2
<1>4. Totals(m) /\ e.points \in Int
  BY <1>1 DEF PointsInv, LedgerRow
<1>5. Totals(m)'
  <2>1. wallet'[m].earned = Sum(m, {"EARN", "REFERRAL"})' + Granted(m)'
    BY <1>3, <1>4 DEF Totals
  <2>2. wallet'[m].redeemed = -(Sum(m, {"REDEEM", "REFUND"})')
    BY <1>3, <1>4 DEF Totals
  <2> QED
    BY <2>1, <2>2 DEF Totals
<1>6. ASSUME NEW o \in Mothers \ {m} PROVE Totals(o)'
  BY <1>2, KeptTotals
<1>7. \A s, o \in Mothers : Count(s, o)' = Count(s, o)
  BY <1>2, <1>3, SameCounts
<1>8. \A o \in Mothers : wallet'[o].earned \in Nat
  BY DEF PointsInv, FieldsType
<1> QED
  BY <1>5, <1>6, <1>7, <1>8

\* Points that go back, with their row and their total.
LEMMA GivesBackTotals ==
  ASSUME BaseInv, WalletsType', PointsInv, NEW b \in Bookings, NEW points \in Nat,
         GiveBack(b, points)
  PROVE  /\ \A o \in Mothers : Totals(o)'
         /\ \A s, o \in Mothers : Count(s, o)' = Count(s, o)
         /\ \A o \in Mothers : wallet'[o].earned \in Nat
<1> DEFINE m == Owner[b]
           e == Row("REFUND", points, wallet[m].balance + points, b)
<1>1. m \in Mothers /\ b \in Mothers \cup Bookings
  BY CarePointsAssumption
<1>2. wallet \in [Mothers -> Wallet] /\ wallet[m] \in Wallet
  BY <1>1 DEF BaseInv, WalletsType
<1>3. wallet[m].balance + points \in Nat
  BY <1>2 DEF Wallet
<1>4. e \in LedgerRow /\ e.type = "REFUND" /\ e.points = points
  BY <1>1, <1>3 DEF Row, LedgerRow, EntryType
<1>5. /\ wallet' = [wallet EXCEPT ![m].balance = wallet[m].balance + points,
                                 ![m].redeemed = wallet[m].redeemed - points]
      /\ ledger' = [ledger EXCEPT ![m] = Append(ledger[m], e)]
  BY DEF GiveBack, RedeemedAfterReturn, Record
<1>6. /\ wallet'[m].earned = wallet[m].earned
      /\ wallet'[m].redeemed = wallet[m].redeemed - e.points
      /\ \A o \in Mothers \ {m} : wallet'[o] = wallet[o]
  BY <1>1, <1>2, <1>4, <1>5 DEF Wallet
<1> HIDE DEF e
<1> QED
  BY <1>4, <1>5, <1>6, SpentChanges

LEMMA SpendingKeeps ==
  ASSUME BaseInv, WalletsType', PointsInv, NEW b \in Bookings,
         Redeem(b) \/ \E called \in BOOLEAN : Return(b, called)
  PROVE  PointsInv'
<1> DEFINE m == Owner[b]
<1>1. m \in Mothers /\ b \in Mothers \cup Bookings /\ Cost \in Nat \ {0}
  BY CarePointsAssumption
<1>2. wallet \in [Mothers -> Wallet] /\ wallet[m] \in Wallet
  BY <1>1 DEF BaseInv, WalletsType
<1>3. spent[b] \in {0, Cost} /\ UNCHANGED <<req, referral, missed>>
  BY DEF Redeem, Return, PointsInv, FieldsType
<1>4. CASE Redeem(b)
  <2> DEFINE e == Row("REDEEM", -Cost, wallet[m].balance - Cost, b)
  <2>1. wallet[m].balance >= Cost /\ UNCHANGED status
        /\ wallet' = [wallet EXCEPT ![m].balance = wallet[m].balance - Cost,
                                    ![m].redeemed = wallet[m].redeemed + Cost]
        /\ ledger' = [ledger EXCEPT ![m] = Append(ledger[m], e)]
        /\ spent' = [spent EXCEPT ![b] = Cost]
    BY <1>4 DEF Redeem, CanSpend, Record
  <2>2. wallet[m].balance - Cost \in Nat /\ -Cost \in Int
    BY <1>1, <1>2, <2>1 DEF Wallet
  <2>3. e \in LedgerRow /\ e.type = "REDEEM" /\ e.points = -Cost
    BY <1>1, <2>2 DEF Row, LedgerRow, EntryType
  <2>4. /\ wallet'[m].earned = wallet[m].earned
        /\ wallet'[m].redeemed = wallet[m].redeemed + Cost
        /\ \A o \in Mothers \ {m} : wallet'[o] = wallet[o]
    BY <1>1, <1>2, <2>1 DEF Wallet
  <2>5. wallet'[m].redeemed = wallet[m].redeemed - e.points
    BY <1>1, <1>2, <2>3, <2>4 DEF Wallet
  <2> HIDE DEF e
  <2>6. /\ \A o \in Mothers : Totals(o)'
        /\ \A s, o \in Mothers : Count(s, o)' = Count(s, o)
        /\ \A o \in Mothers : wallet'[o].earned \in Nat
    BY <2>1, <2>3, <2>4, <2>5, SpentChanges
  <2>7. FieldsType'
    BY <1>3, <2>1, <2>6 DEF PointsInv, FieldsType
  <2> QED
    BY <1>3, <2>6, <2>7, NoReferralRow
<1>5. CASE \E called \in BOOLEAN : Return(b, called)
  <2>1. /\ GiveBack(b, spent[b])
        /\ spent' = [spent EXCEPT ![b] = 0]
        /\ status' \in {status, [status EXCEPT ![b] = "CANCELLED"]}
    BY <1>5 DEF Return
  <2>2. spent[b] \in Nat
    BY <1>1, <1>3
  <2>3. /\ \A o \in Mothers : Totals(o)'
        /\ \A s, o \in Mothers : Count(s, o)' = Count(s, o)
        /\ \A o \in Mothers : wallet'[o].earned \in Nat
    BY <2>1, <2>2, GivesBackTotals
  <2>4. FieldsType'
    BY <1>3, <2>1, <2>3 DEF PointsInv, FieldsType
  <2> QED
    BY <1>3, <2>3, <2>4, NoReferralRow
<1> QED
  BY <1>4, <1>5

LEMMA CancelWriteKeeps ==
  ASSUME BaseInv, WalletsType', PointsInv, NEW r \in Requests, CancelWrite(r)
  PROVE  PointsInv'
<1>1. req[r].about \in Bookings /\ req[r].points \in {0, Cost} /\ req[r] # Idle
  BY ShapeAt DEF CancelWrite, At
<1>2. /\ UNCHANGED <<spent, referral, missed>> /\ req' = [req EXCEPT ![r] = Idle]
      /\ status' \in {status, [status EXCEPT ![req[r].about] = "CANCELLED"]}
      /\ UNCHANGED <<wallet, ledger>> \/ GiveBack(req[r].about, req[r].points)
  BY DEF CancelWrite, Finish
<1>3. /\ \A o \in Mothers : Totals(o)'
      /\ \A s, o \in Mothers : Count(s, o)' = Count(s, o)
      /\ \A o \in Mothers : wallet'[o].earned \in Nat
  <2>1. CASE UNCHANGED <<wallet, ledger>>
    BY <2>1, KeptTotals, SameCounts DEF PointsInv, FieldsType
  <2>2. CASE GiveBack(req[r].about, req[r].points)
    <3>1. req[r].points \in Nat
      BY <1>1, CarePointsAssumption
    <3> QED
      BY <1>1, <2>2, <3>1, GivesBackTotals
  <2> QED
    BY <1>2, <2>1, <2>2
<1>4. FieldsType'
  BY <1>1, <1>2, <1>3 DEF PointsInv, FieldsType
<1>5. PICK h : h = Idle
  OBVIOUS
<1>6. KnowsReferral(h) /\ ~ HasReferral(h)
  BY <1>5 DEF KnowsReferral, HasReferral
<1> QED
  BY <1>2, <1>3, <1>4, <1>5, <1>6, SlotMovesWith

LEMMA BulkGrantKeeps ==
  ASSUME BaseInv, WalletsType', PointsInv, NEW audience \in SUBSET Mothers, NEW points \in Grants,
         BulkGrant(audience, points)
  PROVE  PointsInv'
<1>1. points \in Int /\ points > 0
  BY CarePointsAssumption DEF BulkGrant
<1>2. /\ UNCHANGED <<req, referral, status, spent, missed>>
      /\ wallet' = [m \in Mothers |->
                      IF m \in audience
                      THEN [wallet[m] EXCEPT !.balance = wallet[m].balance + points,
                                             !.earned = wallet[m].earned + points]
                      ELSE wallet[m]]
      /\ ledger' = [m \in Mothers |->
                      IF m \in audience
                      THEN Append(ledger[m], Row("ADMIN", points, wallet[m].balance + points, m))
                      ELSE ledger[m]]
  BY DEF BulkGrant
<1>3. ASSUME NEW m \in audience
      PROVE  /\ wallet'[m].earned = wallet[m].earned + points /\ wallet[m].earned \in Nat
             /\ wallet'[m].redeemed = wallet[m].redeemed
             /\ Totals(m)'
             /\ \A o \in Mothers : Count(m, o)' = Count(m, o)
  <2> DEFINE e == Row("ADMIN", points, wallet[m].balance + points, m)
  <2>1. m \in Mothers /\ wallet[m] \in Wallet /\ wallet[m].earned \in Nat
    BY DEF BaseInv, WalletsType, PointsInv, FieldsType
  <2>2. wallet'[m].earned = wallet[m].earned + points /\ wallet'[m].redeemed = wallet[m].redeemed
    BY <1>2, <2>1 DEF Wallet
  <2>3. wallet[m].balance + points \in Nat
    BY <1>1, <2>1 DEF Wallet
  <2>4. e \in LedgerRow /\ e.type = "ADMIN" /\ e.points = points
    BY <1>1, <2>1, <2>3 DEF Row, LedgerRow, EntryType
  <2>5. ledger'[m] = Append(ledger[m], e)
    BY <1>2, <2>1
  <2> HIDE DEF e
  <2>6. /\ \A types : /\ Sum(m, types) \in Int
                      /\ Sum(m, types)' = Sum(m, types) + (IF e.type \in types THEN e.points ELSE 0)
        /\ Granted(m) \in Int
        /\ Granted(m)' = Granted(m) + (IF e.type = "ADMIN" /\ e.points > 0 THEN e.points ELSE 0)
        /\ \A about : /\ Count(m, about) \in Nat
                      /\ Count(m, about)' =
                           Count(m, about) + (IF e.type = "REFERRAL" /\ e.about = about THEN 1 ELSE 0)
    BY <2>1, <2>4, <2>5, RowCounts DEF BaseInv
  <2>7. Totals(m)
    BY <2>1 DEF PointsInv
  <2>8. Totals(m)'
    BY <1>1, <2>1, <2>2, <2>4, <2>6, <2>7 DEF Totals
  <2> QED
    BY <2>1, <2>2, <2>4, <2>6, <2>8
<1>4. ASSUME NEW m \in Mothers \ audience
      PROVE  wallet'[m] = wallet[m] /\ ledger'[m] = ledger[m]
  BY <1>2
<1>5. FieldsType'
  <2>1. ASSUME NEW m \in Mothers PROVE wallet'[m].earned \in Nat
    BY <1>1, <1>3, <1>4 DEF PointsInv, FieldsType
  <2> QED
    BY <1>2, <2>1 DEF PointsInv, FieldsType
<1>6. \A m \in Mothers \ audience : Totals(m)' /\ \A o \in Mothers : Count(m, o)' = Count(m, o)
  BY <1>2, <1>4, KeptTotals, SameCounts
<1> QED
  BY <1>2, <1>3, <1>5, <1>6, NoReferralRow

LEMMA PointsInvInductive ==
  ASSUME BaseInv, BaseInv', PointsInv, [Next]_vars
  PROVE  PointsInv'
<1>1. CASE UNCHANGED vars
  BY <1>1, KeptTotals, SameCounts, NoReferralRow DEF vars, PointsInv, FieldsType
<1>2. WalletsType'
  BY DEF BaseInv
<1>3. CASE \E b \in Bookings :
             \/ Pay(b) \/ StartShift(b) \/ Redeem(b)
             \/ \E called \in BOOLEAN : Return(b, called)
             \/ \E r \in Requests : CompleteRead(r, b) \/ CancelRead(r, b)
  BY <1>2, <1>3, StatusKeeps, SpendingKeeps, BeginningsKeep
<1>4. CASE \E r \in Requests :
             \/ Step(r) \/ AwardOff(r) \/ ConvertOff(r) \/ Crash(r)
             \/ \E m, by \in Mothers : ApplyRead(r, m, by)
             \/ \E m \in Mothers, points \in Grants : Grant(r, m, points)
  BY <1>2, <1>4, ReadWalletKeeps, CreditReferral, CreditOther, CompletionKeeps, ConvertReadKeeps,
     CancelWriteKeeps, BeginningsKeep DEF Step
<1>5. CASE \E audience \in SUBSET Mothers, points \in Grants : BulkGrant(audience, points)
  BY <1>2, <1>5, BulkGrantKeeps
<1> QED
  BY <1>1, <1>3, <1>4, <1>5 DEF Next

-----------------------------------------------------------------------------
(* The theorems. *)

LEMMA InitOK == Init => BaseInv
<1> SUFFICES ASSUME Init PROVE BaseInv
  OBVIOUS
<1>1. WalletsType
  BY DEF Init, WalletsType, Wallet
<1>2. HandlersType /\ \A r \in Requests : req[r] = Idle
  BY DEF Init, HandlersType
<1>3. ReferralsType /\ \A m \in Mothers : referral[m].status # "PENDING"
  BY DEF Init, ReferralsType, Referral
<1>4. ReferrersKnown
  BY <1>2, <1>3 DEF ReferrersKnown
<1> QED
  BY <1>1, <1>2, <1>3, <1>4 DEF BaseInv

LEMMA BaseInvInductive == BaseInv /\ PointsInv /\ [Next]_vars => BaseInv'
<1> SUFFICES ASSUME BaseInv, PointsInv, [Next]_vars PROVE BaseInv'
  OBVIOUS
<1>1. CASE UNCHANGED vars
  BY <1>1 DEF vars, BaseInv, WalletsType, HandlersType, ReferralsType, ReferrersKnown
<1>2. CASE Next
  <2>1. SpendingKnown
    BY DEF PointsInv, FieldsType, Shapes, Shape, SpendingKnown, At
  <2> QED
    BY <1>2, <2>1, NextOK
<1> QED
  BY <1>1, <1>2

LEMMA InitPoints == Init => PointsInv
<1> SUFFICES ASSUME Init PROVE PointsInv
  OBVIOUS
<1>1. FieldsType /\ Shapes /\ ReferralsHeld
  BY DEF Init, FieldsType, Shapes, ReferralsHeld, KnowsReferral, HasReferral
<1>2. ASSUME NEW m \in Mothers
      PROVE  /\ \A types : Sum(m, types) = 0
             /\ Granted(m) = 0
             /\ \A about : Count(m, about) = 0
  <2>1. DOMAIN ledger[m] = {}
    BY DEF Init
  <2>2. /\ \A types : RowsOf(m, types) = {}
        /\ GrantRows(m) = {}
        /\ \A about : Rows(m, "REFERRAL", about) = {}
    BY <2>1 DEF RowsOf, GrantRows, Rows
  <2>3. Cardinality({}) = 0
    BY FS_EmptySet
  <2> QED
    BY <2>2, <2>3, SumEmpty DEF Sum, Granted, Count
<1>3. ASSUME NEW m \in Mothers PROVE Totals(m) /\ PaidOnce(m)
  <2>3. wallet[m].earned = 0 /\ wallet[m].redeemed = 0 /\ referral[m].status = "none"
    BY DEF Init
  <2> QED
    BY <1>2, <2>3 DEF Totals, PaidOnce
<1> QED
  BY <1>1, <1>3 DEF PointsInv

\* What every handler is about, what the totals are and who has which referral.
LEMMA PointsInvariant == Spec => [](BaseInv /\ PointsInv)
<1>1. BaseInv /\ BaseInv' /\ PointsInv /\ [Next]_vars => PointsInv'
  BY PointsInvInductive
<1> QED
  BY <1>1, InitOK, InitPoints, BaseInvInductive, PTL DEF Spec

\* The variables keep their types; in particular no balance and no total of what was
\* ever earned is negative, whatever is revoked, spent and returned at the same time.
THEOREM TypeInvariant == Spec => []TypeOK
<1>1. BaseInv /\ PointsInv => TypeOK
  <2> SUFFICES ASSUME BaseInv, PointsInv PROVE TypeOK
    OBVIOUS
  <2>1. wallet \in [Mothers -> [balance : Nat, earned : Nat, redeemed : Int]]
    BY DEF BaseInv, WalletsType, Wallet, PointsInv, FieldsType
  <2>2. \A m \in Mothers : \A i \in DOMAIN ledger[m] :
          ledger[m][i] \in [type : EntryType, points : Int, after : Nat, about : Mothers \cup Bookings]
    <3>1. \A m \in Mothers : ledger[m] \in Seq(LedgerRow)
      BY DEF BaseInv, WalletsType
    <3>2. \A m \in Mothers : \A i \in DOMAIN ledger[m] : ledger[m][i] \in LedgerRow
      BY <3>1
    <3> QED
      BY <3>2 DEF LedgerRow
  <2> QED
    BY <2>1, <2>2
    DEF TypeOK, BaseInv, HandlersType, ReferralsType, Referral, PointsInv, FieldsType
<1> QED
  BY <1>1, PointsInvariant, PTL

\* The lifetime totals on every wallet are those of its rows, whichever handlers
\* overlap and whatever balance a credit writes over (reward.service.ts:210, :303).
THEOREM LifetimeTotalsAgree == Spec => []TotalsAgree
<1>1. PointsInv => TotalsAgree
  BY DEF PointsInv, Totals, TotalsAgree
<1> QED
  BY <1>1, PointsInvariant, PTL

\* A referral pays each side once, however many of her bookings end at the same time
\* and wherever the server stops (referral.service.ts:210).
THEOREM ReferralsPayOnce == Spec => []ReferralPaidOnce
<1>1. PointsInv => ReferralPaidOnce
  BY DEF PointsInv, PaidOnce, Count, ReferralPaidOnce
<1> QED
  BY <1>1, PointsInvariant, PTL
=============================================================================
