------------------------- MODULE PackageHoursProofs -------------------------
(***************************************************************************)
(* For any buckets, bookings, extensions and number of handlers at once:   *)
(* every usable bucket balances with its ledger, and what is called off has*)
(* its hours back.                                                         *)
(***************************************************************************)
EXTENDS PackageHours, SumTheorems

\* Nothing is written of a bucket before it is paid for; a usable one balances.
PaidForFirst(p) ==
  status[p] = "PENDING_PAYMENT" =>
    lost[p] = 0 /\ \A s \in Scopes : drawn[s][p] = 0 /\ back[s][p] = 0

Balances(p) == status[p] = "ACTIVE" => left[p] = LedgerSum(p)

BucketInv(p) == PaidForFirst(p) /\ Balances(p)

\* A booking without hours, or called off, has returned what it drew wherever it could.
RestIsReturned(s) ==
  (\/ s \in Bookings /\ state[s] \in {"none", "UNPAID"} /\ applied[s] = 0 /\ s \notin overtaken
   \/ state[s] = "CANCELLED" /\ s \notin kept \cup overtaken) =>
    \A p \in Unreturned(s) : status[p] = "EXPIRED"

\* A cancel works on a booking that exists, and once about to write has left it no
\* hours, unless an edit came between.  A settlement has seen every row there is to
\* return, unless an acceptance came between.  Extra hours go to a booking past paying.
Knows(h) ==
  /\ h.pc = "draw" => h.hours > 0
  /\ h.pc \in {"return", "cancel"} => state[h.scope] # "none"
  /\ (h.pc = "settle" /\ h.scope \notin overtaken) => Unreturned(h.scope) \subseteq h.seen
  /\ (h.pc = "cancel" /\ state[h.scope] = "UNPAID" /\ h.scope \notin overtaken) =>
       applied[h.scope] = 0
  /\ h.pc = "apply" => state[Of[h.scope]] \notin {"none", "UNPAID"}

\* The inductive invariant.
HoursInv ==
  /\ TypeOK
  /\ \A p \in Buckets : BucketInv(p)
  /\ \A s \in Scopes : RestIsReturned(s)
  /\ \A r \in Requests : Knows(req[r])

-----------------------------------------------------------------------------
(* What stays as it is. *)

LEMMA FiniteParts == IsFiniteSet(Scopes) /\ IsFiniteSet(Buckets)
BY PackageHoursAssumption DEF Scopes

LEMMA HandlerShapes ==
  ASSUME TypeOK, NEW r \in Requests
  PROVE  /\ req[r].pc = "draw" =>
              req[r].scope \in Scopes /\ req[r].bucket \in Buckets /\ req[r].hours \in Nat
         /\ req[r].pc \in {"return", "cancel"} =>
              req[r].scope \in Bookings /\ req[r].byId \in BOOLEAN
         /\ req[r].pc = "settle" =>
              req[r].scope \in Extensions /\ req[r].seen \in SUBSET Buckets
         /\ req[r].pc = "apply" =>
              req[r].scope \in Extensions /\ req[r].seen \in Nat /\ req[r].hours \in Nat
BY DEF TypeOK, Handler, Idle

\* The ledger of p changes in the rows of s alone, and p with it.
LEMMA BucketMoves ==
  ASSUME TypeOK, TypeOK', NEW p \in Buckets, NEW s \in Scopes, BucketInv(p),
         \A x \in Scopes \ {s} : /\ drawn'[x][p] = drawn[x][p]
                                 /\ live'[x][p] = live[x][p]
                                 /\ back'[x][p] = back[x][p],
         status'[p] = status[p], lost'[p] = lost[p],
         status[p] = "ACTIVE" =>
           left'[p] = left[p] + Taken(p)[s] - (Taken(p)[s])' + back'[s][p] - back[s][p],
         status[p] = "PENDING_PAYMENT" => drawn'[s][p] = 0 /\ back'[s][p] = 0
  PROVE  BucketInv(p)'
<1>1. PICK T, U, B, C : T = Taken(p) /\ U = Taken(p)' /\ B = Returned(p) /\ C = Returned(p)'
  OBVIOUS
<1>2. /\ \A x \in Scopes : T[x] \in Int /\ U[x] \in Int /\ B[x] \in Int /\ C[x] \in Int
      /\ \A x \in Scopes \ {s} : U[x] = T[x] /\ C[x] = B[x]
      /\ T[s] = Taken(p)[s] /\ U[s] = (Taken(p)[s])' /\ B[s] = back[s][p] /\ C[s] = back'[s][p]
  BY <1>1 DEF TypeOK, Taken, Returned
<1>3. /\ SumFunctionOnSet(U, Scopes) = SumFunctionOnSet(T, Scopes) + U[s] - T[s]
      /\ SumFunctionOnSet(C, Scopes) = SumFunctionOnSet(B, Scopes) + C[s] - B[s]
      /\ SumFunctionOnSet(T, Scopes) \in Int /\ SumFunctionOnSet(B, Scopes) \in Int
  BY <1>2, FiniteParts, SumChange, SumInt
<1>4. PaidForFirst(p)'
  BY DEF BucketInv, PaidForFirst
<1>5. Balances(p)'
  <2> SUFFICES ASSUME status[p] = "ACTIVE" PROVE left'[p] = LedgerSum(p)'
    BY DEF Balances
  <2>1. left[p] = Size - SumFunctionOnSet(T, Scopes) + SumFunctionOnSet(B, Scopes) - lost[p]
    BY <1>1 DEF BucketInv, Balances, LedgerSum
  <2>2. left'[p] = left[p] + T[s] - U[s] + C[s] - B[s]
    BY <1>2
  <2>3. /\ left[p] \in Int /\ lost[p] \in Int /\ Size \in Int
        /\ T[s] \in Int /\ U[s] \in Int /\ B[s] \in Int /\ C[s] \in Int
    BY <1>2, PackageHoursAssumption DEF TypeOK
  <2>4. left'[p] = Size - SumFunctionOnSet(U, Scopes) + SumFunctionOnSet(C, Scopes) - lost[p]
    BY <1>3, <2>1, <2>2, <2>3
  <2> QED
    BY <1>1, <2>4 DEF LedgerSum
<1> QED
  BY <1>4, <1>5 DEF BucketInv

LEMMA BucketKept ==
  ASSUME NEW p \in Buckets, BucketInv(p), UNCHANGED <<drawn, live, back>>,
         status'[p] = status[p], lost'[p] = lost[p], left'[p] = left[p]
  PROVE  BucketInv(p)'
<1>1. Taken(p)' = Taken(p) /\ Returned(p)' = Returned(p)
  BY DEF Taken, Returned
<1>2. LedgerSum(p)' = LedgerSum(p)
  BY <1>1 DEF LedgerSum
<1> QED
  BY <1>2 DEF BucketInv, PaidForFirst, Balances

\* The rows of s stay, and it is not called off; buckets may expire.
LEMMA ScopeKept ==
  ASSUME NEW s \in Scopes, RestIsReturned(s),
         drawn'[s] = drawn[s], live'[s] = live[s], back'[s] = back[s],
         (s \in Bookings /\ state'[s] \in {"none", "UNPAID"}) =>
           state[s] \in {"none", "UNPAID"} /\ applied'[s] = applied[s],
         state'[s] = "CANCELLED" <=> state[s] = "CANCELLED",
         kept \subseteq kept', overtaken \subseteq overtaken',
         \A p \in Buckets : status[p] = "EXPIRED" => status'[p] = "EXPIRED"
  PROVE  RestIsReturned(s)'
<1>1. Unreturned(s)' = Unreturned(s) /\ Unreturned(s) \subseteq Buckets
  BY DEF Unreturned
<1> QED
  BY <1>1 DEF RestIsReturned

\* What a handler elsewhere knows is left as it was.
Undisturbed ==
  /\ \A b \in Bookings : state[b] # "none" =>
       /\ state'[b] # "none"
       /\ state'[b] = "UNPAID" => state[b] = "UNPAID"
       /\ \/ applied'[b] \in {0, applied[b]}
          \/ state'[b] # "UNPAID"
          \/ b \in overtaken'
          \/ \A q \in Requests : ~ (At(q, "cancel") /\ req[q].scope = b)
  /\ \A e \in Extensions :
       \/ Unreturned(e)' \subseteq Unreturned(e)
       \/ e \in overtaken'
       \/ \A q \in Requests : ~ (At(q, "settle") /\ req[q].scope = e)
  /\ overtaken \subseteq overtaken'

LEMMA KnowsKept ==
  ASSUME HoursInv, Undisturbed, NEW q \in Requests, NEW h, h = req[q]
  PROVE  Knows(h)'
<1>1. /\ h.pc \in {"return", "cancel"} => h.scope \in Bookings
      /\ h.pc = "settle" => h.scope \in Extensions
      /\ h.pc = "apply" => Of[h.scope] \in Bookings
  BY HandlerShapes, PackageHoursAssumption DEF HoursInv
<1>2. Knows(h)
  BY DEF HoursInv
<1>3. h.pc \in {"return", "cancel"} => state'[h.scope] # "none"
  BY <1>1, <1>2 DEF Knows, Undisturbed
<1>4. (h.pc = "settle" /\ h.scope \notin overtaken') => Unreturned(h.scope)' \subseteq h.seen
  BY <1>1, <1>2 DEF Knows, Undisturbed, At
<1>5. (h.pc = "cancel" /\ state'[h.scope] = "UNPAID" /\ h.scope \notin overtaken') =>
        applied'[h.scope] = 0
  BY <1>1, <1>2 DEF Knows, Undisturbed, At
<1>6. h.pc = "apply" => state'[Of[h.scope]] \notin {"none", "UNPAID"}
  BY <1>1, <1>2 DEF Knows, Undisturbed
<1>7. h.pc = "draw" => h.hours > 0
  BY <1>2 DEF Knows
<1> QED
  BY <1>3, <1>4, <1>5, <1>6, <1>7 DEF Knows

\* One handler has moved on, the others know what they knew.
LEMMA AllKnow ==
  ASSUME HoursInv, Undisturbed, NEW r \in Requests, NEW h, req' = [req EXCEPT ![r] = h],
         Knows(h)'
  PROVE  \A q \in Requests : Knows(req[q])'
<1> SUFFICES ASSUME NEW q \in Requests PROVE Knows(req[q])'
  OBVIOUS
<1>1. PICK g : g = req'[q]
  OBVIOUS
<1>2. Knows(g)'
  <2>1. CASE q = r
    BY <1>1, <2>1 DEF HoursInv, TypeOK
  <2>2. CASE q # r
    <3>1. g = req[q]
      BY <1>1, <2>2 DEF HoursInv, TypeOK
    <3> QED
      BY <3>1, KnowsKept
  <2> QED
    BY <2>1, <2>2
<1> QED
  BY <1>1, <1>2 DEF Knows

\* Only the handler in slot r moves.
LEMMA HandlerStep ==
  ASSUME HoursInv, NEW r \in Requests, NEW h \in Handler \cup {Idle}, Knows(h),
         req' = [req EXCEPT ![r] = h], UNCHANGED <<bucket, scope, history>>
  PROVE  HoursInv'
<1>1. UNCHANGED <<status, left, due, lost, state, applied, drawn, live, back, kept, overtaken>>
  BY DEF bucket, scope, history
<1>2. TypeOK'
  BY <1>1 DEF HoursInv, TypeOK
<1>3. \A p \in Buckets : BucketInv(p)'
  BY <1>1, BucketKept DEF HoursInv
<1>4. \A s \in Scopes : RestIsReturned(s)'
  BY <1>1, ScopeKept DEF HoursInv
<1>5. Knows(h)' /\ \A s \in Scopes : Unreturned(s)' = Unreturned(s)
  BY <1>1 DEF Knows, Unreturned
<1>6. Undisturbed
  BY <1>1, <1>5 DEF Undisturbed, Scopes
<1>7. \A q \in Requests : Knows(req[q])'
  BY <1>5, <1>6, AllKnow
<1> QED
  BY <1>2, <1>3, <1>4, <1>7 DEF HoursInv

\* No handler moves, and no booking or extension is called off.
LEMMA HandlersStay ==
  ASSUME HoursInv, UNCHANGED <<req, drawn, live, back, applied, overtaken>>,
         \A b \in Bookings : state[b] # "none" =>
           /\ state'[b] # "none"
           /\ state'[b] = "UNPAID" => state[b] = "UNPAID"
  PROVE  \A q \in Requests : Knows(req[q])'
<1> SUFFICES ASSUME NEW q \in Requests PROVE Knows(req[q])'
  OBVIOUS
<1>1. PICK g : g = req[q]
  OBVIOUS
<1>2. \A s \in Scopes : Unreturned(s)' = Unreturned(s)
  BY DEF Unreturned
<1>3. Undisturbed
  BY <1>2 DEF Undisturbed, Scopes
<1>4. Knows(g)'
  BY <1>1, <1>3, KnowsKept
<1> QED
  BY <1>1, <1>4 DEF Knows

\* No handler has moved.
LEMMA NoneMove ==
  ASSUME HoursInv, Undisturbed, req' = req
  PROVE  \A q \in Requests : Knows(req[q])'
<1> SUFFICES ASSUME NEW q \in Requests PROVE Knows(req[q])'
  OBVIOUS
<1>1. PICK g : g = req[q]
  OBVIOUS
<1>2. Knows(g)'
  BY <1>1, KnowsKept
<1> QED
  BY <1>1, <1>2 DEF Knows

\* A handler has ended.
LEMMA OneEnds ==
  ASSUME HoursInv, Undisturbed, NEW r \in Requests, Finish(r)
  PROVE  \A q \in Requests : Knows(req[q])'
<1>1. PICK h : h = Idle
  OBVIOUS
<1>2. Knows(h)'
  BY <1>1 DEF Knows, Idle
<1> QED
  BY <1>1, <1>2, AllKnow DEF Finish

-----------------------------------------------------------------------------
(* The buckets, and the steps that move no hours. *)

LEMMA BucketSteps ==
  ASSUME HoursInv, NEW p \in Buckets, Activate(p) \/ Lapse(p) \/ Expire(p)
  PROVE  HoursInv'
<1>1. UNCHANGED <<state, applied, drawn, live, back, req, kept, overtaken>>
  BY DEF Activate, Lapse, Expire, scope, history
<1>2. /\ TypeOK'
      /\ \A q \in Buckets \ {p} : UNCHANGED <<status[q], left[q], lost[q]>>
  <2>1. CASE Activate(p)
    BY <1>1, <2>1, PackageHoursAssumption DEF HoursInv, TypeOK, Activate
  <2>2. CASE Lapse(p)
    BY <1>1, <2>2 DEF HoursInv, TypeOK, Lapse
  <2>3. CASE Expire(p)
    <3>1. left[p] \in Nat
      BY DEF HoursInv, TypeOK
    <3> QED
      BY <1>1, <2>3, <3>1 DEF HoursInv, TypeOK, Expire
  <2> QED
    BY <2>1, <2>2, <2>3
<1>3. BucketInv(p)'
  <2>1. CASE Lapse(p)
    BY <1>1, <2>1, BucketKept DEF HoursInv, Lapse
  <2>2. CASE Expire(p)
    <3>1. status'[p] = "EXPIRED"
      BY <2>2 DEF Expire, HoursInv, TypeOK
    <3> QED
      BY <3>1 DEF BucketInv, PaidForFirst, Balances
  <2>3. CASE Activate(p)
    <3>1. status'[p] = "ACTIVE" /\ left'[p] = Size /\ lost'[p] = 0
      BY <2>3 DEF Activate, HoursInv, TypeOK, BucketInv, PaidForFirst
    <3>2. PICK U, C : U = Taken(p)' /\ C = Returned(p)'
      OBVIOUS
    <3>3. \A s \in Scopes : U[s] = 0 /\ C[s] = 0
      BY <1>1, <2>3, <3>2 DEF Activate, HoursInv, BucketInv, PaidForFirst, Taken, Returned
    <3>4. SumFunctionOnSet(U, Scopes) = 0 /\ SumFunctionOnSet(C, Scopes) = 0
      BY <3>3, FiniteParts, SumZero
    <3>5. LedgerSum(p)' = Size
      BY <3>1, <3>2, <3>4, PackageHoursAssumption DEF LedgerSum
    <3> QED
      BY <3>1, <3>5 DEF BucketInv, PaidForFirst, Balances
  <2> QED
    BY <2>1, <2>2, <2>3
<1>4. \A q \in Buckets : BucketInv(q)'
  BY <1>1, <1>2, <1>3, BucketKept DEF HoursInv
<1>5. \A q \in Buckets : status[q] = "EXPIRED" => status'[q] = "EXPIRED"
  BY <1>2 DEF Activate, Lapse, Expire
<1>6. \A s \in Scopes : RestIsReturned(s)'
  BY <1>1, <1>5, ScopeKept DEF HoursInv
<1>7. \A q \in Requests : Knows(req[q])'
  BY <1>1, HandlersStay
<1> QED
  BY <1>2, <1>4, <1>6, <1>7 DEF HoursInv

LEMMA StateSteps ==
  ASSUME HoursInv, NEW s \in Scopes,
         \/ DrawNothing(s)
         \/ s \in Extensions /\ Ask(s)
         \/ s \in Bookings /\ (Pay(s) \/ Start(s) \/ End(s))
  PROVE  HoursInv'
<1>1. UNCHANGED <<status, left, due, lost, applied, drawn, live, back, req, kept, overtaken>>
  BY DEF DrawNothing, Ask, Pay, Start, End, bucket, history
<1>2. /\ TypeOK'
      /\ \A x \in Scopes \ {s} : state'[x] = state[x]
      /\ state'[s] # "CANCELLED" /\ state[s] # "CANCELLED"
      /\ s \in Bookings => \/ state[s] = "none" /\ state'[s] = "UNPAID"
                          \/ state'[s] \notin {"none", "UNPAID"}
  <2>1. PICK new \in States \ {"CANCELLED"} :
           /\ state' = [state EXCEPT ![s] = new]
           /\ s \in Bookings => new \notin {"none", "UNPAID"} \/ (state[s] = "none" /\ new = "UNPAID")
    BY PackageHoursAssumption DEF DrawNothing, Undrawn, Ask, Pay, Start, End, States
  <2>2. state[s] # "CANCELLED"
    BY DEF DrawNothing, Undrawn, Ask, Pay, Start, End
  <2> QED
    BY <1>1, <2>1, <2>2 DEF HoursInv, TypeOK
<1>3. \A p \in Buckets : BucketInv(p)'
  BY <1>1, BucketKept DEF HoursInv
<1>4. \A x \in Scopes : RestIsReturned(x)'
  BY <1>1, <1>2, ScopeKept DEF HoursInv
<1>5. \A q \in Requests : Knows(req[q])'
  BY <1>1, <1>2, HandlersStay DEF Scopes
<1> QED
  BY <1>2, <1>3, <1>4, <1>5 DEF HoursInv

LEMMA ReadSteps ==
  ASSUME HoursInv, NEW r \in Requests,
         \/ \E s \in Scopes : DrawPlan(r, s)
         \/ \E b \in Bookings : CancelRead(r, b)
         \/ \E e \in Extensions : SettleRead(r, e) \/ ApplyRead(r, e)
         \/ Crash(r)
  PROVE  HoursInv'
<1>1. UNCHANGED <<bucket, scope, history>>
  BY DEF DrawPlan, CancelRead, SettleRead, ApplyRead, Crash
<1>2. PICK h \in Handler \cup {Idle} : Knows(h) /\ req' = [req EXCEPT ![r] = h]
  <2>1. ASSUME NEW s \in Scopes, DrawPlan(r, s)
        PROVE  \E h \in Handler : Knows(h) /\ req' = [req EXCEPT ![r] = h]
    <3>1. PICK p \in Buckets, want \in Wanted[s] :
            /\ Usable(p)
            /\ Begin(r, [pc |-> "draw", scope |-> s, bucket |-> p,
                         hours |-> Least(want, left[p])])
      BY <2>1 DEF DrawPlan
    <3>2. Least(want, left[p]) \in Nat /\ Least(want, left[p]) > 0
      <4>1. want \in Nat \ {0}
        BY PackageHoursAssumption DEF Scopes
      <4> QED
        BY <3>1, <4>1 DEF Least, Usable, HoursInv, TypeOK
    <3> DEFINE h == [pc |-> "draw", scope |-> s, bucket |-> p, hours |-> Least(want, left[p])]
    <3>3. h \in Handler /\ Knows(h)
      BY <3>2 DEF Handler, Knows
    <3> QED
      BY <3>1, <3>3 DEF Begin
  <2>2. ASSUME NEW b \in Bookings, CancelRead(r, b)
        PROVE  \E h \in Handler : Knows(h) /\ req' = [req EXCEPT ![r] = h]
    <3>1. PICK byId \in BOOLEAN :
            Begin(r, [pc |-> IF applied[b] > 0 THEN "return" ELSE "cancel",
                      scope |-> b, byId |-> byId])
      BY <2>2 DEF CancelRead
    <3>2. PICK h : h = [pc |-> IF applied[b] > 0 THEN "return" ELSE "cancel",
                        scope |-> b, byId |-> byId]
      OBVIOUS
    <3>3. h \in Handler
      BY <3>2 DEF Handler
    <3>4. applied[b] \in Nat /\ state[b] = "UNPAID"
      BY <2>2 DEF CancelRead, HoursInv, TypeOK, Scopes
    <3>5. Knows(h)
      BY <3>2, <3>4 DEF Knows
    <3> QED
      BY <3>1, <3>2, <3>3, <3>5 DEF Begin
  <2>3. ASSUME NEW e \in Extensions, SettleRead(r, e)
        PROVE  \E h \in Handler : Knows(h) /\ req' = [req EXCEPT ![r] = h]
    <3>1. Unreturned(e) \in SUBSET Buckets
      BY DEF Unreturned
    <3> DEFINE h == [pc |-> "settle", scope |-> e, seen |-> Unreturned(e)]
    <3>2. h \in Handler /\ Knows(h)
      BY <2>3, <3>1 DEF SettleRead, Handler, Knows
    <3> QED
      BY <2>3, <3>2 DEF SettleRead, Begin
  <2>5. ASSUME NEW e \in Extensions, ApplyRead(r, e)
        PROVE  \E h \in Handler : Knows(h) /\ req' = [req EXCEPT ![r] = h]
    <3> DEFINE h == [pc |-> "apply", scope |-> e, hours |-> applied[e], seen |-> applied[Of[e]]]
    <3>1. applied[e] \in Nat /\ applied[Of[e]] \in Nat
      BY PackageHoursAssumption DEF HoursInv, TypeOK, Scopes
    <3>2. h \in Handler /\ Knows(h)
      BY <2>5, <3>1 DEF ApplyRead, Handler, Knows
    <3> QED
      BY <2>5, <3>2 DEF ApplyRead, Begin
  <2>4. ASSUME Crash(r)
        PROVE  Knows(Idle) /\ req' = [req EXCEPT ![r] = Idle]
    BY <2>4 DEF Crash, Finish, Knows, Idle
  <2> QED
    BY <2>1, <2>2, <2>3, <2>4, <2>5
<1> QED
  BY <1>1, <1>2, HandlerStep

-----------------------------------------------------------------------------
(* Drawing. *)

\* The debit takes place: a new row of s holds what left the bucket.
LEMMA DrawTakes ==
  ASSUME HoursInv, NEW r \in Requests, NEW s \in Scopes, NEW p \in Buckets, NEW n \in Nat,
         n > 0, s \in Bookings => state[s] = "none",
         status[p] = "ACTIVE", left[p] >= n, drawn[s][p] = 0,
         left' = [left EXCEPT ![p] = left[p] - n],
         drawn' = [drawn EXCEPT ![s] = [drawn[s] EXCEPT ![p] = n]],
         live' = [live EXCEPT ![s] = [live[s] EXCEPT ![p] = TRUE]],
         applied' = [applied EXCEPT ![s] = n],
         state' = [state EXCEPT ![s] = "UNPAID"],
         overtaken' = IF Closing(s) THEN overtaken \cup {s} ELSE overtaken,
         Finish(r), UNCHANGED <<status, due, lost, back, kept>>
  PROVE  HoursInv'
<1>1. TypeOK'
  <2>1. left[p] - n \in Nat
    BY DEF HoursInv, TypeOK
  <2>2. left' \in [Buckets -> Nat] /\ applied' \in [Scopes -> Nat]
    BY <2>1 DEF HoursInv, TypeOK
  <2>3. [drawn[s] EXCEPT ![p] = n] \in [Buckets -> Nat]
        /\ [live[s] EXCEPT ![p] = TRUE] \in [Buckets -> BOOLEAN]
    BY DEF HoursInv, TypeOK
  <2>4. drawn' \in [Scopes -> [Buckets -> Nat]] /\ live' \in [Scopes -> [Buckets -> BOOLEAN]]
    BY <2>3 DEF HoursInv, TypeOK
  <2>5. /\ state' \in [Scopes -> States] /\ req' \in [Requests -> Handler \cup {Idle}]
        /\ overtaken' \subseteq Scopes
    BY DEF HoursInv, TypeOK, States, Finish
  <2> QED
    BY <2>2, <2>4, <2>5 DEF HoursInv, TypeOK
<1>2. /\ \A x \in Scopes \ {s} :
           UNCHANGED <<drawn[x], live[x], back[x], applied[x], state[x]>>
      /\ \A q \in Buckets \ {p} :
           drawn'[s][q] = drawn[s][q] /\ live'[s][q] = live[s][q] /\ left'[q] = left[q]
      /\ state'[s] = "UNPAID" /\ applied'[s] = n
      /\ left'[p] = left[p] - n /\ drawn'[s][p] = n /\ live'[s][p]
      /\ overtaken \subseteq overtaken'
  BY DEF HoursInv, TypeOK
<1>3. ASSUME NEW q \in Buckets PROVE BucketInv(q)'
  <2>1. BucketInv(q)
    BY DEF HoursInv
  <2>2. /\ Taken(q)[s] = IF live[s][q] THEN drawn[s][q] ELSE 0
        /\ (Taken(q)[s])' = IF live'[s][q] THEN drawn'[s][q] ELSE 0
    BY DEF Taken
  <2>3. /\ left[q] \in Int /\ left'[q] \in Int
        /\ drawn[s][q] \in Int /\ back[s][q] \in Int
    BY <1>1 DEF HoursInv, TypeOK
  <2>4. left'[q] = left[q] + Taken(q)[s] - (Taken(q)[s])' + back'[s][q] - back[s][q]
    <3>1. CASE q = p
      BY <1>2, <2>2, <2>3, <3>1
    <3>2. CASE q # p
      BY <1>2, <2>2, <2>3, <3>2
    <3> QED
      BY <3>1, <3>2
  <2>5. status[q] = "PENDING_PAYMENT" => drawn'[s][q] = 0 /\ back'[s][q] = 0
    BY <1>2, <2>1 DEF BucketInv, PaidForFirst
  <2>6. \A x \in Scopes \ {s} : /\ drawn'[x][q] = drawn[x][q]
                                /\ live'[x][q] = live[x][q]
                                /\ back'[x][q] = back[x][q]
    BY <1>2
  <2> QED
    BY <1>1, <2>1, <2>4, <2>5, <2>6, BucketMoves DEF HoursInv
<1>4. ASSUME NEW x \in Scopes \ {s} PROVE RestIsReturned(x)'
  BY <1>2, ScopeKept DEF HoursInv
<1>5. RestIsReturned(s)'
  BY <1>2 DEF RestIsReturned
<1>6. Undisturbed
  <2>1. \A e \in Extensions : \/ Unreturned(e)' \subseteq Unreturned(e)
                              \/ e \in overtaken'
                              \/ \A q \in Requests : ~ (At(q, "settle") /\ req[q].scope = e)
    <3> SUFFICES ASSUME NEW e \in Extensions
                 PROVE  \/ Unreturned(e)' \subseteq Unreturned(e)
                        \/ e \in overtaken'
                        \/ \A q \in Requests : ~ (At(q, "settle") /\ req[q].scope = e)
      OBVIOUS
    <3>1. CASE e = s
      BY <3>1 DEF Closing
    <3>2. CASE e # s
      BY <1>2, <3>2 DEF Unreturned, Scopes
    <3> QED
      BY <3>1, <3>2
  <2>2. \A b \in Bookings : state[b] # "none" => applied'[b] = applied[b] /\ state'[b] = state[b]
    BY <1>2 DEF Scopes
  <2> QED
    BY <1>2, <2>1, <2>2 DEF Undisturbed
<1>7. \A q \in Requests : Knows(req[q])'
  BY <1>6, OneEnds
<1> QED
  BY <1>1, <1>3, <1>4, <1>5, <1>7 DEF HoursInv

\* The balance was taken meanwhile: made or accepted without hours.
LEMMA DrawFails ==
  ASSUME HoursInv, NEW r \in Requests, NEW s \in Scopes,
         s \in Bookings => state[s] = "none",
         state' = [state EXCEPT ![s] = "UNPAID"], Finish(r),
         UNCHANGED <<bucket, applied, drawn, live, back, history>>
  PROVE  HoursInv'
<1>1. /\ TypeOK'
      /\ \A x \in Scopes \ {s} : state'[x] = state[x]
      /\ state'[s] = "UNPAID"
  BY DEF HoursInv, TypeOK, States, Finish, bucket, history
<1>2. \A p \in Buckets : BucketInv(p)'
  BY BucketKept DEF HoursInv, bucket
<1>3. \A x \in Scopes \ {s} : RestIsReturned(x)'
  BY <1>1, ScopeKept DEF HoursInv, bucket, history
<1>4. RestIsReturned(s)'
  <2>1. Unreturned(s)' = Unreturned(s) /\ RestIsReturned(s)
    BY DEF Unreturned, HoursInv
  <2> QED
    BY <1>1, <2>1 DEF RestIsReturned, bucket, history
<1>5. \A x \in Scopes : Unreturned(x)' = Unreturned(x)
  BY DEF Unreturned
<1>6. Undisturbed
  BY <1>1, <1>5 DEF Undisturbed, Scopes, history
<1>7. \A q \in Requests : Knows(req[q])'
  BY <1>6, OneEnds
<1> QED
  BY <1>1, <1>2, <1>3, <1>4, <1>7 DEF HoursInv

LEMMA DrawStep ==
  ASSUME HoursInv, NEW r \in Requests, DrawWrite(r)
  PROVE  HoursInv'
<1>0. PICK s, p, n : s = req[r].scope /\ p = req[r].bucket /\ n = req[r].hours
  OBVIOUS
<1>1. /\ s \in Scopes /\ p \in Buckets /\ n \in Nat /\ n > 0
      /\ s \in Bookings => state[s] = "none"
  <2>1. At(r, "draw") /\ (s \in Bookings => state[s] = "none")
    BY <1>0 DEF DrawWrite
  <2>2. s \in Scopes /\ p \in Buckets /\ n \in Nat
    BY <1>0, <2>1, HandlerShapes DEF HoursInv, At
  <2> QED
    BY <1>0, <2>1, <2>2 DEF HoursInv, Knows, At
<1>2. Finish(r) /\ UNCHANGED <<status, due, lost, back, kept>>
  BY DEF DrawWrite
<1>3. CASE /\ CanTake(p, n) /\ drawn[s][p] = 0
           /\ left' = [left EXCEPT ![p] = left[p] - n]
           /\ drawn' = [drawn EXCEPT ![s] = [drawn[s] EXCEPT ![p] = n]]
           /\ live' = [live EXCEPT ![s] = [live[s] EXCEPT ![p] = TRUE]]
           /\ applied' = [applied EXCEPT ![s] = n]
           /\ state' = [state EXCEPT ![s] = "UNPAID"]
           /\ overtaken' = IF Closing(s) THEN overtaken \cup {s} ELSE overtaken
  BY <1>1, <1>2, <1>3, DrawTakes DEF CanTake
<1>4. CASE state' = [state EXCEPT ![s] = "UNPAID"]
           /\ UNCHANGED <<left, drawn, live, applied, overtaken>>
  BY <1>1, <1>2, <1>4, DrawFails DEF bucket, history
<1>5. CASE UNCHANGED <<left, drawn, live, applied, state, overtaken>>
  <2>1. Knows(Idle)
    BY DEF Knows, Idle
  <2> QED
    BY <1>2, <1>5, <2>1, HandlerStep DEF Finish, bucket, scope, history
<1> QED
  BY <1>0, <1>3, <1>4, <1>5 DEF DrawWrite

-----------------------------------------------------------------------------
(* The extra hours of an extension that is paid for. *)

LEMMA ApplyStep ==
  ASSUME HoursInv, NEW r \in Requests, ApplyWrite(r)
  PROVE  HoursInv'
<1>0. PICK e, b, n : e = req[r].scope /\ b = Of[e] /\ n = req[r].seen + req[r].hours
  OBVIOUS
<1>1. /\ e \in Extensions /\ e \notin Bookings /\ e \in Scopes /\ b \in Bookings /\ b \in Scopes
      /\ n \in Nat /\ state[b] \notin {"none", "UNPAID"}
  <2>1. req[r].pc = "apply"
    BY DEF ApplyWrite, At
  <2>2. e \in Extensions /\ n \in Nat
    BY <1>0, <2>1, HandlerShapes DEF HoursInv
  <2> QED
    BY <1>0, <2>1, <2>2, PackageHoursAssumption DEF HoursInv, Knows, Scopes
<1>2. /\ UNCHANGED <<status, left, due, lost, drawn, live, back, kept, overtaken>> /\ Finish(r)
      /\ applied' = [applied EXCEPT ![b] = n] /\ state' = [state EXCEPT ![e] = "PAID"]
  BY <1>0 DEF ApplyWrite, bucket, history
<1>3. /\ TypeOK'
      /\ \A x \in Scopes \ {b} : applied'[x] = applied[x]
      /\ \A x \in Scopes \ {e} : state'[x] = state[x]
      /\ state'[e] = "PAID" /\ state'[b] = state[b]
  BY <1>1, <1>2 DEF HoursInv, TypeOK, States, Finish
<1>4. \A p \in Buckets : BucketInv(p)'
  BY <1>2, BucketKept DEF HoursInv
<1>5. \A x \in Scopes \ {e} : RestIsReturned(x)'
  BY <1>1, <1>2, <1>3, ScopeKept DEF HoursInv
<1>6. RestIsReturned(e)'
  BY <1>1, <1>3 DEF RestIsReturned
<1>7. \A x \in Scopes : Unreturned(x)' = Unreturned(x)
  BY <1>2 DEF Unreturned
<1>8. Undisturbed
  BY <1>1, <1>2, <1>3, <1>7 DEF Undisturbed, Scopes
<1>9. \A q \in Requests : Knows(req[q])'
  BY <1>2, <1>8, OneEnds
<1> QED
  BY <1>3, <1>4, <1>5, <1>6, <1>9 DEF HoursInv

-----------------------------------------------------------------------------
(* Returning. *)

\* Hours that had not come back do, and only those of buckets no longer usable stay.
LEMMA GivesBack ==
  ASSUME HoursInv, NEW s \in Scopes, NEW S \in SUBSET Buckets, GiveBack(s, S),
         RefundIsNew(s, S), UNCHANGED <<status, lost, drawn, live>>
  PROVE  /\ left' \in [Buckets -> Nat] /\ back' \in [Scopes -> [Buckets -> Nat]]
         /\ \A x \in Scopes \ {s} : back'[x] = back[x]
         /\ \A x \in Scopes : Unreturned(x)' \subseteq Unreturned(x)
         /\ \A p \in Unreturned(s)' : p \in S => status[p] = "EXPIRED"
         /\ TypeOK' => \A p \in Buckets : BucketInv(p)'
<1> DEFINE T == {p \in S : Creditable(p)}
           row == [p \in Buckets |-> IF p \in T THEN drawn[s][p] ELSE back[s][p]]
<1>1. /\ left' = [p \in Buckets |-> IF p \in T THEN left[p] + drawn[s][p] ELSE left[p]]
      /\ back' = [back EXCEPT ![s] = row]
  BY DEF GiveBack
<1>2. /\ \A p \in Buckets : drawn[s][p] \in Nat /\ left[p] \in Nat /\ back[s][p] \in Nat
      /\ back \in [Scopes -> [Buckets -> Nat]]
  BY DEF HoursInv, TypeOK
<1>3. row \in [Buckets -> Nat]
  BY <1>2
<1>4. /\ left' \in [Buckets -> Nat] /\ back' \in [Scopes -> [Buckets -> Nat]]
      /\ \A x \in Scopes \ {s} : back'[x] = back[x]
      /\ back'[s] = row
  BY <1>1, <1>2, <1>3
<1>5. \A p \in Buckets : /\ p \in T => /\ status[p] = "ACTIVE" /\ back[s][p] = 0
                                       /\ back'[s][p] = drawn[s][p]
                                       /\ left'[p] = left[p] + drawn[s][p]
                         /\ p \notin T => back'[s][p] = back[s][p] /\ left'[p] = left[p]
  BY <1>1, <1>4 DEF RefundIsNew, Creditable
<1>6. \A x \in Scopes : Unreturned(x)' \subseteq Unreturned(x)
  <2> SUFFICES ASSUME NEW x \in Scopes, NEW p \in Buckets, p \in Unreturned(x)'
               PROVE  p \in Unreturned(x)
    BY DEF Unreturned
  <2>1. CASE x = s
    BY <1>2, <1>5, <2>1 DEF Unreturned
  <2>2. CASE x # s
    BY <1>4, <2>2 DEF Unreturned
  <2> QED
    BY <2>1, <2>2
<1>7. \A p \in Unreturned(s)' : p \in S => status[p] = "EXPIRED"
  <2> SUFFICES ASSUME NEW p \in Buckets, p \in Unreturned(s)', p \in S
               PROVE  status[p] = "EXPIRED"
    BY DEF Unreturned
  <2>1. drawn[s][p] > 0 /\ back'[s][p] = 0
    BY DEF Unreturned
  <2>2. p \notin T
    BY <1>5, <2>1
  <2>3. status[p] # "ACTIVE"
    BY <2>2 DEF Creditable
  <2>4. status[p] # "PENDING_PAYMENT"
    BY <1>2, <2>1 DEF HoursInv, BucketInv, PaidForFirst
  <2> QED
    BY <2>3, <2>4 DEF HoursInv, TypeOK
<1>8. ASSUME TypeOK', NEW p \in Buckets PROVE BucketInv(p)'
  <2>1. BucketInv(p)
    BY DEF HoursInv
  <2>2. (Taken(p)[s])' = Taken(p)[s] /\ Taken(p)[s] \in Int
    BY <1>2 DEF Taken
  <2>3. left'[p] = left[p] + Taken(p)[s] - (Taken(p)[s])' + back'[s][p] - back[s][p]
    BY <1>2, <1>5, <2>2
  <2>4. status[p] = "PENDING_PAYMENT" => drawn'[s][p] = 0 /\ back'[s][p] = 0
    BY <1>5, <2>1 DEF BucketInv, PaidForFirst
  <2>5. \A x \in Scopes \ {s} : /\ drawn'[x][p] = drawn[x][p]
                                /\ live'[x][p] = live[x][p]
                                /\ back'[x][p] = back[x][p]
    BY <1>4
  <2> QED
    BY <1>8, <2>1, <2>3, <2>4, <2>5, BucketMoves DEF HoursInv
<1> QED
  BY <1>4, <1>6, <1>7, <1>8

LEMMA CancelReturnStep ==
  ASSUME HoursInv, NEW r \in Requests, CancelReturn(r)
  PROVE  HoursInv'
<1>0. PICK b, h : b = req[r].scope /\ h = [pc |-> "cancel", scope |-> b, byId |-> req[r].byId]
  OBVIOUS
<1>1. b \in Bookings /\ b \in Scopes /\ state[b] # "none" /\ h \in Handler
  <2>1. req[r].pc = "return"
    BY DEF CancelReturn, At
  <2>2. b \in Bookings /\ req[r].byId \in BOOLEAN
    BY <1>0, <2>1, HandlerShapes DEF HoursInv
  <2>3. state[b] # "none"
    BY <1>0, <2>1 DEF HoursInv, Knows
  <2> QED
    BY <1>0, <2>2, <2>3 DEF Scopes, Handler
<1>2. req' = [req EXCEPT ![r] = h]
  <2>1. [req[r] EXCEPT !.pc = "cancel"] = h
    <3>1. req[r] \in Handler \cup {Idle} /\ req[r].pc = "return"
      BY DEF CancelReturn, At, HoursInv, TypeOK
    <3>2. req[r] \in [pc : {"return", "cancel"}, scope : Bookings, byId : BOOLEAN]
      BY <3>1 DEF Handler, Idle
    <3> QED
      BY <1>0, <3>2
  <2> QED
    BY <2>1 DEF CancelReturn, Continue
<1>3. CASE ~ ReturnGuard(b)
  <2>1. UNCHANGED <<bucket, scope, history>>
    BY <1>0, <1>3 DEF CancelReturn, bucket, scope
  <2>2. Knows(h)
    <3>1. state[b] = "UNPAID" => applied[b] = 0
      BY <1>1, <1>3 DEF ReturnGuard, HoursInv, TypeOK
    <3> QED
      BY <1>0, <1>1, <3>1 DEF Knows
  <2> QED
    BY <1>1, <1>2, <2>1, <2>2, HandlerStep
<1>4. CASE ReturnGuard(b)
  <2>1. /\ GiveBack(b, Unreturned(b)) /\ applied' = [applied EXCEPT ![b] = 0]
        /\ UNCHANGED <<status, due, lost, state, drawn, live, kept, overtaken>>
    BY <1>0, <1>4 DEF CancelReturn, history
  <2>2. Unreturned(b) \in SUBSET Buckets /\ RefundIsNew(b, Unreturned(b))
    BY DEF Unreturned, RefundIsNew
  <2>3. /\ left' \in [Buckets -> Nat] /\ back' \in [Scopes -> [Buckets -> Nat]]
        /\ \A x \in Scopes \ {b} : back'[x] = back[x]
        /\ \A x \in Scopes : Unreturned(x)' \subseteq Unreturned(x)
        /\ \A p \in Unreturned(b)' : p \in Unreturned(b) => status[p] = "EXPIRED"
        /\ TypeOK' => \A p \in Buckets : BucketInv(p)'
    BY <1>1, <2>1, <2>2, GivesBack
  <2>4. TypeOK'
    BY <1>1, <1>2, <2>1, <2>3 DEF HoursInv, TypeOK
  <2>5. applied'[b] = 0 /\ \A x \in Scopes \ {b} : applied'[x] = applied[x]
    BY <1>1, <2>1 DEF HoursInv, TypeOK
  <2>6. \A x \in Scopes \ {b} : RestIsReturned(x)'
    BY <2>1, <2>3, <2>5, ScopeKept DEF HoursInv
  <2>7. RestIsReturned(b)'
    BY <1>1, <2>1, <2>3, <2>5 DEF HoursInv, TypeOK, RestIsReturned
  <2>8. Undisturbed
    BY <1>1, <2>1, <2>3, <2>5 DEF Undisturbed, Scopes
  <2>9. Knows(h)'
    BY <1>0, <1>1, <2>1, <2>5 DEF Knows
  <2>10. \A q \in Requests : Knows(req[q])'
    BY <1>2, <2>8, <2>9, AllKnow
  <2> QED
    BY <1>1, <2>3, <2>4, <2>6, <2>7, <2>10 DEF HoursInv
<1> QED
  BY <1>3, <1>4

\* A booking is called off whose hours are back, kept or overtaken by an edit.
LEMMA CancelWriteStep ==
  ASSUME HoursInv, NEW r \in Requests, CancelWrite(r)
  PROVE  HoursInv'
<1>0. PICK b : b = req[r].scope
  OBVIOUS
<1>1. /\ b \in Bookings /\ b \in Scopes /\ state[b] # "none"
      /\ (state[b] = "UNPAID" /\ b \notin overtaken) => applied[b] = 0
  <2>1. req[r].pc = "cancel"
    BY DEF CancelWrite, At
  <2>2. b \in Bookings
    BY <1>0, <2>1, HandlerShapes DEF HoursInv
  <2> QED
    BY <1>0, <2>1, <2>2 DEF HoursInv, Knows, Scopes
<1>2. /\ UNCHANGED <<status, left, due, lost, applied, drawn, live, back, overtaken>>
      /\ Finish(r)
      /\ \/ UNCHANGED <<state, kept>>
         \/ /\ state' = [state EXCEPT ![b] = "CANCELLED"]
            /\ kept' = IF state[b] \in {"UNPAID", "CANCELLED"} THEN kept ELSE kept \cup {b}
  BY <1>0 DEF CancelWrite, bucket
<1>3. /\ \A x \in Scopes \ {b} : state'[x] = state[x]
      /\ state'[b] \in {state[b], "CANCELLED"}
      /\ kept' \in {kept, kept \cup {b}}
      /\ (state'[b] = "CANCELLED" /\ b \notin kept') => state[b] \in {"UNPAID", "CANCELLED"}
  <2>1. state \in [Scopes -> States]
    BY DEF HoursInv, TypeOK
  <2>2. CASE UNCHANGED <<state, kept>>
    BY <2>1, <2>2
  <2>3. CASE /\ state' = [state EXCEPT ![b] = "CANCELLED"]
             /\ kept' = IF state[b] \in {"UNPAID", "CANCELLED"} THEN kept ELSE kept \cup {b}
    <3>1. state'[b] = "CANCELLED" /\ \A x \in Scopes \ {b} : state'[x] = state[x]
      BY <1>1, <2>1, <2>3
    <3> QED
      BY <2>1, <2>3, <3>1
  <2> QED
    BY <1>2, <2>2, <2>3
<1>4. TypeOK'
  <2>1. state' \in [Scopes -> States]
    BY <1>1, <1>2 DEF HoursInv, TypeOK, States
  <2> QED
    BY <1>1, <1>2, <1>3, <2>1 DEF HoursInv, TypeOK, Finish
<1>5. \A p \in Buckets : BucketInv(p)'
  BY <1>2, BucketKept DEF HoursInv
<1>6. \A x \in Scopes \ {b} : RestIsReturned(x)'
  BY <1>2, <1>3, ScopeKept DEF HoursInv
<1>7. RestIsReturned(b)'
  <2>1. RestIsReturned(b) /\ Unreturned(b)' = Unreturned(b)
    BY <1>1, <1>2 DEF HoursInv, Unreturned
  <2> QED
    BY <1>1, <1>2, <1>3, <2>1 DEF RestIsReturned
<1>8. Undisturbed
  <2>1. \A x \in Scopes : Unreturned(x)' = Unreturned(x)
    BY <1>2 DEF Unreturned
  <2> QED
    BY <1>1, <1>2, <1>3, <2>1 DEF Undisturbed, Scopes
<1>9. \A q \in Requests : Knows(req[q])'
  BY <1>2, <1>8, OneEnds
<1> QED
  BY <1>4, <1>5, <1>6, <1>7, <1>9 DEF HoursInv

LEMMA CancelPaidStep ==
  ASSUME HoursInv, NEW b \in Bookings, CancelPaid(b)
  PROVE  HoursInv'
<1>1. /\ UNCHANGED <<status, due, lost, applied, drawn, live, req, overtaken>>
      /\ b \in Scopes /\ state[b] = "PAID" /\ state' = [state EXCEPT ![b] = "CANCELLED"]
  BY DEF CancelPaid, Scopes
<1>2. /\ state'[b] = "CANCELLED"
      /\ \A x \in Scopes \ {b} : state'[x] = state[x]
      /\ state' \in [Scopes -> States]
  BY <1>1 DEF HoursInv, TypeOK, States
<1>3. /\ left' \in [Buckets -> Nat] /\ back' \in [Scopes -> [Buckets -> Nat]]
      /\ kept' \in {kept, kept \cup {b}}
      /\ \A x \in Scopes \ {b} : back'[x] = back[x]
      /\ \A x \in Scopes : Unreturned(x)' \subseteq Unreturned(x)
      /\ b \in kept' \/ \A p \in Unreturned(b)' : status[p] = "EXPIRED"
      /\ TypeOK' => \A p \in Buckets : BucketInv(p)'
  <2>1. CASE GiveBack(b, Unreturned(b)) /\ UNCHANGED kept
    <3>1. Unreturned(b) \in SUBSET Buckets /\ RefundIsNew(b, Unreturned(b))
      BY DEF Unreturned, RefundIsNew
    <3>2. /\ left' \in [Buckets -> Nat] /\ back' \in [Scopes -> [Buckets -> Nat]]
          /\ \A x \in Scopes \ {b} : back'[x] = back[x]
          /\ \A x \in Scopes : Unreturned(x)' \subseteq Unreturned(x)
          /\ \A p \in Unreturned(b)' : p \in Unreturned(b) => status[p] = "EXPIRED"
          /\ TypeOK' => \A p \in Buckets : BucketInv(p)'
      BY <1>1, <2>1, <3>1, GivesBack
    <3> QED
      BY <1>1, <2>1, <3>2
  <2>2. CASE kept' = kept \cup {b} /\ UNCHANGED <<left, back>>
    <3>1. \A x \in Scopes : Unreturned(x)' = Unreturned(x)
      BY <1>1, <2>2 DEF Unreturned
    <3>2. \A p \in Buckets : BucketInv(p)'
      BY <1>1, <2>2, BucketKept DEF HoursInv
    <3> QED
      BY <2>2, <3>1, <3>2 DEF HoursInv, TypeOK
  <2> QED
    BY <2>1, <2>2 DEF CancelPaid
<1>4. TypeOK'
  BY <1>1, <1>2, <1>3 DEF HoursInv, TypeOK
<1>5. \A x \in Scopes \ {b} : RestIsReturned(x)'
  BY <1>1, <1>2, <1>3, ScopeKept DEF HoursInv
<1>6. RestIsReturned(b)'
  BY <1>1, <1>2, <1>3 DEF RestIsReturned
<1>7. Undisturbed
  BY <1>1, <1>2, <1>3 DEF Undisturbed, Scopes
<1>8. \A q \in Requests : Knows(req[q])'
  BY <1>1, <1>7, NoneMove
<1> QED
  BY <1>3, <1>4, <1>5, <1>6, <1>8 DEF HoursInv

\* An extension is closed whatever it has become; all its rows had been seen.
LEMMA SettleStep ==
  ASSUME HoursInv, NEW r \in Requests, SettleWrite(r)
  PROVE  HoursInv'
<1>0. PICK e, S : e = req[r].scope /\ S = req[r].seen
  OBVIOUS
<1>1. /\ e \in Extensions /\ e \in Scopes /\ S \in SUBSET Buckets
      /\ e \notin overtaken => Unreturned(e) \subseteq S
      /\ e \notin Bookings
  <2>1. req[r].pc = "settle"
    BY DEF SettleWrite, At
  <2>2. e \in Extensions /\ S \in SUBSET Buckets
    BY <1>0, <2>1, HandlerShapes DEF HoursInv
  <2> QED
    BY <1>0, <2>1, <2>2, PackageHoursAssumption DEF HoursInv, Knows, Scopes
<1>2. UNCHANGED <<status, due, lost, drawn, live, kept, overtaken>> /\ Finish(r)
  BY DEF SettleWrite, history
<1>3. CASE UNCHANGED <<left, back, applied, state>>
  <2>1. Knows(Idle)
    BY DEF Knows, Idle
  <2> QED
    BY <1>2, <1>3, <2>1, HandlerStep DEF Finish, bucket, scope, history
<1>4. CASE /\ RefundIsNew(e, S) /\ GiveBack(e, S)
           /\ applied' = [applied EXCEPT ![e] = 0]
           /\ state' = [state EXCEPT ![e] = "CANCELLED"]
  <2>1. /\ left' \in [Buckets -> Nat] /\ back' \in [Scopes -> [Buckets -> Nat]]
        /\ \A x \in Scopes \ {e} : back'[x] = back[x]
        /\ \A x \in Scopes : Unreturned(x)' \subseteq Unreturned(x)
        /\ \A p \in Unreturned(e)' : p \in S => status[p] = "EXPIRED"
        /\ TypeOK' => \A p \in Buckets : BucketInv(p)'
    BY <1>1, <1>2, <1>4, GivesBack
  <2>2. /\ state'[e] = "CANCELLED"
        /\ \A x \in Scopes \ {e} : state'[x] = state[x]
        /\ \A x \in Scopes \ {e} : applied'[x] = applied[x]
        /\ state' \in [Scopes -> States] /\ applied' \in [Scopes -> Nat]
    BY <1>1, <1>4 DEF HoursInv, TypeOK, States
  <2>3. TypeOK'
    BY <1>2, <2>1, <2>2 DEF HoursInv, TypeOK, Finish
  <2>4. \A x \in Scopes \ {e} : RestIsReturned(x)'
    BY <1>2, <2>1, <2>2, ScopeKept DEF HoursInv
  <2>5. RestIsReturned(e)'
    <3>1. e \notin overtaken => \A p \in Unreturned(e)' : status'[p] = "EXPIRED"
      BY <1>1, <1>2, <2>1
    <3> QED
      BY <1>1, <1>2, <2>2, <3>1 DEF RestIsReturned
  <2>6. Undisturbed
    BY <1>1, <1>2, <2>1, <2>2 DEF Undisturbed, Scopes
  <2>7. \A q \in Requests : Knows(req[q])'
    BY <1>2, <2>6, OneEnds
  <2> QED
    BY <2>1, <2>3, <2>4, <2>5, <2>7 DEF HoursInv
<1> QED
  BY <1>0, <1>3, <1>4 DEF SettleWrite

-----------------------------------------------------------------------------
(* An edit alters the rows of one booking in place. *)

\* Bucket q after the live hours of b went back to it.
Restored(b, q) == IF live[b][q] /\ status[q] = "ACTIVE" THEN left[q] + drawn[b][q] ELSE left[q]

LEMMA RestoredNat ==
  ASSUME HoursInv, NEW b \in Scopes, NEW q \in Buckets
  PROVE  Restored(b, q) \in Nat
BY DEF HoursInv, TypeOK, Restored

\* What an edit writes of b: n hours of p, or nothing (n = 0).
Rewrites(b, p, n) ==
  /\ left' = [q \in Buckets |-> IF q = p /\ n > 0 THEN Restored(b, q) - n ELSE Restored(b, q)]
  /\ drawn' = [drawn EXCEPT ![b] = [drawn[b] EXCEPT ![p] = IF n > 0 THEN n ELSE drawn[b][p]]]
  /\ live' = [live EXCEPT ![b] = [q \in Buckets |-> q = p /\ n > 0]]
  /\ applied' = [applied EXCEPT ![b] = n]
  /\ n > 0 => status[p] = "ACTIVE" /\ n <= Restored(b, p)

LEMMA EditRewrites ==
  ASSUME HoursInv, NEW b \in Bookings, Edit(b), Buckets # {}
  PROVE  \E p \in Buckets, n \in Nat : Rewrites(b, p, n)
<1> DEFINE restored ==
             [q \in Buckets |->
                IF live[b][q] /\ status[q] = "ACTIVE" THEN left[q] + drawn[b][q] ELSE left[q]]
<1>1. b \in Scopes
  BY DEF Scopes
<1>2. \A q \in Buckets : restored[q] = Restored(b, q) /\ restored[q] \in Nat
  BY <1>1, RestoredNat DEF Restored
<1>3. ASSUME NEW p \in Buckets, NEW want \in Wanted[b],
             status[p] = "ACTIVE", restored[p] > 0,
             left' = [restored EXCEPT ![p] = restored[p] - Least(want, restored[p])],
             drawn' = [drawn EXCEPT ![b][p] = Least(want, restored[p])],
             applied' = [applied EXCEPT ![b] = Least(want, restored[p])],
             live' = [live EXCEPT ![b] = [q \in Buckets |-> RowLiveAfterEdit(b, q, p)]]
      PROVE  \E n \in Nat : Rewrites(b, p, n)
  <2>1. PICK n : n = Least(want, restored[p])
    OBVIOUS
  <2>2. n \in Nat /\ n > 0 /\ n <= Restored(b, p)
    <3>1. want \in Nat \ {0}
      BY <1>1, PackageHoursAssumption DEF Scopes
    <3> QED
      BY <1>2, <1>3, <2>1, <3>1 DEF Least
  <2>3. left' = [q \in Buckets |-> IF q = p /\ n > 0 THEN Restored(b, q) - n ELSE Restored(b, q)]
    BY <1>2, <1>3, <2>1, <2>2
  <2>4. drawn' = [drawn EXCEPT ![b] = [drawn[b] EXCEPT ![p] = n]]
    BY <1>3, <2>1
  <2>5. live' = [live EXCEPT ![b] = [q \in Buckets |-> q = p /\ n > 0]]
    <3>1. [q \in Buckets |-> RowLiveAfterEdit(b, q, p)] = [q \in Buckets |-> q = p /\ n > 0]
      BY <2>2 DEF RowLiveAfterEdit
    <3> QED
      BY <1>3, <3>1
  <2>6. drawn' = [drawn EXCEPT ![b] = [drawn[b] EXCEPT ![p] = IF n > 0 THEN n ELSE drawn[b][p]]]
    BY <2>2, <2>4
  <2> QED
    BY <1>3, <2>1, <2>2, <2>3, <2>5, <2>6 DEF Rewrites
<1>4. ASSUME left' = restored, applied' = [applied EXCEPT ![b] = 0],
             live' = [live EXCEPT ![b] = [q \in Buckets |-> FALSE]], UNCHANGED drawn
      PROVE  \E p \in Buckets, n \in Nat : Rewrites(b, p, n)
  <2>1. PICK p \in Buckets, n \in Nat : n = 0
    OBVIOUS
  <2>2. n = 0 /\ ~ (n > 0)
    BY <2>1
  <2>3. left' = [q \in Buckets |-> IF q = p /\ n > 0 THEN Restored(b, q) - n ELSE Restored(b, q)]
    BY <1>4, <2>2 DEF Restored
  <2>4. drawn' = [drawn EXCEPT ![b] = [drawn[b] EXCEPT ![p] = IF n > 0 THEN n ELSE drawn[b][p]]]
    <3>1. drawn \in [Scopes -> [Buckets -> Nat]]
      BY DEF HoursInv, TypeOK
    <3> QED
      BY <1>1, <1>4, <2>2, <3>1
  <2>5. live' = [live EXCEPT ![b] = [q \in Buckets |-> q = p /\ n > 0]]
    <3>1. [q \in Buckets |-> FALSE] = [q \in Buckets |-> q = p /\ n > 0]
      BY <2>2, Zenon
    <3> QED
      BY <1>4, <3>1
  <2>6. applied' = [applied EXCEPT ![b] = n]
    BY <1>4, <2>2
  <2>7. Rewrites(b, p, n)
    BY <2>2, <2>3, <2>4, <2>5, <2>6 DEF Rewrites
  <2> QED
    BY <2>7
<1>5. \/ \E p \in Buckets, want \in Wanted[b] :
           /\ status[p] = "ACTIVE" /\ restored[p] > 0
           /\ left' = [restored EXCEPT ![p] = restored[p] - Least(want, restored[p])]
           /\ drawn' = [drawn EXCEPT ![b][p] = Least(want, restored[p])]
           /\ applied' = [applied EXCEPT ![b] = Least(want, restored[p])]
           /\ live' = [live EXCEPT ![b] = [q \in Buckets |-> RowLiveAfterEdit(b, q, p)]]
      \/ /\ left' = restored /\ applied' = [applied EXCEPT ![b] = 0]
         /\ live' = [live EXCEPT ![b] = [q \in Buckets |-> FALSE]]
         /\ UNCHANGED drawn
  BY DEF Edit
<1> HIDE DEF restored
<1> QED
  BY <1>3, <1>4, <1>5

LEMMA EditStep ==
  ASSUME HoursInv, NEW b \in Bookings, Edit(b)
  PROVE  HoursInv'
<1>1. /\ UNCHANGED <<status, due, lost, state, back, req, kept>>
      /\ b \in Scopes /\ b \notin Extensions /\ b \notin overtaken
      /\ state[b] \in {"UNPAID", "PAID"}
      /\ overtaken' = IF Overtakes(b) THEN overtaken \cup {b} ELSE overtaken
  BY PackageHoursAssumption DEF Edit, EditBound, Scopes
<1>2. overtaken \subseteq overtaken' /\ overtaken' \subseteq Scopes
  BY <1>1 DEF HoursInv, TypeOK
<1>3. CASE Buckets = {}
  <2>1. /\ \A x \in Scopes \ {b} : applied'[x] = applied[x]
        /\ applied'[b] = 0
        /\ applied' \in [Scopes -> Nat]
    <3>1. applied' = [applied EXCEPT ![b] = 0]
      BY <1>3 DEF Edit
    <3> QED
      BY <1>1, <3>1 DEF HoursInv, TypeOK
  <2>2. /\ left' \in [Buckets -> Nat]
        /\ drawn' \in [Scopes -> [Buckets -> Nat]] /\ live' \in [Scopes -> [Buckets -> BOOLEAN]]
    <3>1. UNCHANGED drawn /\ live' = [live EXCEPT ![b] = [q \in Buckets |-> FALSE]]
      BY <1>3 DEF Edit
    <3>2. [q \in Buckets |-> FALSE] \in [Buckets -> BOOLEAN]
      OBVIOUS
    <3>3. left' \in [Buckets -> Nat]
      BY <1>3 DEF Edit
    <3> QED
      BY <1>1, <3>1, <3>2, <3>3 DEF HoursInv, TypeOK
  <2>3. TypeOK'
    BY <1>1, <1>2, <2>1, <2>2 DEF HoursInv, TypeOK
  <2>4. \A s \in Scopes : Unreturned(s)' = {} /\ Unreturned(s) = {}
    BY <1>3 DEF Unreturned
  <2>6. \A s \in Scopes : RestIsReturned(s)'
    BY <2>4 DEF RestIsReturned
  <2>7. Undisturbed
    BY <1>1, <1>2, <2>1, <2>4 DEF Undisturbed, Scopes
  <2>8. \A q \in Requests : Knows(req[q])'
    BY <1>1, <2>7, NoneMove
  <2> QED
    BY <1>3, <2>3, <2>6, <2>8 DEF HoursInv
<1>4. CASE Buckets # {}
  <2>1. PICK p \in Buckets, n \in Nat : Rewrites(b, p, n)
    BY <1>4, EditRewrites
  <2>2. \A q \in Buckets : Restored(b, q) \in Nat
    BY <1>1, RestoredNat
  <2>3. TypeOK'
    <3>1. left' \in [Buckets -> Nat]
      BY <2>1, <2>2 DEF Rewrites
    <3>2. applied' \in [Scopes -> Nat]
      BY <2>1 DEF Rewrites, HoursInv, TypeOK
    <3>3. [drawn[b] EXCEPT ![p] = IF n > 0 THEN n ELSE drawn[b][p]] \in [Buckets -> Nat]
      BY <1>1, <2>1 DEF HoursInv, TypeOK
    <3>4. [q \in Buckets |-> q = p /\ n > 0] \in [Buckets -> BOOLEAN]
      OBVIOUS
    <3>5. drawn' \in [Scopes -> [Buckets -> Nat]]
      BY <1>1, <2>1, <3>3 DEF Rewrites, HoursInv, TypeOK
    <3>6. live' \in [Scopes -> [Buckets -> BOOLEAN]]
      BY <1>1, <2>1, <3>4 DEF Rewrites, HoursInv, TypeOK
    <3> QED
      BY <1>1, <1>2, <3>1, <3>2, <3>5, <3>6 DEF HoursInv, TypeOK
  <2>4. /\ \A x \in Scopes \ {b} :
             drawn'[x] = drawn[x] /\ live'[x] = live[x] /\ applied'[x] = applied[x]
        /\ applied'[b] = n
        /\ \A q \in Buckets :
             /\ drawn'[b][q] = IF q = p /\ n > 0 THEN n ELSE drawn[b][q]
             /\ live'[b][q] <=> q = p /\ n > 0
             /\ left'[q] = IF q = p /\ n > 0 THEN Restored(b, q) - n ELSE Restored(b, q)
    BY <1>1, <2>1 DEF Rewrites, HoursInv, TypeOK
  <2>5. ASSUME NEW q \in Buckets PROVE BucketInv(q)'
    <3>1. BucketInv(q)
      BY DEF HoursInv
    <3>2. /\ Taken(q)[b] = IF live[b][q] THEN drawn[b][q] ELSE 0
          /\ (Taken(q)[b])' = IF live'[b][q] THEN drawn'[b][q] ELSE 0
      BY <1>1 DEF Taken
    <3>3. left[q] \in Nat /\ drawn[b][q] \in Nat /\ back[b][q] \in Nat
      BY <1>1 DEF HoursInv, TypeOK
    <3>4. status[q] = "ACTIVE" =>
            left'[q] = left[q] + Taken(q)[b] - (Taken(q)[b])' + back'[b][q] - back[b][q]
      BY <1>1, <2>4, <3>2, <3>3 DEF Restored
    <3>5. status[q] = "PENDING_PAYMENT" => drawn'[b][q] = 0 /\ back'[b][q] = 0
      BY <1>1, <2>1, <2>4, <3>1 DEF Rewrites, BucketInv, PaidForFirst
    <3>6. \A x \in Scopes \ {b} : /\ drawn'[x][q] = drawn[x][q]
                                  /\ live'[x][q] = live[x][q]
                                  /\ back'[x][q] = back[x][q]
      BY <1>1, <2>4
    <3> QED
      BY <1>1, <2>3, <3>1, <3>4, <3>5, <3>6, BucketMoves DEF HoursInv
  <2>6. \A x \in Scopes \ {b} : RestIsReturned(x)'
    BY <1>1, <1>2, <2>4, ScopeKept DEF HoursInv
  <2>8. RestIsReturned(b)'
    BY <1>1, <2>4 DEF RestIsReturned, Unreturned
  <2>9. Undisturbed
    <3>1. \A e \in Extensions : Unreturned(e)' = Unreturned(e)
      BY <1>1, <2>4 DEF Unreturned, Scopes
    <3>2. \A c \in Bookings : \/ applied'[c] = applied[c]
                              \/ c \in overtaken'
                              \/ \A q \in Requests : ~ (At(q, "cancel") /\ req[q].scope = c)
      BY <1>1, <2>4 DEF Overtakes, Scopes
    <3> QED
      BY <1>1, <1>2, <3>1, <3>2 DEF Undisturbed
  <2>10. \A q \in Requests : Knows(req[q])'
    BY <1>1, <2>9, NoneMove
  <2> QED
    BY <2>3, <2>5, <2>6, <2>8, <2>10 DEF HoursInv
<1> QED
  BY <1>3, <1>4

LEMMA HoursStep == HoursInv /\ [Next]_vars => HoursInv'
<1> SUFFICES ASSUME HoursInv, [Next]_vars PROVE HoursInv'
  OBVIOUS
<1>1. CASE UNCHANGED vars
  <2>1. UNCHANGED <<status, left, due, lost, state, applied, drawn, live, back, req, kept,
                    overtaken>>
    BY <1>1 DEF vars, bucket, scope, history
  <2>2. TypeOK'
    BY <2>1 DEF HoursInv, TypeOK
  <2>3. \A p \in Buckets : BucketInv(p)'
    BY <2>1, BucketKept DEF HoursInv
  <2>4. \A s \in Scopes : RestIsReturned(s)'
    BY <2>1, ScopeKept DEF HoursInv
  <2>5. \A q \in Requests : Knows(req[q])'
    BY <2>1, HandlersStay
  <2> QED
    BY <2>2, <2>3, <2>4, <2>5 DEF HoursInv
<1>2. CASE Next
  <2>1. CASE \E p \in Buckets : Activate(p) \/ Lapse(p) \/ Expire(p)
    BY <2>1, BucketSteps
  <2>2. CASE \/ \E s \in Scopes : DrawNothing(s)
             \/ \E e \in Extensions : Ask(e)
             \/ \E b \in Bookings : Pay(b) \/ Start(b) \/ End(b)
    BY <2>2, StateSteps DEF Scopes
  <2>3. CASE \E b \in Bookings : CancelPaid(b) \/ Edit(b)
    BY <2>3, CancelPaidStep, EditStep
  <2>4. ASSUME NEW r \in Requests,
               \/ \E s \in Scopes : DrawPlan(r, s)
               \/ \E b \in Bookings : CancelRead(r, b)
               \/ \E e \in Extensions : SettleRead(r, e) \/ ApplyRead(r, e)
               \/ Crash(r)
        PROVE  HoursInv'
    BY <2>4, ReadSteps
  <2>5. ASSUME NEW r \in Requests,
               \/ DrawWrite(r) \/ ApplyWrite(r)
               \/ CancelReturn(r) \/ CancelWrite(r) \/ SettleWrite(r)
        PROVE  HoursInv'
    BY <2>5, DrawStep, ApplyStep, CancelReturnStep, CancelWriteStep, SettleStep
  <2> QED
    BY <1>2, <2>1, <2>2, <2>3, <2>4, <2>5 DEF Next
<1> QED
  BY <1>1, <1>2

LEMMA HoursInit == Init => HoursInv
<1> SUFFICES ASSUME Init PROVE HoursInv
  OBVIOUS
<1>1. TypeOK
  BY DEF Init, TypeOK, States
<1>2. \A p \in Buckets : BucketInv(p)
  BY DEF Init, BucketInv, PaidForFirst, Balances
<1>3. \A s \in Scopes : RestIsReturned(s)
  BY DEF Init, RestIsReturned, Unreturned
<1>4. \A r \in Requests : Knows(req[r])
  BY DEF Init, Knows, Idle
<1> QED
  BY <1>1, <1>2, <1>3, <1>4 DEF HoursInv

LEMMA HoursAlways == Spec => []HoursInv
BY HoursInit, HoursStep, PTL DEF Spec

-----------------------------------------------------------------------------
(* The theorems. *)

\* Every variable keeps its type: no balance, and no row, ever falls below zero.
THEOREM TypeInvariant == Spec => []TypeOK
<1>1. HoursInv => TypeOK
  BY DEF HoursInv
<1> QED
  BY <1>1, HoursAlways, PTL

\* However draws, returns, forfeits, edits and crashes overlap, a usable bucket holds
\* what its ledger adds up to (package-hours.service.ts:184, :249, :318).
THEOREM BucketsAlwaysBalance == Spec => []BucketsBalance
<1>1. HoursInv => BucketsBalance
  BY DEF HoursInv, BucketInv, Balances, BucketsBalance
<1> QED
  BY <1>1, HoursAlways, PTL

\* Whatever is called off has its hours back in their bucket, unless the bucket
\* expired, the policy keeps them, a booking was edited behind its cancel or an
\* extension accepted behind its closing (package-hours.service.ts:223).
THEOREM CancelsReturnHours == Spec => []CancelReturnsHours
<1>1. HoursInv => CancelReturnsHours
  BY DEF HoursInv, RestIsReturned, CancelReturnsHours
<1> QED
  BY <1>1, HoursAlways, PTL
=============================================================================
