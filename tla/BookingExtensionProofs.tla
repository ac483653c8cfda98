----------------------- MODULE BookingExtensionProofs -----------------------
(***************************************************************************)
(* For any number of extensions, hours and credits and any number of       *)
(* overlapping handlers: the types.  Where handlers do not overlap, though *)
(* each may be cut short: her credits add up, the shift gains the hours    *)
(* that are paid for, and what is captured is applied.                     *)
(***************************************************************************)
EXTENDS BookingExtension, SumTheorems

\* What a handler has read is so when it writes.
Relies(h) ==
  /\ h.pc = "accept" => ext[h.e] = "PENDING_NANNY"
  /\ h.pc = "redeem" => ext[h.e] = "ACCEPTED" /\ points[h.e] = 0 /\ owed[h.e] = h.owed
  /\ h.pc = "page" => ext[h.e] = "ACCEPTED"
  /\ h.pc = "capture" => pay[h.e] # "none"
  /\ h.pc = "applyBooking" => ext[h.e] = "ACCEPTED"
  /\ h.pc = "add" => ext[h.e] = "ACCEPTED" /\ h.extra = extra
  /\ h.pc = "return" => ext[h.e] \in OpenStatuses /\ points[h.e] = h.points

HandlersRely == \A r \in Requests : Relies(req[r])

\* Before the nanny's answer an extension holds nothing and no page is open for it.
NothingBeforeAnswer ==
  \A e \in Extensions :
    ext[e] \in {"none", "PENDING_NANNY"} => points[e] = 0 /\ hours[e] = 0 /\ pay[e] = "none"

Applying(e) ==
  \E r \in Requests : req[r].pc \in {"apply", "applyBooking", "add"} /\ req[r].e = e

CaptureIsCarriedOn ==
  \A e \in Extensions :
    (pay[e] = "CAPTURED" /\ ext[e] = "ACCEPTED" /\ status = "IN_PROGRESS") =>
      e \in cut \/ Applying(e)

\* The inductive invariant.
SoloInv ==
  /\ TypeOK /\ HandlersRely /\ NothingBeforeAnswer /\ CaptureIsCarriedOn
  /\ CreditsAddUp /\ HoursAddedOnce
-----------------------------------------------------------------------------
(* The types. *)

LEMMA HandlerShapes ==
  ASSUME TypeOK, NEW r \in Requests
  PROVE  /\ req[r].pc \in {"request", "accept", "page", "capture", "apply", "applyBooking",
                           "redeem", "add", "return"} => req[r].e \in Extensions
         /\ req[r].pc = "redeem" => req[r].owed \in 1..Hours
         /\ req[r].pc = "add" => req[r].extra \in Nat
         /\ req[r].pc \in {"settle", "return"} =>
              req[r].todo \in SUBSET Extensions /\ req[r].to \in Closed
         /\ req[r].pc = "return" => req[r].points \in 0..Hours
BY DEF TypeOK, Handler, Idle

LEMMA HandlersMade ==
  /\ \A e \in Extensions :
       \A pc \in {"request", "accept", "page", "capture", "apply", "applyBooking"} :
         [pc |-> pc, e |-> e] \in Handler
  /\ \A e \in Extensions, n \in 1..Hours :
       [pc |-> "redeem", e |-> e, owed |-> n] \in Handler
  /\ \A e \in Extensions, n \in Nat : [pc |-> "add", e |-> e, extra |-> n] \in Handler
  /\ \A S \in SUBSET Extensions, to \in Closed :
       [pc |-> "settle", todo |-> S, to |-> to] \in Handler
  /\ \A e \in Extensions, n \in 0..Hours, S \in SUBSET Extensions, to \in Closed :
       [pc |-> "return", e |-> e, points |-> n, todo |-> S, to |-> to] \in Handler
BY DEF Handler

\* A handler begins or moves on, and nothing else changes but, perhaps, the shift's
\* status.
LEMMA HandlerTypes ==
  ASSUME TypeOK, NEW r \in Requests, NEW h \in Handler \cup {Idle},
         req' = [req EXCEPT ![r] = h], status' \in {"IN_PROGRESS", "COMPLETED", "CANCELLED"},
         UNCHANGED <<extra, extension, credits, payment, history>>
  PROVE  TypeOK'
BY DEF TypeOK, extension, credits, payment, history

LEMMA BeginTypes ==
  ASSUME TypeOK, NEW r \in Requests,
         \/ Complete(r) \/ Sweep(r)
         \/ \E e \in Extensions :
              \/ RequestRead(r, e) \/ DeclineRead(r, e) \/ AcceptRead(r, e)
              \/ RedeemRead(r, e) \/ PayRead(r, e) \/ CaptureRead(r, e) \/ WithdrawRead(r, e)
  PROVE  TypeOK'
<1>1. PICK h \in Handler \cup {Idle} : Begin(r, h)
  <2>1. CASE Complete(r) \/ Sweep(r)
    <3>1. Open \in SUBSET Extensions /\ {e \in Extensions : Stale(e)} \in SUBSET Extensions
      BY DEF Open
    <3> QED
      BY <2>1, <3>1, HandlersMade DEF Complete, Sweep, Closed
  <2>2. ASSUME NEW e \in Extensions,
               \/ RequestRead(r, e) \/ AcceptRead(r, e) \/ PayRead(r, e) \/ CaptureRead(r, e)
        PROVE  \E h \in Handler : Begin(r, h)
    BY <2>2, HandlersMade DEF RequestRead, AcceptRead, PayRead, CaptureRead
  <2>3. ASSUME NEW e \in Extensions, DeclineRead(r, e) \/ WithdrawRead(r, e)
        PROVE  \E h \in Handler : Begin(r, h)
    <3>1. {e} \in SUBSET Extensions
      OBVIOUS
    <3> QED
      BY <2>3, <3>1, HandlersMade DEF DeclineRead, WithdrawRead, Closed
  <2>4. ASSUME NEW e \in Extensions, RedeemRead(r, e)
        PROVE  \E h \in Handler : Begin(r, h)
    <3>1. owed[e] \in 1..Hours
      BY <2>4, ExtensionAssumption DEF RedeemRead, TypeOK
    <3> QED
      BY <2>4, <3>1, HandlersMade DEF RedeemRead
  <2> QED
    BY <2>1, <2>2, <2>3, <2>4
<1>2. /\ UNCHANGED <<extra, extension, credits, payment, history>>
      /\ status' \in {"IN_PROGRESS", "COMPLETED", "CANCELLED"}
  BY DEF Complete, Sweep, RequestRead, DeclineRead, AcceptRead, RedeemRead, PayRead,
         CaptureRead, WithdrawRead, booking, TypeOK
<1> QED
  BY <1>1, <1>2, HandlerTypes DEF Begin

LEMMA OutsideTypes ==
  ASSUME TypeOK, ConsoleCancel \/ \E e \in Extensions :
                   DeadlinePasses(e) \/ MotherPays(e) \/ AttemptFails(e)
  PROVE  TypeOK'
BY DEF TypeOK, ConsoleCancel, DeadlinePasses, MotherPays, AttemptFails, booking, extension,
       credits, payment, history

LEMMA CrashTypes ==
  ASSUME TypeOK, NEW r \in Requests, Crash(r)
  PROVE  TypeOK'
<1>1. Touched(r) \subseteq Extensions
  BY DEF Crash, Touched, TypeOK, Handler, Idle
<1>2. crashes' \in 0..MaxCrashes
  BY ExtensionAssumption DEF Crash, TypeOK
<1>3. cut' \subseteq Extensions
  BY <1>1 DEF Crash, TypeOK
<1> QED
  BY <1>2, <1>3 DEF TypeOK, Crash, Finish, Goto, booking, extension, credits, payment

LEMMA AcceptTypes ==
  ASSUME TypeOK, NEW r \in Requests, AcceptWrite(r)
  PROVE  TypeOK'
<1> DEFINE e == req[r].e
           take == IF bucket < owed[e] THEN bucket ELSE owed[e]
<1>1. e \in Extensions
  BY HandlerShapes DEF AcceptWrite, At
<1>2. take \in 0..Hours /\ owed[e] - take \in 0..Hours /\ bucket - take \in Nat
  BY <1>1, ExtensionAssumption DEF TypeOK
<1>3. PICK h \in Handler \cup {Idle} : req' = [req EXCEPT ![r] = h]
  BY <1>1, HandlersMade DEF AcceptWrite, Goto, Finish
<1>4. /\ ext' \in [Extensions -> {"none", "PAID"} \cup OpenStatuses \cup Closed]
      /\ late' \in [Extensions -> BOOLEAN]
      /\ rows' \subseteq Extensions
  <2> HIDE DEF take
  <2>1. /\ ext' = ext \/ ext' = [ext EXCEPT ![e] = "ACCEPTED"]
        /\ late' = late \/ late' = [late EXCEPT ![e] = FALSE]
        /\ rows' = rows \/ rows' = rows \cup {e}
    BY DEF AcceptWrite, extension, take
  <2> QED
    BY <1>1, <2>1 DEF TypeOK, OpenStatuses
<1>5. hours' \in [Extensions -> 0..Hours] /\ owed' \in [Extensions -> 0..Hours]
      /\ bucket' \in Nat
  <2> HIDE DEF take
  <2>1. /\ hours' = hours \/ hours' = [hours EXCEPT ![e] = IF take > 0 THEN take ELSE @]
        /\ owed' = owed \/ owed' = [owed EXCEPT ![e] = @ - take]
        /\ bucket' = bucket \/ bucket' = bucket - take
    BY DEF AcceptWrite, extension, take
  <2> QED
    BY <1>1, <1>2, <2>1 DEF TypeOK
<1> QED
  BY <1>3, <1>4, <1>5 DEF TypeOK, AcceptWrite, booking, extension, payment, history

LEMMA RedeemTypes ==
  ASSUME TypeOK, NEW r \in Requests, RedeemWrite(r)
  PROVE  TypeOK'
<1> DEFINE e == req[r].e
<1>1. e \in Extensions /\ req[r].owed \in 1..Hours
  BY HandlerShapes DEF RedeemWrite, At
<1>2. PICK h \in Handler \cup {Idle} : req' = [req EXCEPT ![r] = h]
  BY <1>1, HandlersMade DEF RedeemWrite, Goto, Finish
<1>3. points' \in [Extensions -> 0..Hours] /\ owed' \in [Extensions -> 0..Hours]
      /\ wallet' \in Nat
  BY <1>1, ExtensionAssumption DEF RedeemWrite, TypeOK, WalletCovers
<1> QED
  BY <1>2, <1>3 DEF TypeOK, RedeemWrite, booking, payment, history

LEMMA SettleTypes ==
  ASSUME TypeOK, NEW r \in Requests, SettleWrite(r)
  PROVE  TypeOK'
<1> DEFINE e == req[r].e
<1>1. /\ e \in Extensions /\ req[r].todo \in SUBSET Extensions /\ req[r].to \in Closed
      /\ req[r].points \in 0..Hours
  BY HandlerShapes DEF SettleWrite, At
<1>2. [pc |-> "settle", todo |-> req[r].todo, to |-> req[r].to] \in Handler
  BY <1>1, HandlersMade
<1>3. req' \in [Requests -> Handler \cup {Idle}]
  BY <1>2 DEF SettleWrite, Goto, TypeOK
<1>4. wallet' \in Nat /\ bucket' \in Nat
  BY <1>1, ExtensionAssumption DEF SettleWrite, TypeOK
<1>5. /\ points' \in [Extensions -> 0..Hours] /\ hours' \in [Extensions -> 0..Hours]
      /\ ext' \in [Extensions -> {"none", "PAID"} \cup OpenStatuses \cup Closed]
  BY <1>1, ExtensionAssumption DEF SettleWrite, TypeOK, PointsAfterSettle
<1> QED
  BY <1>3, <1>4, <1>5 DEF TypeOK, SettleWrite, booking, payment, history

LEMMA ProceedTypes ==
  ASSUME TypeOK, NEW r \in Requests, Proceed(r)
  PROVE  TypeOK'
<1>1. CASE RequestCreate(r)
  <2>1. req[r].e \in Extensions
    BY <1>1, HandlerShapes DEF RequestCreate, At
  <2> QED
    BY <1>1, <2>1, ExtensionAssumption
    DEF RequestCreate, TypeOK, Finish, Goto, OpenStatuses, booking, credits, payment, history
<1>2. CASE PayOpen(r)
  BY <1>2 DEF PayOpen, TypeOK, Finish, Goto, booking, extension, credits, history
<1>3. CASE CaptureWrite(r)
  <2>1. req[r].e \in Extensions
    BY <1>3, HandlerShapes DEF CaptureWrite, At
  <2> QED
    BY <1>3, <2>1, HandlersMade
    DEF CaptureWrite, TypeOK, Goto, booking, extension, credits, history
<1>4. CASE ApplyRead(r) \/ ApplyBooking(r)
  <2>1. req[r].e \in Extensions /\ extra \in Nat
    BY <1>4, HandlerShapes DEF ApplyRead, ApplyBooking, At, TypeOK
  <2>2. PICK h \in Handler \cup {Idle} : req' = [req EXCEPT ![r] = h]
    BY <1>4, <2>1, HandlersMade DEF ApplyRead, ApplyBooking, Goto, Finish
  <2> QED
    BY <1>4, <2>2, HandlerTypes DEF ApplyRead, ApplyBooking, booking, TypeOK
<1>5. CASE ApplyWrite(r)
  <2>1. req[r].extra \in Nat
    BY <1>5, HandlerShapes DEF ApplyWrite, At
  <2>2. extra' \in Nat
    BY <1>5, <2>1, ExtensionAssumption DEF ApplyWrite
  <2> QED
    BY <1>5, <2>2 DEF ApplyWrite, TypeOK, Finish, Goto, credits, payment, history
<1>6. CASE SettleRead(r)
  <2>1. req[r].todo \in SUBSET Extensions /\ req[r].to \in Closed
    BY <1>6, HandlerShapes DEF SettleRead, At
  <2>2. PICK h \in Handler \cup {Idle} : req' = [req EXCEPT ![r] = h]
    <3>1. ASSUME NEW e \in req[r].todo
          PROVE  /\ e \in Extensions /\ points[e] \in 0..Hours
                 /\ req[r].todo \ {e} \in SUBSET Extensions
      BY <2>1 DEF TypeOK
    <3>2. ASSUME NEW e \in req[r].todo
          PROVE  /\ [pc |-> "return", e |-> e, points |-> points[e],
                     todo |-> req[r].todo \ {e}, to |-> req[r].to] \in Handler
                 /\ [pc |-> "settle", todo |-> req[r].todo \ {e}, to |-> req[r].to] \in Handler
      BY <2>1, <3>1, HandlersMade
    <3> QED
      BY <1>6, <3>2 DEF SettleRead, Goto, Finish
  <2> QED
    BY <1>6, <2>2, HandlerTypes DEF SettleRead, booking, TypeOK
<1> QED
  BY <1>1, <1>2, <1>3, <1>4, <1>5, <1>6, AcceptTypes, RedeemTypes, SettleTypes DEF Proceed

LEMMA TypeStep == TypeOK /\ [Next]_vars => TypeOK'
<1> SUFFICES ASSUME TypeOK, [Next]_vars PROVE TypeOK'
  OBVIOUS
<1>1. CASE UNCHANGED vars
  BY <1>1 DEF TypeOK, vars, booking, extension, credits, payment, history
<1>2. CASE Next
  BY <1>2, BeginTypes, OutsideTypes, CrashTypes, ProceedTypes DEF Next
<1> QED
  BY <1>1, <1>2

-----------------------------------------------------------------------------
(* One handler at a time. *)

ApplySteps == {"apply", "applyBooking", "add"}

LEMMA Changes ==
  ASSUME NEW f \in [Extensions -> Int], NEW e \in Extensions, NEW v \in Int
  PROVE  /\ SumFunctionOnSet([f EXCEPT ![e] = v], Extensions)
              = SumFunctionOnSet(f, Extensions) + v - f[e]
         /\ SumFunctionOnSet(f, Extensions) \in Int
<1> DEFINE g == [f EXCEPT ![e] = v]
<1>1. /\ g[e] = v
      /\ \A x \in Extensions : f[x] \in Int /\ g[x] \in Int
      /\ \A x \in Extensions \ {e} : g[x] = f[x]
  OBVIOUS
<1>2. IsFiniteSet(Extensions)
  BY ExtensionAssumption
<1> HIDE DEF g
<1>3. SumFunctionOnSet(g, Extensions) = SumFunctionOnSet(f, Extensions) + g[e] - f[e]
  BY <1>1, <1>2, SumChange
<1>4. SumFunctionOnSet(f, Extensions) \in Int
  BY <1>1, <1>2, SumInt
<1> QED
  BY <1>1, <1>3, <1>4 DEF g

\* Neither the credits nor the shift's hours move.
LEMMA SumsKept ==
  ASSUME SoloInv, UNCHANGED <<extra, points, hours, credits>>,
         \A e \in Extensions :
           /\ ext'[e] = "PAID" <=> ext[e] = "PAID"
           /\ ext'[e] \in Closed => points[e] = 0 /\ hours[e] = 0
  PROVE  CreditsAddUp' /\ HoursAddedOnce'
<1>1. CreditsAddUp'
  BY DEF SoloInv, CreditsAddUp, credits
<1>2. Gained' = Gained
  BY DEF Gained
<1> QED
  BY <1>1, <1>2 DEF SoloInv, HoursAddedOnce

LEMMA NotApplying ==
  ASSUME NEW r, Requests = {r}, SoloInv, req[r].pc \notin ApplySteps,
         NEW e \in Extensions, pay[e] = "CAPTURED", ext[e] = "ACCEPTED",
         status = "IN_PROGRESS"
  PROVE  e \in cut
BY DEF SoloInv, CaptureIsCarriedOn, Applying, ApplySteps

\* A handler begins or moves on, and nothing else changes, though the shift may end.
LEMMA SoloHandler ==
  ASSUME NEW r, Requests = {r}, SoloInv, TypeOK', NEW h \in Handler \cup {Idle},
         req' = [req EXCEPT ![r] = h], status' \in {status, "COMPLETED"}, Relies(h),
         UNCHANGED <<extra, extension, credits, payment, history>>,
         (req[r].pc \in ApplySteps /\ ext[req[r].e] = "ACCEPTED" /\ status = "IN_PROGRESS")
           => h.pc \in ApplySteps /\ h.e = req[r].e
  PROVE  SoloInv'
<1>1. UNCHANGED <<extra, ext, owed, points, hours, credits, pay, cut>>
  BY DEF extension, payment, history
<1>2. req'[r] = h
  BY DEF SoloInv, TypeOK
<1>3. HandlersRely'
  BY <1>1, <1>2 DEF HandlersRely, Relies
<1>4. NothingBeforeAnswer'
  BY <1>1 DEF SoloInv, NothingBeforeAnswer
<1>5. CaptureIsCarriedOn'
  BY <1>1, <1>2 DEF SoloInv, CaptureIsCarriedOn, Applying, ApplySteps
<1>6. CreditsAddUp' /\ HoursAddedOnce'
  BY <1>1, SumsKept DEF SoloInv, CreditsAddUp
<1> QED
  BY <1>3, <1>4, <1>5, <1>6 DEF SoloInv

LEMMA SoloBegin ==
  ASSUME NEW r, Requests = {r}, SoloInv, TypeOK',
         \/ Complete(r) \/ Sweep(r)
         \/ \E e \in Extensions :
              \/ RequestRead(r, e) \/ DeclineRead(r, e) \/ AcceptRead(r, e)
              \/ RedeemRead(r, e) \/ PayRead(r, e) \/ CaptureRead(r, e) \/ WithdrawRead(r, e)
  PROVE  SoloInv'
<1>1. PICK h : Begin(r, h) /\ Relies(h)
  <2>1. CASE Complete(r) \/ Sweep(r)
    BY <2>1 DEF Complete, Sweep, Relies
  <2>2. ASSUME NEW e \in Extensions, RequestRead(r, e) \/ AcceptRead(r, e)
        PROVE  \E h : Begin(r, h) /\ Relies(h)
    BY <2>2 DEF RequestRead, AcceptRead, Relies
  <2>3. ASSUME NEW e \in Extensions, PayRead(r, e) \/ CaptureRead(r, e)
        PROVE  \E h : Begin(r, h) /\ Relies(h)
    BY <2>3 DEF PayRead, CaptureRead, Relies
  <2>4. ASSUME NEW e \in Extensions, RedeemRead(r, e)
        PROVE  \E h : Begin(r, h) /\ Relies(h)
    BY <2>4 DEF RedeemRead, Relies
  <2>5. ASSUME NEW e \in Extensions, DeclineRead(r, e) \/ WithdrawRead(r, e)
        PROVE  \E h : Begin(r, h) /\ Relies(h)
    BY <2>5 DEF DeclineRead, WithdrawRead, Relies
  <2> QED
    BY <2>1, <2>2, <2>3, <2>4, <2>5
<1>2. /\ UNCHANGED <<extra, extension, credits, payment, history>>
      /\ status' \in {status, "COMPLETED"}
  BY DEF Complete, Sweep, RequestRead, DeclineRead, AcceptRead, RedeemRead, PayRead,
         CaptureRead, WithdrawRead, booking
<1>3. h \in Handler \cup {Idle}
  <2>1. req'[r] = h
    BY <1>1 DEF Begin, SoloInv, TypeOK
  <2> QED
    BY <2>1 DEF TypeOK
<1>4. req[r].pc \notin ApplySteps
  BY <1>1 DEF Begin, Idle, ApplySteps
<1> QED
  BY <1>1, <1>2, <1>3, <1>4, SoloHandler DEF Begin

LEMMA SoloOutside ==
  ASSUME SoloInv, TypeOK',
         ConsoleCancel \/ \E e \in Extensions :
           DeadlinePasses(e) \/ MotherPays(e) \/ AttemptFails(e)
  PROVE  SoloInv'
<1>1. /\ UNCHANGED <<extra, ext, owed, points, hours, credits, req, cut>>
      /\ status' \in {status, "CANCELLED"}
      /\ \A e \in Extensions : pay'[e] \in {pay[e], "FAILED"}
                               /\ (pay[e] = "none" => pay'[e] = "none")
  BY DEF SoloInv, TypeOK, ConsoleCancel, DeadlinePasses, MotherPays, AttemptFails, booking,
         extension, payment, history
<1>2. HandlersRely'
  <2>1. ASSUME NEW r \in Requests, req[r].pc = "capture"
        PROVE  pay'[req[r].e] # "none"
    BY <2>1, <1>1, HandlerShapes DEF SoloInv, HandlersRely, Relies
  <2> QED
    BY <1>1, <2>1 DEF SoloInv, HandlersRely, Relies
<1>3. NothingBeforeAnswer'
  BY <1>1 DEF SoloInv, NothingBeforeAnswer
<1>4. CaptureIsCarriedOn'
  BY <1>1 DEF SoloInv, CaptureIsCarriedOn, Applying
<1>5. CreditsAddUp' /\ HoursAddedOnce'
  BY <1>1, SumsKept DEF SoloInv, CreditsAddUp
<1> QED
  BY <1>2, <1>3, <1>4, <1>5 DEF SoloInv

\* What a handler cut short was applying is marked.
LEMMA SoloCrash ==
  ASSUME NEW r, Requests = {r}, SoloInv, TypeOK', Crash(r)
  PROVE  SoloInv'
<1>1. UNCHANGED <<status, extra, ext, owed, points, hours, credits, pay>>
  BY DEF Crash, booking, extension, payment
<1>2. cut' = cut \cup Touched(r) /\ req'[r] = Idle
  BY DEF Crash, Finish, Goto, SoloInv, TypeOK
<1>3. req[r].pc \in ApplySteps => req[r].e \in Touched(r)
  BY DEF SoloInv, TypeOK, Handler, Idle, Touched, ApplySteps
<1>4. HandlersRely'
  BY <1>2 DEF HandlersRely, Relies, Idle
<1>5. NothingBeforeAnswer'
  BY <1>1 DEF SoloInv, NothingBeforeAnswer
<1>6. CaptureIsCarriedOn'
  BY <1>1, <1>2, <1>3 DEF SoloInv, CaptureIsCarriedOn, Applying, ApplySteps
<1>7. CreditsAddUp' /\ HoursAddedOnce'
  BY <1>1, SumsKept DEF SoloInv, CreditsAddUp
<1> QED
  BY <1>4, <1>5, <1>6, <1>7 DEF SoloInv

LEMMA SoloRequest ==
  ASSUME NEW r, Requests = {r}, SoloInv, TypeOK', RequestCreate(r)
  PROVE  SoloInv'
<1> DEFINE e == req[r].e
<1>1. /\ e \in Extensions /\ ext[e] = "none" /\ ext' = [ext EXCEPT ![e] = "PENDING_NANNY"]
      /\ UNCHANGED <<status, extra, points, hours, credits, pay, cut>>
      /\ req[r].pc = "request"
  BY HandlerShapes DEF RequestCreate, At, SoloInv, booking, payment, history
<1>2. req'[r] = Idle
  BY DEF RequestCreate, Finish, Goto, SoloInv, TypeOK
<1>3. \A x \in Extensions : ext'[x] = IF x = e THEN "PENDING_NANNY" ELSE ext[x]
  BY <1>1 DEF SoloInv, TypeOK
<1>4. HandlersRely'
  BY <1>2 DEF HandlersRely, Relies, Idle
<1>5. NothingBeforeAnswer'
  BY <1>1, <1>3 DEF SoloInv, NothingBeforeAnswer
<1>6. CaptureIsCarriedOn'
  BY <1>1, <1>3, NotApplying DEF CaptureIsCarriedOn, ApplySteps
<1>7. CreditsAddUp' /\ HoursAddedOnce'
  BY <1>1, <1>3, SumsKept DEF SoloInv, CreditsAddUp, Closed
<1> QED
  BY <1>4, <1>5, <1>6, <1>7 DEF SoloInv

\* The prepaid hours move from the bucket to the extension, which held none.
LEMMA SoloAccept ==
  ASSUME NEW r, Requests = {r}, SoloInv, TypeOK', AcceptWrite(r)
  PROVE  SoloInv'
<1> DEFINE e == req[r].e
           take == IF bucket < owed[e] THEN bucket ELSE owed[e]
<1>1. /\ e \in Extensions /\ ext[e] = "PENDING_NANNY"
      /\ points[e] = 0 /\ hours[e] = 0 /\ pay[e] = "none"
      /\ UNCHANGED <<status, extra, points, wallet, pay, cut>>
      /\ req[r].pc = "accept"
  <2>1. req[r].pc = "accept" /\ e \in Extensions
    BY HandlerShapes DEF AcceptWrite, At, SoloInv
  <2> QED
    BY <2>1 DEF AcceptWrite, SoloInv, HandlersRely, Relies, NothingBeforeAnswer, booking,
                extension, payment, history
<1>2. take \in 0..Hours
  BY <1>1, ExtensionAssumption DEF SoloInv, TypeOK
<1>3. \/ /\ req' = [req EXCEPT ![r] = Idle]
         /\ UNCHANGED <<ext, hours, bucket, rows>>
      \/ /\ req' = [req EXCEPT ![r] = Idle] \/ req' = [req EXCEPT ![r] = [pc |-> "apply", e |-> e]]
         /\ ext' = [ext EXCEPT ![e] = "ACCEPTED"]
         /\ hours' = [hours EXCEPT ![e] = take]
         /\ bucket' = bucket - take
  <2>1. take > 0 \/ (take = 0 /\ hours = [hours EXCEPT ![e] = 0])
    BY <1>1, <1>2 DEF SoloInv, TypeOK
  <2> HIDE DEF take
  <2> QED
    BY <1>1, <2>1 DEF AcceptWrite, Finish, Goto, extension, take
<1> HIDE DEF take
<1>4. \A x \in Extensions : ext'[x] = ext[x] \/ (x = e /\ ext'[x] = "ACCEPTED")
  BY <1>1, <1>3 DEF SoloInv, TypeOK
<1>5. HandlersRely'
  <2>1. req'[r] = Idle \/ req'[r] = [pc |-> "apply", e |-> e]
    BY <1>3 DEF SoloInv, TypeOK
  <2> QED
    BY <2>1 DEF HandlersRely, Relies, Idle
<1>6. NothingBeforeAnswer'
  BY <1>1, <1>3, <1>4 DEF SoloInv, TypeOK, NothingBeforeAnswer
<1>7. CaptureIsCarriedOn'
  BY <1>1, <1>4, NotApplying DEF CaptureIsCarriedOn, ApplySteps
<1>8. CreditsAddUp'
  <2>1. /\ SumFunctionOnSet([hours EXCEPT ![e] = take], Extensions)
             = SumFunctionOnSet(hours, Extensions) + take - hours[e]
        /\ SumFunctionOnSet(hours, Extensions) \in Int
    <3>1. hours \in [Extensions -> Int] /\ take \in Int
      BY <1>2, ExtensionAssumption DEF SoloInv, TypeOK
    <3> QED
      BY <1>1, <3>1, Changes
  <2>2. bucket' + SumFunctionOnSet(hours', Extensions) = Prepaid
    <3>1. bucket + SumFunctionOnSet(hours, Extensions) = Prepaid
      BY DEF SoloInv, CreditsAddUp
    <3>2. bucket \in Int /\ take \in Int /\ hours[e] = 0
      BY <1>1, <1>2, ExtensionAssumption DEF SoloInv, TypeOK
    <3>3. CASE UNCHANGED <<hours, bucket>>
      BY <3>1, <3>3
    <3>4. CASE hours' = [hours EXCEPT ![e] = take] /\ bucket' = bucket - take
      BY <2>1, <3>1, <3>2, <3>4
    <3> QED
      BY <1>3, <3>3, <3>4
  <2>3. \A x \in Extensions : ext'[x] \in Closed => points'[x] = 0 /\ hours'[x] = 0
    BY <1>1, <1>3, <1>4 DEF SoloInv, TypeOK, CreditsAddUp, Closed
  <2> QED
    BY <1>1, <2>2, <2>3 DEF SoloInv, CreditsAddUp
<1>9. HoursAddedOnce'
  <2>1. Gained' = Gained
    BY <1>1, <1>4 DEF Gained
  <2> QED
    BY <1>1, <2>1 DEF SoloInv, HoursAddedOnce
<1> QED
  BY <1>5, <1>6, <1>7, <1>8, <1>9 DEF SoloInv

\* The points move from the wallet to the extension, which held none.
LEMMA SoloRedeem ==
  ASSUME NEW r, Requests = {r}, SoloInv, TypeOK', RedeemWrite(r)
  PROVE  SoloInv'
<1> DEFINE e == req[r].e
<1>1. /\ e \in Extensions /\ ext[e] = "ACCEPTED" /\ points[e] = 0
      /\ UNCHANGED <<status, extra, ext, hours, bucket, pay, cut>>
      /\ req[r].pc = "redeem"
  <2>1. req[r].pc = "redeem" /\ e \in Extensions
    BY HandlerShapes DEF RedeemWrite, At, SoloInv
  <2> QED
    BY <2>1 DEF RedeemWrite, SoloInv, HandlersRely, Relies, booking, payment, history
<1>2. PICK n \in 0..Hours : /\ points' = [points EXCEPT ![e] = n]
                            /\ wallet' = wallet - n
  <2>1. CASE UNCHANGED <<wallet, points>>
    <3>1. points' = [points EXCEPT ![e] = 0] /\ wallet' = wallet - 0 /\ 0 \in 0..Hours
      BY <1>1, <2>1, ExtensionAssumption DEF SoloInv, TypeOK
    <3> QED
      BY <3>1
  <2>2. CASE \E n \in 1..req[r].owed : /\ points' = [points EXCEPT ![e] = n]
                                       /\ wallet' = wallet - n
    <3>1. PICK n \in 1..req[r].owed : /\ points' = [points EXCEPT ![e] = n]
                                      /\ wallet' = wallet - n
      BY <2>2
    <3>2. req[r].owed \in 1..Hours
      BY <1>1, HandlerShapes DEF SoloInv
    <3>3. n \in 0..Hours
      BY <3>2, ExtensionAssumption
    <3> QED
      BY <3>1, <3>3
  <2> QED
    BY <2>1, <2>2 DEF RedeemWrite
<1>3. req'[r] = Idle \/ req'[r] = [pc |-> "apply", e |-> e]
  BY DEF RedeemWrite, Finish, Goto, SoloInv, TypeOK
<1>4. HandlersRely'
  BY <1>3 DEF HandlersRely, Relies, Idle
<1>5. NothingBeforeAnswer'
  BY <1>1, <1>2 DEF SoloInv, TypeOK, NothingBeforeAnswer
<1>6. CaptureIsCarriedOn'
  BY <1>1, NotApplying DEF CaptureIsCarriedOn, ApplySteps
<1>7. CreditsAddUp'
  <2>1. /\ SumFunctionOnSet([points EXCEPT ![e] = n], Extensions)
             = SumFunctionOnSet(points, Extensions) + n - points[e]
        /\ SumFunctionOnSet(points, Extensions) \in Int
    <3>1. points \in [Extensions -> Int] /\ n \in Int
      BY ExtensionAssumption DEF SoloInv, TypeOK
    <3> QED
      BY <1>1, <3>1, Changes
  <2>2. wallet' + SumFunctionOnSet(points', Extensions) = Purse
    BY <1>1, <1>2, <2>1 DEF SoloInv, TypeOK, CreditsAddUp
  <2>3. \A x \in Extensions : ext'[x] \in Closed => points'[x] = 0 /\ hours'[x] = 0
    BY <1>1, <1>2 DEF SoloInv, TypeOK, CreditsAddUp, Closed
  <2> QED
    BY <1>1, <2>2, <2>3 DEF SoloInv, CreditsAddUp
<1>8. HoursAddedOnce'
  <2>1. Gained' = Gained
    BY <1>1 DEF Gained
  <2> QED
    BY <1>1, <2>1 DEF SoloInv, HoursAddedOnce
<1> QED
  BY <1>4, <1>5, <1>6, <1>7, <1>8 DEF SoloInv

\* The page is opened, or the payment found captured, and then applied.
LEMMA SoloPayment ==
  ASSUME NEW r, Requests = {r}, SoloInv, TypeOK', PayOpen(r) \/ CaptureWrite(r)
  PROVE  SoloInv'
<1> DEFINE e == req[r].e
<1>1. /\ e \in Extensions /\ ext[e] \notin {"none", "PENDING_NANNY"}
      /\ UNCHANGED <<status, extra, ext, points, hours, credits, cut>>
      /\ req[r].pc \in {"page", "capture"}
  <2>1. req[r].pc \in {"page", "capture"} /\ e \in Extensions
    BY HandlerShapes DEF PayOpen, CaptureWrite, At, SoloInv
  <2> QED
    BY <2>1 DEF PayOpen, CaptureWrite, SoloInv, HandlersRely, Relies, NothingBeforeAnswer,
                booking, extension, history
<1>2. \/ req'[r] = Idle /\ \A x \in Extensions : pay'[x] = IF x = e THEN "PENDING" ELSE pay[x]
      \/ /\ req'[r] = [pc |-> "apply", e |-> e]
         /\ \A x \in Extensions : pay'[x] = IF x = e THEN "CAPTURED" ELSE pay[x]
  BY DEF PayOpen, CaptureWrite, Finish, Goto, SoloInv, TypeOK
<1>3. HandlersRely'
  BY <1>2 DEF HandlersRely, Relies, Idle
<1>4. NothingBeforeAnswer'
  BY <1>1, <1>2 DEF SoloInv, NothingBeforeAnswer
<1>5. CaptureIsCarriedOn'
  BY <1>1, <1>2, NotApplying DEF CaptureIsCarriedOn, Applying, ApplySteps
<1>6. CreditsAddUp' /\ HoursAddedOnce'
  BY <1>1, SumsKept DEF SoloInv, CreditsAddUp
<1> QED
  BY <1>3, <1>4, <1>5, <1>6 DEF SoloInv

\* The shift gains the hours and the extension is PAID, in one write.
LEMMA SoloApply ==
  ASSUME NEW r, Requests = {r}, SoloInv, TypeOK', ApplyWrite(r)
  PROVE  SoloInv'
<1> DEFINE e == req[r].e
<1>1. /\ e \in Extensions /\ ext[e] = "ACCEPTED" /\ ext' = [ext EXCEPT ![e] = "PAID"]
      /\ extra' = extra + Hours
      /\ UNCHANGED <<status, points, hours, credits, pay, cut>>
      /\ req[r].pc = "add"
  <2>1. req[r].pc = "add" /\ e \in Extensions
    BY HandlerShapes DEF ApplyWrite, At, SoloInv
  <2> QED
    BY <2>1 DEF ApplyWrite, SoloInv, HandlersRely, Relies, payment, history
<1>2. req'[r] = Idle
  BY DEF ApplyWrite, Finish, Goto, SoloInv, TypeOK
<1>3. \A x \in Extensions : ext'[x] = IF x = e THEN "PAID" ELSE ext[x]
  BY <1>1 DEF SoloInv, TypeOK
<1>4. HandlersRely'
  BY <1>2 DEF HandlersRely, Relies, Idle
<1>5. NothingBeforeAnswer'
  BY <1>1, <1>3 DEF SoloInv, NothingBeforeAnswer
<1>6. CaptureIsCarriedOn'
  BY <1>1, <1>3 DEF SoloInv, CaptureIsCarriedOn, Applying
<1>7. CreditsAddUp'
  BY <1>1, <1>3 DEF SoloInv, CreditsAddUp, credits, Closed
<1>8. HoursAddedOnce'
  <2>1. Gained' = [Gained EXCEPT ![e] = Hours] /\ Gained[e] = 0
    BY <1>1, <1>3 DEF Gained
  <2>2. Gained \in [Extensions -> Int] /\ Hours \in Int
    BY ExtensionAssumption DEF Gained
  <2>3. SumFunctionOnSet([Gained EXCEPT ![e] = Hours], Extensions)
          = SumFunctionOnSet(Gained, Extensions) + Hours - Gained[e]
        /\ SumFunctionOnSet(Gained, Extensions) \in Int
    BY <1>1, <2>2, Changes
  <2> QED
    BY <1>1, <2>1, <2>2, <2>3 DEF SoloInv, HoursAddedOnce
<1> QED
  BY <1>4, <1>5, <1>6, <1>7, <1>8 DEF SoloInv

\* What the extension held goes back, and it is closed.
LEMMA SoloSettle ==
  ASSUME NEW r, Requests = {r}, SoloInv, TypeOK', SettleWrite(r)
  PROVE  SoloInv'
<1> DEFINE e == req[r].e
<1>1. /\ e \in Extensions /\ ext[e] \in OpenStatuses /\ points[e] = req[r].points
      /\ req[r].to \in Closed /\ req[r].pc = "return"
      /\ UNCHANGED <<status, extra, pay, cut>>
  <2>1. req[r].pc = "return" /\ e \in Extensions /\ req[r].to \in Closed
    BY HandlerShapes DEF SettleWrite, At, SoloInv
  <2> QED
    BY <2>1 DEF SettleWrite, SoloInv, HandlersRely, Relies, booking, payment, history
<1>2. /\ wallet' = wallet + points[e] /\ bucket' = bucket + hours[e]
      /\ points' = [points EXCEPT ![e] = 0] /\ hours' = [hours EXCEPT ![e] = 0]
      /\ ext' = [ext EXCEPT ![e] = req[r].to]
  BY <1>1 DEF SettleWrite, PointsAfterSettle
<1>3. req'[r] = [pc |-> "settle", todo |-> req[r].todo, to |-> req[r].to]
  BY DEF SettleWrite, Goto, SoloInv, TypeOK
<1>4. \A x \in Extensions : ext'[x] = IF x = e THEN req[r].to ELSE ext[x]
  BY <1>1, <1>2 DEF SoloInv, TypeOK
<1>5. HandlersRely'
  BY <1>3 DEF HandlersRely, Relies
<1>6. NothingBeforeAnswer'
  BY <1>1, <1>2, <1>4 DEF SoloInv, TypeOK, NothingBeforeAnswer, Closed
<1>7. CaptureIsCarriedOn'
  BY <1>1, <1>4, NotApplying DEF CaptureIsCarriedOn, ApplySteps, Closed
<1>8. CreditsAddUp'
  <2>1. points \in [Extensions -> Int] /\ hours \in [Extensions -> Int] /\ 0 \in Int
    BY ExtensionAssumption DEF SoloInv, TypeOK
  <2>2. /\ SumFunctionOnSet([points EXCEPT ![e] = 0], Extensions)
             = SumFunctionOnSet(points, Extensions) + 0 - points[e]
        /\ SumFunctionOnSet(points, Extensions) \in Int
    BY <1>1, <2>1, Changes
  <2>3. /\ SumFunctionOnSet([hours EXCEPT ![e] = 0], Extensions)
             = SumFunctionOnSet(hours, Extensions) + 0 - hours[e]
        /\ SumFunctionOnSet(hours, Extensions) \in Int
    BY <1>1, <2>1, Changes
  <2>4. points[e] \in Int /\ hours[e] \in Int /\ wallet \in Int /\ bucket \in Int
    BY <1>1, <2>1 DEF SoloInv, TypeOK
  <2>5. wallet' + SumFunctionOnSet(points', Extensions) = Purse
    BY <1>2, <2>2, <2>4 DEF SoloInv, CreditsAddUp
  <2>6. bucket' + SumFunctionOnSet(hours', Extensions) = Prepaid
    BY <1>2, <2>3, <2>4 DEF SoloInv, CreditsAddUp
  <2>7. \A x \in Extensions : ext'[x] \in Closed => points'[x] = 0 /\ hours'[x] = 0
    BY <1>1, <1>2, <1>4 DEF SoloInv, TypeOK, CreditsAddUp
  <2> QED
    BY <2>5, <2>6, <2>7 DEF CreditsAddUp
<1>9. HoursAddedOnce'
  <2>1. Gained' = Gained
    BY <1>1, <1>4 DEF Gained, OpenStatuses, Closed
  <2> QED
    BY <1>1, <2>1 DEF SoloInv, HoursAddedOnce
<1> QED
  BY <1>5, <1>6, <1>7, <1>8, <1>9 DEF SoloInv

\* applyPaidExtension and settleExtensionUnpaid read on.
LEMMA SoloReadsOn ==
  ASSUME NEW r, Requests = {r}, SoloInv, TypeOK',
         ApplyRead(r) \/ ApplyBooking(r) \/ SettleRead(r)
  PROVE  SoloInv'
<1>1. PICK h : /\ Goto(r, h)
               /\ Relies(h)
               /\ (req[r].pc \in ApplySteps /\ ext[req[r].e] = "ACCEPTED"
                     /\ status = "IN_PROGRESS")
                    => h.pc \in ApplySteps /\ h.e = req[r].e
  <2>1. CASE ApplyRead(r)
    BY <2>1 DEF ApplyRead, At, Applicable, Finish, Idle, Relies, ApplySteps
  <2>2. CASE ApplyBooking(r)
    <3>1. ext[req[r].e] = "ACCEPTED"
      BY <2>2 DEF ApplyBooking, At, SoloInv, HandlersRely, Relies
    <3> QED
      BY <2>2, <3>1 DEF ApplyBooking, At, Finish, Idle, Relies, ApplySteps
  <2>3. CASE SettleRead(r)
    BY <2>3 DEF SettleRead, At, Settleable, Finish, Idle, Relies, ApplySteps
  <2> QED
    BY <2>1, <2>2, <2>3
<1>2. UNCHANGED <<booking, extension, credits, payment, history>>
  BY DEF ApplyRead, ApplyBooking, SettleRead
<1>3. h \in Handler \cup {Idle}
  <2>1. req'[r] = h
    BY <1>1 DEF Goto, SoloInv, TypeOK
  <2> QED
    BY <2>1 DEF TypeOK
<1> QED
  BY <1>1, <1>2, <1>3, SoloHandler DEF Goto, booking

LEMMA SoloStep ==
  ASSUME NEW r, Requests = {r}, SoloInv, [Next]_vars
  PROVE  SoloInv'
<1>1. TypeOK'
  BY TypeStep DEF SoloInv
<1>2. CASE UNCHANGED vars
  <2>1. UNCHANGED <<status, extra, ext, owed, points, hours, wallet, bucket, rows, pay, req, cut>>
    BY <1>2 DEF vars, booking, extension, credits, payment, history
  <2>2. HandlersRely'
    BY <2>1 DEF SoloInv, HandlersRely, Relies
  <2>3. NothingBeforeAnswer' /\ CaptureIsCarriedOn'
    BY <2>1 DEF SoloInv, NothingBeforeAnswer, CaptureIsCarriedOn, Applying
  <2>4. CreditsAddUp' /\ HoursAddedOnce'
    BY <2>1, SumsKept DEF SoloInv, CreditsAddUp, credits
  <2> QED
    BY <1>1, <2>2, <2>3, <2>4 DEF SoloInv
<1>3. CASE Proceed(r)
  BY <1>1, <1>3, SoloRequest, SoloAccept, SoloRedeem, SoloPayment, SoloApply, SoloSettle,
     SoloReadsOn DEF Proceed
<1>4. CASE Next /\ ~ Proceed(r)
  BY <1>1, <1>4, SoloBegin, SoloOutside, SoloCrash DEF Next
<1> QED
  BY <1>2, <1>3, <1>4

LEMMA SoloInit == Init => SoloInv
<1> SUFFICES ASSUME Init PROVE SoloInv
  OBVIOUS
<1>1. TypeOK
  BY ExtensionAssumption DEF Init, TypeOK
<1>2. HandlersRely /\ NothingBeforeAnswer /\ CaptureIsCarriedOn
  BY DEF Init, HandlersRely, Relies, Idle, NothingBeforeAnswer, CaptureIsCarriedOn
<1>3. IsFiniteSet(Extensions)
  BY ExtensionAssumption
<1>4. SumFunctionOnSet(points, Extensions) = 0
  <2>1. \A e \in Extensions : points[e] = 0
    BY DEF Init
  <2> QED
    BY <1>3, <2>1, SumZero
<1>5. SumFunctionOnSet(hours, Extensions) = 0
  <2>1. \A e \in Extensions : hours[e] = 0
    BY DEF Init
  <2> QED
    BY <1>3, <2>1, SumZero
<1>6. SumFunctionOnSet(Gained, Extensions) = 0
  <2>1. \A e \in Extensions : Gained[e] = 0
    BY DEF Init, Gained
  <2> QED
    BY <1>3, <2>1, SumZero
<1>7. CreditsAddUp /\ HoursAddedOnce
  BY <1>4, <1>5, <1>6, ExtensionAssumption DEF Init, CreditsAddUp, HoursAddedOnce, Closed
<1> QED
  BY <1>1, <1>2, <1>7 DEF SoloInv

LEMMA SoloAlways ==
  ASSUME NEW r, Requests = {r}
  PROVE  Spec => []SoloInv
<1>1. SoloInv /\ [Next]_vars => SoloInv'
  BY SoloStep
<1> QED
  BY <1>1, SoloInit, PTL DEF Spec

-----------------------------------------------------------------------------
(* The theorems. *)

\* Every variable keeps its type, however many handlers overlap.
THEOREM TypeInvariant == Spec => []TypeOK
<1>1. Init => TypeOK
  BY ExtensionAssumption DEF Init, TypeOK
<1> QED
  BY <1>1, TypeStep, PTL DEF Spec

\* While handlers do not overlap, though each may be cut short: no reserved point or
\* hour is lost or handed back twice (booking.service.ts:875).
THEOREM CreditsAlwaysAddUp ==
  ASSUME NEW r, Requests = {r}
  PROVE  Spec => []CreditsAddUp
<1>1. SoloInv => CreditsAddUp
  BY DEF SoloInv
<1> QED
  BY <1>1, SoloAlways, PTL

\* ... the shift is longer by the hours of the extensions that are PAID
\* (booking-extension.service.ts:458).
THEOREM HoursAlwaysAddedOnce ==
  ASSUME NEW r, Requests = {r}
  PROVE  Spec => []HoursAddedOnce
<1>1. SoloInv => HoursAddedOnce
  BY DEF SoloInv
<1> QED
  BY <1>1, SoloAlways, PTL

\* ... and captured money of an open extension of a running shift adds its hours, or
\* its handler was cut short (booking-extension.service.ts:486, paymob.service.ts:710).
THEOREM CapturesAreApplied ==
  ASSUME NEW r, Requests = {r}
  PROVE  Spec => []CapturedIsApplied
<1>1. SoloInv => CapturedIsApplied
  BY DEF SoloInv, CaptureIsCarriedOn, Applying, CapturedIsApplied, Idle, At
<1> QED
  BY <1>1, SoloAlways, PTL
=============================================================================
