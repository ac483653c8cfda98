----------------------- MODULE BookingLifecycleProofs -----------------------
(***************************************************************************)
(* For any bookings, nannies, slots and any number of overlapping          *)
(* requests: the types, one winner per opening, and what a release and a   *)
(* late assignment may never do.  For any bookings, nannies and slots,     *)
(* when requests do not overlap: the handlers implement the abstract life  *)
(* of a booking, whose own invariants are proved here too.                 *)
(***************************************************************************)
EXTENDS BookingLifecycle, TLAPS

ReqType == req \in [Requests -> Handler \cup {Idle}]

\* An occupied slot holds a handler.
LEMMA BusyIsHandler ==
  ASSUME ReqType, NEW r \in Requests, req[r] # Idle
  PROVE  req[r] \in Handler
BY DEF ReqType

\* What each way of moving a handler on does to the slots.
LEMMA BeginType ==
  ASSUME TypeOK, NEW r \in Requests, NEW op \in Ops,
         NEW pc \in Points,
         NEW b \in Bookings, NEW n \in Nannies \cup {NoNanny},
         NEW to \in IF op \in {"reschedule", "edit"} THEN Slots ELSE Status,
         op \in {"claim", "assign"} => n \in Nannies,
         Begin(r, op, pc, b, n, to)
  PROVE  ReqType'
<1> DEFINE h == [op |-> op, pc |-> pc, b |-> b, n |-> n, to |-> to, seen |-> Row(b)]
<1>1. Row(b) \in [status : Status, nanny : Nannies \cup {NoNanny}, slot : Slots]
  BY DEF Row, TypeOK
<1>2. to \in Status \cup Slots
  OBVIOUS
<1>3. h \in Handler
  BY <1>1, <1>2 DEF Handler
<1> QED
  BY <1>3 DEF Begin, TypeOK, ReqType

LEMMA ContinueType ==
  ASSUME ReqType, NEW r \in Requests, req[r] # Idle,
         NEW pc \in Points,
         Continue(r, pc)
  PROVE  ReqType'
<1>1. req[r] \in Handler
  BY BusyIsHandler
<1>2. [req[r] EXCEPT !.pc = pc] \in Handler
  BY <1>1 DEF Handler
<1> QED
  BY <1>2 DEF Continue, ReqType

LEMMA FinishType ==
  ASSUME ReqType, NEW r \in Requests, Finish(r)
  PROVE  ReqType'
BY DEF Finish, ReqType

LEMMA ThenSettleType ==
  ASSUME ReqType, NEW r \in Requests, req[r] # Idle,
         req[r].op \notin {"reschedule", "edit"}, ThenSettle(r)
  PROVE  ReqType'
<1>1. req[r] \in Handler
  BY BusyIsHandler
<1>2. [req[r] EXCEPT !.op = "settle", !.pc = "read"] \in Handler
  BY <1>1 DEF Handler, Ops, Points
<1> QED
  BY <1>2 DEF ThenSettle, ReqType

\* A handler that reads the row again.
LEMMA RereadType ==
  ASSUME TypeOK, NEW r \in Requests, req[r] # Idle,
         req' = [req EXCEPT ![r].pc = "write", ![r].seen = Row(req[r].b)]
  PROVE  ReqType'
<1>1. req[r] \in Handler
  BY BusyIsHandler DEF TypeOK, ReqType
<1>2. Row(req[r].b) \in [status : Status, nanny : Nannies \cup {NoNanny}, slot : Slots]
  BY <1>1 DEF Handler, Row, TypeOK
<1>3. [[req[r] EXCEPT !.pc = "write"] EXCEPT !.seen = Row(req[r].b)] \in Handler
  BY <1>1, <1>2 DEF Handler, Points
<1> QED
  BY <1>3 DEF TypeOK, ReqType

-----------------------------------------------------------------------------
(* Types. *)

RowsType ==
  /\ status  \in [Bookings -> Status]
  /\ nanny   \in [Bookings -> Nannies \cup {NoNanny}]
  /\ slot    \in [Bookings -> Slots]
  /\ covered \in [Bookings -> BOOLEAN]
  /\ billed  \in [Bookings -> BOOLEAN]
  /\ pin     \in [Bookings -> BOOLEAN]
  /\ winners \in [Bookings -> SUBSET Nannies]

LEMMA TypeParts ==
  /\ TypeOK <=> RowsType /\ ReqType
  /\ TypeOK' <=> RowsType' /\ ReqType'
BY DEF TypeOK, RowsType, ReqType

LEMMA UnchangedRowsType ==
  ASSUME TypeOK, UnchangedRows PROVE RowsType'
BY DEF TypeOK, RowsType, UnchangedRows

LEMMA SetSlotType ==
  ASSUME TypeOK, NEW b \in Bookings, NEW s \in Slots, SetSlot(b, s)
  PROVE  RowsType'
BY DEF TypeOK, RowsType, SetSlot

LEMMA SetStatusType ==
  ASSUME TypeOK, NEW b \in Bookings, NEW t \in Status, SetStatus(b, t)
  PROVE  RowsType'
BY DEF TypeOK, RowsType, SetStatus

\* What is known of the handler in an occupied slot.
LEMMA HandlerFields ==
  ASSUME TypeOK, NEW r \in Requests, req[r] # Idle
  PROVE  /\ req[r].b \in Bookings
         /\ req[r].n \in Nannies \cup {NoNanny}
         /\ req[r].op \in {"claim", "assign"} => req[r].n \in Nannies
         /\ req[r].to \in IF req[r].op \in {"reschedule", "edit"} THEN Slots ELSE Status
         /\ req[r].seen \in [status : Status, nanny : Nannies \cup {NoNanny}, slot : Slots]
BY BusyIsHandler, TypeParts DEF Handler

LEMMA PartyType ==
  ASSUME TypeOK, NEW r \in Requests, PartyStep(r)
  PROVE  TypeOK'
<1> USE TypeParts
<1>1. ASSUME NEW b \in Bookings, NEW n \in Nannies, ClaimRead(r, b, n) PROVE TypeOK'
  BY <1>1, BeginType, UnchangedRowsType DEF ClaimRead, Ops, Points, Status
<1>2. CASE ClaimConflict(r)
  BY <1>2, ContinueType, FinishType, UnchangedRowsType DEF ClaimConflict, At, Points
<1>3. CASE ClaimWrite(r)
  <2>1. /\ req[r] # Idle
        /\ req[r].op = "claim"
        /\ req[r].b \in Bookings
        /\ req[r].n \in Nannies
    BY <1>3, HandlerFields DEF ClaimWrite, At
  <2>2. RowsType'
    BY <1>3, <2>1, UnchangedRowsType DEF ClaimWrite, RowsType, Status
  <2>3. ReqType'
    BY <1>3, <2>1, FinishType, ThenSettleType DEF ClaimWrite
  <2> QED
    BY <2>2, <2>3
<1>4. ASSUME NEW b \in Bookings, NEW n \in Nannies \cup {NoNanny}, CancelRead(r, b, n)
      PROVE  TypeOK'
  <2> DEFINE pc == IF status[b] = "APPROVED" THEN "check" ELSE "write"
  <2>1. pc \in Points
    BY DEF Points
  <2>2. Begin(r, "cancel", pc, b, n, "CANCELLED")
    BY <1>4 DEF CancelRead
  <2> QED
    BY <1>4, <2>1, <2>2, BeginType, UnchangedRowsType DEF CancelRead, Ops, Points, Status
<1>5. CASE CancelCheck(r)
  BY <1>5, ContinueType, FinishType, UnchangedRowsType DEF CancelCheck, At, Points
<1>6. CASE CancelSettle(r)
  BY <1>6, ContinueType, SetStatusType, HandlerFields DEF CancelSettle, At, Points, Status
<1>7. CASE CancelReread(r)
  BY <1>7, RereadType, FinishType, UnchangedRowsType DEF CancelReread, At
<1>8. CASE ReleaseWrite(r)
  <2>1. req[r].b \in Bookings
    BY <1>8, HandlerFields DEF ReleaseWrite, At
  <2>2. RowsType'
    BY <1>8, <2>1, UnchangedRowsType DEF ReleaseWrite, RowsType, Status
  <2> QED
    BY <1>8, <2>2, FinishType DEF ReleaseWrite
<1>9. CASE CancelWrite(r)
  BY <1>9, FinishType, UnchangedRowsType, SetStatusType, HandlerFields
  DEF CancelWrite, At, Status
<1> QED
  BY <1>1, <1>2, <1>3, <1>4, <1>5, <1>6, <1>7, <1>8, <1>9 DEF PartyStep

LEMMA ConsoleType ==
  ASSUME TypeOK, NEW r \in Requests, ConsoleStep(r)
  PROVE  TypeOK'
<1> USE TypeParts
<1>1. ASSUME NEW b \in Bookings, ApproveRead(r, b) PROVE TypeOK'
  BY <1>1, BeginType, UnchangedRowsType DEF ApproveRead, Ops, Points, Status
<1>2. ASSUME NEW b \in Bookings, RejectRead(r, b) PROVE TypeOK'
  BY <1>2, BeginType, UnchangedRowsType DEF RejectRead, Ops, Points, Status
<1>3. ASSUME NEW b \in Bookings, NEW t \in Status, OverrideRead(r, b, t) PROVE TypeOK'
  BY <1>3, BeginType, UnchangedRowsType DEF OverrideRead, Ops, Points
<1>4. CASE ConsoleWrite(r)
  <2>1. req[r] # Idle /\ req[r].op = "console" /\ req[r].b \in Bookings /\ req[r].to \in Status
    BY <1>4, HandlerFields DEF ConsoleWrite, At
  <2>2. RowsType'
    BY <1>4, <2>1, SetStatusType DEF ConsoleWrite
  <2>3. ReqType'
    BY <1>4, <2>1, FinishType, ThenSettleType DEF ConsoleWrite
  <2> QED
    BY <2>2, <2>3
<1>5. ASSUME NEW b \in Bookings, NEW n \in Nannies, AssignRead(r, b, n) PROVE TypeOK'
  BY <1>5, BeginType, UnchangedRowsType DEF AssignRead, Ops, Points, Status
<1>6. CASE AssignConflict(r)
  BY <1>6, ContinueType, FinishType, UnchangedRowsType DEF AssignConflict, At, Points
<1>7. CASE AssignWrite(r)
  <2>1. req[r].b \in Bookings /\ req[r].n \in Nannies
    BY <1>7, HandlerFields DEF AssignWrite, At
  <2>2. CASE AssignGuard(req[r])
    <3>1. req[r].seen.nanny = nanny[req[r].b]
      BY <2>2 DEF AssignGuard, HolderAsSeen
    <3>2. WinnersAfterAssign(req[r]) \in SUBSET Nannies
      BY <2>1 DEF WinnersAfterAssign, RowsType
    <3> QED
      BY <1>7, <2>1, <2>2, <3>2, FinishType DEF AssignWrite, RowsType, Status
  <2>3. CASE ~ AssignGuard(req[r])
    BY <1>7, <2>3, UnchangedRowsType, FinishType DEF AssignWrite
  <2> QED
    BY <2>2, <2>3
<1>8. ASSUME NEW b \in Bookings, NEW s \in Slots, RescheduleRead(r, b, s) PROVE TypeOK'
  <2> DEFINE pc == IF nanny[b] = NoNanny THEN "write" ELSE "conflict"
  <2>1. pc \in Points
    BY DEF Points
  <2>2. Begin(r, "reschedule", pc, b, nanny[b], s)
    BY <1>8 DEF RescheduleRead
  <2>3. nanny[b] \in Nannies \cup {NoNanny}
    BY DEF RowsType
  <2> HIDE DEF pc
  <2> QED
    BY <1>8, <2>1, <2>2, <2>3, BeginType, UnchangedRowsType DEF RescheduleRead, Ops
<1>9. CASE RescheduleConflict(r)
  BY <1>9, ContinueType, FinishType, UnchangedRowsType DEF RescheduleConflict, At, Points
<1>10. CASE RescheduleWrite(r)
  BY <1>10, HandlerFields, SetSlotType, FinishType DEF RescheduleWrite, At
<1>11. ASSUME NEW b \in Bookings, NEW s \in Slots, EditRead(r, b, s) PROVE TypeOK'
  <2> DEFINE pc == IF nanny[b] = NoNanny THEN "write" ELSE "conflict"
  <2>1. pc \in Points
    BY DEF Points
  <2>2. Begin(r, "edit", pc, b, nanny[b], s)
    BY <1>11 DEF EditRead
  <2>3. nanny[b] \in Nannies \cup {NoNanny}
    BY DEF RowsType
  <2> HIDE DEF pc
  <2> QED
    BY <1>11, <2>1, <2>2, <2>3, BeginType, UnchangedRowsType DEF EditRead, Ops
<1>12. CASE EditWrite(r)
  BY <1>12, HandlerFields, SetSlotType, UnchangedRowsType, FinishType DEF EditWrite, At
<1> QED
  BY <1>1, <1>2, <1>3, <1>4, <1>5, <1>6, <1>7, <1>8, <1>9, <1>10, <1>11, <1>12
  DEF ConsoleStep

LEMMA PaymentType ==
  ASSUME TypeOK, NEW r \in Requests, PaymentStep(r)
  PROVE  TypeOK'
<1> USE TypeParts
<1>1. ASSUME NEW b \in Bookings, CaptureRead(r, b) PROVE TypeOK'
  BY <1>1, BeginType, UnchangedRowsType DEF CaptureRead, Ops, Points, Status
<1>2. CASE CaptureWrite(r)
  BY <1>2, FinishType, SetStatusType, HandlerFields DEF CaptureWrite, At, Status
<1>3. ASSUME NEW b \in Bookings, SettleRequest(r, b) PROVE TypeOK'
  BY <1>3, BeginType, UnchangedRowsType DEF SettleRequest, Ops, Points, Status
<1>4. CASE SettleRead(r)
  BY <1>4, ContinueType, FinishType, UnchangedRowsType DEF SettleRead, At, Points
<1>5. CASE SettleWrite(r)
  BY <1>5, FinishType, UnchangedRowsType, SetStatusType, HandlerFields
  DEF SettleWrite, At, Status
<1>6. ASSUME NEW b \in Bookings, RedeemPoints(r, b) PROVE TypeOK'
  <2>1. ReqType'
    BY <1>6, BeginType DEF RedeemPoints, Ops, Points, Status
  <2>2. RowsType'
    BY <1>6 DEF RedeemPoints, RowsType
  <2> QED
    BY <2>1, <2>2
<1> QED
  BY <1>1, <1>2, <1>3, <1>4, <1>5, <1>6 DEF PaymentStep

LEMMA ShiftType ==
  ASSUME TypeOK, NEW r \in Requests, ShiftStep(r)
  PROVE  TypeOK'
<1> USE TypeParts
<1>1. ASSUME NEW b \in Bookings, PinRead(r, b) PROVE TypeOK'
  BY <1>1, BeginType, UnchangedRowsType DEF PinRead, Ops, Points, Status
<1>2. CASE PinWrite(r)
  BY <1>2, FinishType DEF PinWrite, RowsType
<1>3. ASSUME NEW b \in Bookings, CheckInRead(r, b) PROVE TypeOK'
  BY <1>3, BeginType, UnchangedRowsType DEF CheckInRead, Ops, Points, Status, RowsType
<1>4. CASE CheckInWrite(r)
  BY <1>4, FinishType DEF CheckInWrite, RowsType, Status
<1>5. ASSUME NEW b \in Bookings, CompleteRead(r, b) PROVE TypeOK'
  BY <1>5, BeginType, UnchangedRowsType DEF CompleteRead, Ops, Points, Status
<1>6. CASE CompleteWrite(r)
  BY <1>6, FinishType, SetStatusType, HandlerFields DEF CompleteWrite, At, Status
<1> QED
  BY <1>1, <1>2, <1>3, <1>4, <1>5, <1>6 DEF ShiftStep

\* The rows and the handlers in progress keep their types.
THEOREM LifecycleTypes == Spec => []TypeOK
<1>1. Init => TypeOK
  BY DEF Init, TypeOK, Status
<1>2. TypeOK /\ [Next]_vars => TypeOK'
  <2> SUFFICES ASSUME TypeOK, [Next]_vars PROVE TypeOK'
    OBVIOUS
  <2>1. CASE UNCHANGED vars
    BY <2>1 DEF TypeOK, vars
  <2>2. ASSUME NEW b \in Bookings, MarkRefunded(b) PROVE TypeOK'
    BY <2>2, SetStatusType, TypeParts DEF MarkRefunded, Status, ReqType
  <2>3. ASSUME NEW b \in Bookings, OpenCheckout(b) \/ ReturnCredits(b) \/ PinLapses(b)
        PROVE  TypeOK'
    BY <2>3 DEF OpenCheckout, ReturnCredits, PinLapses, TypeOK
  <2> QED
    BY <2>1, <2>2, <2>3, PartyType, ConsoleType, PaymentType, ShiftType DEF Next
<1> QED
  BY <1>1, <1>2, PTL DEF Spec

-----------------------------------------------------------------------------
(* Who holds a booking. *)

\* The three ways a booking changes hands.
Claimed(r)  == ClaimWrite(r) /\ ClaimGuard(req[r].b)
Assigned(r) == AssignWrite(r) /\ AssignGuard(req[r])
Released(r) == ReleaseWrite(r) /\ ReleaseGuard(req[r])

\* There is no other: every other step leaves the nannies, and the history of
\* who was told what, as they are.
LEMMA ChangesOfHands ==
  ASSUME [Next]_vars
  PROVE  \/ UNCHANGED <<nanny, winners>>
         \/ \E r \in Requests : Claimed(r) \/ Assigned(r) \/ Released(r)
<1> USE DEF UnchangedRows, SetStatus
<1>1. CASE UNCHANGED vars
  BY <1>1 DEF vars
<1>2. ASSUME NEW r \in Requests, PartyStep(r)
      PROVE  UNCHANGED <<nanny, winners>> \/ Claimed(r) \/ Released(r)
  BY <1>2 DEF PartyStep, ClaimRead, ClaimConflict, ClaimWrite, CancelRead, CancelCheck,
     CancelSettle, CancelReread, ReleaseWrite, CancelWrite, Claimed, Released
<1>3. ASSUME NEW r \in Requests, ConsoleStep(r)
      PROVE  UNCHANGED <<nanny, winners>> \/ Assigned(r)
  BY <1>3 DEF ConsoleStep, ApproveRead, RejectRead, OverrideRead, ConsoleWrite, AssignRead,
     AssignConflict, AssignWrite, RescheduleRead, RescheduleConflict, RescheduleWrite,
     EditRead, EditWrite, SetSlot, Assigned
<1>4. ASSUME NEW r \in Requests, PaymentStep(r) PROVE UNCHANGED <<nanny, winners>>
  BY <1>4 DEF PaymentStep, CaptureRead, CaptureWrite, RedeemPoints, SettleRequest,
     SettleRead, SettleWrite
<1>5. ASSUME NEW r \in Requests, ShiftStep(r) PROVE UNCHANGED <<nanny, winners>>
  BY <1>5 DEF ShiftStep, PinRead, PinWrite, CheckInRead, CheckInWrite, CompleteRead,
     CompleteWrite
<1>6. ASSUME NEW b \in Bookings,
             MarkRefunded(b) \/ OpenCheckout(b) \/ ReturnCredits(b) \/ PinLapses(b)
      PROVE  UNCHANGED <<nanny, winners>>
  BY <1>6 DEF MarkRefunded, OpenCheckout, ReturnCredits, PinLapses
<1> QED
  BY <1>1, <1>2, <1>3, <1>4, <1>5, <1>6 DEF Next

\* Whatever else runs, at most one nanny is told that an open request is hers:
\* a claim or an assignment that lost changes nothing.
THEOREM OneWinner == Spec => []OneWinnerPerOpening
<1>1. Init => OneWinnerPerOpening
  BY DEF Init, OneWinnerPerOpening
<1>2. TypeOK /\ OneWinnerPerOpening /\ [Next]_vars => OneWinnerPerOpening'
  <2> SUFFICES ASSUME TypeOK, OneWinnerPerOpening, [Next]_vars
               PROVE  OneWinnerPerOpening'
    OBVIOUS
  <2>1. CASE UNCHANGED <<nanny, winners>>
    BY <2>1 DEF OneWinnerPerOpening
  <2>2. ASSUME NEW r \in Requests, Claimed(r) PROVE OneWinnerPerOpening'
    <3>1. req[r].b \in Bookings /\ nanny[req[r].b] = NoNanny
      BY <2>2, HandlerFields DEF Claimed, ClaimWrite, At, ClaimGuard
    <3>2. winners[req[r].b] = {}
      BY <3>1, ConstantsAssumption DEF OneWinnerPerOpening, TypeOK
    <3> QED
      BY <2>2, <3>1, <3>2 DEF Claimed, ClaimWrite, OneWinnerPerOpening, TypeOK
  <2>3. ASSUME NEW r \in Requests, Assigned(r) PROVE OneWinnerPerOpening'
    <3>1. req[r].b \in Bookings /\ nanny[req[r].b] = req[r].seen.nanny
      BY <2>3, HandlerFields DEF Assigned, AssignWrite, At, AssignGuard, HolderAsSeen
    <3>2. WinnersAfterAssign(req[r]) \subseteq {req[r].n}
      BY <3>1 DEF WinnersAfterAssign, OneWinnerPerOpening
    <3> QED
      BY <2>3, <3>1, <3>2 DEF Assigned, AssignWrite, OneWinnerPerOpening, TypeOK
  <2>4. ASSUME NEW r \in Requests, Released(r) PROVE OneWinnerPerOpening'
    BY <2>4, HandlerFields DEF Released, ReleaseWrite, At, OneWinnerPerOpening, TypeOK
  <2> QED
    BY <2>1, <2>2, <2>3, <2>4, ChangesOfHands
<1> QED
  BY <1>1, <1>2, LifecycleTypes, PTL DEF Spec

\* A booking that was confirmed, started or ended after a release had read it
\* keeps its nanny.
THEOREM ReleasesAreUnpaid == Spec => ReleaseOnlyUnpaid
<1>1. TypeOK /\ [Next]_vars =>
        [\A b \in Bookings :
           nanny[b] # NoNanny /\ nanny'[b] = NoNanny
             => status[b] \in UnpaidStatuses /\ status'[b] = "PENDING"]_vars
  <2> SUFFICES ASSUME TypeOK, [Next]_vars, NEW b \in Bookings,
                      nanny[b] # NoNanny, nanny'[b] = NoNanny
               PROVE  status[b] \in UnpaidStatuses /\ status'[b] = "PENDING"
    OBVIOUS
  <2>1. PICK r \in Requests : Claimed(r) \/ Assigned(r) \/ Released(r)
    BY ChangesOfHands
  <2>2. req[r] # Idle /\ req[r].b \in Bookings
    BY <2>1, HandlerFields DEF Claimed, Assigned, Released, ClaimWrite, AssignWrite,
       ReleaseWrite, At
  <2>3. ~ Claimed(r)
    BY <2>2, HandlerFields, ConstantsAssumption DEF Claimed, ClaimWrite, At, TypeOK
  <2>4. ~ Assigned(r)
    BY <2>2, HandlerFields, ConstantsAssumption DEF Assigned, AssignWrite, At, TypeOK
  <2>5. Released(r)
    BY <2>1, <2>3, <2>4
  <2>6. req[r].b = b
    BY <2>2, <2>5 DEF Released, ReleaseWrite, TypeOK
  <2>7. status[b] \in UnpaidStatuses
    BY <2>5, <2>6 DEF Released, ReleaseWrite, Releases, ReleaseGuard, HolderAsSeen
  <2> QED
    BY <2>5, <2>6, <2>7 DEF Released, ReleaseWrite, TypeOK
<1> QED
  BY <1>1, LifecycleTypes, PTL DEF Spec, ReleaseOnlyUnpaid

\* An assignment in flight was begun on a booking open to one.
AssignsWereAllowed ==
  \A r \in Requests :
    req[r] # Idle /\ req[r].op = "assign" => req[r].seen.status \in AssignableStatuses

\* A slot that is left alone, freed, moved on or given to another kind of
\* handler keeps what is known of assignments.
LEMMA AssignsKept ==
  ASSUME TypeOK, AssignsWereAllowed, NEW r \in Requests,
         \A s \in Requests : s # r => req'[s] = req[s],
         \/ req'[r] = Idle
         \/ req'[r].op # "assign"
         \/ /\ req[r] # Idle
            /\ req'[r].op = req[r].op
            /\ req'[r].seen = req[r].seen
  PROVE  AssignsWereAllowed'
BY DEF AssignsWereAllowed

LEMMA BeginKeepsAssigns ==
  ASSUME TypeOK, AssignsWereAllowed, NEW r \in Requests, NEW op, NEW pc, NEW b, NEW n,
         NEW to, op # "assign", Begin(r, op, pc, b, n, to)
  PROVE  AssignsWereAllowed'
BY AssignsKept DEF Begin, TypeOK

LEMMA ContinueKeepsAssigns ==
  ASSUME TypeOK, AssignsWereAllowed, NEW r \in Requests, req[r] # Idle, NEW pc,
         Continue(r, pc)
  PROVE  AssignsWereAllowed'
<1>1. req[r] \in Handler
  BY BusyIsHandler, TypeParts
<1>2. req'[r].op = req[r].op /\ req'[r].seen = req[r].seen
  BY <1>1 DEF Continue, TypeOK, Handler
<1> QED
  BY <1>2, AssignsKept DEF Continue, TypeOK

LEMMA FinishKeepsAssigns ==
  ASSUME TypeOK, AssignsWereAllowed, NEW r \in Requests, Finish(r)
  PROVE  AssignsWereAllowed'
BY AssignsKept DEF Finish, TypeOK

LEMMA ThenSettleKeepsAssigns ==
  ASSUME TypeOK, AssignsWereAllowed, NEW r \in Requests, req[r] # Idle, ThenSettle(r)
  PROVE  AssignsWereAllowed'
<1>1. req[r] \in Handler
  BY BusyIsHandler, TypeParts
<1>2. req'[r] = Idle \/ req'[r].op # "assign"
  BY <1>1 DEF ThenSettle, TypeOK, Handler
<1> QED
  BY <1>2, AssignsKept DEF ThenSettle, TypeOK

LEMMA RereadKeepsAssigns ==
  ASSUME TypeOK, AssignsWereAllowed, NEW r \in Requests, req[r] # Idle,
         req[r].op # "assign",
         req' = [req EXCEPT ![r].pc = "write", ![r].seen = Row(req[r].b)]
  PROVE  AssignsWereAllowed'
<1>1. req[r] \in Handler
  BY BusyIsHandler, TypeParts
<1>2. req'[r].op = req[r].op
  BY <1>1 DEF TypeOK, Handler
<1> QED
  BY <1>2, AssignsKept DEF TypeOK

LEMMA AssignsStayAllowed ==
  ASSUME TypeOK, AssignsWereAllowed, [Next]_vars
  PROVE  AssignsWereAllowed'
<1> USE BeginKeepsAssigns, ContinueKeepsAssigns, FinishKeepsAssigns
<1>1. CASE UNCHANGED vars
  BY <1>1 DEF vars, AssignsWereAllowed
<1>2. ASSUME NEW r \in Requests, PartyStep(r) PROVE AssignsWereAllowed'
  <2>1. CASE \/ \E b \in Bookings, n \in Nannies : ClaimRead(r, b, n)
             \/ \E b \in Bookings, n \in Nannies \cup {NoNanny} : CancelRead(r, b, n)
    BY <2>1 DEF ClaimRead, CancelRead
  <2>2. CASE ClaimConflict(r) \/ CancelCheck(r) \/ CancelSettle(r)
    BY <2>2 DEF ClaimConflict, CancelCheck, CancelSettle, At
  <2>3. CASE ClaimWrite(r)
    BY <2>3, ThenSettleKeepsAssigns DEF ClaimWrite, At
  <2>4. CASE CancelReread(r)
    BY <2>4, RereadKeepsAssigns DEF CancelReread, At
  <2>5. CASE ReleaseWrite(r) \/ CancelWrite(r)
    BY <2>5 DEF ReleaseWrite, CancelWrite
  <2> QED
    BY <1>2, <2>1, <2>2, <2>3, <2>4, <2>5 DEF PartyStep
<1>3. ASSUME NEW r \in Requests, ConsoleStep(r) PROVE AssignsWereAllowed'
  <2>1. CASE \/ \E b \in Bookings : ApproveRead(r, b) \/ RejectRead(r, b)
             \/ \E b \in Bookings, t \in Status : OverrideRead(r, b, t)
             \/ \E b \in Bookings, s \in Slots : RescheduleRead(r, b, s) \/ EditRead(r, b, s)
    BY <2>1 DEF ApproveRead, RejectRead, OverrideRead, RescheduleRead, EditRead
  <2>2. CASE ConsoleWrite(r)
    BY <2>2, ThenSettleKeepsAssigns DEF ConsoleWrite, At
  <2>3. ASSUME NEW b \in Bookings, NEW n \in Nannies, AssignRead(r, b, n)
        PROVE  AssignsWereAllowed'
    BY <2>3 DEF AssignRead, Begin, Row, AssignsWereAllowed, TypeOK
  <2>4. CASE AssignConflict(r) \/ RescheduleConflict(r)
    BY <2>4 DEF AssignConflict, RescheduleConflict, At
  <2>5. CASE AssignWrite(r) \/ RescheduleWrite(r) \/ EditWrite(r)
    BY <2>5 DEF AssignWrite, RescheduleWrite, EditWrite
  <2> QED
    BY <1>3, <2>1, <2>2, <2>3, <2>4, <2>5 DEF ConsoleStep
<1>4. ASSUME NEW r \in Requests, PaymentStep(r) PROVE AssignsWereAllowed'
  <2>1. CASE \E b \in Bookings : CaptureRead(r, b) \/ SettleRequest(r, b) \/ RedeemPoints(r, b)
    BY <2>1 DEF CaptureRead, SettleRequest, RedeemPoints
  <2>2. CASE CaptureWrite(r) \/ SettleWrite(r)
    BY <2>2 DEF CaptureWrite, SettleWrite
  <2>3. CASE SettleRead(r)
    BY <2>3 DEF SettleRead, At
  <2> QED
    BY <1>4, <2>1, <2>2, <2>3 DEF PaymentStep
<1>5. ASSUME NEW r \in Requests, ShiftStep(r) PROVE AssignsWereAllowed'
  BY <1>5 DEF ShiftStep, PinRead, PinWrite, CheckInRead, CheckInWrite, CompleteRead,
     CompleteWrite
<1>6. ASSUME NEW b \in Bookings,
             MarkRefunded(b) \/ OpenCheckout(b) \/ ReturnCredits(b) \/ PinLapses(b)
      PROVE  AssignsWereAllowed'
  BY <1>6 DEF MarkRefunded, OpenCheckout, ReturnCredits, PinLapses, AssignsWereAllowed
<1> QED
  BY <1>1, <1>2, <1>3, <1>4, <1>5, <1>6 DEF Next

\* A claim or an assignment that arrives after the shift has begun, or after
\* the booking has ended, puts nobody on it.
THEOREM AssignmentsAreTimely == Spec => NoLateAssignment
<1>1. Init => AssignsWereAllowed
  BY DEF Init, AssignsWereAllowed
<1>2. TypeOK /\ AssignsWereAllowed /\ [Next]_vars =>
        [\A b \in Bookings :
           nanny'[b] # nanny[b] => status[b] \in AssignableStatuses]_vars
  <2> SUFFICES ASSUME TypeOK, AssignsWereAllowed, [Next]_vars,
                      NEW b \in Bookings, nanny'[b] # nanny[b]
               PROVE  status[b] \in AssignableStatuses
    OBVIOUS
  <2>1. PICK r \in Requests : Claimed(r) \/ Assigned(r) \/ Released(r)
    BY ChangesOfHands
  <2>2. req[r] # Idle /\ req[r].b = b
    BY <2>1 DEF Claimed, Assigned, Released, ClaimWrite, AssignWrite, ReleaseWrite, At,
       TypeOK
  <2>3. CASE Claimed(r)
    BY <2>2, <2>3 DEF Claimed, ClaimGuard, AssignableStatuses
  <2>4. CASE Assigned(r)
    BY <2>2, <2>4 DEF Assigned, AssignWrite, AssignGuard, HolderAsSeen, At, AssignsWereAllowed
  <2>5. CASE Released(r)
    BY <2>2, <2>5 DEF Released, ReleaseWrite, ReleaseGuard, HolderAsSeen, Releases, UnpaidStatuses,
       AssignableStatuses
  <2> QED
    BY <2>1, <2>3, <2>4, <2>5
<1> QED
  BY <1>1, <1>2, LifecycleTypes, AssignsStayAllowed, PTL DEF Spec, NoLateAssignment

-----------------------------------------------------------------------------
(* The abstract life of a booking, for any bookings, nannies and slots: it   *)
(* never double-books a nanny and never moves a shift forward without one.   *)

\* A freed booking (CANCELLED, REFUNDED) stays freed along the transition table.
LEMMA AbstractFreedIsFinal ==
  ASSUME NEW s \in Abstract!Status, NEW t, Abstract!CanTransition(s, t)
  PROVE  s \notin Abstract!FreedStatuses /\ t \in Abstract!Status /\ t # "PENDING"
BY DEF Abstract!Status, Abstract!CanTransition, Abstract!NextStatuses, Abstract!FreedStatuses

\* The variables keep their types.
THEOREM AbstractTypes == Abstract!Spec => []Abstract!TypeOK
<1>1. Abstract!Init => Abstract!TypeOK
  BY DEF Abstract!Init, Abstract!TypeOK, Abstract!Status
<1>2. Abstract!TypeOK /\ [Abstract!Next]_(Abstract!vars) => Abstract!TypeOK'
  <2> SUFFICES ASSUME Abstract!TypeOK, [Abstract!Next]_(Abstract!vars)
               PROVE  Abstract!TypeOK'
    OBVIOUS
  <2>1. CASE UNCHANGED Abstract!vars
    BY <2>1 DEF Abstract!TypeOK, Abstract!vars
  <2>2. ASSUME NEW b \in Bookings, NEW n \in Nannies, Abstract!Take(b, n)
        PROVE  Abstract!TypeOK'
    BY <2>2 DEF Abstract!TypeOK, Abstract!Take, Abstract!Status
  <2>3. ASSUME NEW b \in Bookings, Abstract!GiveBack(b) PROVE Abstract!TypeOK'
    BY <2>3 DEF Abstract!TypeOK, Abstract!GiveBack, Abstract!Status
  <2>4. ASSUME NEW b \in Bookings, NEW t \in Abstract!Status, Abstract!Move(b, t)
        PROVE  Abstract!TypeOK'
    BY <2>4 DEF Abstract!TypeOK, Abstract!Move
  <2>5. ASSUME NEW b \in Bookings, Abstract!Refund(b) PROVE Abstract!TypeOK'
    BY <2>5 DEF Abstract!TypeOK, Abstract!Refund, Abstract!Status
  <2>6. ASSUME NEW b \in Bookings, NEW s \in Slots, Abstract!Reschedule(b, s)
        PROVE  Abstract!TypeOK'
    BY <2>6 DEF Abstract!TypeOK, Abstract!Reschedule
  <2> QED
    BY <2>1, <2>2, <2>3, <2>4, <2>5, <2>6 DEF Abstract!Next
<1> QED
  BY <1>1, <1>2, PTL DEF Abstract!Spec

\* No nanny is ever on two live bookings at one time: the promise of
\* assertNoConflict, kept because nothing brings a freed booking back.
THEOREM AbstractNeverDoubleBooks == Abstract!Spec => []Abstract!NoDoubleBooking
<1>1. Abstract!Init => Abstract!NoDoubleBooking
  BY DEF Abstract!Init, Abstract!NoDoubleBooking, Abstract!Free, Abstract!FreedStatuses
<1>2. Abstract!TypeOK /\ Abstract!NoDoubleBooking /\ [Abstract!Next]_(Abstract!vars)
        => Abstract!NoDoubleBooking'
  <2> SUFFICES ASSUME Abstract!TypeOK, Abstract!NoDoubleBooking, [Abstract!Next]_(Abstract!vars)
               PROVE  Abstract!NoDoubleBooking'
    OBVIOUS
  <2>1. CASE UNCHANGED Abstract!vars
    BY <2>1 DEF Abstract!NoDoubleBooking, Abstract!vars
  <2>2. ASSUME NEW b \in Bookings, NEW n \in Nannies, Abstract!Take(b, n)
        PROVE  Abstract!NoDoubleBooking'
    <3>1. \A c \in Bookings : c # b => /\ status'[c] = status[c]
                                      /\ nanny'[c] = nanny[c]
                                      /\ slot'[c] = slot[c]
      BY <2>2 DEF Abstract!Take, Abstract!TypeOK
    <3>2. nanny'[b] = n /\ slot'[b] = slot[b]
      BY <2>2 DEF Abstract!Take, Abstract!TypeOK
    <3> QED
      BY <2>2, <3>1, <3>2 DEF Abstract!NoDoubleBooking, Abstract!Take, Abstract!Free
  <2>3. ASSUME NEW b \in Bookings, Abstract!GiveBack(b) PROVE Abstract!NoDoubleBooking'
    BY <2>3 DEF Abstract!NoDoubleBooking, Abstract!GiveBack, Abstract!TypeOK
  <2>4. ASSUME NEW b \in Bookings, NEW t \in Abstract!Status, Abstract!Move(b, t)
        PROVE  Abstract!NoDoubleBooking'
    <3>1. status[b] \notin Abstract!FreedStatuses
      BY <2>4, AbstractFreedIsFinal DEF Abstract!Move, Abstract!TypeOK
    <3>2. \A c \in Bookings : c # b => status'[c] = status[c]
      BY <2>4 DEF Abstract!Move, Abstract!TypeOK
    <3> QED
      BY <2>4, <3>1, <3>2 DEF Abstract!NoDoubleBooking, Abstract!Move
  <2>5. ASSUME NEW b \in Bookings, Abstract!Refund(b) PROVE Abstract!NoDoubleBooking'
    BY <2>5 DEF Abstract!NoDoubleBooking, Abstract!Refund, Abstract!TypeOK, Abstract!FreedStatuses
  <2>6. ASSUME NEW b \in Bookings, NEW s \in Slots, Abstract!Reschedule(b, s)
        PROVE  Abstract!NoDoubleBooking'
    <3>1. \A c \in Bookings : c # b => slot'[c] = slot[c]
      BY <2>6 DEF Abstract!Reschedule, Abstract!TypeOK
    <3>2. slot'[b] = s /\ status' = status /\ nanny' = nanny
      BY <2>6 DEF Abstract!Reschedule, Abstract!TypeOK
    <3> QED
      BY <2>6, <3>1, <3>2 DEF Abstract!NoDoubleBooking, Abstract!Reschedule, Abstract!Free
  <2> QED
    BY <2>1, <2>2, <2>3, <2>4, <2>5, <2>6 DEF Abstract!Next
<1> QED
  BY <1>1, <1>2, AbstractTypes, PTL DEF Abstract!Spec

\* A booking that is payable, paid, running or done always has a nanny.
THEOREM AbstractLiveHasNanny ==
  ASSUME NoNanny \notin Nannies
  PROVE  Abstract!Spec => []Abstract!LiveHasNanny
<1>1. Abstract!Init => Abstract!LiveHasNanny
  BY DEF Abstract!Init, Abstract!LiveHasNanny
<1>2. Abstract!TypeOK /\ Abstract!LiveHasNanny /\ [Abstract!Next]_(Abstract!vars)
        => Abstract!LiveHasNanny'
  <2> SUFFICES ASSUME Abstract!TypeOK, Abstract!LiveHasNanny, [Abstract!Next]_(Abstract!vars)
               PROVE  Abstract!LiveHasNanny'
    OBVIOUS
  <2>1. CASE UNCHANGED Abstract!vars
    BY <2>1 DEF Abstract!LiveHasNanny, Abstract!vars
  <2>2. ASSUME NEW b \in Bookings, NEW n \in Nannies, Abstract!Take(b, n)
        PROVE  Abstract!LiveHasNanny'
    BY <2>2 DEF Abstract!LiveHasNanny, Abstract!Take, Abstract!TypeOK
  <2>3. ASSUME NEW b \in Bookings, Abstract!GiveBack(b) PROVE Abstract!LiveHasNanny'
    BY <2>3 DEF Abstract!LiveHasNanny, Abstract!GiveBack, Abstract!TypeOK
  <2>4. ASSUME NEW b \in Bookings, NEW t \in Abstract!Status, Abstract!Move(b, t)
        PROVE  Abstract!LiveHasNanny'
    BY <2>4 DEF Abstract!LiveHasNanny, Abstract!Move, Abstract!TypeOK
  <2>5. ASSUME NEW b \in Bookings, Abstract!Refund(b) PROVE Abstract!LiveHasNanny'
    BY <2>5 DEF Abstract!LiveHasNanny, Abstract!Refund, Abstract!TypeOK
  <2>6. ASSUME NEW b \in Bookings, NEW s \in Slots, Abstract!Reschedule(b, s)
        PROVE  Abstract!LiveHasNanny'
    BY <2>6 DEF Abstract!LiveHasNanny, Abstract!Reschedule
  <2> QED
    BY <2>1, <2>2, <2>3, <2>4, <2>5, <2>6 DEF Abstract!Next
<1> QED
  BY <1>1, <1>2, AbstractTypes, PTL DEF Abstract!Spec

-----------------------------------------------------------------------------
(* When requests do not overlap, the handlers implement that life, for any   *)
(* bookings, nannies and slots: so no nanny is double-booked and no shift is *)
(* left without one.                                                         *)

\* What a handler that is about to write relies on: with no other handler in
\* between, all that it checked earlier still holds of the row it writes.
Relies(h) ==
  /\ h.op \in {"claim", "assign"} => h.seen.slot = slot[h.b]
  /\ h.op \in {"claim", "assign"} /\ h.pc = "write" => NoConflict(h.n, slot[h.b], h.b)
  /\ h.op = "cancel" /\ h.pc = "settle" => CanTransition(status[h.b], "CONFIRMED")
  /\ h.op = "cancel" /\ h.pc = "write" => CancelAllowed(h.n, h.seen.status)
  /\ h.op = "console" => OverrideAllowed(h.b, h.to)
  /\ h.op \in {"reschedule", "edit"} =>
       /\ status[h.b] \notin LockedStatuses
       /\ h.pc = "conflict" => nanny[h.b] = h.n
       /\ h.pc = "write" /\ nanny[h.b] # NoNanny => NoConflict(nanny[h.b], h.to, h.b)
  /\ h.op = "capture" => CanTransition(status[h.b], "CONFIRMED")
  /\ h.op = "checkin" => status[h.b] = "CONFIRMED"
  /\ h.op = "complete" => status[h.b] = "IN_PROGRESS"

HandlersRely == \A r \in Requests : req[r] # Idle => Relies(req[r])

\* Nothing in the code makes a booking PENDING_CONFIRMATION any more.
NoLegacyStatus == \A b \in Bookings : status[b] # "PENDING_CONFIRMATION"

\* The inductive invariant.  LiveHasNanny alone is not inductive: an override
\* to APPROVED relies on the nanny that it saw.
SoloInv == TypeOK /\ AssignsWereAllowed /\ HandlersRely /\ NoLegacyStatus /\ LiveHasNanny

AbstractStep == [Abstract!Next]_(Abstract!vars)

\* The abstract life speaks of the same statuses and the same table.
LEMMA SameStatuses ==
  /\ Abstract!Status = Status
  /\ Abstract!UnpaidStatuses = UnpaidStatuses
  /\ Abstract!AssignableStatuses = AssignableStatuses
  /\ Abstract!FreedStatuses = FreedStatuses
  /\ Abstract!LockedStatuses = LockedStatuses
  /\ \A s, t : Abstract!CanTransition(s, t) <=> CanTransition(s, t)
BY DEF Abstract!Status, Status, Abstract!UnpaidStatuses, UnpaidStatuses,
   Abstract!AssignableStatuses, AssignableStatuses, Abstract!FreedStatuses, FreedStatuses,
   Abstract!LockedStatuses, LockedStatuses, Abstract!CanTransition, CanTransition,
   Abstract!NextStatuses, NextStatuses

\* A step that leaves the rows alone keeps what holds of the rows, and is a
\* stutter of the abstract life.
LEMMA RowsKept ==
  ASSUME SoloInv, UNCHANGED <<status, nanny, slot>>
  PROVE  NoLegacyStatus' /\ LiveHasNanny' /\ AbstractStep
BY DEF SoloInv, NoLegacyStatus, LiveHasNanny, Abstract!LiveHasNanny, AbstractStep,
   Abstract!vars

\* What a finished request leaves behind.
LEMMA IdleRelies ==
  ASSUME NEW r, Requests = {r}, TypeOK, Finish(r)
  PROVE  HandlersRely'
BY DEF HandlersRely, Finish, TypeOK

\* A request that goes on to the settlement relies on nothing.
LEMMA SettleRelies ==
  ASSUME NEW r, Requests = {r}, TypeOK, req[r] # Idle, ThenSettle(r)
  PROVE  HandlersRely'
<1>1. req[r] \in Handler
  BY BusyIsHandler, TypeParts
<1>2. req'[r] = [[req[r] EXCEPT !.op = "settle"] EXCEPT !.pc = "read"]
  BY DEF ThenSettle, TypeOK
<1>3. req'[r].op = "settle"
  BY <1>1, <1>2 DEF Handler
<1> QED
  BY <1>3 DEF HandlersRely, Relies

\* Nor does a settlement that goes on.
LEMMA SettlementRelies ==
  ASSUME NEW r, Requests = {r}, TypeOK, req[r] # Idle, req[r].op = "settle",
         NEW pc, Continue(r, pc)
  PROVE  HandlersRely'
<1>1. req[r] \in Handler
  BY BusyIsHandler, TypeParts
<1>2. req'[r].op = "settle"
  BY <1>1 DEF Continue, TypeOK, Handler
<1> QED
  BY <1>2 DEF HandlersRely, Relies

\* A request that has just read its row.
LEMMA BeginRelies ==
  ASSUME NEW r, Requests = {r}, TypeOK, UnchangedRows,
         NEW op, NEW pc, NEW b, NEW n, NEW to, Begin(r, op, pc, b, n, to),
         Relies([op |-> op, pc |-> pc, b |-> b, n |-> n, to |-> to, seen |-> Row(b)])
  PROVE  HandlersRely'
<1> DEFINE h == [op |-> op, pc |-> pc, b |-> b, n |-> n, to |-> to, seen |-> Row(b)]
<1>1. req'[r] = h
  BY DEF Begin, TypeOK
<1>2. Relies(req'[r])
  BY <1>1
<1> HIDE DEF h
<1>3. Relies(req[r])'
  BY <1>2 DEF Relies, UnchangedRows, NoConflict, CancelAllowed, OverrideAllowed
<1> QED
  BY <1>3 DEF HandlersRely

\* A query of assertNoConflict that found nothing.
LEMMA ConflictRelies ==
  ASSUME NEW r, Requests = {r}, SoloInv, UnchangedRows, req[r] # Idle,
         Continue(r, "write"),
         \/ /\ req[r].op \in {"claim", "assign"}
            /\ NoConflict(req[r].n, req[r].seen.slot, req[r].b)
         \/ /\ req[r].op \in {"reschedule", "edit"}
            /\ req[r].pc = "conflict"
            /\ NoConflict(req[r].n, req[r].to, req[r].b)
  PROVE  HandlersRely'
<1>1. req[r] \in Handler /\ Relies(req[r])
  BY BusyIsHandler, TypeParts DEF SoloInv, HandlersRely
<1>2. /\ req'[r].op = req[r].op
      /\ req'[r].b = req[r].b
      /\ req'[r].n = req[r].n
      /\ req'[r].to = req[r].to
      /\ req'[r].seen = req[r].seen
  BY <1>1 DEF SoloInv, Continue, TypeOK, Handler
<1>3. Relies(req'[r])
  BY <1>1, <1>2 DEF Relies
<1>4. Relies(req[r])'
  BY <1>3 DEF Relies, UnchangedRows, NoConflict, CancelAllowed, OverrideAllowed
<1> QED
  BY <1>4 DEF HandlersRely

-----------------------------------------------------------------------------
(* The steps, one lemma for each kind of handler. *)

StepOK == HandlersRely' /\ NoLegacyStatus' /\ LiveHasNanny' /\ AbstractStep

\* A status change along the table is a move of the abstract booking.
LEMMA MoveOK ==
  ASSUME SoloInv, NEW b \in Bookings, NEW t \in Status, SetStatus(b, t),
         CanTransition(status[b], t),
         t # "CANCELLED" => nanny[b] # NoNanny
  PROVE  NoLegacyStatus' /\ LiveHasNanny' /\ AbstractStep
<1>1. t # "PENDING_CONFIRMATION"
  BY DEF CanTransition, NextStatuses
<1>2. NoLegacyStatus'
  BY <1>1 DEF SoloInv, TypeOK, SetStatus, NoLegacyStatus
<1>3. LiveHasNanny'
  BY DEF SoloInv, TypeOK, SetStatus, LiveHasNanny, Abstract!LiveHasNanny
<1>4. Abstract!Move(b, t)
  BY SameStatuses DEF SetStatus, Abstract!Move
<1> QED
  BY <1>2, <1>3, <1>4, SameStatuses DEF AbstractStep, Abstract!Next

\* A confirmation along the table finds an approved booking, which has a nanny.
LEMMA ConfirmOK ==
  ASSUME SoloInv, NEW b \in Bookings, CanTransition(status[b], "CONFIRMED"),
         SetStatus(b, "CONFIRMED")
  PROVE  NoLegacyStatus' /\ LiveHasNanny' /\ AbstractStep
<1>1. status[b] = "APPROVED"
  BY DEF CanTransition, NextStatuses, SoloInv, NoLegacyStatus
<1>2. nanny[b] # NoNanny
  BY <1>1 DEF SoloInv, LiveHasNanny, Abstract!LiveHasNanny
<1> QED
  BY <1>2, MoveOK DEF Status

\* A cancel that has still to read its row again relies on nothing.
LEMMA CancelRelies ==
  ASSUME NEW r, Requests = {r}, TypeOK, req[r] # Idle, req[r].op = "cancel",
         Continue(r, "reread")
  PROVE  HandlersRely'
<1>1. req[r] \in Handler
  BY BusyIsHandler, TypeParts
<1>2. req'[r].op = "cancel" /\ req'[r].pc = "reread"
  BY <1>1 DEF Continue, TypeOK, Handler
<1> QED
  BY <1>2 DEF HandlersRely, Relies

\* A booking moves to a slot that its nanny has free.
LEMMA SetSlotOK ==
  ASSUME SoloInv, NEW b \in Bookings, NEW s \in Slots, SetSlot(b, s),
         status[b] \notin LockedStatuses,
         nanny[b] # NoNanny => NoConflict(nanny[b], s, b)
  PROVE  NoLegacyStatus' /\ LiveHasNanny' /\ AbstractStep
<1>1. Abstract!Reschedule(b, s)
  BY SameStatuses DEF SetSlot, NoConflict, Abstract!Reschedule, Abstract!Free
<1>2. NoLegacyStatus' /\ LiveHasNanny'
  BY DEF SetSlot, SoloInv, NoLegacyStatus, LiveHasNanny, Abstract!LiveHasNanny
<1> QED
  BY <1>1, <1>2 DEF AbstractStep, Abstract!Next

LEMMA PartyOK ==
  ASSUME NEW r, Requests = {r}, SoloInv, PartyStep(r)
  PROVE  StepOK
<1> USE DEF StepOK
<1>1. ASSUME NEW b \in Bookings, NEW n \in Nannies, ClaimRead(r, b, n) PROVE StepOK
  <2>1. Relies([op |-> "claim", pc |-> "conflict", b |-> b, n |-> n,
                to |-> "APPROVED", seen |-> Row(b)])
    BY DEF Relies, Row
  <2> QED
    BY <1>1, <2>1, BeginRelies, RowsKept DEF ClaimRead, SoloInv, UnchangedRows
<1>2. CASE ClaimConflict(r)
  BY <1>2, ConflictRelies, IdleRelies, RowsKept DEF ClaimConflict, At, SoloInv, UnchangedRows
<1>3. CASE ClaimWrite(r)
  <2>1. /\ req[r].op = "claim" /\ req[r].pc = "write" /\ req[r] # Idle
        /\ req[r].b \in Bookings /\ req[r].n \in Nannies
    BY <1>3, HandlerFields DEF ClaimWrite, At, SoloInv
  <2>2. CASE ClaimGuard(req[r].b)
    <3>1. NoConflict(req[r].n, slot[req[r].b], req[r].b)
      BY <2>1 DEF SoloInv, HandlersRely, Relies
    <3>2. Abstract!Take(req[r].b, req[r].n)
      BY <1>3, <2>1, <2>2, <3>1, SameStatuses DEF SoloInv, TypeOK, ClaimWrite, ClaimGuard, NoConflict,
         Abstract!Take, Abstract!Free, AssignableStatuses
    <3>3. NoLegacyStatus' /\ LiveHasNanny'
      BY <1>3, <2>1, <2>2, ConstantsAssumption DEF SoloInv, TypeOK, ClaimWrite,
         NoLegacyStatus, LiveHasNanny, Abstract!LiveHasNanny
    <3> QED
      BY <1>3, <2>1, <2>2, <3>2, <3>3, SettleRelies DEF ClaimWrite, AbstractStep,
         Abstract!Next, SoloInv
  <2>3. CASE ~ ClaimGuard(req[r].b)
    BY <1>3, <2>3, IdleRelies, RowsKept DEF ClaimWrite, SoloInv, UnchangedRows
  <2> QED
    BY <2>2, <2>3
<1>4. ASSUME NEW b \in Bookings, NEW n \in Nannies \cup {NoNanny}, CancelRead(r, b, n)
      PROVE  StepOK
  <2> DEFINE pc == IF status[b] = "APPROVED" THEN "check" ELSE "write"
  <2>1. Relies([op |-> "cancel", pc |-> pc, b |-> b, n |-> n,
                to |-> "CANCELLED", seen |-> Row(b)])
    BY <1>4 DEF Relies, CancelRead, Row
  <2>2. Begin(r, "cancel", pc, b, n, "CANCELLED")
    BY <1>4 DEF CancelRead
  <2> HIDE DEF pc
  <2> QED
    BY <1>4, <2>1, <2>2, BeginRelies, RowsKept DEF CancelRead, SoloInv, UnchangedRows
<1>5. CASE CancelCheck(r)
  <2>1. /\ req[r] \in Handler /\ req[r] # Idle
        /\ req[r].op = "cancel" /\ req[r].b \in Bookings
    BY <1>5, BusyIsHandler, TypeParts, HandlerFields DEF CancelCheck, At, SoloInv
  <2>2. ASSUME Continue(r, "reread") PROVE HandlersRely'
    BY <2>1, <2>2, CancelRelies DEF CancelCheck, SoloInv
  <2>3. ASSUME CanTransition(status[req[r].b], "CONFIRMED"), Continue(r, "settle")
        PROVE  HandlersRely'
    <3>1. req'[r].op = "cancel" /\ req'[r].pc = "settle" /\ req'[r].b = req[r].b
      BY <2>1, <2>3 DEF Continue, SoloInv, TypeOK, Handler
    <3>2. status' = status
      BY <1>5 DEF CancelCheck, UnchangedRows
    <3> QED
      BY <2>3, <3>1, <3>2 DEF HandlersRely, Relies
  <2> QED
    BY <1>5, <2>2, <2>3, IdleRelies, RowsKept DEF CancelCheck, SoloInv, UnchangedRows
<1>6. CASE CancelSettle(r)
  <2>1. /\ req[r] # Idle /\ req[r].op = "cancel" /\ req[r].pc = "settle"
        /\ req[r].b \in Bookings
    BY <1>6, HandlerFields DEF CancelSettle, At, SoloInv
  <2>2. CanTransition(status[req[r].b], "CONFIRMED")
    BY <2>1 DEF SoloInv, HandlersRely, Relies
  <2>3. NoLegacyStatus' /\ LiveHasNanny' /\ AbstractStep
    BY <1>6, <2>1, <2>2, ConfirmOK DEF CancelSettle
  <2>4. HandlersRely'
    BY <1>6, <2>1, CancelRelies DEF CancelSettle, SoloInv
  <2> QED
    BY <2>3, <2>4
<1>7. CASE CancelReread(r)
  <2>1. CASE CancelAllowed(req[r].n, status[req[r].b])
    <3>1. req[r] \in Handler /\ req[r].op = "cancel"
      BY <1>7, BusyIsHandler, TypeParts DEF CancelReread, At, SoloInv
    <3>2. /\ req'[r].op = "cancel"
          /\ req'[r].pc = "write"
          /\ req'[r].n = req[r].n
          /\ req'[r].seen.status = status[req[r].b]
      BY <1>7, <2>1, <3>1 DEF CancelReread, Row, SoloInv, TypeOK, Handler
    <3>3. HandlersRely'
      BY <2>1, <3>2 DEF HandlersRely, Relies, CancelAllowed
    <3> QED
      BY <1>7, <3>3, RowsKept DEF CancelReread, UnchangedRows
  <2>2. CASE ~ CancelAllowed(req[r].n, status[req[r].b])
    BY <1>7, <2>2, IdleRelies, RowsKept DEF CancelReread, SoloInv, UnchangedRows
  <2> QED
    BY <2>1, <2>2
<1>8. CASE ReleaseWrite(r)
  <2>1. req[r].b \in Bookings /\ HandlersRely'
    BY <1>8, HandlerFields, IdleRelies DEF ReleaseWrite, At, SoloInv
  <2>2. CASE ReleaseGuard(req[r]) /\ nanny[req[r].b] # NoNanny
    <3>1. Abstract!GiveBack(req[r].b)
      BY <1>8, <2>2, SameStatuses DEF ReleaseWrite, ReleaseGuard, Releases, HolderAsSeen,
         Abstract!GiveBack
    <3>2. NoLegacyStatus' /\ LiveHasNanny'
      BY <1>8, <2>1, <2>2 DEF ReleaseWrite, SoloInv, TypeOK, NoLegacyStatus, LiveHasNanny,
         Abstract!LiveHasNanny
    <3> QED
      BY <2>1, <3>1, <3>2 DEF AbstractStep, Abstract!Next
  <2>3. CASE ReleaseGuard(req[r]) /\ nanny[req[r].b] = NoNanny
    <3>1. status[req[r].b] = "PENDING"
      BY <1>8, <2>1, <2>3 DEF ReleaseWrite, ReleaseGuard, Releases, HolderAsSeen, SoloInv,
         LiveHasNanny, Abstract!LiveHasNanny, UnpaidStatuses
    <3>2. status' = status
      <4>1. status' = [status EXCEPT ![req[r].b] = "PENDING"]
        BY <1>8, <2>3 DEF ReleaseWrite
      <4> QED
        BY <2>1, <3>1, <4>1 DEF SoloInv, TypeOK
    <3>3. nanny' = nanny
      BY <1>8, <2>1, <2>3 DEF ReleaseWrite, SoloInv, TypeOK
    <3>4. slot' = slot
      BY <1>8, <2>3 DEF ReleaseWrite
    <3> QED
      BY <2>1, <3>2, <3>3, <3>4, RowsKept
  <2>4. CASE ~ ReleaseGuard(req[r])
    BY <1>8, <2>1, <2>4, RowsKept DEF ReleaseWrite, UnchangedRows
  <2> QED
    BY <2>2, <2>3, <2>4
<1>9. CASE CancelWrite(r)
  <2>1. req[r].b \in Bookings /\ HandlersRely'
    BY <1>9, HandlerFields, IdleRelies DEF CancelWrite, At, SoloInv
  <2>2. CASE CancelGuard(req[r])
    <3>1. CanTransition(status[req[r].b], "CANCELLED")
      BY <1>9, <2>2 DEF CancelWrite, At, Releases, CancelGuard, SoloInv, HandlersRely,
         Relies, CancelAllowed
    <3> QED
      BY <1>9, <2>1, <2>2, <3>1, MoveOK DEF CancelWrite, Status
  <2>3. CASE ~ CancelGuard(req[r])
    BY <1>9, <2>1, <2>3, RowsKept DEF CancelWrite, UnchangedRows
  <2> QED
    BY <2>2, <2>3
<1> QED
  BY <1>1, <1>2, <1>3, <1>4, <1>5, <1>6, <1>7, <1>8, <1>9 DEF PartyStep

LEMMA ConsoleOK ==
  ASSUME NEW r, Requests = {r}, SoloInv, ConsoleStep(r)
  PROVE  StepOK
<1> USE DEF StepOK
<1>1. ASSUME NEW b \in Bookings, NEW t \in Status, OverrideAllowed(b, t),
             Begin(r, "console", "write", b, NoNanny, t), UnchangedRows
      PROVE  StepOK
  <2>1. Relies([op |-> "console", pc |-> "write", b |-> b, n |-> NoNanny,
                to |-> t, seen |-> Row(b)])
    BY <1>1 DEF Relies
  <2> QED
    BY <1>1, <2>1, BeginRelies, RowsKept DEF SoloInv, UnchangedRows
<1>2. ASSUME NEW b \in Bookings, ApproveRead(r, b) PROVE StepOK
  <2>1. OverrideAllowed(b, "APPROVED")
    BY <1>2 DEF ApproveRead, OverrideAllowed, CanTransition, NextStatuses
  <2> QED
    BY <1>1, <1>2, <2>1 DEF ApproveRead, Status
<1>3. ASSUME NEW b \in Bookings, RejectRead(r, b) PROVE StepOK
  BY <1>1, <1>3 DEF RejectRead, OverrideAllowed, Status
<1>4. ASSUME NEW b \in Bookings, NEW t \in Status, OverrideRead(r, b, t) PROVE StepOK
  BY <1>1, <1>4 DEF OverrideRead
<1>5. CASE ConsoleWrite(r)
  <2>1. req[r] # Idle /\ req[r].op = "console" /\ req[r].b \in Bookings /\ req[r].to \in Status
    BY <1>5, HandlerFields DEF ConsoleWrite, At, SoloInv
  <2>2. OverrideAllowed(req[r].b, req[r].to)
    BY <2>1 DEF SoloInv, HandlersRely, Relies
  <2>3. req[r].to # "CANCELLED" => nanny[req[r].b] # NoNanny
    BY <2>1, <2>2 DEF OverrideAllowed, CanTransition, NextStatuses, SoloInv, NoLegacyStatus,
       LiveHasNanny, Abstract!LiveHasNanny, Status
  <2>4. NoLegacyStatus' /\ LiveHasNanny' /\ AbstractStep
    BY <1>5, <2>1, <2>2, <2>3, MoveOK DEF ConsoleWrite, OverrideAllowed
  <2> QED
    BY <1>5, <2>1, <2>4, IdleRelies, SettleRelies DEF ConsoleWrite, SoloInv
<1>6. ASSUME NEW b \in Bookings, NEW n \in Nannies, AssignRead(r, b, n) PROVE StepOK
  <2>1. Relies([op |-> "assign", pc |-> "conflict", b |-> b, n |-> n,
                to |-> "APPROVED", seen |-> Row(b)])
    BY DEF Relies, Row
  <2> QED
    BY <1>6, <2>1, BeginRelies, RowsKept DEF AssignRead, SoloInv, UnchangedRows
<1>7. CASE AssignConflict(r)
  BY <1>7, ConflictRelies, IdleRelies, RowsKept DEF AssignConflict, At, SoloInv, UnchangedRows
<1>8. CASE AssignWrite(r)
  <2>1. /\ req[r].op = "assign" /\ req[r].pc = "write" /\ req[r] # Idle
        /\ req[r].b \in Bookings /\ req[r].n \in Nannies
    BY <1>8, HandlerFields DEF AssignWrite, At, SoloInv
  <2>2. HandlersRely'
    BY <1>8, IdleRelies DEF AssignWrite, SoloInv
  <2>3. CASE AssignGuard(req[r])
    <3>1. NoConflict(req[r].n, slot[req[r].b], req[r].b)
      BY <2>1 DEF SoloInv, HandlersRely, Relies
    <3>2. status[req[r].b] \in AssignableStatuses
      BY <2>1, <2>3 DEF SoloInv, AssignsWereAllowed, AssignGuard, HolderAsSeen
    <3>3. Abstract!Take(req[r].b, req[r].n)
      BY <1>8, <2>3, <3>1, <3>2, SameStatuses DEF AssignWrite, NoConflict, Abstract!Take,
         Abstract!Free
    <3>4. NoLegacyStatus' /\ LiveHasNanny'
      BY <1>8, <2>1, <2>3, <3>2, ConstantsAssumption DEF SoloInv, TypeOK, AssignWrite,
         NoLegacyStatus, LiveHasNanny, Abstract!LiveHasNanny
    <3> QED
      BY <2>1, <2>2, <3>3, <3>4 DEF AbstractStep, Abstract!Next
  <2>4. CASE ~ AssignGuard(req[r])
    BY <1>8, <2>2, <2>4, RowsKept DEF AssignWrite, UnchangedRows
  <2> QED
    BY <2>3, <2>4
<1>9. ASSUME NEW b \in Bookings, NEW s \in Slots, RescheduleRead(r, b, s) PROVE StepOK
  <2> DEFINE pc == IF nanny[b] = NoNanny THEN "write" ELSE "conflict"
  <2>1. Relies([op |-> "reschedule", pc |-> pc, b |-> b, n |-> nanny[b],
                to |-> s, seen |-> Row(b)])
    BY <1>9 DEF Relies, RescheduleRead
  <2>2. Begin(r, "reschedule", pc, b, nanny[b], s)
    BY <1>9 DEF RescheduleRead
  <2> HIDE DEF pc
  <2> QED
    BY <1>9, <2>1, <2>2, BeginRelies, RowsKept DEF RescheduleRead, SoloInv, UnchangedRows
<1>10. CASE RescheduleConflict(r)
  BY <1>10, ConflictRelies, IdleRelies, RowsKept DEF RescheduleConflict, At, SoloInv,
     UnchangedRows
<1>11. CASE RescheduleWrite(r)
  <2>1. /\ req[r].op = "reschedule" /\ req[r].pc = "write" /\ req[r] # Idle
        /\ req[r].b \in Bookings /\ req[r].to \in Slots
    BY <1>11, HandlerFields DEF RescheduleWrite, At, SoloInv
  <2>2. Relies(req[r])
    BY <2>1 DEF SoloInv, HandlersRely
  <2>3. NoLegacyStatus' /\ LiveHasNanny' /\ AbstractStep
    BY <1>11, <2>1, <2>2, SetSlotOK DEF RescheduleWrite, Relies
  <2> QED
    BY <1>11, <2>3, IdleRelies DEF RescheduleWrite, SoloInv
<1>12. ASSUME NEW b \in Bookings, NEW s \in Slots, EditRead(r, b, s) PROVE StepOK
  <2> DEFINE pc == IF nanny[b] = NoNanny THEN "write" ELSE "conflict"
  <2>1. Relies([op |-> "edit", pc |-> pc, b |-> b, n |-> nanny[b],
                to |-> s, seen |-> Row(b)])
    BY <1>12 DEF Relies, EditRead, EditableStatuses, LockedStatuses
  <2>2. Begin(r, "edit", pc, b, nanny[b], s)
    BY <1>12 DEF EditRead
  <2> HIDE DEF pc
  <2> QED
    BY <1>12, <2>1, <2>2, BeginRelies, RowsKept DEF EditRead, SoloInv, UnchangedRows
<1>13. CASE EditWrite(r)
  <2>1. /\ req[r].op = "edit" /\ req[r].pc = "write" /\ req[r] # Idle
        /\ req[r].b \in Bookings /\ req[r].to \in Slots
    BY <1>13, HandlerFields DEF EditWrite, At, SoloInv
  <2>2. Relies(req[r])
    BY <2>1 DEF SoloInv, HandlersRely
  <2>3. NoLegacyStatus' /\ LiveHasNanny' /\ AbstractStep
    BY <1>13, <2>1, <2>2, SetSlotOK, RowsKept DEF EditWrite, Relies, UnchangedRows
  <2> QED
    BY <1>13, <2>3, IdleRelies DEF EditWrite, SoloInv
<1> QED
  BY <1>2, <1>3, <1>4, <1>5, <1>6, <1>7, <1>8, <1>9, <1>10, <1>11, <1>12, <1>13
  DEF ConsoleStep

LEMMA PaymentOK ==
  ASSUME NEW r, Requests = {r}, SoloInv, PaymentStep(r)
  PROVE  StepOK
<1> USE DEF StepOK
<1>1. ASSUME NEW b \in Bookings, CaptureRead(r, b) PROVE StepOK
  <2>1. Relies([op |-> "capture", pc |-> "write", b |-> b, n |-> NoNanny,
                to |-> "CONFIRMED", seen |-> Row(b)])
    BY <1>1 DEF Relies, CaptureRead
  <2> QED
    BY <1>1, <2>1, BeginRelies, RowsKept DEF CaptureRead, SoloInv, UnchangedRows
<1>3. CASE CaptureWrite(r)
  <2>1. req[r] # Idle /\ req[r].op = "capture" /\ req[r].b \in Bookings
    BY <1>3, HandlerFields DEF CaptureWrite, At, SoloInv
  <2>2. CanTransition(status[req[r].b], "CONFIRMED")
    BY <2>1 DEF SoloInv, HandlersRely, Relies
  <2> QED
    BY <1>3, <2>1, <2>2, ConfirmOK, IdleRelies DEF CaptureWrite, SoloInv
<1>4. ASSUME NEW b \in Bookings, SettleRequest(r, b) PROVE StepOK
  <2>1. Relies([op |-> "settle", pc |-> "write", b |-> b, n |-> NoNanny,
                to |-> "CONFIRMED", seen |-> Row(b)])
    BY DEF Relies
  <2> QED
    BY <1>4, <2>1, BeginRelies, RowsKept DEF SettleRequest, SoloInv, UnchangedRows
<1>5. CASE SettleRead(r)
  BY <1>5, SettlementRelies, IdleRelies, RowsKept DEF SettleRead, At, SoloInv, UnchangedRows
<1>6. CASE SettleWrite(r)
  <2>1. req[r].b \in Bookings
    BY <1>6, HandlerFields DEF SettleWrite, At, SoloInv
  <2> QED
    BY <1>6, <2>1, ConfirmOK, IdleRelies, RowsKept DEF SettleWrite, SoloInv, UnchangedRows
<1>7. ASSUME NEW b \in Bookings, RedeemPoints(r, b) PROVE StepOK
  <2>1. req'[r].op = "settle"
    BY <1>7 DEF RedeemPoints, Begin, SoloInv, TypeOK
  <2>2. HandlersRely'
    BY <2>1 DEF HandlersRely, Relies
  <2> QED
    BY <1>7, <2>2, RowsKept DEF RedeemPoints
<1> QED
  BY <1>1, <1>3, <1>4, <1>5, <1>6, <1>7 DEF PaymentStep

LEMMA ShiftOK ==
  ASSUME NEW r, Requests = {r}, SoloInv, ShiftStep(r)
  PROVE  StepOK
<1> USE DEF StepOK
<1>1. ASSUME NEW b \in Bookings, PinRead(r, b) PROVE StepOK
  <2>1. Relies([op |-> "pin", pc |-> "write", b |-> b, n |-> NoNanny,
                to |-> "CONFIRMED", seen |-> Row(b)])
    BY DEF Relies
  <2> QED
    BY <1>1, <2>1, BeginRelies, RowsKept DEF PinRead, SoloInv, UnchangedRows
<1>2. CASE PinWrite(r)
  BY <1>2, IdleRelies, RowsKept DEF PinWrite, SoloInv
<1>3. ASSUME NEW b \in Bookings, CheckInRead(r, b) PROVE StepOK
  <2>1. Relies([op |-> "checkin", pc |-> "write", b |-> b, n |-> nanny[b],
                to |-> "IN_PROGRESS", seen |-> Row(b)])
    BY <1>3 DEF Relies, CheckInRead
  <2> QED
    BY <1>3, <2>1, BeginRelies, RowsKept DEF CheckInRead, SoloInv, UnchangedRows
<1>4. CASE CheckInWrite(r)
  <2>1. req[r] # Idle /\ req[r].op = "checkin" /\ req[r].b \in Bookings
    BY <1>4, HandlerFields DEF CheckInWrite, At, SoloInv
  <2>2. status[req[r].b] = "CONFIRMED"
    BY <2>1 DEF SoloInv, HandlersRely, Relies
  <2>3. nanny[req[r].b] # NoNanny
    BY <2>1, <2>2 DEF SoloInv, LiveHasNanny, Abstract!LiveHasNanny
  <2>4. Abstract!Move(req[r].b, "IN_PROGRESS")
    BY <1>4, <2>2, <2>3, SameStatuses DEF CheckInWrite, Abstract!Move, CanTransition,
       NextStatuses
  <2>5. NoLegacyStatus' /\ LiveHasNanny'
    BY <1>4, <2>1, <2>3 DEF CheckInWrite, SoloInv, TypeOK, NoLegacyStatus, LiveHasNanny,
       Abstract!LiveHasNanny
  <2>6. HandlersRely'
    BY <1>4, IdleRelies DEF CheckInWrite, SoloInv
  <2> QED
    BY <2>1, <2>4, <2>5, <2>6, SameStatuses DEF AbstractStep, Abstract!Next, Status
<1>5. ASSUME NEW b \in Bookings, CompleteRead(r, b) PROVE StepOK
  <2>1. Relies([op |-> "complete", pc |-> "write", b |-> b, n |-> NoNanny,
                to |-> "COMPLETED", seen |-> Row(b)])
    BY <1>5 DEF Relies, CompleteRead
  <2> QED
    BY <1>5, <2>1, BeginRelies, RowsKept DEF CompleteRead, SoloInv, UnchangedRows
<1>6. CASE CompleteWrite(r)
  <2>1. req[r] # Idle /\ req[r].op = "complete" /\ req[r].b \in Bookings
    BY <1>6, HandlerFields DEF CompleteWrite, At, SoloInv
  <2>2. status[req[r].b] = "IN_PROGRESS"
    BY <2>1 DEF SoloInv, HandlersRely, Relies
  <2>3. nanny[req[r].b] # NoNanny
    BY <2>1, <2>2 DEF SoloInv, LiveHasNanny, Abstract!LiveHasNanny
  <2>4. NoLegacyStatus' /\ LiveHasNanny' /\ AbstractStep
    BY <1>6, <2>1, <2>2, <2>3, MoveOK DEF CompleteWrite, CanTransition, NextStatuses, Status
  <2> QED
    BY <1>6, <2>4, IdleRelies DEF CompleteWrite, SoloInv
<1> QED
  BY <1>1, <1>2, <1>3, <1>4, <1>5, <1>6 DEF ShiftStep

\* What happens without a request: a cancelled booking is settled, a checkout
\* opens, credits come off, a PIN lapses.
LEMMA BackgroundOK ==
  ASSUME SoloInv, NEW b \in Bookings,
         MarkRefunded(b) \/ OpenCheckout(b) \/ ReturnCredits(b) \/ PinLapses(b)
  PROVE  StepOK
<1> USE DEF StepOK
<1>1. CASE MarkRefunded(b)
  <2>1. Abstract!Refund(b)
    BY <1>1 DEF MarkRefunded, SetStatus, Abstract!Refund
  <2>2. NoLegacyStatus' /\ LiveHasNanny'
    BY <1>1 DEF MarkRefunded, SetStatus, SoloInv, TypeOK, NoLegacyStatus, LiveHasNanny,
       Abstract!LiveHasNanny
  <2>3. ASSUME NEW r \in Requests, req[r] # Idle PROVE Relies(req[r])'
    <3>1. req[r].b \in Bookings /\ Relies(req[r]) /\ req' = req
      BY <1>1, <2>3, HandlerFields DEF MarkRefunded, SoloInv, HandlersRely
    <3>2. req[r].b = b => /\ req[r].op \notin {"console", "capture", "reschedule"}
                          /\ req[r].op \notin {"edit", "checkin", "complete"}
                          /\ ~ (req[r].op = "cancel" /\ req[r].pc = "settle")
      BY <1>1, <3>1 DEF MarkRefunded, Relies, OverrideAllowed, CanTransition, NextStatuses,
         LockedStatuses
    <3>3. req[r].b # b => status'[req[r].b] = status[req[r].b]
      BY <1>1, <3>1 DEF MarkRefunded, SetStatus, SoloInv, TypeOK
    <3>4. \A n, s, c : NoConflict(n, s, c) => NoConflict(n, s, c)'
      BY <1>1 DEF MarkRefunded, SetStatus, SoloInv, TypeOK, NoConflict, FreedStatuses
    <3>5. nanny' = nanny /\ slot' = slot
      BY <1>1 DEF MarkRefunded, SetStatus
    <3>6. OverrideAllowed(req[r].b, req[r].to) /\ req[r].b # b
            => OverrideAllowed(req[r].b, req[r].to)'
      BY <3>1, <3>3, <3>5 DEF OverrideAllowed
    <3> QED
      BY <3>1, <3>2, <3>3, <3>4, <3>5, <3>6 DEF Relies, CancelAllowed
  <2>4. HandlersRely'
    BY <1>1, <2>3 DEF MarkRefunded, HandlersRely
  <2> QED
    BY <2>1, <2>2, <2>4 DEF AbstractStep, Abstract!Next
<1>2. CASE OpenCheckout(b) \/ ReturnCredits(b) \/ PinLapses(b)
  <2>1. HandlersRely'
    BY <1>2 DEF OpenCheckout, ReturnCredits, PinLapses, SoloInv, HandlersRely, Relies, NoConflict, CancelAllowed,
       OverrideAllowed
  <2> QED
    BY <1>2, <2>1, RowsKept DEF OpenCheckout, ReturnCredits, PinLapses
<1> QED
  BY <1>1, <1>2

-----------------------------------------------------------------------------
(* The theorems. *)

LEMMA SoloInvariant ==
  ASSUME NEW r, Requests = {r}
  PROVE  Spec => []SoloInv
<1>1. Init => SoloInv
  <2> SUFFICES ASSUME Init PROVE SoloInv
    OBVIOUS
  <2>1. TypeOK
    BY DEF Init, TypeOK, Status
  <2> QED
    BY <2>1 DEF Init, SoloInv, AssignsWereAllowed, HandlersRely, NoLegacyStatus,
       LiveHasNanny, Abstract!LiveHasNanny
<1>2. SoloInv /\ TypeOK' /\ [Next]_vars => SoloInv'
  <2> SUFFICES ASSUME SoloInv, TypeOK', [Next]_vars PROVE SoloInv'
    OBVIOUS
  <2>1. AssignsWereAllowed'
    BY AssignsStayAllowed DEF SoloInv
  <2>2. CASE UNCHANGED vars
    BY <2>1, <2>2 DEF SoloInv, vars, HandlersRely, Relies, NoConflict, CancelAllowed,
       OverrideAllowed, NoLegacyStatus, LiveHasNanny, Abstract!LiveHasNanny
  <2>3. CASE Next
    BY <2>1, <2>3, PartyOK, ConsoleOK, PaymentOK, ShiftOK, BackgroundOK
    DEF Next, SoloInv, StepOK
  <2> QED
    BY <2>2, <2>3
<1> QED
  BY <1>1, <1>2, LifecycleTypes, PTL DEF Spec

\* Requests that do not overlap implement the abstract life of a booking: every
\* handler's checks and its write take effect as one step of it, and its other
\* steps are stutters.
THEOREM SoloRefinement ==
  ASSUME NEW r, Requests = {r}
  PROVE  Spec => ImplementsAbstract
<1>1. Init => Abstract!Init
  BY SameStatuses DEF Init, Abstract!Init, Abstract!Free
<1>2. SoloInv /\ [Next]_vars => [Abstract!Next]_(Abstract!vars)
  <2> SUFFICES ASSUME SoloInv, [Next]_vars PROVE AbstractStep
    BY DEF AbstractStep
  <2>1. CASE UNCHANGED vars
    BY <2>1 DEF vars, AbstractStep, Abstract!vars
  <2>2. CASE Next
    BY <2>2, PartyOK, ConsoleOK, PaymentOK, ShiftOK, BackgroundOK DEF Next, StepOK
  <2> QED
    BY <2>1, <2>2
<1> QED
  BY <1>1, <1>2, SoloInvariant, PTL DEF Spec, ImplementsAbstract, Abstract!Spec

\* Without overlapping requests every payable, paid, running or finished
\* booking has a nanny.
THEOREM SoloLiveHasNanny ==
  ASSUME NEW r, Requests = {r}
  PROVE  Spec => []LiveHasNanny
<1>1. SoloInv => LiveHasNanny
  BY DEF SoloInv
<1> QED
  BY <1>1, SoloInvariant, PTL

\* Without overlapping requests no nanny is ever on two live bookings at one
\* time: the abstract life has the property, and the handlers implement it.
THEOREM SoloNeverDoubleBooks ==
  ASSUME NEW r, Requests = {r}
  PROVE  Spec => []NoDoubleBooking
<1>1. Abstract!NoDoubleBooking => NoDoubleBooking
  BY DEF NoDoubleBooking
<1> QED
  BY <1>1, AbstractNeverDoubleBooks, SoloRefinement, PTL DEF ImplementsAbstract
=============================================================================
