------------------------- MODULE TattooHold_proofs -------------------------
(***************************************************************************)
(* What TattooHold guarantees for every number of requests, bookings and   *)
(* handlers in flight, every set of slots and every choice of operations.  *)
(***************************************************************************)
EXTENDS TattooHold, TLAPS

-----------------------------------------------------------------------------
(* Rows stay rows. *)

\* The SET clauses of writes.ts turn a request row into a request row.
LEMMA RequestRowTypes ==
    /\ UnusedRequest \in RequestRows
    /\ CreatedRow \in RequestRows
    /\ DeletedRow \in RequestRows
    /\ \A row \in RequestRows :
          /\ \A st \in Decisions \cup {"none"}, s \in Slots \cup {NoSlot} :
                Decided(row, st, s) \in RequestRows
          /\ \A b \in Bookings \cup {NoBooking} : Accepted(row, b) \in RequestRows
          /\ Submitted(row) \in RequestRows
          /\ Expired(row) \in RequestRows
          /\ Booked(row) \in RequestRows
          /\ SentBack(row) \in RequestRows
          /\ Dropped(row) \in RequestRows
          /\ \A s \in Slots \cup {NoSlot} : [row EXCEPT !.slot = s] \in RequestRows
          /\ [row EXCEPT !.hold = "lapsed"] \in RequestRows
<1> USE DEF RequestRows, Statuses, PayStatuses
<1>1. /\ UnusedRequest \in RequestRows
      /\ CreatedRow \in RequestRows
      /\ DeletedRow \in RequestRows
  BY DEF UnusedRequest, CreatedRow, DeletedRow
<1>2. ASSUME NEW row \in RequestRows
      PROVE  /\ \A st \in Decisions \cup {"none"}, s \in Slots \cup {NoSlot} :
                   Decided(row, st, s) \in RequestRows
             /\ \A b \in Bookings \cup {NoBooking} : Accepted(row, b) \in RequestRows
  BY <1>2 DEF Decided, Decisions, Accepted
<1>3. ASSUME NEW row \in RequestRows
      PROVE  /\ Submitted(row) \in RequestRows
             /\ Expired(row) \in RequestRows
             /\ Booked(row) \in RequestRows
             /\ SentBack(row) \in RequestRows
             /\ Dropped(row) \in RequestRows
  BY <1>3 DEF Submitted, Expired, Booked, SentBack, Dropped
<1>4. ASSUME NEW row \in RequestRows
      PROVE  /\ \A s \in Slots \cup {NoSlot} : [row EXCEPT !.slot = s] \in RequestRows
             /\ [row EXCEPT !.hold = "lapsed"] \in RequestRows
  BY <1>4
<1> QED
  BY <1>1, <1>2, <1>3, <1>4

\* The INSERT and UPDATE clauses of the calendar keep booking rows.
LEMMA BookingRowTypes ==
    /\ UnusedBooking \in BookingRows
    /\ \A row \in BookingRows :
          /\ \A st \in BookingStatuses : [row EXCEPT !.status = st] \in BookingRows
          /\ \A st \in BookingStatuses :
                [row EXCEPT !.status = st, !.byHand = TRUE] \in BookingRows
          /\ \A s \in Slots \cup {NoSlot} : [row EXCEPT !.slot = s] \in BookingRows
          /\ ConfirmedBooking(row) \in BookingRows
    /\ \A owner \in Requests \cup {NoRequest}, s \in Slots \cup {NoSlot},
          st \in BookingStatuses : NewBooking(owner, s, st) \in BookingRows
BY DEF BookingRows, BookingStatuses, UnusedBooking, ConfirmedBooking, NewBooking

\* What a handler remembers between two statements.
LEMMA WorkerRowTypes ==
    /\ IdleWorker \in WorkerRows
    /\ \A pc \in Steps, r \in Requests \cup {NoRequest}, b \in Bookings \cup {NoBooking},
          s \in Slots \cup {NoSlot}, st \in Decisions \cup {"none"} :
          Local(pc, r, b, s, st) \in WorkerRows
    /\ \A row \in WorkerRows, pc \in Steps : [row EXCEPT !.pc = pc] \in WorkerRows
    /\ \A row \in WorkerRows, pc \in Steps, b \in Bookings :
          [row EXCEPT !.pc = pc, !.b = b] \in WorkerRows
    /\ \A scope \in SUBSET Requests :
          [IdleWorker EXCEPT !.pc = "sweepExpire", !.scope = scope] \in WorkerRows
<1>1. IdleWorker \in WorkerRows
  BY DEF WorkerRows, IdleWorker, Steps
<1>2. ASSUME NEW pc \in Steps, NEW r \in Requests \cup {NoRequest},
             NEW b \in Bookings \cup {NoBooking}, NEW s \in Slots \cup {NoSlot},
             NEW st \in Decisions \cup {"none"}
      PROVE  Local(pc, r, b, s, st) \in WorkerRows
  BY <1>2 DEF WorkerRows, Local
<1>3. ASSUME NEW row \in WorkerRows, NEW pc \in Steps
      PROVE  /\ [row EXCEPT !.pc = pc] \in WorkerRows
             /\ \A b \in Bookings : [row EXCEPT !.pc = pc, !.b = b] \in WorkerRows
  BY <1>3 DEF WorkerRows
<1>4. \A scope \in SUBSET Requests :
         [IdleWorker EXCEPT !.pc = "sweepExpire", !.scope = scope] \in WorkerRows
  BY <1>1 DEF WorkerRows, Steps
<1> QED
  BY <1>1, <1>2, <1>3, <1>4

LEMMA UpdateRequestType ==
    ASSUME TypeOK, NEW r, NEW guard, NEW row,
           r \in Requests => row \in RequestRows, UpdateRequest(r, guard, row)
    PROVE  req' \in [Requests -> RequestRows]
BY DEF TypeOK, UpdateRequest

LEMMA WriteBookingType ==
    ASSUME TypeOK, NEW b, NEW row, b \in Bookings => row \in BookingRows,
           bk' = [bk EXCEPT ![b] = row]
    PROVE  bk' \in [Bookings -> BookingRows]
BY DEF TypeOK

LEMMA CancelRequestedType ==
    ASSUME TypeOK, NEW B, CancelRequested(B)
    PROVE  bk' \in [Bookings -> BookingRows]
BY BookingRowTypes DEF TypeOK, CancelRequested, BookingStatuses

LEMMA BecomeType ==
    ASSUME TypeOK, NEW w \in Workers, NEW row \in WorkerRows, Become(w, row)
    PROVE  worker' \in [Workers -> WorkerRows]
BY DEF TypeOK, Become

LEMMA GotoType ==
    ASSUME TypeOK, NEW w \in Workers, NEW pc \in Steps, Goto(w, pc)
    PROVE  worker' \in [Workers -> WorkerRows]
BY BecomeType, WorkerRowTypes DEF TypeOK, Goto

LEMMA DoneType ==
    ASSUME TypeOK, NEW w \in Workers, Done(w)
    PROVE  worker' \in [Workers -> WorkerRows]
BY BecomeType, WorkerRowTypes DEF Done

\* The fields of a row, for the steps that read them.
LEMMA Fields ==
    ASSUME TypeOK
    PROVE  /\ \A r \in Requests :
                 /\ req[r] \in RequestRows
                 /\ req[r].booking \in Bookings \cup {NoBooking}
                 /\ req[r].slot \in Slots \cup {NoSlot}
           /\ \A b \in Bookings :
                 /\ bk[b] \in BookingRows
                 /\ bk[b].slot \in Slots \cup {NoSlot}
           /\ \A w \in Workers :
                 /\ worker[w] \in WorkerRows
                 /\ worker[w].r \in Requests \cup {NoRequest}
                 /\ worker[w].b \in Bookings \cup {NoBooking}
                 /\ worker[w].s \in Slots \cup {NoSlot}
                 /\ worker[w].st \in Decisions \cup {"none"}
BY DEF TypeOK, RequestRows, BookingRows, WorkerRows

-----------------------------------------------------------------------------
(* Type correctness *)

LEMMA TypeInit == Init => TypeOK
<1> SUFFICES ASSUME Init PROVE TypeOK
  OBVIOUS
<1>1. req \in [Requests -> RequestRows]
  BY RequestRowTypes DEF Init
<1>2. bk \in [Bookings -> BookingRows]
  BY BookingRowTypes DEF Init
<1>3. deposits \in [Requests -> Nat]
  BY DEF Init
<1>4. worker \in [Workers -> WorkerRows]
  BY WorkerRowTypes DEF Init
<1> QED
  BY <1>1, <1>2, <1>3, <1>4 DEF TypeOK

\* The first statement of a handler.
LEMMA TypeArrive ==
    ASSUME TypeOK, NEW w \in Workers, Arrive(w)
    PROVE  TypeOK'
<1> USE Fields
<1>1. CASE \E r \in Requests : CreateRequest(w, r)
  BY <1>1, RequestRowTypes DEF CreateRequest, TypeOK
<1>2. CASE \E r \in Requests, st \in Decisions, s \in Slots \cup {NoSlot} :
             DecideRead(w, r, st, s)
  BY <1>2, BecomeType, WorkerRowTypes DEF DecideRead, AfterChecks, Steps, TypeOK
<1>3. CASE \E r \in Requests : AcceptRead(w, r)
  BY <1>3, BecomeType, WorkerRowTypes DEF AcceptRead, Steps, TypeOK
<1>4. CASE \E r \in Requests : SubmitRead(w, r)
  BY <1>4, BecomeType, WorkerRowTypes DEF SubmitRead, Steps, TypeOK
<1>5. CASE \E r \in Requests, approved \in BOOLEAN : ReceiptRead(w, r, approved)
  BY <1>5, BecomeType, WorkerRowTypes DEF ReceiptRead, Steps, TypeOK
<1>6. CASE \E r \in Requests : DeleteRead(w, r)
  BY <1>6, BecomeType, WorkerRowTypes DEF DeleteRead, Steps, TypeOK
<1>7. CASE \E r \in Requests : CancelJobRead(w, r)
  BY <1>7, BecomeType, WorkerRowTypes DEF CancelJobRead, Steps, TypeOK
<1>8. CASE \E scope \in (SUBSET Requests) \ {{}} : SweepCancel(w, scope)
  BY <1>8, BecomeType, WorkerRowTypes, CancelRequestedType DEF SweepCancel, TypeOK
<1>9. CASE \E b \in Bookings, s \in Slots, st \in {"requested", "confirmed"} :
             WalkIn(w, b, s, st)
  <2>1. PICK b \in Bookings, s \in Slots, st \in {"requested", "confirmed"} :
           WalkIn(w, b, s, st)
    BY <1>9
  <2>2. NewBooking(NoRequest, s, st) \in BookingRows
    BY BookingRowTypes DEF BookingStatuses
  <2> QED
    BY <2>1, <2>2, WriteBookingType DEF WalkIn, TypeOK
<1>10. CASE \E b \in Bookings, st \in BookingStatuses : SetBookingStatus(w, b, st)
  <2>1. PICK b \in Bookings, st \in BookingStatuses : SetBookingStatus(w, b, st)
    BY <1>10
  <2>2. [bk[b] EXCEPT !.status = st, !.byHand = TRUE] \in BookingRows
    BY BookingRowTypes
  <2> QED
    BY <2>1, <2>2, WriteBookingType DEF SetBookingStatus, TypeOK
<1>11. CASE \E b \in Bookings, s \in Slots : RescheduleRead(w, b, s)
  BY <1>11, BecomeType, WorkerRowTypes DEF RescheduleRead, Steps, TypeOK
<1> QED
  BY <1>1, <1>2, <1>3, <1>4, <1>5, <1>6, <1>7, <1>8, <1>9, <1>10, <1>11 DEF Arrive

\* The statements after it.
LEMMA TypeContinue ==
    ASSUME TypeOK, NEW w \in Workers, Continue(w)
    PROVE  TypeOK'
<1> USE Fields, DoneType, GotoType DEF Steps
<1>1. CASE DecideOverlap(w)
  BY <1>1 DEF DecideOverlap, TypeOK
<1>2. CASE DecidePending(w)
  BY <1>2 DEF DecidePending, AfterChecks, TypeOK
<1>3. CASE DecideCancel(w)
  BY <1>3, CancelRequestedType DEF DecideCancel, TypeOK
<1>4. CASE DecideWrite(w)
  BY <1>4, UpdateRequestType, RequestRowTypes DEF DecideWrite, TypeOK
<1>5. CASE AcceptOverlap(w)
  BY <1>5 DEF AcceptOverlap, TypeOK
<1>6. CASE \E b \in Bookings : AcceptInsert(w, b)
  <2>1. PICK b \in Bookings : AcceptInsert(w, b)
    BY <1>6
  <2>2. NewBooking(worker[w].r, worker[w].s, "requested") \in BookingRows
    BY BookingRowTypes DEF BookingStatuses
  <2>3. bk' \in [Bookings -> BookingRows]
    BY <2>1, <2>2, WriteBookingType DEF AcceptInsert
  <2>4. worker' \in [Workers -> WorkerRows]
    BY <2>1, BecomeType, WorkerRowTypes DEF AcceptInsert
  <2> QED
    BY <2>1, <2>3, <2>4 DEF AcceptInsert, TypeOK
<1>7. CASE AcceptRefused(w)
  BY <1>7 DEF AcceptRefused, TypeOK
<1>8. CASE AcceptWrite(w)
  BY <1>8, UpdateRequestType, RequestRowTypes DEF AcceptWrite, TypeOK
<1>9. CASE SubmitWrite(w)
  BY <1>9, UpdateRequestType, RequestRowTypes DEF SubmitWrite, TypeOK
<1>10. CASE SubmitCancel(w)
  BY <1>10, CancelRequestedType DEF SubmitCancel, TypeOK
<1>11. CASE SubmitExpire(w)
  BY <1>11, UpdateRequestType, RequestRowTypes DEF SubmitExpire, TypeOK
<1>12. CASE ReceiptPlan(w)
  BY <1>12 DEF ReceiptPlan, TypeOK
<1>13. CASE ReceiptPay(w)
  BY <1>13 DEF ReceiptPay, TypeOK
<1>14. CASE ReceiptBook(w)
  BY <1>14, UpdateRequestType, RequestRowTypes DEF ReceiptBook, TypeOK
<1>15. CASE ReceiptConfirm(w)
  BY <1>15, BookingRowTypes DEF ReceiptConfirm, TypeOK
<1>16. CASE ReceiptReject(w)
  BY <1>16, UpdateRequestType, RequestRowTypes DEF ReceiptReject, TypeOK
<1>17. CASE SweepExpire(w)
  BY <1>17, RequestRowTypes DEF SweepExpire, TypeOK
<1>18. CASE DeleteCancel(w)
  BY <1>18, CancelRequestedType DEF DeleteCancel, TypeOK
<1>19. CASE DeleteRow(w)
  BY <1>19, UpdateRequestType, RequestRowTypes DEF DeleteRow, TypeOK
<1>20. CASE JobCancel(w)
  BY <1>20, BookingRowTypes DEF JobCancel, BookingStatuses, TypeOK
<1>21. CASE JobWrite(w)
  BY <1>21, UpdateRequestType, RequestRowTypes DEF JobWrite, TypeOK
<1>22. CASE RescheduleMove(w)
  <2>1. CASE Live(worker[w].b) => TriggerAllows(worker[w].b, worker[w].s)
    <3>1. worker[w].b \in Bookings =>
             [bk[worker[w].b] EXCEPT !.slot = worker[w].s] \in BookingRows
      BY BookingRowTypes
    <3>2. bk' = [bk EXCEPT ![worker[w].b] = [bk[worker[w].b] EXCEPT !.slot = worker[w].s]]
      BY <1>22, <2>1 DEF RescheduleMove, TypeOK
    <3> QED
      BY <1>22, <2>1, <3>1, <3>2, WriteBookingType DEF RescheduleMove, TypeOK
  <2>2. CASE ~(Live(worker[w].b) => TriggerAllows(worker[w].b, worker[w].s))
    BY <1>22, <2>2 DEF RescheduleMove, TypeOK
  <2> QED
    BY <2>1, <2>2
<1>23. CASE RescheduleSync(w)
  BY <1>23, RequestRowTypes DEF RescheduleSync, TypeOK
<1> QED
  BY <1>1, <1>2, <1>3, <1>4, <1>5, <1>6, <1>7, <1>8, <1>9, <1>10, <1>11, <1>12,
     <1>13, <1>14, <1>15, <1>16, <1>17, <1>18, <1>19, <1>20, <1>21, <1>22, <1>23
     DEF Continue

LEMMA TypeStep == TypeOK /\ [Next]_vars => TypeOK'
<1> SUFFICES ASSUME TypeOK, [Next]_vars PROVE TypeOK'
  OBVIOUS
<1>1. CASE UNCHANGED vars
  BY <1>1 DEF vars, TypeOK
<1>2. CASE \E w \in Workers : Arrive(w)
  BY <1>2, TypeArrive
<1>3. CASE \E w \in Workers : Continue(w)
  BY <1>3, TypeContinue
<1>4. CASE \E w \in Workers : Abort(w)
  BY <1>4, DoneType DEF Abort, TypeOK
<1>5. CASE \E r \in Requests : Lapse(r)
  BY <1>5, Fields, RequestRowTypes DEF Lapse, TypeOK
<1> QED
  BY <1>1, <1>2, <1>3, <1>4, <1>5 DEF Next

\* Whatever the handlers do, every row, and what every handler remembers, keeps
\* its shape: the payment and booking statuses stay those the schema knows.
THEOREM TypeCorrect == Spec => []TypeOK
BY TypeInit, TypeStep, PTL DEF Spec

-----------------------------------------------------------------------------
(* The calendar *)

\* A step that locks nothing: live bookings may only end.
Frees ==
    \A b \in Bookings : Live(b)' => Live(b) /\ bk'[b].slot = bk[b].slot

\* A step that writes one booking, which the trigger has let through.
Takes(b) ==
    /\ \A c \in Bookings \ {b} : bk'[c] = bk[c]
    /\ Live(b)' => TriggerAllows(b, bk'[b].slot)

LEMMA CancelRequestedFrees ==
    ASSUME TypeOK, NEW B, CancelRequested(B)
    PROVE  Frees
BY DEF TypeOK, CancelRequested, Frees, Live, BookingRows

LEMMA UnchangedFrees == bk' = bk => Frees
BY DEF Frees, Live

\* Every statement of every handler only ends live bookings, or writes one
\* booking under the trigger.
LEMMA CalendarStep == TypeOK /\ [Next]_vars => Frees \/ \E b \in Bookings : Takes(b)
<1> SUFFICES ASSUME TypeOK, [Next]_vars
             PROVE  Frees \/ \E b \in Bookings : Takes(b)
  OBVIOUS
<1> USE UnchangedFrees, CancelRequestedFrees
<1>1. CASE UNCHANGED vars
  BY <1>1 DEF vars
<1>2. ASSUME NEW w \in Workers, Arrive(w)
      PROVE  Frees \/ \E b \in Bookings : Takes(b)
  <2>1. CASE \E scope \in (SUBSET Requests) \ {{}} : SweepCancel(w, scope)
    BY <2>1 DEF SweepCancel
  <2>2. CASE \E b \in Bookings, s \in Slots, st \in {"requested", "confirmed"} :
                WalkIn(w, b, s, st)
    <3>1. PICK b \in Bookings, s \in Slots, st \in {"requested", "confirmed"} :
             WalkIn(w, b, s, st)
      BY <2>2
    <3>2. bk'[b] = NewBooking(NoRequest, s, st)
      BY <3>1 DEF WalkIn, TypeOK
    <3>3. Takes(b)
      BY <3>1, <3>2 DEF WalkIn, Takes, NewBooking, TypeOK
    <3> QED
      BY <3>3
  <2>3. CASE \E b \in Bookings, st \in BookingStatuses : SetBookingStatus(w, b, st)
    <3>1. PICK b \in Bookings, st \in BookingStatuses : SetBookingStatus(w, b, st)
      BY <2>3
    <3>2. bk'[b].status = st /\ bk'[b].slot = bk[b].slot
      BY <3>1 DEF SetBookingStatus, TypeOK, BookingRows
    <3>3. Takes(b)
      BY <3>1, <3>2 DEF SetBookingStatus, Takes, Live, TypeOK
    <3> QED
      BY <3>3
  <2>4. CASE bk' = bk
    BY <2>4
  <2> QED
    BY <1>2, <2>1, <2>2, <2>3, <2>4
       DEF Arrive, CreateRequest, DecideRead, AcceptRead, SubmitRead, ReceiptRead,
           DeleteRead, CancelJobRead, RescheduleRead
<1>3. ASSUME NEW w \in Workers, Continue(w)
      PROVE  Frees \/ \E b \in Bookings : Takes(b)
  <2>1. CASE DecideCancel(w) \/ SubmitCancel(w) \/ DeleteCancel(w)
    BY <2>1 DEF DecideCancel, SubmitCancel, DeleteCancel
  <2>2. CASE JobCancel(w)
    BY <2>2 DEF JobCancel, Frees, Live, TypeOK, BookingRows
  <2>3. CASE \E b \in Bookings : AcceptInsert(w, b)
    <3>1. PICK b \in Bookings : AcceptInsert(w, b)
      BY <2>3
    <3>2. bk'[b] = NewBooking(worker[w].r, worker[w].s, "requested")
      BY <3>1 DEF AcceptInsert, TypeOK
    <3>3. Takes(b)
      BY <3>1, <3>2 DEF AcceptInsert, Takes, NewBooking, TypeOK
    <3> QED
      BY <3>3
  <2>4. CASE ReceiptConfirm(w)
    <3> DEFINE b == worker[w].b
    <3>1. CASE b \notin Bookings
      BY <2>4, <3>1 DEF ReceiptConfirm, TypeOK
    <3>2. CASE b \in Bookings /\ TriggerAllows(b, bk[b].slot)
      <4>1. bk'[b].slot = bk[b].slot /\ \A c \in Bookings \ {b} : bk'[c] = bk[c]
        BY <2>4, <3>2 DEF ReceiptConfirm, ConfirmedBooking, TypeOK, BookingRows
      <4> QED
        BY <3>2, <4>1 DEF Takes
    <3>3. CASE ~TriggerAllows(b, bk[b].slot)
      BY <2>4, <3>3 DEF ReceiptConfirm
    <3> QED
      BY <3>1, <3>2, <3>3
  <2>5. CASE RescheduleMove(w)
    <3> DEFINE b == worker[w].b
               s == worker[w].s
    <3>1. CASE b \in Bookings /\ bk' = [bk EXCEPT ![b].slot = s]
               /\ (Live(b) => TriggerAllows(b, s))
      <4>1. /\ bk'[b].slot = s /\ bk'[b].status = bk[b].status
            /\ \A c \in Bookings \ {b} : bk'[c] = bk[c]
        BY <3>1 DEF TypeOK, BookingRows
      <4> QED
        BY <3>1, <4>1 DEF Takes, Live
    <3>2. CASE b \notin Bookings
      BY <2>5, <3>2 DEF RescheduleMove, TypeOK
    <3> QED
      BY <2>5, <3>1, <3>2 DEF RescheduleMove
  <2>6. CASE bk' = bk
    BY <2>6
  <2> QED
    BY <1>3, <2>1, <2>2, <2>3, <2>4, <2>5, <2>6
       DEF Continue, DecideOverlap, DecidePending, DecideWrite, AcceptOverlap,
           AcceptRefused, AcceptWrite, SubmitWrite, SubmitExpire, ReceiptPlan,
           ReceiptPay, ReceiptBook, ReceiptReject, SweepExpire, DeleteRow, JobWrite,
           RescheduleSync
<1>4. CASE \E w \in Workers : Abort(w)
  BY <1>4 DEF Abort
<1>5. CASE \E r \in Requests : Lapse(r)
  BY <1>5 DEF Lapse
<1> QED
  BY <1>1, <1>2, <1>3, <1>4, <1>5 DEF Next

LEMMA NoOverlapStep == TypeOK /\ NoOverlap /\ [Next]_vars => NoOverlap'
<1> SUFFICES ASSUME TypeOK, NoOverlap, [Next]_vars,
                    NEW b \in Bookings, NEW c \in Bookings, b # c, Live(b)', Live(c)'
             PROVE  ~Clashes(bk'[b].slot, bk'[c].slot)
  BY DEF NoOverlap
<1>1. CASE Frees
  BY <1>1 DEF Frees, NoOverlap
<1>2. CASE \E a \in Bookings : Takes(a)
  <2>1. PICK a \in Bookings : Takes(a)
    BY <1>2
  <2>2. CASE b = a
    BY <2>1, <2>2 DEF Takes, TriggerAllows, Live, Clashes, Overlaps
  <2>3. CASE c = a
    BY <2>1, <2>3 DEF Takes, TriggerAllows, Live, Clashes, Overlaps
  <2>4. CASE b # a /\ c # a
    BY <2>1, <2>4 DEF Takes, NoOverlap, Live
  <2> QED
    BY <2>2, <2>3, <2>4
<1> QED
  BY <1>1, <1>2, CalendarStep

\* No interleaving of handlers, crash or late clock puts two live bookings of a
\* shop on top of each other.
THEOREM NeverOverlapping == Spec => []NoOverlap
<1>1. Init => NoOverlap
  BY DEF Init, NoOverlap, Live, UnusedBooking
<1> QED
  BY <1>1, NoOverlapStep, TypeCorrect, PTL DEF Spec

-----------------------------------------------------------------------------
(* The request row *)

\* The statement of a handler that writes one row of tattoo_requests.
Writes(w, r) ==
    LET me == worker[w]
        row == req[r] IN
    \/ /\ me.r = r
       /\ \/ At(w, "decideWrite") /\ req'[r] = Decided(row, me.st, me.s)
          \/ /\ At(w, "acceptWrite") /\ row.pay = "proposal_pending"
             /\ req'[r] = Accepted(row, me.b)
          \/ At(w, "submitWrite") /\ req'[r] = Submitted(row)
          \/ At(w, "submitExpire") /\ row.pay \in HoldOpen /\ req'[r] = Expired(row)
          \/ At(w, "receiptBook") /\ req'[r] = Booked(row)
          \/ At(w, "receiptReject") /\ req'[r] = SentBack(row)
          \/ At(w, "deleteRow") /\ req'[r] = DeletedRow
          \/ At(w, "jobWrite") /\ req'[r] = Dropped(row)
    \/ At(w, "sweepExpire") /\ LapsedHold(r) /\ req'[r] = Expired(row)
    \/ At(w, "rescheduleSync") /\ Follows(r, me.b) /\ req'[r] = [row EXCEPT !.slot = me.s]

\* The ways one row of tattoo_requests changes in a step.
RowMoves(r) ==
    \/ req'[r] = req[r]
    \/ req[r].status = "none" /\ req'[r] = CreatedRow
    \/ /\ Exists(r)
       /\ \/ \E w \in Workers : Writes(w, r)
          \/ req[r].hold = "open" /\ req'[r] = [req[r] EXCEPT !.hold = "lapsed"]

LEMMA RequestStep == TypeOK /\ [Next]_vars => \A r \in Requests : RowMoves(r)
<1> SUFFICES ASSUME TypeOK, [Next]_vars, NEW r \in Requests PROVE RowMoves(r)
  OBVIOUS
<1>1. CASE req' = req
  BY <1>1 DEF RowMoves
<1>2. CASE \E w \in Workers, q \in Requests : CreateRequest(w, q)
  BY <1>2 DEF CreateRequest, RowMoves, TypeOK
<1>3. CASE \E w \in Workers : DecideWrite(w)
  <2>1. PICK w \in Workers : DecideWrite(w)
    BY <1>3
  <2>2. \/ req'[r] = req[r]
        \/ /\ Exists(r) /\ r = worker[w].r
           /\ req'[r] = Decided(req[r], worker[w].st, worker[w].s)
    BY <2>1 DEF DecideWrite, UpdateRequest, TypeOK
  <2> QED
    BY <2>1, <2>2 DEF DecideWrite, RowMoves, Writes
<1>4. CASE \E w \in Workers : AcceptWrite(w)
  <2>1. PICK w \in Workers : AcceptWrite(w)
    BY <1>4
  <2>2. \/ req'[r] = req[r]
        \/ /\ Exists(r) /\ r = worker[w].r /\ req[r].pay = "proposal_pending"
           /\ req'[r] = Accepted(req[r], worker[w].b)
    BY <2>1 DEF AcceptWrite, UpdateRequest, TypeOK
  <2> QED
    BY <2>1, <2>2 DEF AcceptWrite, RowMoves, Writes
<1>5. CASE \E w \in Workers : SubmitWrite(w)
  <2>1. PICK w \in Workers : SubmitWrite(w)
    BY <1>5
  <2>2. \/ req'[r] = req[r]
        \/ /\ Exists(r) /\ r = worker[w].r
           /\ req'[r] = Submitted(req[r])
    BY <2>1 DEF SubmitWrite, UpdateRequest, TypeOK
  <2> QED
    BY <2>1, <2>2 DEF SubmitWrite, RowMoves, Writes
<1>6. CASE \E w \in Workers : SubmitExpire(w)
  <2>1. PICK w \in Workers : SubmitExpire(w)
    BY <1>6
  <2>2. \/ req'[r] = req[r]
        \/ /\ Exists(r) /\ r = worker[w].r /\ req[r].pay \in HoldOpen
           /\ req'[r] = Expired(req[r])
    BY <2>1 DEF SubmitExpire, UpdateRequest, TypeOK
  <2> QED
    BY <2>1, <2>2 DEF SubmitExpire, RowMoves, Writes
<1>7. CASE \E w \in Workers : ReceiptBook(w)
  <2>1. PICK w \in Workers : ReceiptBook(w)
    BY <1>7
  <2>2. \/ req'[r] = req[r]
        \/ /\ Exists(r) /\ r = worker[w].r
           /\ req'[r] = Booked(req[r])
    BY <2>1 DEF ReceiptBook, UpdateRequest, TypeOK
  <2> QED
    BY <2>1, <2>2 DEF ReceiptBook, RowMoves, Writes
<1>8. CASE \E w \in Workers : ReceiptReject(w)
  <2>1. PICK w \in Workers : ReceiptReject(w)
    BY <1>8
  <2>2. \/ req'[r] = req[r]
        \/ /\ Exists(r) /\ r = worker[w].r
           /\ req'[r] = SentBack(req[r])
    BY <2>1 DEF ReceiptReject, UpdateRequest, TypeOK
  <2> QED
    BY <2>1, <2>2 DEF ReceiptReject, RowMoves, Writes
<1>9. CASE \E w \in Workers : SweepExpire(w)
  BY <1>9 DEF SweepExpire, LapsedHold, Exists, RowMoves, Writes
<1>10. CASE \E w \in Workers : DeleteRow(w)
  <2>1. PICK w \in Workers : DeleteRow(w)
    BY <1>10
  <2>2. \/ req'[r] = req[r]
        \/ /\ Exists(r) /\ r = worker[w].r
           /\ req'[r] = DeletedRow
    BY <2>1 DEF DeleteRow, UpdateRequest, TypeOK
  <2> QED
    BY <2>1, <2>2 DEF DeleteRow, RowMoves, Writes
<1>11. CASE \E w \in Workers : JobWrite(w)
  <2>1. PICK w \in Workers : JobWrite(w)
    BY <1>11
  <2>2. \/ req'[r] = req[r]
        \/ /\ Exists(r) /\ r = worker[w].r
           /\ req'[r] = Dropped(req[r])
    BY <2>1 DEF JobWrite, UpdateRequest, TypeOK
  <2> QED
    BY <2>1, <2>2 DEF JobWrite, RowMoves, Writes
<1>12. CASE \E w \in Workers : RescheduleSync(w)
  <2>1. PICK w \in Workers : RescheduleSync(w)
    BY <1>12
  <2>2. \/ req'[r] = req[r]
        \/ /\ Exists(r) /\ Follows(r, worker[w].b)
           /\ req'[r] = [req[r] EXCEPT !.slot = worker[w].s]
    BY <2>1 DEF RescheduleSync, Follows, Exists
  <2> QED
    BY <2>1, <2>2 DEF RescheduleSync, RowMoves, Writes
<1>13. CASE \E q \in Requests : Lapse(q)
  BY <1>13 DEF Lapse, RowMoves, TypeOK
<1>14. CASE \E w \in Workers : Arrive(w)
  <2>1. PICK w \in Workers : Arrive(w)
    BY <1>14
  <2>2. (\E q \in Requests : CreateRequest(w, q)) \/ req' = req
    BY <2>1
       DEF Arrive, DecideRead, AcceptRead, SubmitRead, ReceiptRead, DeleteRead,
           CancelJobRead, SweepCancel, WalkIn, SetBookingStatus, RescheduleRead
  <2> QED
    BY <2>2, <1>1, <1>2
<1>15. CASE \E w \in Workers : Continue(w)
  BY <1>1, <1>3, <1>4, <1>5, <1>6, <1>7, <1>8, <1>9, <1>10, <1>11, <1>12, <1>15
     DEF Continue, DecideOverlap, DecidePending, DecideCancel, AcceptOverlap,
         AcceptInsert, AcceptRefused, SubmitCancel, ReceiptPlan, ReceiptPay,
         ReceiptConfirm, DeleteCancel, JobCancel, RescheduleMove
<1> QED
  BY <1>1, <1>13, <1>14, <1>15 DEF Next, vars, Abort

\* The same, in the columns the invariants speak of.
ColumnMoves(r) ==
    \/ /\ req'[r].pay = req[r].pay /\ req'[r].booking = req[r].booking
       /\ req'[r].hold \in {req[r].hold, "lapsed"}
    \/ /\ req'[r].pay \in {"not_required", "proposal_pending", "expired"}
       /\ req'[r].booking = NoBooking
    \/ /\ req'[r].pay = "awaiting_payment" /\ req'[r].hold = "open"
       /\ \E w \in Workers :
             At(w, "acceptWrite") /\ worker[w].r = r /\ req'[r].booking = worker[w].b
    \/ req'[r].pay = "receipt_submitted" /\ req'[r].booking = req[r].booking
    \/ /\ req'[r].pay = "rejected" /\ req'[r].hold = "open"
       /\ req'[r].booking = req[r].booking
    \/ /\ req'[r].pay = "approved" /\ req'[r].booking = req[r].booking
       /\ \E w \in Workers : At(w, "receiptBook") /\ worker[w].r = r

LEMMA ColumnStep == TypeOK /\ [Next]_vars => \A r \in Requests : ColumnMoves(r)
<1> SUFFICES ASSUME TypeOK, [Next]_vars, NEW r \in Requests PROVE ColumnMoves(r)
  OBVIOUS
<1> DEFINE row == req[r]
<1>0. row \in RequestRows
  BY Fields
<1> HIDE DEF row
<1> USE DEF ColumnMoves, RequestRows
<1>1. CASE req'[r] = row
  BY <1>0, <1>1 DEF row
<1>2. CASE req'[r] \in {CreatedRow, DeletedRow}
  BY <1>2 DEF CreatedRow, DeletedRow, UnusedRequest
<1>3. CASE req'[r] = Dropped(row)
  BY <1>0, <1>3 DEF Dropped
<1>4. CASE \E w \in Workers : req'[r] = Decided(row, worker[w].st, worker[w].s)
  BY <1>4 DEF Decided
<1>5. CASE \E w \in Workers : /\ At(w, "acceptWrite") /\ worker[w].r = r
                              /\ req'[r] = Accepted(row, worker[w].b)
  BY <1>0, <1>5 DEF Accepted
<1>6. CASE req'[r] = Expired(row)
  BY <1>0, <1>6 DEF Expired
<1>7. CASE req'[r] = Submitted(row)
  BY <1>0, <1>7 DEF Submitted, row
<1>8. CASE req'[r] = SentBack(row)
  BY <1>0, <1>8 DEF SentBack, row
<1>9. CASE /\ req'[r] = Booked(row)
           /\ \E w \in Workers : At(w, "receiptBook") /\ worker[w].r = r
  BY <1>0, <1>9 DEF Booked, row
<1>10. CASE \E s \in Slots \cup {NoSlot} : req'[r] = [row EXCEPT !.slot = s]
  BY <1>0, <1>10 DEF row
<1>11. CASE req'[r] = [row EXCEPT !.hold = "lapsed"]
  BY <1>0, <1>11 DEF row
<1>12. RowMoves(r)
  BY RequestStep
<1> QED
  BY <1>1, <1>2, <1>3, <1>4, <1>5, <1>6, <1>7, <1>8, <1>9, <1>10, <1>11, <1>12, Fields
     DEF RowMoves, Writes, row

LEMMA NoStaleLinkStep == TypeOK /\ NoStaleLink /\ [Next]_vars => NoStaleLink'
<1> SUFFICES ASSUME TypeOK, NoStaleLink, [Next]_vars, NEW r \in Requests,
                    req'[r].pay \in {"not_required", "proposal_pending", "expired"}
             PROVE  req'[r].booking = NoBooking
  BY DEF NoStaleLink
<1>1. ColumnMoves(r)
  BY ColumnStep
<1> QED
  BY <1>1 DEF ColumnMoves, NoStaleLink

\* A request that is not in the payment flow points at no booking.
THEOREM NeverAStaleLink == Spec => []NoStaleLink
<1>1. Init => NoStaleLink
  BY DEF Init, NoStaleLink, UnusedRequest
<1> QED
  BY <1>1, NoStaleLinkStep, TypeCorrect, PTL DEF Spec

LEMMA DebtHasDeadlineStep == TypeOK /\ DebtHasDeadline /\ [Next]_vars => DebtHasDeadline'
<1> SUFFICES ASSUME TypeOK, DebtHasDeadline, [Next]_vars, NEW r \in Requests,
                    req'[r].pay \in HoldOpen
             PROVE  req'[r].hold # "none"
  BY DEF DebtHasDeadline
<1>1. ColumnMoves(r)
  BY ColumnStep
<1> QED
  BY <1>1 DEF ColumnMoves, DebtHasDeadline, HoldOpen

\* Nobody owes a payment without a deadline, so no lock can escape the sweep.
THEOREM EveryDebtHasADeadline == Spec => []DebtHasDeadline
<1>1. Init => DebtHasDeadline
  BY DEF Init, DebtHasDeadline, HoldOpen, UnusedRequest
<1> QED
  BY <1>1, DebtHasDeadlineStep, TypeCorrect, PTL DEF Spec

-----------------------------------------------------------------------------
(* The deposit comes before the confirmation. *)

\* ConfirmedOnlyAfterDeposit is not inductive: between the deposit and the
\* confirmation the fact that the deposit is there, and that the booking about
\* to be confirmed is the request's own, is only in the handler's memory.
Owned(b, r) == b \in Bookings /\ bk[b].owner = r /\ bk[b].status # "free"

\* The handlers that are about to write, or are in the course of approving.
Approving == {"receiptPlan", "receiptPay", "receiptBook", "receiptConfirm"}

Deciding == {"decideOverlap", "decidePending", "decideCancel", "decideWrite"}

LinksOwned ==
    \A r \in Requests : req[r].booking # NoBooking => Owned(req[r].booking, r)

HandlersKnow ==
    \A w \in Workers :
       /\ worker[w].r \in Requests => req[worker[w].r].status # "none"
       /\ worker[w].pc \in Deciding => worker[w].st \in Decisions
       /\ worker[w].pc \in Approving => worker[w].r \in Requests
       /\ worker[w].pc \in Approving \cup {"acceptWrite"} => Owned(worker[w].b, worker[w].r)
       /\ worker[w].pc \in {"receiptBook", "receiptConfirm"} => Paid(worker[w].r)

DepositInv == TypeOK /\ LinksOwned /\ HandlersKnow /\ ConfirmedOnlyAfterDeposit

LEMMA DepositInit == Init => DepositInv
<1> SUFFICES ASSUME Init PROVE DepositInv
  OBVIOUS
<1>1. LinksOwned
  BY DEF Init, LinksOwned, UnusedRequest
<1>2. HandlersKnow
  BY NoneIsNoId DEF Init, HandlersKnow, IdleWorker, Approving, Deciding
<1>3. ConfirmedOnlyAfterDeposit
  BY DEF Init, ConfirmedOnlyAfterDeposit, UnusedRequest, UnusedBooking
<1> QED
  BY <1>1, <1>2, <1>3, TypeInit DEF DepositInv

\* A row of tattoo_requests that has been created stays created, and one that
\* has been deleted stays deleted.
LEMMA StatusStep ==
    ASSUME TypeOK, HandlersKnow, [Next]_vars, NEW r \in Requests
    PROVE  /\ req[r].status # "none" => req'[r].status # "none"
           /\ req[r].status = "deleted" => req'[r].status = "deleted"
<1> DEFINE row == req[r]
<1>0. row \in RequestRows
  BY Fields
<1> HIDE DEF row
<1>1. CASE req'[r] = row
  BY <1>0, <1>1 DEF row
<1>2. CASE row.status = "none" /\ req'[r] = CreatedRow
  BY <1>2 DEF CreatedRow, UnusedRequest, row
<1>3. CASE /\ Exists(r)
           /\ \/ req'[r] \in {DeletedRow, Submitted(row), SentBack(row), Dropped(row),
                              Expired(row), Booked(row)}
              \/ \E s \in Slots \cup {NoSlot} : req'[r] = [row EXCEPT !.slot = s]
              \/ req'[r] = [row EXCEPT !.hold = "lapsed"]
              \/ \E b \in Bookings \cup {NoBooking} : req'[r] = Accepted(row, b)
  <2>1. req'[r].status \in {"deleted", "rejected", "booked", row.status}
    BY <1>0, <1>3
       DEF RequestRows, DeletedRow, UnusedRequest, Submitted, SentBack, Dropped,
           Expired, Booked, Accepted
  <2> QED
    BY <1>3, <2>1 DEF Exists, row
<1>4. CASE /\ Exists(r)
           /\ \E w \in Workers : /\ At(w, "decideWrite")
                                 /\ req'[r] = Decided(row, worker[w].st, worker[w].s)
  <2>1. req'[r].status \in Decisions
    BY <1>4 DEF HandlersKnow, Deciding, At, Decided
  <2> QED
    BY <1>4, <2>1 DEF Exists, Decisions, row
<1>5. RowMoves(r)
  BY RequestStep
<1> QED
  BY <1>1, <1>2, <1>3, <1>4, <1>5, Fields DEF RowMoves, Writes, row

\* A booking that exists keeps its owner, and only performDecideTattooReceipt
\* confirms the booking of a request.
BookingMoves(b) ==
    /\ bk[b].status # "free" =>
          bk'[b].status # "free" /\ bk'[b].owner = bk[b].owner
    /\ \/ bk'[b].status = bk[b].status /\ bk'[b].byHand = bk[b].byHand
          /\ bk'[b].owner = bk[b].owner
       \/ bk'[b].status # "confirmed"
       \/ bk'[b].byHand
       \/ bk'[b].owner = NoRequest
       \/ \E w \in Workers : At(w, "receiptConfirm") /\ worker[w].b = b
             /\ bk'[b].owner = bk[b].owner

LEMMA BookingStep ==
    ASSUME TypeOK, HandlersKnow, [Next]_vars, NEW b \in Bookings
    PROVE  BookingMoves(b)
<1> USE DEF BookingMoves, BookingRows
<1>1. CASE bk' = bk
  BY <1>1
<1>2. ASSUME NEW B, CancelRequested(B)
      PROVE  BookingMoves(b)
  BY <1>2 DEF CancelRequested, TypeOK
<1>3. ASSUME NEW w \in Workers, NEW c \in Bookings, NEW s \in Slots,
             NEW st \in {"requested", "confirmed"}, WalkIn(w, c, s, st)
      PROVE  BookingMoves(b)
  BY <1>3 DEF WalkIn, NewBooking, TypeOK
<1>4. ASSUME NEW w \in Workers, NEW c \in Bookings, NEW st \in BookingStatuses,
             SetBookingStatus(w, c, st)
      PROVE  BookingMoves(b)
  BY <1>4 DEF SetBookingStatus, BookingStatuses, TypeOK
<1>5. ASSUME NEW w \in Workers, NEW c \in Bookings, AcceptInsert(w, c)
      PROVE  BookingMoves(b)
  BY <1>5 DEF AcceptInsert, NewBooking, TypeOK
<1>6. ASSUME NEW w \in Workers, JobCancel(w)
      PROVE  BookingMoves(b)
  BY <1>6 DEF JobCancel, TypeOK
<1>7. ASSUME NEW w \in Workers, RescheduleMove(w)
      PROVE  BookingMoves(b)
  <2>1. \/ bk' = bk
        \/ bk' = [bk EXCEPT ![worker[w].b].slot = worker[w].s]
    BY <1>7 DEF RescheduleMove
  <2> QED
    BY <2>1 DEF TypeOK
<1>8. ASSUME NEW w \in Workers, ReceiptConfirm(w)
      PROVE  BookingMoves(b)
  <2>1. \/ bk' = bk
        \/ bk' = [bk EXCEPT ![worker[w].b] = ConfirmedBooking(bk[worker[w].b])]
    BY <1>8 DEF ReceiptConfirm
  <2>2. At(w, "receiptConfirm")
    BY <1>8 DEF ReceiptConfirm
  <2> QED
    BY <2>1, <2>2 DEF ConfirmedBooking, TypeOK
<1>9. ASSUME NEW w \in Workers, Arrive(w)
      PROVE  BookingMoves(b)
  BY <1>1, <1>2, <1>3, <1>4, <1>9
     DEF Arrive, CreateRequest, DecideRead, AcceptRead, SubmitRead, ReceiptRead,
         DeleteRead, CancelJobRead, RescheduleRead, SweepCancel
<1>10. ASSUME NEW w \in Workers, Continue(w)
      PROVE  BookingMoves(b)
  BY <1>1, <1>2, <1>5, <1>6, <1>7, <1>8, <1>10
     DEF Continue, DecideOverlap, DecidePending, DecideWrite, AcceptOverlap,
         AcceptRefused, AcceptWrite, SubmitWrite, SubmitExpire, ReceiptPlan,
         ReceiptPay, ReceiptBook, ReceiptReject, SweepExpire, DeleteRow, JobWrite,
         RescheduleSync, DecideCancel, SubmitCancel, DeleteCancel
<1> QED
  BY <1>1, <1>9, <1>10 DEF Next, vars, Abort, Lapse

\* A deposit row disappears only with its request.
LEMMA PaidStep ==
    ASSUME TypeOK, HandlersKnow, [Next]_vars,
           NEW r \in Requests, Paid(r)
    PROVE  Paid(r)'
<1>1. CASE deposits' = deposits
  BY <1>1, StatusStep DEF Paid
<1>2. CASE \E w \in Workers : ReceiptPay(w)
  BY <1>2, StatusStep DEF ReceiptPay, Paid, TypeOK
<1>3. CASE \E w \in Workers : DeleteRow(w)
  <2>1. PICK w \in Workers : DeleteRow(w)
    BY <1>3
  <2>2. CASE worker[w].r = r
    <3>1. req'[r].status = "deleted"
      BY <2>1, <2>2
         DEF DeleteRow, UpdateRequest, Exists, DeletedRow, UnusedRequest, TypeOK,
             HandlersKnow
    <3> QED
      BY <3>1 DEF Paid
  <2>3. CASE worker[w].r # r
    BY <2>1, <2>3, StatusStep DEF DeleteRow, Paid, TypeOK
  <2> QED
    BY <2>2, <2>3
<1>4. CASE \E w \in Workers : Arrive(w)
  <2>0. PICK w \in Workers : Arrive(w)
    BY <1>4
  <2>1. deposits' = deposits
    BY <2>0
       DEF Arrive, CreateRequest, DecideRead, AcceptRead, SubmitRead, ReceiptRead,
           DeleteRead, CancelJobRead, RescheduleRead, SweepCancel, WalkIn,
           SetBookingStatus
  <2> QED
    BY <1>1, <2>1
<1>5. CASE \E w \in Workers : Continue(w)
  BY <1>1, <1>2, <1>3, <1>5
     DEF Continue, DecideOverlap, DecidePending, DecideCancel, DecideWrite,
         AcceptOverlap, AcceptInsert, AcceptRefused, AcceptWrite, SubmitWrite,
         SubmitCancel, SubmitExpire, ReceiptPlan, ReceiptBook, ReceiptConfirm,
         ReceiptReject, SweepExpire, DeleteCancel, JobCancel, JobWrite,
         RescheduleMove, RescheduleSync
<1> QED
  BY <1>1, <1>4, <1>5 DEF Next, vars, Abort, Lapse

\* An owned booking stays owned.
LEMMA OwnedStep ==
    ASSUME TypeOK, HandlersKnow, [Next]_vars, NEW b, NEW r, Owned(b, r)
    PROVE  Owned(b, r)'
<1>1. BookingMoves(b)
  BY BookingStep DEF Owned
<1> QED
  BY <1>1 DEF BookingMoves, Owned

LEMMA LinksOwnedStep ==
    ASSUME TypeOK, LinksOwned, HandlersKnow, [Next]_vars
    PROVE  LinksOwned'
<1> SUFFICES ASSUME NEW r \in Requests, req'[r].booking # NoBooking
             PROVE  Owned(req[r].booking, r)'
  BY DEF LinksOwned
<1>1. CASE req'[r].booking = req[r].booking
  BY <1>1, OwnedStep DEF LinksOwned, Owned
<1>2. CASE \E w \in Workers :
              At(w, "acceptWrite") /\ worker[w].r = r /\ req'[r].booking = worker[w].b
  BY <1>2, OwnedStep DEF HandlersKnow, At, Owned
<1>3. ColumnMoves(r)
  BY ColumnStep
<1> QED
  BY <1>1, <1>2, <1>3 DEF ColumnMoves

\* How one handler moves on, as far as the approval of receipts is concerned.
HandlerMoves(v) ==
    \/ worker'[v] = worker[v]
    \/ /\ worker'[v].pc \notin Approving \cup Deciding \cup {"acceptWrite"}
       /\ \/ worker'[v].r \in {NoRequest, worker[v].r}
          \/ worker'[v].r \in Requests /\ Exists(worker'[v].r)
    \/ /\ worker'[v].pc \in Deciding /\ worker'[v].st \in Decisions
       /\ worker'[v].r = worker[v].r \/ Exists(worker'[v].r)
    \/ /\ worker'[v].pc = "acceptWrite" /\ worker'[v].r = worker[v].r
       /\ Owned(worker[v].b, worker[v].r)'
    \/ /\ worker'[v].pc = "receiptPlan"
       /\ worker'[v].r \in Requests /\ Exists(worker'[v].r)
       /\ worker'[v].b = req[worker'[v].r].booking /\ worker'[v].b # NoBooking
    \/ /\ worker[v].pc \in Approving /\ worker'[v].pc \in Approving
       /\ worker'[v].r = worker[v].r /\ worker'[v].b = worker[v].b
       /\ \/ worker'[v].pc \notin {"receiptBook", "receiptConfirm"}
          \/ worker[v].pc = "receiptPlan" /\ ~NeedsDeposit(worker[v].r)
          \/ worker[v].pc = "receiptPay" /\ deposits'[worker[v].r] > 0
          \/ worker[v].pc = "receiptBook"

LEMMA GotoFields ==
    ASSUME TypeOK, NEW w \in Workers, NEW pc, Goto(w, pc)
    PROVE  /\ worker'[w].pc = pc
           /\ worker'[w].r = worker[w].r /\ worker'[w].b = worker[w].b
           /\ worker'[w].st = worker[w].st
           /\ \A v \in Workers \ {w} : worker'[v] = worker[v]
BY DEF TypeOK, WorkerRows, Goto, Become

LEMMA DoneFields ==
    ASSUME TypeOK, NEW w \in Workers, Done(w)
    PROVE  /\ worker'[w].pc = "idle" /\ worker'[w].r = NoRequest
           /\ \A v \in Workers \ {w} : worker'[v] = worker[v]
BY DEF TypeOK, Done, Become, IdleWorker

LEMMA LocalFields ==
    ASSUME TypeOK, NEW w \in Workers, NEW pc, NEW r, NEW b, NEW s, NEW st,
           Become(w, Local(pc, r, b, s, st))
    PROVE  /\ worker'[w].pc = pc /\ worker'[w].r = r /\ worker'[w].b = b
           /\ worker'[w].st = st
           /\ \A v \in Workers \ {w} : worker'[v] = worker[v]
BY DEF TypeOK, Local, Become

LEMMA ArriveMoves ==
    ASSUME TypeOK, NEW w \in Workers, Arrive(w), NEW v \in Workers
    PROVE  HandlerMoves(v)
<1> USE DEF HandlerMoves, Approving, Deciding
<1>1. CASE worker' = worker
  BY <1>1
<1>2. CASE \E r \in Requests, st \in Decisions, s \in Slots \cup {NoSlot} :
             DecideRead(w, r, st, s)
  <2>1. PICK r \in Requests, st \in Decisions, s \in Slots \cup {NoSlot} :
           DecideRead(w, r, st, s)
    BY <1>2
  <2>2. /\ worker'[w].pc \in Deciding /\ worker'[w].r = r /\ worker'[w].st = st
        /\ \A u \in Workers \ {w} : worker'[u] = worker[u]
    BY <2>1, LocalFields DEF DecideRead, AfterChecks
  <2>3. Exists(r)
    BY <2>1 DEF DecideRead
  <2> QED
    BY <2>2, <2>3
<1>3. CASE \E r \in Requests : AcceptRead(w, r)
  BY <1>3, LocalFields DEF AcceptRead
<1>4. CASE \E r \in Requests : SubmitRead(w, r)
  BY <1>4, LocalFields DEF SubmitRead
<1>5. CASE \E r \in Requests, approved \in BOOLEAN : ReceiptRead(w, r, approved)
  BY <1>5, LocalFields DEF ReceiptRead
<1>6. CASE \E r \in Requests : DeleteRead(w, r)
  BY <1>6, LocalFields DEF DeleteRead
<1>7. CASE \E r \in Requests : CancelJobRead(w, r)
  BY <1>7, LocalFields DEF CancelJobRead
<1>8. CASE \E scope \in (SUBSET Requests) \ {{}} : SweepCancel(w, scope)
  BY <1>8 DEF SweepCancel, Become, IdleWorker, TypeOK
<1>9. CASE \E b \in Bookings, s \in Slots : RescheduleRead(w, b, s)
  BY <1>9, LocalFields DEF RescheduleRead
<1> QED
  BY <1>1, <1>2, <1>3, <1>4, <1>5, <1>6, <1>7, <1>8, <1>9
     DEF Arrive, CreateRequest, WalkIn, SetBookingStatus

LEMMA ContinueMoves ==
    ASSUME TypeOK, HandlersKnow, NEW w \in Workers, Continue(w), NEW v \in Workers
    PROVE  HandlerMoves(v)
<1> USE DEF HandlerMoves, Approving, Deciding
<1>1. CASE Done(w)
  BY <1>1, DoneFields
<1>2. CASE \E pc \in {"acceptInsert", "submitExpire", "deleteRow", "jobWrite",
                      "rescheduleSync"} : Goto(w, pc)
  BY <1>2, GotoFields
<1>3. CASE At(w, "decideOverlap") /\ Goto(w, "decidePending")
  BY <1>3, GotoFields DEF HandlersKnow, At
<1>4. CASE DecidePending(w)
  BY <1>1, <1>4, GotoFields DEF DecidePending, AfterChecks, HandlersKnow, At
<1>5. CASE DecideCancel(w)
  BY <1>5, GotoFields DEF DecideCancel, HandlersKnow, At
<1>6. CASE \E b \in Bookings : AcceptInsert(w, b)
  <2>1. PICK b \in Bookings : AcceptInsert(w, b)
    BY <1>6
  <2>2. /\ worker'[w].pc = "acceptWrite" /\ worker'[w].r = worker[w].r
        /\ worker'[w].b = b
        /\ \A u \in Workers \ {w} : worker'[u] = worker[u]
    BY <2>1 DEF AcceptInsert, Become, WorkerRows, TypeOK
  <2>3. Owned(worker[w].b, worker[w].r)'
    BY <2>1, <2>2 DEF AcceptInsert, Owned, NewBooking, TypeOK
  <2> QED
    BY <2>2, <2>3
<1>7. CASE ReceiptPlan(w)
  BY <1>7, GotoFields DEF ReceiptPlan, At
<1>8. CASE ReceiptPay(w)
  <2>1. CASE Exists(worker[w].r)
    <3>1. worker[w].r \in Requests
      BY <1>8 DEF ReceiptPay, HandlersKnow, At
    <3>2. deposits'[worker[w].r] > 0
      BY <1>8, <2>1, <3>1 DEF ReceiptPay, TypeOK
    <3> QED
      BY <1>8, <2>1, <3>2, GotoFields DEF ReceiptPay, At
  <2>2. CASE ~Exists(worker[w].r)
    BY <1>1, <1>8, <2>2 DEF ReceiptPay
  <2> QED
    BY <2>1, <2>2
<1>9. CASE ReceiptBook(w)
  BY <1>9, GotoFields DEF ReceiptBook, At
<1> QED
  BY <1>1, <1>2, <1>3, <1>4, <1>5, <1>6, <1>7, <1>8, <1>9
     DEF Continue, DecideOverlap, DecideWrite, AcceptOverlap, AcceptRefused,
         AcceptWrite, SubmitWrite, SubmitCancel, SubmitExpire, ReceiptConfirm,
         ReceiptReject, SweepExpire, DeleteCancel, DeleteRow, JobCancel, JobWrite,
         RescheduleMove, RescheduleSync

LEMMA HandlerStep ==
    ASSUME TypeOK, HandlersKnow, [Next]_vars, NEW v \in Workers
    PROVE  HandlerMoves(v)
<1>1. CASE worker' = worker
  BY <1>1 DEF HandlerMoves
<1>2. CASE \E w \in Workers : Abort(w)
  BY <1>2, DoneFields DEF Abort, HandlerMoves, Approving, Deciding
<1> QED
  BY <1>1, <1>2, ArriveMoves, ContinueMoves DEF Next, vars, Lapse

LEMMA HandlersKnowStep ==
    ASSUME TypeOK, LinksOwned, HandlersKnow, [Next]_vars
    PROVE  HandlersKnow'
<1> SUFFICES ASSUME NEW v \in Workers
             PROVE  /\ worker'[v].r \in Requests => req'[worker'[v].r].status # "none"
                    /\ worker'[v].pc \in Deciding => worker'[v].st \in Decisions
                    /\ worker'[v].pc \in Approving => worker'[v].r \in Requests
                    /\ worker'[v].pc \in Approving \cup {"acceptWrite"} =>
                          Owned(worker[v].b, worker[v].r)'
                    /\ worker'[v].pc \in {"receiptBook", "receiptConfirm"} =>
                          Paid(worker[v].r)'
  BY DEF HandlersKnow
<1>1. HandlerMoves(v)
  BY HandlerStep
<1>2. worker'[v].r \in Requests => req'[worker'[v].r].status # "none"
  BY <1>1, StatusStep, NoneIsNoId DEF HandlerMoves, HandlersKnow, Exists
<1>3. worker'[v].pc \in Deciding => worker'[v].st \in Decisions
  BY <1>1 DEF HandlerMoves, HandlersKnow, Approving, Deciding
<1>4. worker'[v].pc \in Approving => worker'[v].r \in Requests
  BY <1>1 DEF HandlerMoves, HandlersKnow, Approving, Deciding
<1>5. ASSUME worker'[v].pc \in Approving \cup {"acceptWrite"}
      PROVE  Owned(worker[v].b, worker[v].r)'
  <2>1. CASE /\ worker[v].pc \in Approving \cup {"acceptWrite"}
             /\ worker'[v].r = worker[v].r /\ worker'[v].b = worker[v].b
    BY <2>1, OwnedStep DEF HandlersKnow, Owned
  <2>2. CASE /\ worker'[v].r \in Requests /\ worker'[v].b # NoBooking
             /\ worker'[v].b = req[worker'[v].r].booking
    <3>1. Owned(req[worker'[v].r].booking, worker'[v].r)
      BY <2>2 DEF LinksOwned
    <3> QED
      BY <2>2, <3>1, OwnedStep DEF Owned
  <2>3. CASE Owned(worker[v].b, worker[v].r)'
    BY <2>3
  <2> QED
    BY <1>1, <1>5, <2>1, <2>2, <2>3 DEF HandlerMoves, Approving, Deciding
<1>6. ASSUME worker'[v].pc \in {"receiptBook", "receiptConfirm"}
      PROVE  Paid(worker[v].r)'
  <2> DEFINE r == worker[v].r
  <2>1. r \in Requests /\ worker'[v].r = r /\ req[r].status # "none"
    BY <1>1, <1>6 DEF HandlerMoves, HandlersKnow, Approving, Deciding
  <2>2. \/ Paid(r)
        \/ deposits'[r] > 0
    <3>1. ~NeedsDeposit(r) => Paid(r)
      BY <2>1 DEF NeedsDeposit, Exists, Paid, TypeOK
    <3> QED
      BY <1>1, <1>6, <3>1 DEF HandlerMoves, HandlersKnow, Approving, Deciding
  <2>3. CASE Paid(r)
    BY <2>1, <2>3, PaidStep DEF Paid
  <2>4. CASE deposits'[r] > 0
    BY <2>1, <2>4 DEF Paid
  <2> QED
    BY <2>2, <2>3, <2>4
<1> QED
  BY <1>2, <1>3, <1>4, <1>5, <1>6

LEMMA ConfirmedStep ==
    ASSUME DepositInv, [Next]_vars
    PROVE  ConfirmedOnlyAfterDeposit'
<1> USE DEF DepositInv
<1>1. ASSUME NEW b \in Bookings, bk'[b].status = "confirmed", ~bk'[b].byHand,
             bk'[b].owner # NoRequest
      PROVE  Paid(bk[b].owner)'
  <2>1. BookingMoves(b)
    BY BookingStep
  <2>2. bk'[b].owner = bk[b].owner /\ Paid(bk[b].owner)
    BY <1>1, <2>1
       DEF BookingMoves, HandlersKnow, ConfirmedOnlyAfterDeposit, At, Approving, Owned
  <2>3. bk[b].owner \in Requests
    BY <1>1, <2>2, Fields DEF BookingRows
  <2> QED
    BY <2>2, <2>3, PaidStep
<1>2. ASSUME NEW r \in Requests, req'[r].pay = "approved"
      PROVE  Paid(r)'
  <2>1. ColumnMoves(r)
    BY ColumnStep
  <2>2. Paid(r)
    BY <1>2, <2>1
       DEF ColumnMoves, HandlersKnow, ConfirmedOnlyAfterDeposit, At, Approving
  <2> QED
    BY <2>2, PaidStep
<1> QED
  BY <1>1, <1>2 DEF ConfirmedOnlyAfterDeposit

LEMMA DepositStep == DepositInv /\ [Next]_vars => DepositInv'
BY TypeStep, LinksOwnedStep, HandlersKnowStep, ConfirmedStep DEF DepositInv

\* However handlers interleave, whatever statement a crash cuts them off at and
\* whenever the clock ticks, the payment flow confirms nothing unpaid.
THEOREM DepositBeforeConfirmation == Spec => []ConfirmedOnlyAfterDeposit
<1>1. DepositInv => ConfirmedOnlyAfterDeposit
  BY DEF DepositInv
<1> QED
  BY <1>1, DepositInit, DepositStep, PTL DEF Spec

-----------------------------------------------------------------------------
(* The calendar implements the slot lock. *)

LEMMA InLocks ==
    /\ \A b, p : <<b, p>> \in Locks <=>
          b \in Bookings /\ Live(b) /\ p \in SlotPlaces(bk[b].slot)
    /\ \A l \in Locks : l = <<l[1], l[2]>>
BY DEF Locks

LEMMA InLocksNext ==
    /\ \A b, p : <<b, p>> \in Locks' <=>
          b \in Bookings /\ Live(b)' /\ p \in SlotPlaces(bk'[b].slot)
    /\ \A l \in Locks' : l = <<l[1], l[2]>>
BY DEF Locks, Live

\* A step that only ends bookings gives their places back.
LEMMA FreesReleases ==
    ASSUME TypeOK, Frees
    PROVE  Calendar!Next
<1> DEFINE H == {b \in Bookings : Live(b) /\ ~Live(b)'}
<1>1. ASSUME NEW l PROVE l \in Locks' <=> l \in Locks /\ l[1] \notin H
  <2>1. ASSUME NEW b, NEW p
        PROVE  <<b, p>> \in Locks' <=> <<b, p>> \in Locks /\ b \notin H
    BY InLocks, InLocksNext DEF Frees
  <2>2. l \in Locks \/ l \in Locks' => l = <<l[1], l[2]>>
    BY InLocks, InLocksNext
  <2> QED
    BY <2>1, <2>2
<1>2. Locks' = {l \in Locks : l[1] \notin H}
  BY <1>1
<1>3. H \in SUBSET Bookings
  OBVIOUS
<1> QED
  BY <1>2, <1>3 DEF Calendar!Next, Calendar!Release

\* A step that writes one booking under the trigger takes its places, or gives
\* them back.
LEMMA TakesTakes ==
    ASSUME TypeOK, TypeOK', NEW b \in Bookings, Takes(b)
    PROVE  Calendar!Next
<1> DEFINE P == SlotPlaces(bk'[b].slot)
<1>1. ASSUME NEW c \in Bookings, c # b
      PROVE  (Live(c)' <=> Live(c)) /\ bk'[c].slot = bk[c].slot
  BY <1>1 DEF Takes, Live
<1>2. CASE ~Live(b)'
  <2>1. Frees
    BY <1>1, <1>2 DEF Frees
  <2> QED
    BY <2>1, FreesReleases
<1>3. CASE Live(b)'
  <2>1. ASSUME NEW l
        PROVE  l \in Locks' <=> l \in {k \in Locks : k[1] # b} \cup ({b} \X P)
    <3>1. ASSUME NEW c, NEW p
          PROVE  <<c, p>> \in Locks' <=>
                    (<<c, p>> \in Locks /\ c # b) \/ (c = b /\ p \in P)
      <4>1. CASE c = b
        BY <1>3, <4>1, InLocksNext
      <4>2. CASE c # b
        BY <1>1, <4>2, InLocks, InLocksNext
      <4> QED
        BY <4>1, <4>2
    <3>2. l \in Locks \/ l \in Locks' \/ l \in {b} \X P => l = <<l[1], l[2]>>
      BY InLocks, InLocksNext
    <3> QED
      BY <3>1, <3>2
  <2>2. Locks' = {k \in Locks : k[1] # b} \cup ({b} \X P)
    BY <2>1
  <2>3. bk'[b].slot \in Slots \cup {NoSlot}
    BY DEF TypeOK, BookingRows
  <2>4. P \in SUBSET UNION {SlotPlaces(s) : s \in Slots}
    BY <2>3 DEF SlotPlaces, NoSlot
  <2>5. ASSUME NEW c \in Bookings \ {b}, NEW p \in P, <<c, p>> \in Locks
        PROVE  FALSE
    <3>1. Live(c) /\ p \in SlotPlaces(bk[c].slot)
      BY <2>5, InLocks
    <3>2. Clashes(bk[c].slot, bk'[b].slot)
      BY <2>5, <3>1 DEF SlotPlaces, Clashes, Overlaps
    <3> QED
      BY <1>3, <3>1, <3>2 DEF Takes, TriggerAllows
  <2>6. Calendar!FreeFor(b, P)
    BY <2>5 DEF Calendar!FreeFor, Calendar!Held
  <2> QED
    BY <2>2, <2>4, <2>6 DEF Calendar!Next, Calendar!Take
<1> QED
  BY <1>2, <1>3

\* Under any interleaving, the calendar of a shop behaves as the slot lock does.
THEOREM CalendarIsASlotLock == Spec => ImplementsSlotLock
<1>1. Init => Calendar!Init
  <2>1. Init => Locks = {}
    BY DEF Init, Locks, Live, UnusedBooking
  <2> QED
    BY <2>1 DEF Calendar!Init
<1>2. TypeOK /\ TypeOK' /\ [Next]_vars => [Calendar!Next]_Locks
  BY CalendarStep, FreesReleases, TakesTakes
<1> QED
  BY <1>1, <1>2, TypeCorrect, PTL DEF Spec, ImplementsSlotLock, Calendar!Spec

-----------------------------------------------------------------------------
(* What the slot lock promises. *)

LEMMA LockTypes == Calendar!TypeOK /\ [Calendar!Next]_Locks => Calendar!TypeOK'
<1> SUFFICES ASSUME Calendar!TypeOK, [Calendar!Next]_Locks PROVE Calendar!TypeOK'
  OBVIOUS
<1>1. CASE Locks' = Locks
  BY <1>1 DEF Calendar!TypeOK
<1>2. CASE \E H \in SUBSET Bookings : Calendar!Release(H)
  BY <1>2 DEF Calendar!Release, Calendar!TypeOK
<1>3. CASE \E b \in Bookings, P \in SUBSET UNION {SlotPlaces(s) : s \in Slots} : Calendar!Take(b, P)
  BY <1>3 DEF Calendar!Take, Calendar!TypeOK
<1> QED
  BY <1>1, <1>2, <1>3 DEF Calendar!Next

LEMMA LockExcludes == Calendar!Exclusive /\ [Calendar!Next]_Locks => Calendar!Exclusive'
<1> DEFINE Places == UNION {SlotPlaces(s) : s \in Slots}
<1> SUFFICES ASSUME Calendar!Exclusive, [Calendar!Next]_Locks,
                    NEW a \in Bookings, NEW b \in Bookings, a # b,
                    NEW p \in Places, <<a, p>> \in Locks', <<b, p>> \in Locks'
             PROVE  FALSE
  BY DEF Calendar!Exclusive, Calendar!Held
<1>1. ~(<<a, p>> \in Locks /\ <<b, p>> \in Locks)
  BY DEF Calendar!Exclusive, Calendar!Held
<1>2. CASE Locks' = Locks
  BY <1>1, <1>2
<1>3. CASE \E H \in SUBSET Bookings : Calendar!Release(H)
  BY <1>1, <1>3 DEF Calendar!Release
<1>4. CASE \E k \in Bookings, P \in SUBSET Places : Calendar!Take(k, P)
  <2>1. PICK k \in Bookings, P \in SUBSET Places : Calendar!Take(k, P)
    BY <1>4
  <2>2. CASE k = a
    BY <2>1, <2>2 DEF Calendar!Take, Calendar!FreeFor, Calendar!Held
  <2>3. CASE k = b
    BY <2>1, <2>3 DEF Calendar!Take, Calendar!FreeFor, Calendar!Held
  <2>4. CASE k # a /\ k # b
    BY <1>1, <2>1, <2>4 DEF Calendar!Take
  <2> QED
    BY <2>2, <2>3, <2>4
<1> QED
  BY <1>2, <1>3, <1>4 DEF Calendar!Next

\* A slot lock's locks are pairs of a holder and a place, and no place ever has
\* two holders.
THEOREM Exclusion == Calendar!Spec => [](Calendar!TypeOK /\ Calendar!Exclusive)
<1>1. Calendar!Init => Calendar!TypeOK /\ Calendar!Exclusive
  BY DEF Calendar!Init, Calendar!TypeOK, Calendar!Exclusive, Calendar!Held
<1> QED
  BY <1>1, LockTypes, LockExcludes, PTL DEF Calendar!Spec

\* So no piece of a shop's time is ever held by two live bookings.
THEOREM OneBookingPerPlace == Spec => []Calendar!Exclusive
BY CalendarIsASlotLock, Exclusion, PTL DEF ImplementsSlotLock

=============================================================================
