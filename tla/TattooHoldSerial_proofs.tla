----------------------- MODULE TattooHoldSerial_proofs -----------------------
(***************************************************************************)
(* What TattooHold guarantees when handlers run one after another: the     *)
(* handlers of writes.ts check and write in separate statements, so these  *)
(* promises rest on what a handler has read staying true until it writes.  *)
(* The hypotheses are those under which they hold, not a property of the   *)
(* deployment: OneHandler for the first two, Serial for the others.        *)
(***************************************************************************)
EXTENDS TattooHold_proofs

\* One handler in flight at a time.
OneHandler == \E w : Workers = {w}

\* Besides: no handler is cut off, the clock does not tick inside one, the
\* artist does not type "booked" over a request whose time is locked, and the
\* booking of a request that is not booked yet is not moved.
Serial ==
    /\ OneHandler
    /\ Enabled \cap {"abort", "lapseMidway", "decideBooked", "rescheduleOpen"} = {}

-----------------------------------------------------------------------------
(* What a lone handler has read is still so. *)

Owing == {"awaiting_payment", "receipt_submitted", "rejected"}
Accepting == {"acceptOverlap", "acceptInsert", "acceptWrite"}
Late == {"submitCancel", "submitExpire"}

PayFollowsStatus ==
    \A r \in Requests :
       /\ req[r].pay \in PendingPay => req[r].status = "approved"
       /\ req[r].pay = "approved" => req[r].status = "booked"
       /\ req[r].status = "none" => req[r].pay = "not_required"

RowAsRead(w) ==
    LET me == worker[w]
        row == req[me.r] IN
    /\ me.pc \notin {"idle", "sweepExpire", "rescheduleMove", "rescheduleSync"} =>
          me.r \in Requests /\ Exists(me.r)
    /\ me.pc \in Deciding =>
          /\ me.st \in Decisions
          /\ row.status # "booked"
          /\ me.st = "approved" => row.pay \notin Owing
    /\ me.pc \in {"decideOverlap", "decidePending"} => me.st = "approved"
    /\ me.pc \in Deciding \ {"decideWrite"} => me.b = row.booking
    /\ me.pc \in Accepting => row.pay = "proposal_pending" /\ row.slot = me.s
    /\ me.pc \in Late \cup {"submitWrite"} => row.pay \in HoldOpen
    /\ me.pc \in {"receiptPlan", "receiptPay", "receiptBook", "receiptReject"} =>
          row.pay = "receipt_submitted"
    /\ me.pc \in Approving \cup {"deleteCancel", "jobCancel", "decideCancel"} =>
          me.b = row.booking /\ me.b # NoBooking
    /\ me.pc \in {"deleteCancel", "deleteRow"} => row.status # "booked"

RowsAsRead == \A w \in Workers : RowAsRead(w)

\* ProposalsDisjoint and what the checks of performDecideTattooRequest have
\* established for the proposal about to be written.
ProposalsApart ==
    \A q, r \in Requests :
       q # r /\ Pending(q) /\ Pending(r) => ~Clashes(req[q].slot, req[r].slot)

ProposalChecked ==
    \A w \in Workers :
       worker[w].pc \in {"decideCancel", "decideWrite"} /\ worker[w].st = "approved" =>
          ~ProposedToAnother(worker[w].r, worker[w].s)

DepositChecked ==
    \A w \in Workers : worker[w].pc = "receiptPay" => deposits[worker[w].r] = 0

RowInv ==
    /\ TypeOK
    /\ PayFollowsStatus
    /\ RowsAsRead
    /\ ProposalsApart
    /\ ProposalChecked
    /\ DepositChecked
    /\ DepositOnce

LEMMA RowInit == Init => RowInv
<1> SUFFICES ASSUME Init PROVE RowInv
  OBVIOUS
<1>1. PayFollowsStatus /\ ProposalsApart
  BY DEF Init, PayFollowsStatus, ProposalsApart, Pending, PendingPay, UnusedRequest
<1>2. RowsAsRead /\ ProposalChecked /\ DepositChecked
  BY DEF Init, RowsAsRead, RowAsRead, ProposalChecked, DepositChecked, IdleWorker,
         Accepting, Late, Approving, Deciding
<1>3. DepositOnce
  BY DEF Init, DepositOnce
<1> QED
  BY <1>1, <1>2, <1>3, TypeInit DEF RowInv

\* With one handler, the statements of two actions are statements of one.
LEMMA Alone ==
    ASSUME OneHandler, NEW w \in Workers
    PROVE  \A v \in Workers : v = w
BY DEF OneHandler

\* The columns of the rows of tattoo_requests, when handlers know their rows.
LEMMA ColumnsStep ==
    ASSUME RowInv, [Next]_vars, NEW r \in Requests
    PROVE  /\ req'[r].pay \in PendingPay => req'[r].status = "approved"
           /\ req'[r].pay = "approved" => req'[r].status = "booked"
           /\ req'[r].status = "none" => req'[r].pay = "not_required"
           /\ Pending(r)' =>
                 \/ Pending(r) /\ req'[r].slot = req[r].slot
                 \/ \E w \in Workers : /\ At(w, "decideWrite") /\ worker[w].r = r
                                       /\ worker[w].st = "approved"
                                       /\ req'[r].slot = worker[w].s
<1> DEFINE row == req[r]
<1>0. row \in RequestRows
  BY Fields DEF RowInv
<1>a. /\ row.pay \in PendingPay => row.status = "approved"
      /\ row.pay = "approved" => row.status = "booked"
      /\ row.status = "none" => row.pay = "not_required"
  BY DEF RowInv, PayFollowsStatus
<1> HIDE DEF row
<1> USE DEF PendingPay, RequestRows, Pending
<1>1. CASE req'[r] = row
  BY <1>1, <1>a DEF row
<1>2. CASE req'[r] \in {CreatedRow, DeletedRow}
  BY <1>2 DEF CreatedRow, DeletedRow, UnusedRequest
<1>3. CASE req'[r] = Dropped(row)
  BY <1>0, <1>3 DEF Dropped
<1>4. CASE \E w \in Workers : /\ At(w, "decideWrite") /\ worker[w].r = r
                              /\ req'[r] = Decided(row, worker[w].st, worker[w].s)
  BY <1>4 DEF Decided, Decisions, RowInv, RowsAsRead, RowAsRead, Deciding, At
<1>5. CASE row.pay = "proposal_pending" /\ \E b : req'[r] = Accepted(row, b)
  BY <1>0, <1>5, <1>a DEF Accepted, row
<1>6. CASE req'[r] = Expired(row) /\ row.pay \in HoldOpen
  BY <1>0, <1>6, <1>a DEF Expired, HoldOpen
<1>7. CASE req'[r] = Submitted(row) /\ row.pay \in HoldOpen
  BY <1>0, <1>7, <1>a DEF Submitted, HoldOpen, row
<1>8. CASE req'[r] = SentBack(row) /\ row.pay = "receipt_submitted"
  BY <1>0, <1>8, <1>a DEF SentBack, row
<1>9. CASE req'[r] = Booked(row)
  BY <1>0, <1>9 DEF Booked
<1>10. CASE row.status = "booked" /\ \E s : req'[r] = [row EXCEPT !.slot = s]
  BY <1>0, <1>10, <1>a DEF row
<1>11. CASE req'[r] = [row EXCEPT !.hold = "lapsed"]
  BY <1>0, <1>11, <1>a DEF row
<1>12. ASSUME NEW w \in Workers, Writes(w, r)
       PROVE  \/ req'[r] = SentBack(row) /\ row.pay = "receipt_submitted"
              \/ req'[r] = Submitted(row) /\ row.pay \in HoldOpen
              \/ row.status = "booked" /\ \E s : req'[r] = [row EXCEPT !.slot = s]
              \/ req'[r] = Expired(row) /\ row.pay \in HoldOpen
              \/ req'[r] \in {Booked(row), Dropped(row), DeletedRow}
              \/ row.pay = "proposal_pending" /\ \E b : req'[r] = Accepted(row, b)
              \/ /\ At(w, "decideWrite") /\ worker[w].r = r
                 /\ req'[r] = Decided(row, worker[w].st, worker[w].s)
  <2>1. At(w, "receiptReject") /\ worker[w].r = r => row.pay = "receipt_submitted"
    BY DEF RowInv, RowsAsRead, RowAsRead, At, row
  <2>2. At(w, "submitWrite") /\ worker[w].r = r => row.pay \in HoldOpen
    BY DEF RowInv, RowsAsRead, RowAsRead, At, row
  <2> QED
    BY <1>12, <2>1, <2>2 DEF Writes, Follows, LapsedHold, row
<1>13. RowMoves(r)
  BY RequestStep DEF RowInv
<1> QED
  BY <1>1, <1>2, <1>3, <1>4, <1>5, <1>6, <1>7, <1>8, <1>9, <1>10, <1>11, <1>12, <1>13
     DEF RowMoves, row

LEMMA PayFollowsStatusStep ==
    ASSUME RowInv, [Next]_vars
    PROVE  PayFollowsStatus'
BY ColumnsStep DEF PayFollowsStatus

LEMMA ProposalsApartStep ==
    ASSUME OneHandler, RowInv, [Next]_vars
    PROVE  ProposalsApart'
<1> SUFFICES ASSUME NEW q \in Requests, NEW r \in Requests, q # r, Pending(q)', Pending(r)'
             PROVE  ~Clashes(req'[q].slot, req'[r].slot)
  BY DEF ProposalsApart, Clashes, Overlaps
<1> DEFINE Old(p) == Pending(p) /\ req'[p].slot = req[p].slot
           New(p) == \E w \in Workers : /\ At(w, "decideWrite") /\ worker[w].r = p
                                        /\ worker[w].st = "approved"
                                        /\ req'[p].slot = worker[w].s
<1>1. (Old(q) \/ New(q)) /\ (Old(r) \/ New(r))
  BY ColumnsStep
<1>2. CASE Old(q) /\ Old(r)
  BY <1>2 DEF RowInv, ProposalsApart
<1>3. ASSUME NEW p \in Requests, NEW o \in Requests, p # o, New(p), Old(o)
      PROVE  ~Clashes(req'[o].slot, req'[p].slot) /\ ~Clashes(req'[p].slot, req'[o].slot)
  BY <1>3 DEF RowInv, ProposalChecked, ProposedToAnother, Clashes, Overlaps, At
<1>4. ~(New(q) /\ New(r))
  BY DEF OneHandler
<1> QED
  BY <1>1, <1>2, <1>3, <1>4

-----------------------------------------------------------------------------
(* What a handler remembers, statement by statement *)

Readings(w) == RowAsRead(w) /\ (worker[w].pc = "receiptPay" => deposits[worker[w].r] = 0)

\* A handler that begins has just read its row.
LEMMA ArriveReads ==
    ASSUME TypeOK, RowsAsRead, NEW w \in Workers, Arrive(w)
    PROVE  Readings(w)'
<1> USE DEF Readings, RowAsRead, Deciding, Accepting, Late, Approving
<1>0. At(w, "idle")
  BY DEF Arrive, CreateRequest, DecideRead, AcceptRead, SubmitRead, ReceiptRead,
         DeleteRead, CancelJobRead, SweepCancel, WalkIn, SetBookingStatus,
         RescheduleRead, Start
<1>1. CASE worker' = worker
  BY <1>0, <1>1 DEF At
<1>2. ASSUME NEW r \in Requests, NEW st \in Decisions, NEW s \in Slots \cup {NoSlot},
             DecideRead(w, r, st, s)
      PROVE  Readings(w)'
  <2>1. /\ worker'[w].r = r /\ worker'[w].b = req[r].booking /\ worker'[w].st = st
        /\ worker'[w].pc = IF st = "approved" THEN "decideOverlap"
                           ELSE IF req[r].booking # NoBooking THEN worker'[w].pc
                           ELSE "decideWrite"
        /\ worker'[w].pc \in Deciding
        /\ worker'[w].pc = "decideOverlap" => st = "approved"
        /\ worker'[w].pc = "decideCancel" => req[r].booking # NoBooking
        /\ worker'[w].pc # "decidePending"
    BY <1>2, LocalFields DEF DecideRead, AfterChecks
  <2>2. /\ req' = req /\ Exists(r) /\ req[r].status # "booked"
        /\ st = "approved" => req[r].pay \notin Owing
    BY <1>2 DEF DecideRead, Owing
  <2> QED
    BY <2>1, <2>2 DEF Exists
<1>3. ASSUME NEW r \in Requests, AcceptRead(w, r)
      PROVE  Readings(w)'
  BY <1>3 DEF AcceptRead, Become, Local, TypeOK, Exists
<1>4. ASSUME NEW r \in Requests, SubmitRead(w, r)
      PROVE  Readings(w)'
  <2>1. /\ worker'[w].r = r
        /\ worker'[w].pc \in {"submitWrite", "submitCancel"}
    BY <1>4, LocalFields DEF SubmitRead
  <2> QED
    BY <1>4, <2>1 DEF SubmitRead, Exists
<1>5. ASSUME NEW r \in Requests, NEW approved \in BOOLEAN, ReceiptRead(w, r, approved)
      PROVE  Readings(w)'
  <2>1. /\ worker'[w].r = r /\ worker'[w].b = req[r].booking
        /\ worker'[w].pc = IF approved THEN "receiptPlan" ELSE "receiptReject"
    BY <1>5, LocalFields DEF ReceiptRead
  <2> QED
    BY <1>5, <2>1 DEF ReceiptRead, Exists
<1>6. ASSUME NEW r \in Requests, DeleteRead(w, r)
      PROVE  Readings(w)'
  <2>1. /\ worker'[w].r = r /\ worker'[w].b = req[r].booking
        /\ worker'[w].pc = IF req[r].booking # NoBooking THEN "deleteCancel" ELSE "deleteRow"
    BY <1>6, LocalFields DEF DeleteRead
  <2> QED
    BY <1>6, <2>1 DEF DeleteRead, Exists
<1>7. ASSUME NEW r \in Requests, CancelJobRead(w, r)
      PROVE  Readings(w)'
  <2>1. /\ worker'[w].r = r /\ worker'[w].b = req[r].booking
        /\ worker'[w].pc = IF req[r].booking # NoBooking THEN "jobCancel" ELSE "jobWrite"
    BY <1>7, LocalFields DEF CancelJobRead
  <2> QED
    BY <1>7, <2>1 DEF CancelJobRead, Exists
<1>8. CASE \E scope \in (SUBSET Requests) \ {{}} : SweepCancel(w, scope)
  BY <1>8 DEF SweepCancel, Become, IdleWorker, TypeOK
<1>9. CASE \E b \in Bookings, s \in Slots : RescheduleRead(w, b, s)
  BY <1>9, LocalFields DEF RescheduleRead
<1> QED
  BY <1>1, <1>2, <1>3, <1>4, <1>5, <1>6, <1>7, <1>8, <1>9
     DEF Arrive, CreateRequest, WalkIn, SetBookingStatus

\* A handler that goes on still knows its row, which only it writes.
LEMMA ContinueReads ==
    ASSUME TypeOK, RowsAsRead, NEW w \in Workers, Continue(w)
    PROVE  Readings(w)'
<1> USE DEF Readings, RowAsRead, Deciding, Accepting, Late, Approving
<1>0. RowAsRead(w)
  BY DEF RowsAsRead
<1>1. CASE Done(w)
  BY <1>1, DoneFields
<1>2. ASSUME NEW pc, Goto(w, pc), req' = req,
             \/ At(w, "decideOverlap") /\ pc = "decidePending"
             \/ At(w, "decideCancel") /\ pc = "decideWrite"
             \/ At(w, "submitCancel") /\ pc = "submitExpire"
             \/ At(w, "receiptPlan") /\ pc = "receiptBook"
             \/ At(w, "receiptPay") /\ pc = "receiptBook"
             \/ At(w, "deleteCancel") /\ pc = "deleteRow"
             \/ At(w, "jobCancel") /\ pc = "jobWrite"
             \/ At(w, "rescheduleMove") /\ pc = "rescheduleSync"
      PROVE  Readings(w)'
  BY <1>0, <1>2, GotoFields DEF At, Exists
<1>3. CASE DecidePending(w)
  BY <1>0, <1>1, <1>3, GotoFields DEF DecidePending, AfterChecks, At, Exists
<1>4. CASE AcceptOverlap(w)
  BY <1>0, <1>1, <1>4 DEF AcceptOverlap, At, Exists, Goto, Become, TypeOK, WorkerRows
<1>5. CASE \E b \in Bookings : AcceptInsert(w, b)
  BY <1>0, <1>5 DEF AcceptInsert, At, Exists, Become, TypeOK, WorkerRows
<1>6. CASE ReceiptPlan(w)
  <2>1. CASE NeedsDeposit(worker[w].r)
    BY <1>0, <1>6, <2>1, GotoFields DEF ReceiptPlan, NeedsDeposit, At, Exists
  <2>2. CASE ~NeedsDeposit(worker[w].r)
    BY <1>2, <1>6, <2>2 DEF ReceiptPlan
  <2> QED
    BY <2>1, <2>2
<1>7. CASE ReceiptBook(w)
  <2>1. /\ At(w, "receiptBook") /\ Goto(w, "receiptConfirm")
        /\ worker[w].r \in Requests /\ Exists(worker[w].r)
        /\ req' = [req EXCEPT ![worker[w].r] = Booked(req[worker[w].r])]
    BY <1>0, <1>7 DEF ReceiptBook, UpdateRequest, At
  <2>2. /\ req'[worker[w].r].status = "booked"
        /\ req'[worker[w].r].booking = req[worker[w].r].booking
    BY <2>1 DEF Booked, TypeOK, RequestRows
  <2> QED
    BY <1>0, <2>1, <2>2, GotoFields DEF At, Exists
<1> QED
  BY <1>1, <1>2, <1>3, <1>4, <1>5, <1>6, <1>7
     DEF Continue, DecideOverlap, DecideCancel, DecideWrite, AcceptRefused,
         AcceptWrite, SubmitWrite, SubmitCancel, SubmitExpire, ReceiptPay,
         ReceiptConfirm, ReceiptReject, SweepExpire, DeleteCancel, DeleteRow,
         JobCancel, JobWrite, RescheduleMove, RescheduleSync

LEMMA ReadingsStep ==
    ASSUME OneHandler, RowInv, [Next]_vars
    PROVE  RowsAsRead' /\ DepositChecked'
<1> SUFFICES ASSUME NEW w \in Workers PROVE Readings(w)'
  BY DEF Readings, RowsAsRead, DepositChecked
<1>0. TypeOK /\ RowsAsRead /\ Readings(w)
  BY DEF RowInv, Readings, RowsAsRead, DepositChecked
<1>1. CASE \E v \in Workers : Arrive(v) \/ Continue(v)
  BY <1>0, <1>1, Alone, ArriveReads, ContinueReads
<1>2. CASE \E v \in Workers : Abort(v)
  BY <1>0, <1>2, Alone, DoneFields
     DEF Abort, Readings, RowAsRead, Deciding, Accepting, Late, Approving
<1>3. CASE \E r \in Requests : Lapse(r)
  <2>1. PICK r \in Requests : Lapse(r)
    BY <1>3
  <2>2. \A q \in Requests :
           /\ req'[q].status = req[q].status /\ req'[q].pay = req[q].pay
           /\ req'[q].booking = req[q].booking /\ req'[q].slot = req[q].slot
    BY <1>0, <2>1 DEF Lapse, TypeOK, RequestRows
  <2>3. worker' = worker /\ deposits' = deposits
    BY <2>1 DEF Lapse
  <2>4. worker[w].pc \in Deciding \cup Accepting \cup Late \cup Approving \cup
           {"submitWrite", "receiptReject", "deleteCancel", "deleteRow", "jobCancel"}
           => worker[w].r \in Requests
    BY <1>0 DEF Readings, RowAsRead, Deciding, Accepting, Late, Approving
  <2> QED
    BY <1>0, <2>2, <2>3, <2>4
       DEF Readings, RowAsRead, Exists, Deciding, Accepting, Late, Approving
<1>4. CASE UNCHANGED vars
  BY <1>0, <1>4
     DEF vars, Readings, RowAsRead, Exists, Deciding, Accepting, Late, Approving
<1> QED
  BY <1>1, <1>2, <1>3, <1>4 DEF Next

\* Between the check of a proposal and its UPDATE no other proposal appears.
LEMMA ProposalCheckedStep ==
    ASSUME OneHandler, RowInv, [Next]_vars
    PROVE  ProposalChecked'
<1> SUFFICES ASSUME NEW w \in Workers, worker'[w].st = "approved",
                    worker'[w].pc \in {"decideCancel", "decideWrite"}
             PROVE  ~ProposedToAnother(worker[w].r, worker[w].s)'
  BY DEF ProposalChecked
<1>0. TypeOK /\ \A v \in Workers : v = w
  BY Alone DEF RowInv
<1>1. ASSUME ~ProposedToAnother(worker[w].r, worker[w].s),
             worker'[w].r = worker[w].r, worker'[w].s = worker[w].s,
             ~At(w, "decideWrite") \/ UNCHANGED vars \/ \E r \in Requests : Lapse(r)
      PROVE  ~ProposedToAnother(worker[w].r, worker[w].s)'
  <2>1. \A q \in Requests : Pending(q)' => Pending(q) /\ req'[q].slot = req[q].slot
    <3>1. CASE ~At(w, "decideWrite")
      BY <1>0, <3>1, ColumnsStep
    <3>2. CASE UNCHANGED vars
      BY <3>2 DEF vars, Pending
    <3>3. CASE \E r \in Requests : Lapse(r)
      BY <1>0, <3>3 DEF Lapse, Pending, TypeOK, RequestRows
    <3> QED
      BY <1>1, <3>1, <3>2, <3>3
  <2> QED
    BY <1>1, <2>1 DEF ProposedToAnother, Clashes, Overlaps
<1>2. CASE worker' = worker /\ (UNCHANGED vars \/ \E r \in Requests : Lapse(r))
  BY <1>1, <1>2 DEF RowInv, ProposalChecked
<1>3. CASE DecidePending(w)
  <2>1. /\ worker'[w].r = worker[w].r /\ worker'[w].s = worker[w].s
        /\ At(w, "decidePending")
        /\ ~ProposedToAnother(worker[w].r, worker[w].s)
    BY <1>0, <1>3, DoneFields DEF DecidePending, Goto, Become, TypeOK, WorkerRows
  <2> QED
    BY <1>1, <2>1 DEF At
<1>4. CASE DecideCancel(w)
  <2>1. /\ worker'[w].r = worker[w].r /\ worker'[w].s = worker[w].s
        /\ worker'[w].st = worker[w].st /\ At(w, "decideCancel")
    BY <1>0, <1>4 DEF DecideCancel, Goto, Become, TypeOK, WorkerRows
  <2>2. ~ProposedToAnother(worker[w].r, worker[w].s)
    BY <2>1 DEF RowInv, ProposalChecked, At
  <2> QED
    BY <1>1, <2>1, <2>2 DEF At
<1>5. CASE Arrive(w)
  <2>1. At(w, "idle")
    BY <1>5
       DEF Arrive, CreateRequest, DecideRead, AcceptRead, SubmitRead, ReceiptRead,
           DeleteRead, CancelJobRead, SweepCancel, WalkIn, SetBookingStatus,
           RescheduleRead, Start
  <2>2. ASSUME NEW r \in Requests, NEW st \in Decisions, NEW s \in Slots \cup {NoSlot},
               DecideRead(w, r, st, s)
        PROVE  FALSE
    BY <1>0, <2>2, LocalFields DEF DecideRead
  <2>3. ASSUME NEW r \in Requests,
               \/ AcceptRead(w, r) \/ SubmitRead(w, r) \/ DeleteRead(w, r)
               \/ CancelJobRead(w, r) \/ \E approved \in BOOLEAN : ReceiptRead(w, r, approved)
        PROVE  FALSE
    BY <1>0, <2>3, LocalFields
       DEF AcceptRead, SubmitRead, DeleteRead, CancelJobRead, ReceiptRead
  <2>4. ASSUME NEW b \in Bookings, NEW s \in Slots, RescheduleRead(w, b, s)
        PROVE  FALSE
    BY <1>0, <2>4, LocalFields DEF RescheduleRead
  <2>5. ASSUME NEW scope, SweepCancel(w, scope)
        PROVE  FALSE
    BY <1>0, <2>5 DEF SweepCancel, Become, IdleWorker, TypeOK
  <2>6. worker' # worker
    BY <2>1 DEF At
  <2> QED
    BY <1>5, <2>2, <2>3, <2>4, <2>5, <2>6
       DEF Arrive, CreateRequest, WalkIn, SetBookingStatus
<1>6. CASE Continue(w)
  <2>1. ~Done(w)
    BY <1>0, DoneFields
  <2>2. ASSUME NEW pc, Goto(w, pc), pc \notin {"decideCancel", "decideWrite"}
        PROVE  FALSE
    BY <1>0, <2>2, GotoFields
  <2>3. ASSUME NEW b \in Bookings, AcceptInsert(w, b)
        PROVE  FALSE
    BY <1>0, <2>3 DEF AcceptInsert, Become, TypeOK, WorkerRows
  <2> QED
    BY <1>3, <1>4, <1>6, <2>1, <2>2, <2>3
       DEF Continue, DecideOverlap, DecideWrite, AcceptOverlap, AcceptRefused,
           AcceptWrite, SubmitWrite, SubmitCancel, SubmitExpire, ReceiptPlan,
           ReceiptPay, ReceiptBook, ReceiptConfirm, ReceiptReject, SweepExpire,
           DeleteCancel, DeleteRow, JobCancel, JobWrite, RescheduleMove,
           RescheduleSync
<1>7. CASE Abort(w)
  BY <1>0, <1>7, DoneFields DEF Abort
<1> QED
  BY <1>0, <1>2, <1>5, <1>6, <1>7 DEF Next, vars, Lapse

\* receiptPlan looked for the deposit, and nobody has added one since.
LEMMA DepositOnceStep ==
    ASSUME RowInv, [Next]_vars
    PROVE  DepositOnce'
<1> SUFFICES ASSUME NEW r \in Requests PROVE deposits'[r] <= 1
  BY DEF DepositOnce
<1>0. TypeOK /\ deposits[r] \in Nat /\ deposits[r] <= 1
  BY DEF RowInv, DepositOnce, TypeOK
<1>1. CASE deposits' = deposits
  BY <1>0, <1>1
<1>2. CASE \E w \in Workers : ReceiptPay(w)
  BY <1>0, <1>2 DEF ReceiptPay, RowInv, DepositChecked, At, TypeOK
<1>3. CASE \E w \in Workers : DeleteRow(w)
  BY <1>0, <1>3 DEF DeleteRow, TypeOK
<1>4. CASE \E w \in Workers : Arrive(w)
  <2>1. PICK w \in Workers : Arrive(w)
    BY <1>4
  <2>2. deposits' = deposits
    BY <2>1
       DEF Arrive, CreateRequest, DecideRead, AcceptRead, SubmitRead, ReceiptRead,
           DeleteRead, CancelJobRead, RescheduleRead, SweepCancel, WalkIn,
           SetBookingStatus
  <2> QED
    BY <1>1, <2>2
<1>5. CASE \E w \in Workers : Continue(w)
  BY <1>1, <1>2, <1>3, <1>5
     DEF Continue, DecideOverlap, DecidePending, DecideCancel, DecideWrite,
         AcceptOverlap, AcceptInsert, AcceptRefused, AcceptWrite, SubmitWrite,
         SubmitCancel, SubmitExpire, ReceiptPlan, ReceiptBook, ReceiptConfirm,
         ReceiptReject, SweepExpire, DeleteCancel, JobCancel, JobWrite,
         RescheduleMove, RescheduleSync
<1> QED
  BY <1>1, <1>2, <1>4, <1>5 DEF Next, vars, Abort, Lapse

LEMMA RowStep == OneHandler /\ RowInv /\ [Next]_vars => RowInv'
BY TypeStep, PayFollowsStatusStep, ReadingsStep, ProposalsApartStep,
   ProposalCheckedStep, DepositOnceStep DEF RowInv

LEMMA RowsKnown == OneHandler => (Spec => []RowInv)
<1> SUFFICES ASSUME OneHandler PROVE Spec => []RowInv
  OBVIOUS
<1>1. RowInv /\ [Next]_vars => RowInv'
  BY RowStep
<1> QED
  BY <1>1, RowInit, PTL DEF Spec

\* With one handler at a time, one time is never on offer to two customers of a
\* shop: performDecideTattooRequest checks and writes in separate statements.
THEOREM OneOfferPerTime == OneHandler => (Spec => []ProposalsDisjoint)
<1>1. RowInv => ProposalsDisjoint
  BY DEF RowInv, ProposalsApart, ProposalsDisjoint
<1> QED
  BY <1>1, RowsKnown, PTL

\* With one handler at a time, approving receipts, in any order and cut off
\* anywhere, records the deposit of a request once.
THEOREM DepositNeverTwice == OneHandler => (Spec => []DepositOnce)
<1>1. RowInv => DepositOnce
  BY DEF RowInv
<1> QED
  BY <1>1, RowsKnown, PTL

-----------------------------------------------------------------------------
(* Locks, when handlers also run to their end. *)

Unlocked(r) ==
    req[r].booking = NoBooking \/ bk[req[r].booking].status # "requested"

Held(r) ==
    /\ req[r].booking # NoBooking
    /\ Live(req[r].booking) \/ bk[req[r].booking].byHand

\* The handler has released the lock of the request and is about to write so.
Giving(w, r) ==
    LET me == worker[w] IN
    \/ me.pc \in {"decideWrite", "submitExpire", "deleteRow", "jobWrite"} /\ me.r = r
    \/ me.pc = "sweepExpire" /\ r \in me.scope /\ LapsedHold(r)

\* What a handler knows of the bookings between two of its statements.
InFlight(w) ==
    LET me == worker[w] IN
    /\ me.pc \in Deciding => me.st # "booked"
    /\ \A r \in Requests : Giving(w, r) => Unlocked(r)
    /\ me.pc = "acceptWrite" =>
          bk[me.b].slot = me.s /\ bk[me.b].status = "requested"
    /\ me.pc \in {"rescheduleMove", "rescheduleSync"} =>
          /\ me.b \in Bookings
          /\ \A r \in Requests : req[r].booking = me.b => req[r].status = "booked"
    /\ me.pc = "rescheduleSync" => bk[me.b].slot = me.s
    /\ me.pc = "receiptConfirm" => Held(me.r)

\* LockHeld, NoOrphanLock, SlotAgrees and BookedIsConfirmed of one request or
\* booking, at rest ...
HeldAtRest(r) == req[r].pay \in Owing => Held(r)

OwnedAtRest(b) ==
    bk[b].status = "requested" /\ bk[b].owner # NoRequest /\ ~bk[b].byHand
        => req[bk[b].owner].booking = b

AgreesAtRest(r) ==
    req[r].booking # NoBooking => bk[req[r].booking].slot = req[r].slot

ConfirmedAtRest(r) ==
    req[r].status = "booked" /\ req[r].booking # NoBooking =>
        bk[req[r].booking].status = "confirmed" \/ bk[req[r].booking].byHand

AtRest ==
    /\ \A r \in Requests : HeldAtRest(r) /\ AgreesAtRest(r) /\ ConfirmedAtRest(r)
    /\ \A b \in Bookings : OwnedAtRest(b)

\* ... and with what the handler in flight has yet to write.
Midway(w) ==
    LET me == worker[w] IN
    /\ \A r \in Requests :
          /\ HeldAtRest(r) \/ Giving(w, r)
          /\ \/ AgreesAtRest(r)
             \/ me.pc = "rescheduleSync" /\ me.b = req[r].booking
          /\ \/ ConfirmedAtRest(r)
             \/ me.pc \in {"receiptConfirm", "jobWrite"} /\ me.r = r
    /\ \A b \in Bookings :
          \/ OwnedAtRest(b)
          \/ me.pc = "acceptWrite" /\ me.b = b /\ me.r = bk[b].owner

LockInv == \A w \in Workers : InFlight(w) /\ Midway(w)

SerialInv ==
    /\ RowInv
    /\ DepositInv
    /\ NoOverlap
    /\ NoStaleLink
    /\ LockInv

\* A handler with nothing half done.
Calm(w) ==
    worker[w].pc \notin {"decideWrite", "submitExpire", "deleteRow", "jobWrite",
                         "sweepExpire", "rescheduleSync", "receiptConfirm",
                         "acceptWrite"}

LEMMA LockInit == Init => LockInv
<1> SUFFICES ASSUME Init, NEW w \in Workers PROVE InFlight(w) /\ Midway(w)
  BY DEF LockInv
<1>1. worker[w].pc = "idle"
  BY DEF Init, IdleWorker
<1>2. InFlight(w)
  BY <1>1 DEF InFlight, Giving, Deciding
<1>a. ASSUME NEW r \in Requests
      PROVE  HeldAtRest(r) /\ AgreesAtRest(r) /\ ConfirmedAtRest(r)
  BY DEF Init, HeldAtRest, AgreesAtRest, ConfirmedAtRest, UnusedRequest, Owing
<1>b. ASSUME NEW b \in Bookings PROVE OwnedAtRest(b)
  BY DEF Init, OwnedAtRest, UnusedBooking
<1>3. Midway(w)
  BY <1>a, <1>b DEF Midway
<1> QED
  BY <1>2, <1>3

LEMMA CalmAtRest ==
    ASSUME NEW w \in Workers, Midway(w), Calm(w)
    PROVE  AtRest
BY DEF AtRest, Midway, Calm, Giving

LEMMA AtRestIsMidway ==
    ASSUME AtRest, NEW w \in Workers
    PROVE  Midway(w)
<1>1. \A r \in Requests : HeldAtRest(r) /\ AgreesAtRest(r) /\ ConfirmedAtRest(r)
  BY DEF AtRest
<1>2. \A b \in Bookings : OwnedAtRest(b)
  BY DEF AtRest
<1> QED
  BY <1>1, <1>2 DEF Midway

\* No two requests point at the same booking.
LEMMA LinksApart ==
    ASSUME LinksOwned, NEW q \in Requests, NEW r \in Requests,
           req[q].booking = req[r].booking, req[r].booking # NoBooking
    PROVE  q = r /\ req[r].booking \in Bookings /\ bk[req[r].booking].owner = r
           /\ bk[req[r].booking].status # "free"
BY DEF LinksOwned, Owned

\* A statement that writes neither requests nor bookings leaves what is at rest.
LEMMA RestStep ==
    ASSUME AtRest, req' = req, bk' = bk
    PROVE  AtRest'
BY DEF AtRest, HeldAtRest, OwnedAtRest, AgreesAtRest, ConfirmedAtRest, Held, Live

\* UPDATE bookings SET status = 'cancelled' ... AND status = 'requested', on the
\* bookings of the requests whose locks the handler goes on to give up.
LEMMA CancelStep ==
    ASSUME TypeOK, LinksOwned, AtRest, NEW w \in Workers, NEW B, CancelRequested(B),
           req' = req,
           \A r \in Requests :
              /\ req[r].booking # NoBooking /\ req[r].booking \in B => Giving(w, r)'
              /\ Giving(w, r)' => req[r].booking \in B \cup {NoBooking}
    PROVE  Midway(w)' /\ \A r \in Requests : Giving(w, r)' => Unlocked(r)'
<1>1. \A b \in Bookings :
         /\ bk'[b].slot = bk[b].slot /\ bk'[b].owner = bk[b].owner
         /\ bk'[b].byHand = bk[b].byHand
         /\ bk[b].status # "requested" \/ b \notin B => bk'[b].status = bk[b].status
         /\ bk[b].status = "requested" /\ b \in B => bk'[b].status = "cancelled"
  BY DEF CancelRequested, BookingRows, TypeOK
<1>2. ASSUME NEW r \in Requests
      PROVE  /\ (HeldAtRest(r) \/ Giving(w, r))'
             /\ AgreesAtRest(r)'
             /\ ConfirmedAtRest(r)'
             /\ Giving(w, r)' => Unlocked(r)'
  <2>1. req[r].booking # NoBooking => req[r].booking \in Bookings
    BY DEF LinksOwned, Owned
  <2>2. HeldAtRest(r) /\ AgreesAtRest(r) /\ ConfirmedAtRest(r)
    BY DEF AtRest
  <2>3. (HeldAtRest(r) \/ Giving(w, r))'
    BY <1>1, <2>1, <2>2 DEF HeldAtRest, Held, Live
  <2>4. AgreesAtRest(r)' /\ ConfirmedAtRest(r)'
    BY <1>1, <2>1, <2>2 DEF AgreesAtRest, ConfirmedAtRest
  <2>5. Giving(w, r)' => Unlocked(r)'
    BY <1>1, <2>1 DEF Unlocked
  <2> QED
    BY <2>3, <2>4, <2>5
<1>3. ASSUME NEW b \in Bookings PROVE OwnedAtRest(b)'
  BY <1>1, <1>3 DEF AtRest, OwnedAtRest
<1> QED
  BY <1>2, <1>3 DEF Midway

\* A statement that writes requests: the rows it changes let go of a booking
\* that is not locked, and are all the rows whose locks it had given up.
LEMMA LetGoStep ==
    ASSUME TypeOK, LinksOwned, NEW w \in Workers, InFlight(w), Midway(w), bk' = bk,
           worker[w].pc \notin {"rescheduleSync", "receiptConfirm", "acceptWrite"},
           worker'[w].pc = "idle",
           \A r \in Requests :
              \/ /\ req'[r].booking = NoBooking /\ req'[r].pay \notin Owing
                 /\ Unlocked(r)
              \/ /\ req'[r] = req[r] /\ ~Giving(w, r)
                 /\ ~(worker[w].pc = "jobWrite" /\ worker[w].r = r)
    PROVE  AtRest'
<1>1. ASSUME NEW r \in Requests
      PROVE  (HeldAtRest(r) /\ AgreesAtRest(r) /\ ConfirmedAtRest(r))'
  BY <1>1 DEF Midway, HeldAtRest, AgreesAtRest, ConfirmedAtRest, Held, Live
<1>2. ASSUME NEW b \in Bookings PROVE OwnedAtRest(b)'
  <2>1. OwnedAtRest(b)
    BY DEF Midway
  <2>2. bk[b].owner \in Requests \cup {NoRequest} /\ b # NoBooking
    BY Fields, NoneIsNoId DEF BookingRows
  <2> QED
    BY <2>1, <2>2 DEF OwnedAtRest, Unlocked
<1> QED
  BY <1>1, <1>2 DEF AtRest

LEMMA NextMidway ==
    ASSUME AtRest', NEW w \in Workers
    PROVE  Midway(w)'
<1>1. \A r \in Requests : HeldAtRest(r)' /\ AgreesAtRest(r)' /\ ConfirmedAtRest(r)'
  BY DEF AtRest
<1>2. \A b \in Bookings : OwnedAtRest(b)'
  BY DEF AtRest
<1> QED
  BY <1>1, <1>2 DEF Midway

LEMMA IdleInFlight ==
    ASSUME NEW w \in Workers, worker'[w].pc = "idle"
    PROVE  InFlight(w)'
BY DEF InFlight, Giving, Deciding

\* The statements of a handler that only read.
Reads(w, r) ==
    \/ \E st \in Decisions, s \in Slots \cup {NoSlot} : DecideRead(w, r, st, s)
    \/ AcceptRead(w, r)
    \/ SubmitRead(w, r)
    \/ \E approved \in BOOLEAN : ReceiptRead(w, r, approved)
    \/ DeleteRead(w, r)
    \/ CancelJobRead(w, r)

LEMMA ReadsInFlight ==
    ASSUME Serial, TypeOK, NEW w \in Workers, NEW r \in Requests, Reads(w, r)
    PROVE  InFlight(w)' /\ req' = req /\ bk' = bk
<1> USE DEF InFlight, Deciding
<1>0. ASSUME req' = req, worker'[w].r = r,
             worker'[w].pc \notin {"sweepExpire", "acceptWrite", "rescheduleMove",
                                   "rescheduleSync", "receiptConfirm"},
             worker'[w].pc \in {"decideWrite", "submitExpire", "deleteRow", "jobWrite"}
                => req[r].booking = NoBooking,
             worker'[w].pc \in Deciding => worker'[w].st # "booked"
      PROVE  InFlight(w)'
  BY <1>0 DEF Giving, Unlocked
<1>1. ASSUME NEW st \in Decisions, NEW s \in Slots \cup {NoSlot}, DecideRead(w, r, st, s)
      PROVE  InFlight(w)' /\ req' = req /\ bk' = bk
  <2>1. st # "booked"
    BY <1>1 DEF DecideRead, Serial
  <2>2. /\ worker'[w].r = r /\ worker'[w].st = st
        /\ worker'[w].pc \in Deciding
        /\ worker'[w].pc = "decideWrite" => req[r].booking = NoBooking
    BY <1>1, <2>1, LocalFields DEF DecideRead, AfterChecks, CancellingDecisions, Decisions
  <2>3. req' = req /\ bk' = bk
    BY <1>1 DEF DecideRead
  <2> QED
    BY <1>0, <2>1, <2>2, <2>3
<1>2. ASSUME AcceptRead(w, r)
      PROVE  InFlight(w)' /\ req' = req /\ bk' = bk
  BY <1>0, <1>2, LocalFields DEF AcceptRead
<1>3. ASSUME SubmitRead(w, r)
      PROVE  InFlight(w)' /\ req' = req /\ bk' = bk
  BY <1>0, <1>3, LocalFields DEF SubmitRead
<1>4. ASSUME NEW approved \in BOOLEAN, ReceiptRead(w, r, approved)
      PROVE  InFlight(w)' /\ req' = req /\ bk' = bk
  BY <1>0, <1>4, LocalFields DEF ReceiptRead
<1>5. ASSUME DeleteRead(w, r)
      PROVE  InFlight(w)' /\ req' = req /\ bk' = bk
  <2>1. /\ worker'[w].r = r
        /\ worker'[w].pc = IF req[r].booking # NoBooking THEN "deleteCancel" ELSE "deleteRow"
    BY <1>5, LocalFields DEF DeleteRead
  <2> QED
    BY <1>0, <1>5, <2>1 DEF DeleteRead
<1>6. ASSUME CancelJobRead(w, r)
      PROVE  InFlight(w)' /\ req' = req /\ bk' = bk
  <2>1. /\ worker'[w].r = r
        /\ worker'[w].pc = IF req[r].booking # NoBooking THEN "jobCancel" ELSE "jobWrite"
    BY <1>6, LocalFields DEF CancelJobRead
  <2> QED
    BY <1>0, <1>6, <2>1 DEF CancelJobRead
<1> QED
  BY <1>1, <1>2, <1>3, <1>4, <1>5, <1>6 DEF Reads

LEMMA ArriveLocks ==
    ASSUME Serial, SerialInv, NEW w \in Workers, Arrive(w)
    PROVE  InFlight(w)' /\ Midway(w)'
<1>0. /\ TypeOK /\ LinksOwned /\ NoStaleLink /\ PayFollowsStatus
      /\ InFlight(w) /\ Midway(w)
  BY DEF SerialInv, RowInv, DepositInv, LockInv
<1>1. At(w, "idle")
  BY DEF Arrive, CreateRequest, DecideRead, AcceptRead, SubmitRead, ReceiptRead,
         DeleteRead, CancelJobRead, SweepCancel, WalkIn, SetBookingStatus,
         RescheduleRead, Start
<1>2. AtRest
  BY <1>0, <1>1, CalmAtRest DEF Calm, At
<1>3. CASE \E r \in Requests : Reads(w, r)
  BY <1>0, <1>2, <1>3, ReadsInFlight, RestStep, NextMidway
<1>4. ASSUME NEW r \in Requests, CreateRequest(w, r)
      PROVE  InFlight(w)' /\ Midway(w)'
  <2>1. req' = [req EXCEPT ![r] = CreatedRow] /\ bk' = bk /\ worker' = worker
    BY <1>4 DEF CreateRequest
  <2>2. /\ \A q \in Requests : q # r => req'[q] = req[q]
        /\ req'[r].booking = NoBooking /\ req'[r].pay \notin Owing
    BY <1>0, <2>1 DEF CreatedRow, UnusedRequest, TypeOK, Owing
  <2>3. req[r].booking = NoBooking
    BY <1>0, <1>4 DEF CreateRequest, PayFollowsStatus, NoStaleLink
  <2>4. \A q \in Requests : ~Giving(w, q)
    BY <1>1 DEF Giving, At
  <2>5. AtRest'
    BY <1>0, <1>1, <2>1, <2>2, <2>3, <2>4, LetGoStep DEF At, Unlocked
  <2> QED
    BY <1>1, <2>1, <2>5, NextMidway, IdleInFlight DEF At
<1>5. ASSUME NEW scope \in SUBSET Requests, SweepCancel(w, scope)
      PROVE  InFlight(w)' /\ Midway(w)'
  <2>1. /\ worker'[w].pc = "sweepExpire" /\ worker'[w].scope = scope
        /\ req' = req /\ CancelRequested(LapsedBookings(scope))
    BY <1>0, <1>5 DEF SweepCancel, Become, IdleWorker, TypeOK
  <2>2. \A r \in Requests : Giving(w, r)' <=> r \in scope /\ LapsedHold(r)
    BY <2>1 DEF Giving, LapsedHold
  <2>3. ASSUME NEW r \in Requests, req[r].booking # NoBooking,
               req[r].booking \in LapsedBookings(scope)
        PROVE  Giving(w, r)'
    <3>1. PICK q \in Requests : q \in scope /\ LapsedHold(q) /\ req[q].booking = req[r].booking
      BY <2>3 DEF LapsedBookings
    <3>2. q = r
      BY <1>0, <2>3, <3>1, LinksApart
    <3> QED
      BY <2>2, <3>1, <3>2
  <2>4. \A r \in Requests : Giving(w, r)' => req[r].booking \in LapsedBookings(scope)
    BY <2>2 DEF LapsedBookings
  <2>5. Midway(w)' /\ \A r \in Requests : Giving(w, r)' => Unlocked(r)'
    BY <1>0, <1>2, <2>1, <2>3, <2>4, CancelStep
  <2> QED
    BY <2>1, <2>5 DEF InFlight, Deciding
<1>6. ASSUME NEW b \in Bookings, NEW s \in Slots, NEW st \in {"requested", "confirmed"},
             WalkIn(w, b, s, st)
      PROVE  InFlight(w)' /\ Midway(w)'
  <2>1. /\ bk[b].status = "free" /\ worker' = worker /\ req' = req
        /\ bk'[b].owner = NoRequest
        /\ \A c \in Bookings \ {b} : bk'[c] = bk[c]
    BY <1>0, <1>6 DEF WalkIn, NewBooking, TypeOK
  <2>2. \A r \in Requests : req[r].booking # NoBooking => req[r].booking \in Bookings \ {b}
    BY <1>0, <2>1 DEF LinksOwned, Owned
  <2>3. AtRest'
    BY <1>2, <2>1, <2>2
       DEF AtRest, HeldAtRest, OwnedAtRest, AgreesAtRest, ConfirmedAtRest, Held, Live
  <2> QED
    BY <1>1, <2>1, <2>3, NextMidway, IdleInFlight DEF At
<1>7. ASSUME NEW b \in Bookings, NEW st \in BookingStatuses, SetBookingStatus(w, b, st)
      PROVE  InFlight(w)' /\ Midway(w)'
  <2>1. /\ worker' = worker /\ req' = req
        /\ bk'[b].byHand /\ bk'[b].slot = bk[b].slot
        /\ \A c \in Bookings \ {b} : bk'[c] = bk[c]
    BY <1>0, <1>7 DEF SetBookingStatus, TypeOK, BookingRows
  <2>2. \A r \in Requests : req[r].booking # NoBooking => req[r].booking \in Bookings
    BY <1>0 DEF LinksOwned, Owned
  <2>3. AtRest'
    BY <1>2, <2>1, <2>2
       DEF AtRest, HeldAtRest, OwnedAtRest, AgreesAtRest, ConfirmedAtRest, Held, Live
  <2> QED
    BY <1>1, <2>1, <2>3, NextMidway, IdleInFlight DEF At
<1>8. ASSUME NEW b \in Bookings, NEW s \in Slots, RescheduleRead(w, b, s)
      PROVE  InFlight(w)' /\ Midway(w)'
  <2>1. /\ worker'[w].pc = "rescheduleMove" /\ worker'[w].b = b
        /\ req' = req /\ bk' = bk
    BY <1>0, <1>8, LocalFields DEF RescheduleRead
  <2>2. \A r \in Requests : req[r].booking = b => req[r].status = "booked"
    BY <1>8 DEF RescheduleRead, Serial
  <2>3. InFlight(w)'
    BY <2>1, <2>2 DEF InFlight, Giving, Deciding
  <2> QED
    BY <1>2, <2>1, <2>3, RestStep, NextMidway
<1> QED
  BY <1>3, <1>4, <1>5, <1>6, <1>7, <1>8 DEF Arrive, Reads

\* The statements of a handler in flight that write the calendar.
LEMMA CalendarLocks ==
    ASSUME OneHandler, SerialInv, NEW w \in Workers,
           \/ DecideCancel(w) \/ SubmitCancel(w) \/ DeleteCancel(w) \/ JobCancel(w)
           \/ (\E b \in Bookings : AcceptInsert(w, b))
           \/ ReceiptConfirm(w)
           \/ RescheduleMove(w)
    PROVE  InFlight(w)' /\ Midway(w)'
<1>0. /\ TypeOK /\ LinksOwned /\ RowAsRead(w) /\ InFlight(w) /\ Midway(w)
      /\ PayFollowsStatus /\ NoOverlap
  BY DEF SerialInv, RowInv, DepositInv, LockInv, RowsAsRead
<1> USE DEF At
<1>1. ASSUME NEW b, NEW pc,
             pc \in {"decideWrite", "submitExpire", "deleteRow"},
             worker[w].pc \in {"decideCancel", "submitCancel", "deleteCancel"},
             pc = "decideWrite" => worker[w].pc = "decideCancel",
             Goto(w, pc), CancelRequested({b}), req' = req, b = req[worker[w].r].booking
      PROVE  InFlight(w)' /\ Midway(w)'
  <2>1. /\ worker'[w].pc = pc /\ worker'[w].r = worker[w].r
        /\ worker'[w].st = worker[w].st
    BY <1>0, <1>1, GotoFields
  <2>2. \A r \in Requests : Giving(w, r)' <=> r = worker[w].r
    BY <1>1, <2>1 DEF Giving
  <2>3. worker[w].r \in Requests
    BY <1>0, <1>1 DEF RowAsRead
  <2>4. \A r \in Requests : req[r].booking # NoBooking /\ req[r].booking \in {b} => Giving(w, r)'
    BY <1>0, <1>1, <2>2, <2>3, LinksApart
  <2>5. AtRest
    BY <1>0, <1>1, CalmAtRest DEF Calm
  <2>6. Midway(w)' /\ \A r \in Requests : Giving(w, r)' => Unlocked(r)'
    BY <1>0, <1>1, <2>2, <2>4, <2>5, CancelStep
  <2>7. pc = "decideWrite" => worker'[w].st # "booked"
    BY <1>0, <1>1, <2>1 DEF InFlight, Deciding
  <2> QED
    BY <1>1, <2>1, <2>6, <2>7 DEF InFlight, Deciding
<1>2. CASE DecideCancel(w) \/ SubmitCancel(w) \/ DeleteCancel(w)
  BY <1>0, <1>1, <1>2
     DEF DecideCancel, SubmitCancel, DeleteCancel, RowAsRead, Deciding
<1>3. CASE JobCancel(w)
  <2> DEFINE r == worker[w].r
             b == worker[w].b
  <2>1. /\ worker[w].pc = "jobCancel" /\ req' = req
        /\ worker'[w].pc = "jobWrite" /\ worker'[w].r = r
    BY <1>0, <1>3, GotoFields DEF JobCancel
  <2>2. r \in Requests /\ b = req[r].booking /\ b # NoBooking
    BY <1>0, <2>1 DEF RowAsRead
  <2>3. b \in Bookings /\ \A q \in Requests \ {r} : req[q].booking # b
    BY <1>0, <2>2, LinksApart
  <2>4. /\ bk'[b].status = "cancelled" /\ bk'[b].slot = bk[b].slot
        /\ \A c \in Bookings \ {b} : bk'[c] = bk[c]
    BY <1>0, <1>3, <2>3 DEF JobCancel, TypeOK, BookingRows
  <2>5. AtRest
    BY <1>0, <2>1, CalmAtRest DEF Calm
  <2>6. \A q \in Requests : req[q].booking # NoBooking => req[q].booking \in Bookings
    BY <1>0 DEF LinksOwned, Owned
  <2>7. ASSUME NEW q \in Requests \ {r}
        PROVE  HeldAtRest(q)' /\ AgreesAtRest(q)' /\ ConfirmedAtRest(q)'
    BY <2>1, <2>3, <2>4, <2>5, <2>6
       DEF AtRest, HeldAtRest, AgreesAtRest, ConfirmedAtRest, Held, Live
  <2>8. AgreesAtRest(r)'
    BY <2>1, <2>2, <2>4, <2>5 DEF AtRest, AgreesAtRest
  <2>9. \A c \in Bookings : OwnedAtRest(c)'
    BY <2>1, <2>4, <2>5 DEF AtRest, OwnedAtRest
  <2>10. Midway(w)'
    <3>1. ASSUME NEW q \in Requests, q = r
          PROVE  Giving(w, q)' /\ AgreesAtRest(q)' /\ worker'[w].pc = "jobWrite"
                 /\ worker'[w].r = q
      BY <2>1, <2>8, <3>1 DEF Giving
    <3> QED
      BY <2>7, <2>9, <3>1 DEF Midway
  <2>11. \A q \in Requests : Giving(w, q)' => Unlocked(q)'
    BY <2>1, <2>2, <2>4 DEF Giving, Unlocked
  <2> QED
    BY <2>1, <2>10, <2>11 DEF InFlight, Deciding
<1>4. ASSUME NEW b \in Bookings, AcceptInsert(w, b)
      PROVE  InFlight(w)' /\ Midway(w)'
  <2>1. /\ worker[w].pc = "acceptInsert" /\ req' = req /\ bk[b].status = "free"
        /\ worker'[w].pc = "acceptWrite" /\ worker'[w].b = b
        /\ worker'[w].r = worker[w].r /\ worker'[w].s = worker[w].s
        /\ bk'[b].status = "requested" /\ bk'[b].slot = worker[w].s
        /\ bk'[b].owner = worker[w].r
        /\ \A c \in Bookings \ {b} : bk'[c] = bk[c]
    BY <1>0, <1>4 DEF AcceptInsert, NewBooking, Become, TypeOK, WorkerRows
  <2>2. AtRest
    BY <1>0, <2>1, CalmAtRest DEF Calm
  <2>3. \A q \in Requests : req[q].booking # NoBooking => req[q].booking \in Bookings \ {b}
    BY <1>0, <2>1 DEF LinksOwned, Owned
  <2>4. \A q \in Requests : HeldAtRest(q)' /\ AgreesAtRest(q)' /\ ConfirmedAtRest(q)'
    BY <2>1, <2>2, <2>3
       DEF AtRest, HeldAtRest, AgreesAtRest, ConfirmedAtRest, Held, Live
  <2>5. \A c \in Bookings \ {b} : OwnedAtRest(c)'
    BY <2>1, <2>2 DEF AtRest, OwnedAtRest
  <2>6. Midway(w)'
    BY <2>1, <2>4, <2>5 DEF Midway
  <2> QED
    BY <2>1, <2>6 DEF InFlight, Giving, Deciding
<1>5. CASE ReceiptConfirm(w)
  <2> DEFINE r == worker[w].r
             b == worker[w].b
  <2>1. /\ worker[w].pc = "receiptConfirm" /\ req' = req /\ worker'[w].pc = "idle"
        /\ r \in Requests /\ b = req[r].booking /\ b # NoBooking
    BY <1>0, <1>5, DoneFields DEF ReceiptConfirm, RowAsRead, Approving
  <2>2. b \in Bookings /\ \A q \in Requests \ {r} : req[q].booking # b
    BY <1>0, <2>1, LinksApart
  <2>3. Live(b) \/ bk[b].byHand
    BY <1>0, <2>1 DEF InFlight, Held
  <2>4. Live(b) => TriggerAllows(b, bk[b].slot)
    BY <1>0, <2>2 DEF NoOverlap, TriggerAllows, Clashes, Overlaps
  <2>5. /\ bk'[b].status = "confirmed" \/ bk'[b].byHand
        /\ bk'[b].slot = bk[b].slot /\ bk'[b].owner = bk[b].owner
        /\ bk'[b].byHand = bk[b].byHand
        /\ bk'[b].status \in {"confirmed", bk[b].status}
        /\ \A c \in Bookings \ {b} : bk'[c] = bk[c]
    BY <1>0, <1>5, <2>2, <2>3, <2>4
       DEF ReceiptConfirm, ConfirmedBooking, TypeOK, BookingRows
  <2>6. \A q \in Requests : req[q].booking # NoBooking => req[q].booking \in Bookings
    BY <1>0 DEF LinksOwned, Owned
  <2>7. ASSUME NEW q \in Requests
        PROVE  HeldAtRest(q)' /\ AgreesAtRest(q)' /\ ConfirmedAtRest(q)'
    <3>1. HeldAtRest(q) /\ AgreesAtRest(q) /\ (ConfirmedAtRest(q) \/ q = r)
      BY <1>0, <2>1 DEF Midway, Giving
    <3>2. CASE q = r
      BY <2>1, <2>2, <2>5, <3>1, <3>2
         DEF HeldAtRest, AgreesAtRest, ConfirmedAtRest, Held, Live
    <3>3. CASE q # r
      BY <2>1, <2>2, <2>5, <2>6, <3>1, <3>3
         DEF HeldAtRest, AgreesAtRest, ConfirmedAtRest, Held, Live
    <3> QED
      BY <3>2, <3>3
  <2>8. ASSUME NEW c \in Bookings PROVE OwnedAtRest(c)'
    <3>1. OwnedAtRest(c)
      BY <1>0, <2>1 DEF Midway
    <3> QED
      BY <2>1, <2>2, <2>5, <3>1 DEF OwnedAtRest
  <2>9. AtRest'
    BY <2>7, <2>8 DEF AtRest
  <2> QED
    BY <2>1, <2>9, NextMidway, IdleInFlight
<1>6. CASE RescheduleMove(w)
  <2> DEFINE b == worker[w].b
  <2>1. /\ worker[w].pc = "rescheduleMove" /\ req' = req /\ b \in Bookings
        /\ \A q \in Requests : req[q].booking = b => req[q].status = "booked"
    BY <1>0, <1>6 DEF RescheduleMove, InFlight
  <2>2. AtRest
    BY <1>0, <2>1, CalmAtRest DEF Calm
  <2>3. CASE bk' = bk /\ Done(w)
    BY <1>0, <2>1, <2>2, <2>3, RestStep, NextMidway, IdleInFlight, DoneFields
  <2>4. CASE bk' = [bk EXCEPT ![b].slot = worker[w].s] /\ Goto(w, "rescheduleSync")
    <3>1. /\ worker'[w].pc = "rescheduleSync" /\ worker'[w].b = b
          /\ worker'[w].s = worker[w].s
      BY <1>0, <2>4 DEF Goto, Become, TypeOK, WorkerRows
    <3>2. /\ bk'[b].slot = worker[w].s /\ bk'[b].status = bk[b].status
          /\ bk'[b].owner = bk[b].owner /\ bk'[b].byHand = bk[b].byHand
          /\ \A c \in Bookings \ {b} : bk'[c] = bk[c]
      BY <1>0, <2>1, <2>4 DEF TypeOK, BookingRows
    <3>3. \A q \in Requests : req[q].booking # NoBooking => req[q].booking \in Bookings
      BY <1>0 DEF LinksOwned, Owned
    <3>4. ASSUME NEW q \in Requests
          PROVE  HeldAtRest(q)' /\ ConfirmedAtRest(q)'
                 /\ (AgreesAtRest(q)' \/ req[q].booking = b)
      BY <2>1, <2>2, <3>2, <3>3
         DEF AtRest, HeldAtRest, AgreesAtRest, ConfirmedAtRest, Held, Live
    <3>5. \A c \in Bookings : OwnedAtRest(c)'
      BY <2>1, <2>2, <3>2 DEF AtRest, OwnedAtRest
    <3>6. Midway(w)'
      BY <2>1, <3>1, <3>4, <3>5 DEF Midway
    <3> QED
      BY <2>1, <3>1, <3>2, <3>6 DEF InFlight, Giving, Deciding
  <2> QED
    BY <1>6, <2>3, <2>4 DEF RescheduleMove
<1> QED
  BY <1>2, <1>3, <1>4, <1>5, <1>6

\* The statements of a handler in flight that write requests: those that let
\* go of a booking ...
LEMMA LetGoLocks ==
    ASSUME OneHandler, SerialInv, NEW w \in Workers,
           DecideWrite(w) \/ SubmitExpire(w) \/ SweepExpire(w) \/ DeleteRow(w) \/ JobWrite(w)
    PROVE  InFlight(w)' /\ Midway(w)'
<1>0. TypeOK /\ LinksOwned /\ RowAsRead(w) /\ InFlight(w) /\ Midway(w)
  BY DEF SerialInv, RowInv, DepositInv, LockInv, RowsAsRead
<1>1. ASSUME NEW row, req' = [req EXCEPT ![worker[w].r] = row], bk' = bk, Done(w),
             worker[w].pc \in {"decideWrite", "submitExpire", "deleteRow", "jobWrite"},
             row.booking = NoBooking, row.pay \notin Owing
      PROVE  AtRest' /\ worker'[w].pc = "idle"
  <2>1. /\ worker[w].r \in Requests /\ worker'[w].pc = "idle"
        /\ \A q \in Requests : Giving(w, q) <=> q = worker[w].r
    BY <1>0, <1>1, DoneFields DEF RowAsRead, Giving
  <2>2. /\ req'[worker[w].r] = row /\ Unlocked(worker[w].r)
        /\ \A q \in Requests : q # worker[w].r => req'[q] = req[q]
    BY <1>0, <1>1, <2>1 DEF InFlight, TypeOK
  <2>3. \A q \in Requests :
           \/ req'[q].booking = NoBooking /\ req'[q].pay \notin Owing /\ Unlocked(q)
           \/ /\ req'[q] = req[q] /\ ~Giving(w, q)
              /\ ~(worker[w].pc = "jobWrite" /\ worker[w].r = q)
    BY <1>1, <2>1, <2>2
  <2> QED
    BY <1>0, <1>1, <2>1, <2>3, LetGoStep
<1>2. CASE DecideWrite(w)
  <2>1. /\ At(w, "decideWrite") /\ worker[w].r \in Requests /\ Exists(worker[w].r)
        /\ req' = [req EXCEPT ![worker[w].r] =
                      Decided(req[worker[w].r], worker[w].st, worker[w].s)]
        /\ bk' = bk /\ Done(w)
    BY <1>0, <1>2 DEF DecideWrite, UpdateRequest, RowAsRead, At
  <2>2. ASSUME NEW row, NEW st, NEW s
        PROVE  Decided(row, st, s).booking = NoBooking /\ Decided(row, st, s).pay \notin Owing
    BY DEF Decided, Owing
  <2> QED
    BY <1>1, <2>1, <2>2, NextMidway, IdleInFlight DEF At
<1>3. CASE SubmitExpire(w)
  <2>1. /\ At(w, "submitExpire") /\ worker[w].r \in Requests /\ Exists(worker[w].r)
        /\ req' = [req EXCEPT ![worker[w].r] = Expired(req[worker[w].r])]
        /\ bk' = bk /\ Done(w)
    BY <1>0, <1>3 DEF SubmitExpire, UpdateRequest, RowAsRead, Late, At
  <2>2. /\ Expired(req[worker[w].r]).booking = NoBooking
        /\ Expired(req[worker[w].r]).pay \notin Owing
    BY <1>0, <2>1, Fields DEF Expired, Owing, RequestRows
  <2> QED
    BY <1>1, <2>1, <2>2, NextMidway, IdleInFlight DEF At
<1>4. CASE DeleteRow(w)
  <2>1. /\ At(w, "deleteRow") /\ worker[w].r \in Requests /\ Exists(worker[w].r)
        /\ req' = [req EXCEPT ![worker[w].r] = DeletedRow]
        /\ bk' = bk /\ Done(w)
    BY <1>0, <1>4 DEF DeleteRow, UpdateRequest, RowAsRead, At
  <2>2. DeletedRow.booking = NoBooking /\ DeletedRow.pay \notin Owing
    BY DEF DeletedRow, UnusedRequest, Owing
  <2> QED
    BY <1>1, <2>1, <2>2, NextMidway, IdleInFlight DEF At
<1>5. CASE JobWrite(w)
  <2>1. /\ At(w, "jobWrite") /\ worker[w].r \in Requests /\ Exists(worker[w].r)
        /\ req' = [req EXCEPT ![worker[w].r] = Dropped(req[worker[w].r])]
        /\ bk' = bk /\ Done(w)
    BY <1>0, <1>5 DEF JobWrite, UpdateRequest, RowAsRead, At
  <2>2. /\ Dropped(req[worker[w].r]).booking = NoBooking
        /\ Dropped(req[worker[w].r]).pay \notin Owing
    BY <1>0, <2>1, Fields DEF Dropped, Owing, RequestRows
  <2> QED
    BY <1>1, <2>1, <2>2, NextMidway, IdleInFlight DEF At
<1>6. CASE SweepExpire(w)
  <2>1. worker[w].pc = "sweepExpire" /\ bk' = bk /\ worker'[w].pc = "idle"
    BY <1>0, <1>6, DoneFields DEF SweepExpire, At
  <2>2. ASSUME NEW q \in Requests
        PROVE  \/ /\ req'[q].booking = NoBooking /\ req'[q].pay \notin Owing
                  /\ Unlocked(q)
               \/ req'[q] = req[q] /\ ~Giving(w, q)
    <3>1. CASE Giving(w, q)
      <4>1. req'[q] = Expired(req[q])
        BY <1>6, <2>1, <3>1 DEF SweepExpire, Giving
      <4> QED
        BY <1>0, <3>1, <4>1, Fields DEF Expired, Owing, RequestRows, InFlight
    <3>2. CASE ~Giving(w, q)
      BY <1>6, <2>1, <3>2 DEF SweepExpire, Giving
    <3> QED
      BY <3>1, <3>2
  <2>3. AtRest'
    BY <1>0, <2>1, <2>2, LetGoStep
  <2> QED
    BY <2>1, <2>3, NextMidway, IdleInFlight
<1> QED
  BY <1>2, <1>3, <1>4, <1>5, <1>6

\* ... and those that do not.
LEMMA RequestLocks ==
    ASSUME OneHandler, SerialInv, NEW w \in Workers,
           AcceptWrite(w) \/ SubmitWrite(w) \/ ReceiptBook(w) \/ ReceiptReject(w)
    PROVE  InFlight(w)' /\ Midway(w)'
<1>0. /\ TypeOK /\ LinksOwned /\ RowAsRead(w) /\ InFlight(w) /\ Midway(w)
      /\ PayFollowsStatus /\ NoStaleLink
  BY DEF SerialInv, RowInv, DepositInv, LockInv, RowsAsRead
<1> DEFINE r == worker[w].r
           row == req[r]
<1> USE DEF At
<1>1. /\ r \in Requests /\ Exists(r) /\ row \in RequestRows
      /\ worker[w].pc \in {"acceptWrite", "submitWrite", "receiptBook", "receiptReject"}
  BY <1>0, Fields
     DEF AcceptWrite, SubmitWrite, ReceiptBook, ReceiptReject, RowAsRead
<1>2. /\ \A q \in Requests : HeldAtRest(q) /\ AgreesAtRest(q) /\ ConfirmedAtRest(q)
      /\ \A b \in Bookings :
            \/ OwnedAtRest(b)
            \/ worker[w].pc = "acceptWrite" /\ worker[w].b = b /\ r = bk[b].owner
  BY <1>0, <1>1 DEF Midway, Giving
<1>3. CASE AcceptWrite(w)
  <2> DEFINE b == worker[w].b
  <2>1. /\ worker[w].pc = "acceptWrite" /\ row.pay = "proposal_pending"
        /\ row.slot = worker[w].s /\ row.booking = NoBooking /\ row.status = "approved"
        /\ bk[b].slot = worker[w].s /\ bk[b].status = "requested" /\ bk[b].owner = r
        /\ b \in Bookings
    BY <1>0, <1>1, <1>3
       DEF AcceptWrite, RowAsRead, Accepting, NoStaleLink, InFlight, PayFollowsStatus,
           PendingPay, SerialInv, DepositInv, HandlersKnow, Owned
  <2>2. /\ req' = [req EXCEPT ![r] = Accepted(row, b)] /\ bk' = bk
        /\ worker'[w].pc = "idle"
    BY <1>0, <1>1, <1>3, <2>1, DoneFields DEF AcceptWrite, UpdateRequest
  <2>3. /\ \A q \in Requests \ {r} : req'[q] = req[q]
        /\ req'[r].booking = b /\ req'[r].slot = row.slot /\ req'[r].status = "approved"
    BY <1>0, <1>1, <2>1, <2>2 DEF Accepted, TypeOK, RequestRows
  <2>4. ASSUME NEW q \in Requests
        PROVE  HeldAtRest(q)' /\ AgreesAtRest(q)' /\ ConfirmedAtRest(q)'
    BY <1>2, <2>1, <2>2, <2>3, NoneIsNoId
       DEF HeldAtRest, AgreesAtRest, ConfirmedAtRest, Held, Live
  <2>5. ASSUME NEW c \in Bookings PROVE OwnedAtRest(c)'
    <3>1. OwnedAtRest(c) \/ c = b
      BY <1>2
    <3>2. bk[c].owner \in Requests \cup {NoRequest} /\ c # NoBooking
      BY <1>0, Fields, NoneIsNoId DEF BookingRows
    <3> QED
      BY <2>1, <2>2, <2>3, <3>1, <3>2 DEF OwnedAtRest
  <2> QED
    BY <2>2, <2>4, <2>5, NextMidway, IdleInFlight DEF AtRest
<1>4. ASSUME NEW new \in RequestRows, req' = [req EXCEPT ![r] = new], bk' = bk,
             new.booking = row.booking, new.slot = row.slot, row.pay \in Owing,
             worker[w].pc # "acceptWrite"
      PROVE  /\ \A q \in Requests :
                   /\ HeldAtRest(q)' /\ AgreesAtRest(q)'
                   /\ ConfirmedAtRest(q)' \/ (q = r /\ new.status # row.status)
             /\ \A b \in Bookings : OwnedAtRest(b)'
  <2>1. /\ \A q \in Requests \ {r} : req'[q] = req[q]
        /\ req'[r] = new
    BY <1>0, <1>1, <1>4 DEF TypeOK
  <2>2. ASSUME NEW q \in Requests
        PROVE  /\ HeldAtRest(q)' /\ AgreesAtRest(q)'
               /\ ConfirmedAtRest(q)' \/ (q = r /\ new.status # row.status)
    <3>1. HeldAtRest(q)'
      BY <1>2, <1>4, <2>1 DEF HeldAtRest, Held, Live
    <3>2. AgreesAtRest(q)'
      BY <1>2, <1>4, <2>1 DEF AgreesAtRest
    <3>3. ConfirmedAtRest(q)' \/ (q = r /\ new.status # row.status)
      BY <1>2, <1>4, <2>1 DEF ConfirmedAtRest
    <3> QED
      BY <3>1, <3>2, <3>3
  <2>3. ASSUME NEW b \in Bookings PROVE OwnedAtRest(b)'
    BY <1>2, <1>4, <2>1 DEF OwnedAtRest
  <2> QED
    BY <2>2, <2>3
<1>5. CASE SubmitWrite(w)
  <2>1. /\ worker[w].pc = "submitWrite" /\ row.pay \in Owing
        /\ req' = [req EXCEPT ![r] = Submitted(row)] /\ bk' = bk
        /\ worker'[w].pc = "idle"
    BY <1>0, <1>1, <1>5, DoneFields
       DEF SubmitWrite, UpdateRequest, RowAsRead, Owing, HoldOpen
  <2>2. /\ Submitted(row) \in RequestRows
        /\ Submitted(row).booking = row.booking /\ Submitted(row).slot = row.slot
        /\ Submitted(row).status = row.status
    BY <1>1, RequestRowTypes DEF Submitted, RequestRows
  <2>3. AtRest'
    BY <1>4, <2>1, <2>2 DEF AtRest
  <2> QED
    BY <2>1, <2>3, NextMidway, IdleInFlight
<1>6. CASE ReceiptReject(w)
  <2>1. /\ worker[w].pc = "receiptReject" /\ row.pay \in Owing
        /\ req' = [req EXCEPT ![r] = SentBack(row)] /\ bk' = bk
        /\ worker'[w].pc = "idle"
    BY <1>0, <1>1, <1>6, DoneFields DEF ReceiptReject, UpdateRequest, RowAsRead, Owing
  <2>2. /\ SentBack(row) \in RequestRows
        /\ SentBack(row).booking = row.booking /\ SentBack(row).slot = row.slot
        /\ SentBack(row).status = row.status
    BY <1>1, RequestRowTypes DEF SentBack, RequestRows
  <2>3. AtRest'
    BY <1>4, <2>1, <2>2 DEF AtRest
  <2> QED
    BY <2>1, <2>3, NextMidway, IdleInFlight
<1>7. CASE ReceiptBook(w)
  <2>1. /\ worker[w].pc = "receiptBook" /\ row.pay \in Owing
        /\ req' = [req EXCEPT ![r] = Booked(row)] /\ bk' = bk
        /\ worker'[w].pc = "receiptConfirm" /\ worker'[w].r = r
    BY <1>0, <1>1, <1>7, GotoFields DEF ReceiptBook, UpdateRequest, RowAsRead, Owing
  <2>2. /\ Booked(row) \in RequestRows
        /\ Booked(row).booking = row.booking /\ Booked(row).slot = row.slot
    BY <1>1, RequestRowTypes DEF Booked, RequestRows
  <2>3. Midway(w)'
    BY <1>4, <2>1, <2>2 DEF Midway
  <2>4. Held(r)
    BY <1>1, <1>2, <2>1 DEF HeldAtRest
  <2>5. Held(r)'
    BY <1>0, <1>1, <2>1, <2>2, <2>4 DEF Held, Live, TypeOK
  <2> QED
    BY <2>1, <2>3, <2>5 DEF InFlight, Giving, Deciding
<1> QED
  BY <1>3, <1>5, <1>6, <1>7

\* The booked request takes the new time of its booking.
LEMMA SyncLocks ==
    ASSUME SerialInv, NEW w \in Workers, RescheduleSync(w)
    PROVE  InFlight(w)' /\ Midway(w)'
<1> DEFINE b == worker[w].b
<1>0. /\ TypeOK /\ InFlight(w) /\ Midway(w) /\ PayFollowsStatus
  BY DEF SerialInv, RowInv, LockInv
<1>1. /\ worker[w].pc = "rescheduleSync" /\ worker'[w].pc = "idle" /\ bk' = bk
      /\ b \in Bookings /\ bk[b].slot = worker[w].s
      /\ \A q \in Requests : req[q].booking = b => req[q].status = "booked"
  BY <1>0, DoneFields DEF RescheduleSync, InFlight, At
<1>2. \A q \in Requests :
         /\ req'[q].pay = req[q].pay /\ req'[q].status = req[q].status
         /\ req'[q].booking = req[q].booking
         /\ req'[q].slot = IF req[q].booking = b THEN worker[w].s ELSE req[q].slot
  BY <1>0, <1>1 DEF RescheduleSync, Follows, TypeOK, RequestRows
<1>3. ASSUME NEW q \in Requests
      PROVE  HeldAtRest(q)' /\ AgreesAtRest(q)' /\ ConfirmedAtRest(q)'
  <2>1. /\ HeldAtRest(q) /\ ConfirmedAtRest(q)
        /\ AgreesAtRest(q) \/ req[q].booking = b
    BY <1>0, <1>1 DEF Midway, Giving
  <2>2. HeldAtRest(q)'
    BY <1>1, <1>2, <2>1 DEF HeldAtRest, Held, Live
  <2>3. AgreesAtRest(q)'
    BY <1>1, <1>2, <2>1 DEF AgreesAtRest
  <2>4. ConfirmedAtRest(q)'
    BY <1>1, <1>2, <2>1 DEF ConfirmedAtRest
  <2> QED
    BY <2>2, <2>3, <2>4
<1>4. ASSUME NEW c \in Bookings PROVE OwnedAtRest(c)'
  <2>1. OwnedAtRest(c)
    BY <1>0, <1>1 DEF Midway
  <2>2. bk[c].owner \in Requests \cup {NoRequest}
    BY <1>0, Fields DEF BookingRows
  <2> QED
    BY <1>1, <1>2, <2>1, <2>2 DEF OwnedAtRest
<1> QED
  BY <1>1, <1>3, <1>4, NextMidway, IdleInFlight DEF AtRest

\* The checks of a handler in flight.
LEMMA CheckLocks ==
    ASSUME SerialInv, NEW w \in Workers,
           \/ DecideOverlap(w) \/ DecidePending(w) \/ AcceptOverlap(w)
           \/ AcceptRefused(w) \/ ReceiptPlan(w) \/ ReceiptPay(w)
    PROVE  InFlight(w)' /\ Midway(w)'
<1>0. TypeOK /\ RowAsRead(w) /\ InFlight(w) /\ Midway(w)
  BY DEF SerialInv, RowInv, LockInv, RowsAsRead
<1> USE DEF At
<1>1. req' = req /\ bk' = bk
  BY DEF DecideOverlap, DecidePending, AcceptOverlap, AcceptRefused, ReceiptPlan,
         ReceiptPay
<1>2. Calm(w)
  BY DEF DecideOverlap, DecidePending, AcceptOverlap, AcceptRefused, ReceiptPlan,
         ReceiptPay, Calm
<1>3. Midway(w)'
  BY <1>0, <1>1, <1>2, CalmAtRest, RestStep, NextMidway
<1>4. CASE Done(w)
  BY <1>0, <1>3, <1>4, DoneFields, IdleInFlight
<1>5. CASE \E pc \in {"acceptInsert", "receiptPay", "receiptBook"} : Goto(w, pc)
  BY <1>0, <1>3, <1>5, GotoFields DEF InFlight, Giving, Deciding
<1>6. ASSUME Goto(w, "decidePending"), worker[w].pc = "decideOverlap"
      PROVE  InFlight(w)'
  BY <1>0, <1>6, GotoFields DEF InFlight, Giving, Deciding
<1>7. ASSUME DecidePending(w), ~Done(w)
      PROVE  InFlight(w)'
  <2>1. /\ worker[w].pc = "decidePending" /\ worker[w].st = "approved"
        /\ worker[w].b = req[worker[w].r].booking
        /\ worker'[w].pc = IF worker[w].b # NoBooking THEN "decideCancel" ELSE "decideWrite"
        /\ worker'[w].r = worker[w].r /\ worker'[w].st = worker[w].st
    BY <1>0, <1>7, GotoFields
       DEF DecidePending, AfterChecks, CancellingDecisions, RowAsRead, Deciding
  <2> QED
    BY <1>1, <2>1 DEF InFlight, Giving, Deciding, Unlocked
<1> QED
  BY <1>3, <1>4, <1>5, <1>6, <1>7
     DEF DecideOverlap, DecidePending, AcceptOverlap, AcceptRefused, ReceiptPlan,
         ReceiptPay

LEMMA LockStep ==
    ASSUME Serial, SerialInv, [Next]_vars
    PROVE  LockInv'
<1> SUFFICES ASSUME NEW w \in Workers PROVE InFlight(w)' /\ Midway(w)'
  BY DEF LockInv
<1>0. /\ OneHandler /\ \A v \in Workers : v = w
      /\ TypeOK /\ InFlight(w) /\ Midway(w)
  BY Alone DEF Serial, SerialInv, RowInv, LockInv
<1>1. CASE Arrive(w)
  BY <1>1, ArriveLocks
<1>2. CASE Continue(w)
  BY <1>0, <1>2, CalendarLocks, LetGoLocks, RequestLocks, SyncLocks, CheckLocks
     DEF Continue
<1>3. ~Abort(w)
  BY DEF Abort, Serial
<1>4. CASE \E r \in Requests : Lapse(r)
  <2>1. PICK r \in Requests : Lapse(r)
    BY <1>4
  <2>2. worker[w].pc = "idle" /\ worker' = worker /\ bk' = bk
    BY <2>1 DEF Lapse, AllIdle, Serial
  <2>3. \A q \in Requests :
           /\ req'[q].status = req[q].status /\ req'[q].pay = req[q].pay
           /\ req'[q].booking = req[q].booking /\ req'[q].slot = req[q].slot
    BY <1>0, <2>1 DEF Lapse, TypeOK, RequestRows
  <2>4. AtRest
    BY <1>0, <2>2, CalmAtRest DEF Calm
  <2>5. ASSUME NEW q \in Requests
        PROVE  HeldAtRest(q)' /\ AgreesAtRest(q)' /\ ConfirmedAtRest(q)'
    BY <2>2, <2>3, <2>4
       DEF AtRest, HeldAtRest, AgreesAtRest, ConfirmedAtRest, Held, Live
  <2>6. ASSUME NEW b \in Bookings PROVE OwnedAtRest(b)'
    <3>1. bk[b].owner \in Requests \cup {NoRequest}
      BY <1>0, Fields DEF BookingRows
    <3> QED
      BY <2>2, <2>3, <2>4, <3>1 DEF AtRest, OwnedAtRest
  <2> QED
    BY <2>2, <2>5, <2>6, NextMidway, IdleInFlight DEF AtRest
<1>5. CASE UNCHANGED vars
  BY <1>0, <1>5
     DEF vars, InFlight, Midway, Giving, LapsedHold, Unlocked, Held, Live, HeldAtRest,
         OwnedAtRest, AgreesAtRest, ConfirmedAtRest
<1> QED
  BY <1>0, <1>1, <1>2, <1>3, <1>4, <1>5 DEF Next

LEMMA SerialStep == Serial /\ SerialInv /\ [Next]_vars => SerialInv'
BY RowStep, DepositStep, NoOverlapStep, NoStaleLinkStep, LockStep
   DEF SerialInv, Serial, DepositInv

LEMMA SerialRuns == Serial => (Spec => []SerialInv)
<1> SUFFICES ASSUME Serial PROVE Spec => []SerialInv
  OBVIOUS
<1>1. Init => SerialInv
  <2>1. Init => NoOverlap /\ NoStaleLink
    BY DEF Init, NoOverlap, NoStaleLink, Live, UnusedBooking, UnusedRequest
  <2> QED
    BY <2>1, RowInit, DepositInit, LockInit DEF SerialInv
<1>2. SerialInv /\ [Next]_vars => SerialInv'
  BY SerialStep
<1> QED
  BY <1>1, <1>2, PTL DEF Spec

LEMMA IdleAtRest == Serial /\ SerialInv /\ AllIdle => AtRest
<1> SUFFICES ASSUME Serial, SerialInv, AllIdle PROVE AtRest
  OBVIOUS
<1>1. PICK w \in Workers : worker[w].pc = "idle"
  BY DEF Serial, OneHandler, AllIdle
<1>2. Midway(w) /\ Calm(w)
  BY <1>1 DEF SerialInv, LockInv, Calm
<1> QED
  BY <1>2, CalmAtRest

\* One after another, the handlers keep a slot locked from the acceptance of a
\* proposal until its receipt is settled.
THEOREM SlotStaysLocked == Serial => (Spec => []LockHeld)
<1> SUFFICES ASSUME Serial PROVE Spec => []LockHeld
  OBVIOUS
<1>1. SerialInv => LockHeld
  <2> SUFFICES ASSUME SerialInv, AllIdle, NEW r \in Requests, req[r].pay \in Owing
               PROVE  Held(r)
    BY DEF LockHeld, Owing, Held
  <2>1. HeldAtRest(r)
    BY IdleAtRest DEF AtRest
  <2> QED
    BY <2>1 DEF HeldAtRest
<1> QED
  BY <1>1, SerialRuns, PTL

\* One after another, the handlers leave no lock that no request points at.
THEOREM EveryLockHasARequest == Serial => (Spec => []NoOrphanLock)
<1> SUFFICES ASSUME Serial PROVE Spec => []NoOrphanLock
  OBVIOUS
<1>1. SerialInv => NoOrphanLock
  <2> SUFFICES ASSUME SerialInv, AllIdle, NEW b \in Bookings
               PROVE  OwnedAtRest(b)
    BY DEF NoOrphanLock, OwnedAtRest
  <2> QED
    BY IdleAtRest DEF AtRest
<1> QED
  BY <1>1, SerialRuns, PTL

\* One after another, the handlers keep the time a request shows and the time
\* of its booking the same, through reschedules and acceptances.
THEOREM RequestShowsItsTime == Serial => (Spec => []SlotAgrees)
<1> SUFFICES ASSUME Serial PROVE Spec => []SlotAgrees
  OBVIOUS
<1>1. SerialInv => SlotAgrees
  <2> SUFFICES ASSUME SerialInv, AllIdle, NEW r \in Requests
               PROVE  AgreesAtRest(r)
    BY DEF SlotAgrees, AgreesAtRest
  <2> QED
    BY IdleAtRest DEF AtRest
<1> QED
  BY <1>1, SerialRuns, PTL

\* One after another, the handlers give a booked request a confirmed booking,
\* which only the calendar's buttons can change.
THEOREM BookedMeansConfirmed == Serial => (Spec => []BookedIsConfirmed)
<1> SUFFICES ASSUME Serial PROVE Spec => []BookedIsConfirmed
  OBVIOUS
<1>1. SerialInv => BookedIsConfirmed
  <2> SUFFICES ASSUME SerialInv, AllIdle, NEW r \in Requests
               PROVE  ConfirmedAtRest(r)
    BY DEF BookedIsConfirmed, ConfirmedAtRest
  <2> QED
    BY IdleAtRest DEF AtRest
<1> QED
  BY <1>1, SerialRuns, PTL
=============================================================================
