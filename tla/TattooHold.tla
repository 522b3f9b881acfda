----------------------------- MODULE TattooHold -----------------------------
(***************************************************************************)
(* The life of a tattoo request and of the calendar slot it locks.         *)
(*                                                                         *)
(* Every handler of src/lib/server/writes.ts runs its SQL statements one   *)
(* by one, each in a transaction of its own, so a handler is a worker with *)
(* a program counter and the values it has read; one action is one         *)
(* statement, and the statements of two handlers interleave.  Payments are *)
(* abstracted to the number of deposit rows of a request; texts, photos,   *)
(* notifications, chat lines and referral bookkeeping are left out.        *)
(***************************************************************************)
EXTENDS Naturals, FiniteSets

CONSTANTS
    Requests,    \* ids of tattoo_requests rows
    Bookings,    \* ids of bookings rows
    Workers,     \* HTTP requests that may be in flight at the same time
    Slots,       \* proposable times: [shop |-> a business, time |-> set of ticks]
    Free,        \* the requests whose proposals ask for no deposit
    NoRequest, NoBooking,
    Enabled      \* the operations an instance explores (a bound)

Operations ==
    {"create", "decide", "decideBooked", "accept", "submit", "receipt",
     "sweep", "delete", "cancelJob", "walkIn", "calendar", "reschedule",
     "rescheduleOpen", "abort", "lapseMidway"}

ASSUME SlotsHaveLength == \A s \in Slots : s.time # {}
ASSUME FreeAreRequests == Free \subseteq Requests
ASSUME NoneIsNoId == NoRequest \notin Requests /\ NoBooking \notin Bookings
ASSUME EnabledAreOperations == Enabled \subseteq Operations

VARIABLES
    req,       \* tattoo_requests: status, payment_status, booking_id, hold, proposed slot
    bk,        \* bookings: status, slot, and for the properties: whose it is,
               \* and whether somebody set its status in the calendar
    deposits,  \* number of tattoo_payments rows noted as the deposit, per request
    worker     \* the handlers in flight

vars == <<req, bk, deposits, worker>>

-----------------------------------------------------------------------------
(* Rows *)

NoSlot == [shop |-> "none", time |-> {}]

Statuses == {"none", "submitted", "needs_info", "approved", "rejected",
             "booked", "deleted"}
PayStatuses == {"not_required", "proposal_pending", "awaiting_payment",
                "receipt_submitted", "rejected", "approved", "expired"}
\* "over" stands for done and no_show, which no statement here tells apart.
BookingStatuses == {"requested", "confirmed", "cancelled", "over"}
Decisions == {"needs_info", "approved", "rejected", "booked"}

\* TATTOO_HOLD_OPEN_STATUSES
HoldOpen == {"awaiting_payment", "rejected"}

RequestRows == [status : Statuses, pay : PayStatuses,
                booking : Bookings \cup {NoBooking},
                hold : {"none", "open", "lapsed"},
                slot : Slots \cup {NoSlot}]

BookingRows == [status : BookingStatuses \cup {"free"},
                slot : Slots \cup {NoSlot},
                owner : Requests \cup {NoRequest},
                byHand : BOOLEAN]

Steps == {"idle",
          "decideOverlap", "decidePending", "decideCancel", "decideWrite",
          "acceptOverlap", "acceptInsert", "acceptWrite",
          "submitWrite", "submitCancel", "submitExpire",
          "receiptPlan", "receiptPay", "receiptBook", "receiptConfirm",
          "receiptReject",
          "sweepExpire", "deleteCancel", "deleteRow",
          "jobCancel", "jobWrite", "rescheduleMove", "rescheduleSync"}

WorkerRows == [pc : Steps,
               r : Requests \cup {NoRequest},
               b : Bookings \cup {NoBooking},
               s : Slots \cup {NoSlot},
               st : Decisions \cup {"none"},
               scope : SUBSET Requests]

UnusedRequest == [status |-> "none", pay |-> "not_required",
                  booking |-> NoBooking, hold |-> "none", slot |-> NoSlot]
UnusedBooking == [status |-> "free", slot |-> NoSlot, owner |-> NoRequest,
                  byHand |-> FALSE]
IdleWorker == [pc |-> "idle", r |-> NoRequest, b |-> NoBooking,
               s |-> NoSlot, st |-> "none", scope |-> {}]

Init ==
    /\ req = [r \in Requests |-> UnusedRequest]
    /\ bk = [b \in Bookings |-> UnusedBooking]
    /\ deposits = [r \in Requests |-> 0]
    /\ worker = [w \in Workers |-> IdleWorker]

Exists(r) == req[r].status \notin {"none", "deleted"}
Live(b) == bk[b].status \in {"requested", "confirmed"}
AllIdle == \A w \in Workers : worker[w].pc = "idle"

-----------------------------------------------------------------------------
(* Overlap *)

Overlaps(s, t) == s.time \cap t.time # {}
Clashes(s, t) == s.shop = t.shop /\ Overlaps(s, t)

\* Faulty: the trigger looks at confirmed bookings only.
TriggerAllowsConfirmedOnly(b, s) ==
    \A c \in Bookings \ {b} :
        bk[c].status = "confirmed" => ~Clashes(bk[c].slot, s)

\* bookings_prevent_overlap: the trigger every INSERT and UPDATE of a live
\* booking runs under the lock of its business row.
TriggerAllows(b, s) ==
    \A c \in Bookings \ {b} : Live(c) => ~Clashes(bk[c].slot, s)

\* TATTOO_SLOT_OVERLAP_SQL: a live booking of any business of the same owner.
SlotTaken(s) == \E c \in Bookings : Live(c) /\ Overlaps(bk[c].slot, s)

\* Faulty: a request whose receipt was sent back no longer keeps its time.
PendingPayWithoutRejected ==
    {"proposal_pending", "awaiting_payment", "receipt_submitted"}

\* The payment statuses in which TATTOO_PENDING_PROPOSAL_OVERLAP_SQL counts a proposal.
PendingPay == {"proposal_pending", "awaiting_payment", "receipt_submitted",
               "rejected"}

Pending(r) == req[r].status = "approved" /\ req[r].pay \in PendingPay

\* TATTOO_PENDING_PROPOSAL_OVERLAP_SQL
ProposedToAnother(r, s) ==
    \E q \in Requests \ {r} : Pending(q) /\ Clashes(req[q].slot, s)

-----------------------------------------------------------------------------
(* The SET clauses of the statements, as functions of the row *)

\* performCreateTattooRequest: payment_status and the rest take their defaults.
CreatedRow == [UnusedRequest EXCEPT !.status = "submitted"]

\* performDecideTattooRequest
Decided(row, st, s) ==
    [status |-> st,
     pay |-> IF st = "approved" THEN "proposal_pending" ELSE "not_required",
     booking |-> NoBooking, hold |-> "none", slot |-> s]

\* Faulty: the payment deadline is not set.
AcceptedNoDeadline(row, b) ==
    [row EXCEPT !.booking = b, !.pay = "awaiting_payment"]

\* performAcceptTattooProposal and its guest twin: six hours to pay.
Accepted(row, b) ==
    [row EXCEPT !.booking = b, !.pay = "awaiting_payment", !.hold = "open"]

\* performSubmitTattooReceipt
Submitted(row) == [row EXCEPT !.pay = "receipt_submitted"]

\* Faulty: payment_status keeps its old value.
ExpiredNotMarked(row) == [row EXCEPT !.booking = NoBooking]

\* Faulty: an expired request keeps its booking_id.
ExpiredKeepsBooking(row) == [row EXCEPT !.pay = "expired"]

\* expireRequests, and the late branch of performSubmitTattooReceipt
Expired(row) == [row EXCEPT !.pay = "expired", !.booking = NoBooking]

\* performDecideTattooReceipt, approved: the hold's deadline stays as it was.
Booked(row) == [row EXCEPT !.status = "booked", !.pay = "approved"]

\* performDecideTattooReceipt, rejected: six more hours.
SentBack(row) == [row EXCEPT !.pay = "rejected", !.hold = "open"]

\* performCancelStudioJob
Dropped(row) == [row EXCEPT !.status = "rejected", !.pay = "not_required",
                            !.booking = NoBooking, !.slot = NoSlot]

\* performDeleteTattooRequest: the id is a UUID and is never used again.
DeletedRow == [UnusedRequest EXCEPT !.status = "deleted"]

\* An UPDATE ... WHERE id = r [AND guard]: no row, no change.
UpdateRequest(r, guard, row) ==
    req' = IF Exists(r) /\ guard THEN [req EXCEPT ![r] = row] ELSE req

\* UPDATE bookings SET status = 'cancelled' WHERE id IN B AND status = 'requested'
CancelRequested(B) ==
    bk' = [b \in Bookings |->
             IF b \in B /\ bk[b].status = "requested"
             THEN [bk[b] EXCEPT !.status = "cancelled"] ELSE bk[b]]

\* Faulty: only finance_status is written.
ConfirmedFinanceOnly(row) == row

\* The confirming UPDATE of performDecideTattooReceipt.
ConfirmedBooking(row) == [row EXCEPT !.status = "confirmed"]

-----------------------------------------------------------------------------
(* Handlers in flight *)

At(w, pc) == worker[w].pc = pc
Start(w, op) == At(w, "idle") /\ op \in Enabled
Become(w, row) == worker' = [worker EXCEPT ![w] = row]
Goto(w, pc) == Become(w, [worker[w] EXCEPT !.pc = pc])
Done(w) == Become(w, IdleWorker)
Local(pc, r, b, s, st) ==
    [pc |-> pc, r |-> r, b |-> b, s |-> s, st |-> st, scope |-> {}]

CreateRequest(w, r) ==
    /\ Start(w, "create")
    /\ req[r].status = "none"
    /\ req' = [req EXCEPT ![r] = CreatedRow]
    /\ UNCHANGED <<bk, deposits, worker>>

-----------------------------------------------------------------------------
(* performDecideTattooRequest: the artist answers a request. *)

\* Faulty: a question to the customer leaves the old booking alone.
CancellingButNotAsking == {"approved", "rejected"}

\* The decisions after which the old booking is cancelled, when there is one.
CancellingDecisions == {"approved", "rejected", "needs_info"}

AfterChecks(b, st) ==
    IF b # NoBooking /\ st \in CancellingDecisions
    THEN "decideCancel" ELSE "decideWrite"

DecideRead(w, r, st, s) ==
    /\ Start(w, "decide")
    /\ st = "booked" => "decideBooked" \in Enabled
    /\ Exists(r)
    /\ req[r].status # "booked"
    /\ st = "approved" =>
          req[r].pay \notin {"receipt_submitted", "awaiting_payment", "rejected"}
    /\ s \in IF st = "approved" THEN Slots ELSE {NoSlot}
    /\ LET b == req[r].booking IN
       Become(w, Local(IF st = "approved" THEN "decideOverlap" ELSE AfterChecks(b, st),
                       r, b, s, st))
    /\ UNCHANGED <<req, bk, deposits>>

DecideOverlap(w) ==
    /\ At(w, "decideOverlap")
    /\ IF SlotTaken(worker[w].s) THEN Done(w) ELSE Goto(w, "decidePending")
    /\ UNCHANGED <<req, bk, deposits>>

DecidePending(w) ==
    /\ At(w, "decidePending")
    /\ IF ProposedToAnother(worker[w].r, worker[w].s)
       THEN Done(w)
       ELSE Goto(w, AfterChecks(worker[w].b, worker[w].st))
    /\ UNCHANGED <<req, bk, deposits>>

DecideCancel(w) ==
    /\ At(w, "decideCancel")
    /\ CancelRequested({worker[w].b})
    /\ Goto(w, "decideWrite")
    /\ UNCHANGED <<req, deposits>>

\* The UPDATE carries no guard on what was read: WHERE id = $1.
DecideWrite(w) ==
    /\ At(w, "decideWrite")
    /\ LET me == worker[w] IN
       UpdateRequest(me.r, TRUE, Decided(req[me.r], me.st, me.s))
    /\ Done(w)
    /\ UNCHANGED <<bk, deposits>>

-----------------------------------------------------------------------------
(* performAcceptTattooProposal, acceptGuestByPhone: the customer accepts the *)
(* proposed time, which takes the lock.                                      *)

AcceptRead(w, r) ==
    /\ Start(w, "accept")
    /\ Exists(r)
    /\ req[r].pay = "proposal_pending"
    /\ req[r].slot # NoSlot
    /\ Become(w, Local("acceptOverlap", r, NoBooking, req[r].slot, "none"))
    /\ UNCHANGED <<req, bk, deposits>>

AcceptOverlap(w) ==
    /\ At(w, "acceptOverlap")
    /\ IF SlotTaken(worker[w].s) THEN Done(w) ELSE Goto(w, "acceptInsert")
    /\ UNCHANGED <<req, bk, deposits>>

NewBooking(owner, s, status) ==
    [status |-> status, slot |-> s, owner |-> owner, byHand |-> FALSE]

\* The INSERT, when the overlap trigger lets it through.
AcceptInsert(w, b) ==
    /\ At(w, "acceptInsert")
    /\ bk[b].status = "free"
    /\ TriggerAllows(b, worker[w].s)
    /\ bk' = [bk EXCEPT ![b] = NewBooking(worker[w].r, worker[w].s, "requested")]
    /\ Become(w, [worker[w] EXCEPT !.pc = "acceptWrite", !.b = b])
    /\ UNCHANGED <<req, deposits>>

\* The INSERT raises: the trigger's 23P01, or the bound on ids.
AcceptRefused(w) ==
    /\ At(w, "acceptInsert")
    /\ ~\E b \in Bookings : bk[b].status = "free" /\ TriggerAllows(b, worker[w].s)
    /\ Done(w)
    /\ UNCHANGED <<req, bk, deposits>>

\* Guarded by payment_status, but nobody looks at whether a row was updated.
AcceptWrite(w) ==
    /\ At(w, "acceptWrite")
    /\ LET me == worker[w] IN
       UpdateRequest(me.r, req[me.r].pay = "proposal_pending",
                     Accepted(req[me.r], me.b))
    /\ Done(w)
    /\ UNCHANGED <<bk, deposits>>

-----------------------------------------------------------------------------
(* performSubmitTattooReceipt, submitGuestReceiptByPhone *)

SubmitRead(w, r) ==
    /\ Start(w, "submit")
    /\ Exists(r)
    /\ req[r].pay \in HoldOpen
    /\ Become(w, Local(IF req[r].hold = "open" THEN "submitWrite" ELSE "submitCancel",
                       r, NoBooking, NoSlot, "none"))
    /\ UNCHANGED <<req, bk, deposits>>

\* WHERE id = $1 alone: whatever happened since the read.
SubmitWrite(w) ==
    /\ At(w, "submitWrite")
    /\ UpdateRequest(worker[w].r, TRUE, Submitted(req[worker[w].r]))
    /\ Done(w)
    /\ UNCHANGED <<bk, deposits>>

\* Too late: the booking the row points at now is released ...
SubmitCancel(w) ==
    /\ At(w, "submitCancel")
    /\ CancelRequested({req[worker[w].r].booking})
    /\ Goto(w, "submitExpire")
    /\ UNCHANGED <<req, deposits>>

\* ... and the request expires, if it still waits for money.
SubmitExpire(w) ==
    /\ At(w, "submitExpire")
    /\ LET row == req[worker[w].r] IN
       UpdateRequest(worker[w].r, row.pay \in HoldOpen, Expired(row))
    /\ Done(w)
    /\ UNCHANGED <<bk, deposits>>

-----------------------------------------------------------------------------
(* performDecideTattooReceipt: the artist approves or sends back a receipt. *)

ReceiptRead(w, r, approved) ==
    /\ Start(w, "receipt")
    /\ Exists(r)
    /\ req[r].pay = "receipt_submitted"
    /\ approved => req[r].booking # NoBooking
    /\ Become(w, Local(IF approved THEN "receiptPlan" ELSE "receiptReject",
                       r, req[r].booking, NoSlot, "none"))
    /\ UNCHANGED <<req, bk, deposits>>

\* Faulty: the deposit is added at every approval.
NeedsDepositAlways(r) == Exists(r) /\ r \notin Free

\* Faulty: the deposit is added only when a row of it is already there.
NeedsDepositSwapped(r) == Exists(r) /\ r \notin Free /\ deposits[r] # 0

\* receiptPlan: a deposit is added unless it is zero, a row of it is already
\* there, or the request is gone (its deposit is then read as zero).
NeedsDeposit(r) == Exists(r) /\ r \notin Free /\ deposits[r] = 0

ReceiptPlan(w) ==
    /\ At(w, "receiptPlan")
    /\ Goto(w, IF NeedsDeposit(worker[w].r) THEN "receiptPay" ELSE "receiptBook")
    /\ UNCHANGED <<req, bk, deposits>>

\* INSERT INTO tattoo_payments: raises when the request is gone (foreign key).
ReceiptPay(w) ==
    /\ At(w, "receiptPay")
    /\ IF Exists(worker[w].r)
       THEN /\ deposits' = [deposits EXCEPT ![worker[w].r] = @ + 1]
            /\ Goto(w, "receiptBook")
       ELSE Done(w) /\ UNCHANGED deposits
    /\ UNCHANGED <<req, bk>>

ReceiptBook(w) ==
    /\ At(w, "receiptBook")
    /\ UpdateRequest(worker[w].r, TRUE, Booked(req[worker[w].r]))
    /\ Goto(w, "receiptConfirm")
    /\ UNCHANGED <<bk, deposits>>

\* The last statement can raise: by then the request is booked already.
ReceiptConfirm(w) ==
    /\ At(w, "receiptConfirm")
    /\ LET b == worker[w].b IN
       bk' = IF TriggerAllows(b, bk[b].slot)
             THEN [bk EXCEPT ![b] = ConfirmedBooking(bk[b])] ELSE bk
    /\ Done(w)
    /\ UNCHANGED <<req, deposits>>

ReceiptReject(w) ==
    /\ At(w, "receiptReject")
    /\ UpdateRequest(worker[w].r, TRUE, SentBack(req[worker[w].r]))
    /\ Done(w)
    /\ UNCHANGED <<bk, deposits>>

-----------------------------------------------------------------------------
(* expireOpenTattooHolds: run by every load of the studio's list, over all   *)
(* requests, and of a customer's list, over that customer's.                 *)

\* The WHERE clause both statements share; each evaluates now() for itself.
LapsedHold(r) ==
    /\ req[r].status = "approved"
    /\ req[r].pay \in HoldOpen
    /\ req[r].hold = "lapsed"

\* Faulty: the payment status is not looked at.
LapsedBookingsAnyPay(scope) ==
    {req[r].booking : r \in {r \in scope : req[r].status = "approved"
                                          /\ req[r].hold = "lapsed"}}

\* Faulty: only the first of the two open payment statuses.
LapsedBookingsAwaiting(scope) ==
    {req[r].booking : r \in {r \in scope : LapsedHold(r)
                                          /\ req[r].pay = "awaiting_payment"}}

\* The subselect of cancelBookings.
LapsedBookings(scope) ==
    {req[r].booking : r \in {r \in scope : LapsedHold(r)}}

SweepCancel(w, scope) ==
    /\ Start(w, "sweep")
    /\ CancelRequested(LapsedBookings(scope))
    /\ Become(w, [IdleWorker EXCEPT !.pc = "sweepExpire", !.scope = scope])
    /\ UNCHANGED <<req, deposits>>

SweepExpire(w) ==
    /\ At(w, "sweepExpire")
    /\ req' = [r \in Requests |->
                 IF r \in worker[w].scope /\ LapsedHold(r)
                 THEN Expired(req[r]) ELSE req[r]]
    /\ Done(w)
    /\ UNCHANGED <<bk, deposits>>

-----------------------------------------------------------------------------
(* performDeleteTattooRequest, performCancelStudioJob *)

DeleteRead(w, r) ==
    /\ Start(w, "delete")
    /\ Exists(r)
    /\ req[r].status # "booked" /\ req[r].pay # "approved"
    /\ LET b == req[r].booking IN
       Become(w, Local(IF b # NoBooking THEN "deleteCancel" ELSE "deleteRow",
                       r, b, NoSlot, "none"))
    /\ UNCHANGED <<req, bk, deposits>>

DeleteCancel(w) ==
    /\ At(w, "deleteCancel")
    /\ CancelRequested({worker[w].b})
    /\ Goto(w, "deleteRow")
    /\ UNCHANGED <<req, deposits>>

\* The payments go with the row (ON DELETE CASCADE).
DeleteRow(w) ==
    /\ At(w, "deleteRow")
    /\ UpdateRequest(worker[w].r, TRUE, DeletedRow)
    /\ deposits' = [deposits EXCEPT ![worker[w].r] = 0]
    /\ Done(w)
    /\ UNCHANGED bk

CancelJobRead(w, r) ==
    /\ Start(w, "cancelJob")
    /\ Exists(r)
    /\ LET b == req[r].booking IN
       Become(w, Local(IF b # NoBooking THEN "jobCancel" ELSE "jobWrite",
                       r, b, NoSlot, "none"))
    /\ UNCHANGED <<req, bk, deposits>>

\* Here the booking is cancelled whatever its status.
JobCancel(w) ==
    /\ At(w, "jobCancel")
    /\ bk' = [bk EXCEPT ![worker[w].b].status = "cancelled"]
    /\ Goto(w, "jobWrite")
    /\ UNCHANGED <<req, deposits>>

JobWrite(w) ==
    /\ At(w, "jobWrite")
    /\ UpdateRequest(worker[w].r, TRUE, Dropped(req[worker[w].r]))
    /\ Done(w)
    /\ UNCHANGED <<bk, deposits>>

-----------------------------------------------------------------------------
(* The calendar: other bookings of the shop, and what the calendar's own     *)
(* buttons do to a tattoo booking.                                           *)

\* performCreateBooking inserts 'requested'; performManualAppointment and
\* performCreateBlock insert 'confirmed'.
WalkIn(w, b, s, status) ==
    /\ Start(w, "walkIn")
    /\ bk[b].status = "free"
    /\ TriggerAllows(b, s)
    /\ bk' = [bk EXCEPT ![b] = NewBooking(NoRequest, s, status)]
    /\ UNCHANGED <<req, deposits, worker>>

\* performBookingStatus: the owner may set any status, a customer may cancel;
\* the tattoo request is not touched.
SetBookingStatus(w, b, status) ==
    /\ Start(w, "calendar")
    /\ bk[b].status # "free"
    /\ status \in {"requested", "confirmed"} => TriggerAllows(b, bk[b].slot)
    /\ bk' = [bk EXCEPT ![b] = [@ EXCEPT !.status = status, !.byHand = TRUE]]
    /\ UNCHANGED <<req, deposits, worker>>

\* performReschedule: the new time looked free in the shop (a booking at the
\* old time is taken for the moved one itself) ...
RescheduleRead(w, b, s) ==
    /\ Start(w, "reschedule")
    /\ bk[b].status # "free"
    /\ (\E r \in Requests : req[r].booking = b /\ req[r].status # "booked")
          => "rescheduleOpen" \in Enabled
    /\ s.shop = bk[b].slot.shop
    /\ \A c \in Bookings :
          Live(c) /\ bk[c].slot # bk[b].slot => ~Clashes(bk[c].slot, s)
    /\ Become(w, Local("rescheduleMove", NoRequest, b, s, "none"))
    /\ UNCHANGED <<req, bk, deposits>>

\* ... the booking moves, unless the trigger raises ...
RescheduleMove(w) ==
    /\ At(w, "rescheduleMove")
    /\ LET me == worker[w] IN
       IF Live(me.b) => TriggerAllows(me.b, me.s)
       THEN bk' = [bk EXCEPT ![me.b].slot = me.s] /\ Goto(w, "rescheduleSync")
       ELSE UNCHANGED bk /\ Done(w)
    /\ UNCHANGED <<req, deposits>>

\* Faulty: the requests that follow are those not booked yet.
FollowsUnlessBooked(r, b) == req[r].booking = b /\ req[r].status = "approved"

\* WHERE booking_id = $1 AND status = 'booked'
Follows(r, b) == req[r].booking = b /\ req[r].status = "booked"

\* ... and a booked request follows it; one that is not booked does not.
RescheduleSync(w) ==
    /\ At(w, "rescheduleSync")
    /\ req' = [r \in Requests |->
                 IF Follows(r, worker[w].b)
                 THEN [req[r] EXCEPT !.slot = worker[w].s] ELSE req[r]]
    /\ Done(w)
    /\ UNCHANGED <<bk, deposits>>

-----------------------------------------------------------------------------
(* Environment *)

\* payment_hold_until passes.
Lapse(r) ==
    /\ AllIdle \/ "lapseMidway" \in Enabled
    /\ Exists(r)
    /\ req[r].hold = "open"
    /\ req' = [req EXCEPT ![r].hold = "lapsed"]
    /\ UNCHANGED <<bk, deposits, worker>>

\* A handler stops between two statements: the query throws, or the process
\* is restarted.  What it has written stays.
Abort(w) ==
    /\ "abort" \in Enabled
    /\ ~At(w, "idle")
    /\ Done(w)
    /\ UNCHANGED <<req, bk, deposits>>

-----------------------------------------------------------------------------
(* Specification *)

\* An HTTP request arrives: its first statement, or its only one.
Arrive(w) ==
    \/ \E r \in Requests :
          \/ CreateRequest(w, r)
          \/ \E st \in Decisions, s \in Slots \cup {NoSlot} : DecideRead(w, r, st, s)
          \/ AcceptRead(w, r)
          \/ SubmitRead(w, r)
          \/ \E approved \in BOOLEAN : ReceiptRead(w, r, approved)
          \/ DeleteRead(w, r)
          \/ CancelJobRead(w, r)
    \/ \E scope \in (SUBSET Requests) \ {{}} : SweepCancel(w, scope)
    \/ \E b \in Bookings :
          \/ \E s \in Slots, st \in {"requested", "confirmed"} : WalkIn(w, b, s, st)
          \/ \E st \in BookingStatuses : SetBookingStatus(w, b, st)
          \/ \E s \in Slots : RescheduleRead(w, b, s)

\* The next statement of a handler in flight.
Continue(w) ==
    \/ DecideOverlap(w) \/ DecidePending(w) \/ DecideCancel(w) \/ DecideWrite(w)
    \/ AcceptOverlap(w) \/ (\E b \in Bookings : AcceptInsert(w, b))
    \/ AcceptRefused(w) \/ AcceptWrite(w)
    \/ SubmitWrite(w) \/ SubmitCancel(w) \/ SubmitExpire(w)
    \/ ReceiptPlan(w) \/ ReceiptPay(w) \/ ReceiptBook(w) \/ ReceiptConfirm(w)
    \/ ReceiptReject(w)
    \/ SweepExpire(w)
    \/ DeleteCancel(w) \/ DeleteRow(w)
    \/ JobCancel(w) \/ JobWrite(w)
    \/ RescheduleMove(w) \/ RescheduleSync(w)

Next ==
    \/ \E w \in Workers : Arrive(w) \/ Continue(w) \/ Abort(w)
    \/ \E r \in Requests : Lapse(r)

Spec == Init /\ [][Next]_vars

\* The process keeps running the handlers it has begun, and the studio's list
\* is loaded again and again.
FairSpec ==
    /\ Spec
    /\ \A w \in Workers : WF_vars(Continue(w))
    /\ SF_vars(\E w \in Workers : SweepCancel(w, Requests))

-----------------------------------------------------------------------------
(* Type invariant *)

TypeOK ==
    /\ req \in [Requests -> RequestRows]
    /\ bk \in [Bookings -> BookingRows]
    /\ deposits \in [Requests -> Nat]
    /\ worker \in [Workers -> WorkerRows]

-----------------------------------------------------------------------------
(* What no interleaving, crash or late clock can break *)

\* Two live bookings of one shop never overlap, whichever handlers inserted,
\* revived or moved them (bookings_prevent_overlap).
NoOverlap ==
    \A b, c \in Bookings :
        b # c /\ Live(b) /\ Live(c) => ~Clashes(bk[b].slot, bk[c].slot)

\* A request that waits for an answer, was turned down or has expired points
\* at no booking: the next acceptance starts from a clean row, and no sweep,
\* cancellation or approval can act on a lock of an earlier proposal.
NoStaleLink ==
    \A r \in Requests :
        req[r].pay \in {"not_required", "proposal_pending", "expired"}
            => req[r].booking = NoBooking

\* Whoever owes a payment has a deadline: expireOpenTattooHolds skips rows
\* whose payment_hold_until is null, so without one a lock would never end.
DebtHasDeadline ==
    \A r \in Requests : req[r].pay \in HoldOpen => req[r].hold # "none"

\* A request with no deposit to pay, with its deposit paid, or gone.
Paid(r) == r \in Free \/ deposits[r] > 0 \/ req[r].status = "deleted"

\* The payment flow confirms no booking, and calls no request approved, before
\* the deposit of that request is in tattoo_payments (performDecideTattooReceipt
\* inserts, books and confirms in three separate statements).
ConfirmedOnlyAfterDeposit ==
    /\ \A b \in Bookings :
          bk[b].status = "confirmed" /\ ~bk[b].byHand /\ bk[b].owner # NoRequest
              => Paid(bk[b].owner)
    /\ \A r \in Requests : req[r].pay = "approved" => Paid(r)

-----------------------------------------------------------------------------
(* The slot lock the calendar implements *)

SlotPlaces(s) == {s.shop} \X s.time
Locks == UNION {{b} \X SlotPlaces(bk[b].slot) : b \in {b \in Bookings : Live(b)}}

Calendar == INSTANCE SlotLock WITH
    Holders <- Bookings,
    Places <- UNION {SlotPlaces(s) : s \in Slots},
    locks <- Locks

\* Time passes from one live booking to another only through being free: every
\* statement of every handler releases bookings, or gives one booking all the
\* time of its slot while no other live booking has any of it.
ImplementsSlotLock == Calendar!Spec

-----------------------------------------------------------------------------
(* What holds when handlers run one after another and the clock does not     *)
(* tick inside one of them                                                   *)

\* From acceptance until the receipt is settled the slot stays locked; only
\* the calendar's own buttons can take it away.
LockHeld ==
    AllIdle => \A r \in Requests :
        req[r].pay \in {"awaiting_payment", "receipt_submitted", "rejected"} =>
            /\ req[r].booking # NoBooking
            /\ Live(req[r].booking) \/ bk[req[r].booking].byHand

\* Every lock is somebody's: a booking the acceptance of a request left in
\* 'requested' is the booking that request points at.  A lock without an owner
\* would never be swept and would block the calendar for good.
NoOrphanLock ==
    AllIdle => \A b \in Bookings :
        bk[b].status = "requested" /\ bk[b].owner # NoRequest /\ ~bk[b].byHand
            => req[bk[b].owner].booking = b

\* One time is never on offer to two customers of a shop.
ProposalsDisjoint ==
    AllIdle => \A q, r \in Requests :
        q # r /\ Pending(q) /\ Pending(r) => ~Clashes(req[q].slot, req[r].slot)

\* The booking a request points at is for the time the request shows, as long
\* as nobody moves the booking of a request that is not booked yet.
SlotAgrees ==
    AllIdle => \A r \in Requests :
        req[r].booking # NoBooking => bk[req[r].booking].slot = req[r].slot

\* A booked request has a confirmed booking, unless somebody changed that
\* booking in the calendar.
BookedIsConfirmed ==
    AllIdle => \A r \in Requests :
        req[r].status = "booked" /\ req[r].booking # NoBooking =>
            \/ bk[req[r].booking].status = "confirmed"
            \/ bk[req[r].booking].byHand

\* "Approving a receipt must not add the deposit a second time."
DepositOnce == \A r \in Requests : deposits[r] <= 1

-----------------------------------------------------------------------------
(* What the code or its tests say, stated without the provisos above *)

\* performSubmitTattooReceipt tells the customer that the time was freed, and
\* tattoo-flow.test.ts that a lapsed hold "releases the slot": no booking of an
\* expired request is left in 'requested'.
ReleasedWhenExpired ==
    AllIdle => \A b \in Bookings :
        bk[b].owner # NoRequest /\ bk[b].status = "requested" =>
            req[bk[b].owner].pay # "expired"

-----------------------------------------------------------------------------
(* Liveness *)

\* A hold whose deadline has passed does not stay open for ever.
LapsedHoldIsSettled == \A r \in Requests : LapsedHold(r) ~> ~LapsedHold(r)

\* The slot a lapsed hold locks is given back.
LapsedLockIsReleased ==
    \A b \in Bookings :
        (bk[b].status = "requested" /\ \E r \in Requests : LapsedHold(r) /\ req[r].booking = b)
            ~> bk[b].status # "requested"

=============================================================================
