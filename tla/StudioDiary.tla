------------------------------ MODULE StudioDiary ------------------------------
(***************************************************************************)
(* The studio's work calendar as the staff panel edits it: cards (rows of  *)
(* tattoo_requests with status 'booked') and the bookings they point at    *)
(* (src/lib/server/writes.ts): create, move, exchange, cancel, follow-up,  *)
(* session status, clear calendar, month view; and what other screens do   *)
(* to a card's booking: the approved receipt that makes a request a card,  *)
(* the reschedule and the status buttons.                                  *)
(*                                                                         *)
(* A card and its booking are two rows written by separate statements; the *)
(* database guarantees only that live bookings do not overlap (the trigger *)
(* bookings_prevent_overlap).  A handler is a staff member with a program  *)
(* counter, one action is one SQL statement, and the look-ups that precede *)
(* a handler's first write are one action; the other screens' look-ups are *)
(* one action with that write.  A request before its approval belongs to   *)
(* TattooHold: here it is the time it asks for.  One seat, one staff scope. *)
(***************************************************************************)
EXTENDS Naturals, FiniteSetsExt

CONSTANTS
    Cards,        \* numbers of tattoo_requests rows
    Seats,        \* numbers of bookings rows
    Days, Hours,  \* a time is a Tehran day and a clock hour
    Staff,        \* HTTP requests that may be in flight at the same time
    Begun,        \* the appointments of the beginning: card, seat, at
    MaxCalls,     \* bound: requests in one behaviour
    MeetCost,     \* bound: what a request beside another one counts
    NoCard, NoSeat, NoTime

\* The appointments of the beginning are at different times, each with a card
\* and a booking of its own.
ASSUME DiaryAssumption ==
    /\ Cards \subseteq Nat /\ IsFiniteSet(Cards) /\ Seats \subseteq Nat /\ MaxCalls \in Nat /\ MeetCost \in Nat
    /\ NoCard \notin Cards /\ NoSeat \notin Seats /\ NoTime \notin [day : Days, hour : Hours]
    /\ Begun \subseteq [card : Cards, seat : Seats, at : [day : Days, hour : Hours]]
    /\ \A x, y \in Begun : x.card = y.card \/ x.seat = y.seat \/ x.at = y.at => x = y

VARIABLES
    card,     \* tattoo_requests
    seat,     \* bookings
    staff,
    calls,    \* history: requests so far
    odd       \* history: what has happened out of the ordinary

diaryVars == <<card, seat, staff, calls, odd>>

-----------------------------------------------------------------------------
(* State *)

Times == [day : Days, hour : Hours]

CardRows == [status : {"none", "booked", "rejected", "deleted"},
             seat : Seats \cup {NoSeat}, at : Times \cup {NoTime},
             root : Cards \cup {NoCard}, index : Nat,
             session : {"first", "planned", "done", "cancelled"},
             squeezed : BOOLEAN]

\* 'requested' counts as 'confirmed' wherever the calendar looks.
SeatRows == [status : {"none", "confirmed", "cancelled", "done", "no_show"},
             at : Times \cup {NoTime}, asked : Times \cup {NoTime}]

\* squeezed is history: the card has its day from a handler that does not ask
\* whether the day is full.  asked is the proposed time of the request, not yet
\* approved, that holds the booking.
NoCardRow == [status |-> "none", seat |-> NoSeat, at |-> NoTime,
              root |-> NoCard, index |-> 0, session |-> "first", squeezed |-> FALSE]
NoSeatRow == [status |-> "none", at |-> NoTime, asked |-> NoTime]
ConfirmedAt(t) == [NoSeatRow EXCEPT !.status = "confirmed", !.at = t]

StaffSteps == {"idle", "create", "moveCard", "moveSeat", "swapCancel", "swapMove",
               "swapConfirm", "swapRestore", "swapCards", "cancelCard", "clearLinks",
               "sessionSeat", "followSeat", "followCount", "followCard", "followUndo",
               "followIndex", "approveSeat", "rescheduleCard"}

\* seat, at: of the card asked for, or the time it is to have; otherSeat and
\* otherAt: of the card it changes places with.
StaffRows == [pc : StaffSteps, card : Cards \cup {NoCard}, other : Cards \cup {NoCard},
              seat : Seats \cup {NoSeat}, otherSeat : Seats \cup {NoSeat},
              at : Times \cup {NoTime}, otherAt : Times \cup {NoTime},
              root : Cards \cup {NoCard},
              new : Cards \cup {NoCard}, index : Nat,
              session : {"first", "planned", "done", "cancelled"}]

IdleStaff == [pc |-> "idle", card |-> NoCard, other |-> NoCard, seat |-> NoSeat,
              otherSeat |-> NoSeat, at |-> NoTime, otherAt |-> NoTime,
              root |-> NoCard, new |-> NoCard, index |-> 0, session |-> "first"]

\* A new row takes the lowest number that is free: the numbers mean nothing.
FreeCards == {j \in Cards : card[j].status = "none"}
FreeSeats == {b \in Seats : seat[b].status = "none"}

Live(b) == seat[b].status = "confirmed"
Exists(j) == card[j].status \in {"booked", "rejected"}
Booked(j) == card[j].status = "booked"
Linked(j) == Booked(j) /\ card[j].seat # NoSeat

\* The trigger: another live booking at that time.
TakenFor(B, t) == \E b \in Seats \ B : Live(b) /\ seat[b].at = t

\* Faulty: the trigger looks at inserts only.
RefusedNever(B, f) == FALSE

\* The trigger refuses a statement that leaves the bookings of B live at the
\* times f; when one of them is to go where another of them still is, that
\* depends on the order of the rows.
Refused(B, f) ==
    \/ \E b \in B : TakenFor(B, f[b])
    \/ \E a, b \in B : a # b /\ f[a] = f[b]
Crossing(B, f) == \E a, b \in B : a # b /\ Live(a) /\ seat[a].at = f[b]

\* findStudioClash: as the trigger, but a booking counts only with its card.
Clash(b, t) == {k \in Seats \ {b} : /\ Live(k) /\ seat[k].at = t
                                    /\ \E j \in Cards : Booked(j) /\ card[j].seat = k}

\* Faulty: the day is looked up among the live bookings alone.
DayTakenByBooking(b, d) == \E k \in Seats \ {b} : Live(k) /\ seat[k].at.day = d

\* not in ('cancelled','no_show')
Sat(b) == seat[b].status \in {"confirmed", "done"}

\* dayAlreadyTaken, with '' for a missing booking on both sides of the comparison.
DayTaken(b, d) ==
    \/ \E j \in Cards : Booked(j) /\ card[j].at # NoTime /\ card[j].at.day = d
                                  /\ card[j].seat # b
    \/ \E k \in Seats \ {b} : Sat(k) /\ seat[k].at.day = d

StaffAt(s, pc) == staff[s].pc = pc
StaffBecomes(s, row) == staff' = [staff EXCEPT ![s] = row]
StaffGoes(s, pc) == StaffBecomes(s, [staff[s] EXCEPT !.pc = pc])
StaffDone(s) == StaffBecomes(s, IdleStaff)
AtRest == \A s \in Staff : StaffAt(s, "idle")

Counts ==
    /\ calls' = calls + (IF AtRest THEN 1 ELSE MeetCost)
    /\ calls' <= MaxCalls

\* Whoever starts now overlaps with every handler in flight.
Meets == odd' = IF AtRest THEN odd ELSE odd \cup {"overlap"}

Call(s, row) ==
    /\ StaffAt(s, "idle") /\ Counts
    /\ Meets
    /\ StaffBecomes(s, row)

\* A later statement of a handler is refused: what it wrote before stays.
Halfway == odd' = odd \cup {"halfway"}

\* A cancelled booking keeps its time when its card is given another, and a
\* request that is not approved yet when its booking is.
Unmoved == odd' = odd \cup {"unmoved"}

Even == UNCHANGED odd

\* Every appointment of Begun has its card.
DiaryInit ==
    /\ card = [j \in Cards |-> IF \E x \in Begun : x.card = j
                  THEN LET x == CHOOSE x \in Begun : x.card = j
                       IN  [NoCardRow EXCEPT !.status = "booked", !.seat = x.seat, !.at = x.at, !.index = 1]
                  ELSE NoCardRow]
    /\ seat = [b \in Seats |-> IF \E x \in Begun : x.seat = b
                  THEN LET x == CHOOSE x \in Begun : x.seat = b
                       IN  ConfirmedAt(x.at)
                  ELSE NoSeatRow]
    /\ staff = [s \in Staff |-> IdleStaff]
    /\ calls = 0
    /\ odd = {}

-----------------------------------------------------------------------------
(* performCreateStudioJob *)

Create(s, t) ==
    /\ Call(s, [IdleStaff EXCEPT !.pc = "create", !.at = t])
    /\ Clash(NoSeat, t) = {} /\ ~DayTaken(NoSeat, t.day)
    /\ UNCHANGED <<card, seat>>

\* One statement inserts the booking and the card, or neither.
CreateInsert(s) ==
    /\ StaffAt(s, "create")
    /\ FreeCards # {} /\ FreeSeats # {}
    /\ LET k == staff[s]
           j == Min(FreeCards)
           b == Min(FreeSeats)
       IN  IF TakenFor({b}, k.at) THEN UNCHANGED <<card, seat>>
           ELSE /\ seat' = [seat EXCEPT ![b] = ConfirmedAt(k.at)]
                /\ card' = [card EXCEPT ![j] = [NoCardRow EXCEPT
                     !.status = "booked", !.seat = b, !.at = k.at,
                     !.index = 1]]
    /\ StaffDone(s)
    /\ Even /\ UNCHANGED calls

-----------------------------------------------------------------------------
(* performUpdateStudioJob: another time *)

Move(s, j, t) ==
    /\ Exists(j)
    /\ Call(s, [IdleStaff EXCEPT !.pc = "moveCard", !.card = j, !.at = t, !.seat = card[j].seat])
    /\ Clash(card[j].seat, t) = {} /\ ~DayTaken(card[j].seat, t.day)
    /\ UNCHANGED <<card, seat>>

MoveCard(s) ==
    /\ StaffAt(s, "moveCard")
    /\ card' = [card EXCEPT ![staff[s].card].at = staff[s].at,
                            ![staff[s].card].squeezed = FALSE]
    /\ IF staff[s].seat = NoSeat THEN StaffDone(s) ELSE StaffGoes(s, "moveSeat")
    /\ Even /\ UNCHANGED <<seat, calls>>

\* ... where status <> 'cancelled'
Movable(b) == seat[b].status \notin {"none", "cancelled"}

MoveSeat(s) ==
    /\ StaffAt(s, "moveSeat")
    /\ LET b == staff[s].seat
           refused == Live(b) /\ TakenFor({b}, staff[s].at)
       IN  IF Movable(b) /\ ~refused
           THEN seat' = [seat EXCEPT ![b].at = staff[s].at] /\ Even
           ELSE UNCHANGED seat /\ IF refused THEN Halfway ELSE Unmoved
    /\ StaffDone(s)
    /\ UNCHANGED <<card, calls>>

-----------------------------------------------------------------------------
(* performSwapStudioJobs *)

\* swapDaySlots: the days change hands, the clock times stay.
OnDay(t, d) == [t EXCEPT !.day = d]

\* The two cards and the look-ups; both must have a booking and a time.
Swap(s, i, j) ==
    /\ i # j /\ card[i].seat # NoSeat /\ card[i].at # NoTime /\ Linked(j)
    /\ card[j].at # NoTime /\ card[i].at.day # card[j].at.day
    /\ Call(s, [IdleStaff EXCEPT !.pc = "swapCancel", !.card = i, !.other = j,
                                 !.seat = card[i].seat, !.at = card[i].at,
                                 !.otherSeat = card[j].seat, !.otherAt = card[j].at])
    /\ Clash(card[i].seat, OnDay(card[i].at, card[j].at.day)) \subseteq {card[j].seat}
    /\ Clash(card[j].seat, OnDay(card[j].at, card[i].at.day)) \subseteq {card[i].seat}
    /\ UNCHANGED <<card, seat>>

SwapSeats(s) == {staff[s].seat, staff[s].otherSeat}

\* The time each of the two cards, or of their bookings, goes to.
SwapTime(s, theirs) ==
    LET k == staff[s]
    IN  IF theirs THEN OnDay(k.otherAt, k.at.day) ELSE OnDay(k.at, k.otherAt.day)

OldTime(s, theirs) == IF theirs THEN staff[s].otherAt ELSE staff[s].at

SwapCancel(s) ==
    /\ StaffAt(s, "swapCancel")
    /\ seat' = [b \in Seats |-> IF b \in SwapSeats(s) THEN [seat[b] EXCEPT !.status = "cancelled"]
                                ELSE seat[b]]
    /\ StaffGoes(s, "swapMove")
    /\ Even /\ UNCHANGED <<card, calls>>

SwapTimes(s) == [b \in SwapSeats(s) |-> SwapTime(s, b # staff[s].seat)]
OldTimes(s) == [b \in SwapSeats(s) |-> OldTime(s, b # staff[s].seat)]
NowTimes(s) == [b \in SwapSeats(s) |-> seat[b].at]

\* One statement on both bookings: their times, and their status if it names one.
SwapWrite(s, f, status) ==
    seat' = [b \in Seats |-> IF b \in SwapSeats(s)
               THEN [seat[b] EXCEPT !.at = f[b], !.status = IF status = "" THEN @ ELSE status]
               ELSE seat[b]]

\* Only a booking that somebody has confirmed meanwhile can be refused here.
SwapMove(s) ==
    /\ StaffAt(s, "swapMove")
    /\ LET B == {b \in SwapSeats(s) : Live(b)}
           f == SwapTimes(s)
       IN  \/ ~Refused(B, f) /\ SwapWrite(s, f, "") /\ StaffGoes(s, "swapConfirm")
           \/ (Refused(B, f) \/ Crossing(B, f)) /\ UNCHANGED seat /\ StaffGoes(s, "swapRestore")
    /\ Even /\ UNCHANGED <<card, calls>>

SwapConfirm(s) ==
    /\ StaffAt(s, "swapConfirm")
    /\ IF Refused(SwapSeats(s), NowTimes(s))
       THEN UNCHANGED seat /\ StaffGoes(s, "swapRestore")
       ELSE SwapWrite(s, NowTimes(s), "confirmed") /\ StaffGoes(s, "swapCards")
    /\ Even /\ UNCHANGED <<card, calls>>

\* The compensation, which the trigger may refuse in its turn.
SwapRestore(s) ==
    /\ StaffAt(s, "swapRestore")
    /\ LET B == SwapSeats(s)
           f == OldTimes(s)
       IN  \/ ~Refused(B, f) /\ SwapWrite(s, f, "confirmed") /\ Even
           \/ (Refused(B, f) \/ Crossing(B, f)) /\ UNCHANGED seat /\ Halfway
    /\ StaffDone(s)
    /\ UNCHANGED <<card, calls>>

\* Faulty: each card keeps the time the other one had.
SwapCardAtOther(s, theirs) == OldTime(s, ~theirs)

SwapCardAt(s, theirs) == SwapTime(s, theirs)

SwapCards(s) ==
    /\ StaffAt(s, "swapCards")
    /\ LET k == staff[s]
           from(j) == IF j = k.other THEN k.card ELSE k.other
       IN  card' = [j \in Cards |-> IF j \in {k.card, k.other}
                      THEN [card[j] EXCEPT !.at = SwapCardAt(s, j = k.other),
                                           !.squeezed = card[from(j)].squeezed]
                      ELSE card[j]]
    /\ StaffDone(s)
    /\ Even /\ UNCHANGED <<seat, calls>>

-----------------------------------------------------------------------------
(* performCancelStudioJob, performDeleteTattooRequest *)

CancelSeat(s, j) ==
    /\ Exists(j)
    /\ Call(s, [IdleStaff EXCEPT !.pc = "cancelCard", !.card = j])
    /\ seat' = [b \in Seats |-> IF b = card[j].seat THEN [seat[b] EXCEPT !.status = "cancelled"]
                                ELSE seat[b]]
    /\ UNCHANGED card

CancelCard(s) ==
    /\ StaffAt(s, "cancelCard")
    /\ card' = [card EXCEPT ![staff[s].card].status = IF @ = "deleted" THEN @ ELSE "rejected",
                            ![staff[s].card].seat = NoSeat, ![staff[s].card].at = NoTime]
    /\ StaffDone(s)
    /\ Even /\ UNCHANGED <<seat, calls>>

\* A card that is no longer booked may be deleted; its sessions stay.
DeleteCard(j) ==
    /\ card[j].status = "rejected"
    /\ card' = [card EXCEPT ![j].status = "deleted"]
    /\ odd' = odd \cup {"deleted"}
    /\ UNCHANGED <<seat, staff, calls>>

-----------------------------------------------------------------------------
(* performFollowUpStudioJob *)

\* A booking of the same person at that time is returned when it has a card;
\* otherwise the new session gets a booking of its own.
FollowUp(s, j, t) ==
    /\ Exists(j)
    /\ Call(s, [IdleStaff EXCEPT !.pc = "followSeat", !.card = j, !.at = t,
                                 !.root = IF card[j].root = NoCard THEN j ELSE card[j].root])
    /\ Clash(NoSeat, t) = {} /\ ~DayTaken(NoSeat, t.day)
    /\ UNCHANGED <<card, seat>>

FollowSeat(s) ==
    /\ StaffAt(s, "followSeat")
    /\ FreeSeats # {}
    /\ IF TakenFor({}, staff[s].at)
       THEN UNCHANGED seat /\ StaffDone(s)
       ELSE LET b == Min(FreeSeats)
            IN
            /\ seat' = [seat EXCEPT ![b] = ConfirmedAt(staff[s].at)]
            /\ StaffBecomes(s, [staff[s] EXCEPT !.pc = "followCount", !.seat = b])
    /\ Even /\ UNCHANGED <<card, calls>>

\* Faulty: the sessions are counted without the first one.
CountedWithoutRoot(r) == Cardinality({j \in Cards : Exists(j) /\ card[j].root = r})

\* select count(*) ... where id = root or session_parent_id = root
Counted(r) == Cardinality({j \in Cards : Exists(j) /\ r \in {j, card[j].root}})

FollowCount(s) ==
    /\ StaffAt(s, "followCount")
    /\ LET n == Counted(staff[s].root)
       IN  StaffBecomes(s, [staff[s] EXCEPT !.pc = "followCard",
                                            !.index = IF n = 0 THEN 2 ELSE n + 1])
    /\ Even /\ UNCHANGED <<card, seat, calls>>

\* The insert copies the source card; when that fails the booking is deleted,
\* and when the source is gone nothing is copied and the booking stays.
FollowCard(s) ==
    /\ StaffAt(s, "followCard")
    /\ IF ~Exists(staff[s].card) THEN UNCHANGED card /\ StaffDone(s) /\ Halfway
       ELSE /\ \/ /\ FreeCards # {}
                  /\ card' = [card EXCEPT ![Min(FreeCards)] = [NoCardRow EXCEPT
                       !.status = "booked", !.seat = staff[s].seat,
                       !.at = staff[s].at]]
                  /\ StaffBecomes(s, [staff[s] EXCEPT !.pc = "followIndex",
                                                      !.new = Min(FreeCards)])
               \/ UNCHANGED card /\ StaffGoes(s, "followUndo")
            /\ Even
    /\ UNCHANGED <<seat, calls>>

FollowUndo(s) ==
    /\ StaffAt(s, "followUndo")
    /\ seat' = [seat EXCEPT ![staff[s].seat] = NoSeatRow]
    /\ StaffDone(s)
    /\ Even /\ UNCHANGED <<card, calls>>

\* The session gets its number (the update of session_count follows), or it
\* continues the work under a price of its own and is no numbered session.
FollowIndex(s) ==
    /\ StaffAt(s, "followIndex")
    /\ card' \in {[card EXCEPT ![staff[s].new].root = staff[s].root,
                               ![staff[s].new].index = staff[s].index,
                               ![staff[s].new].session = "planned"],
                  [card EXCEPT ![staff[s].new].index = 1]}
    /\ StaffDone(s)
    /\ Even /\ UNCHANGED <<seat, calls>>

-----------------------------------------------------------------------------
(* performSetStudioSessionStatus *)

\* On a follow-up, by its message or its number, and never on the first session.
SetSession(s, j, status) ==
    /\ Exists(j) /\ card[j].index # 1
    /\ Call(s, IF card[j].seat = NoSeat THEN IdleStaff
               ELSE [IdleStaff EXCEPT !.pc = "sessionSeat", !.seat = card[j].seat,
                                      !.session = status])
    /\ card' = [card EXCEPT ![j].session = status]
    /\ UNCHANGED seat

SessionSeat(s) ==
    /\ StaffAt(s, "sessionSeat")
    /\ LET b == staff[s].seat
       IN  IF staff[s].session = "cancelled"
           THEN seat' = [seat EXCEPT ![b].status = "cancelled"] /\ Even
           ELSE IF TakenFor({b}, seat[b].at) THEN UNCHANGED seat /\ Halfway
           ELSE seat' = [seat EXCEPT ![b].status = "confirmed"] /\ Even
    /\ StaffDone(s)
    /\ UNCHANGED <<card, calls>>

-----------------------------------------------------------------------------
(* performClearStudioCalendar, performStudioMonthJobs *)

ClearSeats(s) ==
    /\ Call(s, [IdleStaff EXCEPT !.pc = "clearLinks"])
    /\ seat' = [b \in Seats |-> IF Live(b) THEN [seat[b] EXCEPT !.status = "cancelled"]
                                ELSE seat[b]]
    /\ UNCHANGED card

ClearLinks(s) ==
    /\ StaffAt(s, "clearLinks")
    /\ card' = [j \in Cards |-> [card[j] EXCEPT !.seat = NoSeat]]
    /\ seat' = [b \in Seats |-> [seat[b] EXCEPT !.asked = NoTime]]
    /\ StaffDone(s)
    /\ Even /\ UNCHANGED calls

\* Faulty: the month view moves nothing.
AstrayNever(j) == FALSE

\* A card's booking is on another day (the hour is not compared).
Astray(j) == Linked(j) /\ card[j].at # NoTime /\ Movable(card[j].seat)
                       /\ seat[card[j].seat].at.day # card[j].at.day

StraySeats == {card[j].seat : j \in {j \in Cards : Astray(j)}}
LiveStrays == {b \in StraySeats : Live(b)}
StrayTimes == [b \in StraySeats |-> card[CHOOSE j \in Cards : Astray(j) /\ card[j].seat = b].at]

\* The month view moves every such booking in one statement; one refusal by
\* the trigger undoes it.
MonthLoad ==
    /\ StraySeats # {}
    /\ ~Refused(LiveStrays, StrayTimes)
    /\ seat' = [b \in Seats |-> IF b \in StraySeats THEN [seat[b] EXCEPT !.at = StrayTimes[b]]
                                ELSE seat[b]]
    /\ Meets /\ UNCHANGED <<card, staff, calls>>

\* ... in whatever order it takes the rows
MonthRepairs == MonthLoad /\ ~Crossing(LiveStrays, StrayTimes)

-----------------------------------------------------------------------------
(* Other screens: performAcceptTattooProposal, performDecideTattooReceipt,  *)
(* performReschedule, performBookingStatus, performMarkStudioNoShow         *)

\* A booking the calendar did not make: of an accepted proposal, or of a
\* marketplace customer, which is one that is never approved.
OtherBooks(t) ==
    /\ Counts /\ FreeSeats # {} /\ ~TakenFor({}, t)
    /\ seat' = [seat EXCEPT ![Min(FreeSeats)] = [ConfirmedAt(t) EXCEPT !.asked = t]]
    /\ Meets
    /\ UNCHANGED <<card, staff>>

\* An approved receipt makes the request a card, whoever has that day.
Approve(s, b) ==
    /\ seat[b].asked # NoTime /\ FreeCards # {}
    /\ Call(s, [IdleStaff EXCEPT !.pc = "approveSeat", !.seat = b, !.at = seat[b].asked])
    /\ card' = [card EXCEPT ![Min(FreeCards)] = [NoCardRow EXCEPT
         !.status = "booked", !.seat = b, !.at = seat[b].asked, !.index = 1,
         !.squeezed = TRUE]]
    /\ seat' = [seat EXCEPT ![b].asked = NoTime]

\* The booking is confirmed where it stands now.
ApproveSeat(s) ==
    /\ StaffAt(s, "approveSeat")
    /\ LET k == staff[s]
       IN  IF TakenFor({k.seat}, seat[k.seat].at) THEN UNCHANGED seat /\ Halfway
           ELSE /\ seat' = [seat EXCEPT ![k.seat].status = "confirmed"]
                /\ IF seat[k.seat].at = k.at THEN Even ELSE Unmoved
    /\ StaffDone(s)
    /\ UNCHANGED <<card, calls>>

\* Any booking, whatever its status, to a time that is free; its own always is.
Reschedule(s, b, t) ==
    /\ seat[b].status # "none"
    /\ Call(s, [IdleStaff EXCEPT !.pc = "rescheduleCard", !.seat = b, !.at = t])
    /\ t = seat[b].at \/ ~TakenFor({b}, t)
    /\ seat' = [seat EXCEPT ![b].at = t]
    /\ UNCHANGED card

\* ... where booking_id = $1 and status = 'booked', whoever has that day
RescheduleCard(s) ==
    /\ StaffAt(s, "rescheduleCard")
    /\ LET k == staff[s]
           sameDay(j) == card[j].at # NoTime /\ card[j].at.day = k.at.day
       IN  card' = [j \in Cards |-> IF Booked(j) /\ card[j].seat = k.seat
                      THEN [card[j] EXCEPT !.at = k.at, !.squeezed = @ \/ ~sameDay(j)]
                      ELSE card[j]]
    /\ StaffDone(s)
    /\ Even /\ UNCHANGED <<seat, calls>>

\* The status buttons of a booking; 'no_show' also from its card.
SetBookingStatus(b, status) ==
    /\ seat[b].status # "none" /\ Counts
    /\ status = "confirmed" => ~TakenFor({b}, seat[b].at)
    /\ seat' = [seat EXCEPT ![b].status = status]
    /\ odd' = odd \cup (IF AtRest THEN {} ELSE {"overlap"})
                  \cup (IF status = "confirmed" THEN {} ELSE {"button"})
    /\ UNCHANGED <<card, staff>>

\* A query throws, or the process is restarted, between two statements.
StaffStops(s) ==
    /\ ~StaffAt(s, "idle")
    /\ StaffDone(s)
    /\ Halfway /\ UNCHANGED <<card, seat, calls>>

StaffCalls(s) ==
    \/ \E t \in Times : Create(s, t)
    \/ \E j \in Cards :
          \/ CancelSeat(s, j)
          \/ \E i \in Cards : Swap(s, i, j)
          \/ \E t \in Times : Move(s, j, t) \/ FollowUp(s, j, t)
          \/ \E st \in {"planned", "done", "cancelled"} : SetSession(s, j, st)
    \/ \E b \in Seats : Approve(s, b) \/ \E t \in Times : Reschedule(s, b, t)
    \/ ClearSeats(s)

StaffStep(s) ==
    \/ CreateInsert(s)
    \/ MoveCard(s) \/ MoveSeat(s)
    \/ SwapCancel(s) \/ SwapMove(s) \/ SwapConfirm(s) \/ SwapRestore(s) \/ SwapCards(s)
    \/ CancelCard(s) \/ ClearLinks(s) \/ SessionSeat(s)
    \/ FollowSeat(s) \/ FollowCount(s) \/ FollowCard(s) \/ FollowUndo(s) \/ FollowIndex(s)
    \/ ApproveSeat(s) \/ RescheduleCard(s)

DiaryNext ==
    \/ MonthLoad
    \/ \E j \in Cards : DeleteCard(j)
    \/ \E t \in Times : OtherBooks(t)
    \/ \E b \in Seats, status \in {"confirmed", "cancelled", "done", "no_show"} :
          SetBookingStatus(b, status)
    \/ \E s \in Staff : StaffCalls(s) \/ StaffStep(s) \/ StaffStops(s)

DiarySpec == DiaryInit /\ [][DiaryNext]_diaryVars

\* Somebody keeps opening the month view.
DiaryFairSpec == DiarySpec /\ WF_diaryVars(MonthRepairs)

-----------------------------------------------------------------------------
(* Properties *)

\* The tables and the staff's requests hold what their columns may hold.
DiaryTypeOK ==
    /\ card \in [Cards -> CardRows]
    /\ seat \in [Seats -> SeatRows]
    /\ staff \in [Staff -> StaffRows]
    /\ calls \in 0..MaxCalls
    /\ odd \subseteq {"overlap", "halfway", "unmoved", "deleted", "button"}

\* No time is given away twice, whatever overlaps and stops: an exchange frees
\* both times for a moment and takes them, or the old ones, only when free.
NoDoubleBooking ==
    \A a, b \in Seats : Live(a) /\ Live(b) /\ seat[a].at = seat[b].at => a = b

\* Handled one request at a time and to its end, a card that is booked and not a
\* cancelled session has its booking at its own time, and it is live unless a
\* status button was pressed: nobody loses an appointment in an exchange, a move,
\* an approval or a reschedule.  Left out: a calendar that was cleared, a
\* cancelled booking whose card was moved, a request rescheduled before its approval.
CardsMatchCalendar ==
    AtRest /\ odd \cap {"overlap", "halfway", "unmoved"} = {} =>
        \A j \in Cards : Linked(j) /\ card[j].session # "cancelled" =>
            /\ seat[card[j].seat].at = card[j].at
            /\ "button" \in odd \/ Live(card[j].seat)

\* Handled one request at a time, two linked cards come to be on one day only
\* by an approval or a reschedule: no new job, move, exchange or session puts a
\* customer on a day that is taken.
OneCardPerDay ==
    odd \cap {"overlap", "halfway"} = {} /\ AtRest =>
        \A i, j \in Cards : Linked(i) /\ Linked(j) /\ card[i].at.day = card[j].at.day =>
            i = j \/ card[i].squeezed \/ card[j].squeezed

\* "A day with any remaining customer sitting is full, whatever the length":
\* handled one request at a time, no customer is added to such a day.
DayIsFull ==
    odd \cap {"overlap", "halfway"} = {} /\ AtRest =>
        \A i, j \in Cards : Linked(i) /\ Linked(j) /\ card[i].at.day = card[j].at.day => i = j

\* Handled one request at a time, and none deleted, the sessions of one job
\* have numbers of their own.
SessionNumbers ==
    odd \cap {"overlap", "halfway", "deleted"} = {} => \A i, j \in Cards :
        card[i].root # NoCard /\ card[i].root = card[j].root /\ card[i].index = card[j].index
            => i = j

\* A time the month view should give a live booking is another one's, or another
\* card should have it too: then the view may fail for everybody.
MonthBlocked ==
    \E i \in Cards : Astray(i) /\ Live(card[i].seat) /\
        \/ TakenFor({card[i].seat}, card[i].at)
        \/ \E k \in Cards \ {i} : /\ Astray(k) /\ Live(card[k].seat)
                                 /\ card[k].at = card[i].at

\* A booking left on another day than its card follows it at the next look at
\* the month, unless the month view is blocked.
StrayFollows ==
    \A j \in Cards :
        Linked(j) /\ Movable(card[j].seat) /\ seat[card[j].seat].at.day # card[j].at.day
          ~> \/ ~Linked(j) \/ ~Movable(card[j].seat)
             \/ seat[card[j].seat].at.day = card[j].at.day
             \/ MonthBlocked
=============================================================================
