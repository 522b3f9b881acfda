--------------------------- MODULE StudioDiary_proofs ---------------------------
(***************************************************************************)
(* Proofs about StudioDiary: for any number of cards, bookings, times and  *)
(* requests, and any appointments to begin with.                           *)
(*                                                                         *)
(* What holds whatever overlaps and stops comes first (DiaryInv).  Three   *)
(* invariants of a studio that handles one request at a time follow, each  *)
(* with a part for the handler at work: which day and which bookings its   *)
(* request found free (SerialInv), how far the cards it has in its hands   *)
(* are from their bookings (MatchInv), and which number a new session is   *)
(* to get (NumberInv).                                                     *)
(***************************************************************************)
EXTENDS StudioDiary, SumLemmas, FiniteSetTheorems, TLAPS

-----------------------------------------------------------------------------
(* The invariant *)

SwapSteps == {"swapCancel", "swapMove", "swapConfirm", "swapRestore", "swapCards"}
TimeSteps == SwapSteps \cup {"create", "moveCard", "moveSeat", "followSeat", "followCount",
                             "followCard", "followUndo", "approveSeat", "rescheduleCard"}
SeatSteps == SwapSteps \cup {"moveSeat", "followCount", "followCard", "followUndo", "sessionSeat",
                             "approveSeat", "rescheduleCard"}

\* A handler knows the rows and the times it is about to write.
WellFormed(row) ==
    /\ row \in StaffRows
    /\ row.pc \in TimeSteps => row.at \in Times
    /\ row.pc \in SeatSteps => row.seat \in Seats
    /\ row.pc \in SwapSteps => /\ row.otherSeat \in Seats /\ row.otherAt \in Times
                               /\ row.card \in Cards /\ row.other \in Cards
    /\ row.pc \in {"moveCard", "cancelCard"} => row.card \in Cards
    /\ row.pc = "followIndex" => row.new \in Cards

Oddities == {"overlap", "halfway", "unmoved", "deleted", "button"}

DiaryInv ==
    /\ DiaryTypeOK
    /\ \A s \in Staff : WellFormed(staff[s])
    /\ NoDoubleBooking

-----------------------------------------------------------------------------
(* What the trigger lets through *)

\* Times that are only given up, or kept, are given to nobody.
LEMMA Freed ==
    ASSUME NoDoubleBooking,
           \A b \in Seats : Live(b)' => Live(b) /\ seat'[b].at = seat[b].at
    PROVE  NoDoubleBooking'
BY DEF NoDoubleBooking, Live

\* One booking made, or moved, to a time the trigger finds free.
LEMMA GivenOne ==
    ASSUME NoDoubleBooking, NEW b \in Seats, NEW t, ~TakenFor({b}, t),
           seat'[b].at = t,
           \A c \in Seats \ {b} : seat'[c] = seat[c]
    PROVE  NoDoubleBooking'
<1>1. ASSUME NEW c \in Seats, c # b, Live(c)' PROVE Live(c) /\ seat'[c].at = seat[c].at /\ seat[c].at # t
  BY <1>1 DEF Live, TakenFor
<1> QED
  BY <1>1 DEF NoDoubleBooking

\* Several bookings moved by one statement.
LEMMA GivenMany ==
    ASSUME NoDoubleBooking, NEW B \in SUBSET Seats, NEW f, ~Refused(B, f),
           \A b \in B : seat'[b].at = f[b],
           \A b \in Seats \ B : Live(b)' => Live(b) /\ seat'[b].at = seat[b].at
    PROVE  NoDoubleBooking'
<1>1. ASSUME NEW b \in B, NEW c \in Seats \ B, Live(c)' PROVE seat'[b].at # seat'[c].at
  <2>1. Live(c) /\ seat'[c].at = seat[c].at /\ seat'[b].at = f[b]
    BY <1>1
  <2> QED
    BY <2>1 DEF Refused, TakenFor
<1>2. ASSUME NEW a \in B, NEW b \in B, a # b PROVE seat'[a].at # seat'[b].at
  BY <1>2 DEF Refused
<1>3. ASSUME NEW a \in Seats, NEW b \in Seats, Live(a)', Live(b)', seat'[a].at = seat'[b].at
      PROVE  a = b
  <2>1. CASE a \in B /\ b \in B
    BY <1>2, <1>3, <2>1
  <2>2. CASE a \in B /\ b \notin B
    BY <1>1, <1>3, <2>2
  <2>3. CASE a \notin B /\ b \in B
    BY <1>1, <1>3, <2>3
  <2>4. CASE a \notin B /\ b \notin B
    BY <1>3, <2>4 DEF NoDoubleBooking
  <2> QED
    BY <2>1, <2>2, <2>3, <2>4
<1> QED
  BY <1>3 DEF NoDoubleBooking

-----------------------------------------------------------------------------
(* Types *)

LEMMA IdleWellFormed == WellFormed(IdleStaff)
BY DEF WellFormed, IdleStaff, StaffRows, StaffSteps, TimeSteps, SeatSteps, SwapSteps

LEMMA NoCardType == NoCardRow \in CardRows /\ NoCardRow.status = "none"
BY DEF NoCardRow, CardRows

LEMMA NoSeatType == NoSeatRow \in SeatRows /\ NoSeatRow.status = "none" /\ NoSeatRow.asked = NoTime
BY DEF NoSeatRow, SeatRows

LEMMA ConfirmedType ==
    ASSUME NEW t \in Times
    PROVE  LET k == ConfirmedAt(t)
           IN  k \in SeatRows /\ k.status = "confirmed" /\ k.at = t /\ k.asked = NoTime
BY NoSeatType DEF ConfirmedAt, SeatRows

LEMMA OnDayType ==
    ASSUME NEW t \in Times, NEW u \in Times
    PROVE  OnDay(t, u.day) \in Times
BY DEF OnDay, Times

LEMMA InvInit == DiaryInit => DiaryInv
<1> SUFFICES ASSUME DiaryInit PROVE DiaryInv
  OBVIOUS
<1> DEFINE Card(x) == [NoCardRow EXCEPT !.status = "booked", !.seat = x.seat, !.at = x.at, !.index = 1]
           Seat(x) == ConfirmedAt(x.at)
<1>1. \A x \in Begun : Card(x) \in CardRows
  <2> SUFFICES ASSUME NEW x \in Begun PROVE Card(x) \in CardRows
    OBVIOUS
  <2>1. x.seat \in Seats /\ x.at \in Times
    BY DiaryAssumption DEF Times
  <2> QED
    BY <2>1, NoCardType DEF CardRows
<1>2. \A x \in Begun : Seat(x) \in SeatRows /\ Seat(x).at = x.at
  BY DiaryAssumption, ConfirmedType DEF Times
<1>3. card \in [Cards -> CardRows]
  BY <1>1, NoCardType DEF DiaryInit
<1>4. /\ seat \in [Seats -> SeatRows]
      /\ \A b \in Seats : Live(b) => \E x \in Begun : x.seat = b /\ seat[b].at = x.at
  BY <1>2, NoSeatType DEF DiaryInit, Live
<1>5. NoDoubleBooking
  <2> SUFFICES ASSUME NEW a \in Seats, NEW b \in Seats, Live(a), Live(b), seat[a].at = seat[b].at
               PROVE  a = b
    BY DEF NoDoubleBooking
  <2>1. PICK x \in Begun : x.seat = a /\ seat[a].at = x.at
    BY <1>4
  <2>2. PICK y \in Begun : y.seat = b /\ seat[b].at = y.at
    BY <1>4
  <2>3. x = y
    BY <2>1, <2>2, DiaryAssumption
  <2> QED
    BY <2>1, <2>2, <2>3
<1>6. DiaryTypeOK
  <2>1. staff \in [Staff -> StaffRows]
    BY IdleWellFormed DEF DiaryInit, WellFormed
  <2>2. calls \in 0..MaxCalls /\ odd \subseteq Oddities
    <3>1. calls = 0 /\ odd = {}
      BY DEF DiaryInit
    <3>2. 0 \in 0..MaxCalls
      BY DiaryAssumption
    <3> QED
      BY <3>1, <3>2
  <2> QED
    BY <1>3, <1>4, <2>1, <2>2 DEF DiaryTypeOK, Oddities
<1> QED
  BY <1>5, <1>6, IdleWellFormed DEF DiaryInit, DiaryInv

\* A step of one handler.
LEMMA StepKeeps ==
    ASSUME DiaryInv, NEW s \in Staff, NEW row, StaffBecomes(s, row), WellFormed(row),
           card' \in [Cards -> CardRows], seat' \in [Seats -> SeatRows], NoDoubleBooking',
           calls' \in 0..MaxCalls, odd' \subseteq Oddities
    PROVE  DiaryInv'
<1>1. staff' \in [Staff -> StaffRows] /\ \A q \in Staff : WellFormed(staff'[q])
  BY DEF DiaryInv, DiaryTypeOK, StaffBecomes, WellFormed
<1> QED
  BY <1>1 DEF DiaryInv, DiaryTypeOK, Oddities

LEMMA CountsKeep ==
    ASSUME DiaryInv, Counts
    PROVE  calls' \in 0..MaxCalls
<1>1. calls \in Nat /\ (IF AtRest THEN 1 ELSE MeetCost) \in Nat /\ MaxCalls \in Nat
  BY DiaryAssumption DEF DiaryInv, DiaryTypeOK
<1> QED
  BY <1>1 DEF Counts

\* What a request that arrives does to the counters.
LEMMA CallKeeps ==
    ASSUME DiaryInv, NEW s \in Staff, NEW row, Call(s, row)
    PROVE  StaffBecomes(s, row) /\ calls' \in 0..MaxCalls /\ odd' \subseteq Oddities
BY CountsKeep DEF Call, Meets, DiaryInv, DiaryTypeOK, Oddities

LEMMA OddKeeps ==
    ASSUME DiaryInv, Even \/ Halfway \/ Unmoved, UNCHANGED calls
    PROVE  calls' \in 0..MaxCalls /\ odd' \subseteq Oddities
BY DEF DiaryInv, DiaryTypeOK, Even, Halfway, Unmoved, Oddities

\* A step that leaves the bookings alone.
LEMMA SameSeats ==
    ASSUME DiaryInv, UNCHANGED seat
    PROVE  seat' \in [Seats -> SeatRows] /\ NoDoubleBooking'
BY DEF DiaryInv, DiaryTypeOK, NoDoubleBooking, Live

\* A request that arrives and only looks: the card and the bookings stay.
LEMMA LookKeeps ==
    ASSUME DiaryInv, NEW s \in Staff, NEW row, Call(s, row), WellFormed(row),
           UNCHANGED <<card, seat>>
    PROVE  DiaryInv'
<1>1. card' \in [Cards -> CardRows]
  BY DEF DiaryInv, DiaryTypeOK
<1> QED
  BY <1>1, CallKeeps, SameSeats, StepKeeps

\* A booking that is written, and live only at a time the trigger finds free.
LEMMA SeatWritten ==
    ASSUME DiaryInv, NEW b \in Seats, NEW row \in SeatRows, seat' = [seat EXCEPT ![b] = row],
           row.status = "confirmed" => ~TakenFor({b}, row.at)
    PROVE  seat' \in [Seats -> SeatRows] /\ NoDoubleBooking'
<1>1. seat \in [Seats -> SeatRows] /\ NoDoubleBooking
  BY DEF DiaryInv, DiaryTypeOK
<1>2. seat'[b] = row /\ \A c \in Seats \ {b} : seat'[c] = seat[c]
  BY <1>1
<1>3. CASE row.status = "confirmed"
  BY <1>1, <1>2, <1>3, GivenOne
<1>4. CASE row.status # "confirmed"
  <2>1. \A c \in Seats : Live(c)' => Live(c) /\ seat'[c].at = seat[c].at
    BY <1>2, <1>4 DEF Live
  <2> QED
    BY <1>1, <2>1, Freed
<1> QED
  BY <1>1, <1>3, <1>4

\* Bookings that are cancelled or deleted, at the times they had.
LEMMA SeatsFreed ==
    ASSUME DiaryInv, NEW B \in SUBSET Seats,
           \A b \in Seats \ B : seat'[b] = seat[b],
           \A b \in B : seat'[b] \in SeatRows /\ seat'[b].status # "confirmed",
           seat' = [b \in Seats |-> seat'[b]]
    PROVE  seat' \in [Seats -> SeatRows] /\ NoDoubleBooking'
<1>1. seat \in [Seats -> SeatRows] /\ NoDoubleBooking
  BY DEF DiaryInv, DiaryTypeOK
<1>2. \A b \in Seats : Live(b)' => Live(b) /\ seat'[b].at = seat[b].at
  BY DEF Live
<1> QED
  BY <1>1, <1>2, Freed

LEMMA FreeTypes ==
    /\ FreeCards # {} => Min(FreeCards) \in Cards
    /\ FreeSeats # {} => Min(FreeSeats) \in Seats /\ ~Live(Min(FreeSeats))
<1>1. FreeCards \in SUBSET Nat /\ FreeSeats \in SUBSET Nat
  BY DiaryAssumption DEF FreeCards, FreeSeats
<1>2. FreeCards # {} => Min(FreeCards) \in FreeCards
  BY <1>1, MinLeast
<1>3. FreeSeats # {} => Min(FreeSeats) \in FreeSeats
  BY <1>1, MinLeast
<1> QED
  BY <1>2, <1>3 DEF FreeCards, FreeSeats, Live

-----------------------------------------------------------------------------
(* The requests *)

LEMMA ApproveKeeps ==
    ASSUME DiaryInv, NEW s \in Staff, NEW b \in Seats, Approve(s, b)
    PROVE  DiaryInv'
<1> DEFINE t == seat[b].asked
           j == Min(FreeCards)
           row == [IdleStaff EXCEPT !.pc = "approveSeat", !.seat = b, !.at = t]
           new == [NoCardRow EXCEPT !.status = "booked", !.seat = b, !.at = t, !.index = 1,
                                    !.squeezed = TRUE]
           booking == [seat[b] EXCEPT !.asked = NoTime]
<1>1. card \in [Cards -> CardRows] /\ seat \in [Seats -> SeatRows] /\ IdleStaff \in StaffRows
  BY IdleWellFormed DEF DiaryInv, DiaryTypeOK, WellFormed
<1>2. t \in Times /\ j \in Cards /\ seat[b] \in SeatRows
  BY <1>1, FreeTypes DEF Approve, SeatRows
<1>3. /\ Call(s, row) /\ card' = [card EXCEPT ![j] = new] /\ seat' = [seat EXCEPT ![b] = booking]
  BY DEF Approve
<1> HIDE DEF t, j
<1>4. row \in StaffRows /\ row.pc = "approveSeat" /\ row.seat = b /\ row.at = t
  <2>1. b \in Seats \cup {NoSeat} /\ t \in Times \cup {NoTime} /\ "approveSeat" \in StaffSteps
    BY <1>1, <1>2 DEF StaffSteps
  <2> QED
    BY <1>1, <2>1 DEF StaffRows
<1>5. new \in CardRows
  BY <1>2 DEF NoCardRow, CardRows
<1>6. booking \in SeatRows /\ booking.status = seat[b].status /\ booking.at = seat[b].at
  BY <1>2 DEF SeatRows
<1> HIDE DEF row, new, booking
<1>7. WellFormed(row)
  BY <1>2, <1>4 DEF WellFormed, TimeSteps, SeatSteps, SwapSteps
<1>8. card' \in [Cards -> CardRows]
  BY <1>1, <1>2, <1>3, <1>5
<1>9. booking.status = "confirmed" => ~TakenFor({b}, booking.at)
  BY <1>6 DEF DiaryInv, NoDoubleBooking, TakenFor, Live
<1>10. seat' \in [Seats -> SeatRows] /\ NoDoubleBooking'
  BY <1>3, <1>6, <1>9, SeatWritten
<1> QED
  BY <1>3, <1>7, <1>8, <1>10, CallKeeps, StepKeeps

LEMMA RescheduleKeeps ==
    ASSUME DiaryInv, NEW s \in Staff, NEW b \in Seats, NEW t \in Times, Reschedule(s, b, t)
    PROVE  DiaryInv'
<1> DEFINE row == [IdleStaff EXCEPT !.pc = "rescheduleCard", !.seat = b, !.at = t]
           booking == [seat[b] EXCEPT !.at = t]
<1>1. card \in [Cards -> CardRows] /\ seat \in [Seats -> SeatRows] /\ IdleStaff \in StaffRows
  BY IdleWellFormed DEF DiaryInv, DiaryTypeOK, WellFormed
<1>2. /\ Call(s, row) /\ UNCHANGED card /\ seat' = [seat EXCEPT ![b] = booking]
      /\ t = seat[b].at \/ ~TakenFor({b}, t)
  BY DEF Reschedule
<1>3. row \in StaffRows /\ row.pc = "rescheduleCard" /\ row.seat = b /\ row.at = t
  <2>1. b \in Seats \cup {NoSeat} /\ t \in Times \cup {NoTime} /\ "rescheduleCard" \in StaffSteps
    BY <1>1 DEF StaffSteps
  <2> QED
    BY <1>1, <2>1 DEF StaffRows
<1>4. booking \in SeatRows /\ booking.status = seat[b].status /\ booking.at = t
  BY <1>1 DEF SeatRows
<1> HIDE DEF row, booking
<1>5. WellFormed(row)
  BY <1>3 DEF WellFormed, TimeSteps, SeatSteps, SwapSteps
<1>6. booking.status = "confirmed" => ~TakenFor({b}, booking.at)
  BY <1>2, <1>4 DEF DiaryInv, NoDoubleBooking, TakenFor, Live
<1>7. seat' \in [Seats -> SeatRows] /\ NoDoubleBooking'
  BY <1>2, <1>4, <1>6, SeatWritten
<1> QED
  BY <1>1, <1>2, <1>5, <1>7, CallKeeps, StepKeeps

LEMMA CallsKeep ==
    ASSUME DiaryInv, NEW s \in Staff, StaffCalls(s)
    PROVE  DiaryInv'
<1>0. card \in [Cards -> CardRows] /\ seat \in [Seats -> SeatRows]
      /\ IdleStaff \in StaffRows
  BY IdleWellFormed DEF DiaryInv, DiaryTypeOK, WellFormed
<1> USE DEF StaffRows, StaffSteps
<1>1. ASSUME NEW t \in Times, Create(s, t) PROVE DiaryInv'
  <2> DEFINE row == [IdleStaff EXCEPT !.pc = "create", !.at = t]
  <2>1. row \in StaffRows /\ row.pc = "create" /\ row.at = t
    BY DEF IdleStaff
  <2>2. Call(s, row) /\ UNCHANGED <<card, seat>>
    BY <1>1 DEF Create
  <2> HIDE DEF row
  <2>3. WellFormed(row)
    BY <2>1 DEF WellFormed, TimeSteps, SeatSteps, SwapSteps
  <2> QED
    BY <2>2, <2>3, LookKeeps
<1>2. ASSUME NEW j \in Cards, NEW t \in Times, Move(s, j, t) PROVE DiaryInv'
  <2> DEFINE row == [IdleStaff EXCEPT !.pc = "moveCard", !.card = j, !.at = t, !.seat = card[j].seat]
  <2>1. row \in StaffRows /\ row.pc = "moveCard" /\ row.at = t /\ row.card = j
    <3>1. card[j].seat \in Seats \cup {NoSeat}
      BY <1>0 DEF CardRows
    <3> QED
      BY <1>0, <3>1
  <2>2. Call(s, row) /\ UNCHANGED <<card, seat>>
    BY <1>2 DEF Move
  <2> HIDE DEF row
  <2>3. WellFormed(row)
    BY <2>1 DEF WellFormed, TimeSteps, SeatSteps, SwapSteps
  <2> QED
    BY <2>2, <2>3, LookKeeps
<1>3. ASSUME NEW i \in Cards, NEW j \in Cards, Swap(s, i, j) PROVE DiaryInv'
  <2> DEFINE a == card[i]
             b == card[j]
             row == [IdleStaff EXCEPT !.pc = "swapCancel", !.card = i, !.other = j,
                                      !.seat = a.seat, !.at = a.at,
                                      !.otherSeat = b.seat, !.otherAt = b.at]
  <2>1. a.seat \in Seats /\ b.seat \in Seats /\ a.at \in Times /\ b.at \in Times
    BY <1>0, <1>3 DEF Swap, Linked, CardRows
  <2>2. Call(s, row) /\ UNCHANGED <<card, seat>>
    BY <1>3 DEF Swap
  <2> HIDE DEF a, b
  <2>3. row \in StaffRows /\ row.pc = "swapCancel" /\ row.seat = a.seat /\ row.at = a.at
        /\ row.otherSeat = b.seat /\ row.otherAt = b.at /\ row.card = i /\ row.other = j
    BY <1>0, <2>1
  <2> HIDE DEF row
  <2>4. WellFormed(row)
    BY <2>1, <2>3 DEF WellFormed, TimeSteps, SeatSteps, SwapSteps
  <2> QED
    BY <2>2, <2>4, LookKeeps
<1>4. ASSUME NEW j \in Cards, NEW t \in Times, FollowUp(s, j, t) PROVE DiaryInv'
  <2> DEFINE root == IF card[j].root = NoCard THEN j ELSE card[j].root
             row == [IdleStaff EXCEPT !.pc = "followSeat", !.card = j, !.at = t, !.root = root]
  <2>1. root \in Cards \cup {NoCard}
    BY <1>0 DEF CardRows
  <2>2. Call(s, row) /\ UNCHANGED <<card, seat>>
    BY <1>4 DEF FollowUp
  <2> HIDE DEF root
  <2>3. row \in StaffRows /\ row.pc = "followSeat" /\ row.at = t
    BY <1>0, <2>1
  <2> HIDE DEF row
  <2>4. WellFormed(row)
    BY <2>3 DEF WellFormed, TimeSteps, SeatSteps, SwapSteps
  <2> QED
    BY <2>2, <2>4, LookKeeps
<1>5. ASSUME NEW j \in Cards, CancelSeat(s, j) PROVE DiaryInv'
  <2> DEFINE row == [IdleStaff EXCEPT !.pc = "cancelCard", !.card = j]
  <2>1. row \in StaffRows /\ row.pc = "cancelCard" /\ row.card = j
    BY DEF IdleStaff
  <2>2. Call(s, row) /\ UNCHANGED card
    BY <1>5 DEF CancelSeat
  <2> HIDE DEF row
  <2>3. WellFormed(row)
    BY <2>1 DEF WellFormed, TimeSteps, SeatSteps, SwapSteps
  <2>4. seat' \in [Seats -> SeatRows] /\ NoDoubleBooking'
    <3> DEFINE B == {card[j].seat} \cap Seats
    <3>1. \A b \in Seats : seat'[b] = IF b \in B THEN [seat[b] EXCEPT !.status = "cancelled"] ELSE seat[b]
      BY <1>5 DEF CancelSeat
    <3>2. \A b \in Seats : LET r == [seat[b] EXCEPT !.status = "cancelled"]
                           IN  r \in SeatRows /\ r.status # "confirmed"
      BY <1>0 DEF SeatRows
    <3>3. seat' = [b \in Seats |-> seat'[b]] /\ B \in SUBSET Seats
      BY <1>5 DEF CancelSeat
    <3>4. \A b \in Seats \ B : seat'[b] = seat[b]
      BY <3>1
    <3>5. \A b \in B : seat'[b] \in SeatRows /\ seat'[b].status # "confirmed"
      BY <3>1, <3>2, <3>3
    <3> HIDE DEF B
    <3> QED
      BY <3>3, <3>4, <3>5, SeatsFreed
  <2> QED
    BY <1>0, <2>2, <2>3, <2>4, CallKeeps, StepKeeps
<1>6. ASSUME NEW j \in Cards, NEW st \in {"planned", "done", "cancelled"}, SetSession(s, j, st)
      PROVE  DiaryInv'
  <2> DEFINE row == IF card[j].seat = NoSeat THEN IdleStaff
                    ELSE [IdleStaff EXCEPT !.pc = "sessionSeat", !.seat = card[j].seat, !.session = st]
  <2>1. WellFormed(row)
    <3>1. CASE card[j].seat = NoSeat
      BY <3>1, IdleWellFormed
    <3>2. CASE card[j].seat # NoSeat
      <4> DEFINE r == [IdleStaff EXCEPT !.pc = "sessionSeat", !.seat = card[j].seat, !.session = st]
      <4>1. card[j].seat \in Seats
        BY <1>0, <3>2 DEF CardRows
      <4>2. r \in StaffRows /\ r.pc = "sessionSeat" /\ r.seat \in Seats
        BY <4>1 DEF IdleStaff
      <4>3. row = r
        BY <3>2
      <4> HIDE DEF r, row
      <4> QED
        BY <4>2, <4>3 DEF WellFormed, TimeSteps, SeatSteps, SwapSteps
    <3> QED
      BY <3>1, <3>2
  <2>2. Call(s, row) /\ UNCHANGED seat
    BY <1>6 DEF SetSession
  <2> HIDE DEF row
  <2>3. card' \in [Cards -> CardRows]
    BY <1>0, <1>6 DEF SetSession, CardRows
  <2> QED
    BY <2>1, <2>2, <2>3, CallKeeps, SameSeats, StepKeeps
<1>7. CASE ClearSeats(s)
  <2> DEFINE row == [IdleStaff EXCEPT !.pc = "clearLinks"]
  <2>1. row \in StaffRows /\ row.pc = "clearLinks"
    BY <1>0
  <2>2. Call(s, row) /\ UNCHANGED card
    BY <1>7 DEF ClearSeats
  <2> HIDE DEF row
  <2>3. WellFormed(row)
    BY <2>1 DEF WellFormed, TimeSteps, SeatSteps, SwapSteps
  <2>4. seat' \in [Seats -> SeatRows] /\ NoDoubleBooking'
    <3> DEFINE B == {b \in Seats : Live(b)}
    <3>1. \A b \in Seats : seat'[b] = IF b \in B THEN [seat[b] EXCEPT !.status = "cancelled"] ELSE seat[b]
      BY <1>7 DEF ClearSeats
    <3>2. \A b \in B : seat'[b] \in SeatRows /\ seat'[b].status # "confirmed"
      BY <1>0, <3>1 DEF SeatRows
    <3>3. seat' = [b \in Seats |-> seat'[b]] /\ B \in SUBSET Seats
      BY <1>7 DEF ClearSeats
    <3>4. \A b \in Seats \ B : seat'[b] = seat[b]
      BY <3>1
    <3> HIDE DEF B
    <3> QED
      BY <3>2, <3>3, <3>4, SeatsFreed
  <2> QED
    BY <1>0, <2>2, <2>3, <2>4, CallKeeps, StepKeeps
<1>8. ASSUME NEW b \in Seats, Approve(s, b) PROVE DiaryInv'
  BY <1>8, ApproveKeeps
<1>9. ASSUME NEW b \in Seats, NEW t \in Times, Reschedule(s, b, t) PROVE DiaryInv'
  BY <1>9, RescheduleKeeps
<1> QED
  BY <1>1, <1>2, <1>3, <1>4, <1>5, <1>6, <1>7, <1>8, <1>9 DEF StaffCalls

-----------------------------------------------------------------------------
(* The statements that follow *)

\* What a handler knows at its statement.
LEMMA Knows ==
    ASSUME DiaryInv, NEW s \in Staff
    PROVE  /\ staff[s] \in StaffRows /\ WellFormed(staff[s])
           /\ card \in [Cards -> CardRows] /\ seat \in [Seats -> SeatRows]
           /\ staff \in [Staff -> StaffRows]
BY DEF DiaryInv, DiaryTypeOK

\* A handler that goes on keeps what it knows.
LEMMA GoesTyped ==
    ASSUME NEW r \in StaffRows, NEW pc \in StaffSteps
    PROVE  LET q == [r EXCEPT !.pc = pc]
           IN  /\ q \in StaffRows /\ q.pc = pc /\ q.at = r.at /\ q.seat = r.seat
               /\ q.otherSeat = r.otherSeat /\ q.otherAt = r.otherAt
               /\ q.card = r.card /\ q.other = r.other /\ q.new = r.new
BY DEF StaffRows

\* A step of the exchange, or of another request, to a step that needs no more.
LEMMA GoesWellFormed ==
    ASSUME NEW r, WellFormed(r), NEW pc \in StaffSteps,
           \/ r.pc \in SwapSteps /\ pc \in SwapSteps
           \/ r.pc = "moveCard" /\ pc = "moveSeat" /\ r.seat \in Seats
           \/ r.pc = "followCard" /\ pc = "followUndo"
    PROVE  WellFormed([r EXCEPT !.pc = pc])
<1> DEFINE q == [r EXCEPT !.pc = pc]
<1>1. r \in StaffRows
  BY DEF WellFormed
<1>2. /\ q \in StaffRows /\ q.pc = pc /\ q.at = r.at /\ q.seat = r.seat
      /\ q.otherSeat = r.otherSeat /\ q.otherAt = r.otherAt
      /\ q.card = r.card /\ q.other = r.other /\ q.new = r.new
  BY <1>1, GoesTyped
<1> HIDE DEF q
<1>3. WellFormed(q)
  BY <1>2 DEF WellFormed, TimeSteps, SeatSteps, SwapSteps
<1> QED
  BY <1>3 DEF q

\* A statement on the cards alone.
LEMMA CardStep ==
    ASSUME DiaryInv, NEW s \in Staff, StaffDone(s), card' \in [Cards -> CardRows],
           UNCHANGED <<seat, calls>>, Even \/ Halfway
    PROVE  DiaryInv'
BY IdleWellFormed, OddKeeps, SameSeats, StepKeeps DEF StaffDone

\* A statement on the bookings alone, the last of its handler.
LEMMA SeatStep ==
    ASSUME DiaryInv, NEW s \in Staff, StaffDone(s), seat' \in [Seats -> SeatRows],
           NoDoubleBooking', UNCHANGED <<card, calls>>, Even \/ Halfway \/ Unmoved
    PROVE  DiaryInv'
<1>1. card' \in [Cards -> CardRows]
  BY Knows
<1> QED
  BY <1>1, IdleWellFormed, OddKeeps, StepKeeps DEF StaffDone

\* A statement on the bookings alone, with others to follow.
LEMMA SeatGoes ==
    ASSUME DiaryInv, NEW s \in Staff, NEW row, StaffBecomes(s, row), WellFormed(row),
           seat' \in [Seats -> SeatRows], NoDoubleBooking', UNCHANGED <<card, calls>>, Even
    PROVE  DiaryInv'
<1>1. card' \in [Cards -> CardRows]
  BY Knows
<1> QED
  BY <1>1, OddKeeps, StepKeeps

LEMMA CreateKeeps ==
    ASSUME DiaryInv, NEW s \in Staff, CreateInsert(s)
    PROVE  DiaryInv'
<1> DEFINE t == staff[s].at
           j == Min(FreeCards)
           b == Min(FreeSeats)
           row == [NoCardRow EXCEPT !.status = "booked", !.seat = b, !.at = t, !.index = 1]
<1>1. t \in Times
  BY Knows DEF CreateInsert, StaffAt, WellFormed, TimeSteps
<1>2. j \in Cards /\ b \in Seats
  BY FreeTypes DEF CreateInsert
<1>3. CASE TakenFor({b}, t)
  <2>1. UNCHANGED <<card, seat, calls>> /\ StaffDone(s) /\ Even
    BY <1>3 DEF CreateInsert
  <2>2. card' \in [Cards -> CardRows]
    BY <2>1, Knows
  <2> QED
    BY <2>1, <2>2, CardStep
<1>4. CASE ~TakenFor({b}, t)
  <2>1. /\ seat' = [seat EXCEPT ![b] = ConfirmedAt(t)]
        /\ card' = [card EXCEPT ![j] = row]
        /\ StaffDone(s) /\ Even /\ UNCHANGED calls
    BY <1>4 DEF CreateInsert
  <2> HIDE DEF t, b, j
  <2>2. row \in CardRows
    BY <1>1, <1>2 DEF NoCardRow, CardRows
  <2> HIDE DEF row
  <2>3. card' \in [Cards -> CardRows]
    BY <2>1, <2>2, Knows
  <2>4. seat' \in [Seats -> SeatRows] /\ NoDoubleBooking'
    BY <1>1, <1>2, <1>4, <2>1, ConfirmedType, SeatWritten
  <2> QED
    BY <2>1, <2>3, <2>4, IdleWellFormed, OddKeeps, StepKeeps DEF StaffDone
<1> QED
  BY <1>3, <1>4

LEMMA MoveKeeps ==
    ASSUME DiaryInv, NEW s \in Staff, MoveCard(s) \/ MoveSeat(s)
    PROVE  DiaryInv'
<1>1. CASE MoveCard(s)
  <2>1. staff[s].pc = "moveCard" /\ staff[s].card \in Cards /\ staff[s].at \in Times
        /\ staff[s].seat \in Seats \cup {NoSeat}
    BY <1>1, Knows DEF MoveCard, StaffAt, WellFormed, TimeSteps, StaffRows
  <2>2. card' \in [Cards -> CardRows]
    <3> DEFINE j == staff[s].card
               row == [card[j] EXCEPT !.at = staff[s].at, !.squeezed = FALSE]
    <3>1. card[j] \in CardRows
      BY <2>1, Knows
    <3>2. row \in CardRows
      BY <2>1, <3>1 DEF CardRows
    <3>3. card' = [card EXCEPT ![j] = row]
      BY <1>1, <3>1 DEF MoveCard
    <3> HIDE DEF row
    <3> QED
      BY <3>2, <3>3, Knows
  <2>3. UNCHANGED <<seat, calls>> /\ Even
    BY <1>1 DEF MoveCard
  <2>4. CASE staff[s].seat = NoSeat
    <3>1. StaffDone(s)
      BY <1>1, <2>4 DEF MoveCard
    <3> QED
      BY <2>2, <2>3, <3>1, CardStep
  <2>5. CASE staff[s].seat # NoSeat
    <3> DEFINE row == [staff[s] EXCEPT !.pc = "moveSeat"]
    <3>1. StaffBecomes(s, row)
      BY <1>1, <2>5 DEF MoveCard, StaffGoes
    <3>2. "moveSeat" \in StaffSteps /\ staff[s].seat \in Seats
      BY <2>1, <2>5 DEF StaffSteps
    <3>3. WellFormed(row)
      BY <2>1, <3>2, Knows, GoesWellFormed
    <3> HIDE DEF row
    <3> QED
      BY <2>2, <2>3, <3>1, <3>3, OddKeeps, SameSeats, StepKeeps
  <2> QED
    BY <2>4, <2>5
<1>2. CASE MoveSeat(s)
  <2> DEFINE b == staff[s].seat
             t == staff[s].at
  <2>1. b \in Seats /\ t \in Times
    BY <1>2, Knows DEF MoveSeat, StaffAt, WellFormed, TimeSteps, SeatSteps
  <2>2. StaffDone(s) /\ UNCHANGED <<card, calls>> /\ (Even \/ Halfway \/ Unmoved)
    BY <1>2 DEF MoveSeat
  <2>3. CASE UNCHANGED seat
    BY <2>2, <2>3, SameSeats, SeatStep
  <2>4. CASE (Live(b) => ~TakenFor({b}, t)) /\ seat' = [seat EXCEPT ![b].at = t]
    <3> DEFINE row == [seat[b] EXCEPT !.at = t]
    <3>1. row \in SeatRows /\ row.at = t /\ (row.status = "confirmed" => Live(b))
      BY <2>1, Knows DEF Live, SeatRows
    <3>2. seat' = [seat EXCEPT ![b] = row]
      BY <2>4
    <3> HIDE DEF b, t, row
    <3> QED
      BY <2>1, <2>2, <2>4, <3>1, <3>2, SeatWritten, SeatStep
  <2> QED
    BY <1>2, <2>3, <2>4 DEF MoveSeat
<1> QED
  BY <1>1, <1>2

\* One statement on both bookings of an exchange.
LEMMA SwapWrites ==
    ASSUME DiaryInv, NEW s \in Staff, SwapSeats(s) \subseteq Seats, NEW f,
           NEW status \in {"", "confirmed"},
           \A b \in SwapSeats(s) : f[b] \in Times \cup {NoTime},
           SwapWrite(s, f, status)
    PROVE  /\ seat' \in [Seats -> SeatRows]
           /\ \A b \in SwapSeats(s) : seat'[b].at = f[b]
           /\ \A b \in Seats \ SwapSeats(s) : seat'[b] = seat[b]
           /\ status = "" => \A b \in Seats : Live(b)' => Live(b)
<1> DEFINE row(b) == [seat[b] EXCEPT !.at = f[b], !.status = IF status = "" THEN @ ELSE status]
<1>1. ASSUME NEW b \in SwapSeats(s)
      PROVE  row(b) \in SeatRows /\ row(b).at = f[b] /\ (status = "" => row(b).status = seat[b].status)
  <2>1. seat[b] \in SeatRows
    BY Knows
  <2> QED
    BY <2>1 DEF SeatRows
<1>2. seat' = [b \in Seats |-> IF b \in SwapSeats(s) THEN row(b) ELSE seat[b]]
  BY DEF SwapWrite
<1> HIDE DEF row
<1>3. seat' \in [Seats -> SeatRows]
  BY <1>1, <1>2, Knows
<1> QED
  BY <1>1, <1>2, <1>3 DEF Live

\* The exchange, from the cancellation to the cards.
LEMMA SwapKnows ==
    ASSUME DiaryInv, NEW s \in Staff, staff[s].pc \in SwapSteps
    PROVE  /\ SwapSeats(s) \subseteq Seats
           /\ staff[s].at \in Times /\ staff[s].otherAt \in Times
           /\ staff[s].card \in Cards /\ staff[s].other \in Cards
           /\ \A theirs \in BOOLEAN : SwapTime(s, theirs) \in Times /\ OldTime(s, theirs) \in Times
<1>1. /\ staff[s].seat \in Seats /\ staff[s].otherSeat \in Seats
      /\ staff[s].at \in Times /\ staff[s].otherAt \in Times
      /\ staff[s].card \in Cards /\ staff[s].other \in Cards
  BY Knows DEF WellFormed, TimeSteps, SeatSteps
<1> QED
  BY <1>1, OnDayType DEF SwapSeats, SwapTime, OldTime

\* A statement of the exchange that goes on to another step of it.
LEMMA SwapGoes ==
    ASSUME DiaryInv, NEW s \in Staff, staff[s].pc \in SwapSteps, NEW pc \in SwapSteps,
           StaffGoes(s, pc), seat' \in [Seats -> SeatRows], NoDoubleBooking',
           UNCHANGED <<card, calls>>, Even
    PROVE  DiaryInv'
<1> DEFINE row == [staff[s] EXCEPT !.pc = pc]
<1>1. WellFormed(row)
  <2>1. pc \in StaffSteps
    BY DEF SwapSteps, StaffSteps
  <2> QED
    BY <2>1, Knows, GoesWellFormed
<1>2. StaffBecomes(s, row)
  BY DEF StaffGoes
<1> HIDE DEF row
<1> QED
  BY <1>1, <1>2, SeatGoes

LEMMA SwapCancelKeeps ==
    ASSUME DiaryInv, NEW s \in Staff, SwapCancel(s)
    PROVE  DiaryInv'
<1>1. staff[s].pc \in SwapSteps /\ "swapMove" \in SwapSteps
  BY DEF SwapCancel, StaffAt, SwapSteps
<1>2. SwapSeats(s) \subseteq Seats
  BY <1>1, SwapKnows
<1> DEFINE B == SwapSeats(s)
           row(b) == [seat[b] EXCEPT !.status = "cancelled"]
<1>3. \A b \in B : row(b) \in SeatRows /\ row(b).status # "confirmed"
  BY <1>2, Knows DEF SeatRows
<1>4. seat' = [b \in Seats |-> IF b \in B THEN row(b) ELSE seat[b]]
  BY DEF SwapCancel
<1> HIDE DEF B, row
<1>5. seat' \in [Seats -> SeatRows] /\ NoDoubleBooking'
  <2>1. B \in SUBSET Seats
    BY <1>2 DEF B
  <2>2. /\ \A b \in Seats \ B : seat'[b] = seat[b]
        /\ \A b \in B : seat'[b] \in SeatRows /\ seat'[b].status # "confirmed"
        /\ seat' = [b \in Seats |-> seat'[b]]
    BY <1>3, <1>4, <2>1
  <2> QED
    BY <2>1, <2>2, SeatsFreed
<1> QED
  BY <1>1, <1>5, SwapGoes DEF SwapCancel

LEMMA SwapMoveKeeps ==
    ASSUME DiaryInv, NEW s \in Staff, SwapMove(s)
    PROVE  DiaryInv'
<1>1. staff[s].pc \in SwapSteps /\ {"swapConfirm", "swapRestore"} \subseteq SwapSteps
  BY DEF SwapMove, StaffAt, SwapSteps
<1>2. UNCHANGED <<card, calls>> /\ Even
  BY DEF SwapMove
<1> DEFINE B == {b \in SwapSeats(s) : Live(b)}
           f == SwapTimes(s)
<1>3. CASE UNCHANGED seat /\ StaffGoes(s, "swapRestore")
  BY <1>1, <1>2, <1>3, SameSeats, SwapGoes
<1>4. CASE ~Refused(B, f) /\ SwapWrite(s, f, "") /\ StaffGoes(s, "swapConfirm")
  <2>1. SwapSeats(s) \subseteq Seats
    BY <1>1, SwapKnows
  <2>2. \A b \in SwapSeats(s) : f[b] \in Times \cup {NoTime}
    BY <1>1, SwapKnows DEF SwapTimes
  <2> HIDE DEF f
  <2>3. /\ seat' \in [Seats -> SeatRows]
        /\ \A b \in SwapSeats(s) : seat'[b].at = f[b]
        /\ \A b \in Seats \ SwapSeats(s) : seat'[b] = seat[b]
        /\ \A b \in Seats : Live(b)' => Live(b)
    BY <1>4, <2>1, <2>2, SwapWrites
  <2>4. /\ B \in SUBSET Seats
        /\ \A b \in B : seat'[b].at = f[b]
        /\ \A b \in Seats \ B : Live(b)' => Live(b) /\ seat'[b].at = seat[b].at
    BY <2>1, <2>3
  <2> HIDE DEF B
  <2>5. NoDoubleBooking'
    BY <1>4, <2>4, GivenMany DEF DiaryInv
  <2> QED
    BY <1>1, <1>2, <1>4, <2>3, <2>5, SwapGoes
<1> QED
  BY <1>3, <1>4 DEF SwapMove

\* The statements that make both bookings live again.
LEMMA SwapLive ==
    ASSUME DiaryInv, NEW s \in Staff, staff[s].pc \in SwapSteps, NEW f,
           \A b \in SwapSeats(s) : f[b] \in Times \cup {NoTime},
           ~Refused(SwapSeats(s), f), SwapWrite(s, f, "confirmed")
    PROVE  seat' \in [Seats -> SeatRows] /\ NoDoubleBooking'
<1>1. SwapSeats(s) \in SUBSET Seats
  BY SwapKnows
<1>2. /\ seat' \in [Seats -> SeatRows]
      /\ \A b \in SwapSeats(s) : seat'[b].at = f[b]
      /\ \A b \in Seats \ SwapSeats(s) : seat'[b] = seat[b]
  BY <1>1, SwapWrites
<1>3. \A b \in Seats \ SwapSeats(s) : Live(b)' => Live(b) /\ seat'[b].at = seat[b].at
  BY <1>2 DEF Live
<1> QED
  BY <1>1, <1>2, <1>3, GivenMany DEF DiaryInv

LEMMA SwapConfirmKeeps ==
    ASSUME DiaryInv, NEW s \in Staff, SwapConfirm(s)
    PROVE  DiaryInv'
<1>1. staff[s].pc \in SwapSteps /\ {"swapCards", "swapRestore"} \subseteq SwapSteps
  BY DEF SwapConfirm, StaffAt, SwapSteps
<1>2. UNCHANGED <<card, calls>> /\ Even
  BY DEF SwapConfirm
<1>3. CASE Refused(SwapSeats(s), NowTimes(s))
  <2>1. UNCHANGED seat /\ StaffGoes(s, "swapRestore")
    BY <1>3 DEF SwapConfirm
  <2> QED
    BY <1>1, <1>2, <2>1, SameSeats, SwapGoes
<1>4. CASE ~Refused(SwapSeats(s), NowTimes(s))
  <2>1. SwapWrite(s, NowTimes(s), "confirmed") /\ StaffGoes(s, "swapCards")
    BY <1>4 DEF SwapConfirm
  <2>2. \A b \in SwapSeats(s) : NowTimes(s)[b] \in Times \cup {NoTime}
    BY <1>1, SwapKnows, Knows DEF NowTimes, SeatRows
  <2>3. seat' \in [Seats -> SeatRows] /\ NoDoubleBooking'
    BY <1>1, <1>4, <2>1, <2>2, SwapLive
  <2> QED
    BY <1>1, <1>2, <2>1, <2>3, SwapGoes
<1> QED
  BY <1>3, <1>4

LEMMA SwapRestoreKeeps ==
    ASSUME DiaryInv, NEW s \in Staff, SwapRestore(s)
    PROVE  DiaryInv'
<1>1. staff[s].pc \in SwapSteps
  BY DEF SwapRestore, StaffAt, SwapSteps
<1>2. StaffDone(s) /\ UNCHANGED <<card, calls>> /\ (Even \/ Halfway)
  BY DEF SwapRestore
<1>3. CASE UNCHANGED seat
  BY <1>2, <1>3, SameSeats, SeatStep
<1>4. CASE ~Refused(SwapSeats(s), OldTimes(s)) /\ SwapWrite(s, OldTimes(s), "confirmed")
  <2>1. \A b \in SwapSeats(s) : OldTimes(s)[b] \in Times \cup {NoTime}
    BY <1>1, SwapKnows DEF OldTimes
  <2>2. seat' \in [Seats -> SeatRows] /\ NoDoubleBooking'
    BY <1>1, <1>4, <2>1, SwapLive
  <2> QED
    BY <1>2, <2>2, SeatStep
<1> QED
  BY <1>3, <1>4 DEF SwapRestore

LEMMA SwapCardsKeeps ==
    ASSUME DiaryInv, NEW s \in Staff, SwapCards(s)
    PROVE  DiaryInv'
<1>1. staff[s].pc \in SwapSteps
  BY DEF SwapCards, StaffAt, SwapSteps
<1> DEFINE t(j) == SwapCardAt(s, j = staff[s].other)
           from(j) == IF j = staff[s].other THEN staff[s].card ELSE staff[s].other
           row(j) == [card[j] EXCEPT !.at = t(j), !.squeezed = card[from(j)].squeezed]
<1>2. \A j \in Cards : t(j) \in Times
  BY <1>1, SwapKnows DEF SwapCardAt
<1> HIDE DEF t
<1>3. \A j \in Cards : row(j) \in CardRows
  <2> SUFFICES ASSUME NEW j \in Cards PROVE row(j) \in CardRows
    OBVIOUS
  <2>1. card[j] \in CardRows /\ t(j) \in Times /\ card[from(j)] \in CardRows
    BY <1>1, <1>2, SwapKnows, Knows
  <2>2. card[from(j)].squeezed \in BOOLEAN
    BY <2>1 DEF CardRows
  <2> HIDE DEF from
  <2> QED
    BY <2>1, <2>2 DEF CardRows
<1>4. card' = [j \in Cards |-> IF j \in {staff[s].card, staff[s].other} THEN row(j) ELSE card[j]]
  BY DEF SwapCards, t
<1> HIDE DEF row
<1>5. card' \in [Cards -> CardRows]
  BY <1>3, <1>4, Knows
<1> QED
  BY <1>5, CardStep DEF SwapCards

LEMMA CancelKeeps ==
    ASSUME DiaryInv, NEW s \in Staff, CancelCard(s) \/ ClearLinks(s)
    PROVE  DiaryInv'
<1>1. CASE CancelCard(s)
  <2> DEFINE j == staff[s].card
             row == [card[j] EXCEPT !.status = IF @ = "deleted" THEN @ ELSE "rejected",
                                    !.seat = NoSeat, !.at = NoTime]
  <2>1. j \in Cards
    BY <1>1, Knows DEF CancelCard, StaffAt, WellFormed
  <2>2. row \in CardRows
    <3>1. card[j] \in CardRows
      BY <2>1, Knows
    <3> QED
      BY <3>1 DEF CardRows
  <2>3. card' = [card EXCEPT ![j] = row]
    <3> DEFINE st == IF card[j].status = "deleted" THEN card[j].status ELSE "rejected"
    <3>1. card' = [card EXCEPT ![j].status = st, ![j].seat = NoSeat, ![j].at = NoTime]
      BY <1>1 DEF CancelCard
    <3>2. row = [card[j] EXCEPT !.status = st, !.seat = NoSeat, !.at = NoTime]
      OBVIOUS
    <3> HIDE DEF st, row, j
    <3>3. j \in DOMAIN card
      BY <2>1, Knows
    <3> QED
      BY <3>1, <3>2, <3>3
  <2> HIDE DEF row
  <2>4. card' \in [Cards -> CardRows]
    BY <2>2, <2>3, Knows
  <2> QED
    BY <1>1, <2>4, CardStep DEF CancelCard
<1>2. CASE ClearLinks(s)
  <2> DEFINE row(j) == [card[j] EXCEPT !.seat = NoSeat]
  <2>1. \A j \in Cards : row(j) \in CardRows
    BY Knows DEF CardRows
  <2>2. card' = [j \in Cards |-> row(j)]
    BY <1>2 DEF ClearLinks
  <2> HIDE DEF row
  <2>3. card' \in [Cards -> CardRows]
    BY <2>1, <2>2
  <2>4. seat' \in [Seats -> SeatRows] /\ NoDoubleBooking'
    <3> DEFINE booking(b) == [seat[b] EXCEPT !.asked = NoTime]
    <3>1. \A b \in Seats : /\ booking(b) \in SeatRows
                            /\ booking(b).status = seat[b].status /\ booking(b).at = seat[b].at
      BY Knows DEF SeatRows
    <3>2. seat' = [b \in Seats |-> booking(b)]
      BY <1>2 DEF ClearLinks
    <3> HIDE DEF booking
    <3>3. seat' \in [Seats -> SeatRows]
      BY <3>1, <3>2
    <3>4. \A b \in Seats : Live(b)' => Live(b) /\ seat'[b].at = seat[b].at
      BY <3>1, <3>2 DEF Live
    <3> QED
      BY <3>3, <3>4, Freed DEF DiaryInv
  <2>5. StaffDone(s) /\ Even /\ UNCHANGED calls
    BY <1>2 DEF ClearLinks
  <2> QED
    BY <2>3, <2>4, <2>5, IdleWellFormed, OddKeeps, StepKeeps DEF StaffDone
<1> QED
  BY <1>1, <1>2

LEMMA SessionKeeps ==
    ASSUME DiaryInv, NEW s \in Staff, SessionSeat(s)
    PROVE  DiaryInv'
<1> DEFINE b == staff[s].seat
<1>1. b \in Seats
  BY Knows DEF SessionSeat, StaffAt, WellFormed, SeatSteps
<1>2. StaffDone(s) /\ UNCHANGED <<card, calls>> /\ (Even \/ Halfway)
  BY DEF SessionSeat
<1>3. seat[b] \in SeatRows /\ seat[b].at \in Times \cup {NoTime}
  BY <1>1, Knows DEF SeatRows
<1>4. CASE UNCHANGED seat
  BY <1>2, <1>4, SameSeats, SeatStep
<1>5. CASE seat' = [seat EXCEPT ![b].status = "cancelled"]
  <2> DEFINE row == [seat[b] EXCEPT !.status = "cancelled"]
  <2>1. row \in SeatRows /\ row.status # "confirmed"
    BY <1>3 DEF SeatRows
  <2>2. seat' = [seat EXCEPT ![b] = row]
    BY <1>5
  <2> HIDE DEF row, b
  <2>3. /\ {b} \in SUBSET Seats
        /\ \A c \in Seats \ {b} : seat'[c] = seat[c]
        /\ \A c \in {b} : seat'[c] \in SeatRows /\ seat'[c].status # "confirmed"
        /\ seat' = [c \in Seats |-> seat'[c]]
    BY <1>1, <2>1, <2>2, Knows
  <2>4. seat' \in [Seats -> SeatRows] /\ NoDoubleBooking'
    BY <2>3, SeatsFreed
  <2> QED
    BY <1>2, <2>4, SeatStep
<1>6. CASE ~TakenFor({b}, seat[b].at) /\ seat' = [seat EXCEPT ![b].status = "confirmed"]
  <2> DEFINE row == [seat[b] EXCEPT !.status = "confirmed"]
  <2>1. row \in SeatRows /\ row.at = seat[b].at
    BY <1>3 DEF SeatRows
  <2>2. seat' = [seat EXCEPT ![b] = row]
    BY <1>6
  <2> HIDE DEF b, row
  <2>4. seat' \in [Seats -> SeatRows] /\ NoDoubleBooking'
    BY <1>1, <1>6, <2>1, <2>2, SeatWritten
  <2> QED
    BY <1>2, <2>4, SeatStep
<1> QED
  BY <1>4, <1>5, <1>6 DEF SessionSeat

LEMMA FollowSeatKeeps ==
    ASSUME DiaryInv, NEW s \in Staff, FollowSeat(s)
    PROVE  DiaryInv'
<1> DEFINE b == Min(FreeSeats)
           t == staff[s].at
           row == [staff[s] EXCEPT !.pc = "followCount", !.seat = b]
<1>1. staff[s].pc = "followSeat" /\ t \in Times /\ b \in Seats /\ ~Live(b)
  BY Knows, FreeTypes DEF FollowSeat, StaffAt, WellFormed, TimeSteps
<1>2. UNCHANGED <<card, calls>> /\ Even
  BY DEF FollowSeat
<1>3. CASE TakenFor({}, t)
  BY <1>2, <1>3, SameSeats, SeatStep DEF FollowSeat
<1>4. CASE ~TakenFor({}, t)
  <2>1. seat' = [seat EXCEPT ![b] = ConfirmedAt(t)] /\ StaffBecomes(s, row)
    BY <1>4 DEF FollowSeat
  <2>2. ~TakenFor({b}, t)
    BY <1>4 DEF TakenFor
  <2> HIDE DEF b, t
  <2>3. row \in StaffRows /\ row.pc = "followCount" /\ row.seat = b /\ row.at = t
    <3>1. staff[s] \in StaffRows /\ staff[s].at = t /\ b \in Seats \cup {NoSeat}
          /\ "followCount" \in StaffSteps
      BY <1>1, Knows DEF t, StaffSteps
    <3> QED
      BY <3>1 DEF StaffRows
  <2> HIDE DEF row
  <2>4. WellFormed(row)
    BY <1>1, <2>3 DEF WellFormed, TimeSteps, SeatSteps, SwapSteps
  <2>5. seat' \in [Seats -> SeatRows] /\ NoDoubleBooking'
    BY <1>1, <2>1, <2>2, ConfirmedType, SeatWritten
  <2> QED
    BY <1>2, <2>1, <2>4, <2>5, SeatGoes
<1> QED
  BY <1>3, <1>4

\* A count of cards is a number.
LEMMA CountedType ==
    ASSUME NEW r
    PROVE  Counted(r) \in Nat
<1> DEFINE S == {j \in Cards : Exists(j) /\ r \in {j, card[j].root}}
<1>1. IsFiniteSet(S)
  BY DiaryAssumption, FS_Subset
<1>2. Cardinality(S) \in Nat
  BY <1>1, FS_CardinalityType
<1> QED
  BY <1>2 DEF Counted

LEMMA FollowCountKeeps ==
    ASSUME DiaryInv, NEW s \in Staff, FollowCount(s)
    PROVE  DiaryInv'
<1> DEFINE n == Counted(staff[s].root)
           index == IF n = 0 THEN 2 ELSE n + 1
           row == [staff[s] EXCEPT !.pc = "followCard", !.index = index]
<1>1. staff[s].pc = "followCount" /\ staff[s].at \in Times /\ staff[s].seat \in Seats
  BY Knows DEF FollowCount, StaffAt, WellFormed, TimeSteps, SeatSteps
<1>2. UNCHANGED <<card, seat, calls>> /\ Even /\ StaffBecomes(s, row)
  BY DEF FollowCount
<1>3. index \in Nat
  BY CountedType
<1> HIDE DEF index
<1>4. row \in StaffRows /\ row.pc = "followCard" /\ row.seat = staff[s].seat /\ row.at = staff[s].at
  <2>1. staff[s] \in StaffRows /\ "followCard" \in StaffSteps
    BY Knows DEF StaffSteps
  <2> QED
    BY <1>3, <2>1 DEF StaffRows
<1> HIDE DEF row
<1>5. WellFormed(row)
  BY <1>1, <1>4 DEF WellFormed, TimeSteps, SeatSteps, SwapSteps
<1> QED
  BY <1>2, <1>5, SameSeats, SeatGoes

LEMMA FollowCardKeeps ==
    ASSUME DiaryInv, NEW s \in Staff, FollowCard(s)
    PROVE  DiaryInv'
<1>1. staff[s].pc = "followCard" /\ staff[s].at \in Times /\ staff[s].seat \in Seats
  BY Knows DEF FollowCard, StaffAt, WellFormed, TimeSteps, SeatSteps
<1>2. UNCHANGED <<seat, calls>> /\ (Even \/ Halfway)
  BY DEF FollowCard
<1>3. CASE UNCHANGED card /\ StaffDone(s)
  <2>1. card' \in [Cards -> CardRows]
    BY <1>3, Knows
  <2> QED
    BY <1>2, <1>3, <2>1, CardStep
<1> DEFINE j == Min(FreeCards)
           new == [NoCardRow EXCEPT !.status = "booked", !.seat = staff[s].seat, !.at = staff[s].at]
           row == [staff[s] EXCEPT !.pc = "followIndex", !.new = j]
<1>4. CASE FreeCards # {} /\ card' = [card EXCEPT ![j] = new] /\ StaffBecomes(s, row) /\ Even
  <2>1. j \in Cards
    BY <1>4, FreeTypes
  <2>2. new \in CardRows
    BY <1>1 DEF NoCardRow, CardRows
  <2> HIDE DEF j, new
  <2>3. card' \in [Cards -> CardRows]
    BY <1>4, <2>1, <2>2, Knows
  <2>4. row \in StaffRows /\ row.pc = "followIndex" /\ row.new = j
    <3>1. staff[s] \in StaffRows /\ "followIndex" \in StaffSteps
      BY Knows DEF StaffSteps
    <3>2. j \in Cards \cup {NoCard}
      BY <2>1
    <3> QED
      BY <3>1, <3>2 DEF StaffRows
  <2> HIDE DEF row
  <2>5. WellFormed(row)
    BY <2>1, <2>4 DEF WellFormed, TimeSteps, SeatSteps, SwapSteps
  <2> QED
    BY <1>2, <1>4, <2>3, <2>5, OddKeeps, SameSeats, StepKeeps
<1>5. CASE UNCHANGED card /\ StaffGoes(s, "followUndo") /\ Even
  <2> DEFINE q == [staff[s] EXCEPT !.pc = "followUndo"]
  <2>1. WellFormed(q)
    <3>1. "followUndo" \in StaffSteps
      BY DEF StaffSteps
    <3> QED
      BY <1>1, <3>1, Knows, GoesWellFormed
  <2>2. StaffBecomes(s, q)
    BY <1>5 DEF StaffGoes
  <2> HIDE DEF q
  <2> QED
    BY <1>2, <1>5, <2>1, <2>2, SameSeats, SeatGoes
<1> QED
  BY <1>3, <1>4, <1>5 DEF FollowCard

LEMMA FollowUndoKeeps ==
    ASSUME DiaryInv, NEW s \in Staff, FollowUndo(s)
    PROVE  DiaryInv'
<1> DEFINE b == staff[s].seat
<1>1. b \in Seats
  BY Knows DEF FollowUndo, StaffAt, WellFormed, SeatSteps
<1>2. /\ seat' = [seat EXCEPT ![b] = NoSeatRow]
      /\ StaffDone(s) /\ Even /\ UNCHANGED <<card, calls>>
  BY DEF FollowUndo
<1> HIDE DEF b
<1>3. /\ {b} \in SUBSET Seats
      /\ \A c \in Seats \ {b} : seat'[c] = seat[c]
      /\ \A c \in {b} : seat'[c] \in SeatRows /\ seat'[c].status # "confirmed"
      /\ seat' = [c \in Seats |-> seat'[c]]
  BY <1>1, <1>2, Knows, NoSeatType
<1> QED
  BY <1>2, <1>3, SeatsFreed, SeatStep

LEMMA FollowIndexKeeps ==
    ASSUME DiaryInv, NEW s \in Staff, FollowIndex(s)
    PROVE  DiaryInv'
<1> DEFINE j == staff[s].new
           numbered == [card[j] EXCEPT !.root = staff[s].root, !.index = staff[s].index,
                                       !.session = "planned"]
           continued == [card[j] EXCEPT !.index = 1]
<1>1. j \in Cards /\ staff[s] \in StaffRows /\ card[j] \in CardRows
  BY Knows DEF FollowIndex, StaffAt, WellFormed
<1>2. numbered \in CardRows /\ continued \in CardRows
  <2>1. staff[s].root \in Cards \cup {NoCard} /\ staff[s].index \in Nat
    BY <1>1 DEF StaffRows
  <2> QED
    BY <1>1, <2>1 DEF CardRows
<1>3. card' = [card EXCEPT ![j] = numbered] \/ card' = [card EXCEPT ![j] = continued]
  <2> DEFINE r == staff[s].root
             n == staff[s].index
  <2>1. \/ card' = [card EXCEPT ![j].root = r, ![j].index = n, ![j].session = "planned"]
        \/ card' = [card EXCEPT ![j].index = 1]
    BY DEF FollowIndex
  <2>2. numbered = [card[j] EXCEPT !.root = r, !.index = n, !.session = "planned"]
    OBVIOUS
  <2> HIDE DEF j, numbered, r, n
  <2>3. j \in DOMAIN card
    BY <1>1, Knows
  <2> QED
    BY <2>1, <2>2, <2>3
<1> HIDE DEF j, numbered, continued
<1>4. card' \in [Cards -> CardRows]
  BY <1>1, <1>2, <1>3, Knows
<1> QED
  BY <1>4, CardStep DEF FollowIndex

LEMMA ApproveSeatKeeps ==
    ASSUME DiaryInv, NEW s \in Staff, ApproveSeat(s)
    PROVE  DiaryInv'
<1> DEFINE b == staff[s].seat
           row == [seat[b] EXCEPT !.status = "confirmed"]
<1>1. b \in Seats /\ seat[b] \in SeatRows
  BY Knows DEF ApproveSeat, StaffAt, WellFormed, SeatSteps
<1>2. /\ StaffDone(s) /\ UNCHANGED <<card, calls>> /\ (Even \/ Halfway \/ Unmoved)
      /\ UNCHANGED seat \/ (~TakenFor({b}, seat[b].at) /\ seat' = [seat EXCEPT ![b] = row])
  BY DEF ApproveSeat
<1>3. row \in SeatRows /\ row.at = seat[b].at
  BY <1>1 DEF SeatRows
<1> HIDE DEF b, row
<1>4. CASE UNCHANGED seat
  BY <1>2, <1>4, SameSeats, SeatStep
<1>5. CASE ~TakenFor({b}, seat[b].at) /\ seat' = [seat EXCEPT ![b] = row]
  <2>1. seat' \in [Seats -> SeatRows] /\ NoDoubleBooking'
    BY <1>1, <1>3, <1>5, SeatWritten
  <2> QED
    BY <1>2, <2>1, SeatStep
<1> QED
  BY <1>2, <1>4, <1>5

LEMMA RescheduleCardKeeps ==
    ASSUME DiaryInv, NEW s \in Staff, RescheduleCard(s)
    PROVE  DiaryInv'
<1> DEFINE k == staff[s]
           sameDay(j) == card[j].at # NoTime /\ card[j].at.day = k.at.day
           squeezed(j) == card[j].squeezed \/ ~sameDay(j)
           row(j) == [card[j] EXCEPT !.at = k.at, !.squeezed = squeezed(j)]
<1>1. k.at \in Times
  BY Knows DEF RescheduleCard, StaffAt, WellFormed, TimeSteps
<1>2. \A j \in Cards : row(j) \in CardRows
  <2> SUFFICES ASSUME NEW j \in Cards PROVE row(j) \in CardRows
    OBVIOUS
  <2>1. card[j] \in CardRows /\ squeezed(j) \in BOOLEAN
    BY Knows
  <2> HIDE DEF squeezed
  <2> QED
    BY <1>1, <2>1 DEF CardRows
<1>3. card' = [j \in Cards |-> IF Booked(j) /\ card[j].seat = k.seat THEN row(j) ELSE card[j]]
  BY DEF RescheduleCard
<1> HIDE DEF row
<1>4. card' \in [Cards -> CardRows]
  BY <1>2, <1>3, Knows
<1> QED
  BY <1>4, CardStep DEF RescheduleCard

LEMMA StepsKeep ==
    ASSUME DiaryInv, NEW s \in Staff, StaffStep(s)
    PROVE  DiaryInv'
BY CreateKeeps, MoveKeeps, SwapCancelKeeps, SwapMoveKeeps, SwapConfirmKeeps,
   SwapRestoreKeeps, SwapCardsKeeps, CancelKeeps, SessionKeeps, FollowSeatKeeps,
   FollowCountKeeps, FollowCardKeeps, FollowUndoKeeps, FollowIndexKeeps,
   ApproveSeatKeeps, RescheduleCardKeeps DEF StaffStep

LEMMA StopKeeps ==
    ASSUME DiaryInv, NEW s \in Staff, StaffStops(s)
    PROVE  DiaryInv'
BY SameSeats, SeatStep DEF StaffStops

-----------------------------------------------------------------------------
(* The month view, the deletion of a card and other bookings *)

LEMMA Tables ==
    ASSUME DiaryInv
    PROVE  card \in [Cards -> CardRows] /\ seat \in [Seats -> SeatRows]
BY DEF DiaryInv, DiaryTypeOK

\* A step that leaves the staff alone.
LEMMA OthersKeep ==
    ASSUME DiaryInv, UNCHANGED staff, card' \in [Cards -> CardRows],
           seat' \in [Seats -> SeatRows], NoDoubleBooking',
           calls' \in 0..MaxCalls, odd' \subseteq Oddities
    PROVE  DiaryInv'
BY DEF DiaryInv, DiaryTypeOK, Oddities

\* The bookings that are astray, and the times of their cards.
LEMMA Strays ==
    ASSUME DiaryInv
    PROVE  /\ StraySeats \in SUBSET Seats /\ LiveStrays \in SUBSET StraySeats
           /\ \A b \in StraySeats : /\ StrayTimes[b] \in Times
                                   /\ \E j \in Cards : /\ Astray(j) /\ card[j].seat = b
                                                      /\ StrayTimes[b] = card[j].at
<1> DEFINE pick(b) == CHOOSE j \in Cards : Astray(j) /\ card[j].seat = b
<1>1. \A j \in Cards : Astray(j) => card[j].seat \in Seats /\ card[j].at \in Times
  BY Tables DEF Astray, Linked, CardRows
<1>2. StraySeats \in SUBSET Seats /\ LiveStrays \in SUBSET StraySeats
  BY <1>1 DEF StraySeats, LiveStrays
<1>3. ASSUME NEW b \in StraySeats
      PROVE  pick(b) \in Cards /\ Astray(pick(b)) /\ card[pick(b)].seat = b
  <2>1. \E j \in Cards : Astray(j) /\ card[j].seat = b
    BY DEF StraySeats
  <2> QED
    BY <2>1
<1>4. StrayTimes = [b \in StraySeats |-> card[pick(b)].at]
  BY DEF StrayTimes
<1> HIDE DEF pick
<1> QED
  BY <1>1, <1>2, <1>3, <1>4

LEMMA MonthKeeps ==
    ASSUME DiaryInv, MonthLoad
    PROVE  DiaryInv'
<1> DEFINE row(b) == [seat[b] EXCEPT !.at = StrayTimes[b]]
<1>1. /\ ~Refused(LiveStrays, StrayTimes) /\ UNCHANGED <<card, staff, calls>> /\ Meets
      /\ seat' = [b \in Seats |-> IF b \in StraySeats THEN row(b) ELSE seat[b]]
  BY DEF MonthLoad
<1>2. ASSUME NEW b \in StraySeats
      PROVE  row(b) \in SeatRows /\ row(b).at = StrayTimes[b] /\ row(b).status = seat[b].status
  <2>1. seat[b] \in SeatRows /\ StrayTimes[b] \in Times
    BY Strays, Tables
  <2> QED
    BY <2>1 DEF SeatRows
<1> HIDE DEF row
<1>3. /\ seat' \in [Seats -> SeatRows]
      /\ \A b \in LiveStrays : seat'[b].at = StrayTimes[b]
      /\ \A b \in Seats \ LiveStrays : Live(b)' => Live(b) /\ seat'[b].at = seat[b].at
      /\ LiveStrays \in SUBSET Seats
  BY <1>1, <1>2, Strays, Tables DEF LiveStrays, Live
<1>4. NoDoubleBooking'
  BY <1>1, <1>3, GivenMany DEF DiaryInv
<1>5. card' \in [Cards -> CardRows] /\ calls' \in 0..MaxCalls /\ odd' \subseteq Oddities
  BY <1>1 DEF DiaryInv, DiaryTypeOK, Meets, Oddities
<1> QED
  BY <1>1, <1>3, <1>4, <1>5, OthersKeep

LEMMA DeleteKeeps ==
    ASSUME DiaryInv, NEW j \in Cards, DeleteCard(j)
    PROVE  DiaryInv'
<1>1. [card[j] EXCEPT !.status = "deleted"] \in CardRows
  BY Tables DEF CardRows
<1>2. card' = [card EXCEPT ![j] = [card[j] EXCEPT !.status = "deleted"]]
  BY DEF DeleteCard
<1>3. card' \in [Cards -> CardRows]
  BY <1>1, <1>2, Tables
<1>4. UNCHANGED <<seat, staff, calls>> /\ odd' \subseteq Oddities /\ calls' \in 0..MaxCalls
  BY DEF DeleteCard, DiaryInv, DiaryTypeOK, Oddities
<1> QED
  BY <1>3, <1>4, SameSeats, OthersKeep

LEMMA OtherKeeps ==
    ASSUME DiaryInv, NEW t \in Times, OtherBooks(t)
    PROVE  DiaryInv'
<1> DEFINE b == Min(FreeSeats)
           row == [ConfirmedAt(t) EXCEPT !.asked = t]
<1>1. b \in Seats
  BY FreeTypes DEF OtherBooks
<1>2. ~TakenFor({b}, t) /\ seat' = [seat EXCEPT ![b] = row]
  BY DEF OtherBooks, TakenFor
<1>3. row \in SeatRows /\ row.at = t
  BY ConfirmedType DEF SeatRows
<1> HIDE DEF b, row
<1>4. seat' \in [Seats -> SeatRows] /\ NoDoubleBooking'
  BY <1>1, <1>2, <1>3, SeatWritten
<1>5. UNCHANGED <<card, staff>> /\ calls' \in 0..MaxCalls /\ odd' \subseteq Oddities
  BY CountsKeep DEF OtherBooks, Meets, DiaryInv, DiaryTypeOK, Oddities
<1>6. card' \in [Cards -> CardRows]
  BY <1>5, Tables
<1> QED
  BY <1>4, <1>5, <1>6, OthersKeep

LEMMA StatusKeeps ==
    ASSUME DiaryInv, NEW b \in Seats, NEW status \in {"confirmed", "cancelled", "done", "no_show"},
           SetBookingStatus(b, status)
    PROVE  DiaryInv'
<1> DEFINE row == [seat[b] EXCEPT !.status = status]
<1>1. /\ seat' = [seat EXCEPT ![b] = row] /\ UNCHANGED <<card, staff>>
      /\ status = "confirmed" => ~TakenFor({b}, seat[b].at)
      /\ odd' \subseteq odd \cup {"overlap", "button"}
  BY DEF SetBookingStatus
<1>2. row \in SeatRows /\ row.at = seat[b].at /\ row.status = status
  BY Tables DEF SeatRows
<1> HIDE DEF row
<1>3. seat' \in [Seats -> SeatRows] /\ NoDoubleBooking'
  BY <1>1, <1>2, SeatWritten
<1>4. card' \in [Cards -> CardRows] /\ calls' \in 0..MaxCalls /\ odd' \subseteq Oddities
  BY <1>1, CountsKeep, Tables DEF SetBookingStatus, DiaryInv, DiaryTypeOK, Oddities
<1> QED
  BY <1>1, <1>3, <1>4, OthersKeep

-----------------------------------------------------------------------------
(* The theorems *)

LEMMA InvStep == DiaryInv /\ [DiaryNext]_diaryVars => DiaryInv'
<1>1. ASSUME DiaryInv, DiaryNext PROVE DiaryInv'
  BY <1>1, MonthKeeps, DeleteKeeps, OtherKeeps, StatusKeeps, CallsKeep, StepsKeep, StopKeeps
     DEF DiaryNext
<1>2. ASSUME DiaryInv, UNCHANGED diaryVars PROVE DiaryInv'
  BY <1>2 DEF diaryVars, DiaryInv, DiaryTypeOK, NoDoubleBooking, Live
<1> QED
  BY <1>1, <1>2

LEMMA Always == DiarySpec => []DiaryInv
BY InvInit, InvStep, PTL DEF DiarySpec

\* The tables and the staff's requests hold what their columns may hold.
THEOREM DiaryTypes == DiarySpec => []DiaryTypeOK
<1>1. DiaryInv => DiaryTypeOK
  BY DEF DiaryInv
<1> QED
  BY <1>1, Always, PTL

\* No time is given away twice: exchanges, moves, the month view's repairs and
\* their compensations may overlap and stop anywhere, because each statement
\* that makes a booking live, or moves it, passes the trigger on its own.
THEOREM NoTimeGivenTwice == DiarySpec => []NoDoubleBooking
<1>1. DiaryInv => NoDoubleBooking
  BY DEF DiaryInv
<1> QED
  BY <1>1, Always, PTL

-----------------------------------------------------------------------------
(* One request at a time: the invariants *)

\* Nothing has overlapped and nothing has stopped half-way.
Calm == odd \cap {"overlap", "halfway"} = {}

OneBusy == \A s, q \in Staff : s = q \/ StaffAt(s, "idle") \/ StaffAt(q, "idle")

\* The appointments of the beginning are on days of their own.
BegunDays == \A x, y \in Begun : x.at.day = y.at.day => x = y

Has(j) == card[j].seat # NoSeat

\* No card other than j stands on the day.
ApartFrom(j, day) == \A i \in Cards \ {j} : Has(i) => card[i].at.day # day

\* Only a booked card has a booking, one that exists and is its own; a request
\* that is not approved yet shares its booking with no card; and a day is shared
\* only where a request was approved, or moved, onto it.
Links ==
    /\ \A j \in Cards : Has(j) => /\ Booked(j) /\ card[j].at # NoTime
                                  /\ seat[card[j].seat].status # "none"
    /\ \A i, j \in Cards : Has(i) /\ card[i].seat = card[j].seat => i = j
    /\ \A b \in Seats : seat[b].asked # NoTime =>
          seat[b].status # "none" /\ \A j \in Cards : card[j].seat # b
    /\ BegunDays => \A i, j \in Cards :
          Has(i) /\ Has(j) /\ card[i].at.day = card[j].at.day
              => i = j \/ card[i].squeezed \/ card[j].squeezed

\* What a handler has read of the cards still holds when it writes.
Plan(k) ==
    /\ k.pc \in {"create", "followSeat", "followCount", "followCard"} => ApartFrom(NoCard, k.at.day)
    /\ k.pc = "moveCard" => ApartFrom(k.card, k.at.day)
    /\ k.pc \in {"followCount", "followCard", "followUndo"} =>
          /\ seat[k.seat].status # "none" /\ seat[k.seat].asked = NoTime
          /\ \A j \in Cards : card[j].seat # k.seat
    /\ k.pc \in {"moveCard", "moveSeat"} => k.card \in Cards /\ card[k.card].seat = k.seat
    /\ k.pc = "moveSeat" => card[k.card].at = k.at
    /\ k.pc \in SwapSteps =>
          /\ k.card \in Cards /\ k.other \in Cards /\ k.card # k.other
          /\ card[k.card].seat = k.seat /\ card[k.other].seat = k.otherSeat
          /\ card[k.card].at = k.at /\ card[k.other].at = k.otherAt

Serial == OneBusy /\ Links /\ \A s \in Staff : Plan(staff[s])

SerialInv == Calm => Serial

\* The booking of a card is at the card's time, and live unless the session is
\* cancelled or a status button was pressed.
Suits(j) ==
    Has(j) => /\ seat[card[j].seat].at = card[j].at
              /\ card[j].session # "cancelled" => "button" \in odd \/ Live(card[j].seat)

\* The cards between two statements of a handler.
Changing(k, j) ==
    \/ k.pc \in {"moveSeat", "cancelCard"} /\ j = k.card
    \/ k.pc \in SwapSteps \ {"swapCancel"} /\ j \in {k.card, k.other}
    \/ k.pc \in {"sessionSeat", "approveSeat", "rescheduleCard"} /\ card[j].seat = k.seat
    \/ k.pc = "clearLinks"

\* How far it has come with them.
Course(k) ==
    /\ k.pc = "moveSeat" => (card[k.card].session # "cancelled" => "button" \in odd \/ Live(k.seat))
    /\ k.pc \in {"followCount", "followCard"} => Live(k.seat) /\ seat[k.seat].at = k.at
    /\ k.pc = "swapMove" => ~Live(k.seat) /\ ~Live(k.otherSeat)
    /\ k.pc \in {"swapConfirm", "swapCards"} =>
          /\ seat[k.seat].at = OnDay(k.at, k.otherAt.day)
          /\ seat[k.otherSeat].at = OnDay(k.otherAt, k.at.day)
    /\ k.pc = "swapCards" => Live(k.seat) /\ Live(k.otherSeat)
    /\ k.pc = "sessionSeat" => \A j \in Cards : card[j].seat = k.seat =>
          card[j].session = k.session /\ card[j].at = seat[k.seat].at
    /\ k.pc = "followIndex" => Live(card[k.new].seat)
    /\ k.pc = "approveSeat" => \A j \in Cards : card[j].seat = k.seat => card[j].at = k.at
    /\ k.pc = "rescheduleCard" =>
          /\ seat[k.seat].at = k.at
          /\ \A j \in Cards : card[j].seat = k.seat =>
                (card[j].session # "cancelled" => "button" \in odd \/ Live(k.seat))

Match ==
    /\ \A j \in Cards : Suits(j) \/ \E s \in Staff : Changing(staff[s], j)
    /\ \A s \in Staff : Course(staff[s])

MatchInv == Calm /\ "unmoved" \notin odd => Match

\* The sessions of a job have numbers of their own, none above their count.
Numbers ==
    /\ \A j \in Cards : card[j].root # NoCard =>
          Exists(j) /\ Exists(card[j].root) /\ card[j].index <= Counted(card[j].root)
    /\ \A i, j \in Cards :
          card[i].root # NoCard /\ card[i].root = card[j].root /\ card[i].index = card[j].index
              => i = j

\* The number of a new session is the next one.
Numbering(k) ==
    /\ k.pc \in {"followSeat", "followCount", "followCard", "followIndex"} =>
          k.root \in Cards /\ Exists(k.root)
    /\ k.pc \in {"followCard", "followIndex"} => k.index = Counted(k.root) + 1
    /\ k.pc = "followIndex" =>
          k.new \in Cards /\ Exists(k.new) /\ card[k.new].root = NoCard /\ k.new # k.root
    /\ k.pc = "cancelCard" => Exists(k.card)

Numbered == Numbers /\ \A s \in Staff : Numbering(staff[s])

NumberInv == Calm /\ "deleted" \notin odd => Numbered

-----------------------------------------------------------------------------
(* Steps of the only handler *)

\* What has happened out of the ordinary is not forgotten.
LEMMA OddGrows ==
    ASSUME DiaryNext
    PROVE  odd \subseteq odd'
<1>1. ASSUME NEW s \in Staff, StaffCalls(s) PROVE odd \subseteq odd'
  BY <1>1 DEF StaffCalls, Create, CancelSeat, Swap, Move, FollowUp, SetSession, ClearSeats,
              Approve, Reschedule, Call, Meets
<1>2. ASSUME NEW s \in Staff, StaffStep(s) PROVE odd \subseteq odd'
  BY <1>2 DEF StaffStep, CreateInsert, MoveCard, MoveSeat, SwapCancel, SwapMove, SwapConfirm,
              SwapRestore, SwapCards, CancelCard, ClearLinks, SessionSeat, FollowSeat, FollowCount,
              FollowCard, FollowUndo, FollowIndex, ApproveSeat, RescheduleCard, Even, Halfway, Unmoved
<1> QED
  BY <1>1, <1>2 DEF DiaryNext, MonthLoad, Meets, DeleteCard, OtherBooks, SetBookingStatus,
                    StaffStops, Halfway

\* Nobody stops when all stays calm.
LEMMA NoStop ==
    ASSUME NEW s \in Staff, StaffStops(s)
    PROVE  ~Calm'
BY DEF StaffStops, Halfway, Calm

\* The others are idle while one handler is at work.
LEMMA BusyStep ==
    ASSUME DiaryInv, OneBusy, NEW s \in Staff, ~StaffAt(s, "idle"), NEW row, StaffBecomes(s, row)
    PROVE  /\ OneBusy' /\ staff'[s] = row
           /\ \A q \in Staff \ {s} : staff[q].pc = "idle" /\ staff'[q] = staff[q]
<1>1. staff' = [staff EXCEPT ![s] = row] /\ DOMAIN staff = Staff
  BY Knows DEF StaffBecomes
<1>2. \A q \in Staff \ {s} : staff[q].pc = "idle" /\ staff'[q] = staff[q]
  BY <1>1 DEF OneBusy, StaffAt
<1> QED
  BY <1>1, <1>2 DEF OneBusy, StaffAt

\* A request that arrives finds everybody idle.
LEMMA Arrives ==
    ASSUME DiaryInv, Calm', NEW s \in Staff, NEW row, Call(s, row)
    PROVE  /\ OneBusy' /\ staff'[s] = row /\ AtRest
           /\ \A q \in Staff \ {s} : staff[q].pc = "idle" /\ staff'[q] = staff[q]
<1>1. AtRest
  BY DEF Call, Meets, Calm
<1>2. staff' = [staff EXCEPT ![s] = row] /\ DOMAIN staff = Staff
  BY Knows DEF StaffBecomes, Call
<1>3. \A q \in Staff \ {s} : staff[q].pc = "idle" /\ staff'[q] = staff[q]
  BY <1>1, <1>2 DEF AtRest, StaffAt
<1> QED
  BY <1>1, <1>2, <1>3 DEF OneBusy, StaffAt

LEMMA IdlePlan == \A k : k.pc = "idle" => Plan(k)
BY DEF Plan, SwapSteps

LEMMA SerialGoes ==
    ASSUME DiaryInv, Serial, NEW s \in Staff, ~StaffAt(s, "idle"), NEW row, StaffBecomes(s, row),
           Links', Plan(row)'
    PROVE  Serial'
<1>1. OneBusy' /\ staff'[s] = row /\ \A q \in Staff \ {s} : staff'[q].pc = "idle"
  BY BusyStep DEF Serial
<1>2. \A q \in Staff : Plan(staff[q])'
  BY <1>1 DEF Plan, SwapSteps
<1> QED
  BY <1>1, <1>2 DEF Serial

LEMMA SerialRests ==
    ASSUME DiaryInv, Serial, NEW s \in Staff, ~StaffAt(s, "idle"), StaffDone(s), Links'
    PROVE  Serial'
<1>1. StaffBecomes(s, IdleStaff)
  BY DEF StaffDone
<1>2. IdleStaff.pc = "idle"
  BY DEF IdleStaff
<1>3. PICK row : row = IdleStaff
  OBVIOUS
<1>4. Plan(row)'
  BY <1>2, <1>3 DEF Plan, SwapSteps
<1> QED
  BY <1>1, <1>3, <1>4, SerialGoes

LEMMA SerialArrives ==
    ASSUME DiaryInv, Calm', NEW s \in Staff, NEW row, Call(s, row), Links', Plan(row)'
    PROVE  Serial'
<1>1. OneBusy' /\ staff'[s] = row /\ \A q \in Staff \ {s} : staff'[q].pc = "idle"
  BY Arrives
<1>2. \A q \in Staff : Plan(staff[q])'
  BY <1>1 DEF Plan, SwapSteps
<1> QED
  BY <1>1, <1>2 DEF Serial

\* The cards keep their bookings and times, and no booking of theirs is deleted.
LEMMA LinksStay ==
    ASSUME Links,
           \A j \in Cards : card'[j].seat = card[j].seat /\ card'[j].at = card[j].at
                            /\ card'[j].squeezed = card[j].squeezed
                            /\ (Has(j) => card'[j].status = card[j].status),
           \A j \in Cards : Has(j) => seat'[card[j].seat].status # "none",
           \A b \in Seats : seat'[b].asked # NoTime =>
               seat[b].asked # NoTime /\ seat'[b].status # "none"
    PROVE  Links'
BY DEF Links, Has, Booked

\* No booking is deleted, and none comes to wait for an approval.
BookingsStay ==
    \A b \in Seats : /\ seat[b].status # "none" => seat'[b].status # "none"
                     /\ seat'[b].asked \in {seat[b].asked, NoTime}

LEMMA SeatsKept ==
    ASSUME DiaryInv, Links, UNCHANGED card, BookingsStay
    PROVE  Links'
<1>1. \A j \in Cards : Has(j) => card[j].seat \in Seats /\ seat[card[j].seat].status # "none"
  BY Tables DEF Links, Has, CardRows
<1>2. \A b \in Seats : seat'[b].asked # NoTime => seat[b].asked # NoTime /\ seat'[b].status # "none"
  BY DEF BookingsStay, Links
<1> QED
  BY <1>1, <1>2, LinksStay DEF BookingsStay

\* A new card with a booking no card has, on a day no card has.
LEMMA LinksGrow ==
    ASSUME DiaryInv, Links, NEW j \in Cards, NEW b \in Seats, NEW t \in Times,
           card'[j].squeezed \/ ApartFrom(NoCard, t.day), \A i \in Cards : card[i].seat # b,
           card'[j].status = "booked", card'[j].seat = b, card'[j].at = t,
           \A i \in Cards \ {j} : card'[i] = card[i],
           \A a \in Seats \ {b} : seat'[a] = seat[a],
           seat'[b].status # "none", seat'[b].asked = NoTime
    PROVE  Links'
<1>1. NoCard \notin Cards /\ NoTime \notin Times /\ NoSeat \notin Seats
  BY DiaryAssumption DEF Times
<1>2. \A i \in Cards \ {j} : Has(i) => card[i].seat \in Seats \ {b}
  BY <1>1, Tables DEF Has, CardRows
<1>3. \A i \in Cards : Has(i)' => Booked(i)' /\ card'[i].at # NoTime /\ seat'[card'[i].seat].status # "none"
  <2>1. ASSUME NEW i \in Cards \ {j}, Has(i)'
        PROVE  Booked(i)' /\ card'[i].at # NoTime /\ seat'[card'[i].seat].status # "none"
    BY <1>2, <2>1 DEF Links, Has, Booked
  <2>2. Booked(j)' /\ card'[j].at # NoTime /\ seat'[card'[j].seat].status # "none"
    BY <1>1 DEF Booked
  <2> QED
    BY <2>1, <2>2
<1>4. \A i, k \in Cards : Has(i)' /\ card'[i].seat = card'[k].seat => i = k
  BY <1>2 DEF Links, Has
<1>5. \A a \in Seats : seat'[a].asked # NoTime =>
         seat'[a].status # "none" /\ \A i \in Cards : card'[i].seat # a
  BY DEF Links
<1>6. ASSUME BegunDays, NEW i \in Cards, NEW k \in Cards, Has(i)', Has(k)',
             card'[i].at.day = card'[k].at.day, i # k
      PROVE  card'[i].squeezed \/ card'[k].squeezed
  <2>1. \A m \in Cards \ {j} : Has(m)' => card'[m] = card[m] /\ Has(m)
    BY DEF Has
  <2>2. CASE i # j /\ k # j
    BY <1>6, <2>1, <2>2 DEF Links
  <2>3. CASE card'[j].squeezed /\ j \in {i, k}
    BY <2>3
  <2>4. CASE ApartFrom(NoCard, t.day)
    <3>1. \A m \in Cards \ {j} : Has(m)' => card'[m].at.day # t.day
      BY <1>1, <2>1, <2>4 DEF ApartFrom
    <3> QED
      BY <1>6, <2>2, <3>1
  <2> QED
    BY <2>2, <2>3, <2>4
<1> QED
  BY <1>3, <1>4, <1>5, <1>6 DEF Links

LEMMA FreeRows ==
    /\ FreeCards # {} => Min(FreeCards) \in Cards /\ card[Min(FreeCards)].status = "none"
    /\ FreeSeats # {} => Min(FreeSeats) \in Seats /\ seat[Min(FreeSeats)].status = "none"
<1>1. FreeCards \in SUBSET Nat /\ FreeSeats \in SUBSET Nat
  BY DiaryAssumption DEF FreeCards, FreeSeats
<1>2. FreeCards # {} => Min(FreeCards) \in FreeCards
  BY <1>1, MinLeast
<1>3. FreeSeats # {} => Min(FreeSeats) \in FreeSeats
  BY <1>1, MinLeast
<1> QED
  BY <1>2, <1>3 DEF FreeCards, FreeSeats

LEMMA SerialCalls ==
    ASSUME DiaryInv, Serial, Calm', NEW s \in Staff, StaffCalls(s)
    PROVE  Serial'
<1>0. card \in [Cards -> CardRows] /\ seat \in [Seats -> SeatRows] /\ Links
      /\ NoSeat \notin Seats /\ NoTime \notin Times /\ IdleStaff \in StaffRows
  BY Tables, IdleWellFormed, DiaryAssumption DEF Serial, Times, WellFormed
<1>1. ASSUME UNCHANGED <<card, seat>> PROVE Links'
  BY <1>0, <1>1 DEF Links, Has, Booked
<1>2. ASSUME NEW b, NEW d, ~DayTaken(b, d), NEW i \in Cards, Has(i), card[i].seat # b
      PROVE  card[i].at.day # d
  BY <1>0, <1>2 DEF DayTaken, Links
<1>3. ASSUME NEW t \in Times, Create(s, t) PROVE Serial'
  <2>1. PICK row : row = [IdleStaff EXCEPT !.pc = "create", !.at = t]
    OBVIOUS
  <2>2. row.pc = "create" /\ row.at = t
    BY <2>1 DEF IdleStaff
  <2>3. Call(s, row) /\ UNCHANGED <<card, seat>> /\ ~DayTaken(NoSeat, t.day)
    BY <1>3, <2>1 DEF Create
  <2>4. ApartFrom(NoCard, t.day)'
    BY <1>2, <2>3 DEF ApartFrom, Has
  <2>5. Plan(row)'
    BY <2>2, <2>4 DEF Plan, SwapSteps
  <2> QED
    BY <1>1, <2>3, <2>5, SerialArrives
<1>4. ASSUME NEW j \in Cards, NEW t \in Times, Move(s, j, t) PROVE Serial'
  <2>1. PICK row : row = [IdleStaff EXCEPT !.pc = "moveCard", !.card = j, !.at = t, !.seat = card[j].seat]
    OBVIOUS
  <2>2. row.pc = "moveCard" /\ row.at = t /\ row.card = j /\ row.seat = card[j].seat
    BY <2>1 DEF IdleStaff
  <2>3. Call(s, row) /\ UNCHANGED <<card, seat>> /\ ~DayTaken(card[j].seat, t.day)
    BY <1>4, <2>1 DEF Move
  <2>4. ApartFrom(j, t.day)'
    <3>1. \A i \in Cards \ {j} : Has(i) => card[i].seat # card[j].seat
      BY <1>0 DEF Links
    <3> QED
      BY <1>2, <2>3, <3>1 DEF ApartFrom, Has
  <2>5. Plan(row)'
    BY <2>2, <2>3, <2>4 DEF Plan, SwapSteps
  <2> QED
    BY <1>1, <2>3, <2>5, SerialArrives
<1>5. ASSUME NEW i \in Cards, NEW j \in Cards, Swap(s, i, j) PROVE Serial'
  <2> DEFINE a == card[i]
             b == card[j]
  <2>1. PICK row : row = [IdleStaff EXCEPT !.pc = "swapCancel", !.card = i, !.other = j,
                                      !.seat = a.seat, !.at = a.at,
                                      !.otherSeat = b.seat, !.otherAt = b.at]
    OBVIOUS
  <2>2. Call(s, row) /\ UNCHANGED <<card, seat>> /\ i # j
    BY <1>5, <2>1 DEF Swap
  <2>3. /\ row.pc = "swapCancel" /\ row.card = i /\ row.other = j /\ row.seat = a.seat
        /\ row.at = a.at /\ row.otherSeat = b.seat /\ row.otherAt = b.at
    BY <2>1 DEF IdleStaff
  <2>4. Plan(row)'
    BY <2>2, <2>3 DEF Plan, SwapSteps
  <2> QED
    BY <1>1, <2>2, <2>4, SerialArrives
<1>6. ASSUME NEW j \in Cards, NEW t \in Times, FollowUp(s, j, t) PROVE Serial'
  <2> DEFINE root == IF card[j].root = NoCard THEN j ELSE card[j].root
  <2>1. PICK row : row = [IdleStaff EXCEPT !.pc = "followSeat", !.card = j, !.at = t, !.root = root]
    OBVIOUS
  <2>2. Call(s, row) /\ UNCHANGED <<card, seat>> /\ ~DayTaken(NoSeat, t.day)
    BY <1>6, <2>1 DEF FollowUp
  <2> HIDE DEF root
  <2>3. row.pc = "followSeat" /\ row.at = t
    BY <2>1 DEF IdleStaff
  <2>4. ApartFrom(NoCard, t.day)'
    BY <1>2, <2>2 DEF ApartFrom, Has
  <2>5. Plan(row)'
    BY <2>3, <2>4 DEF Plan, SwapSteps
  <2> QED
    BY <1>1, <2>2, <2>5, SerialArrives
<1>7. ASSUME NEW j \in Cards, CancelSeat(s, j) PROVE Serial'
  <2>1. PICK row : row = [IdleStaff EXCEPT !.pc = "cancelCard", !.card = j]
    OBVIOUS
  <2>2. Call(s, row) /\ UNCHANGED card
    BY <1>7, <2>1 DEF CancelSeat
  <2>3. row.pc = "cancelCard"
    BY <2>1 DEF IdleStaff
  <2>4. BookingsStay
    <3>1. seat' = [b \in Seats |-> IF b = card[j].seat THEN [seat[b] EXCEPT !.status = "cancelled"]
                                   ELSE seat[b]]
      BY <1>7 DEF CancelSeat
    <3> QED
      BY <1>0, <3>1 DEF SeatRows, BookingsStay
  <2>5. Plan(row)'
    BY <2>3 DEF Plan, SwapSteps
  <2> QED
    BY <1>0, <2>2, <2>4, <2>5, SeatsKept, SerialArrives
<1>8. ASSUME NEW j \in Cards, NEW st \in {"planned", "done", "cancelled"}, SetSession(s, j, st)
      PROVE  Serial'
  <2>1. PICK row : row = IF card[j].seat = NoSeat THEN IdleStaff
                    ELSE [IdleStaff EXCEPT !.pc = "sessionSeat", !.seat = card[j].seat, !.session = st]
    OBVIOUS
  <2>2. Call(s, row) /\ UNCHANGED seat /\ card' = [card EXCEPT ![j].session = st]
    BY <1>8, <2>1 DEF SetSession
  <2>3. row.pc \in {"idle", "sessionSeat"}
    BY <2>1 DEF IdleStaff
  <2>4. \A i \in Cards : card'[i].seat = card[i].seat /\ card'[i].at = card[i].at
                         /\ card'[i].squeezed = card[i].squeezed /\ card'[i].status = card[i].status
    BY <1>0, <2>2 DEF CardRows
  <2>5. Links'
    BY <1>0, <2>2, <2>4, LinksStay DEF Links
  <2>6. Plan(row)'
    BY <2>3 DEF Plan, SwapSteps
  <2> QED
    BY <2>2, <2>5, <2>6, SerialArrives
<1>9. CASE ClearSeats(s)
  <2>1. PICK row : row = [IdleStaff EXCEPT !.pc = "clearLinks"]
    OBVIOUS
  <2>2. Call(s, row) /\ UNCHANGED card
    BY <1>9, <2>1 DEF ClearSeats
  <2>3. row.pc = "clearLinks"
    BY <2>1 DEF IdleStaff
  <2>4. BookingsStay
    <3>1. seat' = [b \in Seats |-> IF Live(b) THEN [seat[b] EXCEPT !.status = "cancelled"]
                                   ELSE seat[b]]
      BY <1>9 DEF ClearSeats
    <3> QED
      BY <1>0, <3>1 DEF SeatRows, BookingsStay
  <2>5. Plan(row)'
    BY <2>3 DEF Plan, SwapSteps
  <2> QED
    BY <1>0, <2>2, <2>4, <2>5, SeatsKept, SerialArrives
<1>10. ASSUME NEW b \in Seats, Approve(s, b) PROVE Serial'
  <2> DEFINE j == Min(FreeCards)
             t == seat[b].asked
             new == [NoCardRow EXCEPT !.status = "booked", !.seat = b, !.at = t, !.index = 1,
                                      !.squeezed = TRUE]
  <2>1. PICK row : row = [IdleStaff EXCEPT !.pc = "approveSeat", !.seat = b, !.at = t]
    OBVIOUS
  <2>2. /\ Call(s, row) /\ card' = [card EXCEPT ![j] = new] /\ t # NoTime
        /\ seat' = [seat EXCEPT ![b].asked = NoTime] /\ j \in Cards
    BY <1>10, <2>1, FreeRows DEF Approve
  <2>3. row.pc = "approveSeat"
    BY <2>1 DEF IdleStaff
  <2>4. /\ t \in Times /\ seat[b].status # "none" /\ \A i \in Cards : card[i].seat # b
        /\ seat'[b].status # "none" /\ seat'[b].asked = NoTime
        /\ \A a \in Seats \ {b} : seat'[a] = seat[a]
    BY <1>0, <2>2 DEF Links, SeatRows
  <2>5. new.status = "booked" /\ new.seat = b /\ new.at = t /\ new.squeezed
    BY DEF NoCardRow
  <2> HIDE DEF new, t, j
  <2>6. card'[j] = new /\ \A i \in Cards \ {j} : card'[i] = card[i]
    BY <1>0, <2>2
  <2>7. Links'
    BY <1>0, <2>2, <2>4, <2>5, <2>6, LinksGrow
  <2>8. Plan(row)'
    BY <2>3 DEF Plan, SwapSteps
  <2> QED
    BY <2>2, <2>7, <2>8, SerialArrives
<1>11. ASSUME NEW b \in Seats, NEW t \in Times, Reschedule(s, b, t) PROVE Serial'
  <2>1. PICK row : row = [IdleStaff EXCEPT !.pc = "rescheduleCard", !.seat = b, !.at = t]
    OBVIOUS
  <2>2. Call(s, row) /\ UNCHANGED card /\ seat' = [seat EXCEPT ![b].at = t]
    BY <1>11, <2>1 DEF Reschedule
  <2>3. row.pc = "rescheduleCard"
    BY <2>1 DEF IdleStaff
  <2>4. BookingsStay
    BY <1>0, <2>2 DEF BookingsStay, SeatRows
  <2>5. Plan(row)'
    BY <2>3 DEF Plan, SwapSteps
  <2> QED
    BY <1>0, <2>2, <2>4, <2>5, SeatsKept, SerialArrives
<1> QED
  BY <1>3, <1>4, <1>5, <1>6, <1>7, <1>8, <1>9, <1>10, <1>11 DEF StaffCalls

LEMMA SerialCreate ==
    ASSUME DiaryInv, Serial, NEW s \in Staff, CreateInsert(s)
    PROVE  Serial'
<1> DEFINE t == staff[s].at
           j == Min(FreeCards)
           b == Min(FreeSeats)
           row == [NoCardRow EXCEPT !.status = "booked", !.seat = b, !.at = t, !.index = 1]
<1>1. staff[s].pc = "create" /\ t \in Times /\ StaffDone(s) /\ ~StaffAt(s, "idle") /\ Links
  BY Knows DEF CreateInsert, StaffAt, WellFormed, TimeSteps, Serial
<1>2. j \in Cards /\ b \in Seats /\ card[j].status = "none" /\ seat[b].status = "none"
  BY FreeRows DEF CreateInsert
<1>3. CASE UNCHANGED <<card, seat>>
  BY <1>1, <1>3, SeatsKept, SerialRests DEF BookingsStay
<1>4. CASE seat' = [seat EXCEPT ![b] = ConfirmedAt(t)] /\ card' = [card EXCEPT ![j] = row]
  <2>1. ApartFrom(NoCard, t.day)
    BY <1>1 DEF Serial, Plan
  <2>2. \A i \in Cards : card[i].seat # b
    BY <1>2, DiaryAssumption DEF Serial, Links, Has
  <2>3. row.status = "booked" /\ row.seat = b /\ row.at = t
    BY DEF NoCardRow
  <2> HIDE DEF j, b, t, row
  <2>4. /\ card'[j] = row /\ \A i \in Cards \ {j} : card'[i] = card[i]
        /\ seat'[b].status # "none" /\ seat'[b].asked = NoTime
        /\ \A a \in Seats \ {b} : seat'[a] = seat[a]
    BY <1>1, <1>2, <1>4, Tables, ConfirmedType
  <2>5. Links'
    BY <1>1, <1>2, <2>1, <2>2, <2>3, <2>4, LinksGrow
  <2> QED
    BY <1>1, <2>5, SerialRests
<1> QED
  BY <1>3, <1>4 DEF CreateInsert

LEMMA SerialMove ==
    ASSUME DiaryInv, Serial, NEW s \in Staff, MoveCard(s) \/ MoveSeat(s)
    PROVE  Serial'
<1>1. CASE MoveCard(s)
  <2> DEFINE j == staff[s].card
             t == staff[s].at
  <2>1. /\ staff[s].pc = "moveCard" /\ j \in Cards /\ t \in Times /\ ~StaffAt(s, "idle") /\ Links
        /\ staff[s] \in StaffRows
    BY <1>1, Knows DEF MoveCard, StaffAt, WellFormed, TimeSteps, Serial
  <2>2. card' = [card EXCEPT ![j].at = t, ![j].squeezed = FALSE] /\ UNCHANGED seat
    BY <1>1 DEF MoveCard
  <2>3. ApartFrom(j, t.day) /\ card[j].seat = staff[s].seat
    BY <2>1 DEF Serial, Plan
  <2>4. NoTime \notin Times
    BY DiaryAssumption DEF Times
  <2> HIDE DEF j, t
  <2>5. /\ card'[j].at = t /\ card'[j].seat = card[j].seat /\ card'[j].status = card[j].status
        /\ \A i \in Cards \ {j} : card'[i] = card[i]
        /\ seat' = seat
    BY <2>1, <2>2, Tables DEF CardRows
  <2>6. Links'
    <3>1. \A i \in Cards : card'[i].seat = card[i].seat /\ card'[i].status = card[i].status
      BY <2>5
    <3>2. BegunDays => \A i, k \in Cards : Has(i)' /\ Has(k)' /\ card'[i].at.day = card'[k].at.day
                           => i = k \/ card'[i].squeezed \/ card'[k].squeezed
      BY <2>1, <2>3, <2>5 DEF Links, Has, ApartFrom
    <3>3. \A i \in Cards : Has(i)' => Booked(i)' /\ card'[i].at # NoTime /\ seat'[card'[i].seat].status # "none"
      BY <2>1, <2>4, <2>5, <3>1 DEF Links, Has, Booked
    <3>4. \A i, k \in Cards : Has(i)' /\ card'[i].seat = card'[k].seat => i = k
      BY <2>1, <3>1 DEF Links, Has
    <3>5. \A b \in Seats : seat'[b].asked # NoTime =>
             seat'[b].status # "none" /\ \A i \in Cards : card'[i].seat # b
      BY <2>1, <2>5, <3>1 DEF Links
    <3> QED
      BY <3>2, <3>3, <3>4, <3>5 DEF Links
  <2>7. CASE StaffDone(s)
    BY <2>1, <2>6, <2>7, SerialRests
  <2>8. CASE StaffGoes(s, "moveSeat")
    <3>1. PICK row : row = [staff[s] EXCEPT !.pc = "moveSeat"]
      OBVIOUS
    <3>2. /\ row.pc = "moveSeat" /\ row.card = j /\ row.at = t /\ row.seat = staff[s].seat
          /\ StaffBecomes(s, row)
      BY <2>1, <2>8, <3>1 DEF StaffRows, StaffGoes, j, t
    <3>3. Plan(row)'
      BY <2>1, <2>3, <2>5, <3>2 DEF Plan, SwapSteps
    <3> QED
      BY <2>1, <2>6, <3>2, <3>3, SerialGoes
  <2> QED
    BY <1>1, <2>7, <2>8 DEF MoveCard
<1>2. CASE MoveSeat(s)
  <2> DEFINE b == staff[s].seat
  <2>1. ~StaffAt(s, "idle") /\ StaffDone(s) /\ UNCHANGED card /\ Links
    BY <1>2 DEF MoveSeat, StaffAt, Serial
  <2>2. seat' = seat \/ seat' = [seat EXCEPT ![b].at = staff[s].at]
    BY <1>2 DEF MoveSeat
  <2>3. BookingsStay
    BY <2>2, Tables DEF SeatRows, BookingsStay
  <2> QED
    BY <2>1, <2>3, SeatsKept, SerialRests
<1> QED
  BY <1>1, <1>2

LEMMA SwapPlan ==
    ASSUME NEW k, Plan(k), k.pc \in SwapSteps, UNCHANGED card, NEW row, row.pc \in SwapSteps,
           row.card = k.card, row.other = k.other, row.seat = k.seat, row.at = k.at,
           row.otherSeat = k.otherSeat, row.otherAt = k.otherAt
    PROVE  Plan(row)'
BY DEF Plan, SwapSteps

\* The statements of an exchange on the bookings.
LEMMA SerialSwapSeats ==
    ASSUME DiaryInv, Serial, NEW s \in Staff, staff[s].pc \in SwapSteps, UNCHANGED card,
           BookingsStay,
           StaffDone(s) \/ \E pc \in SwapSteps : StaffGoes(s, pc)
    PROVE  Serial'
<1>1. Links' /\ ~StaffAt(s, "idle")
  BY SeatsKept DEF Serial, SwapSteps, StaffAt
<1>2. CASE StaffDone(s)
  BY <1>1, <1>2, SerialRests
<1>3. ASSUME NEW pc \in SwapSteps, StaffGoes(s, pc) PROVE Serial'
  <2>1. PICK row : row = [staff[s] EXCEPT !.pc = pc]
    OBVIOUS
  <2>2. PICK k : k = staff[s]
    OBVIOUS
  <2>3. StaffBecomes(s, row) /\ k \in StaffRows /\ row = [k EXCEPT !.pc = pc]
    BY <1>3, <2>1, <2>2, Knows DEF StaffGoes
  <2>4. /\ row.pc = pc /\ row.card = k.card /\ row.other = k.other /\ row.seat = k.seat
        /\ row.at = k.at /\ row.otherSeat = k.otherSeat /\ row.otherAt = k.otherAt
    BY <2>3 DEF StaffRows
  <2>5. Plan(k)
    BY <2>2 DEF Serial
  <2>6. Plan(row)'
    BY <2>2, <2>4, <2>5, SwapPlan
  <2> QED
    BY <1>1, <2>3, <2>6, SerialGoes
<1> QED
  BY <1>2, <1>3

\* What a statement on both bookings leaves.
LEMMA SwapWriteKeeps ==
    ASSUME DiaryInv, NEW s \in Staff, NEW f, NEW status \in {"", "confirmed"}, SwapWrite(s, f, status)
    PROVE  BookingsStay
<1> SUFFICES ASSUME NEW b \in Seats
             PROVE  /\ seat[b].status # "none" => seat'[b].status # "none"
                    /\ seat'[b].asked = seat[b].asked
  BY DEF BookingsStay
<1>1. CASE b \in SwapSeats(s)
  <2>1. seat'[b] = [seat[b] EXCEPT !.at = f[b], !.status = IF status = "" THEN @ ELSE status]
    BY <1>1 DEF SwapWrite
  <2>2. seat[b] \in SeatRows
    BY Tables
  <2> QED
    BY <2>1, <2>2 DEF SeatRows
<1>2. CASE b \notin SwapSeats(s)
  BY <1>2 DEF SwapWrite
<1> QED
  BY <1>1, <1>2

LEMMA SerialSwap ==
    ASSUME DiaryInv, Serial, NEW s \in Staff,
           SwapCancel(s) \/ SwapMove(s) \/ SwapConfirm(s) \/ SwapRestore(s)
    PROVE  Serial'
<1>1. staff[s].pc \in SwapSteps /\ UNCHANGED card
  BY DEF SwapCancel, SwapMove, SwapConfirm, SwapRestore, StaffAt, SwapSteps
<1>2. StaffDone(s) \/ \E pc \in SwapSteps : StaffGoes(s, pc)
  BY DEF SwapCancel, SwapMove, SwapConfirm, SwapRestore, SwapSteps
<1>3. ASSUME SwapCancel(s), NEW b \in Seats
      PROVE  /\ seat'[b].status = "cancelled" \/ seat'[b] = seat[b]
             /\ seat'[b].asked = seat[b].asked
  <2>1. seat'[b] = IF b \in SwapSeats(s) THEN [seat[b] EXCEPT !.status = "cancelled"] ELSE seat[b]
    BY <1>3 DEF SwapCancel
  <2> QED
    BY <2>1, Tables DEF SeatRows
<1>4. \/ SwapCancel(s) \/ UNCHANGED seat
      \/ SwapWrite(s, SwapTimes(s), "") \/ SwapWrite(s, NowTimes(s), "confirmed")
      \/ SwapWrite(s, OldTimes(s), "confirmed")
  BY DEF SwapMove, SwapConfirm, SwapRestore
<1>5. BookingsStay
  <2>1. CASE SwapCancel(s)
    BY <1>3, <2>1 DEF BookingsStay
  <2>2. CASE UNCHANGED seat
    BY <2>2 DEF BookingsStay
  <2>3. CASE SwapWrite(s, SwapTimes(s), "")
    BY <2>3, SwapWriteKeeps
  <2>4. CASE SwapWrite(s, NowTimes(s), "confirmed")
    BY <2>4, SwapWriteKeeps
  <2>5. CASE SwapWrite(s, OldTimes(s), "confirmed")
    BY <2>5, SwapWriteKeeps
  <2> QED
    BY <1>4, <2>1, <2>2, <2>3, <2>4, <2>5
<1> QED
  BY <1>1, <1>2, <1>5, SerialSwapSeats

\* What the last statement of an exchange writes.
LEMMA SwapCardsWrite ==
    ASSUME DiaryInv, Serial, NEW s \in Staff, SwapCards(s)
    PROVE  \E i, j \in Cards :
              /\ i = staff[s].card /\ j = staff[s].other /\ i # j
              /\ staff[s].pc = "swapCards" /\ StaffDone(s) /\ UNCHANGED <<seat, calls, odd>>
              /\ card[i].seat = staff[s].seat /\ card[i].at = staff[s].at /\ card[i].at \in Times
              /\ card[j].seat = staff[s].otherSeat /\ card[j].at = staff[s].otherAt /\ card[j].at \in Times
              /\ Has(i) /\ Has(j)
              /\ card'[i].at = OnDay(card[i].at, card[j].at.day)
              /\ card'[j].at = OnDay(card[j].at, card[i].at.day)
              /\ card'[i].squeezed = card[j].squeezed /\ card'[j].squeezed = card[i].squeezed
              /\ \A m \in Cards : /\ card'[m].seat = card[m].seat /\ card'[m].status = card[m].status
                                  /\ card'[m].session = card[m].session
                                  /\ card'[m].root = card[m].root /\ card'[m].index = card[m].index
              /\ \A m \in Cards \ {i, j} : card'[m] = card[m]
<1> DEFINE i == staff[s].card
           j == staff[s].other
<1>1. staff[s].pc = "swapCards" /\ StaffDone(s) /\ UNCHANGED <<seat, calls, odd>>
      /\ "swapCards" \in SwapSteps
  BY DEF SwapCards, StaffAt, Even, SwapSteps
<1>2. /\ i \in Cards /\ j \in Cards /\ i # j
      /\ card[i].seat = staff[s].seat /\ card[j].seat = staff[s].otherSeat
      /\ card[i].at = staff[s].at /\ card[j].at = staff[s].otherAt
  BY <1>1 DEF Serial, Plan
<1>3. staff[s].seat \in Seats /\ staff[s].otherSeat \in Seats /\ staff[s].at \in Times /\ staff[s].otherAt \in Times
  BY <1>1, Knows DEF WellFormed, TimeSteps, SeatSteps
<1>4. Has(i) /\ Has(j)
  BY <1>2, <1>3, DiaryAssumption DEF Has
<1>5. ASSUME NEW m \in Cards, m \notin {i, j} PROVE card'[m] = card[m]
  BY <1>5 DEF SwapCards
<1>6. ASSUME NEW m \in {i, j}
      PROVE  /\ card'[m].at = SwapTime(s, m = j)
             /\ card'[m].squeezed = card[IF m = j THEN i ELSE j].squeezed
             /\ card'[m].seat = card[m].seat /\ card'[m].status = card[m].status
             /\ card'[m].session = card[m].session
             /\ card'[m].root = card[m].root /\ card'[m].index = card[m].index
  <2> DEFINE t == SwapTime(s, m = j)
             q == card[IF m = j THEN i ELSE j].squeezed
  <2>1. card'[m] = [card[m] EXCEPT !.at = t, !.squeezed = q]
    BY <1>2 DEF SwapCards, SwapCardAt
  <2>2. card[m] \in CardRows
    BY <1>2, Tables
  <2> HIDE DEF t, q
  <2>3. /\ card'[m].at = t /\ card'[m].squeezed = q /\ card'[m].seat = card[m].seat /\ card'[m].status = card[m].status
        /\ card'[m].session = card[m].session
        /\ card'[m].root = card[m].root /\ card'[m].index = card[m].index
    BY <2>1, <2>2 DEF CardRows
  <2> QED
    BY <2>3 DEF t, q
<1>7. /\ card'[i].at = OnDay(card[i].at, card[j].at.day) /\ card'[j].at = OnDay(card[j].at, card[i].at.day)
      /\ card'[i].squeezed = card[j].squeezed /\ card'[j].squeezed = card[i].squeezed
  BY <1>2, <1>6 DEF SwapTime
<1>8. \A m \in Cards : /\ card'[m].seat = card[m].seat /\ card'[m].status = card[m].status
                       /\ card'[m].session = card[m].session
                       /\ card'[m].root = card[m].root /\ card'[m].index = card[m].index
  BY <1>5, <1>6
<1> HIDE DEF i, j
<1>9. \A m \in Cards \ {i, j} : card'[m] = card[m]
  BY <1>5
<1> QED
  BY <1>1, <1>2, <1>3, <1>4, <1>7, <1>8, <1>9 DEF i, j

LEMMA SerialSwapCards ==
    ASSUME DiaryInv, Serial, NEW s \in Staff, SwapCards(s)
    PROVE  Serial'
<1>1. PICK i, j \in Cards :
         /\ i # j /\ staff[s].pc = "swapCards" /\ StaffDone(s) /\ UNCHANGED seat
         /\ card[i].at \in Times /\ card[j].at \in Times /\ Has(i) /\ Has(j)
         /\ card'[i].at = OnDay(card[i].at, card[j].at.day)
         /\ card'[j].at = OnDay(card[j].at, card[i].at.day)
         /\ card'[i].squeezed = card[j].squeezed /\ card'[j].squeezed = card[i].squeezed
         /\ \A m \in Cards : card'[m].seat = card[m].seat /\ card'[m].status = card[m].status
         /\ \A m \in Cards \ {i, j} : card'[m] = card[m]
  BY SwapCardsWrite
<1>2. /\ card'[i].at \in Times /\ card'[j].at \in Times
      /\ card'[i].at.day = card[j].at.day /\ card'[j].at.day = card[i].at.day
  BY <1>1, OnDayType DEF OnDay, Times
<1>3. NoTime \notin Times /\ Links
  BY DiaryAssumption DEF Times, Serial
<1>4. \A m \in Cards : Has(m)' => Booked(m)' /\ card'[m].at # NoTime /\ seat'[card'[m].seat].status # "none"
  BY <1>1, <1>2, <1>3 DEF Links, Has, Booked
<1>5. \A m, n \in Cards : Has(m)' /\ card'[m].seat = card'[n].seat => m = n
  BY <1>1, <1>3 DEF Links, Has
<1> DEFINE from(m) == IF m = i THEN j ELSE IF m = j THEN i ELSE m
<1>6. ASSUME BegunDays, NEW m \in Cards, NEW n \in Cards, Has(m)', Has(n)', card'[m].at.day = card'[n].at.day
      PROVE  m = n \/ card'[m].squeezed \/ card'[n].squeezed
  <2>1. \A a, b \in Cards : Has(a) /\ Has(b) /\ card[a].at.day = card[b].at.day
                             => a = b \/ card[a].squeezed \/ card[b].squeezed
    BY <1>3, <1>6 DEF Links
  <2>2. /\ from(m) \in Cards /\ from(n) \in Cards /\ Has(from(m)) /\ Has(from(n))
        /\ from(m) = from(n) => m = n
    BY <1>1, <1>6 DEF Has
  <2>3. \A a \in Cards : /\ card'[a].at.day = card[from(a)].at.day
                         /\ card'[a].squeezed = card[from(a)].squeezed
    BY <1>1, <1>2
  <2> HIDE DEF from
  <2>4. card[from(m)].at.day = card[from(n)].at.day
    BY <1>6, <2>3
  <2>5. from(m) = from(n) \/ card[from(m)].squeezed \/ card[from(n)].squeezed
    BY <2>1, <2>2, <2>4
  <2> QED
    BY <2>2, <2>3, <2>5
<1>7. \A b \in Seats : seat'[b].asked # NoTime =>
         seat'[b].status # "none" /\ \A m \in Cards : card'[m].seat # b
  BY <1>1, <1>3 DEF Links
<1>8. Links'
  BY <1>4, <1>5, <1>6, <1>7 DEF Links
<1> QED
  BY <1>1, <1>8, SerialRests DEF StaffAt

\* Cards that lose their booking.
LEMMA LinksShrink ==
    ASSUME Links, NoSeat \notin Seats,
           \A j \in Cards : card'[j].seat = NoSeat \/ card'[j] = card[j],
           \A b \in Seats : seat'[b].asked \in {seat[b].asked, NoTime} /\ seat'[b].status = seat[b].status,
           \A j \in Cards : Has(j) => card[j].seat \in Seats
    PROVE  Links'
BY DEF Links, Has, Booked

LEMMA SerialCancel ==
    ASSUME DiaryInv, Serial, NEW s \in Staff, CancelCard(s) \/ ClearLinks(s)
    PROVE  Serial'
<1>1. StaffDone(s) /\ ~StaffAt(s, "idle") /\ Links
  BY DEF CancelCard, ClearLinks, StaffAt, Serial
<1>2. ASSUME NEW j \in Cards PROVE card'[j].seat = NoSeat \/ card'[j] = card[j]
  <2>0. card[j] \in CardRows
    BY Tables
  <2>1. CASE CancelCard(s)
    <3> DEFINE i == staff[s].card
               st == IF card[i].status = "deleted" THEN card[i].status ELSE "rejected"
    <3>1. card' = [card EXCEPT ![i].status = st, ![i].seat = NoSeat, ![i].at = NoTime]
      BY <2>1 DEF CancelCard
    <3> HIDE DEF i, st
    <3>2. CASE i = j
      BY <2>0, <3>1, <3>2, Tables DEF CardRows
    <3>3. CASE i # j
      BY <3>1, <3>3, Tables
    <3> QED
      BY <3>2, <3>3
  <2>2. CASE ClearLinks(s)
    <3>1. card'[j] = [card[j] EXCEPT !.seat = NoSeat]
      BY <2>2 DEF ClearLinks
    <3> QED
      BY <2>0, <3>1 DEF CardRows
  <2> QED
    BY <2>1, <2>2
<1>3. \A b \in Seats : seat'[b].asked \in {seat[b].asked, NoTime} /\ seat'[b].status = seat[b].status
  BY Tables DEF CancelCard, ClearLinks, SeatRows
<1>4. NoSeat \notin Seats /\ \A j \in Cards : Has(j) => card[j].seat \in Seats
  BY Tables, DiaryAssumption DEF Has, CardRows
<1>5. Links'
  BY <1>1, <1>2, <1>3, <1>4, LinksShrink
<1> QED
  BY <1>1, <1>5, SerialRests

LEMMA SerialSession ==
    ASSUME DiaryInv, Serial, NEW s \in Staff, SessionSeat(s)
    PROVE  Serial'
<1> DEFINE b == staff[s].seat
<1>1. StaffDone(s) /\ ~StaffAt(s, "idle") /\ UNCHANGED card /\ Links
  BY DEF SessionSeat, StaffAt, Serial
<1>2. \/ seat' = seat
      \/ seat' = [seat EXCEPT ![b].status = "cancelled"]
      \/ seat' = [seat EXCEPT ![b].status = "confirmed"]
  BY DEF SessionSeat
<1>3. BookingsStay
  BY <1>2, Tables DEF SeatRows, BookingsStay
<1> QED
  BY <1>1, <1>3, SeatsKept, SerialRests

LEMMA SerialFollowSeat ==
    ASSUME DiaryInv, Serial, NEW s \in Staff, FollowSeat(s)
    PROVE  Serial'
<1> DEFINE b == Min(FreeSeats)
           t == staff[s].at
<1>1. staff[s].pc = "followSeat" /\ ~StaffAt(s, "idle") /\ UNCHANGED card /\ Links
      /\ staff[s] \in StaffRows /\ t \in Times
  BY Knows DEF FollowSeat, StaffAt, Serial, WellFormed, TimeSteps
<1>2. b \in Seats /\ seat[b].status = "none"
  BY FreeRows DEF FollowSeat
<1>3. CASE UNCHANGED seat /\ StaffDone(s)
  BY <1>1, <1>3, SeatsKept, SerialRests DEF BookingsStay
<1>4. CASE /\ seat' = [seat EXCEPT ![b] = ConfirmedAt(t)]
           /\ StaffBecomes(s, [staff[s] EXCEPT !.pc = "followCount", !.seat = b])
  <2>1. PICK row : row = [staff[s] EXCEPT !.pc = "followCount", !.seat = b]
    OBVIOUS
  <2>2. /\ row.pc = "followCount" /\ row.seat = b /\ row.at = t /\ StaffBecomes(s, row)
    BY <1>1, <1>4, <2>1 DEF StaffRows
  <2>3. ApartFrom(NoCard, t.day)
    BY <1>1 DEF Serial, Plan
  <2>4. \A i \in Cards : card[i].seat # b
    BY <1>2, DiaryAssumption DEF Serial, Links, Has
  <2> HIDE DEF b, t
  <2>5. seat'[b].status = "confirmed" /\ seat'[b].asked = NoTime /\ BookingsStay
    BY <1>1, <1>2, <1>4, Tables, ConfirmedType DEF BookingsStay
  <2>6. Plan(row)'
    BY <1>1, <2>2, <2>3, <2>4, <2>5 DEF Plan, SwapSteps, ApartFrom, Has
  <2>7. Links'
    BY <1>1, <2>5, SeatsKept
  <2> QED
    BY <1>1, <2>2, <2>6, <2>7, SerialGoes
<1> QED
  BY <1>3, <1>4 DEF FollowSeat

LEMMA SerialFollowCount ==
    ASSUME DiaryInv, Serial, NEW s \in Staff, FollowCount(s)
    PROVE  Serial'
<1>1. staff[s].pc = "followCount" /\ ~StaffAt(s, "idle") /\ UNCHANGED <<card, seat>> /\ Links
      /\ staff[s] \in StaffRows
  BY Knows DEF FollowCount, StaffAt, Serial
<1>2. PICK n : StaffBecomes(s, [staff[s] EXCEPT !.pc = "followCard", !.index = n])
  BY DEF FollowCount
<1>3. PICK row : row = [staff[s] EXCEPT !.pc = "followCard", !.index = n]
  OBVIOUS
<1>4. row.pc = "followCard" /\ row.seat = staff[s].seat /\ row.at = staff[s].at /\ StaffBecomes(s, row)
  BY <1>1, <1>2, <1>3 DEF StaffRows
<1>5. Plan(staff[s])
  BY DEF Serial
<1>6. Plan(row)'
  BY <1>1, <1>4, <1>5 DEF Plan, SwapSteps, ApartFrom, Has
<1> QED
  BY <1>1, <1>4, <1>6, SeatsKept, SerialGoes DEF BookingsStay

LEMMA SerialFollowCard ==
    ASSUME DiaryInv, Serial, Calm', NEW s \in Staff, FollowCard(s)
    PROVE  Serial'
<1> DEFINE j == Min(FreeCards)
           b == staff[s].seat
           t == staff[s].at
           new == [NoCardRow EXCEPT !.status = "booked", !.seat = b, !.at = t]
<1>1. /\ staff[s].pc = "followCard" /\ t \in Times /\ b \in Seats /\ ~StaffAt(s, "idle")
      /\ UNCHANGED seat /\ Links /\ staff[s] \in StaffRows
  BY Knows DEF FollowCard, StaffAt, WellFormed, TimeSteps, SeatSteps, Serial
<1>2. /\ ApartFrom(NoCard, t.day) /\ seat[b].status # "none" /\ seat[b].asked = NoTime
      /\ \A i \in Cards : card[i].seat # b
  BY <1>1 DEF Serial, Plan
<1>3. CASE FreeCards # {} /\ card' = [card EXCEPT ![j] = new]
           /\ StaffBecomes(s, [staff[s] EXCEPT !.pc = "followIndex", !.new = j])
  <2>1. j \in Cards /\ card[j].status = "none"
    BY <1>3, FreeRows
  <2>2. new.status = "booked" /\ new.seat = b /\ new.at = t
    BY DEF NoCardRow
  <2>3. PICK row : row = [staff[s] EXCEPT !.pc = "followIndex", !.new = j]
    OBVIOUS
  <2>4. row.pc = "followIndex" /\ StaffBecomes(s, row)
    BY <1>1, <1>3, <2>3 DEF StaffRows
  <2> HIDE DEF j, b, t, new
  <2>5. card'[j] = new /\ \A i \in Cards \ {j} : card'[i] = card[i]
    BY <1>3, <2>1, Tables
  <2>6. Links'
    BY <1>1, <1>2, <2>1, <2>2, <2>5, LinksGrow
  <2>7. Plan(row)'
    BY <2>4 DEF Plan, SwapSteps
  <2> QED
    BY <1>1, <2>4, <2>6, <2>7, SerialGoes
<1>4. CASE UNCHANGED card /\ StaffGoes(s, "followUndo")
  <2>1. PICK row : row = [staff[s] EXCEPT !.pc = "followUndo"]
    OBVIOUS
  <2>2. row.pc = "followUndo" /\ row.seat = b /\ StaffBecomes(s, row)
    BY <1>1, <1>4, <2>1 DEF StaffRows, StaffGoes
  <2>3. Plan(row)'
    BY <1>1, <1>2, <1>4, <2>2 DEF Plan, SwapSteps
  <2> QED
    BY <1>1, <1>4, <2>2, <2>3, SeatsKept, SerialGoes DEF BookingsStay
<1>5. CASE UNCHANGED card /\ StaffDone(s)
  BY <1>1, <1>5, SeatsKept, SerialRests DEF BookingsStay
<1> QED
  BY <1>3, <1>4, <1>5 DEF FollowCard

LEMMA SerialFollowUndo ==
    ASSUME DiaryInv, Serial, NEW s \in Staff, FollowUndo(s)
    PROVE  Serial'
<1>1. staff[s].pc = "followUndo" /\ ~StaffAt(s, "idle") /\ UNCHANGED card /\ Links /\ StaffDone(s)
      /\ seat' = [seat EXCEPT ![staff[s].seat] = NoSeatRow]
  BY DEF FollowUndo, StaffAt, Serial
<1>2. \A j \in Cards : card[j].seat # staff[s].seat
  BY <1>1 DEF Serial, Plan
<1>3. \A j \in Cards : Has(j) => seat'[card[j].seat].status # "none"
  <2>1. \A j \in Cards : Has(j) => card[j].seat \in Seats /\ seat[card[j].seat].status # "none"
    BY <1>1, Tables DEF Links, Has, CardRows
  <2> QED
    BY <1>1, <1>2, <2>1, Tables
<1>4. \A b \in Seats : seat'[b].asked # NoTime => seat[b].asked # NoTime /\ seat'[b].status # "none"
  BY <1>1, Tables, NoSeatType DEF Links
<1>5. Links'
  BY <1>1, <1>3, <1>4, LinksStay
<1> QED
  BY <1>1, <1>5, SerialRests

\* The two updates of a new session leave the columns of its appointment.
LEMMA FollowIndexWrite ==
    ASSUME DiaryInv, NEW s \in Staff, FollowIndex(s)
    PROVE  \E j \in Cards :
              /\ j = staff[s].new /\ staff[s].pc = "followIndex" /\ StaffDone(s)
              /\ UNCHANGED <<seat, calls, odd>>
              /\ \A i \in Cards \ {j} : card'[i] = card[i]
              /\ card'[j].seat = card[j].seat /\ card'[j].at = card[j].at /\ card'[j].status = card[j].status
              /\ card'[j].squeezed = card[j].squeezed
              /\ \/ /\ card'[j].root = staff[s].root /\ card'[j].index = staff[s].index
                    /\ card'[j].session = "planned"
                 \/ card'[j].root = card[j].root /\ card'[j].session = card[j].session
<1> DEFINE j == staff[s].new
           r == staff[s].root
           n == staff[s].index
<1>1. j \in Cards /\ staff[s].pc = "followIndex" /\ StaffDone(s) /\ UNCHANGED <<seat, calls, odd>>
  BY Knows DEF FollowIndex, StaffAt, WellFormed, Even
<1>2. \/ card' = [card EXCEPT ![j].root = r, ![j].index = n, ![j].session = "planned"]
      \/ card' = [card EXCEPT ![j].index = 1]
  BY DEF FollowIndex
<1>3. card[j] \in CardRows
  BY <1>1, Tables
<1> HIDE DEF j, r, n
<1>4. \A i \in Cards \ {j} : card'[i] = card[i]
  BY <1>2, Tables
<1>5. CASE card' = [card EXCEPT ![j].root = r, ![j].index = n, ![j].session = "planned"]
  <2>1. card'[j] = [card[j] EXCEPT !.root = r, !.index = n, !.session = "planned"]
    BY <1>1, <1>5, Tables
  <2>2. /\ card'[j].seat = card[j].seat /\ card'[j].at = card[j].at /\ card'[j].status = card[j].status
        /\ card'[j].squeezed = card[j].squeezed
        /\ card'[j].root = r /\ card'[j].index = n /\ card'[j].session = "planned"
    BY <1>3, <2>1 DEF CardRows
  <2> QED
    BY <1>1, <1>4, <2>2 DEF j, r, n
<1>6. CASE card' = [card EXCEPT ![j].index = 1]
  <2>1. card'[j] = [card[j] EXCEPT !.index = 1]
    BY <1>1, <1>6, Tables
  <2>2. /\ card'[j].seat = card[j].seat /\ card'[j].at = card[j].at /\ card'[j].status = card[j].status
        /\ card'[j].squeezed = card[j].squeezed
        /\ card'[j].root = card[j].root /\ card'[j].session = card[j].session
    BY <1>3, <2>1 DEF CardRows
  <2> QED
    BY <1>1, <1>4, <2>2 DEF j
<1> QED
  BY <1>2, <1>5, <1>6

LEMMA SerialFollowIndex ==
    ASSUME DiaryInv, Serial, NEW s \in Staff, FollowIndex(s)
    PROVE  Serial'
<1>1. PICK j \in Cards :
         /\ staff[s].pc = "followIndex" /\ StaffDone(s) /\ UNCHANGED seat
         /\ \A i \in Cards \ {j} : card'[i] = card[i]
         /\ card'[j].seat = card[j].seat /\ card'[j].at = card[j].at /\ card'[j].status = card[j].status
         /\ card'[j].squeezed = card[j].squeezed
  BY FollowIndexWrite
<1>2. \A i \in Cards : /\ card'[i].seat = card[i].seat /\ card'[i].at = card[i].at
                       /\ card'[i].status = card[i].status /\ card'[i].squeezed = card[i].squeezed
  BY <1>1
<1>3. Links'
  BY <1>1, <1>2, LinksStay DEF Serial, Links
<1> QED
  BY <1>1, <1>3, SerialRests DEF StaffAt

LEMMA SerialApproveSeat ==
    ASSUME DiaryInv, Serial, NEW s \in Staff, ApproveSeat(s)
    PROVE  Serial'
<1> DEFINE b == staff[s].seat
<1>1. StaffDone(s) /\ ~StaffAt(s, "idle") /\ UNCHANGED card /\ Links
  BY DEF ApproveSeat, StaffAt, Serial
<1>2. seat' = seat \/ seat' = [seat EXCEPT ![b].status = "confirmed"]
  BY DEF ApproveSeat
<1>3. BookingsStay
  BY <1>2, Tables DEF SeatRows, BookingsStay
<1> QED
  BY <1>1, <1>3, SeatsKept, SerialRests

\* What a reschedule writes on the card of its booking.
LEMMA RescheduleWrite ==
    ASSUME DiaryInv, NEW s \in Staff, RescheduleCard(s)
    PROVE  /\ staff[s].pc = "rescheduleCard" /\ StaffDone(s) /\ UNCHANGED <<seat, calls, odd>>
           /\ staff[s].at \in Times /\ staff[s].seat \in Seats
           /\ \A j \in Cards :
                 /\ card'[j].seat = card[j].seat /\ card'[j].status = card[j].status
                 /\ card'[j].session = card[j].session
                 /\ card'[j].root = card[j].root /\ card'[j].index = card[j].index
                 /\ \/ card'[j] = card[j] /\ ~(Booked(j) /\ card[j].seat = staff[s].seat)
                    \/ /\ Booked(j) /\ card[j].seat = staff[s].seat /\ card'[j].at = staff[s].at
                       /\ \/ card'[j].squeezed
                          \/ /\ card'[j].squeezed = card[j].squeezed
                             /\ card[j].at # NoTime /\ card[j].at.day = staff[s].at.day
<1> DEFINE k == staff[s]
           same(j) == card[j].at # NoTime /\ card[j].at.day = k.at.day
<1>1. /\ k.pc = "rescheduleCard" /\ StaffDone(s) /\ UNCHANGED <<seat, calls, odd>>
      /\ k.at \in Times /\ k.seat \in Seats
  BY Knows DEF RescheduleCard, StaffAt, Even, WellFormed, TimeSteps, SeatSteps
<1>2. ASSUME NEW j \in Cards, Booked(j), card[j].seat = k.seat
      PROVE  /\ card'[j].seat = card[j].seat /\ card'[j].status = card[j].status
             /\ card'[j].session = card[j].session
             /\ card'[j].root = card[j].root /\ card'[j].index = card[j].index
             /\ card'[j].at = k.at
             /\ card'[j].squeezed = (card[j].squeezed \/ ~same(j))
  <2>1. card'[j] = [card[j] EXCEPT !.at = k.at, !.squeezed = card[j].squeezed \/ ~same(j)]
    BY <1>2 DEF RescheduleCard
  <2>2. card[j] \in CardRows
    BY Tables
  <2> HIDE DEF same
  <2> QED
    BY <2>1, <2>2 DEF CardRows
<1>3. ASSUME NEW j \in Cards, ~(Booked(j) /\ card[j].seat = k.seat) PROVE card'[j] = card[j]
  BY <1>3 DEF RescheduleCard
<1>4. \A j \in Cards : card[j].squeezed \in BOOLEAN
  BY Tables DEF CardRows
<1> HIDE DEF k
<1> QED
  BY <1>1, <1>2, <1>3, <1>4 DEF k

LEMMA SerialRescheduleCard ==
    ASSUME DiaryInv, Serial, NEW s \in Staff, RescheduleCard(s)
    PROVE  Serial'
<1> DEFINE b == staff[s].seat
           t == staff[s].at
           moved(j) == /\ card[j].seat = b /\ card'[j].at = t
                       /\ \/ card'[j].squeezed
                          \/ /\ card'[j].squeezed = card[j].squeezed
                             /\ card[j].at # NoTime /\ card[j].at.day = t.day
<1>1. /\ staff[s].pc = "rescheduleCard" /\ StaffDone(s) /\ UNCHANGED seat /\ t \in Times
      /\ \A j \in Cards : card'[j].seat = card[j].seat /\ card'[j].status = card[j].status
      /\ \A j \in Cards : card'[j] = card[j] \/ moved(j)
  BY RescheduleWrite
<1> HIDE DEF b, t
<1>2. NoTime \notin Times /\ Links
  BY DiaryAssumption DEF Times, Serial
<1>3. \A j \in Cards : Has(j)' => Booked(j)' /\ card'[j].at # NoTime /\ seat'[card'[j].seat].status # "none"
  BY <1>1, <1>2 DEF Links, Has, Booked
<1>4. \A i, j \in Cards : Has(i)' /\ card'[i].seat = card'[j].seat => i = j
  BY <1>1, <1>2 DEF Links, Has
<1>5. \A c \in Seats : seat'[c].asked # NoTime =>
         seat'[c].status # "none" /\ \A j \in Cards : card'[j].seat # c
  BY <1>1, <1>2 DEF Links
<1>6. ASSUME BegunDays, NEW i \in Cards, NEW j \in Cards, Has(i)', Has(j)', i # j,
             card'[i].at.day = card'[j].at.day
      PROVE  card'[i].squeezed \/ card'[j].squeezed
  <2>1. ASSUME NEW m \in {i, j}
        PROVE  \/ card'[m].squeezed
               \/ card'[m].squeezed = card[m].squeezed /\ card'[m].at.day = card[m].at.day
    <3>1. CASE card'[m] = card[m]
      BY <3>1
    <3>2. CASE moved(m)
      BY <3>2
    <3> QED
      BY <1>1, <3>1, <3>2
  <2>2. Has(i) /\ Has(j)
    BY <1>1, <1>6 DEF Has
  <2>3. card[i].at.day = card[j].at.day => card[i].squeezed \/ card[j].squeezed
    BY <1>2, <1>6, <2>2 DEF Links
  <2> QED
    BY <1>6, <2>1, <2>3
<1>7. Links'
  BY <1>3, <1>4, <1>5, <1>6 DEF Links
<1> QED
  BY <1>1, <1>7, SerialRests DEF StaffAt

\* Steps that nobody of the staff takes.
LEMMA SerialOthers ==
    ASSUME DiaryInv, Serial, Calm', UNCHANGED staff, AtRest \/ UNCHANGED seat, Links',
           \A j \in Cards : card'[j].seat = card[j].seat /\ card'[j].at = card[j].at
    PROVE  Serial'
<1>1. OneBusy'
  BY DEF Serial, OneBusy, StaffAt
<1>2. ASSUME NEW s \in Staff PROVE Plan(staff[s])'
  <2>1. CASE AtRest
    BY <2>1 DEF AtRest, StaffAt, Plan, SwapSteps
  <2>2. CASE UNCHANGED seat
    <3>1. PICK k : k = staff[s]
      OBVIOUS
    <3>2. Plan(k)
      BY <3>1 DEF Serial
    <3>3. Plan(k)'
      BY <2>2, <3>2, DiaryAssumption DEF Plan, SwapSteps, ApartFrom, Has
    <3>4. staff'[s] = k
      BY <3>1
    <3> QED
      BY <3>3, <3>4 DEF Plan
  <2> QED
    BY <2>1, <2>2
<1> QED
  BY <1>1, <1>2 DEF Serial

LEMMA SerialMonth ==
    ASSUME DiaryInv, Serial, Calm', MonthLoad
    PROVE  Serial'
<1>1. UNCHANGED <<card, staff>> /\ AtRest
  BY DEF MonthLoad, Meets, Calm
<1>2. \A b \in Seats : seat'[b] = seat[b] \/ seat'[b] = [seat[b] EXCEPT !.at = StrayTimes[b]]
  BY DEF MonthLoad
<1>3. ASSUME NEW b \in Seats PROVE seat'[b].status = seat[b].status /\ seat'[b].asked = seat[b].asked
  <2>1. PICK t : seat'[b] = seat[b] \/ seat'[b] = [seat[b] EXCEPT !.at = t]
    BY <1>2
  <2>2. seat[b] \in SeatRows
    BY Tables
  <2> QED
    BY <2>1, <2>2 DEF SeatRows
<1>4. Links'
  BY <1>1, <1>3, SeatsKept DEF Serial, BookingsStay
<1> QED
  BY <1>1, <1>4, SerialOthers

LEMMA DeleteWrite ==
    ASSUME DiaryInv, NEW j \in Cards, DeleteCard(j)
    PROVE  /\ card[j].status = "rejected" /\ card'[j].status = "deleted"
           /\ card'[j].root = card[j].root /\ card'[j].index = card[j].index
           /\ \A i \in Cards : /\ card'[i].seat = card[i].seat /\ card'[i].at = card[i].at
                               /\ card'[i].session = card[i].session
                               /\ card'[i].squeezed = card[i].squeezed
           /\ \A i \in Cards \ {j} : card'[i] = card[i]
<1>1. card'[j] = [card[j] EXCEPT !.status = "deleted"] /\ card[j] \in CardRows
      /\ \A i \in Cards \ {j} : card'[i] = card[i]
  BY Tables DEF DeleteCard
<1>2. /\ card'[j].status = "deleted" /\ card'[j].seat = card[j].seat /\ card'[j].at = card[j].at
      /\ card'[j].session = card[j].session /\ card'[j].squeezed = card[j].squeezed
      /\ card'[j].root = card[j].root /\ card'[j].index = card[j].index
  BY <1>1 DEF CardRows
<1> QED
  BY <1>1, <1>2 DEF DeleteCard

LEMMA SerialDelete ==
    ASSUME DiaryInv, Serial, Calm', NEW j \in Cards, DeleteCard(j)
    PROVE  Serial'
<1>1. UNCHANGED <<seat, staff>>
  BY DEF DeleteCard
<1>2. \A i \in Cards : Has(i) => card'[i].status = card[i].status
  BY DeleteWrite DEF Serial, Links, Booked
<1>3. Links'
  BY <1>1, <1>2, DeleteWrite, LinksStay DEF Serial, Links
<1> QED
  BY <1>1, <1>3, DeleteWrite, SerialOthers

LEMMA SerialOther ==
    ASSUME DiaryInv, Serial, Calm', NEW t \in Times, OtherBooks(t)
    PROVE  Serial'
<1> DEFINE b == Min(FreeSeats)
           row == [ConfirmedAt(t) EXCEPT !.asked = t]
<1>1. UNCHANGED <<card, staff>> /\ AtRest /\ Links
  BY DEF OtherBooks, Meets, Calm, Serial
<1>2. seat' = [seat EXCEPT ![b] = row] /\ b \in Seats /\ seat[b].status = "none"
  BY FreeRows DEF OtherBooks
<1>3. row.status = "confirmed"
  BY ConfirmedType DEF SeatRows
<1>4. \A j \in Cards : card[j].seat # b
  BY <1>1, <1>2, DiaryAssumption DEF Links, Has
<1> HIDE DEF b, row
<1>5. seat'[b].status = "confirmed" /\ \A a \in Seats \ {b} : seat'[a] = seat[a]
  BY <1>2, <1>3, Tables
<1>6. \A a \in Seats : seat'[a].asked # NoTime =>
         seat'[a].status # "none" /\ \A j \in Cards : card[j].seat # a
  BY <1>1, <1>4, <1>5 DEF Links
<1>7. \A j \in Cards : Has(j) => seat'[card[j].seat].status # "none"
  BY <1>1, <1>4, <1>5, Tables DEF Links, Has, CardRows
<1>8. Links'
  BY <1>1, <1>6, <1>7 DEF Links, Has, Booked
<1> QED
  BY <1>1, <1>8, SerialOthers

LEMMA SerialStatus ==
    ASSUME DiaryInv, Serial, Calm', NEW b \in Seats,
           NEW status \in {"confirmed", "cancelled", "done", "no_show"}, SetBookingStatus(b, status)
    PROVE  Serial'
<1>1. UNCHANGED <<card, staff>> /\ AtRest /\ seat' = [seat EXCEPT ![b].status = status]
  BY DEF SetBookingStatus, Calm
<1>2. BookingsStay
  BY <1>1, Tables DEF SeatRows, BookingsStay
<1>3. Links'
  BY <1>1, <1>2, SeatsKept DEF Serial
<1> QED
  BY <1>1, <1>3, SerialOthers

LEMMA SerialInit == DiaryInit => SerialInv
<1> SUFFICES ASSUME DiaryInit PROVE Serial
  BY DEF SerialInv
<1> DEFINE Card(x) == [NoCardRow EXCEPT !.status = "booked", !.seat = x.seat, !.at = x.at, !.index = 1]
           Seat(x) == ConfirmedAt(x.at)
<1>1. \A x \in Begun : x.seat \in Seats /\ x.at \in Times
  BY DiaryAssumption DEF Times
<1>2. \A x \in Begun : Card(x).status = "booked" /\ Card(x).seat = x.seat /\ Card(x).at = x.at
  BY DEF NoCardRow
<1>3. \A j \in Cards : \/ card[j] = NoCardRow
                       \/ \E x \in Begun : x.card = j /\ card[j] = Card(x)
  BY DEF DiaryInit
<1>4. \A b \in Seats : /\ (\E x \in Begun : x.seat = b) => seat[b].status # "none"
                       /\ seat[b].asked = NoTime
  <2>1. \A x \in Begun : Seat(x).status # "none" /\ Seat(x).asked = NoTime
    BY <1>1, ConfirmedType
  <2> QED
    BY <2>1, NoSeatType DEF DiaryInit
<1>5. NoCardRow.seat = NoSeat
  BY DEF NoCardRow
<1> HIDE DEF Card
<1>6. \A j \in Cards : Has(j) => \E x \in Begun :
         /\ x.card = j /\ card[j].seat = x.seat /\ card[j].at = x.at /\ Booked(j)
         /\ card[j].at \in Times /\ seat[card[j].seat].status # "none"
  BY <1>1, <1>2, <1>3, <1>4, <1>5 DEF Has, Booked
<1>7. ASSUME NEW i \in Cards, NEW j \in Cards, Has(i),
             card[i].seat = card[j].seat \/ (BegunDays /\ Has(j) /\ card[i].at.day = card[j].at.day)
      PROVE  i = j
  <2>1. Has(j)
    BY <1>7 DEF Has
  <2>2. PICK x \in Begun : x.card = i /\ card[i].seat = x.seat /\ card[i].at = x.at
    BY <1>6, <1>7
  <2>3. PICK y \in Begun : y.card = j /\ card[j].seat = y.seat /\ card[j].at = y.at
    BY <1>6, <2>1
  <2>4. x = y
    BY <1>7, <2>2, <2>3, DiaryAssumption DEF BegunDays
  <2> QED
    BY <2>2, <2>3, <2>4
<1>8. \A j \in Cards : Has(j) => Booked(j) /\ card[j].at # NoTime /\ seat[card[j].seat].status # "none"
  BY <1>6, DiaryAssumption DEF Times
<1>9. Links
  BY <1>4, <1>7, <1>8 DEF Links
<1>10. \A s \in Staff : staff[s].pc = "idle"
  BY DEF DiaryInit, IdleStaff
<1>11. OneBusy /\ \A s \in Staff : Plan(staff[s])
  BY <1>10 DEF OneBusy, StaffAt, Plan, SwapSteps
<1> QED
  BY <1>9, <1>11 DEF Serial

LEMMA SerialSteps ==
    ASSUME DiaryInv, Serial, Calm', NEW s \in Staff, StaffStep(s)
    PROVE  Serial'
BY SerialCreate, SerialMove, SerialSwap, SerialSwapCards, SerialCancel, SerialSession,
   SerialFollowSeat, SerialFollowCount, SerialFollowCard, SerialFollowUndo, SerialFollowIndex,
   SerialApproveSeat, SerialRescheduleCard DEF StaffStep

LEMMA SerialKeeps == DiaryInv /\ SerialInv /\ [DiaryNext]_diaryVars => SerialInv'
<1> SUFFICES ASSUME DiaryInv, SerialInv, [DiaryNext]_diaryVars, Calm' PROVE Serial'
  BY DEF SerialInv
<1>1. CASE DiaryNext
  <2>1. Serial
    BY <1>1, OddGrows DEF Calm, SerialInv
  <2> QED
    BY <1>1, <2>1, SerialMonth, SerialDelete, SerialOther, SerialStatus, SerialCalls, SerialSteps, NoStop
       DEF DiaryNext
<1>2. CASE UNCHANGED diaryVars
  <2>1. Serial
    BY <1>2 DEF Calm, SerialInv, diaryVars
  <2> QED
    BY <1>2, <2>1 DEF diaryVars, Serial, OneBusy, StaffAt, Links, Plan, SwapSteps, Has, Booked, ApartFrom
<1> QED
  BY <1>1, <1>2

LEMMA SerialAlways == DiarySpec => []SerialInv
BY SerialInit, SerialKeeps, Always, PTL DEF DiarySpec

\* While requests are handled one at a time and to their end, a second appointment
\* comes to stand on a day only by an approved receipt or a reschedule, if no day
\* had two at the beginning: the day that a new job, a move or a session found
\* free is free when it writes, and an exchange gives each card the other's.
THEOREM OneADay ==
    ASSUME BegunDays
    PROVE  DiarySpec => []OneCardPerDay
<1>1. SerialInv => OneCardPerDay
  BY DEF SerialInv, Serial, Calm, Links, OneCardPerDay, Linked, Has, Booked
<1> QED
  BY <1>1, SerialAlways, PTL

-----------------------------------------------------------------------------
(* The cards and their bookings *)

\* Only the handler at work has cards in its hands.
LEMMA MatchBusy ==
    ASSUME OneBusy, Match, NEW s \in Staff, ~StaffAt(s, "idle")
    PROVE  Course(staff[s]) /\ \A j \in Cards : Suits(j) \/ Changing(staff[s], j)
<1>1. \A q \in Staff \ {s} : staff[q].pc = "idle"
  BY DEF OneBusy, StaffAt
<1>2. \A q \in Staff \ {s}, j \in Cards : ~Changing(staff[q], j)
  BY <1>1 DEF Changing, SwapSteps
<1> QED
  BY <1>2 DEF Match

LEMMA MatchRest ==
    ASSUME Match, AtRest
    PROVE  \A j \in Cards : Suits(j)
<1>1. \A q \in Staff, j \in Cards : ~Changing(staff[q], j)
  BY DEF AtRest, StaffAt, Changing, SwapSteps
<1> QED
  BY <1>1 DEF Match

LEMMA MatchGoes ==
    ASSUME DiaryInv, OneBusy, NEW s \in Staff, ~StaffAt(s, "idle"), NEW row, StaffBecomes(s, row),
           Course(row)', \A j \in Cards : Suits(j)' \/ Changing(row, j)'
    PROVE  Match'
<1>1. staff'[s] = row /\ \A q \in Staff \ {s} : staff'[q].pc = "idle"
  BY BusyStep
<1>2. \A q \in Staff : Course(staff[q])'
  BY <1>1 DEF Course, SwapSteps
<1>3. \A j \in Cards : Changing(row, j)' => Changing(staff[s], j)'
  BY <1>1 DEF Changing
<1> QED
  BY <1>2, <1>3 DEF Match

LEMMA MatchRests ==
    ASSUME DiaryInv, OneBusy, NEW s \in Staff, ~StaffAt(s, "idle"), StaffDone(s),
           \A j \in Cards : Suits(j)'
    PROVE  Match'
<1>1. PICK row : row = IdleStaff
  OBVIOUS
<1>2. StaffBecomes(s, row) /\ row.pc = "idle"
  BY <1>1 DEF StaffDone, IdleStaff
<1>3. Course(row)'
  BY <1>2 DEF Course, SwapSteps
<1> QED
  BY <1>2, <1>3, MatchGoes

LEMMA MatchArrives ==
    ASSUME DiaryInv, Calm', NEW s \in Staff, NEW row, Call(s, row),
           Course(row)', \A j \in Cards : Suits(j)' \/ Changing(row, j)'
    PROVE  Match'
<1>1. staff'[s] = row /\ \A q \in Staff \ {s} : staff'[q].pc = "idle"
  BY Arrives
<1>2. \A q \in Staff : Course(staff[q])'
  BY <1>1 DEF Course, SwapSteps
<1>3. \A j \in Cards : Changing(row, j)' => Changing(staff[s], j)'
  BY <1>1 DEF Changing
<1> QED
  BY <1>2, <1>3 DEF Match

\* A card and its booking that nobody touches.
LEMMA SuitsStay ==
    ASSUME odd \subseteq odd', NEW j \in Cards, Suits(j),
           card'[j].seat = card[j].seat, card'[j].at = card[j].at, card'[j].session = card[j].session,
           Has(j) => seat'[card[j].seat] = seat[card[j].seat]
    PROVE  Suits(j)'
BY DEF Suits, Has, Live

\* Cards whose booking a statement on one booking, b, leaves alone.
LEMMA SuitsElsewhere ==
    ASSUME DiaryInv, odd \subseteq odd', UNCHANGED card, NEW b, \A a \in Seats \ {b} : seat'[a] = seat[a],
           NEW j \in Cards, Suits(j), Has(j) => card[j].seat # b
    PROVE  Suits(j)'
<1>1. Has(j) => card[j].seat \in Seats
  BY Tables DEF Has, CardRows
<1> QED
  BY <1>1, SuitsStay

LEMMA MatchCalls ==
    ASSUME DiaryInv, Serial, Match, odd \subseteq odd', Calm', NEW s \in Staff, StaffCalls(s)
    PROVE  Match'
<1>0. card \in [Cards -> CardRows] /\ seat \in [Seats -> SeatRows] /\ Links
      /\ NoSeat \notin Seats
  BY Tables, DiaryAssumption DEF Serial
<1>1. \A j \in Cards : Suits(j)
  <2>1. PICK row : Call(s, row)
    BY DEF StaffCalls, Create, Move, Swap, FollowUp, CancelSeat, SetSession, ClearSeats,
           Approve, Reschedule
  <2> QED
    BY <2>1, Arrives, MatchRest
<1>2. ASSUME UNCHANGED <<card, seat>>, NEW row, Call(s, row),
             row.pc \in {"create", "moveCard", "swapCancel", "followSeat"}
      PROVE  Match'
  <2>1. Course(row)'
    BY <1>2 DEF Course
  <2>2. \A j \in Cards : Suits(j)'
    BY <1>1, <1>2, SuitsStay
  <2> QED
    BY <1>2, <2>1, <2>2, MatchArrives
<1>3. ASSUME NEW t \in Times, Create(s, t) PROVE Match'
  <2>1. PICK row : row = [IdleStaff EXCEPT !.pc = "create", !.at = t]
    OBVIOUS
  <2>2. row.pc = "create"
    BY <2>1 DEF IdleStaff
  <2>3. Call(s, row) /\ UNCHANGED <<card, seat>>
    BY <1>3, <2>1 DEF Create
  <2> QED
    BY <1>2, <2>2, <2>3
<1>4. ASSUME NEW j \in Cards, NEW t \in Times, Move(s, j, t) PROVE Match'
  <2>1. PICK row : row = [IdleStaff EXCEPT !.pc = "moveCard", !.card = j, !.at = t, !.seat = card[j].seat]
    OBVIOUS
  <2>2. row.pc = "moveCard"
    BY <2>1 DEF IdleStaff
  <2>3. Call(s, row) /\ UNCHANGED <<card, seat>>
    BY <1>4, <2>1 DEF Move
  <2> QED
    BY <1>2, <2>2, <2>3
<1>5. ASSUME NEW i \in Cards, NEW j \in Cards, Swap(s, i, j) PROVE Match'
  <2>1. PICK row : row = [IdleStaff EXCEPT !.pc = "swapCancel", !.card = i, !.other = j,
                                      !.seat = card[i].seat, !.at = card[i].at,
                                      !.otherSeat = card[j].seat, !.otherAt = card[j].at]
    OBVIOUS
  <2>2. row.pc = "swapCancel"
    BY <2>1 DEF IdleStaff
  <2>3. Call(s, row) /\ UNCHANGED <<card, seat>>
    BY <1>5, <2>1 DEF Swap
  <2> QED
    BY <1>2, <2>2, <2>3
<1>6. ASSUME NEW j \in Cards, NEW t \in Times, FollowUp(s, j, t) PROVE Match'
  <2> DEFINE root == IF card[j].root = NoCard THEN j ELSE card[j].root
  <2>1. PICK row : row = [IdleStaff EXCEPT !.pc = "followSeat", !.card = j, !.at = t, !.root = root]
    OBVIOUS
  <2>2. Call(s, row) /\ UNCHANGED <<card, seat>>
    BY <1>6, <2>1 DEF FollowUp
  <2> HIDE DEF root
  <2>3. row.pc = "followSeat"
    BY <2>1 DEF IdleStaff
  <2> QED
    BY <1>2, <2>2, <2>3
<1>7. ASSUME NEW j \in Cards, CancelSeat(s, j) PROVE Match'
  <2>1. PICK row : row = [IdleStaff EXCEPT !.pc = "cancelCard", !.card = j]
    OBVIOUS
  <2>2. Call(s, row) /\ UNCHANGED card
    BY <1>7, <2>1 DEF CancelSeat
  <2>3. row.pc = "cancelCard" /\ row.card = j
    BY <2>1 DEF IdleStaff
  <2>4. \A i \in Cards \ {j} : Has(i) => seat'[card[i].seat] = seat[card[i].seat]
    <3>1. \A i \in Cards \ {j} : Has(i) => card[i].seat \in Seats /\ card[i].seat # card[j].seat
      BY <1>0 DEF Links, Has, CardRows
    <3> QED
      BY <1>7, <3>1 DEF CancelSeat
  <2>5. \A i \in Cards : Suits(i)' \/ Changing(row, i)'
    <3>1. \A i \in Cards \ {j} : Suits(i)'
      BY <1>1, <2>2, <2>4, SuitsStay
    <3>2. Changing(row, j)'
      BY <2>3 DEF Changing
    <3> QED
      BY <3>1, <3>2
  <2>6. Course(row)'
    BY <2>3 DEF Course
  <2> QED
    BY <2>2, <2>5, <2>6, MatchArrives
<1>8. ASSUME NEW j \in Cards, NEW st \in {"planned", "done", "cancelled"}, SetSession(s, j, st)
      PROVE  Match'
  <2>1. PICK row : row = IF card[j].seat = NoSeat THEN IdleStaff
                    ELSE [IdleStaff EXCEPT !.pc = "sessionSeat", !.seat = card[j].seat, !.session = st]
    OBVIOUS
  <2>2. Call(s, row) /\ UNCHANGED seat /\ card' = [card EXCEPT ![j].session = st]
    BY <1>8, <2>1 DEF SetSession
  <2>3. /\ card'[j].session = st
        /\ \A i \in Cards : card'[i].seat = card[i].seat /\ card'[i].at = card[i].at
        /\ \A i \in Cards \ {j} : card'[i] = card[i]
    BY <1>0, <2>2 DEF CardRows
  <2>4. \A i \in Cards \ {j} : Suits(i)'
    BY <1>1, <2>2, <2>3, SuitsStay
  <2>5. CASE ~Has(j)
    <3>1. row.pc = "idle"
      BY <2>1, <2>5 DEF Has, IdleStaff
    <3>2. Course(row)' /\ Suits(j)'
      BY <2>3, <2>5, <3>1 DEF Course, SwapSteps, Suits, Has
    <3> QED
      BY <2>2, <2>4, <3>2, MatchArrives
  <2>6. CASE Has(j)
    <3>0. row = [IdleStaff EXCEPT !.pc = "sessionSeat", !.seat = card[j].seat, !.session = st]
      BY <2>1, <2>6 DEF Has
    <3>1. row.pc = "sessionSeat" /\ row.seat = card[j].seat /\ row.session = st
      BY <3>0 DEF IdleStaff
    <3>2. \A i \in Cards : card'[i].seat = row.seat => i = j
      BY <1>0, <2>3, <2>6, <3>1 DEF Links, Has
    <3>3. card[j].at = seat[row.seat].at
      BY <1>1, <2>6, <3>1 DEF Suits
    <3>4. \A i \in Cards : card'[i].seat = row.seat => card'[i].session = row.session /\ card'[i].at = seat'[row.seat].at
      BY <2>2, <2>3, <3>1, <3>2, <3>3
    <3>5. Course(row)'
      BY <3>1, <3>4 DEF Course, SwapSteps
    <3>6. Changing(row, j)'
      BY <2>3, <3>1 DEF Changing
    <3> QED
      BY <2>2, <2>4, <3>5, <3>6, MatchArrives
  <2> QED
    BY <2>5, <2>6
<1>9. CASE ClearSeats(s)
  <2>1. PICK row : row = [IdleStaff EXCEPT !.pc = "clearLinks"]
    OBVIOUS
  <2>2. Call(s, row)
    BY <1>9, <2>1 DEF ClearSeats
  <2>3. row.pc = "clearLinks"
    BY <2>1 DEF IdleStaff
  <2>4. Course(row)' /\ \A i \in Cards : Changing(row, i)'
    BY <2>3 DEF Course, Changing
  <2> QED
    BY <2>2, <2>4, MatchArrives
<1>10. ASSUME NEW b \in Seats, Approve(s, b) PROVE Match'
  <2>0. PICK j, t : j = Min(FreeCards) /\ t = seat[b].asked
    OBVIOUS
  <2> DEFINE new == [NoCardRow EXCEPT !.status = "booked", !.seat = b, !.at = t, !.index = 1,
                                      !.squeezed = TRUE]
  <2>1. PICK row : row = [IdleStaff EXCEPT !.pc = "approveSeat", !.seat = b, !.at = t]
    OBVIOUS
  <2>2. /\ Call(s, row) /\ card' = [card EXCEPT ![j] = new] /\ t # NoTime /\ j \in Cards
        /\ seat' = [seat EXCEPT ![b].asked = NoTime]
    BY <1>10, <2>0, <2>1, FreeRows DEF Approve
  <2>3. row.pc = "approveSeat" /\ row.seat = b /\ row.at = t
    BY <2>1 DEF IdleStaff
  <2>4. \A i \in Cards : card[i].seat # b
    BY <1>0, <2>0, <2>2 DEF Links
  <2>5. new.seat = b /\ new.at = t
    BY DEF NoCardRow
  <2> HIDE DEF new
  <2>6. /\ card'[j] = new /\ \A i \in Cards \ {j} : card'[i] = card[i]
        /\ \A a \in Seats \ {b} : seat'[a] = seat[a]
    BY <1>0, <2>2
  <2>7. \A i \in Cards \ {j} : Has(i) => seat'[card[i].seat] = seat[card[i].seat]
    BY <1>0, <2>4, <2>6 DEF Has, CardRows
  <2>8. \A i \in Cards \ {j} : Suits(i)'
    BY <1>1, <2>6, <2>7, SuitsStay
  <2>9. Changing(row, j)'
    BY <2>3, <2>5, <2>6 DEF Changing
  <2>10. Course(row)'
    BY <2>3, <2>4, <2>5, <2>6 DEF Course, SwapSteps
  <2> QED
    BY <2>2, <2>8, <2>9, <2>10, MatchArrives
<1>11. ASSUME NEW b \in Seats, NEW t \in Times, Reschedule(s, b, t) PROVE Match'
  <2>1. PICK row : row = [IdleStaff EXCEPT !.pc = "rescheduleCard", !.seat = b, !.at = t]
    OBVIOUS
  <2>2. Call(s, row) /\ UNCHANGED card /\ seat' = [seat EXCEPT ![b].at = t]
    BY <1>11, <2>1 DEF Reschedule
  <2>3. row.pc = "rescheduleCard" /\ row.seat = b /\ row.at = t
    BY <2>1 DEF IdleStaff
  <2>4. /\ seat'[b].at = t /\ seat'[b].status = seat[b].status
        /\ \A a \in Seats \ {b} : seat'[a] = seat[a]
    BY <1>0, <2>2 DEF SeatRows
  <2>5. \A j \in Cards : Suits(j)' \/ Changing(row, j)'
    <3>1. ASSUME NEW j \in Cards, card[j].seat # b PROVE Suits(j)'
      BY <1>1, <2>2, <2>4, <3>1, SuitsElsewhere
    <3>2. ASSUME NEW j \in Cards, card[j].seat = b PROVE Changing(row, j)'
      BY <2>2, <2>3, <3>2 DEF Changing
    <3> QED
      BY <3>1, <3>2
  <2>6. \A j \in Cards : card[j].seat = b /\ card[j].session # "cancelled" => "button" \in odd \/ Live(b)
    BY <1>0, <1>1 DEF Suits, Has
  <2>7. Course(row)'
    BY <2>2, <2>3, <2>4, <2>6 DEF Course, SwapSteps, Live
  <2> QED
    BY <2>2, <2>5, <2>7, MatchArrives
<1> QED
  BY <1>3, <1>4, <1>5, <1>6, <1>7, <1>8, <1>9, <1>10, <1>11 DEF StaffCalls

LEMMA MatchCreate ==
    ASSUME DiaryInv, Serial, Match, odd \subseteq odd', NEW s \in Staff, CreateInsert(s)
    PROVE  Match'
<1>0. PICK j, b, t : j = Min(FreeCards) /\ b = Min(FreeSeats) /\ t = staff[s].at
  OBVIOUS
<1> DEFINE row == [NoCardRow EXCEPT !.status = "booked", !.seat = b, !.at = t, !.index = 1]
<1>1. /\ staff[s].pc = "create" /\ StaffDone(s) /\ ~StaffAt(s, "idle") /\ OneBusy /\ Links
      /\ t \in Times
  BY <1>0, Knows DEF CreateInsert, StaffAt, Serial, WellFormed, TimeSteps
<1>2. j \in Cards /\ b \in Seats /\ card[j].status = "none" /\ seat[b].status = "none"
  BY <1>0, FreeRows DEF CreateInsert
<1>3. \A i \in Cards : Suits(i)
  BY <1>1, MatchBusy DEF Changing, SwapSteps
<1>4. CASE UNCHANGED <<card, seat>>
  <2>1. \A i \in Cards : Suits(i)'
    BY <1>3, <1>4, SuitsStay
  <2> QED
    BY <1>1, <2>1, MatchRests
<1>5. CASE seat' = [seat EXCEPT ![b] = ConfirmedAt(t)] /\ card' = [card EXCEPT ![j] = row]
  <2>1. row.seat = b /\ row.at = t
    BY DEF NoCardRow
  <2>2. \A i \in Cards : Has(i) => card[i].seat \in Seats \ {b}
    BY <1>1, <1>2, Tables DEF Links, Has, CardRows
  <2> HIDE DEF row
  <2>3. /\ card'[j] = row /\ \A i \in Cards \ {j} : card'[i] = card[i]
        /\ seat'[b].status = "confirmed" /\ seat'[b].at = t
        /\ \A a \in Seats \ {b} : seat'[a] = seat[a]
    BY <1>1, <1>2, <1>5, Tables, ConfirmedType
  <2>4. \A i \in Cards \ {j} : Suits(i)'
    BY <1>3, <2>2, <2>3, SuitsStay
  <2>5. Suits(j)'
    BY <2>1, <2>3 DEF Suits, Live
  <2> QED
    BY <1>1, <2>4, <2>5, MatchRests
<1> QED
  BY <1>0, <1>4, <1>5 DEF CreateInsert

LEMMA MatchMoveCard ==
    ASSUME DiaryInv, Serial, Match, odd \subseteq odd', NEW s \in Staff, MoveCard(s)
    PROVE  Match'
<1>0. PICK j, b, t : j = staff[s].card /\ b = staff[s].seat /\ t = staff[s].at
  OBVIOUS
<1>1. /\ staff[s].pc = "moveCard" /\ ~StaffAt(s, "idle") /\ staff[s] \in StaffRows /\ OneBusy
      /\ card' = [card EXCEPT ![j].at = t, ![j].squeezed = FALSE] /\ UNCHANGED seat
  BY <1>0, Knows DEF MoveCard, StaffAt, Serial
<1>2. j \in Cards /\ card[j].seat = b /\ b = staff[s].seat
  BY <1>0, <1>1 DEF Serial, Plan
<1>3. \A i \in Cards : Suits(i)
  BY <1>1, MatchBusy DEF Changing, SwapSteps
<1>4. /\ card'[j].seat = card[j].seat /\ card'[j].session = card[j].session
      /\ \A i \in Cards \ {j} : card'[i] = card[i]
  BY <1>1, <1>2, Tables DEF CardRows
<1>5. \A i \in Cards \ {j} : Suits(i)'
  BY <1>1, <1>3, <1>4, SuitsStay
<1>6. CASE staff[s].seat = NoSeat /\ StaffDone(s)
  <2>1. Suits(j)'
    BY <1>2, <1>4, <1>6 DEF Suits, Has
  <2> QED
    BY <1>1, <1>5, <1>6, <2>1, MatchRests
<1>7. CASE staff[s].seat # NoSeat /\ StaffGoes(s, "moveSeat")
  <2>1. PICK row : row = [staff[s] EXCEPT !.pc = "moveSeat"]
    OBVIOUS
  <2>2. row.pc = "moveSeat" /\ row.card = j /\ row.seat = b /\ StaffBecomes(s, row)
    BY <1>0, <1>1, <1>7, <2>1 DEF StaffRows, StaffGoes
  <2>3. card[j].session # "cancelled" => "button" \in odd \/ Live(b)
    BY <1>2, <1>3, <1>7 DEF Suits, Has
  <2>4. Course(row)'
    BY <1>1, <1>4, <2>2, <2>3 DEF Course, SwapSteps, Live
  <2>5. Changing(row, j)'
    BY <2>2 DEF Changing
  <2> QED
    BY <1>1, <1>5, <2>2, <2>4, <2>5, MatchGoes
<1> QED
  BY <1>6, <1>7 DEF MoveCard

LEMMA MatchMoveSeat ==
    ASSUME DiaryInv, Serial, Match, odd \subseteq odd', Calm', "unmoved" \notin odd', NEW s \in Staff, MoveSeat(s)
    PROVE  Match'
<1>0. PICK j, b, t : j = staff[s].card /\ b = staff[s].seat /\ t = staff[s].at
  OBVIOUS
<1>1. /\ staff[s].pc = "moveSeat" /\ ~StaffAt(s, "idle") /\ OneBusy /\ Links
      /\ StaffDone(s) /\ UNCHANGED card
  BY DEF MoveSeat, StaffAt, Serial
<1>2. b \in Seats
  BY <1>0, <1>1, Knows DEF WellFormed, SeatSteps
<1>3. j \in Cards /\ card[j].seat = b /\ card[j].at = t /\ Has(j)
  BY <1>0, <1>1, <1>2, DiaryAssumption DEF Serial, Plan, Has
<1>4. seat' = [seat EXCEPT ![b].at = t]
  BY <1>0 DEF MoveSeat, Calm, Halfway, Unmoved
<1>5. seat'[b].at = t /\ seat'[b].status = seat[b].status /\ \A a \in Seats \ {b} : seat'[a] = seat[a]
  BY <1>2, <1>4, Tables DEF SeatRows
<1>6. \A i \in Cards \ {j} : Suits(i) /\ (Has(i) => card[i].seat # b)
  BY <1>0, <1>1, <1>3, MatchBusy DEF Changing, SwapSteps, Links
<1>7. \A i \in Cards \ {j} : Suits(i)'
  BY <1>1, <1>5, <1>6, SuitsElsewhere
<1>8. card[j].session # "cancelled" => "button" \in odd \/ Live(b)
  BY <1>0, <1>1, MatchBusy DEF Course
<1>9. Suits(j)'
  BY <1>1, <1>3, <1>5, <1>8 DEF Suits, Live
<1> QED
  BY <1>1, <1>7, <1>9, MatchRests

LEMMA MatchCancel ==
    ASSUME DiaryInv, Serial, Match, odd \subseteq odd', NEW s \in Staff, CancelCard(s) \/ ClearLinks(s)
    PROVE  Match'
<1>1. StaffDone(s) /\ ~StaffAt(s, "idle") /\ OneBusy /\ (CancelCard(s) => UNCHANGED seat)
  BY DEF CancelCard, ClearLinks, StaffAt, Serial
<1>2. ASSUME NEW j \in Cards PROVE Suits(j)'
  <2>0. card[j] \in CardRows
    BY Tables
  <2>1. CASE CancelCard(s)
    <3> DEFINE i == staff[s].card
               st == IF card[i].status = "deleted" THEN card[i].status ELSE "rejected"
    <3>1. card' = [card EXCEPT ![i].status = st, ![i].seat = NoSeat, ![i].at = NoTime]
      BY <2>1 DEF CancelCard
    <3>2. i # j => Suits(j)
      BY <1>1, <2>1, MatchBusy DEF CancelCard, StaffAt, Changing, SwapSteps
    <3> HIDE DEF i, st
    <3>3. CASE i = j
      <4>1. card'[j].seat = NoSeat
        BY <2>0, <3>1, <3>3, Tables DEF CardRows
      <4> QED
        BY <4>1 DEF Suits, Has
    <3>4. CASE i # j
      <4>1. card'[j] = card[j]
        BY <3>1, <3>4, Tables
      <4> QED
        BY <1>1, <2>1, <3>2, <3>4, <4>1, SuitsStay
    <3> QED
      BY <3>3, <3>4
  <2>2. CASE ClearLinks(s)
    <3>1. card'[j] = [card[j] EXCEPT !.seat = NoSeat]
      BY <2>2 DEF ClearLinks
    <3>2. card'[j].seat = NoSeat
      BY <2>0, <3>1 DEF CardRows
    <3> QED
      BY <3>2 DEF Suits, Has
  <2> QED
    BY <2>1, <2>2
<1> QED
  BY <1>1, <1>2, MatchRests

LEMMA MatchSession ==
    ASSUME DiaryInv, Serial, Match, odd \subseteq odd', Calm', NEW s \in Staff, SessionSeat(s)
    PROVE  Match'
<1> DEFINE b == staff[s].seat
<1>1. staff[s].pc = "sessionSeat" /\ StaffDone(s) /\ ~StaffAt(s, "idle") /\ UNCHANGED card /\ OneBusy
  BY DEF SessionSeat, StaffAt, Serial
<1>2. b \in Seats
  BY <1>1, Knows DEF WellFormed, SeatSteps
<1>3. \A j \in Cards : IF card[j].seat = b THEN card[j].session = staff[s].session /\ card[j].at = seat[b].at
                       ELSE Suits(j)
  BY <1>1, MatchBusy DEF Changing, Course, SwapSteps
<1>4. \/ staff[s].session = "cancelled" /\ seat' = [seat EXCEPT ![b].status = "cancelled"]
      \/ seat' = [seat EXCEPT ![b].status = "confirmed"]
  BY DEF SessionSeat, Calm, Halfway
<1>5. /\ seat'[b].at = seat[b].at /\ (staff[s].session # "cancelled" => seat'[b].status = "confirmed")
      /\ \A a \in Seats \ {b} : seat'[a] = seat[a]
  BY <1>2, <1>4, Tables DEF SeatRows
<1>6. ASSUME NEW j \in Cards PROVE Suits(j)'
  <2>1. CASE card[j].seat = b
    BY <1>1, <1>3, <1>5, <2>1 DEF Suits, Live
  <2>2. CASE card[j].seat # b
    BY <1>1, <1>3, <1>5, <2>2, SuitsElsewhere
  <2> QED
    BY <2>1, <2>2
<1> QED
  BY <1>1, <1>6, MatchRests

LEMMA MatchFollowSeat ==
    ASSUME DiaryInv, Serial, Match, odd \subseteq odd', NEW s \in Staff, FollowSeat(s)
    PROVE  Match'
<1> DEFINE b == Min(FreeSeats)
           t == staff[s].at
<1>1. staff[s].pc = "followSeat" /\ ~StaffAt(s, "idle") /\ UNCHANGED card /\ Links /\ OneBusy
      /\ staff[s] \in StaffRows /\ t \in Times
  BY Knows DEF FollowSeat, StaffAt, Serial, WellFormed, TimeSteps
<1>2. b \in Seats /\ seat[b].status = "none"
  BY FreeRows DEF FollowSeat
<1>3. \A i \in Cards : Suits(i) /\ (Has(i) => card[i].seat # b)
  BY <1>1, <1>2, MatchBusy DEF Changing, SwapSteps, Links
<1>4. CASE UNCHANGED seat /\ StaffDone(s)
  <2>1. \A i \in Cards : Suits(i)'
    BY <1>1, <1>3, <1>4, SuitsStay
  <2> QED
    BY <1>1, <1>4, <2>1, MatchRests
<1>5. CASE /\ seat' = [seat EXCEPT ![b] = ConfirmedAt(t)]
           /\ StaffBecomes(s, [staff[s] EXCEPT !.pc = "followCount", !.seat = b])
  <2>1. PICK row : row = [staff[s] EXCEPT !.pc = "followCount", !.seat = b]
    OBVIOUS
  <2>2. row.pc = "followCount" /\ row.seat = b /\ row.at = t /\ StaffBecomes(s, row)
    BY <1>1, <1>5, <2>1 DEF StaffRows
  <2> HIDE DEF b, t
  <2>3. /\ seat'[b].status = "confirmed" /\ seat'[b].at = t
        /\ \A a \in Seats \ {b} : seat'[a] = seat[a]
    BY <1>1, <1>2, <1>5, Tables, ConfirmedType
  <2>4. Course(row)'
    BY <2>2, <2>3 DEF Course, SwapSteps, Live
  <2>5. \A i \in Cards : Suits(i)'
    BY <1>1, <1>3, <2>3, SuitsElsewhere
  <2> QED
    BY <1>1, <2>2, <2>4, <2>5, MatchGoes
<1> QED
  BY <1>4, <1>5 DEF FollowSeat

LEMMA MatchFollowCount ==
    ASSUME DiaryInv, Serial, Match, odd \subseteq odd', NEW s \in Staff, FollowCount(s)
    PROVE  Match'
<1>1. staff[s].pc = "followCount" /\ ~StaffAt(s, "idle") /\ UNCHANGED <<card, seat>> /\ OneBusy
      /\ staff[s] \in StaffRows
  BY Knows DEF FollowCount, StaffAt, Serial
<1>2. PICK n : StaffBecomes(s, [staff[s] EXCEPT !.pc = "followCard", !.index = n])
  BY DEF FollowCount
<1>3. PICK row : row = [staff[s] EXCEPT !.pc = "followCard", !.index = n]
  OBVIOUS
<1>4. row.pc = "followCard" /\ row.seat = staff[s].seat /\ row.at = staff[s].at /\ StaffBecomes(s, row)
  BY <1>1, <1>2, <1>3 DEF StaffRows
<1>5. Course(staff[s]) /\ \A i \in Cards : Suits(i)
  BY <1>1, MatchBusy DEF Changing, SwapSteps
<1>6. Course(row)'
  BY <1>1, <1>4, <1>5 DEF Course, SwapSteps, Live
<1>7. \A i \in Cards : Suits(i)'
  BY <1>1, <1>5, SuitsStay
<1> QED
  BY <1>1, <1>4, <1>6, <1>7, MatchGoes

LEMMA MatchFollowCard ==
    ASSUME DiaryInv, Serial, Match, odd \subseteq odd', NEW s \in Staff, FollowCard(s)
    PROVE  Match'
<1>0. PICK j, b, t : j = Min(FreeCards) /\ b = staff[s].seat /\ t = staff[s].at
  OBVIOUS
<1> DEFINE new == [NoCardRow EXCEPT !.status = "booked", !.seat = b, !.at = t]
<1>1. /\ staff[s].pc = "followCard" /\ ~StaffAt(s, "idle") /\ UNCHANGED seat /\ OneBusy
      /\ staff[s] \in StaffRows
  BY Knows DEF FollowCard, StaffAt, Serial
<1>2. Live(b) /\ seat[b].at = t /\ \A i \in Cards : Suits(i)
  BY <1>0, <1>1, MatchBusy DEF Changing, Course, SwapSteps
<1>3. CASE FreeCards # {} /\ card' = [card EXCEPT ![j] = new]
           /\ StaffBecomes(s, [staff[s] EXCEPT !.pc = "followIndex", !.new = j])
  <2>1. j \in Cards
    BY <1>0, <1>3, FreeRows
  <2>2. new.seat = b /\ new.at = t
    BY DEF NoCardRow
  <2>3. PICK row : row = [staff[s] EXCEPT !.pc = "followIndex", !.new = j]
    OBVIOUS
  <2>4. row.pc = "followIndex" /\ row.new = j /\ StaffBecomes(s, row)
    BY <1>1, <1>3, <2>3 DEF StaffRows
  <2> HIDE DEF new
  <2>5. card'[j] = new /\ \A i \in Cards \ {j} : card'[i] = card[i]
    BY <1>3, <2>1, Tables
  <2>6. Live(b)'
    BY <1>1, <1>2 DEF Live
  <2>7. Course(row)'
    BY <2>2, <2>4, <2>5, <2>6, <1>1, <1>2 DEF Course, SwapSteps, Live
  <2>8. \A i \in Cards \ {j} : Suits(i)'
    BY <1>1, <1>2, <2>5, SuitsStay
  <2>9. Suits(j)'
    BY <1>1, <1>2, <2>2, <2>5 DEF Suits, Live
  <2> QED
    BY <1>1, <2>4, <2>7, <2>8, <2>9, MatchGoes
<1>4. ASSUME UNCHANGED card PROVE \A i \in Cards : Suits(i)'
  BY <1>1, <1>2, <1>4, SuitsStay
<1>5. CASE UNCHANGED card /\ StaffGoes(s, "followUndo")
  <2>1. PICK row : row = [staff[s] EXCEPT !.pc = "followUndo"]
    OBVIOUS
  <2>2. row.pc = "followUndo" /\ StaffBecomes(s, row)
    BY <1>1, <1>5, <2>1 DEF StaffRows, StaffGoes
  <2>3. Course(row)'
    BY <2>2 DEF Course, SwapSteps
  <2> QED
    BY <1>1, <1>4, <1>5, <2>2, <2>3, MatchGoes
<1>6. CASE UNCHANGED card /\ StaffDone(s)
  BY <1>1, <1>4, <1>6, MatchRests
<1> QED
  BY <1>0, <1>3, <1>5, <1>6 DEF FollowCard

LEMMA MatchFollowUndo ==
    ASSUME DiaryInv, Serial, Match, odd \subseteq odd', NEW s \in Staff, FollowUndo(s)
    PROVE  Match'
<1> DEFINE b == staff[s].seat
<1>1. staff[s].pc = "followUndo" /\ ~StaffAt(s, "idle") /\ UNCHANGED card /\ StaffDone(s) /\ OneBusy
      /\ seat' = [seat EXCEPT ![b] = NoSeatRow]
  BY DEF FollowUndo, StaffAt, Serial
<1>2. \A j \in Cards : Suits(j) /\ card[j].seat # b
  BY <1>1, MatchBusy DEF Changing, SwapSteps, Serial, Plan
<1>3. \A a \in Seats \ {b} : seat'[a] = seat[a]
  BY <1>1, Tables
<1>4. \A j \in Cards : Suits(j)'
  BY <1>1, <1>2, <1>3, SuitsElsewhere
<1> QED
  BY <1>1, <1>4, MatchRests

LEMMA MatchFollowIndex ==
    ASSUME DiaryInv, Serial, Match, odd \subseteq odd', NEW s \in Staff, FollowIndex(s)
    PROVE  Match'
<1>1. PICK j \in Cards :
         /\ j = staff[s].new /\ staff[s].pc = "followIndex" /\ StaffDone(s) /\ UNCHANGED seat
         /\ \A i \in Cards \ {j} : card'[i] = card[i]
         /\ card'[j].seat = card[j].seat /\ card'[j].at = card[j].at
  BY FollowIndexWrite
<1>2. ~StaffAt(s, "idle") /\ OneBusy
  BY <1>1 DEF StaffAt, Serial
<1>3. Live(card[j].seat) /\ \A i \in Cards : Suits(i)
  BY <1>1, <1>2, MatchBusy DEF Changing, Course, SwapSteps
<1>4. \A i \in Cards \ {j} : Suits(i)'
  BY <1>1, <1>3, SuitsStay
<1>5. Suits(j)'
  BY <1>1, <1>3 DEF Suits, Has, Live
<1> QED
  BY <1>1, <1>2, <1>4, <1>5, MatchRests

LEMMA MatchApproveSeat ==
    ASSUME DiaryInv, Serial, Match, odd \subseteq odd', Calm', "unmoved" \notin odd',
           NEW s \in Staff, ApproveSeat(s)
    PROVE  Match'
<1>0. PICK b, t : b = staff[s].seat /\ t = staff[s].at
  OBVIOUS
<1>1. /\ staff[s].pc = "approveSeat" /\ StaffDone(s) /\ ~StaffAt(s, "idle") /\ UNCHANGED card
      /\ OneBusy
  BY DEF ApproveSeat, StaffAt, Serial
<1>2. b \in Seats
  BY <1>0, <1>1, Knows DEF WellFormed, SeatSteps
<1>3. seat[b].at = t /\ seat' = [seat EXCEPT ![b].status = "confirmed"]
  BY <1>0 DEF ApproveSeat, Calm, Halfway, Unmoved
<1>4. \A j \in Cards : IF card[j].seat = b THEN card[j].at = t ELSE Suits(j)
  BY <1>0, <1>1, MatchBusy DEF Changing, Course, SwapSteps
<1>5. /\ seat'[b].at = t /\ seat'[b].status = "confirmed"
      /\ \A a \in Seats \ {b} : seat'[a] = seat[a]
  BY <1>2, <1>3, Tables DEF SeatRows
<1>6. ASSUME NEW j \in Cards, card[j].seat = b PROVE Suits(j)'
  BY <1>1, <1>4, <1>5, <1>6 DEF Suits, Live
<1>7. ASSUME NEW j \in Cards, card[j].seat # b PROVE Suits(j)'
  BY <1>1, <1>4, <1>5, <1>7, SuitsElsewhere
<1> QED
  BY <1>1, <1>6, <1>7, MatchRests

LEMMA MatchRescheduleCard ==
    ASSUME DiaryInv, Serial, Match, odd \subseteq odd', NEW s \in Staff, RescheduleCard(s)
    PROVE  Match'
<1>0. PICK b, t : b = staff[s].seat /\ t = staff[s].at
  OBVIOUS
<1>1. /\ staff[s].pc = "rescheduleCard" /\ StaffDone(s) /\ UNCHANGED seat /\ b \in Seats
      /\ \A j \in Cards : card'[j].seat = card[j].seat /\ card'[j].session = card[j].session
      /\ \A j \in Cards : IF Booked(j) /\ card[j].seat = b THEN card'[j].at = t ELSE card'[j] = card[j]
  BY <1>0, RescheduleWrite
<1>2. ~StaffAt(s, "idle") /\ OneBusy /\ Links
  BY <1>1 DEF StaffAt, Serial
<1>3. /\ seat[b].at = t
      /\ \A j \in Cards : card[j].seat = b =>
            (card[j].session # "cancelled" => "button" \in odd \/ Live(b))
      /\ \A j \in Cards : card[j].seat # b => Suits(j)
  BY <1>0, <1>1, <1>2, MatchBusy DEF Changing, Course, SwapSteps
<1>4. ASSUME NEW j \in Cards, card[j].seat = b PROVE Suits(j)'
  <2>1. Booked(j)
    BY <1>1, <1>2, <1>4, DiaryAssumption DEF Links, Has
  <2> QED
    BY <1>1, <1>3, <1>4, <2>1 DEF Suits, Live
<1>5. ASSUME NEW j \in Cards, card[j].seat # b PROVE Suits(j)'
  BY <1>1, <1>3, <1>5, SuitsStay
<1> QED
  BY <1>1, <1>2, <1>4, <1>5, MatchRests

\* What a statement on both bookings of an exchange leaves behind.
LEMMA SwapWrote ==
    ASSUME DiaryInv, NEW s \in Staff, NEW f, NEW status \in {"", "confirmed"}, SwapWrite(s, f, status)
    PROVE  /\ \A b \in Seats \cap SwapSeats(s) :
                 seat'[b].at = f[b] /\ (status = "confirmed" => seat'[b].status = "confirmed")
           /\ \A b \in Seats \ SwapSeats(s) : seat'[b] = seat[b]
<1>1. ASSUME NEW b \in Seats \cap SwapSeats(s)
      PROVE  seat'[b].at = f[b] /\ (status = "confirmed" => seat'[b].status = "confirmed")
  <2>1. seat'[b] = [seat[b] EXCEPT !.at = f[b], !.status = IF status = "" THEN @ ELSE status]
    BY DEF SwapWrite
  <2>2. seat[b] \in SeatRows
    BY Tables
  <2> QED
    BY <2>1, <2>2 DEF SeatRows
<1>2. ASSUME NEW b \in Seats \ SwapSeats(s) PROVE seat'[b] = seat[b]
  BY <1>2 DEF SwapWrite
<1> QED
  BY <1>1, <1>2

\* The two cards of an exchange, and the others.
LEMMA SwapCourse ==
    ASSUME DiaryInv, Serial, Match, NEW s \in Staff, staff[s].pc \in SwapSteps
    PROVE  \E i, j \in Cards : \E a, b \in Seats :
              /\ i = staff[s].card /\ j = staff[s].other /\ a = staff[s].seat /\ b = staff[s].otherSeat
              /\ i # j /\ a # b /\ card[i].seat = a /\ card[j].seat = b
              /\ card[i].at = staff[s].at /\ card[j].at = staff[s].otherAt
              /\ SwapSeats(s) = {a, b}
              /\ \A m \in Cards \ {i, j} : Suits(m) /\ (Has(m) => card[m].seat \in Seats \ {a, b})
              /\ Course(staff[s]) /\ ~StaffAt(s, "idle") /\ OneBusy
<1>1. staff[s].seat \in Seats /\ staff[s].otherSeat \in Seats
  BY Knows DEF WellFormed, SeatSteps
<1>2. PICK i, j \in Cards, a, b \in Seats :
         i = staff[s].card /\ j = staff[s].other /\ a = staff[s].seat /\ b = staff[s].otherSeat
  BY <1>1 DEF Serial, Plan
<1>3. /\ i # j /\ card[i].seat = a /\ card[j].seat = b
      /\ card[i].at = staff[s].at /\ card[j].at = staff[s].otherAt
  BY <1>2 DEF Serial, Plan
<1>4. ~StaffAt(s, "idle") /\ OneBusy /\ Links
  BY DEF StaffAt, SwapSteps, Serial
<1>5. Has(i) /\ Has(j)
  BY <1>3, DiaryAssumption DEF Has
<1>6. a # b
  BY <1>3, <1>4, <1>5 DEF Links
<1>7. \A m \in Cards \ {i, j} : Has(m) => card[m].seat \in Seats \ {a, b}
  BY <1>3, <1>4, Tables DEF Links, Has, CardRows
<1>8. Course(staff[s]) /\ \A m \in Cards \ {i, j} : Suits(m)
  BY <1>2, <1>4, MatchBusy DEF Changing, SwapSteps
<1>9. SwapSeats(s) = {a, b}
  BY <1>2 DEF SwapSeats
<1> QED
  BY <1>2, <1>3, <1>4, <1>6, <1>7, <1>8, <1>9

\* A statement of an exchange on its two bookings, with others to follow.
LEMMA MatchSwapGoes ==
    ASSUME DiaryInv, Serial, Match, odd \subseteq odd', NEW s \in Staff, staff[s].pc \in SwapSteps, UNCHANGED card,
           \A b \in Seats \ SwapSeats(s) : seat'[b] = seat[b],
           NEW row, StaffBecomes(s, row), row.pc \in SwapSteps \ {"swapCancel"},
           row.card = staff[s].card, row.other = staff[s].other, Course(row)'
    PROVE  Match'
<1>1. PICK i, j \in Cards, a, b \in Seats :
         /\ i = staff[s].card /\ j = staff[s].other
         /\ SwapSeats(s) = {a, b}
         /\ \A m \in Cards \ {i, j} : Suits(m) /\ (Has(m) => card[m].seat \in Seats \ {a, b})
         /\ ~StaffAt(s, "idle") /\ OneBusy
  BY SwapCourse
<1>2. \A m \in Cards \ {i, j} : Suits(m)'
  BY <1>1, SuitsStay
<1>3. Changing(row, i)' /\ Changing(row, j)'
  BY <1>1 DEF Changing
<1> QED
  BY <1>1, <1>2, <1>3, MatchGoes

\* The row of a handler of an exchange that goes on.
LEMMA SwapRow ==
    ASSUME DiaryInv, NEW s \in Staff, NEW pc \in SwapSteps, StaffGoes(s, pc)
    PROVE  \E row : /\ StaffBecomes(s, row) /\ row.pc = pc
                    /\ row.card = staff[s].card /\ row.other = staff[s].other
                    /\ row.seat = staff[s].seat /\ row.at = staff[s].at
                    /\ row.otherSeat = staff[s].otherSeat /\ row.otherAt = staff[s].otherAt
<1>1. PICK k : k = staff[s]
  OBVIOUS
<1>2. PICK row : row = [k EXCEPT !.pc = pc]
  OBVIOUS
<1>3. StaffBecomes(s, row) /\ k \in StaffRows
  BY <1>1, <1>2, Knows DEF StaffGoes
<1>4. /\ row.pc = pc /\ row.card = k.card /\ row.other = k.other /\ row.seat = k.seat
      /\ row.at = k.at /\ row.otherSeat = k.otherSeat /\ row.otherAt = k.otherAt
  BY <1>2, <1>3 DEF StaffRows
<1> QED
  BY <1>1, <1>3, <1>4

LEMMA MatchSwapCancel ==
    ASSUME DiaryInv, Serial, Match, odd \subseteq odd', NEW s \in Staff, SwapCancel(s)
    PROVE  Match'
<1>1. /\ staff[s].pc \in SwapSteps /\ "swapMove" \in SwapSteps
      /\ StaffGoes(s, "swapMove") /\ UNCHANGED card
  BY DEF SwapCancel, StaffAt, SwapSteps
<1>2. PICK row : /\ StaffBecomes(s, row) /\ row.pc = "swapMove"
                 /\ row.card = staff[s].card /\ row.other = staff[s].other
                 /\ row.seat = staff[s].seat /\ row.otherSeat = staff[s].otherSeat
  BY <1>1, SwapRow
<1>3. /\ \A b \in Seats \ SwapSeats(s) : seat'[b] = seat[b]
      /\ \A b \in Seats \cap SwapSeats(s) : seat'[b] = [seat[b] EXCEPT !.status = "cancelled"]
  BY DEF SwapCancel
<1>4. \A b \in Seats \cap SwapSeats(s) : seat'[b].status = "cancelled"
  BY <1>3, Tables DEF SeatRows
<1>5. row.seat \in Seats \cap SwapSeats(s) /\ row.otherSeat \in Seats \cap SwapSeats(s)
  BY <1>1, <1>2, Knows DEF WellFormed, SeatSteps, SwapSeats
<1>6. Course(row)'
  BY <1>2, <1>4, <1>5 DEF Course, SwapSteps, Live
<1> QED
  BY <1>1, <1>2, <1>3, <1>6, MatchSwapGoes DEF SwapSteps

LEMMA MatchSwapMove ==
    ASSUME DiaryInv, Serial, Match, odd \subseteq odd', NEW s \in Staff, SwapMove(s)
    PROVE  Match'
<1>1. /\ staff[s].pc = "swapMove" /\ UNCHANGED card
      /\ staff[s].pc \in SwapSteps /\ "swapConfirm" \in SwapSteps
  BY DEF SwapMove, StaffAt, SwapSteps
<1>2. PICK i, j \in Cards, a, b \in Seats :
         /\ a = staff[s].seat /\ b = staff[s].otherSeat /\ a # b
         /\ SwapSeats(s) = {a, b} /\ Course(staff[s])
  BY <1>1, SwapCourse
<1>3. {m \in SwapSeats(s) : Live(m)} = {}
  BY <1>1, <1>2 DEF Course
<1>4. ~Refused({m \in SwapSeats(s) : Live(m)}, SwapTimes(s))
      /\ ~Crossing({m \in SwapSeats(s) : Live(m)}, SwapTimes(s))
  BY <1>3 DEF Refused, Crossing
<1>5. SwapWrite(s, SwapTimes(s), "")
  BY <1>4 DEF SwapMove
<1>6. StaffGoes(s, "swapConfirm")
  BY <1>4 DEF SwapMove
<1>7. PICK row : /\ StaffBecomes(s, row) /\ row.pc = "swapConfirm"
                 /\ row.card = staff[s].card /\ row.other = staff[s].other
                 /\ row.seat = staff[s].seat /\ row.otherSeat = staff[s].otherSeat
                 /\ row.at = staff[s].at /\ row.otherAt = staff[s].otherAt
  BY <1>1, <1>6, SwapRow
<1>8. SwapTimes(s)[a] = OnDay(row.at, row.otherAt.day) /\ SwapTimes(s)[b] = OnDay(row.otherAt, row.at.day)
  <2>1. SwapTimes(s)[a] = SwapTime(s, FALSE) /\ SwapTimes(s)[b] = SwapTime(s, TRUE)
    <3>1. (a # staff[s].seat) = FALSE /\ (b # staff[s].seat) = TRUE
      BY <1>2
    <3>2. SwapTimes(s)[a] = SwapTime(s, a # staff[s].seat) /\ SwapTimes(s)[b] = SwapTime(s, b # staff[s].seat)
      BY <1>2 DEF SwapTimes
    <3> QED
      BY <3>1, <3>2
  <2>2. /\ SwapTime(s, FALSE) = OnDay(staff[s].at, staff[s].otherAt.day)
        /\ SwapTime(s, TRUE) = OnDay(staff[s].otherAt, staff[s].at.day)
    BY DEF SwapTime
  <2> QED
    BY <1>7, <2>1, <2>2
<1>9. /\ seat'[a].at = SwapTimes(s)[a] /\ seat'[b].at = SwapTimes(s)[b]
      /\ \A m \in Seats \ SwapSeats(s) : seat'[m] = seat[m]
  <2>1. PICK f : f = SwapTimes(s)
    OBVIOUS
  <2>2. SwapWrite(s, f, "")
    BY <1>5, <2>1
  <2>3. /\ \A m \in Seats \cap SwapSeats(s) : seat'[m].at = f[m]
        /\ \A m \in Seats \ SwapSeats(s) : seat'[m] = seat[m]
    BY <2>2, SwapWrote
  <2> QED
    BY <1>2, <2>1, <2>3
<1>10. Course(row)'
  BY <1>2, <1>7, <1>8, <1>9 DEF Course, SwapSteps
<1> QED
  BY <1>1, <1>7, <1>9, <1>10, MatchSwapGoes DEF SwapSteps

LEMMA MatchSwapConfirm ==
    ASSUME DiaryInv, Serial, Match, odd \subseteq odd', NEW s \in Staff, SwapConfirm(s)
    PROVE  Match'
<1>1. /\ staff[s].pc = "swapConfirm" /\ UNCHANGED card
      /\ staff[s].pc \in SwapSteps /\ {"swapCards", "swapRestore"} \subseteq SwapSteps
  BY DEF SwapConfirm, StaffAt, SwapSteps
<1>2. CASE UNCHANGED seat /\ StaffGoes(s, "swapRestore")
  <2>1. PICK row : /\ StaffBecomes(s, row) /\ row.pc = "swapRestore"
                   /\ row.card = staff[s].card /\ row.other = staff[s].other
    BY <1>1, <1>2, SwapRow
  <2>2. Course(row)'
    BY <2>1 DEF Course
  <2> QED
    BY <1>1, <1>2, <2>1, <2>2, MatchSwapGoes DEF SwapSteps
<1>3. CASE SwapWrite(s, NowTimes(s), "confirmed") /\ StaffGoes(s, "swapCards")
  <2>1. PICK row : /\ StaffBecomes(s, row) /\ row.pc = "swapCards"
                   /\ row.card = staff[s].card /\ row.other = staff[s].other
                   /\ row.seat = staff[s].seat /\ row.otherSeat = staff[s].otherSeat
                   /\ row.at = staff[s].at /\ row.otherAt = staff[s].otherAt
    BY <1>1, <1>3, SwapRow
  <2>2. PICK i, j \in Cards, a, b \in Seats :
           /\ a = staff[s].seat /\ b = staff[s].otherSeat /\ a # b
           /\ SwapSeats(s) = {a, b} /\ Course(staff[s])
    BY <1>1, SwapCourse
  <2>3. NowTimes(s)[a] = seat[a].at /\ NowTimes(s)[b] = seat[b].at
    BY <2>2 DEF NowTimes
  <2>4. /\ seat'[a].at = seat[a].at /\ seat'[b].at = seat[b].at
        /\ seat'[a].status = "confirmed" /\ seat'[b].status = "confirmed"
        /\ \A m \in Seats \ SwapSeats(s) : seat'[m] = seat[m]
    <3>1. PICK f : f = NowTimes(s)
      OBVIOUS
    <3>2. SwapWrite(s, f, "confirmed")
      BY <1>3, <3>1
    <3>3. /\ \A m \in Seats \cap SwapSeats(s) : seat'[m].at = f[m] /\ seat'[m].status = "confirmed"
          /\ \A m \in Seats \ SwapSeats(s) : seat'[m] = seat[m]
      BY <3>2, SwapWrote
    <3> QED
      BY <2>2, <2>3, <3>1, <3>3
  <2>5. Course(row)'
    BY <1>1, <2>1, <2>2, <2>4 DEF Course, SwapSteps, Live
  <2> QED
    BY <1>1, <2>1, <2>4, <2>5, MatchSwapGoes DEF SwapSteps
<1> QED
  BY <1>2, <1>3 DEF SwapConfirm

LEMMA MatchSwapRestore ==
    ASSUME DiaryInv, Serial, Match, odd \subseteq odd', Calm', NEW s \in Staff, SwapRestore(s)
    PROVE  Match'
<1>1. staff[s].pc \in SwapSteps /\ UNCHANGED card /\ StaffDone(s)
  BY DEF SwapRestore, StaffAt, SwapSteps
<1>2. SwapWrite(s, OldTimes(s), "confirmed")
  BY DEF SwapRestore, Calm, Halfway
<1>3. PICK i, j \in Cards, a, b \in Seats :
         /\ a = staff[s].seat /\ b = staff[s].otherSeat
         /\ i # j /\ a # b /\ card[i].seat = a /\ card[j].seat = b
         /\ card[i].at = staff[s].at /\ card[j].at = staff[s].otherAt
         /\ SwapSeats(s) = {a, b}
         /\ \A m \in Cards \ {i, j} : Suits(m) /\ (Has(m) => card[m].seat \in Seats \ {a, b})
         /\ ~StaffAt(s, "idle") /\ OneBusy
  BY <1>1, SwapCourse
<1>4. OldTimes(s)[a] = card[i].at /\ OldTimes(s)[b] = card[j].at
  BY <1>3 DEF OldTimes, OldTime
<1>5. /\ seat'[a].at = card[i].at /\ seat'[b].at = card[j].at
      /\ seat'[a].status = "confirmed" /\ seat'[b].status = "confirmed"
      /\ \A m \in Seats \ SwapSeats(s) : seat'[m] = seat[m]
  <2>1. PICK f : f = OldTimes(s)
    OBVIOUS
  <2>2. SwapWrite(s, f, "confirmed")
    BY <1>2, <2>1
  <2>3. /\ \A m \in Seats \cap SwapSeats(s) : seat'[m].at = f[m] /\ seat'[m].status = "confirmed"
        /\ \A m \in Seats \ SwapSeats(s) : seat'[m] = seat[m]
    BY <2>2, SwapWrote
  <2> QED
    BY <1>3, <1>4, <2>1, <2>3
<1>6. \A m \in Cards \ {i, j} : Suits(m)'
  BY <1>1, <1>3, <1>5, SuitsStay
<1>7. Suits(i)' /\ Suits(j)'
  BY <1>1, <1>3, <1>5 DEF Suits, Live
<1> QED
  BY <1>1, <1>3, <1>6, <1>7, MatchRests

LEMMA MatchSwapCards ==
    ASSUME DiaryInv, Serial, Match, odd \subseteq odd', NEW s \in Staff, SwapCards(s)
    PROVE  Match'
<1>1. PICK i, j \in Cards :
         /\ i = staff[s].card /\ j = staff[s].other /\ i # j
         /\ staff[s].pc = "swapCards" /\ StaffDone(s) /\ UNCHANGED seat
         /\ card[i].seat = staff[s].seat /\ card[i].at = staff[s].at
         /\ card[j].seat = staff[s].otherSeat /\ card[j].at = staff[s].otherAt
         /\ card'[i].at = OnDay(card[i].at, card[j].at.day)
         /\ card'[j].at = OnDay(card[j].at, card[i].at.day)
         /\ \A m \in Cards : card'[m].seat = card[m].seat
         /\ \A m \in Cards \ {i, j} : card'[m] = card[m]
  BY SwapCardsWrite
<1>2. ~StaffAt(s, "idle") /\ OneBusy /\ "swapCards" \in SwapSteps
  BY <1>1 DEF StaffAt, Serial, SwapSteps
<1>3. Course(staff[s]) /\ \A m \in Cards \ {i, j} : Suits(m)
  BY <1>1, <1>2, MatchBusy DEF Changing, SwapSteps
<1>4. \A m \in Cards \ {i, j} : Suits(m)'
  BY <1>1, <1>3, SuitsStay
<1>5. /\ Live(card[i].seat) /\ seat[card[i].seat].at = card'[i].at
      /\ Live(card[j].seat) /\ seat[card[j].seat].at = card'[j].at
  BY <1>1, <1>3 DEF Course
<1>6. Suits(i)' /\ Suits(j)'
  BY <1>1, <1>5 DEF Suits, Live
<1> QED
  BY <1>1, <1>2, <1>4, <1>6, MatchRests

LEMMA MatchMonth ==
    ASSUME Match, Calm', MonthLoad
    PROVE  FALSE
<1>1. AtRest /\ \E j \in Cards : Astray(j)
  BY DEF MonthLoad, Meets, Calm, StraySeats
<1>2. \A j \in Cards : Suits(j)
  BY <1>1, MatchRest
<1> QED
  BY <1>1, <1>2 DEF Astray, Linked, Suits, Has

LEMMA MatchDelete ==
    ASSUME DiaryInv, Serial, Match, odd \subseteq odd', NEW j \in Cards, DeleteCard(j)
    PROVE  Match'
<1>1. UNCHANGED <<seat, staff>>
  BY DEF DeleteCard
<1>2. \A i \in Cards : /\ card'[i].seat = card[i].seat /\ card'[i].at = card[i].at
                       /\ card'[i].session = card[i].session
  BY DeleteWrite
<1>3. \A i \in Cards : Suits(i) => Suits(i)'
  BY <1>1, <1>2, SuitsStay
<1>4. \A i \in Cards, s \in Staff : Changing(staff[s], i) => Changing(staff[s], i)'
  BY <1>1, <1>2 DEF Changing
<1>5. ASSUME NEW s \in Staff PROVE Course(staff[s])'
  <2>1. PICK k : k = staff[s]
    OBVIOUS
  <2>2. Course(k) /\ (k.pc = "moveSeat" => k.card \in Cards) /\ (k.pc = "followIndex" => k.new \in Cards)
    BY <2>1, Knows DEF Match, Serial, Plan, WellFormed
  <2>3. Course(k)'
    BY <1>1, <1>2, <2>2 DEF Course, Live
  <2> QED
    BY <1>1, <2>1, <2>3 DEF Course
<1> QED
  BY <1>3, <1>4, <1>5 DEF Match

LEMMA MatchOther ==
    ASSUME DiaryInv, Serial, Match, odd \subseteq odd', Calm', NEW t \in Times, OtherBooks(t)
    PROVE  Match'
<1>1. UNCHANGED <<card, staff>> /\ AtRest
  BY DEF OtherBooks, Meets, Calm
<1>2. PICK b \in Seats : seat[b].status = "none" /\ \A a \in Seats \ {b} : seat'[a] = seat[a]
  <2>1. PICK b : b = Min(FreeSeats)
    OBVIOUS
  <2>2. b \in Seats /\ seat[b].status = "none"
    BY <2>1, FreeRows DEF OtherBooks
  <2>3. \A a \in Seats \ {b} : seat'[a] = seat[a]
    BY <2>1, Tables DEF OtherBooks
  <2> QED
    BY <2>2, <2>3
<1>3. \A j \in Cards : Suits(j) /\ (Has(j) => card[j].seat # b)
  BY <1>1, <1>2, MatchRest DEF Serial, Links
<1>4. \A j \in Cards : Suits(j)'
  BY <1>1, <1>2, <1>3, SuitsElsewhere
<1>5. \A s \in Staff : Course(staff[s])'
  BY <1>1 DEF AtRest, StaffAt, Course, SwapSteps
<1> QED
  BY <1>4, <1>5 DEF Match

\* A status button leaves the booking where it is.
LEMMA MatchStatus ==
    ASSUME DiaryInv, Serial, Match, odd \subseteq odd', Calm', NEW b \in Seats,
           NEW status \in {"confirmed", "cancelled", "done", "no_show"}, SetBookingStatus(b, status)
    PROVE  Match'
<1>1. /\ UNCHANGED <<card, staff>> /\ AtRest /\ seat' = [seat EXCEPT ![b].status = status]
      /\ status = "confirmed" \/ "button" \in odd'
  BY DEF SetBookingStatus, Calm
<1>2. /\ seat'[b].at = seat[b].at /\ seat'[b].status = status
      /\ \A a \in Seats \ {b} : seat'[a] = seat[a]
  BY <1>1, Tables DEF SeatRows
<1>3. \A j \in Cards : Suits(j)
  BY <1>1, MatchRest
<1>4. ASSUME NEW j \in Cards, card[j].seat # b PROVE Suits(j)'
  BY <1>1, <1>2, <1>3, <1>4, SuitsElsewhere
<1>5. ASSUME NEW j \in Cards, card[j].seat = b PROVE Suits(j)'
  BY <1>1, <1>2, <1>3, <1>5 DEF Suits, Has, Live
<1>6. \A s \in Staff : Course(staff[s])'
  BY <1>1 DEF AtRest, StaffAt, Course, SwapSteps
<1> QED
  BY <1>4, <1>5, <1>6 DEF Match

LEMMA MatchInit == DiaryInit => MatchInv
<1> SUFFICES ASSUME DiaryInit PROVE Match
  BY DEF MatchInv
<1> DEFINE Card(x) == [NoCardRow EXCEPT !.status = "booked", !.seat = x.seat, !.at = x.at, !.index = 1]
<1>1. \A j \in Cards : \/ card[j] = NoCardRow
                       \/ \E x \in Begun : x.card = j /\ card[j] = Card(x)
  BY DEF DiaryInit
<1>2. NoCardRow.seat = NoSeat /\ \A x \in Begun : Card(x).seat = x.seat /\ Card(x).at = x.at
  BY DEF NoCardRow
<1>3. \A x \in Begun : x.seat \in Seats /\ seat[x.seat].status = "confirmed" /\ seat[x.seat].at = x.at
  <2> SUFFICES ASSUME NEW x \in Begun
               PROVE  x.seat \in Seats /\ seat[x.seat].status = "confirmed" /\ seat[x.seat].at = x.at
    OBVIOUS
  <2>1. x.seat \in Seats
    BY DiaryAssumption
  <2>2. PICK y \in Begun : y.seat = x.seat /\ seat[x.seat] = ConfirmedAt(y.at)
    BY <2>1 DEF DiaryInit
  <2>3. y = x
    BY <2>2, DiaryAssumption
  <2> QED
    BY <2>1, <2>2, <2>3, ConfirmedType, DiaryAssumption DEF Times
<1> HIDE DEF Card
<1>4. \A j \in Cards : Suits(j)
  BY <1>1, <1>2, <1>3 DEF Suits, Has, Live
<1>5. \A s \in Staff : Course(staff[s])
  BY DEF DiaryInit, IdleStaff, Course, SwapSteps
<1> QED
  BY <1>4, <1>5 DEF Match

LEMMA MatchSteps ==
    ASSUME DiaryInv, Serial, Match, odd \subseteq odd', Calm', "unmoved" \notin odd', NEW s \in Staff, StaffStep(s)
    PROVE  Match'
BY MatchCreate, MatchMoveCard, MatchMoveSeat, MatchSwapCancel, MatchSwapMove, MatchSwapConfirm,
   MatchSwapRestore, MatchSwapCards, MatchCancel, MatchSession, MatchFollowSeat, MatchFollowCount,
   MatchFollowCard, MatchFollowUndo, MatchFollowIndex, MatchApproveSeat, MatchRescheduleCard DEF StaffStep

LEMMA MatchKeeps == DiaryInv /\ SerialInv /\ MatchInv /\ [DiaryNext]_diaryVars => MatchInv'
<1> SUFFICES ASSUME DiaryInv, SerialInv, MatchInv, [DiaryNext]_diaryVars, Calm', "unmoved" \notin odd'
             PROVE  Match'
  BY DEF MatchInv
<1>1. CASE DiaryNext
  <2>1. Serial /\ Match /\ odd \subseteq odd'
    BY <1>1, OddGrows DEF Calm, SerialInv, MatchInv
  <2> QED
    BY <1>1, <2>1, MatchMonth, MatchDelete, MatchOther, MatchStatus, MatchCalls, MatchSteps, NoStop
       DEF DiaryNext
<1>2. CASE UNCHANGED diaryVars
  <2>1. Match
    BY <1>2 DEF Calm, MatchInv, diaryVars
  <2> QED
    BY <1>2, <2>1 DEF diaryVars, Match, Suits, Has, Live, Changing, Course, SwapSteps
<1> QED
  BY <1>1, <1>2

LEMMA MatchAlways == DiarySpec => []MatchInv
BY MatchInit, MatchKeeps, SerialAlways, Always, PTL DEF DiarySpec

\* While requests are handled one at a time and to their end, no cancelled session
\* is given another time and no request is moved before its approval, no
\* appointment loses its booking: through any number of exchanges, restored
\* exchanges, moves, follow-ups, approvals and reschedules a card's booking is at
\* the card's time, and live unless its session is cancelled or a status button
\* was pressed.
THEOREM CardsAndBookingsAgree == DiarySpec => []CardsMatchCalendar
<1>1. SerialInv /\ MatchInv => CardsMatchCalendar
  <2> SUFFICES ASSUME SerialInv, MatchInv, AtRest, odd \cap {"overlap", "halfway", "unmoved"} = {},
                      NEW j \in Cards, Linked(j), card[j].session # "cancelled"
               PROVE  /\ seat[card[j].seat].at = card[j].at
                      /\ "button" \in odd \/ Live(card[j].seat)
    BY DEF CardsMatchCalendar
  <2>1. Match
    BY DEF MatchInv, Calm
  <2>2. Suits(j)
    BY <2>1, MatchRest
  <2> QED
    BY <2>2 DEF Suits, Has, Linked
<1> QED
  BY <1>1, SerialAlways, MatchAlways, PTL

-----------------------------------------------------------------------------
(* The numbers of the sessions *)

\* The cards a count of sessions finds.
LEMMA CountOrder ==
    ASSUME NEW r,
           \A j \in Cards : Exists(j) /\ r \in {j, card[j].root}
                            => Exists(j)' /\ r \in {j, card'[j].root}
    PROVE  Counted(r) \in Nat /\ Counted(r)' \in Nat /\ Counted(r) <= Counted(r)'
<1> DEFINE S == {j \in Cards : Exists(j) /\ r \in {j, card[j].root}}
           T == {j \in Cards : Exists(j)' /\ r \in {j, card'[j].root}}
<1>1. S \subseteq T /\ T \subseteq Cards
  OBVIOUS
<1>2. IsFiniteSet(T)
  BY <1>1, DiaryAssumption, FS_Subset
<1>3. IsFiniteSet(S) /\ Cardinality(S) <= Cardinality(T)
  BY <1>1, <1>2, FS_Subset
<1>4. Cardinality(S) \in Nat /\ Cardinality(T) \in Nat
  BY <1>2, <1>3, FS_CardinalityType
<1>5. Counted(r) = Cardinality(S)
  BY DEF Counted
<1>6. Counted(r)' = Cardinality(T)
  BY DEF Counted
<1> QED
  BY <1>3, <1>4, <1>5, <1>6

LEMMA CountSame ==
    ASSUME NEW r,
           \A j \in Cards : (Exists(j) /\ r \in {j, card[j].root})
                            <=> (Exists(j)' /\ r \in {j, card'[j].root})
    PROVE  Counted(r)' = Counted(r)
<1> DEFINE S == {j \in Cards : Exists(j) /\ r \in {j, card[j].root}}
           T == {j \in Cards : Exists(j)' /\ r \in {j, card'[j].root}}
<1>1. S = T
  OBVIOUS
<1>2. Counted(r) = Cardinality(S)
  BY DEF Counted
<1>3. Counted(r)' = Cardinality(T)
  BY DEF Counted
<1> QED
  BY <1>1, <1>2, <1>3

\* One card more is found.
LEMMA CountNext ==
    ASSUME NEW r, NEW x \in Cards,
           ~(Exists(x) /\ r \in {x, card[x].root}), Exists(x)' /\ r \in {x, card'[x].root},
           \A j \in Cards \ {x} : (Exists(j) /\ r \in {j, card[j].root})
                                  <=> (Exists(j)' /\ r \in {j, card'[j].root})
    PROVE  Counted(r) \in Nat /\ Counted(r)' = Counted(r) + 1
<1> DEFINE S == {j \in Cards : Exists(j) /\ r \in {j, card[j].root}}
           T == {j \in Cards : Exists(j)' /\ r \in {j, card'[j].root}}
<1>1. S \in SUBSET Cards /\ T \in SUBSET Cards /\ x \notin S /\ x \in T /\ S \ {x} = T \ {x}
  OBVIOUS
<1>2. Counted(r) = Cardinality(S)
  BY DEF Counted
<1>3. Counted(r)' = Cardinality(T)
  BY DEF Counted
<1> HIDE DEF S, T
<1>4. Cardinality(S) \in Nat /\ Cardinality(T) = Cardinality(S) + 1
  <2>1. IsFiniteSet(Cards)
    BY DiaryAssumption
  <2> QED
    BY <1>1, <2>1, OneElement
<1> QED
  BY <1>2, <1>3, <1>4

\* A card that exists is counted with its own sessions.
LEMMA CountPositive ==
    ASSUME NEW r \in Cards, Exists(r)
    PROVE  Counted(r) \in Nat /\ Counted(r) # 0
<1> DEFINE S == {j \in Cards : Exists(j) /\ r \in {j, card[j].root}}
<1>1. IsFiniteSet(S) /\ r \in S
  BY DiaryAssumption, FS_Subset
<1>2. Cardinality(S) \in Nat /\ Cardinality(S) # 0
  BY <1>1, FS_CardinalityType, FS_EmptySet
<1>3. Counted(r) = Cardinality(S)
  BY DEF Counted
<1> QED
  BY <1>2, <1>3

\* A step that numbers no card and takes none away.
LEMMA NumbersStay ==
    ASSUME DiaryInv, Numbers,
           \A j \in Cards : /\ Exists(j) => Exists(j)'
                            /\ card'[j].root = card[j].root
                            /\ card[j].root # NoCard => card'[j].index = card[j].index
    PROVE  Numbers'
<1>1. ASSUME NEW j \in Cards, card'[j].root # NoCard
      PROVE  Exists(j)' /\ Exists(card[j].root)' /\ card'[j].index <= Counted(card[j].root)'
  <2>1. PICK r \in Cards : r = card[j].root
    BY <1>1, Tables DEF CardRows
  <2>2. Exists(j) /\ Exists(r) /\ card[j].index <= Counted(r) /\ card[j].index \in Nat
    BY <1>1, <2>1, Tables DEF Numbers, CardRows
  <2>3. Counted(r) \in Nat /\ Counted(r)' \in Nat /\ Counted(r) <= Counted(r)'
    BY CountOrder
  <2>4. card'[j].index <= Counted(r)'
    BY <1>1, <2>2, <2>3
  <2>5. card'[j].root = r
    BY <2>1
  <2>6. Exists(j)' /\ Exists(r)'
    BY <2>2
  <2> QED
    BY <2>4, <2>5, <2>6 DEF Exists, Counted
<1>2. \A i, j \in Cards :
        card'[i].root # NoCard /\ card'[i].root = card'[j].root /\ card'[i].index = card'[j].index => i = j
  BY DEF Numbers
<1> QED
  BY <1>1, <1>2 DEF Numbers

LEMMA NumberGoes ==
    ASSUME DiaryInv, Serial, Numbers', NEW s \in Staff, ~StaffAt(s, "idle"),
           NEW row, StaffBecomes(s, row), Numbering(row)'
    PROVE  Numbered'
<1>1. staff'[s] = row /\ \A q \in Staff \ {s} : staff'[q].pc = "idle"
  BY BusyStep DEF Serial
<1>2. \A q \in Staff : Numbering(staff[q])'
  BY <1>1 DEF Numbering
<1> QED
  BY <1>2 DEF Numbered

LEMMA NumberArrives ==
    ASSUME DiaryInv, Calm', Numbers', NEW s \in Staff, NEW row, Call(s, row), Numbering(row)'
    PROVE  Numbered'
<1>1. staff'[s] = row /\ \A q \in Staff \ {s} : staff'[q].pc = "idle"
  BY Arrives
<1>2. \A q \in Staff : Numbering(staff[q])'
  BY <1>1 DEF Numbering
<1> QED
  BY <1>2 DEF Numbered

\* The steps after which a handler numbers no session.
QuietSteps == SwapSteps \cup {"moveSeat", "followUndo"}

LEMMA NumberQuiet ==
    ASSUME DiaryInv, Serial, Numbers', NEW s \in Staff, ~StaffAt(s, "idle"),
           StaffDone(s) \/ \E pc \in QuietSteps : StaffGoes(s, pc)
    PROVE  Numbered'
<1>1. CASE StaffDone(s)
  <2>1. PICK row : row = IdleStaff
    OBVIOUS
  <2>2. StaffBecomes(s, row) /\ row.pc = "idle"
    BY <1>1, <2>1 DEF StaffDone, IdleStaff
  <2>3. Numbering(row)'
    BY <2>2 DEF Numbering
  <2> QED
    BY <2>2, <2>3, NumberGoes
<1>2. ASSUME NEW pc \in QuietSteps, StaffGoes(s, pc) PROVE Numbered'
  <2>1. PICK row : row = [staff[s] EXCEPT !.pc = pc]
    OBVIOUS
  <2>2. StaffBecomes(s, row) /\ row.pc = pc
    BY <1>2, <2>1, Knows DEF StaffGoes, StaffRows
  <2>3. Numbering(row)'
    BY <2>2 DEF Numbering, QuietSteps, SwapSteps
  <2> QED
    BY <2>2, <2>3, NumberGoes
<1> QED
  BY <1>1, <1>2

LEMMA NumberCalls ==
    ASSUME DiaryInv, Serial, Numbered, Calm', NEW s \in Staff, StaffCalls(s)
    PROVE  Numbered'
<1>0. card \in [Cards -> CardRows]
  BY Tables
<1>1. ASSUME UNCHANGED card PROVE Numbers'
  BY <1>1, NumbersStay DEF Numbered, Exists
<1>2. ASSUME UNCHANGED card, NEW row, Call(s, row),
             row.pc \in {"idle", "create", "moveCard", "swapCancel", "sessionSeat", "clearLinks",
                        "rescheduleCard"}
      PROVE  Numbered'
  <2>1. Numbering(row)'
    BY <1>2 DEF Numbering
  <2> QED
    BY <1>1, <1>2, <2>1, NumberArrives
<1>3. ASSUME NEW t \in Times, Create(s, t) PROVE Numbered'
  <2>1. PICK row : row = [IdleStaff EXCEPT !.pc = "create", !.at = t]
    OBVIOUS
  <2>2. row.pc = "create"
    BY <2>1 DEF IdleStaff
  <2>3. Call(s, row) /\ UNCHANGED card
    BY <1>3, <2>1 DEF Create
  <2> QED
    BY <1>2, <2>2, <2>3
<1>4. ASSUME NEW j \in Cards, NEW t \in Times, Move(s, j, t) PROVE Numbered'
  <2>1. PICK row : row = [IdleStaff EXCEPT !.pc = "moveCard", !.card = j, !.at = t, !.seat = card[j].seat]
    OBVIOUS
  <2>2. row.pc = "moveCard"
    BY <2>1 DEF IdleStaff
  <2>3. Call(s, row) /\ UNCHANGED card
    BY <1>4, <2>1 DEF Move
  <2> QED
    BY <1>2, <2>2, <2>3
<1>5. ASSUME NEW i \in Cards, NEW j \in Cards, Swap(s, i, j) PROVE Numbered'
  <2>1. PICK row : row = [IdleStaff EXCEPT !.pc = "swapCancel", !.card = i, !.other = j,
                                      !.seat = card[i].seat, !.at = card[i].at,
                                      !.otherSeat = card[j].seat, !.otherAt = card[j].at]
    OBVIOUS
  <2>2. row.pc = "swapCancel"
    BY <2>1 DEF IdleStaff
  <2>3. Call(s, row) /\ UNCHANGED card
    BY <1>5, <2>1 DEF Swap
  <2> QED
    BY <1>2, <2>2, <2>3
<1>6. ASSUME NEW j \in Cards, NEW t \in Times, FollowUp(s, j, t) PROVE Numbered'
  <2>1. PICK root : root = IF card[j].root = NoCard THEN j ELSE card[j].root
    OBVIOUS
  <2>2. PICK row : row = [IdleStaff EXCEPT !.pc = "followSeat", !.card = j, !.at = t, !.root = root]
    OBVIOUS
  <2>3. row.pc = "followSeat" /\ row.root = root
    BY <2>2 DEF IdleStaff
  <2>4. Call(s, row) /\ UNCHANGED card /\ Exists(j)
    BY <1>6, <2>1, <2>2 DEF FollowUp
  <2>5. root \in Cards /\ Exists(root)
    BY <1>0, <2>1, <2>4 DEF Numbered, Numbers, CardRows
  <2>6. Numbering(row)'
    BY <2>3, <2>4, <2>5 DEF Numbering, Exists
  <2> QED
    BY <1>1, <2>4, <2>6, NumberArrives
<1>7. ASSUME NEW j \in Cards, CancelSeat(s, j) PROVE Numbered'
  <2>1. PICK row : row = [IdleStaff EXCEPT !.pc = "cancelCard", !.card = j]
    OBVIOUS
  <2>2. Call(s, row) /\ UNCHANGED card /\ Exists(j)
    BY <1>7, <2>1 DEF CancelSeat
  <2>3. row.pc = "cancelCard" /\ row.card = j
    BY <2>1 DEF IdleStaff
  <2>4. Numbering(row)'
    BY <2>2, <2>3 DEF Numbering, Exists
  <2> QED
    BY <1>1, <2>2, <2>4, NumberArrives
<1>8. ASSUME NEW j \in Cards, NEW st \in {"planned", "done", "cancelled"}, SetSession(s, j, st)
      PROVE  Numbered'
  <2>1. PICK row : row = IF card[j].seat = NoSeat THEN IdleStaff
                    ELSE [IdleStaff EXCEPT !.pc = "sessionSeat", !.seat = card[j].seat, !.session = st]
    OBVIOUS
  <2>2. Call(s, row) /\ card' = [card EXCEPT ![j].session = st]
    BY <1>8, <2>1 DEF SetSession
  <2>3. row.pc \in {"idle", "sessionSeat"}
    BY <2>1 DEF IdleStaff
  <2>4. \A i \in Cards : card'[i].root = card[i].root /\ card'[i].index = card[i].index
                         /\ card'[i].status = card[i].status
    BY <1>0, <2>2 DEF CardRows
  <2>5. Numbers'
    BY <2>4, NumbersStay DEF Numbered, Exists
  <2>6. Numbering(row)'
    BY <2>3 DEF Numbering
  <2> QED
    BY <2>2, <2>5, <2>6, NumberArrives
<1>9. CASE ClearSeats(s)
  <2>1. PICK row : row = [IdleStaff EXCEPT !.pc = "clearLinks"]
    OBVIOUS
  <2>2. Call(s, row) /\ UNCHANGED card
    BY <1>9, <2>1 DEF ClearSeats
  <2>3. row.pc = "clearLinks"
    BY <2>1 DEF IdleStaff
  <2> QED
    BY <1>2, <2>2, <2>3
<1>10. ASSUME NEW b \in Seats, Approve(s, b) PROVE Numbered'
  <2>0. PICK j, t : j = Min(FreeCards) /\ t = seat[b].asked
    OBVIOUS
  <2> DEFINE new == [NoCardRow EXCEPT !.status = "booked", !.seat = b, !.at = t, !.index = 1,
                                      !.squeezed = TRUE]
  <2>1. PICK row : row = [IdleStaff EXCEPT !.pc = "approveSeat", !.seat = b, !.at = t]
    OBVIOUS
  <2>2. /\ Call(s, row) /\ card' = [card EXCEPT ![j] = new]
        /\ j \in Cards /\ card[j].status = "none"
    BY <1>10, <2>0, <2>1, FreeRows DEF Approve
  <2>3. new.status = "booked" /\ new.root = NoCard
    BY DEF NoCardRow
  <2> HIDE DEF new
  <2>4. card[j].root = NoCard
    BY <2>2 DEF Numbered, Numbers, Exists
  <2>5. Numbers'
    BY <1>0, <2>2, <2>3, <2>4, NumbersStay DEF Numbered, Exists
  <2>6. row.pc = "approveSeat"
    BY <2>1 DEF IdleStaff
  <2>7. Numbering(row)'
    BY <2>6 DEF Numbering
  <2> QED
    BY <2>2, <2>5, <2>7, NumberArrives
<1>11. ASSUME NEW b \in Seats, NEW t \in Times, Reschedule(s, b, t) PROVE Numbered'
  <2>1. PICK row : row = [IdleStaff EXCEPT !.pc = "rescheduleCard", !.seat = b, !.at = t]
    OBVIOUS
  <2>2. Call(s, row) /\ UNCHANGED card
    BY <1>11, <2>1 DEF Reschedule
  <2>3. row.pc = "rescheduleCard"
    BY <2>1 DEF IdleStaff
  <2> QED
    BY <1>2, <2>2, <2>3
<1> QED
  BY <1>3, <1>4, <1>5, <1>6, <1>7, <1>8, <1>9, <1>10, <1>11 DEF StaffCalls

LEMMA NumberCards ==
    ASSUME DiaryInv, Serial, Numbered, NEW s \in Staff,
           \/ CreateInsert(s) \/ MoveCard(s) \/ SwapCards(s) \/ CancelCard(s) \/ ClearLinks(s)
           \/ RescheduleCard(s)
    PROVE  Numbered'
<1>1. ~StaffAt(s, "idle") /\ (StaffDone(s) \/ StaffGoes(s, "moveSeat")) /\ "moveSeat" \in QuietSteps
  BY DEF CreateInsert, MoveCard, SwapCards, CancelCard, ClearLinks, RescheduleCard, StaffAt, QuietSteps
<1>2. CASE CreateInsert(s)
  <2> DEFINE row == [NoCardRow EXCEPT !.status = "booked", !.seat = Min(FreeSeats), !.at = staff[s].at,
                                      !.index = 1]
  <2>1. PICK j \in Cards : card[j].status = "none" /\ (UNCHANGED card \/ card' = [card EXCEPT ![j] = row])
    BY <1>2, FreeRows DEF CreateInsert
  <2>2. row.status = "booked" /\ row.root = NoCard
    BY DEF NoCardRow
  <2> HIDE DEF row
  <2>3. card[j].root = NoCard
    BY <2>1 DEF Numbered, Numbers, Exists
  <2>4. Numbers'
    BY <2>1, <2>2, <2>3, Tables, NumbersStay DEF Numbered, Exists
  <2> QED
    BY <1>1, <2>4, NumberQuiet
<1>3. ASSUME NEW j \in Cards, MoveCard(s)
      PROVE  card'[j].root = card[j].root /\ card'[j].index = card[j].index /\ card'[j].status = card[j].status
  <2>1. card' = [card EXCEPT ![staff[s].card].at = staff[s].at, ![staff[s].card].squeezed = FALSE]
    BY <1>3 DEF MoveCard
  <2> QED
    BY <2>1, Tables DEF CardRows
<1>4. ASSUME NEW j \in Cards, SwapCards(s) \/ RescheduleCard(s)
      PROVE  card'[j].root = card[j].root /\ card'[j].index = card[j].index /\ card'[j].status = card[j].status
  BY <1>4, SwapCardsWrite, RescheduleWrite
<1>5. ASSUME NEW j \in Cards, ClearLinks(s)
      PROVE  card'[j].root = card[j].root /\ card'[j].index = card[j].index /\ card'[j].status = card[j].status
  <2>1. card'[j] = [card[j] EXCEPT !.seat = NoSeat]
    BY <1>5 DEF ClearLinks
  <2> QED
    BY <2>1, Tables DEF CardRows
<1>6. ASSUME NEW j \in Cards, CancelCard(s)
      PROVE  card'[j].root = card[j].root /\ card'[j].index = card[j].index /\ (Exists(j) => Exists(j)')
  <2>1. PICK i, st : /\ i = staff[s].card /\ st = IF card[i].status = "deleted" THEN card[i].status ELSE "rejected"
                     /\ card' = [card EXCEPT ![i].status = st, ![i].seat = NoSeat, ![i].at = NoTime]
    BY <1>6 DEF CancelCard
  <2>2. Exists(i) /\ i \in Cards
    BY <1>6, <2>1, Knows DEF Numbered, Numbering, CancelCard, StaffAt, WellFormed
  <2>3. st = "rejected"
    BY <2>1, <2>2 DEF Exists
  <2>4. CASE i = j
    <3>1. card'[j] = [card[j] EXCEPT !.status = "rejected", !.seat = NoSeat, !.at = NoTime]
      BY <2>1, <2>2, <2>3, <2>4, Tables
    <3>2. card'[j].root = card[j].root /\ card'[j].index = card[j].index /\ card'[j].status = "rejected"
      BY <3>1, Tables DEF CardRows
    <3> QED
      BY <3>2 DEF Exists
  <2>5. CASE i # j
    <3>1. card'[j] = card[j]
      BY <2>1, <2>2, <2>5, Tables
    <3> QED
      BY <3>1 DEF Exists
  <2> QED
    BY <2>4, <2>5
<1>7. MoveCard(s) \/ SwapCards(s) \/ CancelCard(s) \/ ClearLinks(s) \/ RescheduleCard(s) => Numbers'
  BY <1>3, <1>4, <1>5, <1>6, NumbersStay DEF Numbered, Exists
<1> QED
  BY <1>1, <1>2, <1>7, NumberQuiet

LEMMA NumberSeats ==
    ASSUME DiaryInv, Serial, Numbered, NEW s \in Staff,
           \/ MoveSeat(s) \/ SwapCancel(s) \/ SwapMove(s) \/ SwapConfirm(s) \/ SwapRestore(s)
           \/ SessionSeat(s) \/ FollowUndo(s) \/ ApproveSeat(s)
    PROVE  Numbered'
<1>1. UNCHANGED card /\ ~StaffAt(s, "idle")
  BY DEF MoveSeat, SwapCancel, SwapMove, SwapConfirm, SwapRestore, SessionSeat, FollowUndo,
         ApproveSeat, StaffAt
<1>2. StaffDone(s) \/ \E pc \in QuietSteps : StaffGoes(s, pc)
  BY DEF MoveSeat, SwapCancel, SwapMove, SwapConfirm, SwapRestore, SessionSeat, FollowUndo,
         ApproveSeat, QuietSteps, SwapSteps
<1>3. Numbers'
  BY <1>1, NumbersStay DEF Numbered, Exists
<1> QED
  BY <1>1, <1>2, <1>3, NumberQuiet

LEMMA NumberFollowSeat ==
    ASSUME DiaryInv, Serial, Numbered, NEW s \in Staff, FollowSeat(s)
    PROVE  Numbered'
<1>1. staff[s].pc = "followSeat" /\ ~StaffAt(s, "idle") /\ UNCHANGED card /\ staff[s] \in StaffRows
  BY Knows DEF FollowSeat, StaffAt
<1>2. Numbers' /\ staff[s].root \in Cards /\ Exists(staff[s].root)
  BY <1>1, NumbersStay DEF Numbered, Numbering, Exists
<1>3. CASE StaffDone(s)
  BY <1>1, <1>2, <1>3, NumberQuiet
<1>4. CASE StaffBecomes(s, [staff[s] EXCEPT !.pc = "followCount", !.seat = Min(FreeSeats)])
  <2>1. PICK row : row = [staff[s] EXCEPT !.pc = "followCount", !.seat = Min(FreeSeats)]
    OBVIOUS
  <2>2. row.pc = "followCount" /\ row.root = staff[s].root /\ StaffBecomes(s, row)
    BY <1>1, <1>4, <2>1 DEF StaffRows
  <2>3. Numbering(row)'
    BY <1>1, <1>2, <2>2 DEF Numbering, Exists
  <2> QED
    BY <1>1, <1>2, <2>2, <2>3, NumberGoes
<1> QED
  BY <1>3, <1>4 DEF FollowSeat

LEMMA NumberFollowCount ==
    ASSUME DiaryInv, Serial, Numbered, NEW s \in Staff, FollowCount(s)
    PROVE  Numbered'
<1>1. staff[s].pc = "followCount" /\ ~StaffAt(s, "idle") /\ UNCHANGED card /\ staff[s] \in StaffRows
  BY Knows DEF FollowCount, StaffAt
<1>2. PICK r \in Cards : r = staff[s].root /\ Exists(r)
  BY <1>1 DEF Numbered, Numbering
<1>3. PICK n : n = Counted(r)
  OBVIOUS
<1>4. n \in Nat /\ n # 0 /\ Counted(r)' = n
  BY <1>1, <1>2, <1>3, CountPositive, CountSame DEF Exists
<1>5. StaffBecomes(s, [staff[s] EXCEPT !.pc = "followCard", !.index = IF n = 0 THEN 2 ELSE n + 1])
  BY <1>2, <1>3 DEF FollowCount
<1>6. PICK row : row = [staff[s] EXCEPT !.pc = "followCard", !.index = n + 1]
  OBVIOUS
<1>7. StaffBecomes(s, row)
  BY <1>4, <1>5, <1>6
<1>8. row.pc = "followCard" /\ row.root = r /\ row.index = n + 1
  BY <1>1, <1>2, <1>6 DEF StaffRows
<1>9. Exists(r)'
  BY <1>1, <1>2 DEF Exists
<1>10. Numbering(row)'
  <2>1. PICK m : m = row.root
    OBVIOUS
  <2>2. Exists(m)' /\ m \in Cards /\ row.index = Counted(m)' + 1
    BY <1>4, <1>8, <1>9, <2>1
  <2> QED
    BY <1>8, <2>1, <2>2 DEF Numbering, Exists, Counted
<1>11. Numbers'
  BY <1>1, NumbersStay DEF Numbered, Exists
<1> QED
  BY <1>1, <1>7, <1>10, <1>11, NumberGoes

LEMMA NumberFollowCard ==
    ASSUME DiaryInv, Serial, Numbered, NEW s \in Staff, FollowCard(s)
    PROVE  Numbered'
<1>1. staff[s].pc = "followCard" /\ ~StaffAt(s, "idle") /\ staff[s] \in StaffRows
  BY Knows DEF FollowCard, StaffAt
<1>2. PICK r \in Cards : r = staff[s].root /\ Exists(r) /\ staff[s].index = Counted(r) + 1
  BY <1>1 DEF Numbered, Numbering
<1>3. CASE UNCHANGED card /\ (StaffDone(s) \/ StaffGoes(s, "followUndo"))
  <2>1. Numbers'
    BY <1>3, NumbersStay DEF Numbered, Exists
  <2> QED
    BY <1>1, <1>3, <2>1, NumberQuiet DEF QuietSteps
<1>0. PICK j : j = Min(FreeCards)
  OBVIOUS
<1> DEFINE new == [NoCardRow EXCEPT !.status = "booked", !.seat = staff[s].seat, !.at = staff[s].at]
<1>4. CASE FreeCards # {} /\ card' = [card EXCEPT ![j] = new]
           /\ StaffBecomes(s, [staff[s] EXCEPT !.pc = "followIndex", !.new = j])
  <2>1. j \in Cards /\ card[j].status = "none" /\ ~Exists(j)
    BY <1>0, <1>4, FreeRows DEF Exists
  <2>2. new.status = "booked" /\ new.root = NoCard
    BY DEF NoCardRow
  <2> HIDE DEF new
  <2>3. card'[j] = new /\ \A i \in Cards \ {j} : card'[i] = card[i]
    BY <1>4, <2>1, Tables
  <2>4. card[j].root = NoCard /\ j # r
    BY <1>2, <2>1 DEF Numbered, Numbers
  <2>5. \A i \in Cards : (Exists(i) => Exists(i)') /\ card'[i].root = card[i].root
                         /\ (card[i].root # NoCard => card'[i].index = card[i].index)
    BY <2>1, <2>2, <2>3, <2>4 DEF Exists
  <2>6. Numbers'
    BY <2>5, NumbersStay DEF Numbered
  <2>7. Counted(r)' = Counted(r)
    <3>1. NoCard # r
      BY DiaryAssumption
    <3>2. \A i \in Cards : (Exists(i) /\ r \in {i, card[i].root}) <=> (Exists(i)' /\ r \in {i, card'[i].root})
      BY <2>1, <2>2, <2>3, <2>4, <3>1 DEF Exists
    <3> QED
      BY <3>2, CountSame
  <2>8. Exists(r)' /\ Exists(j)' /\ card'[j].root = NoCard
    BY <1>2, <2>2, <2>3, <2>5 DEF Exists
  <2>9. PICK row : row = [staff[s] EXCEPT !.pc = "followIndex", !.new = j]
    OBVIOUS
  <2>10. /\ row.pc = "followIndex" /\ row.new = j /\ row.root = r /\ row.index = staff[s].index
         /\ StaffBecomes(s, row)
    BY <1>1, <1>2, <1>4, <2>9 DEF StaffRows
  <2>11. row.index = Counted(r)' + 1
    BY <1>2, <2>7, <2>10
  <2>12. Numbering(row)'
    BY <2>1, <2>4, <2>8, <2>10, <2>11 DEF Numbering, Exists, Counted
  <2> QED
    BY <1>1, <2>6, <2>10, <2>12, NumberGoes
<1> QED
  BY <1>0, <1>3, <1>4 DEF FollowCard

LEMMA NumberFollowIndex ==
    ASSUME DiaryInv, Serial, Numbered, NEW s \in Staff, FollowIndex(s)
    PROVE  Numbered'
<1>1. PICK j \in Cards :
         /\ j = staff[s].new /\ staff[s].pc = "followIndex" /\ StaffDone(s)
         /\ \A i \in Cards \ {j} : card'[i] = card[i]
         /\ card'[j].status = card[j].status
         /\ \/ card'[j].root = staff[s].root /\ card'[j].index = staff[s].index
            \/ card'[j].root = card[j].root
  BY FollowIndexWrite
<1>2. PICK r \in Cards : /\ r = staff[s].root /\ Exists(r) /\ staff[s].index = Counted(r) + 1
                         /\ Exists(j) /\ card[j].root = NoCard /\ j # r
  BY <1>1 DEF Numbered, Numbering
<1>3. ~StaffAt(s, "idle") /\ Numbers /\ NoCard \notin Cards
  BY <1>1, DiaryAssumption DEF StaffAt, Numbered
<1>4. \A i \in Cards : Exists(i) <=> Exists(i)'
  BY <1>1 DEF Exists
<1>5. CASE card'[j].root = card[j].root
  <2>1. Numbers'
    BY <1>1, <1>2, <1>3, <1>4, <1>5, NumbersStay
  <2> QED
    BY <1>1, <1>3, <2>1, NumberQuiet
<1>6. CASE card'[j].root = r /\ card'[j].index = Counted(r) + 1
  <2>1. Counted(r) \in Nat /\ Counted(r)' = Counted(r) + 1
    <3>1. ~(Exists(j) /\ r \in {j, card[j].root}) /\ Exists(j)' /\ r \in {j, card'[j].root}
      BY <1>2, <1>3, <1>4, <1>6
    <3>2. \A i \in Cards \ {j} : (Exists(i) /\ r \in {i, card[i].root})
                                 <=> (Exists(i)' /\ r \in {i, card'[i].root})
      BY <1>1, <1>4
    <3> QED
      BY <3>1, <3>2, CountNext
  <2>2. ASSUME NEW i \in Cards \ {j}, card[i].root # NoCard
        PROVE  Exists(i)' /\ Exists(card[i].root)' /\ card'[i].index <= Counted(card[i].root)'
    <3>1. PICK q \in Cards : q = card[i].root
      BY <2>2, Tables DEF CardRows
    <3>2. Exists(i) /\ Exists(q) /\ card[i].index <= Counted(q) /\ card[i].index \in Nat
      BY <1>3, <2>2, <3>1, Tables DEF Numbers, CardRows
    <3>3. \A m \in Cards : Exists(m) /\ q \in {m, card[m].root} => Exists(m)' /\ q \in {m, card'[m].root}
      BY <1>1, <1>2, <1>3, <1>4
    <3>4. Counted(q) \in Nat /\ Counted(q)' \in Nat /\ Counted(q) <= Counted(q)'
      BY <3>3, CountOrder
    <3>5. card'[i].index <= Counted(q)'
      BY <1>1, <3>2, <3>4
    <3>6. card'[i].root = q /\ Exists(i)' /\ Exists(q)'
      BY <1>1, <1>4, <3>1, <3>2
    <3> QED
      BY <3>5, <3>6 DEF Exists, Counted
  <2>3. Exists(j)' /\ Exists(card[j].root)' /\ card'[j].index <= Counted(card[j].root)'
    <3>1. card'[j].index <= Counted(r)'
      BY <1>6, <2>1
    <3>2. Exists(j)' /\ Exists(r)'
      BY <1>2, <1>4
    <3> QED
      BY <1>6, <3>1, <3>2 DEF Exists, Counted
  <2>4. \A i \in Cards : card'[i].root # NoCard =>
           Exists(i)' /\ Exists(card[i].root)' /\ card'[i].index <= Counted(card[i].root)'
    <3>1. \A i \in Cards \ {j} : card'[i].root = card[i].root
      BY <1>1
    <3> QED
      BY <2>2, <2>3, <3>1
  <2>5. ASSUME NEW i \in Cards \ {j}, card'[i].root = r PROVE card'[i].index # card'[j].index
    <3>1. card[i].root # NoCard /\ card[i].root = r /\ card'[i].index = card[i].index
      BY <1>1, <1>3, <2>5
    <3>2. card[i].index <= Counted(r) /\ card[i].index \in Nat
      BY <1>3, <3>1, Tables DEF Numbers, CardRows
    <3> QED
      BY <1>6, <2>1, <3>1, <3>2
  <2>6. ASSUME NEW i \in Cards, NEW m \in Cards, card'[i].root # NoCard, card'[i].root = card'[m].root,
               card'[i].index = card'[m].index
        PROVE  i = m
    <3>1. CASE i # j /\ m # j
      BY <1>1, <1>3, <2>6, <3>1 DEF Numbers
    <3>2. CASE i = j \/ m = j
      BY <1>6, <2>5, <2>6, <3>2
    <3> QED
      BY <3>1, <3>2
  <2>7. Numbers'
    BY <2>4, <2>6 DEF Numbers
  <2> QED
    BY <1>1, <1>3, <2>7, NumberQuiet
<1> QED
  BY <1>1, <1>2, <1>5, <1>6

LEMMA NumberInit == DiaryInit => NumberInv
<1> SUFFICES ASSUME DiaryInit PROVE Numbered
  BY DEF NumberInv
<1> DEFINE Card(x) == [NoCardRow EXCEPT !.status = "booked", !.seat = x.seat, !.at = x.at, !.index = 1]
<1>1. \A j \in Cards : \/ card[j] = NoCardRow
                       \/ \E x \in Begun : card[j] = Card(x)
  BY DEF DiaryInit
<1>2. NoCardRow.root = NoCard /\ \A x \in Begun : Card(x).root = NoCard
  BY DEF NoCardRow
<1> HIDE DEF Card
<1>3. \A j \in Cards : card[j].root = NoCard
  BY <1>1, <1>2
<1>4. \A s \in Staff : Numbering(staff[s])
  BY DEF DiaryInit, IdleStaff, Numbering
<1> QED
  BY <1>3, <1>4 DEF Numbered, Numbers

LEMMA NumberSteps ==
    ASSUME DiaryInv, Serial, Numbered, NEW s \in Staff, StaffStep(s)
    PROVE  Numbered'
BY NumberCards, NumberSeats, NumberFollowSeat, NumberFollowCount, NumberFollowCard, NumberFollowIndex
   DEF StaffStep

LEMMA NumberOthers ==
    ASSUME Numbered, UNCHANGED <<card, staff>>
    PROVE  Numbered'
BY DEF Numbered, Numbers, Numbering, Exists, Counted

LEMMA NumberKeeps == DiaryInv /\ SerialInv /\ NumberInv /\ [DiaryNext]_diaryVars => NumberInv'
<1> SUFFICES ASSUME DiaryInv, SerialInv, NumberInv, [DiaryNext]_diaryVars, Calm', "deleted" \notin odd'
             PROVE  Numbered'
  BY DEF NumberInv
<1>1. CASE DiaryNext
  <2>1. Serial /\ Numbered
    BY <1>1, OddGrows DEF Calm, SerialInv, NumberInv
  <2>2. ASSUME NEW j \in Cards, DeleteCard(j) PROVE FALSE
    BY <2>2 DEF DeleteCard
  <2>3. CASE \/ MonthLoad \/ \E t \in Times : OtherBooks(t)
             \/ \E b \in Seats, status \in {"confirmed", "cancelled", "done", "no_show"} :
                   SetBookingStatus(b, status)
    BY <2>1, <2>3, NumberOthers DEF MonthLoad, OtherBooks, SetBookingStatus
  <2> QED
    BY <1>1, <2>1, <2>2, <2>3, NumberCalls, NumberSteps, NoStop DEF DiaryNext
<1>2. CASE UNCHANGED diaryVars
  <2>1. Numbered
    BY <1>2 DEF Calm, NumberInv, diaryVars
  <2> QED
    BY <1>2, <2>1, NumberOthers DEF diaryVars
<1> QED
  BY <1>1, <1>2

LEMMA NumberAlways == DiarySpec => []NumberInv
BY NumberInit, NumberKeeps, SerialAlways, Always, PTL DEF DiarySpec

\* While requests are handled one at a time and to their end, and no card is
\* deleted, the sessions of one job have numbers of their own: the number is read
\* by a count that finds every session there is, so it is above all of theirs.
THEOREM SessionsNumbered == DiarySpec => []SessionNumbers
<1>1. NumberInv => SessionNumbers
  <2> SUFFICES ASSUME NumberInv, odd \cap {"overlap", "halfway", "deleted"} = {} PROVE Numbers
    BY DEF SessionNumbers, Numbers
  <2> QED
    BY DEF NumberInv, Numbered, Calm
<1> QED
  BY <1>1, NumberAlways, PTL
=============================================================================
