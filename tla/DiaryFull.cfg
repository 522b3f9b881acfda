\* Two customers on two days: an approval or a reschedule puts one on the other's day.
CONSTANTS
    s1 = s1
    s2 = s2
    Cards = {1, 2, 3, 4}
    Seats = {1, 2, 3, 4}
    Days = {1, 2, 3}
    Hours = {1, 2}
    Staff = {s1, s2}
    Begun <- MCBegun
    MaxCalls = 3
    MeetCost = 2
    NoCard = NoCard
    NoSeat = NoSeat
    NoTime = NoTime
SPECIFICATION DiarySpec
SYMMETRY MCStaff
INVARIANT DayIsFull
CHECK_DEADLOCK FALSE
