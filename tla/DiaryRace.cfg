\* Two customers on two days, two staff members, three requests, of which one may
\* meet another; and one licence, two phones and two handlers that may stop half-way.
CONSTANTS
    s1 = s1
    s2 = s2
    Cards = {1, 2, 3, 4}
    Seats = {1, 2, 3, 4}
    Days = {1, 2, 3}
    Hours = {1, 2}
    Staff = {s1, s2}
    Begun <- MCBegun
    MaxCalls = 3
    MeetCost = 2
    NoCard = NoCard
    NoSeat = NoSeat
    NoTime = NoTime
    d1 = d1
    d2 = d2
    k1 = k1
    k2 = k2
    Phones = {d1, d2}
    RowIds = {1, 2, 3}
    Workers = {s1, s2}
    KeyPairs = {k1, k2}
    MaxPhones = 2
    NoPhone = NoPhone
    NoKeyPair = NoKeyPair
SPECIFICATION BothSpec
SYMMETRY MCStaff
INVARIANTS
    NoDoubleBooking
    CardsMatchCalendar
    OneCardPerDay
    SessionNumbers
    CounterIsExact
    BoundOnce
    OnePrimaryKey
PROPERTY OnlyUpdateOvershoots
\* The bound on requests ends a behaviour.
CHECK_DEADLOCK FALSE
