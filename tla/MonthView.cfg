\* One customer, one follow-up session, two clerks, handlers that stop half-way;
\* and the calendar of two customers with two requests.
CONSTANTS
    f1 = f1
    c1 = c1
    c2 = c2
    s1 = s1
    s2 = s2
    Primary = Primary
    Sessions = {f1}
    PayIds = {1, 2, 3, 4, 5}
    Clerks = {c1, c2}
    Amounts = {1}
    Prices = {0, 2}
    Opening = 1
    MaxRequests = 3
    NoPay = NoPay
    Cards = {1, 2, 3}
    Seats = {1, 2, 3}
    Days = {1, 2, 3}
    Hours = {1}
    Staff = {s1, s2}
    Begun <- MCBegun
    MaxCalls = 2
    MeetCost = 1
    NoCard = NoCard
    NoSeat = NoSeat
    NoTime = NoTime
SPECIFICATION ViewFairSpec
INVARIANTS
    NothingLost
    NothingInvented
    TotalIsSum
    SettledIsPaid
PROPERTIES
    BehindIsRepaired
    StrayFollows
\* The bound on requests ends a behaviour.
CHECK_DEADLOCK FALSE
