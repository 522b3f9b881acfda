\* One clerk at a time: the total copied to a session becomes a payment of its own.
CONSTANTS
    f1 = f1
    c1 = c1
    c2 = c2
    s1 = s1
    s2 = s2
    Primary = Primary
    Sessions = {f1}
    PayIds = {1, 2, 3, 4, 5, 6}
    Clerks = {c1}
    Amounts = {1}
    Prices = {0, 2}
    Opening = 1
    MaxRequests = 3
    NoPay = NoPay
    Cards = {1, 2}
    Seats = {1, 2}
    Days = {1, 2}
    Hours = {1, 2}
    Staff = {s1}
    Begun <- MCBegun
    MaxCalls = 0
    MeetCost = 1
    NoCard = NoCard
    NoSeat = NoSeat
    NoTime = NoTime
SPECIFICATION ViewSpec
INVARIANT MoneyOnce
CHECK_DEADLOCK FALSE
