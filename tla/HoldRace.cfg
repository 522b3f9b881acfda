\* One customer's request and the calendar, two handlers at a time, with
\* crashes between statements and the clock ticking anywhere.
CONSTANTS
    r1 = r1
    r2 = r2
    b1 = b1
    b2 = b2
    w1 = w1
    w2 = w2
    Requests = {r1}
    Bookings = {b1, b2}
    Workers = {w1, w2}
    Slots <- MCOneSlot
    Free = {}
    NoRequest = NoRequest
    NoBooking = NoBooking
    Enabled <- MCRace
SYMMETRY MCRaceSymmetry
SPECIFICATION Spec
INVARIANTS
    NoOverlap
    NoStaleLink
    DebtHasDeadline
    ConfirmedOnlyAfterDeposit
