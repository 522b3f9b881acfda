\* A tattoo request beside other bookings of two overlapping times, which the
\* calendar's buttons confirm, cancel, revive and move.
CONSTANTS
    r1 = r1
    r2 = r2
    b1 = b1
    b2 = b2
    w1 = w1
    w2 = w2
    Requests = {r1}
    Bookings = {b1, b2}
    Workers = {w1, w2}
    Slots <- MCTwoSlots
    Free = {}
    NoRequest = NoRequest
    NoBooking = NoBooking
    Enabled <- MCCalendar
SYMMETRY MCRaceSymmetry
SPECIFICATION Spec
PROPERTY ImplementsSlotLock
