\* A hold that lapses between the two statements of the sweep.
CONSTANTS
    r1 = r1
    r2 = r2
    b1 = b1
    b2 = b2
    w1 = w1
    w2 = w2
    Requests = {r1}
    Bookings = {b1, b2}
    Workers = {w1}
    Slots <- MCOneSlot
    Free = {}
    NoRequest = NoRequest
    NoBooking = NoBooking
    Enabled <- MCLateClock
SPECIFICATION Spec
INVARIANT ReleasedWhenExpired
