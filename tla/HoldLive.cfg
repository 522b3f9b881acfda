\* Every lapsed hold is settled, and its slot given back, as long as somebody
\* keeps opening the studio's list.
CONSTANTS
    r1 = r1
    r2 = r2
    b1 = b1
    b2 = b2
    w1 = w1
    w2 = w2
    Requests = {r1}
    Bookings = {b1, b2}
    Workers = {w1, w2}
    Slots <- MCOneSlot
    Free = {r1}
    NoRequest = NoRequest
    NoBooking = NoBooking
    Enabled <- MCLive
SPECIFICATION FairSpec
PROPERTIES
    LapsedHoldIsSettled
    LapsedLockIsReleased
