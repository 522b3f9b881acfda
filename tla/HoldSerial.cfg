\* Two customers, one handler at a time.
CONSTANTS
    r1 = r1
    r2 = r2
    b1 = b1
    b2 = b2
    w1 = w1
    w2 = w2
    Requests = {r1, r2}
    Bookings = {b1, b2}
    Workers = {w1}
    Slots <- MCTwoSlots
    Free = {r2}
    NoRequest = NoRequest
    NoBooking = NoBooking
    Enabled <- MCSerial
SYMMETRY MCSymmetry
SPECIFICATION Spec
INVARIANTS
    LockHeld
    NoOrphanLock
    ProposalsDisjoint
    SlotAgrees
    BookedIsConfirmed
    DepositOnce
