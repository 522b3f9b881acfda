\* Two settlements of one business requested at a time.
CONSTANTS
    d1 = d1
    d2 = d2
    d3 = d3
    k1 = k1
    x1 = x1
    x2 = x2
    h1 = h1
    h2 = h2
    t1 = t1
    Devices = {d1, d2, d3}
    Rows = {1, 2, 3}
    Activations = {h1, h2}
    MaxDevices = 2
    MaxTokens = 4
    NoDevice = NoDevice
    NoRow = NoRow
    Bookings = {k1}
    Settlements = {x1, x2}
    Handlers = {h1, h2}
    MarketPrices = {1, 5}
    Rules <- MCRules
    MaxOpened = 2
    MaxHandled = 4
    NoBooking = NoBooking
    NoKey = NoKey
    People = {1, 2}
    SameName <- MCSameName
    Visits = {1, 2, 3}
    Slots = {t1}
    Customers = {h1, h2}
    Owners = {x1, x2}
    MaxOwned = 2
    Anybody = Anybody
    Waiters = {1, 2, 3}
    Releases = {h1, h2}
    Page = 2
    MaxReleases = 3
    Referrals = {x1, x2}
    Syncs = {h1, h2}
    Milestones = {1, 2}
    MaxClub = 1
    NoReferral = NoReferral
    Apprentices = {1, 2}
    Lessons = {1, 2}
    Default <- MCDefault
    Goal = 2
    Boards = {h1, h2}
    MaxBoards = 1
    Nobody = Nobody
    NoLesson = NoLesson
SPECIFICATION DesksSpec
SYMMETRY MCSymmetry
CHECK_DEADLOCK FALSE
INVARIANT ConcurrentSettlementCovered
