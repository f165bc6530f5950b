\* Two handlers in flight that book, cancel, override and check in, in one room.
SPECIFICATION RaceSpec
CONSTANTS
    ann = ann
    bob = bob
    sam = sam
    ghost = ghost
    m1 = m1
    b1 = b1
    b2 = b2
    r1 = r1
    r2 = r2
    Ids = {ann, sam, ghost}
    Users = {ann, sam}
    Staff = {sam}
    Rooms = {m1}
    Resvs = {b1, b2}
    Reqs = {r1, r2}
    Capacities = {2}
    GuestLists <- GhostOrNone
    Instants <- ThreeInstants
    Horizon = 1
    Ops <- BookingOps
    Faults = FALSE
    MaxDuration = 2
    MaxAdvance = 3
    CheckInBefore = 1
SYMMETRY SlotsAndResvs
INVARIANTS
    DoubleBookingNeedsRace
    SecondActiveNeedsRace
    NoticesAreTrue
    ClosedToNewcomers
PROPERTIES
    ReservationsOnlyClose
VIEW DuoView
