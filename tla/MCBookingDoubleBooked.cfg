\* Two handlers that book.
SPECIFICATION Spec
CONSTANTS
    ann = ann
    bob = bob
    sam = sam
    ghost = ghost
    m1 = m1
    b1 = b1
    b2 = b2
    r1 = r1
    r2 = r2
    Ids = {ann, sam}
    Users = {ann, sam}
    Staff = {sam}
    Rooms = {m1}
    Resvs = {b1, b2}
    Reqs = {r1, r2}
    Capacities = {2}
    GuestLists <- NoGuests
    Instants <- ThreeInstants
    Horizon = 0
    Ops = {"create"}
    Faults = FALSE
    MaxDuration = 2
    MaxAdvance = 3
    CheckInBefore = 1
SYMMETRY Slots
INVARIANTS
    NoDoubleBooking
