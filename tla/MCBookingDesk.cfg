\* Two handlers in flight on one reservation, its guests and its room, with faults.
SPECIFICATION RaceSpec
CONSTANTS
    ann = ann
    bob = bob
    sam = sam
    ghost = ghost
    m1 = m1
    b1 = b1
    b2 = b2
    r1 = r1
    r2 = r2
    Ids = {ann, bob, sam}
    Users = {ann, bob, sam}
    Staff = {sam}
    Rooms = {m1}
    Resvs = {b1}
    Reqs = {r1, r2}
    Capacities = {1, 2}
    GuestLists <- SamInvited
    Instants <- TwoInstants
    Horizon = 0
    Ops <- DeskOps
    Faults = TRUE
    MaxDuration = 2
    MaxAdvance = 3
    CheckInBefore = 1
SYMMETRY SlotsAndStudents
INVARIANTS
    OvershootBounded
    RoomOfReservationExists
    AuditLostOnlyByFault
PROPERTIES
    LedgerUntilRaced
VIEW DeskView
