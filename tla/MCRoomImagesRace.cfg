\* Two handlers in flight, two rooms, faults.
SPECIFICATION Spec
CONSTANTS
    Rooms = {m1, m2}
    Files = {f1, f2, f3}
    Reqs = {r1, r2}
    Faults = TRUE
    NoPhoto = NoPhoto
    NoRow = NoRow
SYMMETRY Names
INVARIANTS
    NoDanglingPhoto
    LeftOverTakesTrouble
    PhotoChangesAudited
PROPERTIES
    ImplementsGallery
