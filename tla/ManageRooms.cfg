SPECIFICATION FairSpec
CONSTANTS
    Rooms = {m1, m2}
    NoRoom = NoRoom
    Retry = 1
    Lossy = TRUE
INVARIANTS
    ListShowsWrites
PROPERTIES
    OnlyNewRoomMixes
    CreatedRoomIsListed
    SavingEnds
