\* Gemini late, busy, garbled or silent; a tick is 200 ms.
SPECIFICATION FairSpec
CONSTANTS
    Rooms = {m1, m2}
    north = north
    south = south
    piano = piano
    Rows <- MCRows
    Filters <- MCFilters
    Queries <- MCQueries
    MaxCapacity = 2
    HasKey = {TRUE, FALSE}
    Timeout = 25
    Pause = 2
    Faults = TRUE
INVARIANTS
    AnswersAreHonest
    PageFiltersAgree
PROPERTIES
    FreeRoomsAreOffered
    SearchesSettle
