\* What Gemini reads goes to the database as it is; no query fails by itself.
SPECIFICATION Spec
CONSTANTS
    Rooms = {m1, m2}
    north = north
    south = south
    piano = piano
    Rows <- MCRows
    Filters <- PlainOrRefused
    Queries <- MCQueries
    MaxCapacity = 2
    HasKey = {TRUE, FALSE}
    Timeout = 25
    Pause = 2
    Faults = FALSE
INVARIANT SearchSurvivesGemini
