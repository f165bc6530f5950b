SPECIFICATION FairSpec
CONSTANTS
    People = {ann, bob}
    Staff = {ann}
    Nobody = Nobody
    Keys = {"me", "mine"}
    Retry = 0
    Lossy = TRUE
INVARIANTS
    TypeOK
    WritesShowUp
    SessionShows
PROPERTIES
    SignOutLeaves
