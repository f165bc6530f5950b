\* Two images, one of them unsound, under one script; a tick is 3 seconds.
SPECIFICATION FairSpec
CONSTANTS
    Newest = 2
    Sound = {1}
    Deps = {db, vault}
    Callers = {curl, docker}
    Script = curl
    Retries = 3
    TTL = 2
INVARIANTS
    SchemaCoversRunning
    RollBackTakesTwoFailures
PROPERTIES
    HealthIsRecent
    ImplementsRollout
    ReleaseEnds
