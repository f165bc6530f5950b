\* Four lookups in flight, under fairness.
SPECIFICATION FairSpec
CONSTANTS
    Rooms = {m1, m2}
    Lookups = {l1, l2, l3, l4}
    Timeout = 2
    Threshold = 3
    Cooldown = 4
INVARIANTS
    TypeOK
    OpenBounded
PROPERTIES
    CircuitCloses
    LookupsSettle
