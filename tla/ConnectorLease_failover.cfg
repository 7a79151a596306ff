SPECIFICATION FairSpec
CONSTANTS
    Daemon = {d1, d2}
    None = none
    Inherits = TRUE
    MaxTroubles = 2
INVARIANTS GenerationsUnique
PROPERTIES  Served
CHECK_DEADLOCK FALSE
