SPECIFICATION Spec
CONSTANTS
    Daemon = {d1, d2}
    None = none
    Inherits = TRUE
    MaxTroubles = 2
INVARIANT Supervised
CHECK_DEADLOCK FALSE
