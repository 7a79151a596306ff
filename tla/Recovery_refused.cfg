CONSTANTS
    Order <- TwoTunnels
    Tick = {"k"}
    Look = {}
    FailThreshold = 2
    MaxAttempts = 2
    Backoff <- Waits
    Longest = 2
    Circuit = 1
    MaxRebuilds = 1
    RebuildBackoff <- RebuildWaits
    Warmup = 1
    TurnWindow = 1
    TurnRecheck = 1
    MaxAge = 1
    MaxChanges = 2
    MaxCrashes = 0
SPECIFICATION FairSpec
PROPERTIES FailedAttemptsBackOff
CHECK_DEADLOCK FALSE
