CONSTANTS
    Order <- TwoTunnels
    Tick = {"k"}
    Look = {"d"}
    FailThreshold = 2
    MaxAttempts = 2
    Backoff <- Waits
    Longest = 2
    Circuit = 1
    MaxRebuilds = 1
    RebuildBackoff <- RebuildWaits
    Warmup = 1
    TurnWindow = 1
    TurnRecheck = 1
    MaxAge = 1
    MaxChanges = 2
    MaxCrashes = 1
    Run = {w1, w2, c1}
    Waiting = {w1, w2}
    NoRun = NoRun
    ReadsAge = TRUE
    MaxKills = 1
    MaxAges = 1
    Daemon = {"a"}
    MaxKeys = 2
    One <- OneClient
    Two <- TwoClients
SPECIFICATION BackgroundSpec
INVARIANTS  OneCarries CredentialsOpen
PROPERTIES RecoversAfterStreak StaysTried  InstallationSpreads
CHECK_DEADLOCK FALSE
