CONSTANTS
    ClientA = c  ClientB = d  First = x  Second = y
    NoOne = NoOne
    NoSnapshot = NoSnapshot
    Client <- TwoClients
    Attempt <- TwoAttempts
    Claimant <- OtherClient
    Keep = 1
    Fault = {"disk", "lost", "crash"}
    MaxGen = 1
    MaxEpoch = 1
SPECIFICATION CrashOrInterrupt
INVARIANTS SnapshotsRestorable GatedByRecord MemoryKept ReportTrue
PROPERTIES MachinesStep
CHECK_DEADLOCK FALSE
