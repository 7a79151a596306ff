CONSTANTS
    a = a  b = b  a1 = a1  a2 = a2  b1 = b1
    NoOne = NoOne
    Client <- TwoClients
    Proc <- TwoProcs
    Host <- HostOfTwo
    Watcher = {}
    Fault = {"down", "torn"}
    MaxGen = 3
    MaxEpoch = 1
    MaxLate = 0
SPECIFICATION Spec
INVARIANTS  SavedWasGranted
CHECK_DEADLOCK FALSE
