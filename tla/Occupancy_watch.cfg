CONSTANTS
    a = a  b = b  a1 = a1  a2 = a2  b1 = b1
    NoOne = NoOne
    Client <- TwoClients
    Proc <- TwoProcs
    Host <- HostOfTwo
    Watcher = {"lease", "tick"}
    Fault = {"down", "timeout"}
    MaxGen = 2
    MaxEpoch = 0
    MaxLate = 0
SPECIFICATION FairSpec
PROPERTIES FencedPanesEnd
CHECK_DEADLOCK FALSE
