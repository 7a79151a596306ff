CONSTANTS
    a = a  b = b  a1 = a1  a2 = a2  b1 = b1
    NoOne = NoOne
    Client <- TwoClients
    Proc <- ThreeProcs
    Host <- HostOfThree
    Watcher = {}
    Fault = {"timeout"}
    MaxGen = 2
    MaxEpoch = 1
    MaxLate = 1
SPECIFICATION Spec
PROPERTIES VerifiedUndisturbed   
SYMMETRY SameHost
CHECK_DEADLOCK FALSE
