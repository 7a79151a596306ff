SPECIFICATION PartsSpec
CONSTANTS
    a = a  b = b
    NoOne = NoOne  Torn = Torn  NoClient = NoClient
    Client <- TwoClients
    claimant = a
    MaxGen = 2
    Server = host  Container = {c1, c2}  Command = {p}
    MaxAgents = 3  MaxFaults = 1  MaxWorld = 3
    MaxMessage = 2  MaxTick = 3  MaxBlind = 1
    MaxRows = 3  MaxClaims = 3  MaxCuts = 1
    Me = Me  Other = Other  MaxChange = 1
    Freezer = {i, j}  MaxTime = 3  MaxCommand = 2
INVARIANTS  SwitchKeepsAll
INVARIANTS ContinuesAll PlanHonoured EntryAgrees
PROPERTIES   RowsKept OldBindingKept
SYMMETRY Interchangeable
CHECK_DEADLOCK FALSE
