SPECIFICATION FairSpec
CONSTANTS
    Client = {a, b}
    Hub = hub
    None = none
    Hash <- MCHash
    Size <- MCSize
    Kind = {"stamped"}
    Command = {}
    MaxEvents = 3
    MaxCommands = 0
    MaxCuts = 0
INVARIANTS OwnWritesKept
PROPERTIES NewestWins
