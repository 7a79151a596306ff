SPECIFICATION FairSpec
CONSTANTS
    Client = {a, b}
    Hub = hub
    None = none
    Hash <- MCHash
    Size <- MCSize
    Kind = {"stamped", "bare"}
    Command = {"push", "pull", "pull_one"}
    MaxEvents = 2
    MaxCommands = 2
    MaxCuts = 1
PROPERTIES Converges
