SPECIFICATION ChatsAndConfirmations
CONSTANTS
    MaxEvents = 3
    Operator = {"o1", "o2"}
    Name = {n}
    Kind = {"run", "destroy", "garbage"}
    Connector = {"k1", "k2"}
    Process = {"p1", "p2"}
    None = none
    Entry = {"ws", "webhook"}
    MaxDeliveries = 2
    MaxFaults = 1
    MaxUnbinds = 1
    MaxExpiries = 1
INVARIANTS AtMostOnce AcknowledgedOnce AnswersTrue NoSpuriousReplay ConfirmedOnce
PROPERTIES ChatAnswered
CHECK_DEADLOCK FALSE
