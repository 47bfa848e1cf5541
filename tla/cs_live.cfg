CONSTANTS
    c1 = c1  c2 = c2  c3 = c3
    Clients = {c1, c2, c3}
    MaxSockets = 2
    AS_SQ = 2
    ConsoleCommands = {}
    Faults = {}
SPECIFICATION FairSpec
PROPERTIES
    QueuedIsListed
    SomeContactDispatched
    LateTimerIsLost
CHECK_DEADLOCK FALSE
