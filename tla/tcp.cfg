CONSTANTS
    c1 = c1  c2 = c2
    Clients = {c1, c2}
    NoClient = NoClient
    MaxCount = 2
    Faults = {"crash", "abort", "kill", "winsock", "split"}
SPECIFICATION FairSpec
INVARIANTS
    TypeOK
    EchoedOnce
PROPERTIES
    ImplementsService
    OffHasCause
    QueueMoves
    OrderEnds
CHECK_DEADLOCK FALSE
