CONSTANTS
    c1 = c1  c2 = c2  c3 = c3
    Clients = {c1, c2, c3}
    NoClient = NoClient
    Capacity = 2
    MaxCount = 1
    Faults = {"crash", "kill", "winsock", "empty"}
SPECIFICATION FairSpec
INVARIANTS
    TypeOK
    OneOutstanding
PROPERTIES
    ImplementsService
    LossHasCause
    AnsweredOrLost
CHECK_DEADLOCK FALSE
