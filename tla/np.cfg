CONSTANTS
    c1 = c1  c2 = c2  c3 = c3  c4 = c4
    Clients = {c1, c2, c3, c4}
    Kind <- EachKind
    NoClient = NoClient
    MaxCount = 2
    Faults = {"crash", "kill", "create"}
SPECIFICATION FairSpec
INVARIANTS
    TypeOK
    NothingDiscarded
PROPERTIES
    ImplementsService
    CallersServed
    ExitObeyed
CHECK_DEADLOCK FALSE
