CONSTANTS
    c1 = c1  c2 = c2  c3 = c3  c4 = c4
    Clients = {c1, c2, c3, c4}
    Kind <- EachKind
    NoClient = NoClient
    MaxCount = 1
    Faults = {}
SPECIFICATION FairSpec
PROPERTIES
    SentIsAnswered
CHECK_DEADLOCK FALSE
