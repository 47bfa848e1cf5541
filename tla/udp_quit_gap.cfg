CONSTANTS
    c1 = c1  c2 = c2
    Clients = {c1, c2}
    NoClient = NoClient
    Capacity = 4
    MaxCount = 1
    Faults = {}
SPECIFICATION FairSpec
PROPERTIES
    EveryAnswerArrives
CHECK_DEADLOCK FALSE
