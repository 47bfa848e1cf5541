CONSTANTS
    s1 = s1  s2 = s2
    c1 = c1  c2 = c2
    Servers = {s1, s2}
    Clients = {c1, c2}
    NoServer = NoServer
    MaxCount = 2
    Faults = {"create", "kill", "crash"}
SPECIFICATION FairSpec
INVARIANTS
    TypeOK
    ReadAsWritten
PROPERTIES
    ImplementsLog
    StopIsLast
CHECK_DEADLOCK FALSE
