CONSTANTS
    s1 = s1  s2 = s2
    h1 = h1  h2 = h2
    b1 = b1  c1 = c1
    Servers = {s1, s2}
    Hosts = {h1, h2}
    Askers = {b1}
    Callers = {c1}
    Named = h1
    Nobody = Nobody
    Faults = {"check", "kill", "crash", "loss"}
SPECIFICATION FairSpec
INVARIANTS
    TypeOK
    OneAnswerEach
    ListeningNeedsError
PROPERTIES
    ImplementsCallSign
CHECK_DEADLOCK FALSE
