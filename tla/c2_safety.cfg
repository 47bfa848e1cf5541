CONSTANTS
    c1 = c1  c2 = c2  c3 = c3
    Clients = {c1, c2, c3}
    MaxSockets = 2
    AS_SQ = 2
    ConsoleCommands = {"START", "STOP", "EXIT", "WAIT"}
    Faults = {"thread", "winsock", "reset"}
SPECIFICATION Spec
SYMMETRY Symmetry
INVARIANTS
    TypeOK
    AcceptedAreListed
    AcceptOnListening
    ReturnsUnused
PROPERTIES
    ImplementsRegistry
CHECK_DEADLOCK FALSE
