CONSTANTS
    c1 = c1  c2 = c2
    Clients = {c1, c2}
    MaxSockets = 2
    AS_SQ = 2
    ConsoleCommands = {"EXIT"}
    Faults = {}
SPECIFICATION FairSpec
PROPERTIES
    ExitIsObeyed
CHECK_DEADLOCK FALSE
