CONSTANTS
    Servers = {s1, s2}
    Clients = {c1}
    StartPort = 3
    EndPort = 3
    PortLimit = 4
    WidePort = 1
    Ephemeral = {1, 2}
    None = None
SPECIFICATION Spec
INVARIANT FileNamesPort
CHECK_DEADLOCK FALSE
