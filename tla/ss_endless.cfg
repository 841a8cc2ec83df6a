CONSTANTS
    Servers = {s1}
    Clients = {c1}
    StartPort = 2
    EndPort = 3
    PortLimit = 4
    WidePort = 1
    Ephemeral = {1}
    None = None
SPECIFICATION FairSpec
PROPERTY SearchEnds
CHECK_DEADLOCK FALSE
