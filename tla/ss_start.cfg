CONSTANTS
    Servers = {s1, s2}
    Clients = {c1}
    StartPort = 1
    EndPort = 2
    PortLimit = 4
    WidePort = 1
    Ephemeral = {3}
    None = None
SPECIFICATION FairSpec
INVARIANTS ReachesTheWriter FileIsWhole StatusIsTruth
PROPERTIES StartEnds
CHECK_DEADLOCK FALSE
