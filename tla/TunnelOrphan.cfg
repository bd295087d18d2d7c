SPECIFICATION FairSpec
CONSTANTS
    ClientOpens = {a}
    ServerDials = {b}
    ServerOpens = {}
    ClientDials = {}
    OverflowThreshold = 3
    Capacity = 1
    WireCap = 1
    MaxChunks = 0
    Senders = {}
    Ends = {"server"}
    Faults = {"dial"}
PROPERTIES NoOrphanOnRetry
CHECK_DEADLOCK FALSE
