SPECIFICATION FairSpec
CONSTANTS
    ClientOpens = {a}
    ServerDials = {b}
    ServerOpens = {}
    ClientDials = {}
    OverflowThreshold = 3
    Capacity = 1
    WireCap = 1
    MaxChunks = 1
    Senders = {a, b}
    Ends = {"server"}
    Faults = {"dial", "read", "write"}
INVARIANTS NoEarlyData
PROPERTIES OpenAnswered HalfCloseCompletes
CHECK_DEADLOCK FALSE
