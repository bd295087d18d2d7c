SPECIFICATION FairSpec
CONSTANTS
    ClientOpens = {a}
    ServerDials = {b}
    ServerOpens = {c}
    ClientDials = {d}
    OverflowThreshold = 3
    Capacity = 1
    WireCap = 1
    MaxChunks = 2
    Senders = {a, d}
    Ends = {}
    Faults = {"dial"}
INVARIANTS IdsNeverCollide StreamIntegrity AckPrecedesData
PROPERTIES OpenAnswered
CHECK_DEADLOCK FALSE
