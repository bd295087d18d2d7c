SPECIFICATION AnyPeerSpec
CONSTANTS
    ClientOpens = {a}
    ServerDials = {}
    ServerOpens = {}
    ClientDials = {d1, d2}
    OverflowThreshold = 3
    Capacity = 1
    WireCap = 1
    MaxChunks = 0
    Senders = {}
    Ends = {"client", "agent", "transport"}
    Faults = {"dial"}
    PeerIds = {1, 2}
    MaxFrames = 3
INVARIANTS Registered NoLeak BothEofClosed
PROPERTIES StateMonotonic
SYMMETRY DialSymmetry
CHECK_DEADLOCK FALSE
