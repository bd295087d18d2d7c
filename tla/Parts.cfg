SPECIFICATION MCSpec
CONSTANTS
    Calls = {c1, c2}
    Permits = 1
    Capacity = 1
    Faults = {"close", "error", "dup", "stall"}

    \* Both parities and two wraps' worth of ids, with every set of three in use.
    OverflowThreshold = 11
    MaxU64 = 12
    MaxActive = 3

    \* Both roles; timers of a few units that are not multiples of one another.
    Roles = {"client", "server"}
    Interval = 2
    PongTimeout = 3
    IdleTimeout = 3
    PeerDelay = 3
    ChannelCapacity = 1
    Streams = 2
    HeartbeatFaults = {"stall", "data", "local", "cancel"}

    \* One part, one whole chunk, one byte more, two whole chunks, three parts.
    Sizes = {1, 3, 4, 6, 7}
    Chunk = 3
    Concurrency = 2

    \* Three failed attempts in a row; sessions may come and go for ever.
    MaxAttempts = 3
INVARIANTS OwnAnswer NoStaleEntry NoFalseTimeout DetectedInTime ImageWhole NothingReaches CancelWins
PROPERTIES AllocatesNext CommandAnswered RunReturns CtrlCEnds
CHECK_DEADLOCK FALSE
