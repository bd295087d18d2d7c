SPECIFICATION Spec
CONSTANTS
    Resolvers = {"r1", "r2"}
    Refreshers = {}
    Forcers = {"g"}
    Logins = {"l"}
    Logouts = {"o"}
    EnvTasks = {"r2"}
    OneProcess = {"r1", "g"}
    Keychain = TRUE
    MaxTokens = 3
    MaxExpired = 1
    Sessions = {"ac"}
    Faults = {"reject"}
CHECK_DEADLOCK FALSE
INVARIANTS
    OneWriter
    RotatedNeverSent
    LatestRead
    OwnClient
    LogoutSticks
