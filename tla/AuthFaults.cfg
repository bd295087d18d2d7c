SPECIFICATION FairSpec
CONSTANTS
    Resolvers = {"r"}
    Refreshers = {"f"}
    Forcers = {"g"}
    Logins = {}
    Logouts = {"o"}
    EnvTasks = {"f"}
    OneProcess = {"r","g"}
    Keychain = TRUE
    MaxTokens = 3
    MaxExpired = 0
    Sessions = {"none","ac"}
    Faults = {"network","disk","outage","crash","revoke"}
CHECK_DEADLOCK FALSE
PROPERTIES
    CallersEnd
