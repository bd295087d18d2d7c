SPECIFICATION Spec
CONSTANTS
    Fields = {"f", "g"}
    Inputs = {"f", "x"}
    Definitions <- MCDefinitions
    Options <- MCOptions
    MaxRetries = 1
INVARIANT NoPromptUnattended
CHECK_DEADLOCK FALSE
