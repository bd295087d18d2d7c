SPECIFICATION FairSpec
CONSTANTS
    Fields = {"f", "g"}
    Inputs = {"f", "x"}
    Definitions <- MCDefinitions
    Options <- MCOptions
    MaxRetries = 1
INVARIANT NoStrandedReference
INVARIANT MirrorAgrees
INVARIANT FactsBalance
INVARIANT NoGateUnattended
PROPERTY UnattendedEnds
CHECK_DEADLOCK FALSE
