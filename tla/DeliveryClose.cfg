SPECIFICATION FairSpec
CONSTANTS
    Emitters = {e1}
    Configured = 2
    MaxQueued = 1
    Closeable = {1, 2}
    Limit = 1
    MaxEmits = 1
    MaxFallbacks = 3
    MaxCloses = 2
INVARIANTS
    CloseAccountsForAll
    LateCountedOnce
PROPERTIES
    EmitReturns
    CloseIsBounded
CHECK_DEADLOCK FALSE
