SPECIFICATION Spec
CONSTANTS
    Emitters = {e1, e2}
    Configured = 2
    MaxQueued = 0
    Closeable = {1}
    Limit = 2
    MaxEmits = 2
    MaxFallbacks = 4
    MaxCloses = 0
SYMMETRY EmitterSymmetry
INVARIANTS
    NoBlackout
    EveryDestinationTried
    RemovedIsCleanedUp
    DisabledOnce
PROPERTY DisabledAfterStreak
CHECK_DEADLOCK FALSE
