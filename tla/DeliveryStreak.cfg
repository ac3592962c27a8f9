SPECIFICATION Spec
CONSTANTS
    Emitters = {e1, e2}
    Configured = 1
    MaxQueued = 0
    Closeable = {1}
    Limit = 2
    MaxEmits = 2
    MaxFallbacks = 3
    MaxCloses = 0
INVARIANT DisabledOnlyAfterStreak
CHECK_DEADLOCK FALSE
