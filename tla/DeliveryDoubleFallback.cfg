SPECIFICATION Spec
CONSTANTS
    Emitters = {e1, e2}
    Configured = 2
    MaxQueued = 0
    Closeable = {1}
    Limit = 1
    MaxEmits = 1
    MaxFallbacks = 3
    MaxCloses = 0
INVARIANT OneFallback
CHECK_DEADLOCK FALSE
