SPECIFICATION Spec
CONSTANTS
    Emitters = {e1}
    Configured = 1
    MaxQueued = 0
    Closeable = {1}
    Limit = 1
    MaxEmits = 1
    MaxFallbacks = 2
    MaxCloses = 1
INVARIANT WriterClosedOnce
CHECK_DEADLOCK FALSE
