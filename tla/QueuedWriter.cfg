SPECIFICATION BlockingSpec
CONSTANTS
    Records = {r1, r2, r3}
    Stop = Stop
    Capacity = 2
    BatchSize = 2
    MaxCloses = 2
INVARIANTS
    TypeOK
    TaskAccounting
    StrandedOnlyIfRacing
    CleanCloseMeansDrained
    WriterClosedAtExit
PROPERTIES
    ImplementsSink
    CallersReturn
    WorkerStops
    QueuedIsSettled
CHECK_DEADLOCK FALSE
