SPECIFICATION Spec
CONSTANTS
    FastAPICalls = {a1, a2}
    FlaskCalls = {f1, f2}
    Thread = thread
    Statuses = {200, 500}
    MaxInstalls = 2
    MaxBroken = 1
    None = None
SYMMETRY CallSymmetry
INVARIANTS
    InstallIsAtomic
    RecordTellsAnswer
    RoutesAreCurrent
    ThreadIsClean
PROPERTY ImplementsRuntime
CHECK_DEADLOCK FALSE
