SPECIFICATION Spec
CONSTANTS
    Contexts = {c1, c2}
    Requests = {r1}
    Operations = {o1, o2}
    Decorators = {d}
    Supplied = {}
    Keys = {k}
    DispatchKeys = {k}
    Texts = {v}
    Numbers = {}
    Floats = {}
    Statuses = {500}
    MaxMessages = 2
    None = None
SYMMETRY ScopeSymmetry
CHECK_DEADLOCK FALSE
INVARIANTS
    TypeOK
    CompletedOnce
    InnermostActive
    NoForeignRequestId
    ErrorsStayInFlow
