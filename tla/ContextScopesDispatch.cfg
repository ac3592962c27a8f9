SPECIFICATION Spec
CONSTANTS
    Contexts = {c1, c2}
    Requests = {}
    Operations = {o1, o2, o3}
    Decorators = {}
    Supplied = {}
    Keys = {k}
    DispatchKeys = {k}
    Texts = {}
    Numbers = {n}
    Floats = {f}
    Statuses = {}
    MaxMessages = 2
    None = None
SYMMETRY ScopeSymmetry
CHECK_DEADLOCK FALSE
INVARIANT DispatchAttributesSurvive
