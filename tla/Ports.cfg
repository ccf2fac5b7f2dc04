CONSTANTS
    Functions <- EachKind
    MaxPorts = 2
    MaxCalls = 3
    InCap = 1
    OutCap = 1
SPECIFICATION Spec
INVARIANTS
    AnswersItsRequest
    ClosedIsReaped
PROPERTIES
    Returns
    ChildrenEnd
CHECK_DEADLOCK FALSE
