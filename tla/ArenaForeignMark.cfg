CONSTANTS
    Budgets = {0, 1}
    Extent <- RootAndChild
    RootChunk = 4
    Align = 2
    Page = 4
    MinChunk = 4
    Sizes = {1, 3, 5}
    Params = {0, 1}
    ForeignMarks = TRUE
    GradInHelper = FALSE
    MaxEvents = 5
    MaxWindows = 0
SPECIFICATION Spec
INVARIANT BlocksIntact
CHECK_DEADLOCK FALSE
