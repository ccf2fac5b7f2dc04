CONSTANTS
    Budgets = {0}
    Extent <- RootOnly
    RootChunk = 4
    Align = 2
    Page = 4
    MinChunk = 4
    Sizes = {1}
    Params = {0, 1}
    ForeignMarks = FALSE
    GradInHelper = TRUE
    MaxEvents = 3
    MaxWindows = 3
SPECIFICATION Spec
INVARIANT SlotsIntact
CHECK_DEADLOCK FALSE
