CONSTANTS
    Budgets = {0, 1}
    Extent <- RootAndChild
    RootChunk = 4
    Align = 2
    Page = 4
    MinChunk = 4
    Sizes = {1, 3, 5}
    Params = {0, 1}
    ForeignMarks = FALSE
    GradInHelper = FALSE
    MaxEvents = 5
    MaxWindows = 2
SPECIFICATION Spec
INVARIANTS
    TypeOK
    BlocksIntact
    SlotsIntact
    GradientsSurvive
    UsedCoversLive
    MarksHold
CONSTRAINT Corners
CHECK_DEADLOCK FALSE
