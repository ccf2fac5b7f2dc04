CONSTANTS
    Limit = 3
    Bounded = TRUE
    Requests <- RequestsWithNegative
    Sizes = {1}
    MaxSlots = 3
    GenMod = 4
    MaxCarves = 3
    MaxReaps = 2
    MaxExtents = 3
    MaxFrames = 4
    MaxWindows = 2
    MaxUsed = 3
SPECIFICATION Spec
INVARIANTS
    TypeOK
    StaleExact
    Loc
    NothingInReaped
    RegisterFollowsExtents
    MarkComesHome
    Solvent
    ForgeIsACeiling
PROPERTY ImplementsTree
CONSTRAINT Corners
CHECK_DEADLOCK FALSE
