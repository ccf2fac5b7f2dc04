CONSTANTS
    Unbounded = Unbounded
    Limit = 3
    VaultLimit = 1
    Requests <- RequestsWithNegative
    Sizes = {1}
    MaxSlots = 3
    GenMod = 4
    MaxCarves = 2
    MaxReaps = 2
    MaxDepth = 2
    MaxUsed = 0
SPECIFICATION FairSpec
INVARIANTS
    TypeOK
    StaleExact
    StampMatchesCharge
    Loc
    RegisterFollowsGuards
PROPERTIES
    ImplementsTree
    ErrorRestoresRegister
CHECK_DEADLOCK FALSE
