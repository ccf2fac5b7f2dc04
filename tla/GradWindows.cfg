CONSTANTS
    Unbounded = Unbounded
    Limit = 3
    VaultLimit = 0
    Requests = {2}
    Sizes = {1}
    MaxSlots = 3
    GenMod = 4
    MaxCarves = 2
    MaxReaps = 1
    MaxDepth = 1
    MaxUsed = 0
    MaxWindows = 2
    Disconnected = {0}
SPECIFICATION GradSpec
INVARIANTS
    NamedStayCharged
    LocUnlessCrossed
    RechargeUnlessCrossed
CHECK_DEADLOCK FALSE
