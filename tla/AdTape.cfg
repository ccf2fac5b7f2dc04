CONSTANTS
    Backends = {"interp", "jit"}
    Leaves <- TwoParams
    Ops = {"add", "sub", "mul"}
    MaxNodes = 5
SPECIFICATION Spec
INVARIANTS
    InterpExact
    PartialSumsExact
    JitExactUnlessShared
CHECK_DEADLOCK FALSE
