CONSTANTS
    Backends = {"jit"}
    Leaves <- TwoParams
    Ops = {"add", "mul"}
    MaxNodes = 5
SPECIFICATION Spec
INVARIANT GradientsExact
CHECK_DEADLOCK FALSE
