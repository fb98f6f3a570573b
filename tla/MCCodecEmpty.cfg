CONSTANTS
    Typed <- SaidNothing
    Lengths <- Boundaries
SPECIFICATION Spec
INVARIANTS HeaderVerifies
CHECK_DEADLOCK FALSE
