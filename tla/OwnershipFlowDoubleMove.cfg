\* One loop of six blocks numbered against the direction of control flow.
SPECIFICATION Spec
CONSTANTS
    a = a
    b2 = b2
    NBlocks = 6
    Roots = {a}
    MirFunctions <- DescendingLoop
INVARIANTS
    NoInvalidOperation
