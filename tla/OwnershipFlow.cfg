\* Three-block control-flow graphs with the block bodies of Bodies for one
\* root; two roots whose events interleave in the list, damaged events, and
\* allocation failures in both passes.
SPECIFICATION FairSpec
CONSTANTS
    a = a
    b2 = b2
    NBlocks = 3
    Roots = {a, b2}
    MirFunctions <- AllFunctions
INVARIANTS
    TypeOK
    NoInvalidOperation
    ExecutionCovered
    EntryStatesExact
    ClosedAtFinalReturn
PROPERTIES
    OwnershipIsLinear
    Decided
