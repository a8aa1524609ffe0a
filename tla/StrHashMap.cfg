\* Four keys, every choice of three hash values: collisions in the first
\* table and in the second, clusters that wrap around the end of either.
SPECIFICATION Spec
CONSTANTS
    Keys = {k1, k2, k3, k4}
    Vals = {0, 1}
    HashValues = {2, 3, 7}
    StartCap = 4
    HoldAcrossDel = FALSE
    Empty = Empty
    NoPtr = NoPtr
SYMMETRY KeySymmetry
INVARIANTS
    PointerValid
    Searchable
PROPERTIES
    ImplementsMap
