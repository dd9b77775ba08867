SPECIFICATION MCSpec
CONSTANTS
    Hash <- MCHash
    Kind <- MCKind
    LayeredKinds <- MCLayeredKinds
    NoHash = NoHash
    Malformed = Malformed
    MaxMembers = 2
    MaxSupplied = 3
INVARIANTS
    OrderMattersOnlyForShadows
PROPERTY
    DecidesLayered
CHECK_DEADLOCK FALSE
