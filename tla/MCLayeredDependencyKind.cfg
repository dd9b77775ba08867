SPECIFICATION MCSpec
CONSTANTS
    Hash <- MCHash
    Kind <- MCKind
    LayeredKinds <- MCLayeredKinds
    NoHash = NoHash
    Malformed = Malformed
    MaxMembers = 2
    MaxSupplied = 3
INVARIANT
    DependencyKindAdmitted
CHECK_DEADLOCK FALSE
