\* Each of these claims is violated; TLC stops at the first it meets.
SPECIFICATION MCSpec
CONSTANTS
    Hash <- MCHash
    Kind <- MCKind
    LayeredKinds <- MCLayeredKinds
    LayeredPackKinds <- MCLayeredPackKinds
    Digest <- MCDigest
    PackKind <- MCPackKind
    NoHash = NoHash
    NoDigest = NoDigest
    NotAString = NotAString
    Absent = Absent
    Malformed = Malformed
    MaxReceipts = 2
INVARIANTS
    DependencyCountCommitted
    MalformedInputRejected
    TransportOrderIrrelevant
CHECK_DEADLOCK FALSE
