SPECIFICATION MCSpec
CONSTANTS
    Hash <- MCHash
    Kind <- MCKind
    LayeredKinds <- MCLayeredKinds
    LayeredPackKinds <- MCLayeredPackKinds
    Digest <- MCDigest
    PackKind <- MCPackKind
    NoHash = NoHash
    NoDigest = NoDigest
    NotAString = NotAString
    Absent = Absent
    Malformed = Malformed
    MaxReceipts = 2
INVARIANTS
    ValidMeansClosed
    CycleNeverDecides
    ErrorsExplainStatus
    OrderIrrelevantWhenDistinct
    PartsAreLayeredPacks
PROPERTIES
    DecidesClosure
CHECK_DEADLOCK FALSE
