SPECIFICATION MCSpec
CONSTANTS
    Hash <- MCHash
    Kind <- MCKind
    LayeredKinds <- MCLayeredKinds
    LayeredPackKinds <- MCLayeredPackKinds
    Digest <- MCDigest
    PackKind <- MCPackKind
    NoHash = NoHash
    NoDigest = NoDigest
    NotAString = NotAString
    Absent = Absent
    Malformed = Malformed
    MaxReceipts = 2
INVARIANT
    ManifestNamesRoot
CHECK_DEADLOCK FALSE
