SPECIFICATION MCSpec
CONSTANTS
    Hash <- MCHash
    NoHash = NoHash
    MaxMembers = 2
    MaxSupplied = 3
INVARIANT
    UnreferencedIgnored
CHECK_DEADLOCK FALSE
