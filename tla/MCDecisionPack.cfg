SPECIFICATION MCSpec
CONSTANTS
    Hash <- MCHash
    NoHash = NoHash
    MaxMembers = 2
    MaxSupplied = 3
INVARIANTS
    ChecksTellTheSupply
    ErrorsTellTheirCauses
PROPERTY
    DecidesDecision
CHECK_DEADLOCK FALSE
