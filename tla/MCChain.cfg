SPECIFICATION MCSpec
CONSTANTS
    Hash <- MCHash
    NoParent = NoParent
    Context <- TwoDigests
    Policy <- TwoDigests
    Schema <- TwoDigests
    OtherChains <- MCOtherChains
    MaxChain = 3
    MaxTime = 3
INVARIANTS
    FlagsMatchRules
    DuplicateNeverDecides
    HeadCommitsChain
PROPERTY
    DecidesChain
CHECK_DEADLOCK FALSE
