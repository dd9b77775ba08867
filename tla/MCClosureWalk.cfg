SPECIFICATION MCSpec
CONSTANTS
    Hash <- MCHash
    Kind <- MCKind
    LayeredKinds <- MCLayeredKinds
INVARIANTS
    ReachableIsLeastClosure
    NoCycleMissed
    NoFalseCycle
    OneCheckPerMember
    DepthIsBounded
PROPERTIES
    EveryStepDescends
    WalkTerminates
CHECK_DEADLOCK FALSE
