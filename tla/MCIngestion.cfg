SPECIFICATION MCSpec
CONSTANTS
    MaxNodes = 4
INVARIANTS
    AcceptsExactlyWithin
    WorkIsBounded
    WorkIsEarned
    ElementsStandAlone
PROPERTY
    DecidesIngestion
CHECK_DEADLOCK FALSE
