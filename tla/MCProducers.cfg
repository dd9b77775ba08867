SPECIFICATION MCSpec
CONSTANTS
    CrateCount = 3
    Text = {"first", "second", "broken"}
    Complete = {"first", "second"}
    Absent = Absent
    MaxEdits = 1
    MaxRuns = 2
INVARIANTS
    DoneMeansCoherent
    ChainIsOneRun
    VectorsTellTruth
PROPERTY
    UndisturbedRunSucceeds
CHECK_DEADLOCK FALSE
