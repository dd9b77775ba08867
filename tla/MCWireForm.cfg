SPECIFICATION MCSpec
CONSTANTS
    CrateCount = 3
    Text = {"first", "second", "broken"}
    Complete = {"first", "second"}
    Absent = Absent
    MaxEdits = 0
    MaxRuns = 1
INVARIANT
    CeremonyVerifiesItself
CHECK_DEADLOCK FALSE
