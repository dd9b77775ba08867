SPECIFICATION MCSpec
CONSTANTS
    CrateCount = 3
    Text = {"first", "second", "broken"}
    Complete = {"first", "second"}
    Absent = Absent
    MaxEdits = 0
    MaxRuns = 1
INVARIANT
    VectorsNameTheirError
CHECK_DEADLOCK FALSE
