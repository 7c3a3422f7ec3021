\* A process death between the rename and the upsert.
SPECIFICATION Spec
CONSTANTS
    r1 = r1  r2 = r2
    NoRun = NoRun
    Runs = {r1, r2}
    MaxSets = 0  MaxTexts = 0  MaxCrashes = 1  Reselect = FALSE
    Failing = {}
INVARIANTS TranscriptMatches
CHECK_DEADLOCK FALSE
