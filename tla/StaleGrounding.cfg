\* One run, one ingest of a selected source that ends after it, no failure.
SPECIFICATION Spec
CONSTANTS
    r1 = r1  r2 = r2
    NoRun = NoRun
    Runs = {r1}
    MaxSets = 0  MaxTexts = 1  MaxCrashes = 0  Reselect = FALSE
    Failing = {}
INVARIANTS ReadyIsCurrent
CHECK_DEADLOCK FALSE
