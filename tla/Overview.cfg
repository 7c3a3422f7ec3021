\* Two overlapping runs, two source changes, an ingest that ends, every failure, a process death.
SPECIFICATION FairSpec
CONSTANTS
    r1 = r1  r2 = r2
    NoRun = NoRun
    Runs = {r1, r2}
    MaxSets = 2  MaxTexts = 1  MaxCrashes = 1  Reselect = FALSE
    Failing = {"backend", "enter", "dialogue", "synth", "rename", "ready_row", "failed_row"}
INVARIANTS TypeOK LiveIsRegistered ReadyHasFile ReadyIsChosen
PROPERTIES SlotFreed
CHECK_DEADLOCK FALSE
