\* Two overlapping model switches beside a notebook purge;
\* one process death.
SPECIFICATION Spec
CONSTANTS
    s1 = s1  c1 = c1  c2 = c2  w1 = w1  w2 = w2
    None = None  NotebookId = NotebookId
    Sources = {s1}
    PdfSources = {}
    Indexed0 = {s1}
    Coords = {c1, c2}
    Switchers = {w1, w2}
    MaxGen = 2  MaxVer = 1  MaxHash = 1  QueueCap = 1  MaxCrashes = 1
    Ops = {"switch", "purge_nb"}
    Fallible = {}
INVARIANTS TypeOK UniqueActive ActiveBacked
SYMMETRY Symmetry
CHECK_DEADLOCK FALSE
