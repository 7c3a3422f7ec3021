\* A process death between the pointer update and the flip.
SPECIFICATION Spec
CONSTANTS
    s1 = s1  c1 = c1  c2 = c2  w1 = w1
    None = None  NotebookId = NotebookId
    Sources = {s1}
    PdfSources = {}
    Indexed0 = {s1}
    Coords = {c1, c2}
    Switchers = {w1}
    MaxGen = 1  MaxVer = 1  MaxHash = 1  QueueCap = 1  MaxCrashes = 1
    Ops = {"switch"}
    Fallible = {}
INVARIANTS IndexedFindable
CHECK_DEADLOCK FALSE
