\* A process death inside set_terminal_pending.
SPECIFICATION Spec
CONSTANTS
    s1 = s1  c1 = c1
    None = None  NotebookId = NotebookId
    Sources = {s1}
    PdfSources = {}
    Indexed0 = {s1}
    Coords = {c1}
    Switchers = {}
    MaxGen = 1  MaxVer = 1  MaxHash = 1  QueueCap = 1  MaxCrashes = 1
    Ops = {"ingest", "park"}
    Fallible = {}
INVARIANTS IndexedFindable
CHECK_DEADLOCK FALSE
