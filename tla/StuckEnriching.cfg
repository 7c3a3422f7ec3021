\* A database error in a job, after it has set the status.
SPECIFICATION Spec
CONSTANTS
    s1 = s1  c1 = c1
    None = None  NotebookId = NotebookId
    Sources = {s1}
    PdfSources = {}
    Indexed0 = {s1}
    Coords = {c1}
    Switchers = {}
    MaxGen = 2  MaxVer = 1  MaxHash = 1  QueueCap = 1  MaxCrashes = 0
    Ops = {"enrich", "rescan"}
    Fallible = {"map"}
INVARIANTS EnrichingIsActive
CHECK_DEADLOCK FALSE
