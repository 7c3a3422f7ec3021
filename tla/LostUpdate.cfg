\* An ingest adds vectors between the seed and the flip of another source.
SPECIFICATION Spec
CONSTANTS
    s1 = s1  s2 = s2  c1 = c1
    None = None  NotebookId = NotebookId
    Sources = {s1, s2}
    PdfSources = {}
    Indexed0 = {s1}
    Coords = {c1}
    Switchers = {}
    MaxGen = 2  MaxVer = 1  MaxHash = 1  QueueCap = 2  MaxCrashes = 0
    Ops = {"ingest", "enrich", "rescan"}
    Fallible = {}
INVARIANTS IndexedFindable
CHECK_DEADLOCK FALSE
