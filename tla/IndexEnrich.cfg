\* Two indexed sources, which may be trashed and restored, and the enrichment
\* worker with failing calls, a process death, a start-up GC that may fail.
SPECIFICATION Spec
CONSTANTS
    s1 = s1  s2 = s2  c1 = c1
    None = None  NotebookId = NotebookId
    Sources = {s1, s2}
    PdfSources = {}
    Indexed0 = {s1, s2}
    Coords = {c1}
    Switchers = {}
    MaxGen = 3  MaxVer = 1  MaxHash = 1  QueueCap = 2  MaxCrashes = 1
    Ops = {"enrich", "rescan", "trash", "restore", "llm_error"}
    Fallible = {"persist", "create", "add", "drop", "gc_tables"}
INVARIANTS IndexedFindable
PROPERTIES UnlockedStepsKeepIndex
CHECK_DEADLOCK FALSE
