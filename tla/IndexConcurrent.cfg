\* Ingest of a plain and of a PDF source, enrichment, and a notebook purge that
\* a restore may overtake, their lock windows and lock-free builds interleaved.
SPECIFICATION Spec
CONSTANTS
    s1 = s1  s2 = s2  c1 = c1
    None = None  NotebookId = NotebookId
    Sources = {s1, s2}
    PdfSources = {s2}
    Indexed0 = {s1}
    Coords = {c1}
    Switchers = {}
    MaxGen = 2  MaxVer = 1  MaxHash = 1  QueueCap = 1  MaxCrashes = 1
    Ops = {"ingest", "enrich", "purge_nb", "restore_nb"}
    Fallible = {}
INVARIANTS ActiveBacked
PROPERTIES RestartCleans
CHECK_DEADLOCK FALSE
