\* Enrichment switched off in the configuration: ingest of a plain and of a
\* PDF source, retries, trash and purge, failing calls, a process death.
SPECIFICATION Spec
CONSTANTS
    s1 = s1  s2 = s2  c1 = c1
    None = None  NotebookId = NotebookId
    Sources = {s1, s2}
    PdfSources = {s2}
    Indexed0 = {}
    Coords = {c1}
    Switchers = {}
    MaxGen = 2  MaxVer = 2  MaxHash = 2  QueueCap = 1  MaxCrashes = 1
    Ops = {"ingest", "trash", "purge", "empty"}
    Fallible = {"sweep_rows", "append", "drop", "purge"}
INVARIANTS IndexedFindable NoPhantom OneEmbedding
CHECK_DEADLOCK FALSE
