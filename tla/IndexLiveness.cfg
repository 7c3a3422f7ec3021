\* Ingest, enrichment (every outcome of a job) and purge contend for ingest_lock;
\* their reads and writes may fail; one process death.
SPECIFICATION FairSpec
CONSTANTS
    s1 = s1  c1 = c1
    None = None  NotebookId = NotebookId
    Sources = {s1}
    PdfSources = {}
    Indexed0 = {s1}
    Coords = {c1}
    Switchers = {}
    MaxGen = 4  MaxVer = 2  MaxHash = 1  QueueCap = 1  MaxCrashes = 1
    Ops = {"ingest", "enrich", "trash", "purge", "park", "cancel", "preflight", "offline", "small", "llm_error"}
    Fallible = {"wipe", "purge", "map", "meta", "relist"}
PROPERTIES IngestSettles EnrichmentSettles
CHECK_DEADLOCK FALSE
