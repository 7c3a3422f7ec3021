\* A model switch while a source is in the trash.
SPECIFICATION Spec
CONSTANTS
    s1 = s1  s2 = s2  c1 = c1  c2 = c2  w1 = w1
    None = None  NotebookId = NotebookId
    Sources = {s1, s2}
    PdfSources = {}
    Indexed0 = {s1, s2}
    Coords = {c1, c2}
    Switchers = {w1}
    MaxGen = 1  MaxVer = 1  MaxHash = 1  QueueCap = 1  MaxCrashes = 0
    Ops = {"trash", "restore", "switch"}
    Fallible = {}
INVARIANTS TrashedRestorable
CHECK_DEADLOCK FALSE
