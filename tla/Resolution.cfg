\* Two notebooks, three sources, two enrichment jobs, a purge or re-ingest, a
\* channel with room for one trigger.
SPECIFICATION FairSpec
CONSTANTS
    n1 = n1  n2 = n2
    Sources = {1, 2, 3}  Notebooks = {n1, n2}  NotebookOf <- MCNotebookOf
    NoSource = 0  NoNotebook = NoNotebook
    Names = {1, 2, 3, 4, 5}  Norm <- MCNorm  Kind <- MCKind  Sim <- MCSim
    Found <- MCFound
    Confidences = {80, 95}
    ChannelCap = 1  MaxJobs = 2  MaxWipes = 1  MaxCrashes = 1
    Failing = {"cascade", "wipe"}
INVARIANTS ListedCovers AliasesCurrent
PROPERTIES PendingEnds
CHECK_DEADLOCK FALSE
