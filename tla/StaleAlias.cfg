\* A source is enriched again and has no entities any more: one node is left.
SPECIFICATION Spec
CONSTANTS
    n1 = n1  n2 = n2
    Sources = {1, 2, 3}  Notebooks = {n1, n2}  NotebookOf <- MCNotebookOf
    NoSource = 0  NoNotebook = NoNotebook
    Names = {1, 2, 3, 4, 5}  Norm <- MCNorm  Kind <- MCKind  Sim <- MCSim
    Found <- MCFoundNone
    Confidences = {80, 95}
    ChannelCap = 1  MaxJobs = 3  MaxWipes = 0  MaxCrashes = 0
    Failing = {}
INVARIANTS NoStaleAlias
CHECK_DEADLOCK FALSE
