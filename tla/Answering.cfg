SPECIFICATION Spec
INVARIANTS NoWithdrawnText OneIngest EvidenceIsFound
CONSTANTS
    ParentLimit = 7
    ChildLimit = 4
    Overlap = 2
    Special = 1
    ReservedOutput = 1
    SystemOverhead = 1
    Margin = 1
    SmallContext = 10
    MediumContext = 30
    SmallCap = 4
    MediumCap = 7
    LargeCap = 9
    MinOutput = 1
    RrfK = 60
    GraphFloor = 10
    Source = {"s1", "s2"}
    Order <- MCOrder
    Docs <- MCDocs
    FirstDocs <- MCFirstDocs
    Content <- MCContent
    Outline <- MCOutline
    Queries <- MCQueries
    Failed = {"s2"}
    Context = 16
    Fallback <- MCFallback
    Overfetch = 3
    Pool = 2
    BaseCost = 4
    MaxMarkers = 1
    MaxGen = 2
    MaxChanges = 2
