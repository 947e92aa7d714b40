SPECIFICATION FairSpec
CONSTANTS
    Routes <- TwoRoutes
    Default = "97layer"
    About <- Sources
    Environments <- Lanes
    SeedLimit = 2
    LookupLimit = 4
    FindLimit = 8
    ViewLimit = 4
    FeedLimit = 1
    MaxObs = 12
CHECK_DEADLOCK FALSE
INVARIANTS
    RecordsAreSound
    
    OfferedDraftHasNoLane
PROPERTIES
    LanesGetDone
