SPECIFICATION FairScopeSpec
CONSTANTS
    p1 = p1
    p2 = p2
    p3 = p3
    Actors = {"founder", "system"}
    ProcessNames = {"layer-osctl"}
    Default = "system"
    Procs = {p1, p2, p3}
    Kinds = {"call", "note", "stream"}
INVARIANTS
    ScopedStampsAreOwn
PROPERTIES
    WaitIsForStreams
