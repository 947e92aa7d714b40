SPECIFICATION FairSpec
CONSTANTS
    Jobs = {"j1", "j2", "c1", "c2", "c3", "r1", "r2", "r3", "r4"}
    Workers = {"w1", "w2"}
    Paths = {"in", "out"}
    Environments <- ScopeSetup
    MaxRounds = 2
    RepairIds <- Repairs
    Items = {"cap", "obs", "risks", "b1", "b2"}
    Actors = {"ann", "bob", "quick", "worker"}
    Sources = {"terminal", "chat"}
    Risks = {"x", "y"}
    Branches = {"b1", "b2"}
    Proposals = {"p"}
    Manual = {"q"}
    Savers = {"h1", "h2"}
    Roots <- ScratchRoots
    RecordIds = {"k1", "k2", "r1", "r2", "r3", "r4"}
    DecisionIds = {"d"}
    Scopes = {"kernel", "architect"}
    Operators = {"o1", "o2"}
INVARIANT BlameIsDeserved
CHECK_DEADLOCK FALSE
