SPECIFICATION Spec
CONSTANTS
    jobA = jobA
    jobB = jobB
    jobC = jobC
    w1 = w1
    w2 = w2
    Jobs <- TwoJobs
    Workers = {w1, w2}
    Role <- RoleOfEach
    ChainRules <- ChainOfTwo
    Lanes <- OneLane
    Primary <- PrimaryLast
    Outcomes = {"sent", "failed", "recorded"}
    DirectLLM = TRUE
    CreateStatuses = {"queued", "failed"}
    FounderActs = {"accept", "defer", "resolve"}
    AllowUpdate = TRUE
    FaultsAllowed = TRUE
    MaxRequests = 3
    MaxRestarts = 1
SYMMETRY WorkerSymmetry
CHECK_DEADLOCK FALSE
INVARIANTS
    
    NoPretendedSend
