SPECIFICATION FairSpec
CONSTANTS
    jobA = jobA
    jobB = jobB
    jobC = jobC
    w1 = w1
    w2 = w2
    Jobs <- ThreeJobs
    Workers = {w1, w2}
    Role <- RoleOfEach
    ChainRules <- ChainOfThree
    Lanes <- CouncilOfTwo
    Primary <- PrimaryLast
    Outcomes = {"sent", "failed", "recorded"}
    DirectLLM = TRUE
    CreateStatuses = {"queued"}
    FounderActs = {"accept", "defer"}
    AllowUpdate = FALSE
    FaultsAllowed = FALSE
    MaxRequests = 3
    MaxRestarts = 1
CHECK_DEADLOCK FALSE
INVARIANTS
    FailedIsOnAgenda
    SucceededIsEvidenced
PROPERTIES
    DispatchSettles
    ChainFollows
