SPECIFICATION Spec
CONSTANTS
    w1 = w1
    w2 = w2
    Workers = {w1, w2}
    Ops = {"start", "approve", "release", "rollback", "deploy"}
    FaultsAllowed = TRUE
    MaxRequests = 3
SYMMETRY WorkerSymmetry
CHECK_DEADLOCK FALSE
INVARIANTS
    RefsBelong
    StatusIsCurrent
    
