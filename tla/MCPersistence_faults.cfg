SPECIFICATION Spec
CONSTANTS
    Order <- MCOrder
    Room = "reviewRoom"
    MaxChanges = 4
    MaxCrashes = 2
CHECK_DEADLOCK FALSE
INVARIANTS
    AckedIsDurable
PROPERTIES
    CleanReturnMeansSaved
