SPECIFICATION StreamSpec
CONSTANTS
    Environments <- AllEnvironments
CHECK_DEADLOCK FALSE
INVARIANTS
    HistoryKept
    StreamIsFaithful
PROPERTIES
    AppendOnly
