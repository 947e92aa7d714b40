SPECIFICATION FairSpec
CONSTANTS
    Approvals = {"a1"}
    About <- MCAbout
    Environments <- Setups
    Clients = {"c1", "c2"}
CHECK_DEADLOCK FALSE
INVARIANTS
    MessagesAreHandled
    
    RepeatsHaveACause
PROPERTIES
    EveryMessageSettled
