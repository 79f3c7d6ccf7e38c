SPECIFICATION FairSpec
CONSTANTS
    Requests = {r1, r2}
    r1 = r1
    r2 = r2
    Ops <- MCOps
    MaxItems = 2
    MaxPartitions = 2
INVARIANTS
    PendingHasSender
    PollerEndsFirst
    
    NeverAborts
PROPERTIES
    RequestCompletes
    DropEnds
CHECK_DEADLOCK FALSE
