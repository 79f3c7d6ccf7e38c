SPECIFICATION FairSpec
CONSTANTS
    Members = {c1, c2}
    Nobody = nobody
    End = 2
    Styles = {"at_least_once", "simple", "async", "explicit"}
    MaxFaults = 2
    MaxCalls = 1
    MaxPending = 1
INVARIANTS
    AtLeastOnce
    OneLostPerFault
    CleanHandover
PROPERTIES
    EventuallyProcessed
CHECK_DEADLOCK FALSE
