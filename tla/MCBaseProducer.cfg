SPECIFICATION FairSpec
CONSTANTS
    Threads = {t1, t2}
    Msgs = {m1, m2, m3}
    QueueCap = 2
    EventCap = 1
INVARIANTS
    OpaqueHasOwner
PROPERTIES
    FlushCompletes
    FlushReturns
CHECK_DEADLOCK FALSE
