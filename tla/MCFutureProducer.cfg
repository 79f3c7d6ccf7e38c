SPECIFICATION FPFairSpec
CONSTANTS
    Poller = poller
    Handle = handle
    Threads = {poller, handle}
    Tasks = {k1, k2}
    Msgs = {m1, m2}
    QueueCap = 1
    EventCap = 0

    
PROPERTIES
    SendCompletes
CHECK_DEADLOCK FALSE
