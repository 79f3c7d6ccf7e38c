SPECIFICATION TPFairSpec
CONSTANTS
    Poller = poller
    Threads = {poller, u1, u2}
    Msgs = {m1, m2}
    QueueCap = 1
    EventCap = 1
INVARIANTS
    DropIsExclusive
PROPERTIES
    ImplementsContract
    EventuallyReported
    EventuallyDestroyed
CHECK_DEADLOCK FALSE
