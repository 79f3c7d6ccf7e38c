SPECIFICATION StreamFairSpec
CONSTANTS
    Streams = {s1, s2}
    consumer = consumer
    q1 = q1
    q2 = q2
    Owners <- MCOwners
    Setups <- MCSetups
    WakeLoops <- MCWakeLoops
    Nobody = nobody
    Events = {e1, e2, e3}
    Served = {e2}
    Ignored = {e3}
    Resplit = FALSE
INVARIANTS
    NoLostWakeup
    SlabAlive
PROPERTIES
    EventsTaken
    PollsAgain
CHECK_DEADLOCK FALSE
