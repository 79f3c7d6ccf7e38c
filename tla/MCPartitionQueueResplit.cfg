SPECIFICATION StreamFairSpec
CONSTANTS
    Streams = {s1}
    consumer = consumer
    q1 = q1
    q2 = q2
    Owners <- MCOwners
    Setups <- MCSetups
    WakeLoops <- MCWakeLoops
    Nobody = nobody
    Events = {e1}
    Served = {}
    Ignored = {}
    Resplit = TRUE
PROPERTIES
    EventsTaken
CHECK_DEADLOCK FALSE
