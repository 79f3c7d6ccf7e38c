SPECIFICATION Spec
CONSTANTS
    a1 = a1
    a2 = a2
    Apps = {a1, a2}
    Threaded = {a2}
    Nobody = Nobody
    End = 2
    MaxFaults = 2
INVARIANTS
    OkIsCommitted
    CallsAreValid
PROPERTIES
    ExactlyOncePipeline
    EventuallyTransformed
CHECK_DEADLOCK FALSE
