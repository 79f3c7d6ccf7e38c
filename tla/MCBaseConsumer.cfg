SPECIFICATION FairSpec
CONSTANTS
    Threads = {t1, t2}
    Partitions = {p1, p2}
    Protocols = {"Eager", "Cooperative"}
    QueueCap = 1
INVARIANTS
    AssignmentIsGranted
    ToldIsAssigned
    DestroyedAfterLeaving
PROPERTIES
    DropEnds
CHECK_DEADLOCK FALSE
