SPECIFICATION Spec
CONSTANTS
    Lists = {a, b}
    Topics = {t}
    Partitions <- SomePartitions
    Offsets <- SomeOffsets
    MaxCount = 2
    Half = 2048

    
    
PROPERTIES
    ErrKeepsElements
CHECK_DEADLOCK FALSE
