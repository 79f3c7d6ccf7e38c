SPECIFICATION PollSpec
CONSTANTS
    I32Half = 4
    MinPollInterval = 2
    Slice = 2
    Limits <- MCLimits
    MaxElapsed = 13
    MaxSpent = 1
    MaxEvents = 2
    MaxMsgs = 1
INVARIANTS
    
    TimeoutIsElapsed
PROPERTIES
    
    CallsReturn
