SPECIFICATION FairSpec
CHECK_DEADLOCK FALSE
CONSTANTS
    Events = {e1}
    Slots = {s1}
    Handlers = {h1}
    NoEvent = NoEvent
    NoReg = NoReg
    JobAttempts = 3
    MaxAttempts = 3
    PauseAt = 2
    MaxStalls = 1
    MaxExpiries = 1
    MaxFaults = 2
INVARIANTS
    TypeOK
    CompletedMeansDelivered
    RedeliveryNeedsLoss
PROPERTIES
    PauseSticks
    JobsSettle
