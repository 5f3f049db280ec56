SPECIFICATION FairSpec
CHECK_DEADLOCK FALSE
CONSTANTS
    r1 = r1
    s1 = s1
    s2 = s2
    h1 = h1
    h2 = h2
    c1 = c1
    Reports <- MCReports
    Slots <- MCSlots
    Handlers <- MCHandlers
    Crons <- MCCrons
    Mixes <- MCMixes
    NoReport = NoReport
    NoSlot = NoSlot
    NoFile = NoFile
    JobAttempts = 2
    MaxStalls = 1
    MaxEdits = 1
    MaxExpiries = 1
    MaxTicks = 1
    MaxFaults = 1
INVARIANTS
    TypeOK
    CompletedIsWhole
    RowFollowsJob
    ScheduleFollowsRequests
    StampBeforeDelivery
PROPERTY
    JobsSettle
