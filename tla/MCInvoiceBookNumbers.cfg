SPECIFICATION Spec
CHECK_DEADLOCK FALSE
CONSTANTS
    o1 = o1
    Businesses = {b1}
    Orders = {o1, o2, o3}
    LinesOf <- MCLinesOf
    BusinessRate <- MCBusinessRate
    Handlers = {h1, h2, h3}
    NoBusiness = NoBusiness
    NoOrder = NoOrder
    NoHandler = NoHandler
    PoolSize = 2
    JobAttempts = 2
    MaxStalls = 1
    MaxAsks = 4
    MaxDeletes = 0
    MaxFaults = 0
INVARIANT
    NumbersUnique
