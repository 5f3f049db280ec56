SPECIFICATION FairSpec
CHECK_DEADLOCK FALSE
CONSTANTS
    o1 = o1
    Businesses = {b1}
    Orders = {o1, o2}
    LinesOf <- MCLinesOf
    BusinessRate <- MCBusinessRate
    Handlers = {h1, h2}
    NoBusiness = NoBusiness
    NoOrder = NoOrder
    NoHandler = NoHandler
    PoolSize = 2
    JobAttempts = 2
    MaxStalls = 1
    MaxAsks = 3
    MaxDeletes = 1
    MaxFaults = 1
INVARIANTS
    TypeOK
    BookGapless
    AnswersTruthful
    FiguresAgree
PROPERTIES
    ImplementsBook
    ProcessingEnds
