SPECIFICATION FairSpec
CONSTANTS
    p1 = p1
    p2 = p2
    Order <- OneProvider
    NoSource = NoSource
    Since <- OneStart
    LastDay = 4
    FirstToday = 2
    Buffer = 1
    Margin = 1
    Overlap = 1
    MinLookback = 1
    MaxDelay = 1
    Grace = 0
    MaxErrors = 2
    Cases = {}
    MaxEvents = 1
INVARIANTS
    TypeOK
    OneAtWork
    NoHole
PROPERTY
    EventuallyPriced
CHECK_DEADLOCK FALSE
