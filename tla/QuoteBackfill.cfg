SPECIFICATION FairSpec
CONSTANTS
    p1 = p1
    p2 = p2
    Order <- TwoProviders
    NoSource = NoSource
    Since <- SameStart
    LastDay = 2
    FirstToday = 2
    Buffer = 1
    Margin = 1
    Overlap = 1
    MinLookback = 1
    MaxDelay = 2
    Grace = 1
    MaxErrors = 2
    Cases = {"backdate"}
    MaxEvents = 1
PROPERTY
    EventuallyPriced
CHECK_DEADLOCK FALSE
