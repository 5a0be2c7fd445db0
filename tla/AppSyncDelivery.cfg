SPECIFICATION FairSpec
CONSTANTS
    d1 = d1
    d2 = d2
    e1 = e1
    e2 = e2
    Device = {d1, d2}
    Entity = {e1, e2}
    Baseline = {e2}
    Reusable = {}
    Unappliable <- OnePoison
    Skew <- Ahead
    PushLimit = 2
    PullLimit = 2
    PruneAbove = 1
    PruneKeep = 1
    MaxEvents = 2
    MaxClock = 1
    MaxSnapshots = 0
    MaxRestores = 0
ACTION_CONSTRAINT TicksThatMatter
INVARIANTS
    DeletedStaysDeleted
PROPERTIES
    EveryEditDelivered
CHECK_DEADLOCK FALSE
