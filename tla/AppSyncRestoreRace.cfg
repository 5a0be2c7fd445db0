SPECIFICATION Spec
CONSTANTS
    d1 = d1
    d2 = d2
    e1 = e1
    e2 = e2
    Device = {d1, d2}
    Entity = {e1}
    Baseline = {e1}
    Reusable = {}
    Unappliable <- NoPairs
    Skew <- NoSkew
    PushLimit = 1
    PullLimit = 1
    PruneAbove = 5
    PruneKeep = 1
    MaxEvents = 2
    MaxClock = 0
    MaxSnapshots = 1
    MaxRestores = 1
PROPERTIES
    RestoredCursorNeverMovesBack
CHECK_DEADLOCK FALSE
