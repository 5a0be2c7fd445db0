SPECIFICATION Spec
CONSTANTS
    d1 = d1
    d2 = d2
    e1 = e1
    e2 = e2
    Device = {d1, d2}
    Entity = {e1}
    Baseline = {e1}
    Reusable = {}
    Unappliable <- NoPairs
    Skew <- NoSkew
    PushLimit = 2
    PullLimit = 1
    PruneAbove = 5
    PruneKeep = 1
    MaxEvents = 3
    MaxClock = 0
    MaxSnapshots = 0
    MaxRestores = 0
SYMMETRY DeviceSymmetry
INVARIANTS
    TypeOK
    Agreement
    DeletedStaysDeleted
    CursorCoversReplay
    NoLostEdit
CHECK_DEADLOCK FALSE
