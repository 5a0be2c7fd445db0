SPECIFICATION FairSpec
CONSTANTS
    Account = {a1, a2}
    Activity = {x, y}
    Today = 3
    Month <- TwoMonths
    Recent = 3
    a1 = a1
    x = x
    Initial <- OneTrade
    Caller = {c}
    NoActivity = NoActivity
    NoFrame = NoFrame
    Cases = {}
    MaxEdits = 2
    MaxSteps = 3
INVARIANTS
    TypeOK
    SnapshotsAreReplay
    TotalIsSum
PROPERTY
    ImplementsWorklist
    EventuallyReflected
CHECK_DEADLOCK FALSE
