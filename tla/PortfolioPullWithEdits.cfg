SPECIFICATION Spec
CONSTANTS
    Account = {a1, a2}
    Activity = {x, y}
    Today = 3
    Month <- TwoMonths
    Recent = 3
    a1 = a1
    x = x
    Initial <- OneTrade
    Caller = {c}
    NoActivity = NoActivity
    NoFrame = NoFrame
    Cases = {"pull_with_edits"}
    MaxEdits = 2
    MaxSteps = 3
INVARIANTS
    SnapshotsAreReplay
CHECK_DEADLOCK FALSE
