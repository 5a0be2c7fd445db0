SPECIFICATION FairSpec
CONSTANTS
    Device = {d1, d2}
    NoDevice = NoDevice
    MaxTeams = 2
    MaxRounds = 2
    MaxOthers = 2
INVARIANTS
    TypeOK
    CursorBelongs
PROPERTY
    ConsentedOverwrite
    GateObeyed
    EventuallyBootstrapped
CHECK_DEADLOCK FALSE
