SPECIFICATION FairSpec
CONSTANTS
    ChannelCap = 2
    BackoffAfter = 1
INVARIANTS
    TypeOK
    NoRecordLeftWaiting
PROPERTIES
    EveryRecordListed
