SPECIFICATION FairSpec
CONSTANTS
    MaxFrames = 4
    MaxFailures = 2
    HighWater = 8
INVARIANTS
    TypeOK
    NoFrameLost
PROPERTIES
    ImplementsFeed
    CatchesUp
CHECK_DEADLOCK FALSE
