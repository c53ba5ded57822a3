SPECIFICATION FairSpec
CONSTANTS
    Types = {cat}
    Commands = {light, move}
    Moves = {move}
    DefaultCommand = light
    NoCommand = NoCommand
    MaxLog = 1
    MaxEvents = 2
    MaxSubs = 2
INVARIANTS
    LogIsRecent
    CountHonest
PROPERTIES
    AlwaysAnswered
    ImplementsOutbox
