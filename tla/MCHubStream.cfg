SPECIFICATION HubFairSpec
CONSTANTS
    Viewers = {c1, c2}
    Pages = {p1, p2}
    MaxConnections = 1
    MaxQueueSize = 2
    MaxFrames = 3
    NoRequest = NoRequest
INVARIANTS
    NewestNeverLost
    SlotsAccountedFor
PROPERTIES
    ImplementsFeed
    Released
    Admitted
    PageCatchesUp
