SPECIFICATION Spec
CONSTANTS
    z1 = z1
    z2 = z2
    Zones = {z1}
    NoZone = NoZone
    Polygon <- OneZone
    Places <- ThreePlaces
    MaxDistance = 5
    MaxAgeFrames = 1
    Cooldown = 1
    MaxTracks = 2
    MaxFailures = 1
INVARIANTS
    MatchingIsGreedy
    AlertStatusHonest
    ZoneMatchIsGeometric
PROPERTIES
    EachDetectionTracked
    LoneCatKeepsIdentity
    PostsSpaced
