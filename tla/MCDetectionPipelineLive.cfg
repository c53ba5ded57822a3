SPECIFICATION FairSpec
CONSTANTS
    z1 = z1
    z2 = z2
    Zones = {z1, z2}
    NoZone = NoZone
    Polygon <- TwoZones
    Places <- Corner
    MaxDistance = 5
    MaxAgeFrames = 1
    Cooldown = 1
    MaxTracks = 1
    MaxFailures = 0
PROPERTY LingeringCatAlerts
