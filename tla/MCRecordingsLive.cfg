SPECIFICATION FairSpec
CONSTANTS
    Files = {f1}
    NoFile = NoFile
    NoSize = NoSize
    MaxSize = 2
    MaxCrashes = 1
PROPERTIES
    SizeRepaired
    LossNoticed
