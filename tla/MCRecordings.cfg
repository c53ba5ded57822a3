SPECIFICATION Spec
CONSTANTS
    Files = {f1, f2}
    NoFile = NoFile
    NoSize = NoSize
    MaxSize = 1
    MaxCrashes = 1
SYMMETRY FileSymmetry
INVARIANTS
    CompletedIsClosed
    ZombieRowsExplained
PROPERTIES
    NoStatusRegression
