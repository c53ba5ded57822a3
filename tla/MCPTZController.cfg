SPECIFICATION FairSpec
CONSTANTS
    Workers = {w1, w2}
    Loop = loop
    NoCaller = NoCaller
    Targets <- QuarterTargets
    Scale = 4
    Step = 1
    Travel = 2
    MaxMoves = 1
INVARIANTS
    DriftBounded
PROPERTIES
    CalibrateIsExact
    LoopNeverStuck
