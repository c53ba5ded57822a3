SPECIFICATION Spec
CONSTANTS
    MaxThreads = 2
    MaxFrames = 2
    Files = {f1}
    NoFile = NoFile
INVARIANT OneConnectionEver
CHECK_DEADLOCK FALSE
