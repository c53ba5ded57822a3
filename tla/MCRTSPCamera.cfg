SPECIFICATION FairSpec
CONSTANTS
    MaxThreads = 2
    MaxFrames = 2
    Files = {f1}
    NoFile = NoFile
INVARIANTS
    OneConnection
    ConnectedMeansDecoding
    RecordingInOrder
PROPERTIES
    FramesNeverGoBack
    Reconnects
    StopIsFinal
    ResetRestarts
    ImplementsRecorder
\* the process exits after Shutdown
CHECK_DEADLOCK FALSE
