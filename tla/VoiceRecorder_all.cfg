CONSTANTS
    Recordings = 3
    MaxFrames = 3
    FrameBound = 1
    LastIsLeft = TRUE
    MicFails = TRUE
    DiskFails = TRUE
SPECIFICATION Spec
INVARIANTS TypeOK OneRecording StopMeansStopped ResultIsTrue
CHECK_DEADLOCK FALSE
