CONSTANTS
    Recordings = 2
    MaxFrames = 1
    FrameBound = 2
    LastIsLeft = FALSE
    MicFails = FALSE
    DiskFails = FALSE
SPECIFICATION Spec
INVARIANTS OneRecording
CHECK_DEADLOCK FALSE
