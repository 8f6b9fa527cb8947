SPECIFICATION FileSpec
CONSTANTS
    FrameLen = 3
    NFrameMod = 4
    MaxFileLen = 7
INVARIANT FileTravels
CHECK_DEADLOCK FALSE
