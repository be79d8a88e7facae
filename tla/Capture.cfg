CONSTANTS
    Ids        = {1, 2}
    MaxFrames  = 4
    MaxSignals = 1
    MaxLines   = 1
    MaxExits   = 1
SPECIFICATION MCSpec
CHECK_DEADLOCK FALSE
INVARIANT AtMostOneBlindLook
PROPERTIES LooksTellTruth NoOrphan BreakStopsCapture GateDecides NothingLeftBehind
