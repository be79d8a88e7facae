SPECIFICATION Spec
CONSTANTS
    Ids <- NoPanels
    Faults <- NoFaults
    ProbeBase = 1
    ProbeCap = 2
    Grace = 1
    MaxEpoch = 1
    MaxTheme = 2
PROPERTIES
    StopEnds
    Reappears
    FlipsReachPalette
CHECK_DEADLOCK FALSE
