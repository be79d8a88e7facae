SPECIFICATION Spec
CONSTANTS
    Ids <- OnePanel
    Faults <- BeginFails
    ProbeBase = 1
    ProbeCap = 3
    Grace = 1
    MaxEpoch = 2
    MaxTheme = 2
INVARIANTS BusTellsTruth NothingLeaks
PROPERTY ShowsCurrent
CHECK_DEADLOCK FALSE
