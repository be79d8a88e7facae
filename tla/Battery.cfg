CONSTANTS
    Cap           = 3
    Listens       = FALSE
    Shown         = {"laptop"}
    Warnings      = TRUE
    Answers       = {TRUE, FALSE}
    Percents      = {1, 2, 3}
    LowThreshold  = 1
    LowHysteresis = 2
    PollInterval  = 1
    Retry         = 1
    MaxChanges    = 2
    MaxTroubles   = 2
    MaxEvents     = 2
    MaxInbox      = 1
    MayTimeOut    = FALSE
SPECIFICATION MCSpec
CHECK_DEADLOCK FALSE
INVARIANT BoardMirrorsReading
PROPERTIES OncePerCycle ReadingIsSeen GaugesGetThrough
