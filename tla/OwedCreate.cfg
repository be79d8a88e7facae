CONSTANTS
    Cap           = 3
    Listens       = FALSE
    Shown         = {"headset"}
    Warnings      = TRUE
    Answers       = {TRUE}
    Percents      = {1, 2, 3}
    LowThreshold  = 1
    LowHysteresis = 2
    PollInterval  = 3
    Retry         = 1
    MaxChanges    = 0
    MaxTroubles   = 1
    MaxEvents     = 1
    MaxInbox      = 1
    MayTimeOut    = FALSE
SPECIFICATION MCSpec
CHECK_DEADLOCK FALSE
INVARIANT OwedIsRetried
