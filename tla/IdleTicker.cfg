CONSTANTS
    Cap         = 2
    Listens     = TRUE
    Texts       = {a, b, blank}
    Blank       = blank
    History     = 2
    Ttl         = 2
    Coalesce    = 1
    Retry       = 1
    MaxCommands = 2
    MaxTroubles = 1
    MaxInbox    = 3
    MayTimeOut  = FALSE
SPECIFICATION MCSpec
CHECK_DEADLOCK FALSE
INVARIANT IdleCarriesNoQuad
