CONSTANTS
    Cap         = 2
    Listens     = TRUE
    Texts       = {a, b, blank}
    Blank       = blank
    History     = 2
    Ttl         = 2
    Coalesce    = 1
    Retry       = 1
    MaxCommands = 3
    MaxTroubles = 1
    MaxInbox    = 3
    MayTimeOut  = TRUE
SPECIFICATION MCSpec
CHECK_DEADLOCK FALSE
INVARIANT KnownIsTrue
PROPERTIES NothingOverdue FallsSilent MailIsRead
