CONSTANTS
    Owners     = {o1}
    Singletons = {"voice", "status"}
    Stacks     = {"toast"}
    QueueSlots = {"voice"}
    MaxStack   <- Depths
    Free       = "free"
    Cap        = 4
    IntMax     = 7
    Urgencies  = {0, 1}
    Fades      <- OnlyPersistent
    Contents   = {"c1"}
    Default    <- Defaults
    MaxId      = 2
    MaxTime    = 1
    Supplies   = {"slot", "urgency"}
SPECIFICATION MCSpec
VIEW Essential
INVARIANT OnlyQueueSlotsQueue
