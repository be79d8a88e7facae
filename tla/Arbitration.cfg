CONSTANTS
    Owners     = {o1, o2}
    Singletons = {"voice", "status"}
    Stacks     = {"toast", "notes"}
    QueueSlots = {"voice"}
    MaxStack   <- Depths
    Free       = "free"
    Cap        = 2
    IntMax     = 7
    Urgencies  = {0, 1}
    Fades      <- OnlyPersistent
    Contents   = {"c1"}
    Default    <- Defaults
    MaxId      = 3
    MaxTime    = 1
    Supplies   = {"slot", "urgency"}
SPECIFICATION MCSpec
VIEW Essential
SYMMETRY Symmetry
INVARIANTS TypeOK OneOccupant NoIdleSlot
PROPERTIES ImplementsArbiter RemovalsAnnounced RefusalChangesNothing NoInversion CreateTrimsStack
