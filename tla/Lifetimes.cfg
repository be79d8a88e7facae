CONSTANTS
    Owners     = {o1}
    Singletons = {"voice"}
    Stacks     = {}
    QueueSlots = {"voice"}
    MaxStack   <- Depths
    Free       = "free"
    Cap        = 4
    IntMax     = 7
    Urgencies  = {0, 1}
    Fades      <- AllFades
    Contents   = {"c1", "c2"}
    Default    <- Defaults
    MaxId      = 2
    MaxTime    = 2
    Supplies   = {"slot", "urgency", "fade", "content"}
SPECIFICATION MCSpec
VIEW Essential
PROPERTIES UploadOnChange 
