CONSTANTS
    Keyboards  = {"k1", "k2"}
    Codes      <- MCCodes
    KeysOf     <- TwoKeyboards
    Unreadable = {}
    IsModifier = {"ctrl", "shift"}
    Mods       = {"Ctrl", "Shift"}
    Sets       <- MCSets
    Labels     <- MCCodes
    Label      <- MCLabel
    Text       = {"a"}
    Typing     = {"a"}
    Delays     = {900}
    Configs    <- MCConfigs
    Programs   = {"hud", "battery", "cmd", "keys"}
    Lines      <- MCLines
    SlotSections      = {"slot.toast"}
    MaxPublishBytes   = 9
    MaxSanitisedBytes = 6
    Width      <- MCWidth
    MaxCommand = 6
    MaxLines   = 3
    MaxLog     = 3
SPECIFICATION MCSpec
CHECK_DEADLOCK FALSE
INVARIANTS ModifiersAreHeld NothingTyped RowsAreRuns AcceptedAsWritten PolicyKept ShownIsHead
