CONSTANTS
    Ids       = {p, q}
    MaxFrames = 4
SPECIFICATION MCSpec
SYMMETRY Symmetry
INVARIANTS TypeOK StreakUnbroken CurrentIsTrue NoGapBetweenLooks
