CONSTANTS
    Names = {n1}
    All = All
    Levels = {info, debug}
    Info = info
    NoLevel = NoLevel
    Unknown = Unknown
    Goroutines = {g1, g2}
    Nobody = Nobody
    Settings <- OneTag

SPECIFICATION LogSpec
INVARIANT TagLevelHonoured
CHECK_DEADLOCK FALSE
