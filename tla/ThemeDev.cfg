SPECIFICATION Spec
CONSTANTS
    Keys = {k1, k2}
    Json = {k1, k2}
    Movable = {k1, k2}
    MaxVersion = 4
    ChannelCap = 1
    MaxFailures = 1
    Sync = TRUE
    NoDelete = FALSE
    Replaces = TRUE
    Rejects = FALSE
    Outages = TRUE
SYMMETRY Symmetry
INVARIANTS NoSilentDivergence
PROPERTIES OverwritesOnlyYounger
CHECK_DEADLOCK FALSE
