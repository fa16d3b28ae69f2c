SPECIFICATION PushSpec
CONSTANTS
    Keys = {"theme", "gift", "template", "style"}
    Kind <- MCKind
    Requires <- MCRequires
    Size <- MCSize
    Minimum = {"theme"}
    Ignored = {"theme"}
    NoDelete = FALSE
    MaxFiles = 2
    MaxBytes = 3
    MaxAttempts = 3
    MaxFaults = 0
    MaxEdits = 0
PROPERTIES CreatesOnlyMissing
CHECK_DEADLOCK FALSE
