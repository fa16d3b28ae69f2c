SPECIFICATION FairPushSpec
CONSTANTS
    Keys = {"theme", "gift", "template", "style"}
    Kind <- MCKind
    Requires <- MCRequires
    Size <- MCSize
    Minimum = {"theme"}
    Ignored = {}
    NoDelete = FALSE
    MaxFiles = 2
    MaxBytes = 3
    MaxAttempts = 3
    MaxFaults = 3
    MaxEdits = 1
INVARIANTS ReportTruthful MirrorsDisk
PROPERTIES PushOrder PushEnds
CHECK_DEADLOCK FALSE
