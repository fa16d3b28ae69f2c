SPECIFICATION WatchSpec
CONSTANTS
    Exts = {a}
    Initial = {a}
    MaxEdits = 2
    EditKinds = {"source", "delete"}
    InboxCap = 3
    WatchFails = FALSE
PROPERTIES DeletedLeavesApp
CHECK_DEADLOCK FALSE
