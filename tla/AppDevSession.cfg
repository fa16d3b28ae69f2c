SPECIFICATION FairDevSpec
CONSTANTS
    Exts = {a, b}
    Initial = {a}
    MaxEdits = 2
    EditKinds = {"source", "dist", "config", "create", "delete", "app", "dropApp"}
    InboxCap = 1
    WatchFails = TRUE
    MaxFaults = 1
INVARIANTS BundleFollowsDisk SessionFollowsBundle
PROPERTIES NoSessionLeft ComesToRest
CHECK_DEADLOCK FALSE
