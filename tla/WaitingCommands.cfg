SPECIFICATION CommandsSpec
CONSTANTS
    Procs = {web1, web2, theme, watcher}
    Webs = {web1, web2}
    OneShots = {watcher}
    Streams = {theme}
    MaxLogs = 3
    MaxRefusals = 3
    MaxResubscribeFailures = 3
    QuickPolls = 2
    Keys = {k1, k2}
    Json = {k1}
    Movable = {k1}
    MaxVersion = 3
    ChannelCap = 1
    MaxFailures = 2
    Sync = TRUE
    NoDelete = FALSE
    Replaces = FALSE
    Rejects = FALSE
    Outages = TRUE
INVARIANTS RunsUntilStopped NoProcessOutlives EachLogOnce
PROPERTIES EndsWhenStopped ShowsAll BulkEnds Settles
CHECK_DEADLOCK FALSE
