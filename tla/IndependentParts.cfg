SPECIFICATION PartsSpec
CONSTANTS
    u1 = u1
    u2 = u2
    Users = {u1, u2}
    Procs = {p1}
    MaxToken = 3
    MaxFaults = 1
    Offline = {2}
    NoBucket = NoBucket
    FirstToken <- MCFirstToken
    Accounts = {u1, u2}
    Nobody = Nobody
    Unreadable = Unreadable
    AdminStores = {"shop"}
    CliProcs = {p1}
    MaxPairs = 3
    MaxAuthFaults = 1
    RetryTime = 5
    BackoffDelays = {1, 2, 3}
    MaxRequestFaults = 5
    AppExts = {e1, e2}
    WithUid = {e2}
    ConfigExts = {e1}
    MaxVersions = 3
    ThemeFiles = {f1, f2}
    PullIgnored = {}
    KeepExtra = FALSE
    PullBatch = 1
    MaxPullMishaps = 1
    MaxPullEdits = 1
    StartFiles = {x1, x2}
    JsonFiles = {x1}
    MaxStartEdits = 1
    MaxStartMishaps = 1
    Stores = {s1, s2}
    NoStore = NoStore
    EnvironmentCount = 2
    ThemeCommands = {"info", "delete", "pull", "push"}
    MaxThemeMishaps = 1
    ToolProcs = {p1, p2}
    BuildsPerProc = 2
    DownloadAttempts = 3
    MaxDownloadFaults = 3
    UiExts = {x1, x2}
    NoUuid = NoUuid
    Clients = {c1, c2}
    UpdatesCap = 2
    MaxChanges = 3
    DraftExts = {x1, x2}
    KnownExts = {x1}
    MaxDraftEdits = 2
    MaxDraftFaults = 2
    ExtFiles = {x1, x2}
    WatchedFiles = {x1}
    MaxExtEdits = 4
    MaxReadFailures = 1
INVARIANTS SameAccount StoredIsLive ClientFollowsStore PullMirrors StartsInStep NoUpdateLost
    FoundWhole RepeatsOnlyLost DraftFollowsBuild PagesFollowDisk
PROPERTIES LosesOnlyRejected StorageBehaviour LedgerBehaviour
    NothingRemovedUnasked ReportedIsReleased OnlyStaleRemoved
CHECK_DEADLOCK FALSE
