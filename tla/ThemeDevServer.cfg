SPECIFICATION FairServerSpec
CONSTANTS
    NoPage = NoPage
    ErrorPage = ErrorPage
    Keys = {k1, k2}
    Json = {k1}
    Movable = {k1}
    MaxVersion = 3
    ChannelCap = 2
    MaxFailures = 2
    Sync = FALSE
    NoDelete = TRUE
    Replaces = FALSE
    Rejects = TRUE
    Outages = FALSE
    Tabs = {t1}
    FullPage = {k2}
    Overlay = TRUE
    Fallbacks = TRUE
    Mismatches = 1
    MaxRedirects = 1
PROPERTIES RenderFresh TabCatchesUp EndsWhenClosed
CHECK_DEADLOCK FALSE
