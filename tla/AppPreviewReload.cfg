SPECIFICATION PreviewSpec
CONSTANTS
    UiExts = {x1, x2}
    NoUuid = NoUuid
    Clients = {c1, c2}
    UpdatesCap = 2
    MaxChanges = 4
PROPERTIES HotReload
CHECK_DEADLOCK FALSE
