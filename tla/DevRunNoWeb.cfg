SPECIFICATION RunSpec
CONSTANTS
    Procs = {session, proxy, watcher}
    Webs = {}
    OneShots = {watcher}
    Streams = {}
INVARIANTS RunsUntilStopped
CHECK_DEADLOCK FALSE
