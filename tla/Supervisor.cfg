SPECIFICATION Spec
CONSTANTS
    rtorrent = rtorrent
    flood = flood
    p1 = p1
    p2 = p2
    p3 = p3
    p4 = p4
    Services = {rtorrent, flood}
    Order <- ClientFirst
    Locker = rtorrent
    Orphan = Orphan
    Pids = {p1, p2, p3}
    NoPid = NoPid
    BackoffMin = 1
    BackoffMax = 2
    ShutdownGrace = 1
    ClearsFail = TRUE
    SpawnsFail = TRUE
INVARIANTS
    ExitsAreMatched
    OneProcessPerService
    NoStaleLock
    ShutdownIsExact
PROPERTIES
    LockIsRespected
    CrashLoopsSlowDown
SYMMETRY AnyPid
CHECK_DEADLOCK FALSE
