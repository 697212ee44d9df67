SPECIFICATION FairSpec
CONSTANTS
    Limits <- TwoLimits
    MinWindow = 2
    MaxWindow = 3
    MaxBurst = 2
    Word = 8
    MaxMsgs = 3
    MaxStops = 2
    MaxDrops = 1
INVARIANTS
    BurstBound
    AtMostOneStraggler
PROPERTIES
    PromiseKept
    NotificationsLeave
