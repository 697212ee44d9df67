SPECIFICATION FairSpec
CONSTANTS
    ntfy = ntfy
    telegram = telegram
    Targets = {ntfy, telegram}
    Pinned = {telegram}
    Configs <- Reloads
    MaxCap = 1
    MaxEvents = 2
    Tests = {2}
    MaxSummaries = 1
    QueueDepth = 1
    OutboxDepth = 1
    MaxAttempts = 3
    Hour = 2
INVARIANTS
    CeilingHolds
PROPERTIES
    OnlyRetriesRepeat
    NothingLingers
