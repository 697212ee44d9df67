SPECIFICATION Spec
CONSTANTS
    ntfy = ntfy
    telegram = telegram
    Targets = {ntfy}
    Pinned = {}
    Configs <- Steady
    MaxCap = 1
    MaxEvents = 2
    Tests = {2}
    MaxSummaries = 1
    QueueDepth = 1
    OutboxDepth = 1
    MaxAttempts = 3
    Hour = 2
PROPERTY SuppressedAreReported
