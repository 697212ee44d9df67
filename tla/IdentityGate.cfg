SPECIFICATION FairSpec
CONSTANTS
    n1 = n1
    Nicks = {n1, n2}
    n2 = n2
    Nobody = Nobody
    Password = Password
    Configs <- Switched
    WhoisTimeout = 2
    SweepInterval = 1
    FailureLimit = 2
    Cooldown = 1
    Budget = 2
    Minute = 3
    CommandLimit = 2
    MaxAsked = 2
    RunsTakeTime = TRUE
PROPERTIES
    EveryBatchSettles
INVARIANTS
    CoolingIsSilent
    FailuresAreRemembered
    WhoisRateBounded
