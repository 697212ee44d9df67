SPECIFICATION HoldSpec
CONSTANTS
    HoldTimes <- OnOrOff
    MaxHold = 3
    HoldLimit = 3
    OutboxDepth = 2
    MaxAttempts = 3
    MaxMsgs = 3
INVARIANT DeliveredOnce
