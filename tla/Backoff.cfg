CONSTANTS
    FirstDelay = 3
    MaxDelay = 7
    StableTime = 4
    SettleTime = 1
    EarlyInterval = 3
    PermanentDelay = 5
    Horizon = 14
SPECIFICATION BackoffSpec
PROPERTIES
    NoRetryStorm
    EarlyRetriesSpaced
    ResetNeedsStableTime
CHECK_DEADLOCK FALSE
