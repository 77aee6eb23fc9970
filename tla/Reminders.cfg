SPECIFICATION FairSpec
CONSTANTS
    Count = 3
    Limit = 2
    Lease = 1
    Retries = 1
    MaxLosses = 2
INVARIANTS
    TypeOK
    RepeatsCostALoss
    DoneWasReceived
PROPERTIES
    OverIsOver
    EveryReminderArrives
