SPECIFICATION FairSpec
CONSTANTS
    api1 = api1
    api2 = api2
    Consumers <- TwoApis
    COUNT = 2
    RECLAIM_PENDING = TRUE
    MaxEvents = 3
    MaxDisruptions = 1
    MaxRedisRestarts = 1
INVARIANTS
    TypeOK
    DispatchInOrder
    DispatchedOnce
    AckedWasHandled
    PendingUntilAcked
PROPERTIES
    ImplementsDelivery
    EveryEntryDelivered
    EveryEntryHandled
