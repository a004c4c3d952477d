SPECIFICATION FairSpec
CONSTANTS
    api1 = api1
    api2 = api2
    Consumers <- OneApi
    COUNT = 2
    RECLAIM_PENDING = TRUE
    MaxEvents = 2
    MaxDisruptions = 1
    MaxRedisRestarts = 0
PROPERTIES
    ReclaimedEntriesHandled
