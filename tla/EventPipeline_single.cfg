SPECIFICATION PipelineFairSpec
CONSTANTS
    api1 = api1
    api2 = api2
    NoPct = NoPct
    pi = pi
    doc = doc
    Consumers <- OneApi
    Tasks <- TwoTasks
    Script <- PiAndDoc
    STATUS_DELTA = 2
    COUNT = 2
    RECLAIM_PENDING = FALSE
    MaxEvents = 7
    MaxDisruptions = 1
    MaxRedisRestarts = 1
    MaxHandlerFaults = 1
INVARIANTS
    RowKeepsUpWithBroadcasts
    ShownInOrder
    MemoryReleased
PROPERTIES
    StatusNeverRegresses
    EveryResultStored
