SPECIFICATION PipelineSpec
CONSTANTS
    api1 = api1
    api2 = api2
    NoPct = NoPct
    pi = pi
    doc = doc
    Consumers <- TwoApis
    Tasks <- OneTask
    Script <- DocOnly
    STATUS_DELTA = 2
    COUNT = 2
    RECLAIM_PENDING = FALSE
    MaxEvents = 4
    MaxDisruptions = 0
    MaxRedisRestarts = 0
    MaxHandlerFaults = 0
PROPERTIES
    TerminalStatusIsFinal
