SPECIFICATION Spec
CONSTANTS
    Posters = {p1, p2}
    Clients = {c1, c2}
    Digits = 2
    Length = 3
    MaxFaults = 1
INVARIANTS
    WorkerKeepsItsRow
    DeletedOnceDelivered
PROPERTIES
    PostNeverResets
    ResultKeepsUp
    PollersStop
CHECK_DEADLOCK FALSE
