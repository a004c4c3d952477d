SPECIFICATION Spec
CONSTANTS
    Writers = {w1, w2}
    Readers = {r1}
    Data = {"d1"}
    MaxFaults = 1
INVARIANTS
    StampsSurvive
    ReadersSeeWholeTasks
PROPERTIES
    UpdatesAreSnapshots
    EverySessionEnds
CHECK_DEADLOCK FALSE
