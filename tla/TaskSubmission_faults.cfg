SPECIFICATION Spec
CONSTANTS
    Runs = {r1, r2}
    MaxFaults = 3
INVARIANTS
    EventsFindRow
    AnswersAreTrue
    BackendAgrees
PROPERTIES
    SuccessSettles
    OnlyLostRunsStrand
CHECK_DEADLOCK FALSE
