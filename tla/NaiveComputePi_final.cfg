SPECIFICATION Spec
CONSTANTS
    Posters = {p1}
    Clients = {c1, c2}
    Digits = 2
    Length = 3
    MaxFaults = 0
INVARIANTS
    StoppedWithFinalResult
CHECK_DEADLOCK FALSE
