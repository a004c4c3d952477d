SPECIFICATION Spec
CONSTANTS
    Clients = {c1, c2}
    NoId = NoId
    MaxSnippets = 3
    MaxFaults = 1
INVARIANTS
    NoOrphans
    ShownWithoutGaps
    EverySnippetShown
PROPERTIES
    PollersStop
CHECK_DEADLOCK FALSE
