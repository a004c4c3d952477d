SPECIFICATION Spec
CONSTANTS
    BATCH_SIZE = 2
    DIGITS = 4
    DOCUMENT_BYTES = 5
    MAX_SNIPPETS_PER_CHUNK = 2
    MaxHits = 3
    MaxFaults = 2
INVARIANTS
    ChunksAssemble
    ReportsAgree
    
    TerminalStatusIsLast
CHECK_DEADLOCK FALSE
