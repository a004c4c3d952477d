SPECIFICATION Spec
CONSTANTS
    BATCH_SIZE = 1
    DIGITS = 2
    DOCUMENT_BYTES = 1
    MAX_SNIPPETS_PER_CHUNK = 1
    MaxHits = 1
    MaxFaults = 0
INVARIANTS
    CompletionIsReported
CHECK_DEADLOCK FALSE
