\* The same, every record.
SPECIFICATION Spec
CONSTANTS
    Lengths = {1, 3}
    MaxRecords = 3
    MaxChunk = 13
    NL = NL
CHECK_DEADLOCK FALSE
INVARIANT EveryRecordFound
