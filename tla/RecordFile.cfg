\* Appends, reopenings, errors and crashes, up to the seek limit and past it.
SPECIFICATION Spec
SYMMETRY Symmetric
CONSTANTS
    Key = {k1, k2}
    Value = {"short", "long"}
    Truncated <- CutLong
    NoRecord = NoRecord
    RECORDS_PER_PAGE = 2
    SEEK_LIMIT = 2
    MaxPages = 3
    IOErrors = TRUE
INVARIANTS
    TypeOK
    AppendedReadable
    ScanReadsRows
    ReadsReturnRows
PROPERTIES
    RowsStay
    ImplementsRecordStore
