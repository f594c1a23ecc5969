\* Loads and selects without faults; every statement ends.
SPECIFICATION FairSpec
CONSTANTS
    Text <- Texts
    Atoi <- Numbers
    Junk <- ZeroInt
    EmptyText = 0
    NoComma = NoComma
    INT_MAX = 7
    Key = {1, 2, 3, 4, 5}
    Truncated <- Cut
    NoRecord = NoRecord
    RECORDS_PER_PAGE = 2
    MaxPages = 2
    MAX_LEAF_KEY_COUNT = 2
    MAX_NONLEAF_KEY_COUNT = 2
    MaxDepth = 4
    Lines <- Four
    Queries <- Several
    LoadsIndex = {TRUE, FALSE}
    IOErrors = FALSE
    MaxCrashes = 0
    FdLimit = 5
INVARIANTS
    SelectExact
PROPERTIES
    StatementsEnd
