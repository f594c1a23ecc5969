\* Crashes, read and write errors, loads with and without the index, a line
\* without a comma.
SPECIFICATION Spec
CONSTANTS
    Text <- Texts
    Atoi <- Numbers
    Junk <- ZeroInt
    EmptyText = 0
    NoComma = NoComma
    INT_MAX = 7
    Key = {1, 2, 3, 4, 5}
    Truncated <- Cut
    NoRecord = NoRecord
    RECORDS_PER_PAGE = 2
    MaxPages = 2
    MAX_LEAF_KEY_COUNT = 2
    MAX_NONLEAF_KEY_COUNT = 2
    MaxDepth = 4
    Lines <- BadLine
    Queries <- Several
    LoadsIndex = {TRUE, FALSE}
    IOErrors = TRUE
    MaxCrashes = 1
    FdLimit = 4
INVARIANTS
    TypeOK
    IndexPointsAtRows
    EachRowAccounted
    AnswersMatch
