\* Up to three conditions, by either scan, over tables with negative keys.
SPECIFICATION Spec
CONSTANTS
    Text <- Texts
    Atoi <- Numbers
    Junk <- AnyJunk
    INT_MAX = 3
    Tables <- AnyTable
    Conds <- SomeConds
    MaxConds = 3
INVARIANTS
    TypeOK
    PrintsOnlyMatches
    PrintsAllMatches
    MergedAsTight
