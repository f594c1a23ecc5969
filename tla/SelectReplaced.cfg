\* Two EQ conditions on the key.
SPECIFICATION Spec
CONSTANTS
    Text <- Texts
    Atoi <- Numbers
    Junk <- AnyJunk
    INT_MAX = 3
    Tables <- NoNegative
    Conds <- TwoValues
    MaxConds = 2
INVARIANTS
    AnswersExact
