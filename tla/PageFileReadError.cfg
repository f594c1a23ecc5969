\* The kernel fails a read.
SPECIFICATION Spec
SYMMETRY Symmetric
CONSTANTS
    File = {table}
    Fd <- TwoFds
    Block = {b1, b2}
    NoBlock = NoBlock
    CACHE_COUNT = 2
    SEEK_LIMIT = 2
    CLOCK_MAX = 2
    IOErrors = TRUE
INVARIANTS
    ReadsReturnThePage
