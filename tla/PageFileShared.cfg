\* Two files of two pages share a cache slot and the descriptor numbers.
SPECIFICATION Spec
SYMMETRY Symmetric
CONSTANTS
    File = {table, index}
    Fd <- TwoFds
    Block = {b1, b2}
    NoBlock = NoBlock
    CACHE_COUNT = 1
    SEEK_LIMIT = 2
    CLOCK_MAX = 2
    IOErrors = FALSE
INVARIANTS
    TypeOK
    CacheCoherent
PROPERTIES
    ImplementsPageStore
