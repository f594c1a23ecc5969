\* The kernel may fail any read and any write; pages under three descriptors
\* compete for two slots.
SPECIFICATION Spec
SYMMETRY Symmetric
CONSTANTS
    File = {table, index}
    Fd <- ThreeFds
    Block = {b1}
    NoBlock = NoBlock
    CACHE_COUNT = 2
    SEEK_LIMIT = 1
    CLOCK_MAX = 1
    IOErrors = TRUE
INVARIANTS
    PageInOneSlot
    CachedFdsInUse
    ObjectsMatchKernel
