\* A crash between any two page writes, then inserts of other keys.
SPECIFICATION Spec
CONSTANTS
    MAX_LEAF_KEY_COUNT = 2
    MAX_NONLEAF_KEY_COUNT = 2
    Key <- SixKeys
    Rid = {row}
    NoRid = NoRid
    Probes <- OneProbe
    MaxCrashes = 1
    MaxDepth = 5
INVARIANTS
    AckedOnChain
    NodesFit
    MetadataCommitted
    DescentReadsRightKind
PROPERTIES
    ImplementsOrderedIndex
