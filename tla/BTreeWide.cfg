\* Nodes of three, so that both parities of a split occur; scans from keys on,
\* between, below and above the rows, between the inserts; every insert returns.
SPECIFICATION FairSpec
CONSTANTS
    MAX_LEAF_KEY_COUNT = 3
    MAX_NONLEAF_KEY_COUNT = 3
    Key <- NineKeys
    Rid = {row}
    NoRid = NoRid
    Probes <- AllProbes
    MaxCrashes = 0
    MaxDepth = 5
INVARIANTS
    DescentLandsRight
    HalfFull
    ScanExact
PROPERTIES
    InsertReturns
