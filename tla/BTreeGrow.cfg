\* Every order of inserting eight keys, with nodes of two: trees of three
\* levels, splits of leaves, of nonleaf nodes and of roots.
SPECIFICATION Spec
CONSTANTS
    MAX_LEAF_KEY_COUNT = 2
    MAX_NONLEAF_KEY_COUNT = 2
    Key <- EightKeys
    Rid = {row}
    NoRid = NoRid
    Probes <- NoProbes
    MaxCrashes = 0
    MaxDepth = 5
INVARIANTS
    TypeOK
    NodesSorted
    ChainAscending
    DescentLandsRight
    TreeAndChainAgree
