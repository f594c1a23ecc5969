\* A scan from between two leaves.
SPECIFICATION Spec
CONSTANTS
    MAX_LEAF_KEY_COUNT = 2
    MAX_NONLEAF_KEY_COUNT = 2
    Key <- EvenKeys
    Rid = {row}
    NoRid = NoRid
    Probes <- AllProbes
    MaxCrashes = 0
    MaxDepth = 5
INVARIANTS
    ScanReachesAll
