SPECIFICATION Spec
CONSTANTS
    Maps <- MCTailMaps
    LowPages = 8
    PageBytes = 1
    MaxU64 = 1000
INVARIANT
    HandedOutFromPool
