SPECIFICATION Spec
CONSTANTS
    SEC = 16
    FatEntry = 2
    DirEntry = 4
    RESERVED = 1
    NFATS = 2
    ROOT_ENTRIES = 4
    MinClusters = 5
    MaxClusters = 14
    Sizes = {3, 10, 11, 18, 22, 26}
    Names = {"A", "B", "C", "D", "E", "F", "long"}
    LongNames = {"long"}
    Mappings <- MCMappings
CHECK_DEADLOCK FALSE
INVARIANTS
    RoundTrip
    LayoutSound
