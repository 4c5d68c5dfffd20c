SPECIFICATION FairSpec
CONSTANTS
    PAGE_SIZE = 2
    MaxU64 = 9
    Descriptors <- MCDescriptors
    MaxDescs = 3
    Plans <- MCPlans
    Capacities = {3, 7}
CHECK_DEADLOCK FALSE
INVARIANTS
    OutputContract
    ExactOwnership
    VerdictExact
PROPERTIES
    ReturnsUnlessCrossed
