SPECIFICATION FairSpec
CONSTANTS
    Maps <- MCMaps
    LowPages = 8
    PageBytes = 1
    MaxU64 = 1000
INVARIANTS
    TypeOK
    ReservedStaysAllocated
    FreePagesExact
    ExhaustedOnlyWhenFull
PROPERTIES
    AllocReturns
    RefinesPageAllocator
