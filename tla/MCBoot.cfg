SPECIFICATION BootSpec
CONSTANTS
    NPages = 21
    InitialType <- MCInitialType
    Segments <- MCSegments
    FilePages = 4
    StackPages = 4
    Slack = 0
    PageBytes = 6
    Strides = {1, 2}
    EntriesPerPage = 500
    CallbackPages = {8, 9, 13, 18}
    MaxEvents = 4
    LowPages = 8
    BitmapPage = 4
    MaxU64 = 100
    ST_PAGES = 2
CHECK_DEADLOCK FALSE
INVARIANTS
    OnlyRecoveryPair
    HandoffMapExact
    HandoffPagesOwned
    RoomForTranslation
    KernelOwnMemory
    VerdictRight
PROPERTIES
    Decides
