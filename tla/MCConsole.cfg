SPECIFICATION FairSpec
CONSTANTS
    CELL = 2
    MARGIN = 1
    MinWidth = 5
    MinHeight = 5
    MAX_SINKS = 4
    DEC = 3
    HEX = 4
    INT = 8
    LONG = 16
    POINTER = 2
    BUF = 3
    PollLimit = 2
    Directives <- MCDirectives
    Framebuffers <- MCFramebuffers
    Uarts = {"ok", "wedged", "absent"}
    PanicWords <- MCPanicWords
    MaxChars = 5
INVARIANTS
    InsideFramebuffer
    ScreenShowsText
    PrintedReadsBack
    PanicTextComplete
PROPERTIES
    PanicHalts
