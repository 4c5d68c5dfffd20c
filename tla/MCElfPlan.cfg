SPECIFICATION Spec
CONSTANTS
    ELF_PAGE = 4
    Width = 4
    ELF_MAX_SEGMENTS = 2
    ELF_MAX_KERNEL_SPAN = 8
    PhdrBytes = 1
    FileSize = 5
    Headers <- MCHeaders
    Phdrs <- MCPhdrs
    MaxPhdrs = 3
CHECK_DEADLOCK FALSE
INVARIANTS
    PlanSound
    PlanExact
    LoadedImage
