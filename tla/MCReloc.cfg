SPECIFICATION Spec
CONSTANTS
    Width = 6
    WordBytes = 2
    DynBytes = 4
    RelaBytes = 6
    Images <- MCImages
    Dyns <- MCDyns
    Relas <- MCRelas
CHECK_DEADLOCK FALSE
INVARIANTS
    InsideImage
    RelocatedOrMalformed
