SPECIFICATION Spec
CONSTANTS
    ByteSize = 16
    V1_LENGTH = 3
    V2_MIN_LENGTH = 5
    MAX_LENGTH = 7
    ConfigTables <- MCConfigTables
    MaxTables = 3
    Modes <- MCModes
    MinWidth = 3
    MinHeight = 3
    MARGIN = 1
    CELL = 1
INVARIANTS
    CorruptionDetected
    PrefersAcpi20
    ScreenShowsColours
