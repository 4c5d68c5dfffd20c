SPECIFICATION TestSpec
CONSTANTS
    Devices = {0, 7, 15}
    MaxTicks = 6
    MaxCount = 3
    Environments <- MCEnvironments
    SleepTicks = 3
    EarlyTicks = 2
INVARIANTS
    ChecksHonest
    NothingStrikesUnarmed
    VerdictTruthfulUnlessNmi
PROPERTIES
    ComesUpUnlessDead
