SPECIFICATION TestSpec
CONSTANTS
    Devices = {0, 7, 15}
    MaxTicks = 6
    MaxCount = 3
    Environments <- MCGood
    SleepTicks = 3
    EarlyTicks = 2
INVARIANTS
    PanicFails
