SPECIFICATION IFairSpec
CONSTANTS
    Devices = {0, 7, 9, 15}
    MaxTicks = 1
    MaxCount = 1
INVARIANTS
    NothingLeftInService
PROPERTIES
    EoiMatchesService
    HandlersRunExactlyForReal
    TimerServed
