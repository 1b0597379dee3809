CONSTANTS
    NumDevices = 2
    Keyboards <- MCKeyboards
    Keys = {"Up", "Enter", "Escape"}
    Timeout = 2
    MaxKeys = 3
    MaxWaiting = 1
SPECIFICATION Spec
INVARIANTS
    TypeOK
    AutobootOnlyUntouched
    CountdownTakesItsTime
    FaithfulPerDevice
PROPERTY
    DevicesAreRead
CHECK_DEADLOCK FALSE
