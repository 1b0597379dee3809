CONSTANTS
    Slots <- MCSlots
    Drives <- MCDrives
    Starts <- MCStarts
    Allowed <- MCAllowed
    Timeout = 2
    MaxChanges = 3
SPECIFICATION Spec
INVARIANTS
    TypeOK
    SteadyIsReported
    CompleteHasAll
PROPERTY
    Ends
CHECK_DEADLOCK FALSE
