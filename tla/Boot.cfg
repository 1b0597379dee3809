CONSTANTS
    Disks <- MCDisks
    Files <- MCFiles
    EfiVars <- MCEfiVars
    EfiFails = TRUE
    MaxBoots = 3
SPECIFICATION Spec
INVARIANTS
    TypeOK
    RunsWhatWasChosen
    RememberedWasLoaded
    IntactEntryBoots
    UnattendedStays
PROPERTY
    EveryAttemptEnds
CHECK_DEADLOCK FALSE
