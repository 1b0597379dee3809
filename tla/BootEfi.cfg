CONSTANTS
    Disks <- MCDisks
    Files <- MCFiles
    EfiVars <- MCEfiVars
    EfiFails = FALSE
    MaxBoots = 3
SPECIFICATION Spec
INVARIANT RememberedIsLast
CHECK_DEADLOCK FALSE
