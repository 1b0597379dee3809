CONSTANTS
    Disks <- MCDisks
    Files <- MCFiles
    EfiVars <- MCEfiVars
    EfiFails = FALSE
    MaxBoots = 3
SPECIFICATION Spec
INVARIANT IntactBoots
CHECK_DEADLOCK FALSE
