CONSTANTS
    Disks <- MCDisks
    Files <- MCFiles
    EfiVars <- MCEfiVars
    EfiFails = FALSE
    MaxBoots = 3
SPECIFICATION Spec
INVARIANT KeyReachesStage1
CHECK_DEADLOCK FALSE
