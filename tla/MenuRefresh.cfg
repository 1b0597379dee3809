CONSTANTS
    plain = plain
    crypt = crypt
    bcache = bcache
    image = image
    DiskOrder <- MCDiskOrder
    Kind <- MCKind
    BootTree <- MCBootTree
    StaticLists <- MCStaticLists
    EfiVars <- MCEfiVars
    MaxDepth = 1
SPECIFICATION Spec
PROPERTY
    RefreshKeepsMounted
CHECK_DEADLOCK FALSE
