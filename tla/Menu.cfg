CONSTANTS
    plain = plain
    crypt = crypt
    bcache = bcache
    image = image
    DiskOrder <- MCDiskOrder
    Kind <- MCKind
    BootTree <- MCBootTree
    StaticLists <- MCStaticLists
    EfiVars <- MCEfiVars
    MaxDepth = 1
SPECIFICATION Spec
INVARIANTS
    TypeOK
    ViewMirrorsSources
    SideNamesItsSource
    KeyBelongsToLeaf
    ShownIsMounted
    LockedOpens
    UnattendedFollowsSpec
CHECK_DEADLOCK FALSE
