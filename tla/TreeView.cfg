CONSTANTS
    Found <- MCFound
    Given <- ReadTrees
    Trees <- AllTrees
    Height <- AllHeights
    Deepest <- AllDeepest
    Views <- BuildViews
    Machines <- MCMachines
SPECIFICATION Spec
INVARIANTS
    TypeOK
    VisibleAreUnfolded
    CursorIsShown
    RequestIsOfCursor
    WholeLeavesShown
    DefaultUnderCursor
PROPERTY
    ImplementsOutline
CHECK_DEADLOCK FALSE
