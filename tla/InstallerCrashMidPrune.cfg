CONSTANTS
    Systems = {a, b, c}
    NumEntries = 1
    Retention = 2
    Strategies = {"copy"}
    MaxInstalls = 4
    MaxSeconds = 2
SYMMETRY LeafSymmetry
SPECIFICATION Spec
INVARIANT TouchedIsNewest
CHECK_DEADLOCK FALSE
