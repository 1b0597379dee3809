\* Three systems, two of them kept: the third install prunes, and a fourth
\* install comes back to a leaf that is there, half there or gone.
CONSTANTS
    Systems = {a, b, c}
    NumEntries = 1
    Retention = 2
    Strategies = {"copy", "reflink"}
    MaxInstalls = 4
    MaxSeconds = 2
SYMMETRY LeafSymmetry
SPECIFICATION Spec
INVARIANTS
    TypeOK
    ListedIsBootable
    FinishedIsPicked
    PruneTakesOldest
PROPERTIES
    BystandersUnharmed
    LastLeafLostOnlyByReinstall
CHECK_DEADLOCK FALSE
