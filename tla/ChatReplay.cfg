CONSTANTS
    Stay = {s1, s2, s3}
    Text = {t1, t2, t3}
    MaxCounter = 1
    Capacity = 1
    MaxOpening = 2
SPECIFICATION Spec
CHECK_DEADLOCK FALSE
INVARIANTS
    NoncesUnique
    OnlyOvertakenAreLost
PROPERTIES
    ImplementsOnce
SYMMETRY Symmetry
