CONSTANTS
    Member = {m1, m2, m3}
    SeenLimit = 1
    MaxQueue = 3
    MaxLeft = 4
SPECIFICATION Spec
CHECK_DEADLOCK FALSE
INVARIANTS
    DropsAreFresh
    DeparturesAreToldOnce
