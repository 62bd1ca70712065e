CONSTANTS
    Run = {r1, r2}
    Attempts = 3
    MaxDisturbances = 2
    MaxQueue = 1
SPECIFICATION FairSpec
CHECK_DEADLOCK FALSE
INVARIANTS
    SyncedMeansEnforced
PROPERTIES
    OnlyMisledClientsRest
    OnlyOvertakingMisleads
    HandlersEnd
