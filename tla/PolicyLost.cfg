CONSTANTS
    Run = {r1, r2}
    Attempts = 1
    MaxDisturbances = 2
    MaxQueue = 1
SPECIFICATION FairSpec
CHECK_DEADLOCK FALSE
PROPERTIES
    PolicyReachesLiveKit
