CONSTANTS
    MaxListeners = 2
    MaxStops = 2
    MaxSignIns = 2
SPECIFICATION FairSpec
CHECK_DEADLOCK FALSE
INVARIANTS
    NothingPlaysUnattended
PROPERTIES
    UnseenListeningEnds
    LogoutSilences
