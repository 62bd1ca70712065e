CONSTANTS
    MaxStays = 2
    MaxChannels = 4
    MaxRooms = 4
    MaxJobs = 4
    MaxFaults = 4
SPECIFICATION FairSpec
CHECK_DEADLOCK FALSE
INVARIANTS
    NothingForgotten
    TokenIsCurrent
    LeavingIsQuiet
PROPERTIES
    RecoveryConverges
