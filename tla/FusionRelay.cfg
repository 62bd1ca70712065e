CONSTANTS
    Room = {r1}
    Peer = {p1, p2}
    Packet = {k1}
    Retention = 2
    Fresh = 1
    Ahead = 1
    EndGrace = 0
    SeenFor = 1
    MaxPeers = 2
    MaxRooms = 1
    CacheSize = 1
    OutSize = 2
    MaxTime = 3
    MaxSigned = 2

SPECIFICATION FairSpec

INVARIANTS
    RelayMatchesPeers
    NoEarlyRepeat

PROPERTIES
    TombstoneHolds
    RevisionsGrow
    EndedRoomEmpties
    StrangersLeave

\* The clock of the check stops at MaxTime.
CHECK_DEADLOCK FALSE
