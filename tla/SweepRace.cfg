CONSTANTS
    Room = {r1}
    MemberId = {m1, m2}
    Object = {o1, o2}
    Device = {d1}
    Proof = {}
    NoProof = NoProof
    Conn = {c1}
    Request = {}
    MaximumRooms = 1
    MaxParticipants = 2
    HostedLimit = 3
    MaxOrder = 3
    Ops = {"rename", "handover", "leave", "end"}
    Restarts = FALSE
SPECIFICATION Spec
PROPERTIES
    SweepSparesOccupiedRooms
