CONSTANTS
    Room = {r1}
    MemberId = {m1, m2, m3}
    Object = {o1, o2, o3}
    Device = {d1, d2}
    Proof = {p1}
    NoProof = NoProof
    Conn = {c1}
    Request = {q1}
    MaximumRooms = 1
    MaxParticipants = 2
    HostedLimit = 3
    MaxOrder = 3
    Ops = {"rename", "handover", "leave", "end"}
    Restarts = TRUE
SPECIFICATION Spec
SYMMETRY Symmetry
INVARIANTS
    MembersHaveRooms
    WithinCapacity
    OneSeatPerDevice
    EmptyDeadlineMeansEmpty
PROPERTIES
    OnlineMembersStay
    RoleSplitsOnlyByRejoin
    OnlyStraysThreatenHosts
    ImplementsLedger
