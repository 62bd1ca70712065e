CONSTANTS
    Room = {r1}
    MemberId = {m1, m2}
    Object = {o1, o2}
    Device = {d1}
    Proof = {}
    NoProof = NoProof
    Conn = {c1, c2}
    Request = {q1}
    MaximumRooms = 1
    MaxParticipants = 2
    HostedLimit = 3
    MaxOrder = 3
    Ops = {"handover"}
    Restarts = FALSE
SPECIFICATION FairSpec
INVARIANTS
    PresenceIsTrue
PROPERTIES
    LateHostIsReplaced
    EmptyDeadlineEndsRoom
    LostMemberGoesOffline
