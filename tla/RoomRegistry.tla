---------------------------- MODULE RoomRegistry ----------------------------
(***************************************************************************)
(* The room and member registry of the DawnMesh server: the maps           *)
(* Server.rooms and Server.members, the connection handlers that report    *)
(* presence, the HTTP handlers that act for a member, and the sweeper.     *)
(*                                                                         *)
(* Source: internal/server/server.go, join.go, http_events.go, and the     *)
(* restart path of store.go.  Every critical section of Server.mu is one   *)
(* action; whatever a handler does between two critical sections can be    *)
(* overtaken by any other handler.                                         *)
(*                                                                         *)
(* Abstractions.  A deadline is "zero" (time.Time{}), "running" or "past"; *)
(* time may turn a running one to past at any moment, so every relative    *)
(* timing is covered.  A *Member is split in two: the fields the code only *)
(* reaches through Server.members live in members; IsHost, which handlers  *)
(* read and write through a pointer they captured earlier, lives in        *)
(* isHost[obj], obj being the identity of the Go object.  Random ids are   *)
(* drawn from small pools, never one that anything still refers to.        *)
(***************************************************************************)
EXTENDS Naturals, FiniteSets, Functions

CONSTANTS
    Room, MemberId, Object,     \* pools of room ids, member ids, *Member objects
    Device, Proof, NoProof,     \* device ids; device proofs, NoProof = none sent
    Conn, Request,              \* event-channel handlers; member requests
    MaximumRooms,               \* cfg.MaximumRooms
    MaxParticipants,            \* Room.MaxParticipants, the same for every room
    HostedLimit,                \* rooms one device may host (3 in the code)
    MaxOrder,                   \* bound of the check on JoinOrder
    Ops,                        \* the member operations that are exercised
    Restarts                    \* whether the process may be restarted

ASSUME RegistryAssumption ==
    /\ MaxParticipants \in Nat \ {0} /\ MaxOrder \in Nat \ {0}
    /\ MaximumRooms \in Nat /\ HostedLimit \in Nat
    /\ NoProof \notin Proof
    /\ Ops \subseteq {"rename", "handover", "leave", "end"}
    /\ Restarts \in BOOLEAN
    /\ IsFiniteSet(MemberId) /\ IsFiniteSet(Room)

VARIABLES
    mu,        \* Server.mu: "free" between actions, "lost" once a panic kept it
    rooms,     \* Server.rooms
    members,   \* Server.members, without IsHost
    isHost,    \* Member.IsHost of every object, reachable from members or not
    conns,     \* running event-channel handlers (events, eventHTTPStream)
    reqs,      \* member requests past withSession, with the captured *Member
    pending    \* rooms the sweeper still has to delete (deleteRooms in sweep)

vars == <<mu, rooms, members, isHost, conns, reqs, pending>>

-----------------------------------------------------------------------------
(* Types *)

Deadline == {"zero", "running", "past"}

RoomRecord == [host: MemberId, hostReconnectDeadline: Deadline,
               emptyDeadline: Deadline]

MemberRecord == [room: Room, device: Device, proof: Proof \cup {NoProof},
                 obj: Object, joinOrder: Nat \ {0}, connected: BOOLEAN,
                 reconnectDeadline: Deadline]

ConnRecord == [id: MemberId,
               pc: {"accepted", "added", "open", "removed", "closing"}]

RequestRecord == [op: {"rename", "handover", "leave", "end", "purge"},
                  id: MemberId, obj: Object, room: Room]

\* A Go map: a function whose domain is the keys present.
IsMap(m, K, V) == /\ DOMAIN m \subseteq K
                  /\ m = [k \in DOMAIN m |-> m[k]]
                  /\ \A k \in DOMAIN m : m[k] \in V

\* A shape every map and set of the registry keeps.
TypeOK ==
    /\ mu \in {"free", "lost"}
    /\ IsMap(rooms, Room, RoomRecord)
    /\ IsMap(members, MemberId, MemberRecord)
    /\ isHost \in [Object -> BOOLEAN]
    /\ IsMap(conns, Conn, ConnRecord)
    /\ IsMap(reqs, Request, RequestRecord)
    /\ pending \subseteq Room

-----------------------------------------------------------------------------
(* State helpers *)

Put(m, k, v)  == [x \in DOMAIN m \cup {k} |-> IF x = k THEN v ELSE m[x]]
Drop(m, S)    == Restrict(m, DOMAIN m \ S)

MembersOf(M, r)    == {i \in DOMAIN M : M[i].room = r}
OnlineMembers(M, r) == {i \in MembersOf(M, r) : M[i].connected}

HostedBy(d) == {i \in DOMAIN members : members[i].device = d /\ isHost[members[i].obj]}

\* Mutant of Attached: a handler still counts its own channel while it closes.
Attached_UntilDone(i) ==
    {c \in DOMAIN conns : conns[c].id = i /\ conns[c].pc \in {"added", "open", "removed"}}

\* The connections registered in Server.sockets and Server.eventStreams for i.
Attached(i) == {c \in DOMAIN conns : conns[c].id = i /\ conns[c].pc \in {"added", "open"}}

\* randomID: an id or an object nothing in the process still refers to.
FreshRooms == {r \in Room : /\ r \notin DOMAIN rooms \cup pending
                            /\ \A i \in DOMAIN members : members[i].room # r
                            /\ \A q \in DOMAIN reqs : reqs[q].room # r}
FreshIds == {i \in MemberId : /\ i \notin DOMAIN members
                              /\ \A r \in DOMAIN rooms : rooms[r].host # i
                              /\ \A c \in DOMAIN conns : conns[c].id # i
                              /\ \A q \in DOMAIN reqs : reqs[q].id # i}
FreshObjects == {o \in Object : /\ \A i \in DOMAIN members : members[i].obj # o
                                /\ \A q \in DOMAIN reqs : reqs[q].obj # o}

\* JoinOrder of a newcomer: one more than the largest in the room.
IsNextOrder(r, n) ==
    /\ \A i \in MembersOf(members, r) : members[i].joinOrder < n
    /\ n = 1 \/ \E i \in MembersOf(members, r) : n = members[i].joinOrder + 1

-----------------------------------------------------------------------------
(* assignHostLocked, for every room of D at once (rooms do not interact).  *)
(* M is the members map the call sees.                                     *)

NextHost(M, r) ==
    CHOOSE i \in OnlineMembers(M, r) :
        \A j \in OnlineMembers(M, r) : M[i].joinOrder <= M[j].joinOrder

\* Without an online candidate the call returns before changing anything.
Reassigned(M, D) == {r \in D : OnlineMembers(M, r) # {}}

\* Mutants of RoomsAfter: HostMemberID still names the old host; the new host
\* inherits the deadline of the old one.
RoomsAfter_KeepsHost(M, D) ==
    [r \in DOMAIN rooms |->
        IF r \in Reassigned(M, D) THEN [rooms[r] EXCEPT !.hostReconnectDeadline = "zero"]
        ELSE rooms[r]]
RoomsAfter_KeepsDeadline(M, D) ==
    [r \in DOMAIN rooms |->
        IF r \in Reassigned(M, D) THEN [rooms[r] EXCEPT !.host = NextHost(M, r)]
        ELSE rooms[r]]

RoomsAfter(M, D) ==
    [r \in DOMAIN rooms |->
        IF r \in Reassigned(M, D)
        THEN [rooms[r] EXCEPT !.host = NextHost(M, r), !.hostReconnectDeadline = "zero"]
        ELSE rooms[r]]

FlagsAfter(M, D) ==
    [o \in Object |->
        \/ \E r \in Reassigned(M, D) : o = M[NextHost(M, r)].obj
        \/ /\ isHost[o]
           /\ \A r \in Reassigned(M, D) :
                 rooms[r].host \in DOMAIN M => o # M[rooms[r].host].obj]

\* Former hosts that are offline lose their membership with the role.
Deposed(M, D) == {i \in DOMAIN M : ~M[i].connected /\ \E r \in Reassigned(M, D) : rooms[r].host = i}

-----------------------------------------------------------------------------
(* Admission *)

\* Mutant of HasCapacity: reservations of offline members are not counted.
HasCapacity_OnlineOnly(r) == Cardinality(OnlineMembers(members, r)) < MaxParticipants

HasCapacity(r) == Cardinality(MembersOf(members, r)) < MaxParticipants

\* Mutant of IsNewDevice: an unproved membership does not stop a proved one.
IsNewDevice_IgnoresUnproved(r, d, p) ==
    \A i \in MembersOf(members, r) : members[i].device = d => members[i].proof = NoProof

\* The device has no membership in r that the request must resume or yields to:
\* one that shows a proof is refused beside an unproved membership of the same
\* device id, and a proved membership is never joined a second time.
IsNewDevice(r, d, p) ==
    \A i \in MembersOf(members, r) :
        members[i].device = d => p = NoProof /\ members[i].proof = NoProof

NewMember(r, d, p, o, n, deadline) ==
    [room |-> r, device |-> d, proof |-> p, obj |-> o, joinOrder |-> n,
     connected |-> FALSE, reconnectDeadline |-> deadline]

\* createRoom: the creator is the host, offline and without any deadline
\* until the event channel opens.
CreateRoom(d, p) ==
    /\ mu = "free"
    /\ Cardinality(DOMAIN rooms) < MaximumRooms
    /\ Cardinality(HostedBy(d)) < HostedLimit
    /\ \E r \in FreshRooms, i \in FreshIds, o \in FreshObjects :
          /\ rooms' = Put(rooms, r, [host |-> i, hostReconnectDeadline |-> "zero",
                                     emptyDeadline |-> "zero"])
          /\ members' = Put(members, i, NewMember(r, d, p, o, 1, "zero"))
          /\ isHost' = [isHost EXCEPT ![o] = TRUE]
    /\ UNCHANGED <<mu, conns, reqs, pending>>

\* joinRoom without a previous membership of this device.
JoinRoom(r, d, p) ==
    /\ mu = "free"
    /\ r \in DOMAIN rooms
    /\ IsNewDevice(r, d, p)
    /\ HasCapacity(r)
    /\ \E i \in FreshIds, o \in FreshObjects, n \in 0..MaxOrder :
          /\ IsNextOrder(r, n)
          /\ members' = Put(members, i, NewMember(r, d, p, o, n, "running"))
          /\ isHost' = [isHost EXCEPT ![o] = FALSE]
    /\ UNCHANGED <<mu, rooms, conns, reqs, pending>>

\* Mutant of Rebound: the returning device goes to the end of the line.
Rebound_NewOrder(m, o) ==
    [m EXCEPT !.obj = o, !.reconnectDeadline = "running", !.joinOrder = @ + 1]

Rebound(m, o) == [m EXCEPT !.obj = o, !.reconnectDeadline = "running"]

\* joinRoom with the proof of a current membership: the map entry is replaced by
\* a copy of the object, with a new resume token and reconnect deadline.
RejoinRoom(i) ==
    /\ mu = "free"
    /\ i \in DOMAIN members
    /\ members[i].room \in DOMAIN rooms
    /\ members[i].proof # NoProof
    /\ \E o \in FreshObjects :
          /\ members' = [members EXCEPT ![i] = Rebound(@, o)]
          /\ isHost' = [isHost EXCEPT ![o] = isHost[members[i].obj]]
    /\ UNCHANGED <<mu, rooms, conns, reqs, pending>>

\* resume: new credentials for an existing membership.  It starts the missing
\* deadlines of an offline member and never extends a running one.
Resume(i) ==
    /\ mu = "free"
    /\ i \in DOMAIN members
    /\ LET r    == members[i].room
           host == isHost[members[i].obj]
       IN  /\ r \in DOMAIN rooms
           /\ IF host /\ rooms[r].hostReconnectDeadline # "zero"
              THEN rooms[r].hostReconnectDeadline # "past"
              ELSE members[i].reconnectDeadline # "past"
           /\ ~members[i].connected
           /\ members' = [members EXCEPT ![i].reconnectDeadline =
                             IF @ = "zero" THEN "running" ELSE @]
           /\ rooms' = [rooms EXCEPT ![r].hostReconnectDeadline =
                             IF host /\ @ = "zero" THEN "running" ELSE @]
    /\ UNCHANGED <<mu, isHost, conns, reqs, pending>>

-----------------------------------------------------------------------------
(* Presence: one handler per event channel, WebSocket or HTTP stream *)

\* eventPrincipal: the resume token names a member; the handler keeps its id.
Accept(c, i) ==
    /\ mu = "free"
    /\ c \notin DOMAIN conns
    /\ i \in DOMAIN members
    /\ conns' = Put(conns, c, [id |-> i, pc |-> "accepted"])
    /\ UNCHANGED <<mu, rooms, members, isHost, reqs, pending>>

\* addSocket, addEventStream.
AddSocket(c) ==
    /\ mu = "free"
    /\ c \in DOMAIN conns /\ conns[c].pc = "accepted"
    /\ conns' = [conns EXCEPT ![c].pc = "added"]
    /\ UNCHANGED <<mu, rooms, members, isHost, reqs, pending>>

\* Mutant of OnlineAgain: the empty-room deadline survives the reconnection.
OnlineAgain_KeepsEmptyDeadline(room, host) ==
    [room EXCEPT !.hostReconnectDeadline = IF host THEN "zero" ELSE @]

OnlineAgain(room, host) ==
    [room EXCEPT !.emptyDeadline = "zero",
                 !.hostReconnectDeadline = IF host THEN "zero" ELSE @]

\* markConnected(id, true).
MarkOnline(c) ==
    /\ mu = "free"
    /\ c \in DOMAIN conns /\ conns[c].pc = "added"
    /\ conns' = [conns EXCEPT ![c].pc = "open"]
    /\ LET i == conns[c].id
           r == members[i].room
       IN  IF i \in DOMAIN members /\ r \in DOMAIN rooms
           THEN /\ members' = [members EXCEPT ![i].connected = TRUE,
                                              ![i].reconnectDeadline = "zero"]
                /\ rooms' = [rooms EXCEPT ![r] = OnlineAgain(@, isHost[members[i].obj])]
           ELSE UNCHANGED <<members, rooms>>
    /\ UNCHANGED <<mu, isHost, reqs, pending>>

\* The channel ends, for whatever reason: removeSocket, removeEventStream.
RemoveSocket(c) ==
    /\ mu = "free"
    /\ c \in DOMAIN conns /\ conns[c].pc = "open"
    /\ conns' = [conns EXCEPT ![c].pc = "removed"]
    /\ UNCHANGED <<mu, rooms, members, isHost, reqs, pending>>

\* hasSocket: with another channel of the member registered the handler is done.
CheckSocket(c) ==
    /\ mu = "free"
    /\ c \in DOMAIN conns /\ conns[c].pc = "removed"
    /\ conns' = IF Attached(conns[c].id) # {} THEN Drop(conns, {c})
                ELSE [conns EXCEPT ![c].pc = "closing"]
    /\ UNCHANGED <<mu, rooms, members, isHost, reqs, pending>>

\* Mutant of IsSuperseded: the close callback does not look for newer channels.
IsSuperseded_Never(i) == FALSE

IsSuperseded(i) == Attached(i) # {}

\* markConnected(id, false), which looks for channels again under the lock.
MarkOffline(c) ==
    /\ mu = "free"
    /\ c \in DOMAIN conns /\ conns[c].pc = "closing"
    /\ conns' = Drop(conns, {c})
    /\ LET i == conns[c].id
           r == members[i].room
       IN  IF ~IsSuperseded(i) /\ i \in DOMAIN members /\ r \in DOMAIN rooms
           THEN /\ members' = [members EXCEPT ![i].connected = FALSE,
                                              ![i].reconnectDeadline = "running"]
                /\ rooms' = [rooms EXCEPT
                      ![r].hostReconnectDeadline =
                          IF isHost[members[i].obj] /\ @ = "zero" THEN "running" ELSE @,
                      ![r].emptyDeadline =
                          IF OnlineMembers(members, r) \subseteq {i} THEN "running" ELSE @]
           ELSE UNCHANGED <<members, rooms>>
    /\ UNCHANGED <<mu, isHost, reqs, pending>>

-----------------------------------------------------------------------------
(* Requests of members.  withSession finds the *Member by its token under   *)
(* the lock and passes the pointer on; the lock is free until the handler   *)
(* takes it again.  Some handlers test IsHost of the captured object in     *)
(* between.  The flag only rises while the object is in the map, so a       *)
(* request that passes the test could have been captured just as well at    *)
(* that moment: testing at the capture loses no behaviour.                  *)

Enter(q, op, i) ==
    /\ mu = "free"
    /\ q \notin DOMAIN reqs
    /\ i \in DOMAIN members
    /\ op = "leave" \/ isHost[members[i].obj]
    /\ reqs' = Put(reqs, q, [op |-> op, id |-> i, obj |-> members[i].obj,
                             room |-> members[i].room])
    /\ UNCHANGED <<mu, rooms, members, isHost, conns, pending>>

\* A body that does not decode, or a target the handler refuses.
Reject(q) ==
    /\ q \in DOMAIN reqs /\ reqs[q].op \in {"rename", "handover"}
    /\ reqs' = Drop(reqs, {q})
    /\ UNCHANGED <<mu, rooms, members, isHost, conns, pending>>

\* renameRoom: the room is not looked for again, so a room that has ended in the
\* meantime is a nil dereference; net/http recovers the panic, nobody unlocks mu.
RenameRoom(q) ==
    /\ mu = "free"
    /\ q \in DOMAIN reqs /\ reqs[q].op = "rename"
    /\ mu' = IF reqs[q].room \in DOMAIN rooms THEN "free" ELSE "lost"
    /\ reqs' = Drop(reqs, {q})
    /\ UNCHANGED <<rooms, members, isHost, conns, pending>>

\* handover to an online member t; the caller's flag is cleared on the object
\* that was captured.
Handover(q, t) ==
    /\ mu = "free"
    /\ q \in DOMAIN reqs /\ reqs[q].op = "handover"
    /\ LET r == reqs[q].room
       IN  /\ r \in DOMAIN rooms /\ rooms[r].host = reqs[q].id
           /\ t \in OnlineMembers(members, r) \ {reqs[q].id}
           /\ isHost' = [isHost EXCEPT ![reqs[q].obj] = FALSE, ![members[t].obj] = TRUE]
           /\ rooms' = [rooms EXCEPT ![r].host = t, ![r].hostReconnectDeadline = "zero"]
    /\ reqs' = Drop(reqs, {q})
    /\ UNCHANGED <<mu, members, conns, pending>>

\* leaveMember, up to the unlock.  A host that leaves nobody behind goes on to
\* delete the room in a critical section of its own.
LeaveMember(q) ==
    /\ mu = "free"
    /\ q \in DOMAIN reqs /\ reqs[q].op = "leave"
    /\ LET r       == reqs[q].room
           M       == Drop(members, {reqs[q].id})
           wasHost == isHost[reqs[q].obj]
           D       == {x \in DOMAIN rooms : x = r /\ wasHost}
       IN  /\ rooms' = RoomsAfter(M, D)
           /\ isHost' = FlagsAfter(M, D)
           /\ members' = Drop(M, Deposed(M, D))
           /\ reqs' = IF wasHost /\ MembersOf(members', r) = {}
                      THEN [reqs EXCEPT ![q].op = "purge"]
                      ELSE Drop(reqs, {q})
    /\ UNCHANGED <<mu, conns, pending>>

\* Mutant of DeleteRoom: online members are left in the map.
DeleteRoom_KeepsOnline(r) ==
    /\ rooms' = Drop(rooms, {r})
    /\ members' = Drop(members, MembersOf(members, r) \ OnlineMembers(members, r))

\* deleteRoom, the locked part: the room and all its members.
DeleteRoom(r) ==
    /\ rooms' = Drop(rooms, {r})
    /\ members' = IF r \in DOMAIN rooms THEN Drop(members, MembersOf(members, r)) ELSE members

\* endRoom, and the end of leaveMember.
EndRoom(q) ==
    /\ mu = "free"
    /\ q \in DOMAIN reqs /\ reqs[q].op \in {"end", "purge"}
    /\ DeleteRoom(reqs[q].room)
    /\ reqs' = Drop(reqs, {q})
    /\ UNCHANGED <<mu, isHost, conns, pending>>

\* adminEndRoom.
AdminEndRoom(r) ==
    /\ mu = "free"
    /\ r \in DOMAIN rooms
    /\ DeleteRoom(r)
    /\ UNCHANGED <<mu, isHost, conns, reqs, pending>>

-----------------------------------------------------------------------------
(* The sweeper, one goroutine: a locked pass over all rooms and members, then *)
(* the rooms it found empty, one deleteRoom each.                             *)

\* Mutant of IsExpired: connected members are not spared.
IsExpired_EvenOnline(i, flags) ==
    ~flags[members[i].obj] /\ members[i].reconnectDeadline = "past"

IsExpired(i, flags) ==
    /\ ~flags[members[i].obj]
    /\ ~members[i].connected
    /\ members[i].reconnectDeadline = "past"

\* Mutant of HostTimedOut: the room is skipped while its host is still listed.
HostTimedOut_OnlyGone(r) ==
    rooms[r].hostReconnectDeadline = "past" /\ rooms[r].host \notin DOMAIN members

HostTimedOut(r) == rooms[r].hostReconnectDeadline = "past"

\* Mutant of IsAbandoned: a room with reserved seats is not ended.
IsAbandoned_NoSeats(r) == rooms[r].emptyDeadline = "past" /\ MembersOf(members, r) = {}

IsAbandoned(r) == rooms[r].emptyDeadline = "past"

Sweep ==
    /\ mu = "free"
    /\ pending = {}
    /\ LET empty    == {r \in DOMAIN rooms : IsAbandoned(r)}
           timedOut == {r \in DOMAIN rooms \ empty : HostTimedOut(r)}
           flags    == FlagsAfter(members, timedOut)
           deposed  == Deposed(members, timedOut)
           expired  == {i \in DOMAIN members : IsExpired(i, flags)}
       IN  /\ pending' = empty
           /\ rooms' = RoomsAfter(members, timedOut)
           /\ isHost' = flags
           /\ members' = Drop(members, deposed \cup expired)
    /\ UNCHANGED <<mu, conns, reqs>>

SweepDelete(r) ==
    /\ mu = "free"
    /\ r \in pending
    /\ pending' = pending \ {r}
    /\ DeleteRoom(r)
    /\ UNCHANGED <<mu, isHost, conns, reqs>>

-----------------------------------------------------------------------------
(* Time, and the restart of the process *)

ReconnectDeadlinePasses(i) ==
    /\ i \in DOMAIN members /\ members[i].reconnectDeadline = "running"
    /\ members' = [members EXCEPT ![i].reconnectDeadline = "past"]
    /\ UNCHANGED <<mu, rooms, isHost, conns, reqs, pending>>

HostDeadlinePasses(r) ==
    /\ r \in DOMAIN rooms /\ rooms[r].hostReconnectDeadline = "running"
    /\ rooms' = [rooms EXCEPT ![r].hostReconnectDeadline = "past"]
    /\ UNCHANGED <<mu, members, isHost, conns, reqs, pending>>

EmptyDeadlinePasses(r) ==
    /\ r \in DOMAIN rooms /\ rooms[r].emptyDeadline = "running"
    /\ rooms' = [rooms EXCEPT ![r].emptyDeadline = "past"]
    /\ UNCHANGED <<mu, members, isHost, conns, reqs, pending>>

\* load and New, on a database that holds what memory held: everybody is offline,
\* missing deadlines start, IsHost is derived from host_member_id.
Restart ==
    /\ Restarts
    /\ mu' = "free"
    /\ rooms' = [r \in DOMAIN rooms |->
          [rooms[r] EXCEPT
              !.emptyDeadline = IF @ = "zero" THEN "running" ELSE @,
              !.hostReconnectDeadline =
                  IF rooms[r].host \in DOMAIN members /\ @ = "zero" THEN "running" ELSE @]]
    /\ members' = [i \in DOMAIN members |->
          [members[i] EXCEPT
              !.connected = FALSE,
              !.reconnectDeadline = IF @ = "zero" THEN "running" ELSE @]]
    /\ isHost' = [o \in Object |->
          \E i \in DOMAIN members : /\ members[i].obj = o
                                    /\ members[i].room \in DOMAIN rooms
                                    /\ rooms[members[i].room].host = i]
    /\ conns' = Restrict(conns, {})
    /\ reqs' = Restrict(reqs, {})
    /\ pending' = {}

-----------------------------------------------------------------------------

Init ==
    /\ mu = "free"
    /\ rooms = [r \in {} |-> r]
    /\ members = [i \in {} |-> i]
    /\ isHost = [o \in Object |-> FALSE]
    /\ conns = [c \in {} |-> c]
    /\ reqs = [q \in {} |-> q]
    /\ pending = {}

Admission ==
    \/ \E d \in Device, p \in Proof \cup {NoProof} :
          CreateRoom(d, p) \/ \E r \in Room : JoinRoom(r, d, p)
    \/ \E i \in MemberId : RejoinRoom(i) \/ Resume(i)

Presence ==
    \E c \in Conn :
        \/ \E i \in MemberId : Accept(c, i)
        \/ AddSocket(c) \/ MarkOnline(c) \/ RemoveSocket(c)
        \/ CheckSocket(c) \/ MarkOffline(c)

Requests ==
    \E q \in Request :
        \/ \E op \in Ops, i \in MemberId : Enter(q, op, i)
        \/ Reject(q) \/ RenameRoom(q) \/ LeaveMember(q) \/ EndRoom(q)
        \/ \E t \in MemberId : Handover(q, t)

Background ==
    \/ Sweep
    \/ \E r \in Room : SweepDelete(r) \/ AdminEndRoom(r)
    \/ \E r \in Room : HostDeadlinePasses(r) \/ EmptyDeadlinePasses(r)
    \/ \E i \in MemberId : ReconnectDeadlinePasses(i)
    \/ Restart

Next == Admission \/ Presence \/ Requests \/ Background

Spec == Init /\ [][Next]_vars

\* Handlers run to their end once started, the sweeper ticks every five seconds and
\* time passes.  Nothing obliges a client to connect, disconnect, join or ask.
Fairness ==
    /\ \A c \in Conn : WF_vars(AddSocket(c) \/ MarkOnline(c) \/ CheckSocket(c) \/ MarkOffline(c))
    /\ \A q \in Request : WF_vars(\/ Reject(q) \/ RenameRoom(q) \/ LeaveMember(q) \/ EndRoom(q)
                                  \/ \E t \in MemberId : Handover(q, t))
    /\ WF_vars(Sweep)
    /\ \A r \in Room : /\ WF_vars(SweepDelete(r))
                       /\ WF_vars(HostDeadlinePasses(r))
                       /\ WF_vars(EmptyDeadlinePasses(r))
    /\ \A i \in MemberId : WF_vars(ReconnectDeadlinePasses(i))

FairSpec == Spec /\ Fairness

-----------------------------------------------------------------------------
(* Invariants *)

\* Whoever is in Server.members belongs to a room that exists, whatever deletion,
\* admission and handover overlap: membersJSON, resume and markConnected rely on it.
MembersHaveRooms == \A i \in DOMAIN members : members[i].room \in DOMAIN rooms

\* A room never holds more members, reserved seats included, than MaxParticipants,
\* although a rejoin skips the capacity test and departures are retained.
WithinCapacity == \A r \in DOMAIN rooms : Cardinality(MembersOf(members, r)) <= MaxParticipants

\* A proved device is one member of a room: a device id shared by two members of a
\* room is proved by neither, whatever rejoins and joins were interleaved.
OneSeatPerDevice ==
    \A i, j \in DOMAIN members :
        i # j /\ members[i].room = members[j].room /\ members[i].device = members[j].device
            => members[i].proof = NoProof /\ members[j].proof = NoProof

\* Seniority is a strict order in every room, so "the earliest online member" that
\* assignHostLocked promotes is one member.
DistinctOrders ==
    \A i, j \in DOMAIN members :
        i # j /\ members[i].room = members[j].room => members[i].joinOrder # members[j].joinOrder

\* The empty-room deadline only stands while nobody in the room is online.
EmptyDeadlineMeansEmpty ==
    \A r \in DOMAIN rooms : rooms[r].emptyDeadline # "zero" => OnlineMembers(members, r) = {}

\* Presence is true: a member shown online has a channel, or one whose close
\* callback is still to come; a member with an open channel is shown online,
\* whatever order the open and close callbacks of its channels take the lock in
\* (API.md: a late close from an old connection cannot overwrite a replacement).
PresenceIsTrue ==
    /\ \A i \in DOMAIN members : members[i].connected =>
          \E c \in DOMAIN conns : conns[c].id = i /\ conns[c].pc # "accepted"
    /\ \A c \in DOMAIN conns : conns[c].pc = "open" /\ conns[c].id \in DOMAIN members
          => members[conns[c].id].connected

\* A room's HostMemberID, while it names a member, names one of that room, and one
\* whose current object carries the flag.
HostIsFlagged ==
    \A r \in DOMAIN rooms : rooms[r].host \in DOMAIN members =>
        members[rooms[r].host].room = r /\ isHost[members[rooms[r].host].obj]

\* i passes the role test of the handlers, and its room names another host.
Strays(i) ==
    i \in DOMAIN members /\ isHost[members[i].obj] /\ rooms[members[i].room].host # i

\* The host of r is online under a running deadline: the sweeper may depose it.
Threatened(r) ==
    /\ r \in DOMAIN rooms
    /\ rooms[r].host \in OnlineMembers(members, r)
    /\ rooms[r].hostReconnectDeadline # "zero"

-----------------------------------------------------------------------------
(* Action properties *)

\* An online member only leaves the map by its own leave or with its whole room;
\* in particular the sweeper and the promotion of a new host spare it.
OnlineMembersStay ==
    [][\A i \in DOMAIN members :
          members[i].connected /\ i \notin DOMAIN members' =>
              \/ members[i].room \notin DOMAIN rooms'
              \/ \E q \in DOMAIN reqs : reqs[q].op = "leave" /\ reqs[q].id = i]_vars

\* The caller of a handover that has rejoined since its request captured an object.
HandsOverOldObject(i) ==
    \E q \in DOMAIN reqs \ DOMAIN reqs' :
        /\ reqs[q].op = "handover" /\ reqs[q].id = i
        /\ i \in DOMAIN members /\ members[i].obj # reqs[q].obj

\* One host per room: the host carries the flag, and nobody else gets or keeps it, by no
\* promotion, handover, departure, sweep, rejoin or restart, except a caller of handover
\* that rejoined in between (server.go:553, where two members pass the role test then).
RoleSplitsOnlyByRejoin ==
    /\ []HostIsFlagged
    /\ [][\A i \in MemberId : Strays(i)' => Strays(i) \/ HandsOverOldObject(i)]_vars

\* No host is threatened by its own channels, in whatever order they come and go, nor by
\* a promotion, a handover or a restart: only by a stray member of its room, whose closing
\* channel, or resumption, is taken for that of the host (server.go:770).
OnlyStraysThreatenHosts ==
    [][\A r \in Room : Threatened(r)' =>
          Threatened(r) \/ \E i \in MembersOf(members, r) : Strays(i)]_vars

\* The sweeper ends a room only if nobody is online in it (README.md: a room is
\* deleted 30 minutes after it has become completely empty).
SweepSparesOccupiedRooms ==
    [][\A r \in pending :
          r \notin pending' /\ r \in DOMAIN rooms /\ r \notin DOMAIN rooms'
              => OnlineMembers(members, r) = {}]_vars

-----------------------------------------------------------------------------
(* Refinement: the part of a member that admission fixes for good *)

seats == [i \in DOMAIN members |->
             [room |-> members[i].room, device |-> members[i].device,
              proof |-> members[i].proof, joinOrder |-> members[i].joinOrder]]

Ledger == INSTANCE SeatLedger

\* The registry implements the seat ledger: no rejoin, reconnection, handover,
\* sweep or restart moves a seat, reorders it or hands it to another device.
ImplementsLedger == Ledger!Spec

-----------------------------------------------------------------------------
(* Liveness *)

\* A host that stays away past its deadline is replaced once somebody is online.
LateHostIsReplaced ==
    \A r \in Room :
        (r \in DOMAIN rooms /\ rooms[r].hostReconnectDeadline = "past" /\ OnlineMembers(members, r) # {})
        ~> (r \in DOMAIN rooms => \/ rooms[r].hostReconnectDeadline = "zero"
                                  \/ OnlineMembers(members, r) = {})

\* A room whose empty deadline runs ends, unless somebody comes back.
EmptyDeadlineEndsRoom ==
    \A r \in Room :
        (r \in DOMAIN rooms /\ rooms[r].emptyDeadline # "zero")
        ~> (r \in DOMAIN rooms => rooms[r].emptyDeadline = "zero")

\* A member whose last channel is gone is shown offline.
LostMemberGoesOffline ==
    \A i \in MemberId :
        (i \in DOMAIN members /\ Attached(i) = {})
        ~> (i \in DOMAIN members => ~members[i].connected \/ Attached(i) # {})
=============================================================================
