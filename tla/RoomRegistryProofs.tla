------------------------- MODULE RoomRegistryProofs -------------------------
(***************************************************************************)
(* Theorems about RoomRegistry, for every value of its constants.          *)
(***************************************************************************)
EXTENDS RoomRegistry, FiniteSetTheorems, TLAPS

-----------------------------------------------------------------------------
(* Maps *)

\* Writing one entry of a Go map keeps its shape.
LEMMA PutMap ==
  ASSUME NEW m, NEW K, NEW V, IsMap(m, K, V), NEW k \in K, NEW v \in V
  PROVE  IsMap(Put(m, k, v), K, V)
BY DEF IsMap, Put

\* Deleting entries of a Go map keeps its shape.
LEMMA DropMap ==
  ASSUME NEW m, NEW K, NEW V, IsMap(m, K, V), NEW S
  PROVE  IsMap(Drop(m, S), K, V)
BY DEF IsMap, Drop, Restrict

\* Rewriting an entry that is present keeps the shape of a Go map.
LEMMA UpdateMap ==
  ASSUME NEW m, NEW K, NEW V, IsMap(m, K, V), NEW k \in DOMAIN m, NEW v \in V
  PROVE  IsMap([m EXCEPT ![k] = v], K, V)
BY DEF IsMap

-----------------------------------------------------------------------------
(* The choice of the next host *)

\* A room with an online member has an earliest one: the sort of assignHostLocked
\* finds it because a set of members, ordered by the sets of their elders, has a
\* minimal element.
LEMMA NextHostIsEarliest ==
  ASSUME NEW M, IsMap(M, MemberId, MemberRecord), NEW r,
         OnlineMembers(M, r) # {}
  PROVE  /\ NextHost(M, r) \in OnlineMembers(M, r)
         /\ \A j \in OnlineMembers(M, r) : M[NextHost(M, r)].joinOrder <= M[j].joinOrder
<1> DEFINE S == OnlineMembers(M, r)
           elders(i) == {j \in S : M[j].joinOrder < M[i].joinOrder}
           T == {elders(i) : i \in S}
<1>1. /\ S \subseteq MemberId
      /\ \A i \in S : M[i].joinOrder \in Nat
  BY DEF OnlineMembers, MembersOf, IsMap, MemberRecord
<1>2. IsFiniteSet(S)
  BY <1>1, FS_Subset, RegistryAssumption
<1>3. T \subseteq FiniteSubsetsOf(S) /\ T # {}
  <2>1. ASSUME NEW i \in S PROVE elders(i) \in SUBSET S
    OBVIOUS
  <2>2. ASSUME NEW i \in S PROVE IsFiniteSet(elders(i))
    BY <1>2, <2>1, FS_Subset
  <2> QED
    BY <2>1, <2>2 DEF FiniteSubsetsOf
<1>4. PICK x \in T : \A y \in T : <<y, x>> \notin StrictSubsetOrdering(S)
  BY <1>3, FS_StrictSubsetOrderingWellFounded, WFMin
<1>5. PICK i \in S : x = elders(i)
  OBVIOUS
<1>6. ASSUME NEW j \in S PROVE M[i].joinOrder <= M[j].joinOrder
  <2>1. SUFFICES ASSUME M[j].joinOrder < M[i].joinOrder PROVE FALSE
    BY <1>1
  <2>2. elders(j) \subseteq elders(i) /\ elders(j) # elders(i)
    BY <1>1, <2>1
  <2>3. <<elders(j), x>> \in StrictSubsetOrdering(S)
    BY <1>5, <2>2 DEF StrictSubsetOrdering
  <2> QED
    BY <1>4, <2>3
<1> QED
  BY <1>6 DEF NextHost

-----------------------------------------------------------------------------
(* Types *)

\* assignHostLocked keeps the set of rooms and their shape.
LEMMA RoomsAfterMap ==
  ASSUME IsMap(rooms, Room, RoomRecord), NEW M, IsMap(M, MemberId, MemberRecord), NEW D
  PROVE  IsMap(RoomsAfter(M, D), Room, RoomRecord)
<1> DEFINE R == RoomsAfter(M, D)
<1>1. ASSUME NEW r \in DOMAIN rooms PROVE R[r] \in RoomRecord
  <2>1. CASE r \in Reassigned(M, D)
    <3>1. NextHost(M, r) \in MemberId
      BY <2>1, NextHostIsEarliest DEF Reassigned, OnlineMembers, MembersOf, IsMap
    <3>2. R[r] = [rooms[r] EXCEPT !.host = NextHost(M, r), !.hostReconnectDeadline = "zero"]
      BY <2>1 DEF RoomsAfter
    <3> QED
      BY <3>1, <3>2 DEF RoomRecord, Deadline, IsMap
  <2>2. CASE r \notin Reassigned(M, D)
    BY <2>2 DEF RoomsAfter, IsMap
  <2> QED
    BY <2>1, <2>2
<1> QED
  BY <1>1 DEF IsMap, RoomsAfter

\* Every state the initial predicate allows is well typed.
LEMMA InitTypeOK == Init => TypeOK
BY DEF Init, TypeOK, IsMap

\* Admission keeps the types.
LEMMA AdmissionTypeOK == TypeOK /\ Admission => TypeOK'
<1> SUFFICES ASSUME TypeOK, Admission PROVE TypeOK'
  OBVIOUS
<1> USE DEF TypeOK
<1>1. ASSUME NEW d \in Device, NEW p \in Proof \cup {NoProof}, CreateRoom(d, p)
      PROVE  TypeOK'
  <2>1. PICK r \in FreshRooms, i \in FreshIds, o \in FreshObjects :
          /\ rooms' = Put(rooms, r, [host |-> i, hostReconnectDeadline |-> "zero",
                                     emptyDeadline |-> "zero"])
          /\ members' = Put(members, i, NewMember(r, d, p, o, 1, "zero"))
          /\ isHost' = [isHost EXCEPT ![o] = TRUE]
    BY <1>1 DEF CreateRoom
  <2>2. r \in Room /\ i \in MemberId /\ o \in Object
    BY DEF FreshRooms, FreshIds, FreshObjects
  <2>3. NewMember(r, d, p, o, 1, "zero") \in MemberRecord
    BY <2>2 DEF NewMember, MemberRecord, Deadline
  <2>4. [host |-> i, hostReconnectDeadline |-> "zero", emptyDeadline |-> "zero"] \in RoomRecord
    BY <2>2 DEF RoomRecord, Deadline
  <2>5. IsMap(rooms', Room, RoomRecord) /\ IsMap(members', MemberId, MemberRecord)
    BY <2>1, <2>2, <2>3, <2>4, PutMap
  <2> QED
    BY <1>1, <2>1, <2>5 DEF CreateRoom
<1>2. ASSUME NEW r \in Room, NEW d \in Device, NEW p \in Proof \cup {NoProof}, JoinRoom(r, d, p)
      PROVE  TypeOK'
  <2>1. PICK i \in FreshIds, o \in FreshObjects, n \in 0..MaxOrder :
          /\ IsNextOrder(r, n)
          /\ members' = Put(members, i, NewMember(r, d, p, o, n, "running"))
          /\ isHost' = [isHost EXCEPT ![o] = FALSE]
    BY <1>2 DEF JoinRoom
  <2>2. i \in MemberId /\ o \in Object
    BY DEF FreshIds, FreshObjects
  <2>3. n \in Nat \ {0}
    <3>1. \A j \in DOMAIN members : members[j].joinOrder \in Nat
      BY DEF IsMap, MemberRecord
    <3> QED
      BY <2>1, <3>1, RegistryAssumption DEF IsNextOrder, MembersOf
  <2>4. NewMember(r, d, p, o, n, "running") \in MemberRecord
    BY <2>2, <2>3 DEF NewMember, MemberRecord, Deadline
  <2>5. IsMap(members', MemberId, MemberRecord)
    BY <2>1, <2>2, <2>4, PutMap
  <2> QED
    BY <1>2, <2>1, <2>5 DEF JoinRoom
<1>3. ASSUME NEW i \in MemberId, RejoinRoom(i)
      PROVE  TypeOK'
  <2>1. PICK o \in FreshObjects :
          /\ members' = [members EXCEPT ![i] = Rebound(@, o)]
          /\ isHost' = [isHost EXCEPT ![o] = isHost[members[i].obj]]
    BY <1>3 DEF RejoinRoom
  <2>2. o \in Object /\ members[i].obj \in Object /\ members[i] \in MemberRecord
    BY <1>3 DEF FreshObjects, RejoinRoom, IsMap, MemberRecord
  <2>3. Rebound(members[i], o) \in MemberRecord
    BY <2>2 DEF Rebound, MemberRecord, Deadline
  <2>4. IsMap(members', MemberId, MemberRecord)
    BY <1>3, <2>1, <2>3, UpdateMap DEF RejoinRoom
  <2>5. isHost' \in [Object -> BOOLEAN]
    BY <2>1, <2>2
  <2> QED
    BY <1>3, <2>4, <2>5 DEF RejoinRoom
<1>4. ASSUME NEW i \in MemberId, Resume(i)
      PROVE  TypeOK'
  <2> DEFINE r == members[i].room
             m == [members[i] EXCEPT !.reconnectDeadline = IF @ = "zero" THEN "running" ELSE @]
             q == [rooms[r] EXCEPT !.hostReconnectDeadline =
                      IF isHost[members[i].obj] /\ @ = "zero" THEN "running" ELSE @]
  <2>1. /\ i \in DOMAIN members /\ r \in DOMAIN rooms
        /\ members' = [members EXCEPT ![i] = m]
        /\ rooms' = [rooms EXCEPT ![r] = q]
    BY <1>4 DEF Resume
  <2>2. members[i] \in MemberRecord /\ rooms[r] \in RoomRecord
    BY <2>1 DEF IsMap
  <2>3. m \in MemberRecord
    BY <2>2 DEF MemberRecord, Deadline
  <2>4. q \in RoomRecord
    BY <2>2 DEF RoomRecord, Deadline
  <2>5. IsMap(rooms', Room, RoomRecord) /\ IsMap(members', MemberId, MemberRecord)
    BY <2>1, <2>3, <2>4, UpdateMap
  <2> QED
    BY <1>4, <2>5 DEF Resume
<1> QED
  BY <1>1, <1>2, <1>3, <1>4 DEF Admission

\* The event-channel handlers keep the types.
LEMMA PresenceTypeOK == TypeOK /\ Presence => TypeOK'
<1> SUFFICES ASSUME TypeOK, NEW c \in Conn,
                    \/ \E i \in MemberId : Accept(c, i)
                    \/ AddSocket(c) \/ MarkOnline(c) \/ RemoveSocket(c)
                    \/ CheckSocket(c) \/ MarkOffline(c)
             PROVE  TypeOK'
  BY DEF Presence
<1> USE DEF TypeOK
<1>1. ASSUME NEW i \in MemberId, Accept(c, i) PROVE TypeOK'
  <2>1. [id |-> i, pc |-> "accepted"] \in ConnRecord
    BY DEF ConnRecord
  <2> QED
    BY <1>1, <2>1, PutMap DEF Accept
<1>2. ASSUME c \in DOMAIN conns,
             NEW pc \in {"added", "open", "removed", "closing"},
             conns' = [conns EXCEPT ![c].pc = pc]
      PROVE  IsMap(conns', Conn, ConnRecord)
  <2>1. [conns[c] EXCEPT !.pc = pc] \in ConnRecord
    BY <1>2 DEF IsMap, ConnRecord
  <2>2. conns' = [conns EXCEPT ![c] = [conns[c] EXCEPT !.pc = pc]]
    BY <1>2
  <2> QED
    <3>1. IsMap([conns EXCEPT ![c] = [conns[c] EXCEPT !.pc = pc]], Conn, ConnRecord)
      BY <1>2, <2>1, UpdateMap
    <3> QED
      BY <2>2, <3>1
<1>3. IsMap(Drop(conns, {c}), Conn, ConnRecord)
  BY DropMap
<1>4. CASE AddSocket(c)
  BY <1>2, <1>4 DEF AddSocket
<1>5. CASE RemoveSocket(c)
  BY <1>2, <1>5 DEF RemoveSocket
<1>6. CASE CheckSocket(c)
  <2>1. CASE Attached(conns[c].id) # {}
    BY <1>3, <1>6, <2>1 DEF CheckSocket
  <2>2. CASE Attached(conns[c].id) = {}
    <3>1. c \in DOMAIN conns /\ conns' = [conns EXCEPT ![c].pc = "closing"]
      BY <1>6, <2>2 DEF CheckSocket
    <3>2. IsMap(conns', Conn, ConnRecord)
      BY <1>2, <3>1
    <3> QED
      BY <1>6, <3>2 DEF CheckSocket
  <2> QED
    BY <2>1, <2>2
<1>7. CASE MarkOnline(c)
  <2> DEFINE i == conns[c].id
             r == members[i].room
             m == [members[i] EXCEPT !.connected = TRUE, !.reconnectDeadline = "zero"]
             q == OnlineAgain(rooms[r], isHost[members[i].obj])
  <2>1. IsMap(conns', Conn, ConnRecord)
    BY <1>2, <1>7 DEF MarkOnline
  <2>2. CASE i \in DOMAIN members /\ r \in DOMAIN rooms
    <3>1. /\ members' = [members EXCEPT ![i] = m]
          /\ rooms' = [rooms EXCEPT ![r] = q]
      BY <1>7, <2>2 DEF MarkOnline
    <3>2. members[i] \in MemberRecord /\ rooms[r] \in RoomRecord
      BY <2>2 DEF IsMap
    <3>3. m \in MemberRecord
      BY <3>2 DEF MemberRecord, Deadline
    <3>4. q \in RoomRecord
      BY <3>2 DEF OnlineAgain, RoomRecord, Deadline
    <3>5. IsMap(rooms', Room, RoomRecord) /\ IsMap(members', MemberId, MemberRecord)
      BY <2>2, <3>1, <3>3, <3>4, UpdateMap
    <3> QED
      BY <1>7, <2>1, <3>5 DEF MarkOnline
  <2>3. CASE ~(i \in DOMAIN members /\ r \in DOMAIN rooms)
    BY <1>7, <2>1, <2>3 DEF MarkOnline
  <2> QED
    BY <2>2, <2>3
<1>8. CASE MarkOffline(c)
  <2> DEFINE i == conns[c].id
             r == members[i].room
             m == [members[i] EXCEPT !.connected = FALSE, !.reconnectDeadline = "running"]
             q == [rooms[r] EXCEPT
                     !.hostReconnectDeadline =
                         IF isHost[members[i].obj] /\ @ = "zero" THEN "running" ELSE @,
                     !.emptyDeadline =
                         IF OnlineMembers(members, r) \subseteq {i} THEN "running" ELSE @]
  <2>1. CASE ~IsSuperseded(i) /\ i \in DOMAIN members /\ r \in DOMAIN rooms
    <3>1. /\ members' = [members EXCEPT ![i] = m]
          /\ rooms' = [rooms EXCEPT ![r] = q]
      BY <1>8, <2>1 DEF MarkOffline
    <3>2. members[i] \in MemberRecord /\ rooms[r] \in RoomRecord
      BY <2>1 DEF IsMap
    <3>3. m \in MemberRecord
      BY <3>2 DEF MemberRecord, Deadline
    <3>4. q \in RoomRecord
      BY <3>2 DEF RoomRecord, Deadline
    <3>5. IsMap(rooms', Room, RoomRecord) /\ IsMap(members', MemberId, MemberRecord)
      BY <2>1, <3>1, <3>3, <3>4, UpdateMap
    <3> QED
      BY <1>3, <1>8, <3>5 DEF MarkOffline
  <2>2. CASE ~(~IsSuperseded(i) /\ i \in DOMAIN members /\ r \in DOMAIN rooms)
    BY <1>3, <1>8, <2>2 DEF MarkOffline
  <2> QED
    BY <2>1, <2>2
<1> QED
  BY <1>1, <1>4, <1>5, <1>6, <1>7, <1>8

\* deleteRoom keeps the types of the two maps it changes.
LEMMA DeleteRoomTypeOK ==
  ASSUME TypeOK, NEW r, DeleteRoom(r)
  PROVE  IsMap(rooms', Room, RoomRecord) /\ IsMap(members', MemberId, MemberRecord)
<1>1. CASE r \in DOMAIN rooms
  BY <1>1, DropMap DEF TypeOK, DeleteRoom
<1>2. CASE r \notin DOMAIN rooms
  BY <1>2, DropMap DEF TypeOK, DeleteRoom
<1> QED
  BY <1>1, <1>2

\* The requests of members keep the types.
LEMMA RequestsTypeOK == TypeOK /\ Requests => TypeOK'
<1> SUFFICES ASSUME TypeOK, NEW q \in Request,
                    \/ \E op \in Ops, i \in MemberId : Enter(q, op, i)
                    \/ Reject(q) \/ RenameRoom(q) \/ LeaveMember(q) \/ EndRoom(q)
                    \/ \E t \in MemberId : Handover(q, t)
             PROVE  TypeOK'
  BY DEF Requests
<1>1. IsMap(Drop(reqs, {q}), Request, RequestRecord)
  BY DropMap DEF TypeOK
<1>2. ASSUME NEW op \in Ops, NEW i \in MemberId, Enter(q, op, i) PROVE TypeOK'
  <2>1. members[i] \in MemberRecord
    BY <1>2 DEF Enter, TypeOK, IsMap
  <2>2. [op |-> op, id |-> i, obj |-> members[i].obj, room |-> members[i].room] \in RequestRecord
    BY <2>1, RegistryAssumption DEF MemberRecord, RequestRecord
  <2>3. IsMap(reqs', Request, RequestRecord)
    BY <1>2, <2>2, PutMap DEF Enter, TypeOK
  <2> QED
    BY <1>2, <2>3 DEF Enter, TypeOK
<1>3. CASE Reject(q)
  BY <1>1, <1>3 DEF Reject, TypeOK
<1>4. CASE RenameRoom(q)
  BY <1>1, <1>4 DEF RenameRoom, TypeOK
<1>5. CASE LeaveMember(q)
  <2> DEFINE r == reqs[q].room
             M == Drop(members, {reqs[q].id})
             wasHost == isHost[reqs[q].obj]
             D == {x \in DOMAIN rooms : x = r /\ wasHost}
  <2>1. IsMap(M, MemberId, MemberRecord)
    BY DropMap DEF TypeOK
  <2>2. /\ rooms' = RoomsAfter(M, D)
        /\ isHost' = FlagsAfter(M, D)
        /\ members' = Drop(M, Deposed(M, D))
    BY <1>5 DEF LeaveMember
  <2>3. IsMap(rooms', Room, RoomRecord)
    BY <2>1, <2>2, RoomsAfterMap DEF TypeOK
  <2>4. IsMap(members', MemberId, MemberRecord)
    BY <2>1, <2>2, DropMap
  <2>5. isHost' \in [Object -> BOOLEAN]
    BY <2>2, Zenon DEF FlagsAfter
  <2>6. IsMap(reqs', Request, RequestRecord)
    <3>1. CASE wasHost /\ MembersOf(members', r) = {}
      <4>1. [reqs[q] EXCEPT !.op = "purge"] \in RequestRecord
        BY <1>5 DEF LeaveMember, TypeOK, IsMap, RequestRecord
      <4>2. q \in DOMAIN reqs /\ reqs' = [reqs EXCEPT ![q] = [reqs[q] EXCEPT !.op = "purge"]]
        BY <1>5, <3>1 DEF LeaveMember
      <4> QED
        BY <4>1, <4>2, UpdateMap DEF TypeOK
    <3>2. CASE ~(wasHost /\ MembersOf(members', r) = {})
      BY <1>1, <1>5, <3>2 DEF LeaveMember
    <3> QED
      BY <3>1, <3>2
  <2> QED
    BY <1>5, <2>3, <2>4, <2>5, <2>6 DEF LeaveMember, TypeOK
<1>6. CASE EndRoom(q)
  BY <1>1, <1>6, DeleteRoomTypeOK DEF EndRoom, TypeOK
<1>7. ASSUME NEW t \in MemberId, Handover(q, t) PROVE TypeOK'
  <2> DEFINE r == reqs[q].room
             h == [rooms[r] EXCEPT !.host = t, !.hostReconnectDeadline = "zero"]
  <2>1. r \in DOMAIN rooms /\ rooms' = [rooms EXCEPT ![r] = h]
    BY <1>7 DEF Handover
  <2>2. h \in RoomRecord
    BY <2>1 DEF TypeOK, IsMap, RoomRecord, Deadline
  <2>3. IsMap(rooms', Room, RoomRecord)
    BY <2>1, <2>2, UpdateMap DEF TypeOK
  <2>4. isHost' \in [Object -> BOOLEAN]
    BY <1>7 DEF Handover, TypeOK
  <2> QED
    BY <1>1, <1>7, <2>3, <2>4 DEF Handover, TypeOK
<1> QED
  BY <1>2, <1>3, <1>4, <1>5, <1>6, <1>7

\* The sweeper, the passing of time and the restart keep the types.
LEMMA BackgroundTypeOK == TypeOK /\ Background => TypeOK'
<1> SUFFICES ASSUME TypeOK, Background PROVE TypeOK'
  OBVIOUS
<1>1. CASE Sweep
  <2> DEFINE empty    == {r \in DOMAIN rooms : IsAbandoned(r)}
             timedOut == {r \in DOMAIN rooms \ empty : HostTimedOut(r)}
             flags    == FlagsAfter(members, timedOut)
             deposed  == Deposed(members, timedOut)
             expired  == {i \in DOMAIN members : IsExpired(i, flags)}
  <2>1. /\ pending' = empty
        /\ rooms' = RoomsAfter(members, timedOut)
        /\ isHost' = flags
        /\ members' = Drop(members, deposed \cup expired)
    BY <1>1 DEF Sweep
  <2>2. IsMap(rooms', Room, RoomRecord)
    BY <2>1, RoomsAfterMap DEF TypeOK
  <2>3. IsMap(members', MemberId, MemberRecord)
    BY <2>1, DropMap DEF TypeOK
  <2>4. isHost' \in [Object -> BOOLEAN]
    BY <2>1, Zenon DEF FlagsAfter
  <2>5. pending' \subseteq Room
    BY <2>1 DEF TypeOK, IsMap
  <2> QED
    BY <1>1, <2>2, <2>3, <2>4, <2>5 DEF Sweep, TypeOK
<1>2. ASSUME NEW r \in Room, SweepDelete(r) PROVE TypeOK'
  BY <1>2, DeleteRoomTypeOK DEF SweepDelete, TypeOK
<1>3. ASSUME NEW r \in Room, AdminEndRoom(r) PROVE TypeOK'
  BY <1>3, DeleteRoomTypeOK DEF AdminEndRoom, TypeOK
<1>4. ASSUME NEW r \in Room, HostDeadlinePasses(r) PROVE TypeOK'
  <2>1. /\ r \in DOMAIN rooms
        /\ rooms' = [rooms EXCEPT ![r] = [rooms[r] EXCEPT !.hostReconnectDeadline = "past"]]
        /\ [rooms[r] EXCEPT !.hostReconnectDeadline = "past"] \in RoomRecord
    BY <1>4 DEF HostDeadlinePasses, TypeOK, IsMap, RoomRecord, Deadline
  <2>2. IsMap(rooms', Room, RoomRecord)
    BY <2>1, UpdateMap DEF TypeOK
  <2> QED
    BY <1>4, <2>2 DEF HostDeadlinePasses, TypeOK
<1>5. ASSUME NEW r \in Room, EmptyDeadlinePasses(r) PROVE TypeOK'
  <2>1. /\ r \in DOMAIN rooms
        /\ rooms' = [rooms EXCEPT ![r] = [rooms[r] EXCEPT !.emptyDeadline = "past"]]
        /\ [rooms[r] EXCEPT !.emptyDeadline = "past"] \in RoomRecord
    BY <1>5 DEF EmptyDeadlinePasses, TypeOK, IsMap, RoomRecord, Deadline
  <2>2. IsMap(rooms', Room, RoomRecord)
    BY <2>1, UpdateMap DEF TypeOK
  <2> QED
    BY <1>5, <2>2 DEF EmptyDeadlinePasses, TypeOK
<1>6. ASSUME NEW i \in MemberId, ReconnectDeadlinePasses(i) PROVE TypeOK'
  <2>1. /\ i \in DOMAIN members
        /\ members' = [members EXCEPT ![i] = [members[i] EXCEPT !.reconnectDeadline = "past"]]
        /\ [members[i] EXCEPT !.reconnectDeadline = "past"] \in MemberRecord
    BY <1>6 DEF ReconnectDeadlinePasses, TypeOK, IsMap, MemberRecord, Deadline
  <2>2. IsMap(members', MemberId, MemberRecord)
    BY <2>1, UpdateMap DEF TypeOK
  <2> QED
    BY <1>6, <2>2 DEF ReconnectDeadlinePasses, TypeOK
<1>7. CASE Restart
  <2>1. IsMap(rooms', Room, RoomRecord)
    <3>1. ASSUME NEW r \in DOMAIN rooms PROVE rooms'[r] \in RoomRecord
      <4>1. rooms[r] \in RoomRecord
        BY DEF TypeOK, IsMap
      <4> QED
        BY <1>7, <4>1 DEF Restart, RoomRecord, Deadline
    <3> QED
      BY <1>7, <3>1 DEF Restart, TypeOK, IsMap
  <2>2. IsMap(members', MemberId, MemberRecord)
    <3>1. ASSUME NEW i \in DOMAIN members PROVE members'[i] \in MemberRecord
      <4>1. members[i] \in MemberRecord
        BY DEF TypeOK, IsMap
      <4> QED
        BY <1>7, <4>1 DEF Restart, MemberRecord, Deadline
    <3> QED
      BY <1>7, <3>1 DEF Restart, TypeOK, IsMap
  <2>3. isHost' \in [Object -> BOOLEAN]
    BY <1>7, Zenon DEF Restart
  <2>4. IsMap(conns', Conn, ConnRecord) /\ IsMap(reqs', Request, RequestRecord)
    BY <1>7 DEF Restart, IsMap, Restrict
  <2> QED
    BY <1>7, <2>1, <2>2, <2>3, <2>4 DEF Restart, TypeOK
<1> QED
  BY <1>1, <1>2, <1>3, <1>4, <1>5, <1>6, <1>7 DEF Background

\* Every step keeps the types.
LEMMA NextTypeOK == TypeOK /\ [Next]_vars => TypeOK'
<1>1. TypeOK /\ UNCHANGED vars => TypeOK'
  BY DEF TypeOK, vars
<1> QED
  BY <1>1, AdmissionTypeOK, PresenceTypeOK, RequestsTypeOK, BackgroundTypeOK DEF Next

\* The registry keeps the shape of all its maps: no entry, role flag, handler or
\* request ever has a field outside its range, whatever overlaps.
THEOREM TypeCorrect == Spec => []TypeOK
  BY InitTypeOK, NextTypeOK, PTL DEF Spec

-----------------------------------------------------------------------------
(* Seats *)

\* The step hands out no seat and changes none; it may release some.
KeepsSeats ==
    /\ DOMAIN members' \subseteq DOMAIN members
    /\ \A i \in DOMAIN members' :
          /\ members'[i].room = members[i].room
          /\ members'[i].device = members[i].device
          /\ members'[i].proof = members[i].proof
          /\ members'[i].joinOrder = members[i].joinOrder

\* Deleting members keeps the seats of the others.
LEMMA DropKeepsSeats ==
  ASSUME NEW S, members' = Drop(members, S)
  PROVE  KeepsSeats
BY DEF KeepsSeats, Drop, Restrict

\* deleteRoom takes no seat away from the other rooms.
LEMMA DeleteRoomKeepsSeats ==
  ASSUME NEW r, DeleteRoom(r)
  PROVE  KeepsSeats
<1>1. CASE r \in DOMAIN rooms
  BY <1>1, DropKeepsSeats DEF DeleteRoom
<1>2. CASE r \notin DOMAIN rooms
  BY <1>2 DEF DeleteRoom, KeepsSeats
<1> QED
  BY <1>1, <1>2

\* The step hands out one seat, behind the others of its room, within its capacity,
\* and not to a device that has one there, unless neither seat is proved.
AdmitsMember(i, m) ==
    /\ i \in MemberId \ DOMAIN members
    /\ m \in MemberRecord
    /\ members' = Put(members, i, m)
    /\ DOMAIN rooms' = DOMAIN rooms \cup {m.room}
    /\ ~m.connected
    /\ Cardinality(MembersOf(members, m.room)) < MaxParticipants
    /\ \A j \in MembersOf(members, m.room) :
          /\ members[j].joinOrder < m.joinOrder
          /\ members[j].device = m.device => members[j].proof = NoProof /\ m.proof = NoProof

\* createRoom admits the host of a room that has no members.
LEMMA CreateRoomAdmits ==
  ASSUME TypeOK, NEW d \in Device, NEW p \in Proof \cup {NoProof}, CreateRoom(d, p)
  PROVE  \E i, m : AdmitsMember(i, m)
<1>1. PICK r \in FreshRooms, i \in FreshIds, o \in FreshObjects :
        /\ rooms' = Put(rooms, r, [host |-> i, hostReconnectDeadline |-> "zero",
                                   emptyDeadline |-> "zero"])
        /\ members' = Put(members, i, NewMember(r, d, p, o, 1, "zero"))
  BY DEF CreateRoom
<1> DEFINE m == NewMember(r, d, p, o, 1, "zero")
<1>2. r \in Room /\ i \in MemberId \ DOMAIN members /\ o \in Object
  BY DEF FreshRooms, FreshIds, FreshObjects
<1>3. m \in MemberRecord /\ m.room = r /\ ~m.connected
  BY <1>2 DEF NewMember, MemberRecord, Deadline
<1>4. MembersOf(members, r) = {}
  BY DEF FreshRooms, MembersOf
<1>5. Cardinality(MembersOf(members, r)) < MaxParticipants
  BY <1>4, FS_EmptySet, RegistryAssumption
<1>6. DOMAIN rooms' = DOMAIN rooms \cup {r}
  BY <1>1 DEF Put
<1>7. AdmitsMember(i, m)
  BY <1>1, <1>2, <1>3, <1>4, <1>5, <1>6 DEF AdmitsMember
<1> QED
  BY <1>7

\* joinRoom admits a newcomer.
LEMMA JoinRoomAdmits ==
  ASSUME TypeOK, NEW r \in Room, NEW d \in Device, NEW p \in Proof \cup {NoProof},
         JoinRoom(r, d, p)
  PROVE  \E i, m : AdmitsMember(i, m)
<1>1. PICK i \in FreshIds, o \in FreshObjects, n \in 0..MaxOrder :
        /\ IsNextOrder(r, n)
        /\ members' = Put(members, i, NewMember(r, d, p, o, n, "running"))
  BY DEF JoinRoom
<1> DEFINE m == NewMember(r, d, p, o, n, "running")
<1>2. i \in MemberId \ DOMAIN members /\ o \in Object
  BY DEF FreshIds, FreshObjects
<1>3. n \in Nat \ {0}
  <2>1. \A j \in DOMAIN members : members[j].joinOrder \in Nat
    BY DEF TypeOK, IsMap, MemberRecord
  <2> QED
    BY <1>1, <2>1, RegistryAssumption DEF IsNextOrder, MembersOf
<1>4. m \in MemberRecord /\ ~m.connected
  BY <1>2, <1>3 DEF NewMember, MemberRecord, Deadline
<1>5. m.room = r /\ m.device = d /\ m.proof = p /\ m.joinOrder = n
  BY DEF NewMember
<1>6. Cardinality(MembersOf(members, r)) < MaxParticipants
  BY DEF JoinRoom, HasCapacity
<1>7. \A j \in MembersOf(members, r) :
        /\ members[j].joinOrder < n
        /\ members[j].device = d => members[j].proof = NoProof /\ p = NoProof
  BY <1>1 DEF JoinRoom, IsNewDevice, IsNextOrder
<1>8. r \in DOMAIN rooms /\ rooms' = rooms
  BY DEF JoinRoom
<1>9. AdmitsMember(i, m)
  BY <1>1, <1>2, <1>4, <1>5, <1>6, <1>7, <1>8 DEF AdmitsMember
<1> QED
  BY <1>9

\* What a step can do to seats and rooms: a member is admitted, to a room that exists
\* or is created with it; a room is deleted; or the rooms and the seats in use stay.
LEMMA StepCases ==
  ASSUME TypeOK, [Next]_vars
  PROVE  \/ \E i, m : AdmitsMember(i, m)
         \/ KeepsSeats /\ DOMAIN rooms' = DOMAIN rooms
         \/ KeepsSeats /\ \E r : DeleteRoom(r)
<1> DEFINE Same == KeepsSeats /\ DOMAIN rooms' = DOMAIN rooms
           Deletes == KeepsSeats /\ \E r : DeleteRoom(r)
<1>1. \A i \in DOMAIN members : members[i] \in MemberRecord
  BY DEF TypeOK, IsMap
<1>2. CASE UNCHANGED vars
  BY <1>2 DEF KeepsSeats, vars
<1>3. CASE Admission
  <2>1. ASSUME NEW i \in MemberId, RejoinRoom(i) PROVE Same
    BY <2>1 DEF RejoinRoom, Rebound, KeepsSeats
  <2>2. ASSUME NEW i \in MemberId, Resume(i) PROVE Same
    BY <2>2 DEF Resume, KeepsSeats
  <2> QED
    BY <1>3, <2>1, <2>2, CreateRoomAdmits, JoinRoomAdmits DEF Admission
<1>4. CASE Presence
  <2> PICK c \in Conn : \/ \E i \in MemberId : Accept(c, i)
                        \/ AddSocket(c) \/ MarkOnline(c) \/ RemoveSocket(c)
                        \/ CheckSocket(c) \/ MarkOffline(c)
    BY <1>4 DEF Presence
  <2>1. ASSUME NEW i \in MemberId, Accept(c, i) PROVE Same
    BY <2>1 DEF Accept, KeepsSeats
  <2>2. CASE AddSocket(c) \/ RemoveSocket(c) \/ CheckSocket(c)
    BY <2>2 DEF AddSocket, RemoveSocket, CheckSocket, KeepsSeats
  <2> DEFINE i == conns[c].id
             found == i \in DOMAIN members /\ members[i].room \in DOMAIN rooms
  <2>3. CASE MarkOnline(c)
    <3>1. CASE found
      <4>1. /\ members' = [members EXCEPT ![i] =
                     [members[i] EXCEPT !.connected = TRUE, !.reconnectDeadline = "zero"]]
            /\ DOMAIN rooms' = DOMAIN rooms
        BY <2>3, <3>1 DEF MarkOnline
      <4> QED
        BY <1>1, <3>1, <4>1 DEF KeepsSeats, MemberRecord
    <3>2. CASE ~found
      BY <2>3, <3>2 DEF MarkOnline, KeepsSeats
    <3> QED
      BY <3>1, <3>2
  <2>4. CASE MarkOffline(c)
    <3>1. CASE found /\ ~IsSuperseded(i)
      <4>1. /\ members' = [members EXCEPT ![i] =
                     [members[i] EXCEPT !.connected = FALSE, !.reconnectDeadline = "running"]]
            /\ DOMAIN rooms' = DOMAIN rooms
        BY <2>4, <3>1 DEF MarkOffline
      <4> QED
        BY <1>1, <3>1, <4>1 DEF KeepsSeats, MemberRecord
    <3>2. CASE ~(found /\ ~IsSuperseded(i))
      BY <2>4, <3>2 DEF MarkOffline, KeepsSeats
    <3> QED
      BY <3>1, <3>2
  <2> QED
    BY <2>1, <2>2, <2>3, <2>4
<1>5. CASE Requests
  <2> PICK q \in Request : \/ \E op \in Ops, i \in MemberId : Enter(q, op, i)
                           \/ Reject(q) \/ RenameRoom(q) \/ LeaveMember(q) \/ EndRoom(q)
                           \/ \E t \in MemberId : Handover(q, t)
    BY <1>5 DEF Requests
  <2>1. ASSUME NEW op \in Ops, NEW i \in MemberId, Enter(q, op, i) PROVE Same
    BY <2>1 DEF Enter, KeepsSeats
  <2>2. CASE Reject(q) \/ RenameRoom(q)
    BY <2>2 DEF Reject, RenameRoom, KeepsSeats
  <2>3. CASE LeaveMember(q)
    <3> DEFINE M == Drop(members, {reqs[q].id})
               D == {x \in DOMAIN rooms : x = reqs[q].room /\ isHost[reqs[q].obj]}
    <3>1. rooms' = RoomsAfter(M, D) /\ members' = Drop(M, Deposed(M, D))
      BY <2>3 DEF LeaveMember
    <3> QED
      BY <3>1 DEF RoomsAfter, KeepsSeats, Drop, Restrict
  <2>4. CASE EndRoom(q)
    BY <2>4, DeleteRoomKeepsSeats DEF EndRoom
  <2>5. ASSUME NEW t \in MemberId, Handover(q, t) PROVE Same
    BY <2>5 DEF Handover, KeepsSeats
  <2> QED
    BY <2>1, <2>2, <2>3, <2>4, <2>5
<1>6. CASE Background
  <2>1. CASE Sweep
    <3> DEFINE timedOut == {r \in DOMAIN rooms \ {x \in DOMAIN rooms : IsAbandoned(x)} : HostTimedOut(r)}
               deposed  == Deposed(members, timedOut)
               expired  == {i \in DOMAIN members : IsExpired(i, FlagsAfter(members, timedOut))}
    <3>1. rooms' = RoomsAfter(members, timedOut) /\ members' = Drop(members, deposed \cup expired)
      BY <2>1 DEF Sweep
    <3> QED
      BY <3>1, DropKeepsSeats DEF RoomsAfter
  <2>2. ASSUME NEW r \in Room, SweepDelete(r) \/ AdminEndRoom(r) PROVE Deletes
    BY <2>2, DeleteRoomKeepsSeats DEF SweepDelete, AdminEndRoom
  <2>3. ASSUME NEW r \in Room, HostDeadlinePasses(r) \/ EmptyDeadlinePasses(r) PROVE Same
    BY <2>3 DEF HostDeadlinePasses, EmptyDeadlinePasses, KeepsSeats
  <2>4. ASSUME NEW i \in MemberId, ReconnectDeadlinePasses(i) PROVE Same
    BY <2>4 DEF ReconnectDeadlinePasses, KeepsSeats
  <2>5. CASE Restart
    <3>1. /\ DOMAIN members' = DOMAIN members /\ DOMAIN rooms' = DOMAIN rooms
          /\ \A i \in DOMAIN members : members'[i] =
                [members[i] EXCEPT !.connected = FALSE,
                                   !.reconnectDeadline = IF @ = "zero" THEN "running" ELSE @]
      BY <2>5 DEF Restart
    <3>2. ASSUME NEW i \in DOMAIN members
          PROVE  /\ members'[i].room = members[i].room
                 /\ members'[i].device = members[i].device
                 /\ members'[i].proof = members[i].proof
                 /\ members'[i].joinOrder = members[i].joinOrder
      <4>1. /\ members[i] \in MemberRecord
            /\ members'[i] = [members[i] EXCEPT !.connected = FALSE,
                   !.reconnectDeadline = IF @ = "zero" THEN "running" ELSE @]
        BY <1>1, <3>1
      <4> QED
        BY <4>1 DEF MemberRecord
    <3> QED
      BY <3>1, <3>2 DEF KeepsSeats
  <2> QED
    BY <1>6, <2>1, <2>2, <2>3, <2>4, <2>5 DEF Background
<1> QED
  BY <1>2, <1>3, <1>4, <1>5, <1>6 DEF Next

-----------------------------------------------------------------------------
(* Members have rooms *)

\* Whoever is a member belongs to a room that exists: admission, which creates the
\* room or finds it, and deletion, which takes all members along, are one critical
\* section each.
THEOREM MembersAlwaysHaveRooms == Spec => []MembersHaveRooms
<1>1. Init => MembersHaveRooms
  BY DEF Init, MembersHaveRooms
<1>2. TypeOK /\ MembersHaveRooms /\ [Next]_vars => MembersHaveRooms'
  <2> SUFFICES ASSUME TypeOK, MembersHaveRooms, [Next]_vars PROVE MembersHaveRooms'
    OBVIOUS
  <2>1. ASSUME NEW i, NEW m, AdmitsMember(i, m) PROVE MembersHaveRooms'
    BY <2>1 DEF AdmitsMember, MembersHaveRooms, Put
  <2>2. CASE KeepsSeats /\ DOMAIN rooms' = DOMAIN rooms
    BY <2>2 DEF KeepsSeats, MembersHaveRooms
  <2>3. ASSUME KeepsSeats, NEW r, DeleteRoom(r) PROVE MembersHaveRooms'
    <3>1. CASE r \in DOMAIN rooms
      BY <2>3, <3>1 DEF DeleteRoom, MembersHaveRooms, MembersOf, Drop, Restrict
    <3>2. CASE r \notin DOMAIN rooms
      BY <2>3, <3>2 DEF DeleteRoom, MembersHaveRooms, MembersOf, Drop, Restrict
    <3> QED
      BY <3>1, <3>2
  <2> QED
    BY <2>1, <2>2, <2>3, StepCases
<1> QED
  BY <1>1, <1>2, TypeCorrect, PTL DEF Spec

-----------------------------------------------------------------------------
(* Capacity, one seat per device, a strict order *)

\* The capacity as an inductive invariant: it also speaks of rooms that are gone.
SeatsWithinCapacity == \A r \in Room : Cardinality(MembersOf(members, r)) <= MaxParticipants

\* The members of a room are finitely many.
LEMMA MembersOfFinite ==
  ASSUME TypeOK, NEW r
  PROVE  IsFiniteSet(MembersOf(members, r))
<1>1. MembersOf(members, r) \in SUBSET MemberId
  BY DEF TypeOK, IsMap, MembersOf
<1> QED
  BY <1>1, FS_Subset, RegistryAssumption

\* An admission enlarges its own room by one member and no other room.
LEMMA AdmissionEnlarges ==
  ASSUME NEW i, NEW m, AdmitsMember(i, m)
  PROVE  /\ MembersOf(members', m.room) = MembersOf(members, m.room) \cup {i}
         /\ i \notin MembersOf(members, m.room)
         /\ \A r : r # m.room => MembersOf(members', r) = MembersOf(members, r)
BY DEF AdmitsMember, MembersOf, Put

\* A room never holds more members than MaxParticipants: every seat is handed out
\* by a step that sees a free place, and rejoins hand out none.
THEOREM CapacityIsKept == Spec => []WithinCapacity
<1>1. Init => SeatsWithinCapacity
  <2> SUFFICES ASSUME Init, NEW r \in Room PROVE Cardinality(MembersOf(members, r)) <= MaxParticipants
    BY DEF SeatsWithinCapacity
  <2>1. MembersOf(members, r) = {}
    BY DEF Init, MembersOf
  <2> QED
    BY <2>1, FS_EmptySet, RegistryAssumption
<1>2. TypeOK /\ SeatsWithinCapacity /\ [Next]_vars => SeatsWithinCapacity'
  <2> SUFFICES ASSUME TypeOK, SeatsWithinCapacity, [Next]_vars, NEW r \in Room
               PROVE  Cardinality(MembersOf(members', r)) <= MaxParticipants
    BY DEF SeatsWithinCapacity
  <2>1. /\ IsFiniteSet(MembersOf(members, r))
        /\ Cardinality(MembersOf(members, r)) \in Nat
        /\ Cardinality(MembersOf(members, r)) <= MaxParticipants
        /\ MaxParticipants \in Nat
    BY MembersOfFinite, FS_CardinalityType, RegistryAssumption DEF SeatsWithinCapacity
  <2>2. ASSUME NEW i, NEW m, AdmitsMember(i, m)
        PROVE  Cardinality(MembersOf(members', r)) <= MaxParticipants
    <3>1. CASE r # m.room
      BY <2>1, <2>2, <3>1, AdmissionEnlarges
    <3>2. CASE r = m.room
      <4>1. /\ MembersOf(members', r) = MembersOf(members, r) \cup {i}
            /\ i \notin MembersOf(members, r)
        BY <2>2, <3>2, AdmissionEnlarges
      <4>2. Cardinality(MembersOf(members', r)) = Cardinality(MembersOf(members, r)) + 1
        BY <2>1, <4>1, FS_AddElement
      <4>3. Cardinality(MembersOf(members, r)) < MaxParticipants
        BY <2>2, <3>2 DEF AdmitsMember
      <4> QED
        BY <2>1, <4>2, <4>3
    <3> QED
      BY <3>1, <3>2
  <2>3. CASE KeepsSeats
    <3>1. MembersOf(members', r) \in SUBSET MembersOf(members, r)
      BY <2>3 DEF KeepsSeats, MembersOf
    <3>2. /\ Cardinality(MembersOf(members', r)) <= Cardinality(MembersOf(members, r))
          /\ IsFiniteSet(MembersOf(members', r))
      BY <2>1, <3>1, FS_Subset
    <3>3. Cardinality(MembersOf(members', r)) \in Nat
      BY <3>2, FS_CardinalityType
    <3> QED
      BY <2>1, <3>2, <3>3
  <2> QED
    BY <2>2, <2>3, StepCases
<1>3. TypeOK /\ SeatsWithinCapacity => WithinCapacity
  BY DEF TypeOK, IsMap, SeatsWithinCapacity, WithinCapacity
<1> QED
  BY <1>1, <1>2, <1>3, TypeCorrect, PTL DEF Spec

\* A proved device has one seat in a room, and the admission that compares it with
\* the members sees them all.
THEOREM DevicesHaveOneSeat == Spec => []OneSeatPerDevice
<1>1. Init => OneSeatPerDevice
  BY DEF Init, OneSeatPerDevice
<1>2. TypeOK /\ OneSeatPerDevice /\ [Next]_vars => OneSeatPerDevice'
  <2> SUFFICES ASSUME TypeOK, OneSeatPerDevice, [Next]_vars PROVE OneSeatPerDevice'
    OBVIOUS
  <2>1. ASSUME NEW i, NEW m, AdmitsMember(i, m) PROVE OneSeatPerDevice'
    BY <2>1 DEF AdmitsMember, OneSeatPerDevice, MembersOf, Put
  <2>2. CASE KeepsSeats
    BY <2>2 DEF KeepsSeats, OneSeatPerDevice
  <2> QED
    BY <2>1, <2>2, StepCases
<1> QED
  BY <1>1, <1>2, TypeCorrect, PTL DEF Spec

\* Seniority stays a strict order: a newcomer is placed behind everybody, and
\* departures leave gaps that are never filled from the front.
THEOREM OrdersStayDistinct == Spec => []DistinctOrders
<1>1. Init => DistinctOrders
  BY DEF Init, DistinctOrders
<1>2. TypeOK /\ DistinctOrders /\ [Next]_vars => DistinctOrders'
  <2> SUFFICES ASSUME TypeOK, DistinctOrders, [Next]_vars PROVE DistinctOrders'
    OBVIOUS
  <2>1. ASSUME NEW i, NEW m, AdmitsMember(i, m) PROVE DistinctOrders'
    <3>1. /\ \A j \in DOMAIN members : members[j].joinOrder \in Nat
          /\ m.joinOrder \in Nat
      BY <2>1 DEF TypeOK, IsMap, MemberRecord, AdmitsMember
    <3>2. \A j \in DOMAIN members :
             members[j].room = m.room => members[j].joinOrder # m.joinOrder
      BY <2>1, <3>1 DEF AdmitsMember, MembersOf
    <3> QED
      BY <2>1, <3>2 DEF AdmitsMember, DistinctOrders, Put
  <2>2. CASE KeepsSeats
    BY <2>2 DEF KeepsSeats, DistinctOrders
  <2> QED
    BY <2>1, <2>2, StepCases
<1> QED
  BY <1>1, <1>2, TypeCorrect, PTL DEF Spec

-----------------------------------------------------------------------------
(* The empty-room deadline *)

\* The step puts nobody online and starts no empty-room deadline.
NobodyAppears ==
    /\ \A r \in DOMAIN rooms' : rooms'[r].emptyDeadline # "zero" =>
          r \in DOMAIN rooms /\ rooms[r].emptyDeadline # "zero"
    /\ \A i \in DOMAIN members' : members'[i].connected =>
          i \in DOMAIN members /\ members[i].connected /\ members'[i].room = members[i].room

\* Such a step cannot contradict a deadline.
LEMMA NobodyAppearsKeeps ==
  ASSUME NobodyAppears, EmptyDeadlineMeansEmpty
  PROVE  EmptyDeadlineMeansEmpty'
BY DEF NobodyAppears, EmptyDeadlineMeansEmpty, OnlineMembers, MembersOf

\* The promotion of a host starts no empty-room deadline.
LEMMA RoomsAfterDeadlines ==
  ASSUME TypeOK, NEW M, NEW D
  PROVE  /\ DOMAIN RoomsAfter(M, D) = DOMAIN rooms
         /\ \A r \in DOMAIN rooms : RoomsAfter(M, D)[r].emptyDeadline = rooms[r].emptyDeadline
<1>1. \A r \in DOMAIN rooms : rooms[r] \in RoomRecord
  BY DEF TypeOK, IsMap
<1> QED
  BY <1>1 DEF RoomsAfter, RoomRecord

\* deleteRoom puts nobody online.
LEMMA DeleteRoomNobodyAppears ==
  ASSUME NEW r, DeleteRoom(r)
  PROVE  NobodyAppears
<1>1. CASE r \in DOMAIN rooms
  BY <1>1 DEF DeleteRoom, NobodyAppears, Drop, Restrict
<1>2. CASE r \notin DOMAIN rooms
  BY <1>2 DEF DeleteRoom, NobodyAppears, Drop, Restrict
<1> QED
  BY <1>1, <1>2

\* Admission seats people offline: only an event channel puts them online.
LEMMA AdmissionNobodyAppears ==
  ASSUME TypeOK, Admission
  PROVE  NobodyAppears
<1>0. /\ \A i \in DOMAIN members : members[i] \in MemberRecord
      /\ \A r \in DOMAIN rooms : rooms[r] \in RoomRecord
  BY DEF TypeOK, IsMap
<1>1. ASSUME NEW d \in Device, NEW p \in Proof \cup {NoProof}, CreateRoom(d, p)
      PROVE  NobodyAppears
  BY <1>1 DEF CreateRoom, NewMember, NobodyAppears, Put
<1>2. ASSUME NEW d \in Device, NEW p \in Proof \cup {NoProof}, NEW r \in Room, JoinRoom(r, d, p)
      PROVE  NobodyAppears
  BY <1>2 DEF JoinRoom, NewMember, NobodyAppears, Put
<1>3. ASSUME NEW i \in MemberId, RejoinRoom(i) PROVE NobodyAppears
  BY <1>0, <1>3 DEF RejoinRoom, Rebound, NobodyAppears, MemberRecord
<1>4. ASSUME NEW i \in MemberId, Resume(i) PROVE NobodyAppears
  BY <1>0, <1>4 DEF Resume, NobodyAppears, MemberRecord, RoomRecord
<1> QED
  BY <1>1, <1>2, <1>3, <1>4 DEF Admission

\* markConnected(id, true) clears the deadline of the room it puts somebody online in.
LEMMA MarkOnlineKeeps ==
  ASSUME TypeOK, EmptyDeadlineMeansEmpty, NEW c \in Conn, MarkOnline(c)
  PROVE  EmptyDeadlineMeansEmpty'
<1> DEFINE i == conns[c].id
           r == members[i].room
<1>0. /\ \A j \in DOMAIN members : members[j] \in MemberRecord
      /\ \A x \in DOMAIN rooms : rooms[x] \in RoomRecord
  BY DEF TypeOK, IsMap
<1>1. CASE i \in DOMAIN members /\ r \in DOMAIN rooms
  <2>1. /\ members' = [members EXCEPT ![i] =
               [members[i] EXCEPT !.connected = TRUE, !.reconnectDeadline = "zero"]]
        /\ rooms' = [rooms EXCEPT ![r] = OnlineAgain(rooms[r], isHost[members[i].obj])]
    BY <1>1 DEF MarkOnline
  <2>2. rooms'[r].emptyDeadline = "zero" /\ DOMAIN rooms' = DOMAIN rooms
    BY <1>0, <1>1, <2>1 DEF OnlineAgain, RoomRecord
  <2>3. \A x \in DOMAIN rooms : x # r => rooms'[x] = rooms[x]
    BY <2>1
  <2>4. /\ DOMAIN members' = DOMAIN members /\ members'[i].room = r
        /\ \A j \in DOMAIN members : j # i => members'[j] = members[j]
    BY <1>0, <1>1, <2>1 DEF MemberRecord
  <2> QED
    BY <2>2, <2>3, <2>4 DEF EmptyDeadlineMeansEmpty, OnlineMembers, MembersOf
<1>2. CASE ~(i \in DOMAIN members /\ r \in DOMAIN rooms)
  <2>1. UNCHANGED <<members, rooms>>
    BY <1>2 DEF MarkOnline
  <2> QED
    BY <2>1 DEF EmptyDeadlineMeansEmpty, OnlineMembers, MembersOf
<1> QED
  BY <1>1, <1>2

\* markConnected(id, false) starts the deadline only when the last one goes offline.
LEMMA MarkOfflineKeeps ==
  ASSUME TypeOK, EmptyDeadlineMeansEmpty, NEW c \in Conn, MarkOffline(c)
  PROVE  EmptyDeadlineMeansEmpty'
<1> DEFINE i == conns[c].id
           r == members[i].room
           found == ~IsSuperseded(i) /\ i \in DOMAIN members /\ r \in DOMAIN rooms
<1>0. /\ \A j \in DOMAIN members : members[j] \in MemberRecord
      /\ \A x \in DOMAIN rooms : rooms[x] \in RoomRecord
  BY DEF TypeOK, IsMap
<1>1. CASE found
  <2>1. /\ members' = [members EXCEPT ![i] =
               [members[i] EXCEPT !.connected = FALSE, !.reconnectDeadline = "running"]]
        /\ rooms' = [rooms EXCEPT ![r] = [rooms[r] EXCEPT
               !.hostReconnectDeadline =
                   IF isHost[members[i].obj] /\ @ = "zero" THEN "running" ELSE @,
               !.emptyDeadline =
                   IF OnlineMembers(members, r) \subseteq {i} THEN "running" ELSE @]]
    BY <1>1 DEF MarkOffline
  <2>2. /\ DOMAIN rooms' = DOMAIN rooms
        /\ \A x \in DOMAIN rooms : x # r => rooms'[x] = rooms[x]
        /\ rooms'[r].emptyDeadline =
              IF OnlineMembers(members, r) \subseteq {i} THEN "running" ELSE rooms[r].emptyDeadline
    BY <1>0, <1>1, <2>1 DEF RoomRecord
  <2>3. /\ DOMAIN members' = DOMAIN members /\ ~members'[i].connected
        /\ \A j \in DOMAIN members : j # i => members'[j] = members[j]
    BY <1>0, <1>1, <2>1 DEF MemberRecord
  <2>4. \A x : OnlineMembers(members', x) \subseteq OnlineMembers(members, x) \ {i}
    BY <2>3 DEF OnlineMembers, MembersOf
  <2> QED
    BY <2>2, <2>4 DEF EmptyDeadlineMeansEmpty
<1>2. CASE ~found
  <2>1. UNCHANGED <<members, rooms>>
    BY <1>2 DEF MarkOffline
  <2> QED
    BY <2>1 DEF EmptyDeadlineMeansEmpty, OnlineMembers, MembersOf
<1> QED
  BY <1>1, <1>2

\* Requests of members put nobody online.
LEMMA RequestsNobodyAppears ==
  ASSUME TypeOK, NEW q \in Request,
         \/ \E op \in Ops, i \in MemberId : Enter(q, op, i)
         \/ Reject(q) \/ RenameRoom(q) \/ LeaveMember(q) \/ EndRoom(q)
         \/ \E t \in MemberId : Handover(q, t)
  PROVE  NobodyAppears
<1>0. \A x \in DOMAIN rooms : rooms[x] \in RoomRecord
  BY DEF TypeOK, IsMap
<1>1. ASSUME NEW op \in Ops, NEW i \in MemberId, Enter(q, op, i) PROVE NobodyAppears
  BY <1>1 DEF Enter, NobodyAppears
<1>2. CASE Reject(q) \/ RenameRoom(q)
  BY <1>2 DEF Reject, RenameRoom, NobodyAppears
<1>3. CASE LeaveMember(q)
  <2> DEFINE M == Drop(members, {reqs[q].id})
             D == {x \in DOMAIN rooms : x = reqs[q].room /\ isHost[reqs[q].obj]}
  <2>1. rooms' = RoomsAfter(M, D) /\ members' = Drop(M, Deposed(M, D))
    BY <1>3 DEF LeaveMember
  <2>2. /\ DOMAIN rooms' = DOMAIN rooms
        /\ \A r \in DOMAIN rooms : rooms'[r].emptyDeadline = rooms[r].emptyDeadline
    BY <2>1, RoomsAfterDeadlines
  <2>3. \A i \in DOMAIN members' : i \in DOMAIN members /\ members'[i] = members[i]
    BY <2>1 DEF Drop, Restrict
  <2> QED
    BY ONLY <2>2, <2>3 DEF NobodyAppears
<1>4. CASE EndRoom(q)
  BY <1>4, DeleteRoomNobodyAppears DEF EndRoom
<1>5. ASSUME NEW t \in MemberId, Handover(q, t) PROVE NobodyAppears
  <2>1. members' = members
    BY <1>5 DEF Handover
  <2>2. /\ DOMAIN rooms' = DOMAIN rooms
        /\ \A r \in DOMAIN rooms : rooms'[r].emptyDeadline = rooms[r].emptyDeadline
    BY <1>0, <1>5 DEF Handover, RoomRecord
  <2> QED
    BY ONLY <2>1, <2>2 DEF NobodyAppears
<1> QED
  BY <1>1, <1>2, <1>3, <1>4, <1>5

\* Of the background steps, only a restart starts an empty-room deadline.
LEMMA BackgroundNobodyAppears ==
  ASSUME TypeOK, Background, ~Restart
  PROVE  NobodyAppears
<1>0. /\ \A i \in DOMAIN members : members[i] \in MemberRecord
      /\ \A x \in DOMAIN rooms : rooms[x] \in RoomRecord
  BY DEF TypeOK, IsMap
<1>1. CASE Sweep
  <2> DEFINE timedOut == {r \in DOMAIN rooms \ {x \in DOMAIN rooms : IsAbandoned(x)} : HostTimedOut(r)}
             deposed  == Deposed(members, timedOut)
             expired  == {i \in DOMAIN members : IsExpired(i, FlagsAfter(members, timedOut))}
  <2>1. rooms' = RoomsAfter(members, timedOut) /\ members' = Drop(members, deposed \cup expired)
    BY <1>1 DEF Sweep
  <2>2. /\ DOMAIN rooms' = DOMAIN rooms
        /\ \A r \in DOMAIN rooms : rooms'[r].emptyDeadline = rooms[r].emptyDeadline
    BY <2>1, RoomsAfterDeadlines
  <2>3. \A i \in DOMAIN members' : i \in DOMAIN members /\ members'[i] = members[i]
    BY <2>1 DEF Drop, Restrict
  <2> QED
    BY <2>2, <2>3 DEF NobodyAppears
<1>2. ASSUME NEW r \in Room, SweepDelete(r) \/ AdminEndRoom(r) PROVE NobodyAppears
  BY <1>2, DeleteRoomNobodyAppears DEF SweepDelete, AdminEndRoom
<1>3. ASSUME NEW r \in Room, HostDeadlinePasses(r) \/ EmptyDeadlinePasses(r) PROVE NobodyAppears
  BY <1>0, <1>3 DEF HostDeadlinePasses, EmptyDeadlinePasses, NobodyAppears, RoomRecord
<1>4. ASSUME NEW i \in MemberId, ReconnectDeadlinePasses(i) PROVE NobodyAppears
  BY <1>0, <1>4 DEF ReconnectDeadlinePasses, NobodyAppears, MemberRecord
<1> QED
  BY <1>1, <1>2, <1>3, <1>4 DEF Background

\* The deadline that ends an empty room never stands while somebody in it is online,
\* whatever order the callbacks of two channels of one member take the lock in.
THEOREM EmptyDeadlinesMeanEmpty == Spec => []EmptyDeadlineMeansEmpty
<1>1. Init => EmptyDeadlineMeansEmpty
  BY DEF Init, EmptyDeadlineMeansEmpty
<1>2. TypeOK /\ EmptyDeadlineMeansEmpty /\ [Next]_vars => EmptyDeadlineMeansEmpty'
  <2> SUFFICES ASSUME TypeOK, EmptyDeadlineMeansEmpty, [Next]_vars PROVE EmptyDeadlineMeansEmpty'
    OBVIOUS
  <2>1. CASE Admission
    BY <2>1, AdmissionNobodyAppears, NobodyAppearsKeeps
  <2>2. CASE Presence
    <3> PICK c \in Conn : \/ \E i \in MemberId : Accept(c, i)
                          \/ AddSocket(c) \/ MarkOnline(c) \/ RemoveSocket(c)
                          \/ CheckSocket(c) \/ MarkOffline(c)
      BY <2>2 DEF Presence
    <3>1. ASSUME UNCHANGED <<members, rooms>> PROVE EmptyDeadlineMeansEmpty'
      BY <3>1 DEF EmptyDeadlineMeansEmpty, OnlineMembers, MembersOf
    <3>2. ASSUME NEW i \in MemberId, Accept(c, i) PROVE EmptyDeadlineMeansEmpty'
      BY <3>1, <3>2 DEF Accept
    <3>3. CASE AddSocket(c) \/ RemoveSocket(c) \/ CheckSocket(c)
      BY <3>1, <3>3 DEF AddSocket, RemoveSocket, CheckSocket
    <3> QED
      BY <3>2, <3>3, MarkOnlineKeeps, MarkOfflineKeeps
  <2>3. CASE Requests
    BY <2>3, RequestsNobodyAppears, NobodyAppearsKeeps DEF Requests
  <2>4. CASE Background /\ ~Restart
    BY <2>4, BackgroundNobodyAppears, NobodyAppearsKeeps
  <2>5. CASE Restart
    <3>1. \A i \in DOMAIN members : members[i] \in MemberRecord
      BY DEF TypeOK, IsMap
    <3>2. \A i \in DOMAIN members' : ~members'[i].connected
      BY <2>5, <3>1 DEF Restart, MemberRecord
    <3> QED
      BY <3>2 DEF EmptyDeadlineMeansEmpty, OnlineMembers, MembersOf
  <2>6. CASE UNCHANGED vars
    BY <2>6 DEF vars, EmptyDeadlineMeansEmpty, OnlineMembers, MembersOf
  <2> QED
    BY <2>1, <2>2, <2>3, <2>4, <2>5, <2>6 DEF Next
<1> QED
  BY <1>1, <1>2, TypeCorrect, PTL DEF Spec

-----------------------------------------------------------------------------
(* Presence *)

\* The step opens and closes no channel and changes nobody's presence; newcomers are
\* offline and have no channel.
KeepsPresence ==
    /\ conns' = conns
    /\ \A i \in DOMAIN members' :
          \/ /\ i \in DOMAIN members
             /\ members'[i].connected <=> members[i].connected
          \/ ~members'[i].connected /\ \A c \in DOMAIN conns : conns[c].id # i

\* Such a step keeps presence true.
LEMMA KeepsPresenceKeeps ==
  ASSUME KeepsPresence, PresenceIsTrue
  PROVE  PresenceIsTrue'
BY DEF KeepsPresence, PresenceIsTrue

\* Deleting members changes nobody else's presence.
LEMMA DropKeepsPresence ==
  ASSUME NEW S, members' = Drop(members, S), conns' = conns
  PROVE  KeepsPresence
BY DEF KeepsPresence, Drop, Restrict

\* deleteRoom changes the presence of no member who stays.
LEMMA DeleteRoomKeepsPresence ==
  ASSUME NEW r, DeleteRoom(r), conns' = conns
  PROVE  KeepsPresence
<1>1. CASE r \in DOMAIN rooms
  BY <1>1, DropKeepsPresence DEF DeleteRoom
<1>2. CASE r \notin DOMAIN rooms
  BY <1>2 DEF DeleteRoom, KeepsPresence
<1> QED
  BY <1>1, <1>2

\* Admission: a rejoin copies the presence of the object it replaces.
LEMMA AdmissionKeepsPresence ==
  ASSUME TypeOK, Admission
  PROVE  KeepsPresence
<1>0. \A i \in DOMAIN members : members[i] \in MemberRecord
  BY DEF TypeOK, IsMap
<1>1. ASSUME NEW d \in Device, NEW p \in Proof \cup {NoProof}, CreateRoom(d, p)
      PROVE  KeepsPresence
  <2>1. PICK i, m : i \in FreshIds /\ members' = Put(members, i, m) /\ ~m.connected
    BY <1>1 DEF CreateRoom, NewMember
  <2> QED
    BY <1>1, <2>1 DEF CreateRoom, FreshIds, KeepsPresence, Put
<1>2. ASSUME NEW d \in Device, NEW p \in Proof \cup {NoProof}, NEW r \in Room, JoinRoom(r, d, p)
      PROVE  KeepsPresence
  <2>1. PICK i, m : i \in FreshIds /\ members' = Put(members, i, m) /\ ~m.connected
    BY <1>2 DEF JoinRoom, NewMember
  <2> QED
    BY <1>2, <2>1 DEF JoinRoom, FreshIds, KeepsPresence, Put
<1>3. ASSUME NEW i \in MemberId, RejoinRoom(i) PROVE KeepsPresence
  BY <1>0, <1>3 DEF RejoinRoom, Rebound, KeepsPresence, MemberRecord
<1>4. ASSUME NEW i \in MemberId, Resume(i) PROVE KeepsPresence
  BY <1>0, <1>4 DEF Resume, KeepsPresence, MemberRecord
<1> QED
  BY <1>1, <1>2, <1>3, <1>4 DEF Admission

\* Requests of members and the background touch no channel, but for the restart.
LEMMA OthersKeepPresence ==
  ASSUME TypeOK, Requests \/ (Background /\ ~Restart)
  PROVE  KeepsPresence
<1>0. \A i \in DOMAIN members : members[i] \in MemberRecord
  BY DEF TypeOK, IsMap
<1>1. CASE Requests
  <2> PICK q \in Request : \/ \E op \in Ops, i \in MemberId : Enter(q, op, i)
                           \/ Reject(q) \/ RenameRoom(q) \/ LeaveMember(q) \/ EndRoom(q)
                           \/ \E t \in MemberId : Handover(q, t)
    BY <1>1 DEF Requests
  <2>1. CASE LeaveMember(q)
    <3> DEFINE M == Drop(members, {reqs[q].id})
               D == {x \in DOMAIN rooms : x = reqs[q].room /\ isHost[reqs[q].obj]}
    <3>1. members' = Drop(M, Deposed(M, D)) /\ conns' = conns
      BY <2>1 DEF LeaveMember
    <3> QED
      BY <3>1 DEF KeepsPresence, Drop, Restrict
  <2>2. CASE EndRoom(q)
    BY <2>2, DeleteRoomKeepsPresence DEF EndRoom
  <2>3. CASE Reject(q) \/ RenameRoom(q)
    BY <2>3 DEF Reject, RenameRoom, KeepsPresence
  <2>4. ASSUME NEW op \in Ops, NEW i \in MemberId, Enter(q, op, i) PROVE KeepsPresence
    BY <2>4 DEF Enter, KeepsPresence
  <2>5. ASSUME NEW t \in MemberId, Handover(q, t) PROVE KeepsPresence
    BY <2>5 DEF Handover, KeepsPresence
  <2> QED
    BY <2>1, <2>2, <2>3, <2>4, <2>5
<1>2. CASE Background /\ ~Restart
  <2>1. CASE Sweep
    BY <2>1, DropKeepsPresence DEF Sweep
  <2>2. ASSUME NEW r \in Room, SweepDelete(r) \/ AdminEndRoom(r) PROVE KeepsPresence
    BY <2>2, DeleteRoomKeepsPresence DEF SweepDelete, AdminEndRoom
  <2>3. ASSUME NEW r \in Room, HostDeadlinePasses(r) \/ EmptyDeadlinePasses(r) PROVE KeepsPresence
    BY <2>3 DEF HostDeadlinePasses, EmptyDeadlinePasses, KeepsPresence
  <2>4. ASSUME NEW i \in MemberId, ReconnectDeadlinePasses(i) PROVE KeepsPresence
    BY <1>0, <2>4 DEF ReconnectDeadlinePasses, KeepsPresence, MemberRecord
  <2> QED
    BY <1>2, <2>1, <2>2, <2>3, <2>4 DEF Background
<1> QED
  BY <1>1, <1>2

\* Presence stays true when every member keeps a channel and none opens.
LEMMA ChannelsKeepPresence ==
  ASSUME PresenceIsTrue, members' = members,
         \A x \in DOMAIN conns' : /\ x \in DOMAIN conns /\ conns'[x].id = conns[x].id
                                  /\ conns'[x].pc = "open" => conns[x].pc = "open",
         \A x \in DOMAIN conns :
            conns[x].id \in DOMAIN members /\ conns[x].pc # "accepted" =>
               \E y \in DOMAIN conns' : conns'[y].id = conns[x].id /\ conns'[y].pc # "accepted"
  PROVE  PresenceIsTrue'
<1>1. ASSUME NEW i \in DOMAIN members', members'[i].connected
      PROVE  \E y \in DOMAIN conns' : conns'[y].id = i /\ conns'[y].pc # "accepted"
  <2>1. PICK x \in DOMAIN conns : conns[x].id = i /\ conns[x].pc # "accepted"
    BY <1>1 DEF PresenceIsTrue
  <2> QED
    BY <1>1, <2>1
<1>2. ASSUME NEW x \in DOMAIN conns', conns'[x].pc = "open", conns'[x].id \in DOMAIN members'
      PROVE  members'[conns'[x].id].connected
  BY <1>2 DEF PresenceIsTrue
<1> QED
  BY <1>1, <1>2 DEF PresenceIsTrue

\* Opening and closing a channel: the second look for newer channels, under the lock,
\* is what keeps a close callback from contradicting a channel opened meanwhile.
LEMMA PresenceKeeps ==
  ASSUME TypeOK, MembersHaveRooms, PresenceIsTrue, NEW c \in Conn,
         \/ \E i \in MemberId : Accept(c, i)
         \/ AddSocket(c) \/ MarkOnline(c) \/ RemoveSocket(c)
         \/ CheckSocket(c) \/ MarkOffline(c)
  PROVE  PresenceIsTrue'
<1> DEFINE i == conns[c].id
<1>0. /\ \A j \in DOMAIN members : members[j] \in MemberRecord /\ members[j].room \in DOMAIN rooms
      /\ \A x \in DOMAIN conns : conns[x] \in ConnRecord
  BY DEF TypeOK, IsMap, MembersHaveRooms
<1>1. ASSUME NEW j \in MemberId, Accept(c, j) PROVE PresenceIsTrue'
  BY <1>1 DEF Accept, Put, PresenceIsTrue
<1>2. CASE AddSocket(c)
  <2>1. conns' = [conns EXCEPT ![c] = [conns[c] EXCEPT !.pc = "added"]] /\ members' = members
    BY <1>2 DEF AddSocket
  <2> QED
    BY <1>0, <1>2, <2>1 DEF AddSocket, PresenceIsTrue, ConnRecord
<1>3. CASE MarkOnline(c)
  <2>1. /\ c \in DOMAIN conns
        /\ conns' = [conns EXCEPT ![c] = [conns[c] EXCEPT !.pc = "open"]]
    BY <1>3 DEF MarkOnline
  <2>2. /\ DOMAIN conns' = DOMAIN conns
        /\ conns'[c].id = i /\ conns'[c].pc = "open"
        /\ \A x \in DOMAIN conns : x # c => conns'[x] = conns[x]
    BY <1>0, <2>1 DEF ConnRecord
  <2>3. CASE i \in DOMAIN members
    <3>1. members' = [members EXCEPT ![i] =
               [members[i] EXCEPT !.connected = TRUE, !.reconnectDeadline = "zero"]]
      BY <1>0, <1>3, <2>3 DEF MarkOnline
    <3>2. /\ DOMAIN members' = DOMAIN members /\ members'[i].connected
          /\ \A j \in DOMAIN members : j # i => members'[j] = members[j]
      BY <1>0, <2>3, <3>1 DEF MemberRecord
    <3> QED
      BY <2>1, <2>2, <3>2 DEF PresenceIsTrue
  <2>4. CASE i \notin DOMAIN members
    <3>1. members' = members
      BY <1>3, <2>4 DEF MarkOnline
    <3> QED
      BY <2>1, <2>2, <2>4, <3>1 DEF PresenceIsTrue
  <2> QED
    BY <2>3, <2>4
<1>4. CASE RemoveSocket(c)
  <2>1. conns' = [conns EXCEPT ![c] = [conns[c] EXCEPT !.pc = "removed"]] /\ members' = members
    BY <1>4 DEF RemoveSocket
  <2> QED
    BY <1>0, <1>4, <2>1 DEF RemoveSocket, PresenceIsTrue, ConnRecord
<1>5. CASE CheckSocket(c)
  <2>1. CASE Attached(i) # {}
    <3>1. c \in DOMAIN conns /\ conns[c].pc = "removed" /\ members' = members /\ conns' = Drop(conns, {c})
      BY <1>5, <2>1 DEF CheckSocket
    <3>2. PICK x \in DOMAIN conns : conns[x].id = i /\ conns[x].pc \in {"added", "open"}
      BY <2>1 DEF Attached
    <3> QED
      BY <3>1, <3>2 DEF PresenceIsTrue, Drop, Restrict
  <2>2. CASE Attached(i) = {}
    <3>1. /\ conns' = [conns EXCEPT ![c] = [conns[c] EXCEPT !.pc = "closing"]]
          /\ c \in DOMAIN conns /\ members' = members
      BY <1>5, <2>2 DEF CheckSocket
    <3>2. /\ DOMAIN conns' = DOMAIN conns
          /\ conns'[c].id = i /\ conns'[c].pc = "closing"
          /\ \A x \in DOMAIN conns : x # c => conns'[x] = conns[x]
      BY <1>0, <3>1 DEF ConnRecord
    <3>3. \A x \in DOMAIN conns : conns'[x].id = conns[x].id
      BY <3>2
    <3>4. \A x \in DOMAIN conns : conns[x].pc # "accepted" => conns'[x].pc # "accepted"
      BY <3>2
    <3> QED
      BY <3>1, <3>2, <3>3, <3>4, ChannelsKeepPresence
  <2> QED
    BY <2>1, <2>2
<1>6. CASE MarkOffline(c)
  <2>1. c \in DOMAIN conns /\ conns[c].pc = "closing" /\ conns' = Drop(conns, {c})
    BY <1>6 DEF MarkOffline
  <2>2. /\ DOMAIN conns' = DOMAIN conns \ {c}
        /\ \A x \in DOMAIN conns' : conns'[x] = conns[x]
    BY <2>1 DEF Drop, Restrict
  <2>3. CASE Attached(i) # {}
    <3>1. members' = members
      BY <1>6, <2>3 DEF MarkOffline, IsSuperseded
    <3>2. PICK y \in DOMAIN conns : conns[y].id = i /\ conns[y].pc \in {"added", "open"}
      BY <2>3 DEF Attached
    <3>3. y \in DOMAIN conns' /\ conns'[y].id = i /\ conns'[y].pc # "accepted"
      BY <2>1, <2>2, <3>2
    <3>4. ASSUME NEW x \in DOMAIN conns, conns[x].pc # "accepted"
          PROVE  \E z \in DOMAIN conns' : conns'[z].id = conns[x].id /\ conns'[z].pc # "accepted"
      BY <2>2, <3>3, <3>4
    <3> QED
      BY <2>2, <3>1, <3>4, ChannelsKeepPresence
  <2>4. CASE Attached(i) = {} /\ i \in DOMAIN members
    <3>1. members' = [members EXCEPT ![i] =
               [members[i] EXCEPT !.connected = FALSE, !.reconnectDeadline = "running"]]
      BY <1>0, <1>6, <2>4 DEF MarkOffline, IsSuperseded
    <3>2. /\ DOMAIN members' = DOMAIN members /\ ~members'[i].connected
          /\ \A j \in DOMAIN members : j # i => members'[j] = members[j]
      BY <1>0, <2>4, <3>1 DEF MemberRecord
    <3>3. \A x \in DOMAIN conns : conns[x].pc = "open" => conns[x].id # i
      BY <2>4 DEF Attached
    <3>4. ASSUME NEW j \in DOMAIN members', members'[j].connected
          PROVE  \E x \in DOMAIN conns' : conns'[x].id = j /\ conns'[x].pc # "accepted"
      <4>1. j # i /\ j \in DOMAIN members /\ members[j].connected
        BY <3>2, <3>4
      <4>2. PICK x \in DOMAIN conns : conns[x].id = j /\ conns[x].pc # "accepted"
        BY <4>1 DEF PresenceIsTrue
      <4> QED
        BY <2>2, <4>1, <4>2
    <3>5. ASSUME NEW x \in DOMAIN conns', conns'[x].pc = "open", conns'[x].id \in DOMAIN members'
          PROVE  members'[conns'[x].id].connected
      BY <2>2, <3>2, <3>3, <3>5 DEF PresenceIsTrue
    <3> QED
      BY <3>4, <3>5 DEF PresenceIsTrue
  <2>5. CASE i \notin DOMAIN members
    <3>1. members' = members
      BY <1>6, <2>5 DEF MarkOffline
    <3>2. ASSUME NEW x \in DOMAIN conns, conns[x].id \in DOMAIN members, conns[x].pc # "accepted"
          PROVE  x \in DOMAIN conns' /\ conns'[x] = conns[x]
      BY <2>2, <2>5, <3>2
    <3> QED
      BY <2>2, <3>1, <3>2, ChannelsKeepPresence
  <2> QED
    BY <2>3, <2>4, <2>5
<1> QED
  BY <1>1, <1>2, <1>3, <1>4, <1>5, <1>6

\* Presence tells the truth about the event channels, whatever order the open and
\* close callbacks of the channels of one member take the lock in.
THEOREM PresenceStaysTrue == Spec => []PresenceIsTrue
<1>1. Init => PresenceIsTrue
  BY DEF Init, PresenceIsTrue
<1>2. TypeOK /\ MembersHaveRooms /\ PresenceIsTrue /\ [Next]_vars => PresenceIsTrue'
  <2> SUFFICES ASSUME TypeOK, MembersHaveRooms, PresenceIsTrue, [Next]_vars PROVE PresenceIsTrue'
    OBVIOUS
  <2>1. CASE Admission
    BY <2>1, AdmissionKeepsPresence, KeepsPresenceKeeps
  <2>2. CASE Presence
    BY <2>2, PresenceKeeps DEF Presence
  <2>3. CASE Requests \/ (Background /\ ~Restart)
    BY <2>3, OthersKeepPresence, KeepsPresenceKeeps
  <2>4. CASE Restart
    <3>1. \A i \in DOMAIN members : members[i] \in MemberRecord
      BY DEF TypeOK, IsMap
    <3>2. DOMAIN conns' = {} /\ \A i \in DOMAIN members' : ~members'[i].connected
      BY <2>4, <3>1 DEF Restart, MemberRecord, Restrict
    <3> QED
      BY <3>2 DEF PresenceIsTrue
  <2>5. CASE UNCHANGED vars
    BY <2>5 DEF vars, PresenceIsTrue
  <2> QED
    BY <2>1, <2>2, <2>3, <2>4, <2>5 DEF Next
<1> QED
  BY <1>1, <1>2, TypeCorrect, MembersAlwaysHaveRooms, PTL DEF Spec

-----------------------------------------------------------------------------
(* The ledger of seats *)

\* The registry starts with an empty ledger.
LEMMA InitLedger == Init => Ledger!Init
BY DEF Init, Ledger!Init, seats

\* A step that keeps the seats releases some of them, or none.
LEMMA KeepingReleases ==
  ASSUME KeepsSeats
  PROVE  Ledger!Release
<1>1. DOMAIN seats = DOMAIN members /\ DOMAIN seats' = DOMAIN members'
  BY DEF seats
<1>2. \A i \in DOMAIN members' : seats'[i] = seats[i]
  BY DEF KeepsSeats, seats
<1>3. seats' = [i \in DOMAIN seats' |-> seats'[i]]
  BY DEF seats
<1>4. seats' = [i \in DOMAIN seats' |-> seats[i]]
  BY <1>1, <1>2, <1>3
<1> QED
  BY <1>1, <1>4 DEF KeepsSeats, Ledger!Release

\* An admission enters one seat into the ledger.
LEMMA AdmissionTakes ==
  ASSUME TypeOK, NEW i, NEW m, AdmitsMember(i, m)
  PROVE  Ledger!Admit(i)
<1> DEFINE s == [room |-> m.room, device |-> m.device, proof |-> m.proof, joinOrder |-> m.joinOrder]
<1>1. i \notin DOMAIN members /\ members' = Put(members, i, m) /\ m \in MemberRecord
  BY DEF AdmitsMember
<1>2. DOMAIN seats = DOMAIN members /\ DOMAIN seats' = DOMAIN members \cup {i}
  BY <1>1 DEF seats, Put
<1>3. seats'[i] = s /\ \A j \in DOMAIN members : seats'[j] = seats[j]
  BY <1>1 DEF seats, Put
<1>4. s \in Ledger!Seat
  BY <1>1 DEF MemberRecord, Ledger!Seat
<1>5. Ledger!SeatsOf(m.room) = MembersOf(members, m.room)
  BY DEF Ledger!SeatsOf, MembersOf, seats
<1>6. Ledger!MayTake(s)
  <2>1. \A j \in MembersOf(members, m.room) :
          /\ seats[j].joinOrder = members[j].joinOrder
          /\ seats[j].device = members[j].device
          /\ seats[j].proof = members[j].proof
    BY DEF MembersOf, seats
  <2> QED
    BY <1>5, <2>1 DEF Ledger!MayTake, AdmitsMember, Cardinality, Ledger!Cardinality
<1>7. seats' = [j \in DOMAIN seats \cup {i} |-> IF j = i THEN seats'[i] ELSE seats[j]]
  <2>1. seats' = [j \in DOMAIN seats' |-> seats'[j]]
    BY DEF seats
  <2> QED
    BY <1>2, <1>3, <2>1
<1> QED
  BY <1>1, <1>2, <1>3, <1>4, <1>6, <1>7 DEF Ledger!Admit

\* Every step of the registry is a step of the ledger.
LEMMA StepRefinesLedger == TypeOK /\ [Next]_vars => Ledger!Next
<1> SUFFICES ASSUME TypeOK, [Next]_vars PROVE Ledger!Next
  OBVIOUS
<1>1. ASSUME NEW i, NEW m, AdmitsMember(i, m) PROVE Ledger!Next
  BY <1>1, AdmissionTakes DEF AdmitsMember, Ledger!Next
<1>2. CASE KeepsSeats
  BY <1>2, KeepingReleases DEF Ledger!Next
<1> QED
  BY <1>1, <1>2, StepCases

\* The registry implements the ledger: a seat, once handed out, keeps its room, its
\* device and its place in the order until it is released, and is handed out only
\* within the capacity and to a device that has none.
THEOREM RegistryImplementsLedger == Spec => ImplementsLedger
<1>1. TypeOK /\ [Next]_vars => [Ledger!Next]_seats
  BY StepRefinesLedger
<1> QED
  BY <1>1, InitLedger, TypeCorrect, PTL DEF Spec, ImplementsLedger, Ledger!Spec

-----------------------------------------------------------------------------
(* Online members stay *)

\* deleteRoom takes only the members of the room away.
LEMMA DeleteRoomSparesOthers ==
  ASSUME NEW r, DeleteRoom(r), NEW i \in DOMAIN members, i \notin DOMAIN members'
  PROVE  members[i].room = r /\ r \notin DOMAIN rooms'
<1>1. r \in DOMAIN rooms
  BY DEF DeleteRoom
<1>2. DOMAIN members' = DOMAIN members \ MembersOf(members, r) /\ DOMAIN rooms' = DOMAIN rooms \ {r}
  BY <1>1 DEF DeleteRoom, Drop, Restrict
<1> QED
  BY <1>2 DEF MembersOf

\* An online member only leaves the registry by its own leave or with its room: the
\* promotion of a host takes offline members along, and so does the sweep.
THEOREM OnlineMembersAreSpared == Spec => OnlineMembersStay
<1> DEFINE Spared(i) ==
             \/ members[i].room \notin DOMAIN rooms'
             \/ \E q \in DOMAIN reqs : reqs[q].op = "leave" /\ reqs[q].id = i
<1>1. ASSUME Next,
             NEW i \in DOMAIN members, members[i].connected, i \notin DOMAIN members'
      PROVE  Spared(i)
  <2>1. CASE Admission
    <3>1. ASSUME NEW d, NEW p, CreateRoom(d, p) PROVE DOMAIN members \subseteq DOMAIN members'
      BY <3>1 DEF CreateRoom, Put
    <3>2. ASSUME NEW r, NEW d, NEW p, JoinRoom(r, d, p) PROVE DOMAIN members \subseteq DOMAIN members'
      BY <3>2 DEF JoinRoom, Put
    <3>3. ASSUME NEW j, RejoinRoom(j) \/ Resume(j) PROVE DOMAIN members \subseteq DOMAIN members'
      BY <3>3 DEF RejoinRoom, Resume
    <3> QED
      BY <1>1, <2>1, <3>1, <3>2, <3>3 DEF Admission
  <2>2. CASE Presence
    <3>1. DOMAIN members' = DOMAIN members
      BY <2>2 DEF Presence, Accept, AddSocket, MarkOnline, RemoveSocket, CheckSocket, MarkOffline
    <3> QED
      BY <1>1, <3>1
  <2>3. CASE Requests
    <3> PICK q \in Request : \/ \E op \in Ops, j \in MemberId : Enter(q, op, j)
                             \/ Reject(q) \/ RenameRoom(q) \/ LeaveMember(q) \/ EndRoom(q)
                             \/ \E t \in MemberId : Handover(q, t)
      BY <2>3 DEF Requests
    <3>1. members' # members
      BY <1>1
    <3>2. CASE LeaveMember(q)
      <4> DEFINE M == Drop(members, {reqs[q].id})
                 D == {x \in DOMAIN rooms : x = reqs[q].room /\ isHost[reqs[q].obj]}
      <4>1. /\ q \in DOMAIN reqs /\ reqs[q].op = "leave"
            /\ members' = Drop(M, Deposed(M, D))
        BY <3>2 DEF LeaveMember
      <4>2. CASE i = reqs[q].id
        BY <4>1, <4>2
      <4>3. CASE i # reqs[q].id
        <5>1. i \in DOMAIN M /\ M[i] = members[i]
          BY <4>3 DEF Drop, Restrict
        <5>2. i \notin Deposed(M, D)
          BY <1>1, <5>1 DEF Deposed
        <5> QED
          BY <1>1, <4>1, <5>1, <5>2 DEF Drop, Restrict
      <4> QED
        BY <4>2, <4>3
    <3>3. CASE EndRoom(q)
      BY <1>1, <3>3, DeleteRoomSparesOthers DEF EndRoom
    <3> QED
      BY <3>1, <3>2, <3>3 DEF Enter, Reject, RenameRoom, Handover
  <2>4. CASE Background
    <3>1. CASE Sweep
      <4> DEFINE timedOut == {r \in DOMAIN rooms \ {x \in DOMAIN rooms : IsAbandoned(x)} : HostTimedOut(r)}
                 deposed  == Deposed(members, timedOut)
                 expired  == {j \in DOMAIN members : IsExpired(j, FlagsAfter(members, timedOut))}
      <4>1. members' = Drop(members, deposed \cup expired)
        BY <3>1 DEF Sweep
      <4>2. i \notin deposed \cup expired
        BY <1>1 DEF Deposed, IsExpired
      <4> QED
        BY <1>1, <4>1, <4>2 DEF Drop, Restrict
    <3>2. ASSUME NEW r \in Room, SweepDelete(r) \/ AdminEndRoom(r) PROVE Spared(i)
      BY <1>1, <3>2, DeleteRoomSparesOthers DEF SweepDelete, AdminEndRoom
    <3>3. ASSUME NEW r \in Room, HostDeadlinePasses(r) \/ EmptyDeadlinePasses(r)
          PROVE  DOMAIN members' = DOMAIN members
      BY <3>3 DEF HostDeadlinePasses, EmptyDeadlinePasses
    <3>4. ASSUME NEW j \in MemberId, ReconnectDeadlinePasses(j)
          PROVE  DOMAIN members' = DOMAIN members
      BY <3>4 DEF ReconnectDeadlinePasses
    <3>5. CASE Restart
      BY <1>1, <3>5 DEF Restart
    <3> QED
      BY <1>1, <2>4, <3>1, <3>2, <3>3, <3>4, <3>5 DEF Background
  <2> QED
    BY <1>1, <2>1, <2>2, <2>3, <2>4 DEF Next
<1>2. [Next]_vars =>
        [\A i \in DOMAIN members :
            members[i].connected /\ i \notin DOMAIN members' => Spared(i)]_vars
  BY <1>1
<1> QED
  BY <1>2, PTL DEF Spec, OnlineMembersStay
-----------------------------------------------------------------------------
(* The role of the host *)

\* No two members share a *Member object.
DistinctObjects == \A i, j \in DOMAIN members : i # j => members[i].obj # members[j].obj

\* The object a request captured is its caller's or nobody's: it is never another
\* member's, although its caller may have got another object by a rejoin.
CapturedObjects ==
    \A q \in DOMAIN reqs, j \in DOMAIN members :
        members[j].obj = reqs[q].obj => j = reqs[q].id

\* What holds of the objects and of the flag in every state.
HostInv == DistinctObjects /\ CapturedObjects /\ HostIsFlagged

\* What a step does to the flags: nobody gets or keeps one beside the host, but for the
\* caller of a handover that hands over an object it no longer has.
FlagsStay == \A i \in MemberId : Strays(i)' => Strays(i) \/ HandsOverOldObject(i)

\* And to the deadlines: no host comes under one, in a room without strays.
HostsStaySafe ==
    \A r \in Room : Threatened(r)' => Threatened(r) \/ \E i \in MembersOf(members, r) : Strays(i)

\* Map B holds what map A holds of its keys.
IsPart(A, B) == DOMAIN A \subseteq DOMAIN B /\ \A k \in DOMAIN A : A[k] = B[k]

\* The step moves no role: whoever stays keeps its object, whatever room stays its host.
KeepsRoles ==
    /\ isHost' = isHost
    /\ DOMAIN members' \subseteq DOMAIN members
    /\ \A i \in DOMAIN members' : /\ members'[i].obj = members[i].obj
                                  /\ members'[i].room = members[i].room
    /\ DOMAIN rooms' \subseteq DOMAIN rooms
    /\ \A r \in DOMAIN rooms' : rooms'[r].host = rooms[r].host

\* The step captures no object for a request.
KeepsCaptures ==
    /\ DOMAIN reqs' \subseteq DOMAIN reqs
    /\ \A q \in DOMAIN reqs' :
          /\ reqs'[q].id = reqs[q].id
          /\ reqs'[q].obj = reqs[q].obj

\* The step starts no host deadline and puts nobody online.
KeepsHostsCalm ==
    /\ \A r \in DOMAIN rooms' : rooms[r].hostReconnectDeadline = "zero"
                                => rooms'[r].hostReconnectDeadline = "zero"
    /\ \A i \in DOMAIN members' : members'[i].connected => members[i].connected

\* Such steps keep what holds of the role.
LEMMA CalmStepKeepsHostInv ==
  ASSUME HostInv, KeepsRoles, KeepsCaptures
  PROVE  HostInv'
<1>1. DistinctObjects'
  BY DEF HostInv, KeepsRoles, DistinctObjects
<1>2. CapturedObjects'
  BY DEF HostInv, KeepsRoles, KeepsCaptures, CapturedObjects
<1>3. HostIsFlagged'
  BY DEF HostInv, KeepsRoles, HostIsFlagged
<1> QED
  BY <1>1, <1>2, <1>3 DEF HostInv

LEMMA CalmStepFlags ==
  ASSUME MembersHaveRooms', KeepsRoles
  PROVE  FlagsStay
BY DEF MembersHaveRooms, KeepsRoles, FlagsStay, Strays

LEMMA CalmStepDeadlines ==
  ASSUME KeepsRoles, KeepsHostsCalm
  PROVE  HostsStaySafe
BY DEF KeepsRoles, KeepsHostsCalm, HostsStaySafe, Threatened, OnlineMembers, MembersOf

\* assignHostLocked, for the members M its caller sees and the rooms D: the new host
\* is an online member of its room and gets the flag, the old one, if it is still
\* listed, loses it, and no other room's host is touched.
LEMMA Promotion ==
  ASSUME TypeOK, HostInv,
         NEW M, IsMap(M, MemberId, MemberRecord), IsPart(M, members),
         NEW D, D \subseteq DOMAIN rooms,
         IsPart(members', M),
         rooms' = RoomsAfter(M, D), isHost' = FlagsAfter(M, D)
  PROVE  /\ DistinctObjects' /\ HostIsFlagged'
         /\ MembersHaveRooms => FlagsStay
         /\ HostsStaySafe
<1> DEFINE P == Reassigned(M, D)
<1>0. /\ \A r \in DOMAIN rooms : rooms[r] \in RoomRecord
      /\ \A i \in DOMAIN M : i \in DOMAIN members /\ M[i] = members[i] /\ M[i].obj \in Object
      /\ \A i \in DOMAIN members' : i \in DOMAIN M /\ members'[i] = M[i]
  BY DEF TypeOK, IsMap, IsPart, MemberRecord
<1>1. ASSUME NEW r \in P
      PROVE  /\ NextHost(M, r) \in DOMAIN M /\ M[NextHost(M, r)].room = r
             /\ rooms'[r].host = NextHost(M, r)
             /\ rooms'[r].hostReconnectDeadline = "zero"
  <2>1. OnlineMembers(M, r) # {} /\ r \in DOMAIN rooms
    BY <1>1 DEF Reassigned
  <2>2. NextHost(M, r) \in OnlineMembers(M, r)
    BY <2>1, NextHostIsEarliest
  <2>3. rooms'[r] = [rooms[r] EXCEPT !.host = NextHost(M, r), !.hostReconnectDeadline = "zero"]
    BY <1>1, <2>1 DEF RoomsAfter
  <2> QED
    BY <1>0, <2>1, <2>2, <2>3 DEF OnlineMembers, MembersOf, RoomRecord
<1>2. /\ DOMAIN rooms' = DOMAIN rooms
      /\ \A r \in DOMAIN rooms : r \notin P => rooms'[r] = rooms[r]
  BY DEF RoomsAfter
<1>3. \A o \in Object : isHost'[o] <=>
        \/ \E r \in P : o = M[NextHost(M, r)].obj
        \/ /\ isHost[o]
           /\ \A r \in P : rooms[r].host \in DOMAIN M => o # M[rooms[r].host].obj
  BY DEF FlagsAfter
<1>4. P \subseteq DOMAIN rooms
  BY DEF Reassigned
<1> HIDE DEF P
<1>5. /\ \A i, j \in DOMAIN M : M[i].obj = M[j].obj => i = j
      /\ \A r \in DOMAIN rooms : rooms[r].host \in DOMAIN M =>
            M[rooms[r].host].room = r /\ isHost[M[rooms[r].host].obj]
  BY <1>0 DEF HostInv, DistinctObjects, HostIsFlagged
<1>6. DistinctObjects'
  BY ONLY <1>0, <1>5 DEF DistinctObjects
<1>7. HostIsFlagged'
  <2> SUFFICES ASSUME NEW r \in DOMAIN rooms, rooms'[r].host \in DOMAIN members'
               PROVE  /\ M[rooms'[r].host].room = r
                      /\ isHost'[M[rooms'[r].host].obj]
    BY <1>0, <1>2 DEF HostIsFlagged
  <2>1. CASE r \in P
    BY ONLY <1>0, <1>1, <1>3, <2>1
  <2>2. CASE r \notin P
    <3> DEFINE h == rooms[r].host
    <3>1. /\ rooms'[r].host = h /\ h \in DOMAIN M
          /\ M[h].room = r /\ isHost[M[h].obj] /\ M[h].obj \in Object
      BY <1>0, <1>2, <1>5, <2>2
    <3>2. ASSUME NEW x \in P, rooms[x].host \in DOMAIN M
          PROVE  M[h].obj # M[rooms[x].host].obj
      BY ONLY <1>4, <1>5, <2>2, <3>1, <3>2
    <3> QED
      BY ONLY <1>3, <3>1, <3>2
  <2> QED
    BY <2>1, <2>2
<1>8. ASSUME MembersHaveRooms PROVE FlagsStay
  <2> SUFFICES ASSUME NEW i \in DOMAIN members', isHost'[M[i].obj], ~Strays(i)
               PROVE  rooms'[M[i].room].host = i
    BY <1>0 DEF FlagsStay, Strays
  <2>1. i \in DOMAIN M /\ M[i].obj \in Object
    BY ONLY <1>0
  <2>2. CASE \E r \in P : M[i].obj = M[NextHost(M, r)].obj
    BY ONLY <1>1, <1>5, <2>1, <2>2
  <2>3. CASE /\ isHost[M[i].obj]
             /\ \A r \in P : rooms[r].host \in DOMAIN M => M[i].obj # M[rooms[r].host].obj
    <3>1. M[i].room \in DOMAIN rooms /\ rooms[M[i].room].host = i
      BY <1>0, <1>8, <2>1, <2>3 DEF MembersHaveRooms, Strays
    <3>2. M[i].room \notin P
      BY ONLY <2>1, <2>3, <3>1
    <3> QED
      BY ONLY <1>2, <3>1, <3>2
  <2> QED
    BY ONLY <1>3, <2>1, <2>2, <2>3, isHost'[M[i].obj]
<1>9. HostsStaySafe
  <2> SUFFICES ASSUME NEW r \in DOMAIN rooms, rooms'[r].host \in OnlineMembers(members', r),
                      rooms'[r].hostReconnectDeadline # "zero"
               PROVE  Threatened(r)
    BY <1>2 DEF HostsStaySafe, Threatened
  <2>1. r \notin P
    BY ONLY <1>1, rooms'[r].hostReconnectDeadline # "zero"
  <2>2. rooms'[r] = rooms[r] /\ rooms[r].host \in OnlineMembers(members, r)
    BY ONLY <1>0, <1>2, <2>1, rooms'[r].host \in OnlineMembers(members', r)
       DEF OnlineMembers, MembersOf
  <2> QED
    BY <2>2 DEF Threatened
<1> QED
  BY <1>6, <1>7, <1>8, <1>9

\* createRoom seats the host of a new room, on an object of its own, with the flag.
LEMMA CreateRoomRoles ==
  ASSUME TypeOK, MembersHaveRooms, HostInv, NEW d, NEW p, CreateRoom(d, p)
  PROVE  HostInv' /\ FlagsStay /\ HostsStaySafe
<1>1. PICK r \in FreshRooms, i \in FreshIds, o \in FreshObjects :
        /\ rooms' = Put(rooms, r, [host |-> i, hostReconnectDeadline |-> "zero",
                                   emptyDeadline |-> "zero"])
        /\ members' = Put(members, i, NewMember(r, d, p, o, 1, "zero"))
        /\ isHost' = [isHost EXCEPT ![o] = TRUE]
        /\ reqs' = reqs
  BY DEF CreateRoom
<1>2. /\ r \notin DOMAIN rooms /\ \A j \in DOMAIN members : members[j].room # r
      /\ i \notin DOMAIN members /\ \A x \in DOMAIN rooms : rooms[x].host # i
      /\ \A q \in DOMAIN reqs : reqs[q].id # i /\ reqs[q].obj # o
      /\ o \in Object /\ \A j \in DOMAIN members : members[j].obj # o
  BY DEF FreshRooms, FreshIds, FreshObjects
<1>3. /\ DOMAIN rooms' = DOMAIN rooms \cup {r}
      /\ rooms'[r].host = i /\ rooms'[r].hostReconnectDeadline = "zero"
      /\ \A x \in DOMAIN rooms : rooms'[x] = rooms[x]
  BY <1>1, <1>2 DEF Put
<1>4. /\ DOMAIN members' = DOMAIN members \cup {i}
      /\ members'[i].room = r /\ members'[i].obj = o /\ ~members'[i].connected
      /\ \A j \in DOMAIN members : members'[j] = members[j]
  BY <1>1, <1>2 DEF Put, NewMember
<1>5. isHost'[o] = TRUE /\ \A j \in DOMAIN members : isHost'[members[j].obj] = isHost[members[j].obj]
  <2>1. isHost \in [Object -> BOOLEAN]
    BY DEF TypeOK
  <2>2. isHost' = [isHost EXCEPT ![o] = TRUE]
    BY <1>1
  <2>3. isHost'[o] = TRUE
    BY ONLY <1>2, <2>1, <2>2
  <2>4. \A x \in Object : x # o => isHost'[x] = isHost[x]
    BY ONLY <2>1, <2>2
  <2>5. \A j \in DOMAIN members : members[j].obj \in Object
    BY DEF TypeOK, IsMap, MemberRecord
  <2> QED
    BY ONLY <1>2, <2>3, <2>4, <2>5
<1>6. DistinctObjects'
  BY <1>2, <1>4 DEF HostInv, DistinctObjects
<1>7. CapturedObjects'
  BY <1>1, <1>2, <1>4 DEF HostInv, CapturedObjects
<1>8. HostIsFlagged'
  BY <1>2, <1>3, <1>4, <1>5 DEF HostInv, HostIsFlagged
<1>9. FlagsStay
  <2> SUFFICES ASSUME NEW j \in DOMAIN members', isHost'[members'[j].obj],
                      rooms'[members'[j].room].host # j
               PROVE  Strays(j)
    BY DEF FlagsStay, Strays
  <2>1. j \in DOMAIN members
    BY <1>3, <1>4
  <2>2. members[j].room \in DOMAIN rooms
    BY <2>1 DEF MembersHaveRooms
  <2> QED
    BY <1>3, <1>4, <1>5, <2>1, <2>2 DEF Strays
<1>10. HostsStaySafe
  BY <1>2, <1>3, <1>4 DEF HostsStaySafe, Threatened, OnlineMembers, MembersOf
<1> QED
  BY <1>6, <1>7, <1>8, <1>9, <1>10 DEF HostInv

\* joinRoom seats a newcomer on an object of its own, without the flag.
LEMMA JoinRoomRoles ==
  ASSUME TypeOK, MembersHaveRooms, HostInv, NEW r, NEW d, NEW p, JoinRoom(r, d, p)
  PROVE  HostInv' /\ FlagsStay /\ HostsStaySafe
<1>1. PICK i \in FreshIds, o \in FreshObjects, n \in 0..MaxOrder :
        /\ members' = Put(members, i, NewMember(r, d, p, o, n, "running"))
        /\ isHost' = [isHost EXCEPT ![o] = FALSE]
        /\ reqs' = reqs /\ rooms' = rooms
  BY DEF JoinRoom
<1>2. /\ i \notin DOMAIN members /\ \A x \in DOMAIN rooms : rooms[x].host # i
      /\ \A q \in DOMAIN reqs : reqs[q].id # i /\ reqs[q].obj # o
      /\ o \in Object /\ \A j \in DOMAIN members : members[j].obj # o
  BY DEF FreshIds, FreshObjects
<1>3. /\ DOMAIN members' = DOMAIN members \cup {i}
      /\ members'[i].room = r /\ members'[i].obj = o /\ ~members'[i].connected
      /\ \A j \in DOMAIN members : members'[j] = members[j]
  BY <1>1, <1>2 DEF Put, NewMember
<1>4. isHost'[o] = FALSE /\ \A j \in DOMAIN members : isHost'[members[j].obj] = isHost[members[j].obj]
  <2>1. isHost \in [Object -> BOOLEAN]
    BY DEF TypeOK
  <2>2. isHost' = [isHost EXCEPT ![o] = FALSE]
    BY <1>1
  <2>3. isHost'[o] = FALSE
    BY ONLY <1>2, <2>1, <2>2
  <2>4. \A x \in Object : x # o => isHost'[x] = isHost[x]
    BY ONLY <2>1, <2>2
  <2>5. \A j \in DOMAIN members : members[j].obj \in Object
    BY DEF TypeOK, IsMap, MemberRecord
  <2> QED
    BY ONLY <1>2, <2>3, <2>4, <2>5
<1>5. DistinctObjects'
  BY <1>2, <1>3 DEF HostInv, DistinctObjects
<1>6. CapturedObjects'
  BY <1>1, <1>2, <1>3 DEF HostInv, CapturedObjects
<1>7. HostIsFlagged'
  BY <1>1, <1>2, <1>3, <1>4 DEF HostInv, HostIsFlagged
<1>8. FlagsStay
  BY <1>1, <1>3, <1>4 DEF FlagsStay, Strays
<1>9. HostsStaySafe
  BY <1>1, <1>2, <1>3 DEF HostsStaySafe, Threatened, OnlineMembers, MembersOf
<1> QED
  BY <1>5, <1>6, <1>7, <1>8, <1>9 DEF HostInv

\* A rejoin moves the flag's value to the new object.
LEMMA RejoinRoomRoles ==
  ASSUME TypeOK, HostInv, NEW i, RejoinRoom(i)
  PROVE  HostInv' /\ FlagsStay /\ HostsStaySafe
<1>1. PICK o \in FreshObjects :
        /\ members' = [members EXCEPT ![i] = Rebound(members[i], o)]
        /\ isHost' = [isHost EXCEPT ![o] = isHost[members[i].obj]]
        /\ reqs' = reqs /\ rooms' = rooms
        /\ i \in DOMAIN members
  BY DEF RejoinRoom
<1>2. /\ o \in Object /\ \A j \in DOMAIN members : members[j].obj # o
      /\ \A q \in DOMAIN reqs : reqs[q].obj # o
      /\ members[i] \in MemberRecord
  BY <1>1 DEF FreshObjects, TypeOK, IsMap
<1>3. /\ DOMAIN members' = DOMAIN members
      /\ members'[i].obj = o /\ members'[i].room = members[i].room
      /\ members'[i].connected = members[i].connected
      /\ \A j \in DOMAIN members : j # i => members'[j] = members[j]
  BY <1>1, <1>2 DEF Rebound, MemberRecord
<1>4. /\ isHost'[o] = isHost[members[i].obj]
      /\ \A j \in DOMAIN members : isHost'[members[j].obj] = isHost[members[j].obj]
  <2>1. isHost \in [Object -> BOOLEAN]
    BY DEF TypeOK
  <2>2. isHost' = [isHost EXCEPT ![o] = isHost[members[i].obj]]
    BY <1>1
  <2> QED
    BY ONLY <1>2, <2>1, <2>2
<1>5. DistinctObjects'
  BY <1>2, <1>3 DEF HostInv, DistinctObjects
<1>6. CapturedObjects'
  BY <1>1, <1>2, <1>3 DEF HostInv, CapturedObjects
<1>7. HostIsFlagged'
  BY <1>1, <1>3, <1>4 DEF HostInv, HostIsFlagged
<1>8. FlagsStay
  BY <1>1, <1>3, <1>4 DEF FlagsStay, Strays
<1>9. HostsStaySafe
  BY <1>1, <1>3 DEF HostsStaySafe, Threatened, OnlineMembers, MembersOf
<1> QED
  BY <1>5, <1>6, <1>7, <1>8, <1>9 DEF HostInv

\* resume starts the host deadline of an offline carrier of the flag.
LEMMA ResumeRoles ==
  ASSUME TypeOK, MembersHaveRooms', HostInv, NEW i, Resume(i)
  PROVE  HostInv' /\ FlagsStay /\ HostsStaySafe
<1> DEFINE r == members[i].room
           host == isHost[members[i].obj]
<1>1. /\ i \in DOMAIN members /\ r \in DOMAIN rooms /\ ~members[i].connected
      /\ members' = [members EXCEPT ![i] = [members[i] EXCEPT
             !.reconnectDeadline = IF @ = "zero" THEN "running" ELSE @]]
      /\ rooms' = [rooms EXCEPT ![r] = [rooms[r] EXCEPT
             !.hostReconnectDeadline = IF host /\ @ = "zero" THEN "running" ELSE @]]
      /\ isHost' = isHost /\ reqs' = reqs
  BY DEF Resume
<1>2. members[i] \in MemberRecord /\ rooms[r] \in RoomRecord
  BY <1>1 DEF TypeOK, IsMap
<1>3. /\ DOMAIN members' = DOMAIN members
      /\ \A j \in DOMAIN members : /\ members'[j].obj = members[j].obj
                                   /\ members'[j].room = members[j].room
                                   /\ members'[j].connected = members[j].connected
  BY <1>1, <1>2 DEF MemberRecord
<1>4. /\ DOMAIN rooms' = DOMAIN rooms
      /\ \A x \in DOMAIN rooms : x # r => rooms'[x] = rooms[x]
      /\ rooms'[r].host = rooms[r].host
      /\ ~host => rooms'[r] = rooms[r]
  BY <1>1, <1>2 DEF RoomRecord
<1>5. KeepsRoles /\ KeepsCaptures
  BY <1>1, <1>3, <1>4 DEF KeepsRoles, KeepsCaptures
<1>6. HostsStaySafe
  <2> SUFFICES ASSUME NEW x \in DOMAIN rooms, rooms[x].host \in OnlineMembers(members, x),
                      rooms'[x].hostReconnectDeadline # "zero",
                      \A j \in MembersOf(members, x) : ~Strays(j)
               PROVE  rooms[x].hostReconnectDeadline # "zero"
    BY <1>3, <1>4 DEF HostsStaySafe, Threatened, OnlineMembers, MembersOf
  <2>1. CASE host /\ x = r
    <3>1. rooms[r].host = i
      BY <1>1, <2>1 DEF Strays, MembersOf
    <3> QED
      BY <1>1, <2>1, <3>1 DEF OnlineMembers, MembersOf
  <2>2. CASE ~(host /\ x = r)
    BY <1>4, <2>2
  <2> QED
    BY <2>1, <2>2
<1> QED
  BY <1>5, <1>6, CalmStepKeepsHostInv, CalmStepFlags

\* Coming online settles the host deadline of whoever carries the flag.
LEMMA MarkOnlineRoles ==
  ASSUME TypeOK, MembersHaveRooms', HostInv, NEW c, MarkOnline(c)
  PROVE  HostInv' /\ FlagsStay /\ HostsStaySafe
<1> DEFINE i == conns[c].id
           r == members[i].room
           host == isHost[members[i].obj]
           found == i \in DOMAIN members /\ r \in DOMAIN rooms
<1>1. isHost' = isHost /\ reqs' = reqs
  BY DEF MarkOnline
<1>2. CASE found
  <2>1. /\ members' = [members EXCEPT ![i] =
               [members[i] EXCEPT !.connected = TRUE, !.reconnectDeadline = "zero"]]
        /\ rooms' = [rooms EXCEPT ![r] = OnlineAgain(rooms[r], host)]
    BY <1>2 DEF MarkOnline
  <2>2. members[i] \in MemberRecord /\ rooms[r] \in RoomRecord
    BY <1>2 DEF TypeOK, IsMap
  <2>3. /\ DOMAIN members' = DOMAIN members
        /\ members'[i].obj = members[i].obj /\ members'[i].room = r
        /\ \A j \in DOMAIN members : j # i => members'[j] = members[j]
    BY <1>2, <2>1, <2>2 DEF MemberRecord
  <2>4. /\ DOMAIN rooms' = DOMAIN rooms
        /\ rooms'[r].host = rooms[r].host
        /\ rooms'[r].hostReconnectDeadline =
              IF host THEN "zero" ELSE rooms[r].hostReconnectDeadline
        /\ \A x \in DOMAIN rooms : x # r => rooms'[x] = rooms[x]
    BY <1>2, <2>1, <2>2 DEF OnlineAgain, RoomRecord
  <2>5. KeepsRoles /\ KeepsCaptures
    BY <1>1, <2>3, <2>4 DEF KeepsRoles, KeepsCaptures
  <2>6. HostsStaySafe
    <3> SUFFICES ASSUME NEW x \in DOMAIN rooms, rooms[x].host \in OnlineMembers(members', x),
                        rooms'[x].hostReconnectDeadline # "zero"
                 PROVE  Threatened(x)
      BY <2>3, <2>4 DEF HostsStaySafe, Threatened, OnlineMembers, MembersOf
    <3>1. rooms[x].host # i
      <4>1. SUFFICES ASSUME rooms[x].host = i PROVE FALSE
        OBVIOUS
      <4>2. x = r /\ host
        BY <1>2, <2>3, <4>1 DEF HostInv, HostIsFlagged, OnlineMembers, MembersOf
      <4> QED
        BY <2>4, <4>2
    <3>2. rooms[x].host \in OnlineMembers(members, x)
      BY <2>3, <3>1 DEF OnlineMembers, MembersOf
    <3>3. rooms[x].hostReconnectDeadline # "zero"
      BY <2>4
    <3> QED
      BY <3>2, <3>3 DEF Threatened
  <2> QED
    BY <2>5, <2>6, CalmStepKeepsHostInv, CalmStepFlags
<1>3. CASE ~found
  <2>1. UNCHANGED <<members, rooms>>
    BY <1>3 DEF MarkOnline
  <2>2. KeepsRoles /\ KeepsCaptures /\ KeepsHostsCalm
    BY <1>1, <2>1 DEF KeepsRoles, KeepsCaptures, KeepsHostsCalm
  <2> QED
    BY <2>2, CalmStepKeepsHostInv, CalmStepFlags, CalmStepDeadlines
<1> QED
  BY <1>2, <1>3

\* Going offline starts a host deadline for the flag's carrier, who is now offline and,
\* unless it is a stray, the host.
LEMMA MarkOfflineRoles ==
  ASSUME TypeOK, MembersHaveRooms', HostInv, NEW c, MarkOffline(c)
  PROVE  HostInv' /\ FlagsStay /\ HostsStaySafe
<1> DEFINE i == conns[c].id
           r == members[i].room
           host == isHost[members[i].obj]
           found == ~IsSuperseded(i) /\ i \in DOMAIN members /\ r \in DOMAIN rooms
<1>1. isHost' = isHost /\ reqs' = reqs
  BY DEF MarkOffline
<1>2. CASE found
  <2>1. /\ members' = [members EXCEPT ![i] =
               [members[i] EXCEPT !.connected = FALSE, !.reconnectDeadline = "running"]]
        /\ rooms' = [rooms EXCEPT ![r] = [rooms[r] EXCEPT
               !.hostReconnectDeadline =
                   IF isHost[members[i].obj] /\ @ = "zero" THEN "running" ELSE @,
               !.emptyDeadline =
                   IF OnlineMembers(members, r) \subseteq {i} THEN "running" ELSE @]]
    BY <1>2 DEF MarkOffline
  <2>2. members[i] \in MemberRecord /\ rooms[r] \in RoomRecord
    BY <1>2 DEF TypeOK, IsMap
  <2>3. /\ DOMAIN members' = DOMAIN members
        /\ members'[i].obj = members[i].obj /\ members'[i].room = r
        /\ ~members'[i].connected
        /\ \A j \in DOMAIN members : j # i => members'[j] = members[j]
    BY <1>2, <2>1, <2>2 DEF MemberRecord
  <2>4. /\ DOMAIN rooms' = DOMAIN rooms
        /\ rooms'[r].host = rooms[r].host
        /\ ~host => rooms'[r].hostReconnectDeadline = rooms[r].hostReconnectDeadline
        /\ \A x \in DOMAIN rooms : x # r => rooms'[x] = rooms[x]
    BY <1>2, <2>1, <2>2 DEF RoomRecord
  <2>5. KeepsRoles /\ KeepsCaptures
    BY <1>1, <2>3, <2>4 DEF KeepsRoles, KeepsCaptures
  <2>6. HostsStaySafe
    <3> SUFFICES ASSUME NEW x \in DOMAIN rooms, rooms[x].host \in OnlineMembers(members', x),
                        rooms'[x].hostReconnectDeadline # "zero",
                        \A j \in MembersOf(members, x) : ~Strays(j)
                 PROVE  Threatened(x)
      BY <2>3, <2>4 DEF HostsStaySafe, Threatened, OnlineMembers, MembersOf
    <3>1. rooms[x].host # i /\ rooms[x].host \in OnlineMembers(members, x)
      BY <2>3 DEF OnlineMembers, MembersOf
    <3>2. CASE host /\ x = r
      BY <1>2, <3>1, <3>2 DEF Strays, MembersOf
    <3>3. CASE ~(host /\ x = r)
      BY <2>4, <3>1, <3>3 DEF Threatened
    <3> QED
      BY <3>2, <3>3
  <2> QED
    BY <2>5, <2>6, CalmStepKeepsHostInv, CalmStepFlags
<1>3. CASE ~found
  <2>1. UNCHANGED <<members, rooms>>
    BY <1>3 DEF MarkOffline
  <2>2. KeepsRoles /\ KeepsCaptures /\ KeepsHostsCalm
    BY <1>1, <2>1 DEF KeepsRoles, KeepsCaptures, KeepsHostsCalm
  <2> QED
    BY <2>2, CalmStepKeepsHostInv, CalmStepFlags, CalmStepDeadlines
<1> QED
  BY <1>2, <1>3

\* A request captures the object its caller has at that moment.
LEMMA EnterRoles ==
  ASSUME MembersHaveRooms', HostInv, NEW q, NEW op \in Ops, NEW i, Enter(q, op, i)
  PROVE  HostInv' /\ FlagsStay /\ HostsStaySafe
<1>1. /\ i \in DOMAIN members /\ q \notin DOMAIN reqs
      /\ reqs' = Put(reqs, q, [op |-> op, id |-> i, obj |-> members[i].obj,
                               room |-> members[i].room])
      /\ UNCHANGED <<rooms, members, isHost>>
  BY DEF Enter
<1>2. /\ DOMAIN reqs' = DOMAIN reqs \cup {q}
      /\ reqs'[q].op = op /\ reqs'[q].id = i /\ reqs'[q].obj = members[i].obj
      /\ \A x \in DOMAIN reqs : reqs'[x] = reqs[x]
  BY <1>1 DEF Put
<1>3. DistinctObjects' /\ HostIsFlagged'
  BY <1>1 DEF HostInv, DistinctObjects, HostIsFlagged
<1>4. CapturedObjects'
  BY <1>1, <1>2 DEF HostInv, CapturedObjects, DistinctObjects
<1>5. FlagsStay /\ HostsStaySafe
  BY <1>1 DEF FlagsStay, Strays, HostsStaySafe, Threatened, OnlineMembers, MembersOf
<1> QED
  BY <1>3, <1>4, <1>5 DEF HostInv

\* handover clears the flag of the object it captured and sets the target's.
LEMMA HandoverRoles ==
  ASSUME TypeOK, HostInv, NEW q, NEW t, Handover(q, t)
  PROVE  HostInv' /\ FlagsStay /\ HostsStaySafe
<1> DEFINE r == reqs[q].room
           h == reqs[q].id
<1>1. /\ q \in DOMAIN reqs /\ reqs[q].op = "handover"
      /\ r \in DOMAIN rooms /\ rooms[r].host = h
      /\ t \in DOMAIN members /\ members[t].room = r /\ t # h
      /\ isHost' = [isHost EXCEPT ![reqs[q].obj] = FALSE, ![members[t].obj] = TRUE]
      /\ rooms' = [rooms EXCEPT ![r] = [rooms[r] EXCEPT !.host = t, !.hostReconnectDeadline = "zero"]]
      /\ reqs' = Drop(reqs, {q}) /\ members' = members
  BY DEF Handover, OnlineMembers, MembersOf
<1>2. rooms[r] \in RoomRecord /\ \A j \in DOMAIN members : members[j].obj \in Object
  BY <1>1 DEF TypeOK, IsMap, MemberRecord
<1>3. /\ DOMAIN rooms' = DOMAIN rooms
      /\ rooms'[r].host = t /\ rooms'[r].hostReconnectDeadline = "zero"
      /\ \A x \in DOMAIN rooms : x # r => rooms'[x] = rooms[x]
  BY <1>1, <1>2 DEF RoomRecord
<1>4. /\ isHost'[members[t].obj] = TRUE
      /\ \A o \in Object : o # members[t].obj =>
            isHost'[o] = IF o = reqs[q].obj THEN FALSE ELSE isHost[o]
  <2>1. isHost \in [Object -> BOOLEAN]
    BY DEF TypeOK
  <2>2. isHost'[members[t].obj] = TRUE
    BY ONLY <1>1, <1>2, <2>1
  <2>3. ASSUME NEW o \in Object, o # members[t].obj
        PROVE  isHost'[o] = IF o = reqs[q].obj THEN FALSE ELSE isHost[o]
    BY ONLY <1>1, <2>1, <2>3
  <2> QED
    BY <2>2, <2>3
<1>5. /\ DOMAIN reqs' \subseteq DOMAIN reqs
      /\ \A x \in DOMAIN reqs' : reqs'[x] = reqs[x]
  BY <1>1 DEF Drop, Restrict
<1>6. DistinctObjects' /\ CapturedObjects'
  <2>1. members' = members
    BY <1>1
  <2>2. DistinctObjects'
    BY <2>1 DEF HostInv, DistinctObjects
  <2>3. CapturedObjects'
    BY ONLY HostInv, <1>5, <2>1 DEF HostInv, CapturedObjects
  <2> QED
    BY <2>2, <2>3
<1>7. HostIsFlagged'
  <2> SUFFICES ASSUME NEW x \in DOMAIN rooms, rooms'[x].host \in DOMAIN members
               PROVE  /\ members[rooms'[x].host].room = x
                      /\ isHost'[members[rooms'[x].host].obj]
    BY <1>1, <1>3 DEF HostIsFlagged
  <2>1. CASE x = r
    BY <1>1, <1>3, <1>4, <2>1
  <2>2. CASE x # r
    <3> DEFINE y == rooms[x].host
    <3>1. /\ rooms'[x].host = y /\ y \in DOMAIN members
          /\ members[y].room = x /\ isHost[members[y].obj]
      BY <1>3, <2>2 DEF HostInv, HostIsFlagged
    <3>2. y # t
      BY <1>1, <2>2, <3>1
    <3>3. members[y].obj # reqs[q].obj
      <4>1. SUFFICES ASSUME members[y].obj = reqs[q].obj PROVE FALSE
        OBVIOUS
      <4>2. y = rooms[r].host
        BY <1>1, <3>1, <4>1 DEF HostInv, CapturedObjects
      <4> QED
        BY <1>1, <2>2, <3>1, <4>2 DEF HostInv, HostIsFlagged
    <3>4. members[y].obj # members[t].obj
      BY <1>1, <3>1, <3>2 DEF HostInv, DistinctObjects
    <3> QED
      BY <1>2, <1>4, <3>1, <3>3, <3>4
  <2> QED
    BY <2>1, <2>2
<1>8. FlagsStay
  <2> SUFFICES ASSUME NEW i \in DOMAIN members, isHost'[members[i].obj],
                      rooms'[members[i].room].host # i, ~Strays(i)
               PROVE  HandsOverOldObject(i)
    BY <1>1 DEF FlagsStay, Strays
  <2>1. i # t
    BY <1>1, <1>3
  <2>2. members[i].obj # members[t].obj
    BY <1>1, <2>1 DEF HostInv, DistinctObjects
  <2>3. isHost[members[i].obj] /\ members[i].obj # reqs[q].obj
    BY <1>2, <1>4, <2>2
  <2>4. rooms[members[i].room].host = i
    BY <2>3 DEF Strays
  <2>5. i = h
    BY <1>1, <2>4
  <2>6. q \in DOMAIN reqs \ DOMAIN reqs'
    BY <1>1 DEF Drop, Restrict
  <2> QED
    BY <1>1, <2>3, <2>5, <2>6 DEF HandsOverOldObject
<1>9. HostsStaySafe
  BY <1>1, <1>3 DEF HostsStaySafe, Threatened
<1> QED
  BY <1>6, <1>7, <1>8, <1>9 DEF HostInv

\* leaveMember promotes the earliest online member among those who stay.  The flag it
\* reads may be that of an object its caller no longer has: the room then gets a new
\* host although the old one stayed, and the role is still one member's.
LEMMA LeaveMemberRoles ==
  ASSUME TypeOK, MembersHaveRooms, HostInv, NEW q, LeaveMember(q)
  PROVE  HostInv' /\ FlagsStay /\ HostsStaySafe
<1> DEFINE M == Drop(members, {reqs[q].id})
           D == {x \in DOMAIN rooms : x = reqs[q].room /\ isHost[reqs[q].obj]}
<1>1. /\ q \in DOMAIN reqs
      /\ rooms' = RoomsAfter(M, D) /\ isHost' = FlagsAfter(M, D)
      /\ members' = Drop(M, Deposed(M, D))
  BY DEF LeaveMember
<1>2. KeepsCaptures
  <2> DEFINE last == isHost[reqs[q].obj] /\ MembersOf(members', reqs[q].room) = {}
  <2>1. CASE last
    <3>1. reqs' = [reqs EXCEPT ![q] = [reqs[q] EXCEPT !.op = "purge"]]
      BY <2>1 DEF LeaveMember
    <3>2. reqs[q] \in RequestRecord
      BY <1>1 DEF TypeOK, IsMap
    <3> QED
      BY <1>1, <3>1, <3>2 DEF KeepsCaptures, RequestRecord
  <2>2. CASE ~last
    <3>1. reqs' = Drop(reqs, {q})
      BY <2>2 DEF LeaveMember
    <3> QED
      BY ONLY <3>1 DEF KeepsCaptures, Drop, Restrict
  <2> QED
    BY <2>1, <2>2
<1>3. IsMap(M, MemberId, MemberRecord) /\ IsPart(M, members) /\ IsPart(members', M)
  BY <1>1, DropMap DEF TypeOK, IsPart, Drop, Restrict
<1>4. D \subseteq DOMAIN rooms
  OBVIOUS
<1> HIDE DEF M, D
<1>5. /\ DOMAIN members' \subseteq DOMAIN members
      /\ \A i \in DOMAIN members' : members'[i] = members[i]
  BY ONLY <1>3 DEF IsPart
<1>6. /\ DistinctObjects' /\ HostIsFlagged'
      /\ FlagsStay /\ HostsStaySafe
  BY <1>1, <1>3, <1>4, Promotion
<1>7. CapturedObjects'
  BY ONLY HostInv, <1>2, <1>5 DEF HostInv, KeepsCaptures, CapturedObjects
<1> QED
  BY <1>6, <1>7 DEF HostInv

\* The sweep promotes in every room whose host is past its deadline.
LEMMA SweepRoles ==
  ASSUME TypeOK, MembersHaveRooms, HostInv, Sweep
  PROVE  HostInv' /\ FlagsStay /\ HostsStaySafe
<1> DEFINE D       == {r \in DOMAIN rooms \ {x \in DOMAIN rooms : IsAbandoned(x)} : HostTimedOut(r)}
           deposed == Deposed(members, D)
           expired == {i \in DOMAIN members : IsExpired(i, FlagsAfter(members, D))}
<1>1. /\ rooms' = RoomsAfter(members, D) /\ isHost' = FlagsAfter(members, D)
      /\ members' = Drop(members, deposed \cup expired)
      /\ reqs' = reqs
  BY DEF Sweep
<1>2. KeepsCaptures
  BY <1>1 DEF KeepsCaptures
<1>3. /\ IsMap(members, MemberId, MemberRecord) /\ IsPart(members, members)
      /\ IsPart(members', members)
  BY <1>1 DEF TypeOK, IsPart, Drop, Restrict
<1>4. D \subseteq DOMAIN rooms
  OBVIOUS
<1> HIDE DEF D
<1>5. /\ DistinctObjects' /\ HostIsFlagged'
      /\ FlagsStay /\ HostsStaySafe
  BY <1>1, <1>3, <1>4, Promotion
<1>6. /\ DOMAIN members' \subseteq DOMAIN members
      /\ \A i \in DOMAIN members' : members'[i] = members[i]
  BY ONLY <1>3 DEF IsPart
<1>7. CapturedObjects'
  BY ONLY HostInv, <1>2, <1>6 DEF HostInv, KeepsCaptures, CapturedObjects
<1> QED
  BY <1>5, <1>7 DEF HostInv

\* deleteRoom takes the host along with the room.
LEMMA DeleteRoomKeepsRoles ==
  ASSUME NEW r, DeleteRoom(r), isHost' = isHost
  PROVE  KeepsRoles /\ KeepsHostsCalm
<1>1. /\ DOMAIN rooms' \subseteq DOMAIN rooms
      /\ \A x \in DOMAIN rooms' : rooms'[x] = rooms[x]
  BY DEF DeleteRoom, Drop, Restrict
<1>2. /\ DOMAIN members' \subseteq DOMAIN members
      /\ \A i \in DOMAIN members' : members'[i] = members[i]
  <2>1. CASE r \in DOMAIN rooms
    BY <2>1 DEF DeleteRoom, Drop, Restrict
  <2>2. CASE r \notin DOMAIN rooms
    BY <2>2 DEF DeleteRoom
  <2> QED
    BY <2>1, <2>2
<1> QED
  BY ONLY <1>1, <1>2, isHost' = isHost DEF KeepsRoles, KeepsHostsCalm

\* A restart derives every flag from HostMemberID, and nobody is online after it.
LEMMA RestartRoles ==
  ASSUME TypeOK, MembersHaveRooms, HostInv, Restart
  PROVE  HostInv' /\ FlagsStay /\ HostsStaySafe
<1>1. /\ DOMAIN rooms' = DOMAIN rooms
      /\ \A r \in DOMAIN rooms : rooms'[r].host = rooms[r].host
  <2>1. \A r \in DOMAIN rooms : rooms[r] \in RoomRecord
    BY DEF TypeOK, IsMap
  <2> QED
    BY <2>1 DEF Restart, RoomRecord
<1>2. /\ DOMAIN members' = DOMAIN members
      /\ \A i \in DOMAIN members :
            /\ members'[i].obj = members[i].obj /\ members'[i].room = members[i].room
            /\ ~members'[i].connected
            /\ members[i].obj \in Object
  <2>1. \A i \in DOMAIN members : members[i] \in MemberRecord
    BY DEF TypeOK, IsMap
  <2> QED
    BY <2>1 DEF Restart, MemberRecord
<1>3. \A o \in Object : isHost'[o] <=>
        \E i \in DOMAIN members : /\ members[i].obj = o
                                  /\ members[i].room \in DOMAIN rooms
                                  /\ rooms[members[i].room].host = i
  BY DEF Restart
<1>4. DOMAIN reqs' = {}
  BY DEF Restart, Restrict
<1>5. DistinctObjects' /\ CapturedObjects'
  BY <1>2, <1>4 DEF HostInv, DistinctObjects, CapturedObjects
<1>6. HostIsFlagged'
  BY <1>1, <1>2, <1>3 DEF HostInv, HostIsFlagged
<1>7. FlagsStay
  BY <1>1, <1>2, <1>3 DEF HostInv, DistinctObjects, FlagsStay, Strays
<1>8. HostsStaySafe
  BY <1>2 DEF HostsStaySafe, Threatened, OnlineMembers, MembersOf
<1> QED
  BY <1>5, <1>6, <1>7, <1>8 DEF HostInv

\* A step that moves no role, captures nothing and starts no host deadline keeps all.
LEMMA CalmStepKeepsAll ==
  ASSUME MembersHaveRooms', HostInv, KeepsRoles, KeepsCaptures, KeepsHostsCalm
  PROVE  HostInv' /\ FlagsStay /\ HostsStaySafe
BY CalmStepKeepsHostInv, CalmStepFlags, CalmStepDeadlines

\* Every step keeps what holds of the role.
LEMMA StepKeepsRoles ==
  ASSUME TypeOK, MembersHaveRooms, MembersHaveRooms', HostInv, [Next]_vars
  PROVE  HostInv' /\ FlagsStay /\ HostsStaySafe
<1> DEFINE Kept == HostInv' /\ FlagsStay /\ HostsStaySafe
<1>0. /\ \A i \in DOMAIN members : members[i] \in MemberRecord
      /\ \A x \in DOMAIN rooms : rooms[x] \in RoomRecord
  BY DEF TypeOK, IsMap
<1>1. ASSUME UNCHANGED <<rooms, members, isHost>>, KeepsCaptures PROVE Kept
  <2>1. KeepsRoles /\ KeepsHostsCalm
    BY <1>1 DEF KeepsRoles, KeepsHostsCalm
  <2> QED
    BY <1>1, <2>1, CalmStepKeepsAll
<1>2. reqs' = reqs => KeepsCaptures
  BY DEF KeepsCaptures
<1>3. ASSUME NEW q, reqs' = Drop(reqs, {q}) PROVE KeepsCaptures
  BY ONLY <1>3 DEF KeepsCaptures, Drop, Restrict
<1>4. CASE Admission
  BY <1>4, CreateRoomRoles, JoinRoomRoles, RejoinRoomRoles, ResumeRoles DEF Admission
<1>5. CASE Presence
  <2> PICK c \in Conn : \/ \E i \in MemberId : Accept(c, i)
                        \/ AddSocket(c) \/ MarkOnline(c) \/ RemoveSocket(c)
                        \/ CheckSocket(c) \/ MarkOffline(c)
    BY <1>5 DEF Presence
  <2>1. ASSUME NEW i \in MemberId, Accept(c, i) PROVE Kept
    BY <1>1, <1>2, <2>1 DEF Accept
  <2>2. CASE AddSocket(c) \/ RemoveSocket(c) \/ CheckSocket(c)
    BY <1>1, <1>2, <2>2 DEF AddSocket, RemoveSocket, CheckSocket
  <2> QED
    BY <2>1, <2>2, MarkOnlineRoles, MarkOfflineRoles
<1>6. CASE Requests
  <2> PICK q \in Request : \/ \E op \in Ops, i \in MemberId : Enter(q, op, i)
                           \/ Reject(q) \/ RenameRoom(q) \/ LeaveMember(q) \/ EndRoom(q)
                           \/ \E t \in MemberId : Handover(q, t)
    BY <1>6 DEF Requests
  <2>1. CASE Reject(q)
    BY <1>1, <1>3, <2>1 DEF Reject
  <2>2. CASE RenameRoom(q)
    BY <1>1, <1>3, <2>2 DEF RenameRoom
  <2>3. CASE EndRoom(q)
    <3>1. DeleteRoom(reqs[q].room) /\ isHost' = isHost /\ reqs' = Drop(reqs, {q})
      BY <2>3 DEF EndRoom
    <3> QED
      BY <1>3, <3>1, DeleteRoomKeepsRoles, CalmStepKeepsAll
  <2> QED
    BY <2>1, <2>2, <2>3, EnterRoles, LeaveMemberRoles, HandoverRoles
<1>7. CASE Background
  <2>1. ASSUME NEW r \in Room, SweepDelete(r) \/ AdminEndRoom(r) PROVE Kept
    <3>1. DeleteRoom(r) /\ isHost' = isHost /\ reqs' = reqs
      BY <2>1 DEF SweepDelete, AdminEndRoom
    <3> QED
      BY <1>2, <3>1, DeleteRoomKeepsRoles, CalmStepKeepsAll
  <2>2. ASSUME NEW r \in Room, HostDeadlinePasses(r) \/ EmptyDeadlinePasses(r) PROVE Kept
    <3>1. /\ members' = members /\ isHost' = isHost /\ reqs' = reqs
          /\ DOMAIN rooms' = DOMAIN rooms
          /\ \A x \in DOMAIN rooms :
                /\ rooms'[x].host = rooms[x].host
                /\ rooms[x].hostReconnectDeadline = "zero"
                   => rooms'[x].hostReconnectDeadline = "zero"
      BY <1>0, <2>2 DEF HostDeadlinePasses, EmptyDeadlinePasses, RoomRecord
    <3>2. KeepsRoles /\ KeepsHostsCalm
      BY ONLY <3>1 DEF KeepsRoles, KeepsHostsCalm
    <3> QED
      BY <1>2, <3>1, <3>2, CalmStepKeepsAll
  <2>3. ASSUME NEW i \in MemberId, ReconnectDeadlinePasses(i) PROVE Kept
    <3>1. /\ rooms' = rooms /\ isHost' = isHost /\ reqs' = reqs
          /\ DOMAIN members' = DOMAIN members
          /\ \A j \in DOMAIN members :
                /\ members'[j].obj = members[j].obj
                /\ members'[j].room = members[j].room
                /\ members'[j].connected = members[j].connected
      BY <1>0, <2>3 DEF ReconnectDeadlinePasses, MemberRecord
    <3>2. KeepsRoles /\ KeepsHostsCalm
      BY ONLY <3>1 DEF KeepsRoles, KeepsHostsCalm
    <3> QED
      BY <1>2, <3>1, <3>2, CalmStepKeepsAll
  <2> QED
    BY <1>7, <2>1, <2>2, <2>3, SweepRoles, RestartRoles DEF Background
<1>8. CASE UNCHANGED vars
  BY <1>1, <1>2, <1>8 DEF vars
<1> QED
  BY <1>4, <1>5, <1>6, <1>7, <1>8 DEF Next

LEMMA InitRoles == Init => HostInv
BY DEF Init, HostInv, DistinctObjects, CapturedObjects, HostIsFlagged

\* In every configuration, rejoins and handovers included: the member a room names as
\* its host, while it is one, is a member of that room and carries the flag on the
\* object the server now has for it; and no two members share an object.
THEOREM HostsCarryTheFlag == Spec => []HostInv
<1>1. Init => HostInv
  BY InitRoles
<1>2. TypeOK /\ MembersHaveRooms /\ MembersHaveRooms' /\ HostInv /\ [Next]_vars => HostInv'
  BY StepKeepsRoles
<1> QED
  BY <1>1, <1>2, TypeCorrect, MembersAlwaysHaveRooms, PTL DEF Spec

\* A room's host carries the flag, and nobody else comes to carry one, however
\* promotions, sweeps, departures, rejoins, restarts and handovers interleave, except the
\* caller of a handover that rejoined between its request and the handler's lock
\* (server.go:553): that is the only way in which two members come to pass the role test.
THEOREM OneHostPerRoom == Spec => RoleSplitsOnlyByRejoin
<1>1. HostInv => HostIsFlagged
  BY DEF HostInv
<1>2. TypeOK /\ MembersHaveRooms /\ MembersHaveRooms' /\ HostInv /\ [Next]_vars
      => [FlagsStay]_vars
  BY StepKeepsRoles
<1>3. [FlagsStay]_vars
      => [\A i \in MemberId : Strays(i)' => Strays(i) \/ HandsOverOldObject(i)]_vars
  BY DEF FlagsStay
<1> QED
  BY <1>1, <1>2, <1>3, TypeCorrect, MembersAlwaysHaveRooms, HostsCarryTheFlag, PTL
     DEF Spec, RoleSplitsOnlyByRejoin

\* A host that is online does not come under a deadline that would let the sweeper depose
\* it, unless its room holds a stray, the member of the theorem above.
THEOREM OnlineHostsAreSafe == Spec => OnlyStraysThreatenHosts
<1>1. TypeOK /\ MembersHaveRooms /\ MembersHaveRooms' /\ HostInv /\ [Next]_vars
      => [HostsStaySafe]_vars
  BY StepKeepsRoles
<1>2. [HostsStaySafe]_vars
      => [\A r \in Room : Threatened(r)' =>
             Threatened(r) \/ \E i \in MembersOf(members, r) : Strays(i)]_vars
  BY DEF HostsStaySafe
<1> QED
  BY <1>1, <1>2, TypeCorrect, MembersAlwaysHaveRooms, HostsCarryTheFlag, PTL
     DEF Spec, OnlyStraysThreatenHosts
=============================================================================
