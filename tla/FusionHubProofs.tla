--------------------------- MODULE FusionHubProofs ---------------------------
(***************************************************************************)
(* What holds of FusionHub for every value of its constants.               *)
(***************************************************************************)
EXTENDS FusionHub, FiniteSetTheorems, TLAPS

-----------------------------------------------------------------------------
(* Maps *)

\* Put keeps a map a map.
LEMMA PutMap ==
  ASSUME NEW m, NEW K, NEW V, IsMap(m, K, V), NEW k \in K, NEW v \in V
  PROVE  IsMap(Put(m, k, v), K, V)
BY DEF IsMap, Put

\* So does taking keys away,
LEMMA RestrictMap ==
  ASSUME NEW m, NEW K, NEW V, IsMap(m, K, V), NEW S
  PROVE  /\ IsMap(Restrict(m, DOMAIN m \ S), K, V)
         /\ DOMAIN Restrict(m, DOMAIN m \ S) = DOMAIN m \ S
         /\ \A k \in DOMAIN m \ S : Restrict(m, DOMAIN m \ S)[k] = m[k]
BY DEF IsMap, Restrict

\* and changing a value.
LEMMA UpdateMap ==
  ASSUME NEW m, NEW K, NEW V, IsMap(m, K, V), NEW k \in DOMAIN m, NEW v \in V
  PROVE  IsMap([m EXCEPT ![k] = v], K, V)
BY DEF IsMap

\* The handlers.
Handlers(R) == IsMap(R, Peer, RelayRecord)

\* Cancelling handlers keeps them handlers.
LEMMA CancelMap ==
  ASSUME NEW R, Handlers(R), NEW P
  PROVE  Handlers(Cancel(R, P))
<1> DEFINE C == Cancel(R, P)
<1>1. ASSUME NEW p \in DOMAIN R PROVE C[p] \in RelayRecord
  <2>1. R[p] \in RelayRecord
    BY DEF Handlers, IsMap
  <2>2. [R[p] EXCEPT !.cancelled = TRUE] \in RelayRecord
    BY <2>1 DEF RelayRecord
  <2> QED
    BY <2>1, <2>2 DEF Cancel
<1>2. DOMAIN C = DOMAIN R /\ C = [p \in DOMAIN C |-> C[p]]
  BY DEF Cancel
<1> QED
  BY <1>1, <1>2 DEF Handlers, IsMap

\* So does starting their timers.
LEMMA TimersMap ==
  ASSUME NEW R, Handlers(R), NEW P
  PROVE  Handlers(WithTimers(R, P))
<1> DEFINE C == WithTimers(R, P)
<1>1. ASSUME NEW p \in DOMAIN R PROVE C[p] \in RelayRecord
  <2>1. R[p] \in RelayRecord /\ R[p].ending \in BOOLEAN
    BY DEF Handlers, IsMap, RelayRecord
  <2>2. \A b \in BOOLEAN : [R[p] EXCEPT !.ending = b] \in RelayRecord
    BY <2>1 DEF RelayRecord
  <2>3. (R[p].ending \/ p \in P) \in BOOLEAN
    OBVIOUS
  <2>4. C[p] = [R[p] EXCEPT !.ending = R[p].ending \/ p \in P]
    BY DEF WithTimers
  <2> QED
    BY <2>2, <2>3, <2>4
<1>2. DOMAIN C = DOMAIN R /\ C = [p \in DOMAIN C |-> C[p]]
  BY DEF WithTimers
<1> QED
  BY <1>1, <1>2 DEF Handlers, IsMap

\* The tables of seen packets are the maps from packets to times.
Seen == UNION {[K -> Time] : K \in SUBSET Packet}

LEMMA SeenIsMap ==
  ASSUME NEW s
  PROVE  s \in Seen <=> IsMap(s, Packet, Time)
<1>1. ASSUME s \in Seen PROVE IsMap(s, Packet, Time)
  <2>1. PICK K \in SUBSET Packet : s \in [K -> Time]
    BY <1>1 DEF Seen
  <2> QED
    BY <2>1 DEF IsMap
<1>2. ASSUME IsMap(s, Packet, Time) PROVE s \in Seen
  <2>1. DOMAIN s \in SUBSET Packet /\ s \in [DOMAIN s -> Time]
    BY <1>2 DEF IsMap
  <2> QED
    BY <2>1 DEF Seen
<1> QED
  BY <1>1, <1>2

-----------------------------------------------------------------------------
(* Types *)

\* What pruning leaves has the shape of what it was.
LEMMA PruneTypeOK ==
  ASSUME TypeOK
  PROVE  IsMap(Kept, Room, RoomRecord) /\ Handlers(PrunedRelay)
<1>1. IsMap(Kept, Room, RoomRecord)
  BY RestrictMap DEF TypeOK, Kept
<1>2. Handlers(PrunedRelay)
  BY CancelMap DEF TypeOK, Handlers, PrunedRelay
<1> QED
  BY <1>1, <1>2

\* An accepted upload keeps the types.
LEMMA SyncTypeOK == ASSUME TypeOK, NEW s \in signed, SyncFusion(s) PROVE TypeOK'
<1> DEFINE r == s.room
<1>1. s \in State /\ now \in Time
  BY DEF TypeOK
<1>2. Successor(s, Kept[r]) \in RoomRecord \/ r \notin DOMAIN Kept
  <2>1. CASE r \in DOMAIN Kept
    <3>1. Kept[r] \in RoomRecord
      BY <2>1, PruneTypeOK DEF IsMap
    <3> QED
      BY <1>1, <3>1 DEF Successor, RoomRecord, State
  <2> QED
    BY <2>1
<1>3. NewRoom(s) \in RoomRecord
  <2>1. [k \in {} |-> 0] \in Seen
    BY SeenIsMap DEF IsMap
  <2> QED
    BY <1>1, <2>1 DEF NewRoom, RoomRecord, State, Seen
<1>4. IsMap(rooms', Room, RoomRecord)
  <2>1. rooms' = Put(Kept, r, IF r \in DOMAIN Kept THEN Successor(s, Kept[r]) ELSE NewRoom(s))
    BY DEF SyncFusion
  <2>2. (IF r \in DOMAIN Kept THEN Successor(s, Kept[r]) ELSE NewRoom(s)) \in RoomRecord
    BY <1>2, <1>3
  <2>3. r \in Room
    BY <1>1 DEF State
  <2> QED
    BY <2>1, <2>2, <2>3, PutMap, PruneTypeOK
<1>5. Handlers(relay')
  BY PruneTypeOK, TimersMap DEF SyncFusion
<1> QED
  BY <1>4, <1>5 DEF TypeOK, SyncFusion, Handlers

\* The end of a handler keeps the types.
LEMMA HandlerEndsTypeOK ==
  ASSUME TypeOK, NEW p \in DOMAIN relay, HandlerEnds(p)
  PROVE  IsMap(rooms', Room, RoomRecord) /\ Handlers(relay')
<1>1. Handlers(relay')
  BY RestrictMap DEF TypeOK, Handlers, HandlerEnds
<1>2. ASSUME NEW r \in DOMAIN rooms PROVE rooms'[r] \in RoomRecord
  <2>1. rooms[r] \in RoomRecord
    BY DEF TypeOK, IsMap
  <2>2. [rooms[r] EXCEPT !.peers = rooms[r].peers \ {p}] \in RoomRecord
    BY <2>1 DEF RoomRecord
  <2> QED
    BY <2>1, <2>2 DEF HandlerEnds
<1>3. DOMAIN rooms' = DOMAIN rooms /\ rooms' = [r \in DOMAIN rooms' |-> rooms'[r]]
  BY DEF HandlerEnds
<1> QED
  BY <1>1, <1>2, <1>3 DEF TypeOK, IsMap

\* A packet keeps the types.
LEMMA ForwardTypeOK ==
  ASSUME TypeOK, NEW p \in Peer, NEW k \in Packet, NEW b \in BOOLEAN, Forward(p, k, b)
  PROVE  TypeOK'
<1> DEFINE r       == relay[p].room
           known   == Remembered(r, b)
           isNew   == k \notin DOMAIN known /\ Cardinality(DOMAIN known) < CacheSize
           targets == IF isNew THEN rooms[r].peers \ {p} ELSE {}
           gone    == r \notin DOMAIN rooms \/ (rooms[r].ended /\ now > rooms[r].updated + EndGrace)
<1>1. p \in DOMAIN relay /\ UNCHANGED <<now, signed>>
  BY DEF Forward
<1>2. CASE gone
  <2>1. HandlerEnds(p)
    BY <1>2 DEF Forward
  <2> QED
    BY <1>1, <2>1, HandlerEndsTypeOK DEF TypeOK, Handlers
<1>3. CASE ~gone
  <2>1. /\ rooms' = [rooms EXCEPT ![r] = [rooms[r] EXCEPT
              !.updated = IF relay[p].auth /\ ~rooms[r].ended THEN now ELSE @,
              !.seen = IF isNew THEN Put(known, k, now) ELSE known]]
        /\ relay' = [x \in DOMAIN relay |->
              IF x \notin targets THEN relay[x]
              ELSE IF Len(relay[x].out) < OutSize
              THEN [relay[x] EXCEPT !.out = Append(@, [packet |-> k, at |-> now])]
              ELSE [relay[x] EXCEPT !.cancelled = TRUE]]
    BY <1>3 DEF Forward
  <2>2. rooms[r] \in RoomRecord /\ now \in Time
    BY <1>3 DEF TypeOK, IsMap
  <2>3. IsMap(rooms[r].seen, Packet, Time)
    <3>1. rooms[r].seen \in Seen
      BY <2>2 DEF RoomRecord, Seen
    <3> QED
      BY <3>1, SeenIsMap
  <2>4. IsMap(known, Packet, Time)
    BY <2>3 DEF Remembered, IsMap, Restrict
  <2>5. (IF isNew THEN Put(known, k, now) ELSE known) \in Seen
    BY <2>2, <2>4, PutMap, SeenIsMap
  <2>6. IsMap(rooms', Room, RoomRecord)
    <3>1. rooms'[r] \in RoomRecord
      BY <1>3, <2>1, <2>2, <2>5 DEF RoomRecord, Seen
    <3>2. /\ DOMAIN rooms' = DOMAIN rooms /\ rooms' = [x \in DOMAIN rooms' |-> rooms'[x]]
          /\ \A x \in DOMAIN rooms : x # r => rooms'[x] = rooms[x]
      BY <2>1
    <3> QED
      BY <3>1, <3>2 DEF TypeOK, IsMap
  <2>7. ASSUME NEW x \in DOMAIN relay PROVE relay'[x] \in RelayRecord
    <3>1. relay[x] \in RelayRecord
      BY DEF TypeOK, IsMap
    <3>2. Append(relay[x].out, [packet |-> k, at |-> now]) \in Seq([packet: Packet, at: Time])
      BY <2>2, <3>1 DEF RelayRecord
    <3>3. [relay[x] EXCEPT !.out = Append(@, [packet |-> k, at |-> now])] \in RelayRecord
      BY <3>1, <3>2 DEF RelayRecord
    <3>4. [relay[x] EXCEPT !.cancelled = TRUE] \in RelayRecord
      BY <3>1 DEF RelayRecord
    <3> QED
      BY <2>1, <3>1, <3>3, <3>4
  <2>8. IsMap(relay', Peer, RelayRecord)
    BY <2>1, <2>7 DEF TypeOK, IsMap
  <2> QED
    BY <1>1, <2>6, <2>8 DEF TypeOK
<1> QED
  BY <1>2, <1>3

\* What the other steps of a handler do to it keeps it a handler.
LEMMA RelayTypeOK == TypeOK /\ Relay => TypeOK'
<1> SUFFICES ASSUME TypeOK, NEW p \in Peer,
       \/ \E r \in Room, a \in BOOLEAN : CheckRelay(p, r, a)
       \/ UpgradeFails(p) \/ JoinRelay(p) \/ Leave(p) \/ Authenticate(p) \/ TimerFires(p)
       \/ \E k \in Packet, b \in BOOLEAN : Forward(p, k, b)
       \/ \E b \in BOOLEAN : WriteOut(p, b)
    PROVE TypeOK'
  BY DEF Relay
<1> DEFINE h == relay[p]
<1>0. /\ IsMap(relay, Peer, RelayRecord) /\ IsMap(rooms, Room, RoomRecord)
      /\ p \in DOMAIN relay => h \in RelayRecord
  BY DEF TypeOK, IsMap
<1>1. ASSUME NEW r \in Room, NEW a \in BOOLEAN, CheckRelay(p, r, a) PROVE TypeOK'
  <2>1. Handler(r, a) \in RelayRecord
    BY DEF Handler, RelayRecord
  <2> QED
    BY <1>0, <1>1, <2>1, PutMap DEF CheckRelay, TypeOK
<1>2. CASE UpgradeFails(p)
  BY <1>0, <1>2, RestrictMap DEF UpgradeFails, TypeOK
<1>3. CASE JoinRelay(p)
  <2> DEFINE r == relay[p].room
  <2>1. p \in DOMAIN relay /\ UNCHANGED <<now, signed>>
    BY <1>3 DEF JoinRelay
  <2>2. CASE MayJoin(r)
    <3>1. /\ rooms' = [rooms EXCEPT ![r] = [rooms[r] EXCEPT !.peers = @ \cup {p}]]
          /\ relay' = [relay EXCEPT ![p] = Joined(h)]
      BY <1>3, <2>2 DEF JoinRelay
    <3>2. Joined(h) \in RelayRecord
      BY <1>0, <2>1 DEF Joined, RelayRecord
    <3>3. r \in DOMAIN rooms /\ rooms[r] \in RoomRecord
      BY <1>0, <2>2 DEF MayJoin, IsMap
    <3>4. [rooms[r] EXCEPT !.peers = @ \cup {p}] \in RoomRecord
      BY <3>3 DEF RoomRecord
    <3>5. IsMap(relay', Peer, RelayRecord)
      <4> DEFINE v == Joined(h)
      <4> HIDE DEF v
      <4> QED
        BY <1>0, <2>1, <3>1, <3>2, UpdateMap DEF v
    <3>6. IsMap(rooms', Room, RoomRecord)
      <4> DEFINE v == [rooms[r] EXCEPT !.peers = @ \cup {p}]
      <4>1. v \in RoomRecord /\ rooms' = [rooms EXCEPT ![r] = v] /\ r \in DOMAIN rooms
        BY <3>1, <3>3, <3>4
      <4> HIDE DEF v
      <4> QED
        BY <1>0, <4>1, UpdateMap
    <3> QED
      BY <2>1, <3>5, <3>6 DEF TypeOK
  <2>3. CASE ~MayJoin(r)
    <3>1. relay' = Restrict(relay, DOMAIN relay \ {p}) /\ UNCHANGED rooms
      BY <1>3, <2>3 DEF JoinRelay
    <3>2. IsMap(relay', Peer, RelayRecord)
      BY <1>0, <3>1, RestrictMap
    <3> QED
      BY <2>1, <3>1, <3>2 DEF TypeOK
  <2> QED
    BY <2>2, <2>3
<1>4. CASE Leave(p)
  BY <1>4, HandlerEndsTypeOK DEF Leave, TypeOK, Handlers
<1>5. CASE Authenticate(p)
  <2>1. relay' = [relay EXCEPT ![p] = [h EXCEPT !.auth = TRUE, !.deadline = FALSE]]
    BY <1>5 DEF Authenticate
  <2>2. [h EXCEPT !.auth = TRUE, !.deadline = FALSE] \in RelayRecord
    BY <1>0, <1>5 DEF Authenticate, RelayRecord
  <2>3. IsMap(relay', Peer, RelayRecord)
    <3> DEFINE v == [h EXCEPT !.auth = TRUE, !.deadline = FALSE]
    <3>1. v \in RelayRecord /\ relay' = [relay EXCEPT ![p] = v] /\ p \in DOMAIN relay
      BY <1>5, <2>1, <2>2 DEF Authenticate
    <3> HIDE DEF v
    <3> QED
      BY <1>0, <3>1, UpdateMap
  <2> QED
    BY <1>5, <2>3 DEF Authenticate, TypeOK
<1>6. CASE TimerFires(p)
  <2>1. relay' = [relay EXCEPT ![p] =
            [h EXCEPT !.cancelled = TRUE, !.deadline = FALSE, !.ending = FALSE]]
    BY <1>6 DEF TimerFires
  <2>2. [h EXCEPT !.cancelled = TRUE, !.deadline = FALSE, !.ending = FALSE] \in RelayRecord
    BY <1>0, <1>6 DEF TimerFires, RelayRecord
  <2>3. IsMap(relay', Peer, RelayRecord)
    <3> DEFINE v == [h EXCEPT !.cancelled = TRUE, !.deadline = FALSE, !.ending = FALSE]
    <3>1. v \in RelayRecord /\ relay' = [relay EXCEPT ![p] = v] /\ p \in DOMAIN relay
      BY <1>6, <2>1, <2>2 DEF TimerFires
    <3> HIDE DEF v
    <3> QED
      BY <1>0, <3>1, UpdateMap
  <2> QED
    BY <1>6, <2>3 DEF TimerFires, TypeOK
<1>7. ASSUME NEW b \in BOOLEAN, WriteOut(p, b) PROVE TypeOK'
  <2> DEFINE c == h.cancelled \/ ~b
  <2>1. relay' = [relay EXCEPT ![p] = [h EXCEPT !.out = Tail(h.out), !.cancelled = c]]
    BY <1>7 DEF WriteOut
  <2>2. p \in DOMAIN relay /\ h.out # <<>>
    BY <1>7 DEF WriteOut
  <2>3. Tail(h.out) \in Seq([packet: Packet, at: Time])
    BY <1>0, <2>2 DEF RelayRecord
  <2>4. c \in BOOLEAN
    OBVIOUS
  <2>5. [h EXCEPT !.out = Tail(h.out), !.cancelled = c] \in RelayRecord
    <3> HIDE DEF c
    <3> QED
      BY <1>0, <2>2, <2>3, <2>4 DEF RelayRecord
  <2>6. IsMap(relay', Peer, RelayRecord)
    <3> DEFINE v == [h EXCEPT !.out = Tail(h.out), !.cancelled = c]
    <3>1. v \in RelayRecord /\ relay' = [relay EXCEPT ![p] = v] /\ p \in DOMAIN relay
      BY <1>7, <2>1, <2>2, <2>5 DEF WriteOut
    <3> HIDE DEF v
    <3> QED
      BY <1>0, <3>1, UpdateMap
  <2> QED
    BY <1>7, <2>6 DEF WriteOut, TypeOK
<1> QED
  BY <1>1, <1>2, <1>3, <1>4, <1>5, <1>6, <1>7, ForwardTypeOK

\* The directory, the creators and the clock keep the types.
LEMMA DirectoryTypeOK == TypeOK /\ Directory => TypeOK'
<1> SUFFICES ASSUME TypeOK, Directory PROVE TypeOK'
  OBVIOUS
<1>1. CASE Tick
  BY <1>1, FusionAssumption DEF Tick, TypeOK, Time
<1>2. CASE Prune
  BY <1>2, PruneTypeOK DEF Prune, TypeOK, Handlers
<1>3. CASE CloseHub
  BY <1>3, CancelMap DEF CloseHub, TypeOK, Handlers
<1>4. ASSUME NEW r \in Room, NEW n \in 0..(MaxTime + Ahead), NEW e \in BOOLEAN, Sign(r, n, e)
      PROVE  TypeOK'
  BY <1>4 DEF Sign, TypeOK, State
<1> QED
  BY <1>1, <1>2, <1>3, <1>4, SyncTypeOK DEF Directory

LEMMA FusionTypeStep == TypeOK /\ [Next]_vars => TypeOK'
<1>1. TypeOK /\ UNCHANGED vars => TypeOK'
  BY DEF TypeOK, vars
<1> QED
  BY <1>1, RelayTypeOK, DirectoryTypeOK DEF Next

\* The directory and the handlers keep their shape.
THEOREM FusionTypeCorrect == Spec => []TypeOK
<1>1. Init => TypeOK
  BY FusionAssumption DEF Init, TypeOK, IsMap, Time
<1> QED
  BY <1>1, FusionTypeStep, PTL DEF Spec

-----------------------------------------------------------------------------
(* Connections *)

\* Handlers that are the same connections at the same rooms, none back from its end.
Alike(R) ==
    /\ DOMAIN R = DOMAIN relay
    /\ \A x \in DOMAIN relay : /\ R[x].pc = relay[x].pc /\ R[x].room = relay[x].room
                               /\ relay[x].cancelled => R[x].cancelled

\* Rooms that have the same peers.
SamePeers(M) ==
    /\ DOMAIN M = DOMAIN rooms
    /\ \A r \in DOMAIN rooms : M[r].peers = rooms[r].peers

\* The fields of the handlers and of the rooms, one by one.
LEMMA Fields ==
  ASSUME TypeOK
  PROVE  /\ \A x \in DOMAIN relay : relay[x] \in RelayRecord /\ relay[x].room \in Room
         /\ \A r \in DOMAIN rooms : /\ rooms[r] \in RoomRecord /\ rooms[r].peers \subseteq Peer
                                    /\ rooms[r].updated \in Int /\ rooms[r].revision \in Int
                                    /\ rooms[r].ended \in BOOLEAN
<1>1. \A x \in DOMAIN relay : relay[x] \in RelayRecord /\ relay[x].room \in Room
  BY DEF TypeOK, IsMap, RelayRecord
<1>2. \A r \in DOMAIN rooms : rooms[r] \in RoomRecord
  BY DEF TypeOK, IsMap
<1>3. ASSUME NEW r \in DOMAIN rooms
      PROVE  /\ rooms[r].peers \subseteq Peer /\ rooms[r].ended \in BOOLEAN
             /\ rooms[r].updated \in Time /\ rooms[r].revision \in 0..(MaxTime + Ahead)
  BY <1>2 DEF RoomRecord
<1> QED
  BY <1>1, <1>2, <1>3, FusionAssumption DEF Time

\* Cancelling and starting timers leave connections alike.
LEMMA CancelAlike ==
  ASSUME TypeOK, NEW P
  PROVE  /\ Alike(Cancel(relay, P))
         /\ \A x \in DOMAIN relay \cap P : Cancel(relay, P)[x].cancelled
<1>1. \A x \in DOMAIN relay : relay[x] \in RelayRecord
  BY Fields
<1>2. ASSUME NEW x \in DOMAIN relay
      PROVE  /\ Cancel(relay, P)[x] = IF x \in P THEN [relay[x] EXCEPT !.cancelled = TRUE] ELSE relay[x]
  BY DEF Cancel
<1>3. DOMAIN Cancel(relay, P) = DOMAIN relay
  BY DEF Cancel
<1> QED
  BY <1>1, <1>2, <1>3 DEF Alike, RelayRecord

LEMMA TimersAlike ==
  ASSUME TypeOK, NEW R, Handlers(R), Alike(R), NEW P
  PROVE  /\ Alike(WithTimers(R, P))
         /\ \A x \in DOMAIN R : WithTimers(R, P)[x].cancelled = R[x].cancelled
<1>1. \A x \in DOMAIN R : R[x] \in RelayRecord
  BY DEF Handlers, IsMap
<1>2. ASSUME NEW x \in DOMAIN R
      PROVE  WithTimers(R, P)[x] = [R[x] EXCEPT !.ending = R[x].ending \/ x \in P]
  BY DEF WithTimers
<1>3. DOMAIN WithTimers(R, P) = DOMAIN R
  BY DEF WithTimers
<1> DEFINE W == WithTimers(R, P)
<1>4. \A x \in DOMAIN R :
         W[x].pc = R[x].pc /\ W[x].room = R[x].room /\ W[x].cancelled = R[x].cancelled
  BY <1>1, <1>2 DEF RelayRecord
<1> HIDE DEF W
<1>5. DOMAIN W = DOMAIN R
  BY <1>3 DEF W
<1>6. Alike(W)
  BY <1>4, <1>5 DEF Alike
<1> QED
  BY <1>4, <1>6 DEF W

\* What the handler of a peer does between joining and leaving.
LEMMA HandlerAlike ==
  ASSUME TypeOK, NEW p \in Peer, Authenticate(p) \/ TimerFires(p) \/ \E b \in BOOLEAN : WriteOut(p, b)
  PROVE  Alike(relay') /\ UNCHANGED rooms
<1>1. p \in DOMAIN relay /\ relay[p] \in RelayRecord
  BY Fields DEF Authenticate, TimerFires, WriteOut
<1>2. CASE Authenticate(p)
  BY <1>1, <1>2 DEF Authenticate, Alike, RelayRecord
<1>3. CASE TimerFires(p)
  BY <1>1, <1>3 DEF TimerFires, Alike, RelayRecord
<1>4. ASSUME NEW b \in BOOLEAN, WriteOut(p, b) PROVE Alike(relay') /\ UNCHANGED rooms
  BY <1>1, <1>4 DEF WriteOut, Alike, RelayRecord
<1> QED
  BY <1>2, <1>3, <1>4

\* A packet ends its handler or leaves the connections and the peers of the rooms
\* alike; the rooms keep their revisions, and an ended one its time.
LEMMA ForwardAlike ==
  ASSUME TypeOK, NEW p \in Peer, NEW k \in Packet, NEW b \in BOOLEAN, Forward(p, k, b)
  PROVE  \/ HandlerEnds(p)
         \/ /\ Alike(relay') /\ SamePeers(rooms')
            /\ \A r \in DOMAIN rooms :
                  /\ rooms'[r].revision = rooms[r].revision /\ rooms'[r].ended = rooms[r].ended
                  /\ rooms'[r].updated \in {rooms[r].updated, now}
                  /\ rooms[r].ended => rooms'[r].updated = rooms[r].updated
<1> DEFINE r       == relay[p].room
           known   == Remembered(r, b)
           isNew   == k \notin DOMAIN known /\ Cardinality(DOMAIN known) < CacheSize
           targets == IF isNew THEN rooms[r].peers \ {p} ELSE {}
           u       == IF relay[p].auth /\ ~rooms[r].ended THEN now ELSE rooms[r].updated
           n       == IF isNew THEN Put(known, k, now) ELSE known
<1>1. CASE r \notin DOMAIN rooms \/ (rooms[r].ended /\ now > rooms[r].updated + EndGrace)
  BY <1>1 DEF Forward
<1>2. CASE ~(r \notin DOMAIN rooms \/ (rooms[r].ended /\ now > rooms[r].updated + EndGrace))
  <2>1. /\ rooms' = [rooms EXCEPT ![r].updated = u, ![r].seen = n]
        /\ relay' = [x \in DOMAIN relay |->
                      IF x \notin targets THEN relay[x]
                      ELSE IF Len(relay[x].out) < OutSize
                      THEN [relay[x] EXCEPT !.out = Append(@, [packet |-> k, at |-> now])]
                      ELSE [relay[x] EXCEPT !.cancelled = TRUE]]
    BY <1>2 DEF Forward
  <2> HIDE DEF targets, n
  <2>2. Alike(relay')
    BY <2>1, Fields DEF Alike, RelayRecord
  <2>3. rooms[r] \in RoomRecord /\ r \in DOMAIN rooms
    BY <1>2, Fields
  <2>4. /\ DOMAIN rooms' = DOMAIN rooms
        /\ \A x \in DOMAIN rooms \ {r} : rooms'[x] = rooms[x]
        /\ rooms'[r] = [rooms[r] EXCEPT !.updated = u, !.seen = n]
    BY <2>1, <2>3 DEF RoomRecord
  <2>5. /\ rooms'[r].updated = u /\ rooms'[r].revision = rooms[r].revision
        /\ rooms'[r].ended = rooms[r].ended /\ rooms'[r].peers = rooms[r].peers
    BY <2>3, <2>4 DEF RoomRecord
  <2> QED
    BY <2>2, <2>3, <2>4, <2>5 DEF SamePeers
<1> QED
  BY <1>1, <1>2

\* RelayMatchesPeers, of any rooms and handlers.
Matches(M, R) ==
    /\ \A r \in DOMAIN M : \A p \in M[r].peers :
          p \in DOMAIN R /\ R[p].pc = "joined" /\ R[p].room = r
    /\ \A p \in DOMAIN R : R[p].pc = "joined" /\ ~R[p].cancelled =>
          R[p].room \in DOMAIN M /\ p \in M[R[p].room].peers

\* Pruning keeps connections and peers together: a peer of an expired room is cancelled.
LEMMA PruneMatches ==
  ASSUME TypeOK, RelayMatchesPeers
  PROVE  Matches(Kept, PrunedRelay) /\ Alike(PrunedRelay) /\ Handlers(PrunedRelay)
<1> DEFINE P == UNION {rooms[r].peers : r \in Expired}
<1>1. Alike(PrunedRelay) /\ \A x \in DOMAIN relay \cap P : PrunedRelay[x].cancelled
  BY CancelAlike DEF PrunedRelay
<1>2. /\ DOMAIN Kept = DOMAIN rooms \ Expired
      /\ \A r \in DOMAIN Kept : Kept[r] = rooms[r]
  BY RestrictMap DEF TypeOK, Kept
<1>3. ASSUME NEW r \in DOMAIN Kept, NEW p \in Kept[r].peers
      PROVE  p \in DOMAIN PrunedRelay /\ PrunedRelay[p].pc = "joined" /\ PrunedRelay[p].room = r
  BY <1>1, <1>2 DEF Alike, RelayMatchesPeers
<1>4. ASSUME NEW p \in DOMAIN PrunedRelay, PrunedRelay[p].pc = "joined", ~PrunedRelay[p].cancelled
      PROVE  PrunedRelay[p].room \in DOMAIN Kept /\ p \in Kept[PrunedRelay[p].room].peers
  <2>1. p \in DOMAIN relay /\ relay[p].pc = "joined" /\ ~relay[p].cancelled
        /\ PrunedRelay[p].room = relay[p].room
    BY <1>1, <1>4 DEF Alike
  <2>2. relay[p].room \in DOMAIN rooms /\ p \in rooms[relay[p].room].peers
    BY <2>1 DEF RelayMatchesPeers
  <2>3. p \notin P
    BY <1>1, <1>4, <2>1
  <2>4. relay[p].room \notin Expired
    BY <2>2, <2>3
  <2> QED
    BY <1>2, <2>1, <2>2, <2>4
<1> QED
  BY <1>1, <1>3, <1>4, PruneTypeOK DEF Matches

\* An upload hands the connections of a room on to its next roster.
LEMMA SyncMatches ==
  ASSUME TypeOK, RelayMatchesPeers, NEW s \in signed, SyncFusion(s)
  PROVE  RelayMatchesPeers'
<1> DEFINE r == s.room
           v == IF r \in DOMAIN Kept THEN Successor(s, Kept[r]) ELSE NewRoom(s)
<1>1. rooms' = Put(Kept, r, v)
  BY DEF SyncFusion
<1>2. v.peers = IF r \in DOMAIN Kept THEN Kept[r].peers ELSE {}
  BY DEF Successor, NewRoom
<1>3. /\ DOMAIN rooms' = DOMAIN Kept \cup {r}
      /\ \A x \in DOMAIN rooms' :
            rooms'[x].peers = IF x \in DOMAIN Kept THEN Kept[x].peers ELSE {}
  <2> HIDE DEF v
  <2> QED
    BY <1>1, <1>2 DEF Put
<1>4. /\ DOMAIN relay' = DOMAIN PrunedRelay
      /\ \A x \in DOMAIN relay' : /\ relay'[x].pc = PrunedRelay[x].pc
                                  /\ relay'[x].room = PrunedRelay[x].room
                                  /\ relay'[x].cancelled = PrunedRelay[x].cancelled
  <2>1. CASE s.ended
    <3>1. relay' = WithTimers(PrunedRelay, rooms'[r].peers)
      BY <2>1 DEF SyncFusion
    <3>2. /\ Alike(relay')
          /\ \A x \in DOMAIN PrunedRelay : relay'[x].cancelled = PrunedRelay[x].cancelled
      BY <3>1, PruneMatches, TimersAlike
    <3> QED
      BY <3>2, PruneMatches DEF Alike
  <2>2. CASE ~s.ended
    BY <2>2 DEF SyncFusion
  <2> QED
    BY <2>1, <2>2
<1> QED
  BY <1>3, <1>4, PruneMatches DEF Matches, RelayMatchesPeers

\* Steps that leave connections and peers alike keep them together.
LEMMA AlikeMatches ==
  ASSUME RelayMatchesPeers, Alike(relay'), SamePeers(rooms')
  PROVE  RelayMatchesPeers'
BY DEF RelayMatchesPeers, Alike, SamePeers

\* So does the end of a handler.
LEMMA EndMatches ==
  ASSUME TypeOK, RelayMatchesPeers, NEW p \in DOMAIN relay, HandlerEnds(p)
  PROVE  RelayMatchesPeers'
<1>1. /\ DOMAIN relay' = DOMAIN relay \ {p}
      /\ \A x \in DOMAIN relay' : relay'[x] = relay[x]
  BY DEF HandlerEnds, Restrict
<1>2. /\ DOMAIN rooms' = DOMAIN rooms
      /\ \A r \in DOMAIN rooms :
            rooms'[r].peers = IF r = relay[p].room THEN rooms[r].peers \ {p} ELSE rooms[r].peers
  <2>1. \A r \in DOMAIN rooms : rooms[r] \in RoomRecord
    BY Fields
  <2> QED
    BY <2>1 DEF HandlerEnds, RoomRecord
<1>3. ASSUME NEW r \in DOMAIN rooms', NEW x \in rooms'[r].peers
      PROVE  x \in DOMAIN relay' /\ relay'[x].pc = "joined" /\ relay'[x].room = r
  <2>1. r \in DOMAIN rooms /\ x \in rooms[r].peers /\ (r = relay[p].room => x # p)
    BY <1>2
  <2>2. x \in DOMAIN relay /\ relay[x].pc = "joined" /\ relay[x].room = r
    BY <2>1 DEF RelayMatchesPeers
  <2>3. x # p
    BY <2>1, <2>2
  <2> QED
    BY <1>1, <2>2, <2>3
<1>4. ASSUME NEW x \in DOMAIN relay', relay'[x].pc = "joined", ~relay'[x].cancelled
      PROVE  relay'[x].room \in DOMAIN rooms' /\ x \in rooms'[relay'[x].room].peers
  <2>1. x \in DOMAIN relay /\ x # p /\ relay'[x] = relay[x]
    BY <1>1
  <2>2. relay[x].room \in DOMAIN rooms /\ x \in rooms[relay[x].room].peers
    BY <1>4, <2>1 DEF RelayMatchesPeers
  <2> QED
    BY <1>2, <2>1, <2>2
<1> QED
  BY <1>3, <1>4 DEF RelayMatchesPeers

\* A handler becomes a peer of its room in the step in which it joins, or ends.
LEMMA JoinMatches ==
  ASSUME TypeOK, RelayMatchesPeers, NEW p \in Peer, JoinRelay(p)
  PROVE  RelayMatchesPeers'
<1> DEFINE r == relay[p].room
<1>1. p \in DOMAIN relay /\ relay[p] \in RelayRecord /\ relay[p].pc = "checked"
  BY Fields DEF JoinRelay
<1>2. CASE MayJoin(r)
  <2>1. r \in DOMAIN rooms /\ rooms[r] \in RoomRecord
    BY <1>2, Fields DEF MayJoin
  <2>2. /\ DOMAIN rooms' = DOMAIN rooms
        /\ \A x \in DOMAIN rooms :
              rooms'[x].peers = IF x = r THEN rooms[r].peers \cup {p} ELSE rooms[x].peers
    BY <1>2, <2>1 DEF JoinRelay, RoomRecord
  <2>3. /\ DOMAIN relay' = DOMAIN relay
        /\ relay'[p].pc = "joined" /\ relay'[p].room = r
        /\ \A x \in DOMAIN relay \ {p} : relay'[x] = relay[x]
    BY <1>1, <1>2 DEF JoinRelay, Joined, RelayRecord
  <2> QED
    BY <1>1, <2>1, <2>2, <2>3 DEF RelayMatchesPeers
<1>3. CASE ~MayJoin(r)
  <2>1. /\ DOMAIN relay' = DOMAIN relay \ {p}
        /\ \A x \in DOMAIN relay' : relay'[x] = relay[x]
        /\ UNCHANGED rooms
    BY <1>3 DEF JoinRelay, Restrict
  <2> QED
    BY <1>1, <2>1 DEF RelayMatchesPeers
<1> QED
  BY <1>2, <1>3

\* A handler that is not a peer yet comes and goes without a trace.
LEMMA ArriveMatches ==
  ASSUME TypeOK, RelayMatchesPeers, NEW p \in Peer,
         UpgradeFails(p) \/ \E r \in Room, a \in BOOLEAN : CheckRelay(p, r, a)
  PROVE  RelayMatchesPeers'
<1>1. CASE UpgradeFails(p)
  <2>1. /\ DOMAIN relay' = DOMAIN relay \ {p}
        /\ \A x \in DOMAIN relay' : relay'[x] = relay[x]
        /\ relay[p].pc = "checked" /\ UNCHANGED rooms
    BY <1>1 DEF UpgradeFails, Restrict
  <2> QED
    BY <2>1 DEF RelayMatchesPeers
<1>2. ASSUME NEW r \in Room, NEW a \in BOOLEAN, CheckRelay(p, r, a) PROVE RelayMatchesPeers'
  <2>1. /\ p \notin DOMAIN relay /\ UNCHANGED rooms
        /\ DOMAIN relay' = DOMAIN relay \cup {p}
        /\ relay'[p].pc = "checked"
        /\ \A x \in DOMAIN relay : relay'[x] = relay[x]
    BY <1>2 DEF CheckRelay, Put, Handler
  <2> QED
    BY <2>1 DEF RelayMatchesPeers
<1> QED
  BY <1>1, <1>2

\* No upload, pruning or re-creation of a room loses a connection or leaves one behind.
THEOREM RelayStaysMatched == Spec => []RelayMatchesPeers
<1>1. Init => RelayMatchesPeers
  BY DEF Init, RelayMatchesPeers
<1>2. TypeOK /\ RelayMatchesPeers /\ [Next]_vars => RelayMatchesPeers'
  <2> SUFFICES ASSUME TypeOK, RelayMatchesPeers, [Next]_vars PROVE RelayMatchesPeers'
    OBVIOUS
  <2>1. CASE UNCHANGED vars \/ Tick \/ \E r \in Room, n \in 0..(MaxTime + Ahead), e \in BOOLEAN : Sign(r, n, e)
    <3>1. UNCHANGED <<rooms, relay>>
      BY <2>1 DEF vars, Tick, Sign
    <3> QED
      BY <3>1 DEF RelayMatchesPeers
  <2>2. CASE Prune
    BY <2>2, PruneMatches DEF Prune, Matches, RelayMatchesPeers
  <2>3. CASE CloseHub
    BY <2>3, CancelAlike, AlikeMatches DEF CloseHub, SamePeers
  <2>4. CASE \E s \in signed : SyncFusion(s)
    BY <2>4, SyncMatches
  <2>5. ASSUME NEW p \in Peer, UpgradeFails(p) \/ \E r \in Room, a \in BOOLEAN : CheckRelay(p, r, a)
        PROVE  RelayMatchesPeers'
    BY <2>5, ArriveMatches
  <2>6. ASSUME NEW p \in Peer, JoinRelay(p) PROVE RelayMatchesPeers'
    BY <2>6, JoinMatches
  <2>7. ASSUME NEW p \in Peer, Leave(p) PROVE RelayMatchesPeers'
    BY <2>7, EndMatches DEF Leave
  <2>8. ASSUME NEW p \in Peer, Authenticate(p) \/ TimerFires(p) \/ \E b \in BOOLEAN : WriteOut(p, b)
        PROVE  RelayMatchesPeers'
    BY <2>8, HandlerAlike, AlikeMatches DEF SamePeers
  <2>9. ASSUME NEW p \in Peer, NEW k \in Packet, NEW b \in BOOLEAN, Forward(p, k, b)
        PROVE  RelayMatchesPeers'
    <3>1. p \in DOMAIN relay
      BY <2>9 DEF Forward
    <3> QED
      BY <2>9, <3>1, ForwardAlike, EndMatches, AlikeMatches
  <2> QED
    BY <2>1, <2>2, <2>3, <2>4, <2>5, <2>6, <2>7, <2>8, <2>9 DEF Next, Directory, Relay
<1> QED
  BY <1>1, <1>2, FusionTypeCorrect, PTL DEF Spec

-----------------------------------------------------------------------------
(* What happens to a room *)

\* The rooms after a step that is not a join: some may be gone, one may be new and
\* without peers, and no room that was there before has more peers.
LEMMA PeersOnlyJoin ==
  ASSUME TypeOK, [Next]_vars, ~\E p \in Peer : JoinRelay(p)
  PROVE  \A r \in DOMAIN rooms' :
            IF r \in DOMAIN rooms THEN rooms'[r].peers \subseteq rooms[r].peers
                                  ELSE rooms'[r].peers = {}
<1>0. /\ DOMAIN Kept \subseteq DOMAIN rooms
      /\ \A r \in DOMAIN Kept : Kept[r] = rooms[r]
  <2>1. IsMap(rooms, Room, RoomRecord)
    BY DEF TypeOK
  <2>2. /\ DOMAIN Restrict(rooms, DOMAIN rooms \ Expired) = DOMAIN rooms \ Expired
        /\ \A k \in DOMAIN rooms \ Expired : Restrict(rooms, DOMAIN rooms \ Expired)[k] = rooms[k]
    BY ONLY <2>1, RestrictMap
  <2> QED
    BY ONLY <2>2 DEF Kept
<1>1. CASE UNCHANGED rooms
  BY <1>1
<1>2. CASE Prune
  BY <1>0, <1>2 DEF Prune
<1>3. ASSUME NEW s \in signed, SyncFusion(s)
      PROVE  \A r \in DOMAIN rooms' :
                IF r \in DOMAIN rooms THEN rooms'[r].peers \subseteq rooms[r].peers
                                      ELSE rooms'[r].peers = {}
  <2> DEFINE v == IF s.room \in DOMAIN Kept THEN Successor(s, Kept[s.room]) ELSE NewRoom(s)
  <2>1. rooms' = Put(Kept, s.room, v)
    BY <1>3 DEF SyncFusion
  <2>2. v.peers = IF s.room \in DOMAIN Kept THEN Kept[s.room].peers ELSE {}
    BY DEF Successor, NewRoom
  <2> HIDE DEF v
  <2> QED
    BY <1>0, <2>1, <2>2 DEF Put
<1>4. ASSUME NEW p \in Peer, HandlerEnds(p)
      PROVE  \A r \in DOMAIN rooms' : r \in DOMAIN rooms /\ rooms'[r].peers \subseteq rooms[r].peers
  BY <1>4, Fields DEF HandlerEnds, RoomRecord
<1>5. ASSUME NEW p \in Peer, NEW k \in Packet, NEW b \in BOOLEAN, Forward(p, k, b)
      PROVE  \A r \in DOMAIN rooms' : r \in DOMAIN rooms /\ rooms'[r].peers \subseteq rooms[r].peers
  BY <1>4, <1>5, ForwardAlike DEF SamePeers
<1>6. UNCHANGED rooms \/ Prune \/ (\E s \in signed : SyncFusion(s))
      \/ (\E p \in Peer : HandlerEnds(p)) \/ \E p \in Peer, k \in Packet, b \in BOOLEAN : Forward(p, k, b)
  <2>1. CASE UNCHANGED vars \/ Directory
    BY <2>1 DEF vars, Directory, Tick, CloseHub, Sign
  <2>2. ASSUME NEW p \in Peer,
               \/ \E r \in Room, a \in BOOLEAN : CheckRelay(p, r, a)
               \/ UpgradeFails(p) \/ Authenticate(p) \/ TimerFires(p)
               \/ \E b \in BOOLEAN : WriteOut(p, b)
        PROVE  UNCHANGED rooms
    BY <2>2 DEF CheckRelay, UpgradeFails, Authenticate, TimerFires, WriteOut
  <2>3. ASSUME NEW p \in Peer, Leave(p) PROVE HandlerEnds(p)
    BY <2>3 DEF Leave
  <2> QED
    BY <2>1, <2>2, <2>3 DEF Next, Relay
<1> QED
  BY <1>1, <1>2, <1>3, <1>4, <1>5, <1>6

\* Whatever the upgrades of others do between the two looks of a handler, no room has
\* more connections than the limit.
THEOREM RelayStaysWithinLimit == Spec => []RelayWithinLimit
<1>1. Init => RelayWithinLimit
  BY DEF Init, RelayWithinLimit
<1>2. TypeOK /\ RelayWithinLimit /\ [Next]_vars => RelayWithinLimit'
  <2> SUFFICES ASSUME TypeOK, RelayWithinLimit, [Next]_vars, NEW r \in DOMAIN rooms'
               PROVE  Cardinality(rooms'[r].peers) <= MaxPeers
    BY DEF RelayWithinLimit
  <2>1. \A x \in DOMAIN rooms : /\ IsFiniteSet(rooms[x].peers)
                                /\ Cardinality(rooms[x].peers) \in Nat
                                /\ Cardinality(rooms[x].peers) <= MaxPeers
    BY Fields, FusionAssumption, FS_Subset, FS_CardinalityType DEF RelayWithinLimit
  <2>2. CASE ~\E p \in Peer : JoinRelay(p)
    <3>1. CASE r \in DOMAIN rooms
      <4>1. rooms'[r].peers \subseteq rooms[r].peers
        BY <2>2, <3>1, PeersOnlyJoin
      <4>2. /\ Cardinality(rooms'[r].peers) \in Nat
            /\ Cardinality(rooms'[r].peers) <= Cardinality(rooms[r].peers)
        BY <2>1, <3>1, <4>1, FS_Subset, FS_CardinalityType
      <4> QED
        BY <2>1, <3>1, <4>2, FusionAssumption
    <3>2. CASE r \notin DOMAIN rooms
      <4>1. rooms'[r].peers = {}
        BY <2>2, <3>2, PeersOnlyJoin
      <4> QED
        BY <4>1, FS_EmptySet, FusionAssumption
    <3> QED
      BY <3>1, <3>2
  <2>3. ASSUME NEW p \in Peer, JoinRelay(p) PROVE Cardinality(rooms'[r].peers) <= MaxPeers
    <3> DEFINE x == relay[p].room
    <3>1. CASE MayJoin(x)
      <4>1. x \in DOMAIN rooms /\ rooms[x] \in RoomRecord /\ Cardinality(rooms[x].peers) < MaxPeers
        BY <3>1, Fields DEF MayJoin
      <4>2. /\ DOMAIN rooms' = DOMAIN rooms
            /\ rooms'[r].peers = IF r = x THEN rooms[x].peers \cup {p} ELSE rooms[r].peers
        BY <2>3, <3>1, <4>1 DEF JoinRelay, RoomRecord
      <4>3. Cardinality(rooms[x].peers \cup {p}) <= MaxPeers
        <5> DEFINE P == rooms[x].peers
        <5>1. /\ IsFiniteSet(P) /\ Cardinality(P) \in Nat
              /\ Cardinality(P) < MaxPeers /\ MaxPeers \in Nat
          BY <2>1, <4>1, FusionAssumption
        <5> HIDE DEF P
        <5>2. \/ Cardinality(P \cup {p}) = Cardinality(P)
              \/ Cardinality(P \cup {p}) = Cardinality(P) + 1
          BY <5>1, FS_AddElement
        <5>3. Cardinality(P \cup {p}) <= MaxPeers
          BY <5>1, <5>2
        <5> QED
          BY <5>3 DEF P
      <4> QED
        BY <2>1, <4>2, <4>3
    <3>2. CASE ~MayJoin(x)
      BY <2>1, <2>3, <3>2 DEF JoinRelay
    <3> QED
      BY <3>1, <3>2
  <2> QED
    BY <2>2, <2>3
<1> QED
  BY <1>1, <1>2, FusionTypeCorrect, PTL DEF Spec

\* What a step makes of the record of a room: the record stays, with a packet perhaps;
\* it expires; there is none; or a timely state is uploaded.
Stays(r) ==
    /\ r \in DOMAIN rooms /\ r \in DOMAIN rooms'
    /\ rooms'[r].revision = rooms[r].revision /\ rooms'[r].ended = rooms[r].ended
    /\ rooms'[r].updated \in {rooms[r].updated, now}
    /\ rooms[r].ended => rooms'[r].updated = rooms[r].updated
Goes(r)   == r \in Expired /\ r \notin DOMAIN rooms'
Absent(r) == r \notin DOMAIN rooms /\ r \notin DOMAIN rooms'
Uploaded(r, s) ==
    /\ s.room = r /\ IsTimely(s)
    /\ r \in DOMAIN rooms'
    /\ rooms'[r].revision = s.revision /\ rooms'[r].updated = now
    /\ r \in DOMAIN rooms \ Expired => ~rooms[r].ended /\ s.revision >= rooms[r].revision

LEMMA RoomStep ==
  ASSUME TypeOK, [Next]_vars, NEW r
  PROVE  \/ now' >= now /\ (Stays(r) \/ Absent(r))
         \/ now' = now /\ (Goes(r) \/ \E s \in signed : Uploaded(r, s))
<1>0. /\ DOMAIN Kept = DOMAIN rooms \ Expired
      /\ \A x \in DOMAIN Kept : Kept[x] = rooms[x]
  BY RestrictMap DEF TypeOK, Kept
<1>1. CASE UNCHANGED rooms /\ now' >= now
  BY <1>1 DEF Stays, Absent
<1>2. CASE Prune
  BY <1>0, <1>2 DEF Prune, Stays, Absent, Goes, TypeOK, Time
<1>3. ASSUME NEW s \in signed, SyncFusion(s)
      PROVE  now' = now /\ (Stays(r) \/ Absent(r) \/ Goes(r) \/ Uploaded(r, s))
  <2> DEFINE v == IF s.room \in DOMAIN Kept THEN Successor(s, Kept[s.room]) ELSE NewRoom(s)
  <2>1. rooms' = Put(Kept, s.room, v) /\ IsTimely(s) /\ now' = now
    BY <1>3 DEF SyncFusion
  <2>2. v.revision = s.revision /\ v.updated = now
    BY DEF Successor, NewRoom
  <2>3. s.room \in DOMAIN Kept =>
            ~rooms[s.room].ended /\ s.revision >= rooms[s.room].revision
    BY <1>0, <1>3, Fields DEF SyncFusion, Supersedes, TypeOK, State
  <2> HIDE DEF v
  <2>4. CASE r = s.room
    BY <1>0, <2>1, <2>2, <2>3, <2>4 DEF Put, Uploaded
  <2>5. CASE r # s.room
    BY <1>0, <2>1, <2>5 DEF Put, Stays, Absent, Goes
  <2> QED
    BY <2>4, <2>5
<1>4. ASSUME NEW p \in Peer, HandlerEnds(p)
      PROVE  Stays(r) \/ Absent(r)
  BY <1>4, Fields DEF HandlerEnds, RoomRecord, Stays, Absent
<1>5. ASSUME NEW p \in Peer, NEW k \in Packet, NEW b \in BOOLEAN, Forward(p, k, b)
      PROVE  Stays(r) \/ Absent(r)
  BY <1>4, <1>5, ForwardAlike DEF SamePeers, Stays, Absent
<1>6. ASSUME NEW p \in Peer, JoinRelay(p)
      PROVE  Stays(r) \/ Absent(r)
  <2>1. CASE MayJoin(relay[p].room)
    BY <1>6, <2>1, Fields DEF JoinRelay, MayJoin, RoomRecord, Stays, Absent
  <2>2. CASE ~MayJoin(relay[p].room)
    BY <1>6, <2>2 DEF JoinRelay, Stays, Absent
  <2> QED
    BY <2>1, <2>2
<1>7. now \in Int
  BY FusionAssumption DEF TypeOK, Time
<1>8. \/ UNCHANGED rooms /\ (now' = now \/ now' = now + 1)
      \/ Prune \/ \E s \in signed : SyncFusion(s)
      \/ \E p \in Peer : UNCHANGED now /\ (HandlerEnds(p) \/ JoinRelay(p))
      \/ \E p \in Peer, k \in Packet, b \in BOOLEAN : UNCHANGED now /\ Forward(p, k, b)
  <2>1. CASE UNCHANGED vars
    BY <2>1 DEF vars
  <2>2. CASE Directory
    BY <2>2 DEF Directory, Tick, CloseHub, Sign
  <2>3. ASSUME NEW p \in Peer,
               \/ \E x \in Room, a \in BOOLEAN : CheckRelay(p, x, a)
               \/ UpgradeFails(p) \/ Authenticate(p) \/ TimerFires(p)
               \/ \E b \in BOOLEAN : WriteOut(p, b)
        PROVE  UNCHANGED rooms /\ now' = now
    BY <2>3 DEF CheckRelay, UpgradeFails, Authenticate, TimerFires, WriteOut
  <2>4. ASSUME NEW p \in Peer, Leave(p) \/ JoinRelay(p)
        PROVE  UNCHANGED now /\ (HandlerEnds(p) \/ JoinRelay(p))
    BY <2>4 DEF Leave, JoinRelay
  <2>5. ASSUME NEW p \in Peer, NEW k \in Packet, NEW b \in BOOLEAN, Forward(p, k, b)
        PROVE  UNCHANGED now
    BY <2>5 DEF Forward
  <2> QED
    BY <2>1, <2>2, <2>3, <2>4, <2>5 DEF Next, Relay
<1> QED
  BY <1>1, <1>2, <1>3, <1>4, <1>5, <1>6, <1>7, <1>8

\* The record of a room that has ended outlives every step until its retention is over.
THEOREM TombstonesHold == Spec => TombstoneHolds
<1>1. TypeOK /\ [Next]_vars =>
        [\A r \in DOMAIN rooms :
            rooms[r].ended /\ now <= rooms[r].updated + Retention =>
                r \in DOMAIN rooms' /\ rooms'[r].ended /\ rooms'[r].updated = rooms[r].updated]_vars
  <2> SUFFICES ASSUME TypeOK, [Next]_vars, NEW r \in DOMAIN rooms,
                      rooms[r].ended, now <= rooms[r].updated + Retention
               PROVE  r \in DOMAIN rooms' /\ rooms'[r].ended /\ rooms'[r].updated = rooms[r].updated
    OBVIOUS
  <2>1. r \notin Expired
    BY Fields, FusionAssumption DEF Expired, TypeOK, Time
  <2> QED
    BY <2>1, RoomStep DEF Stays, Absent, Goes, Uploaded
<1> QED
  BY <1>1, FusionTypeCorrect, PTL DEF Spec, TombstoneHolds

-----------------------------------------------------------------------------
(* Revisions *)

\* No roster is dated further ahead than the hub allowed when it last heard of the room.
Dated == \A r \in DOMAIN rooms : /\ rooms[r].updated <= now
                                 /\ rooms[r].revision <= rooms[r].updated + Ahead

\* A room has the revision n behind it: its record is that new, or n is too old to be
\* uploaded.  A record expires no sooner than that, since Fresh + Ahead <= Retention.
Past(r, n) == IF r \in DOMAIN rooms THEN rooms[r].revision >= n ELSE now > n + Fresh

LEMMA Numbers ==
  ASSUME TypeOK
  PROVE  /\ now \in Int /\ Fresh \in Int /\ Ahead \in Int /\ Retention \in Int
         /\ Fresh + Ahead <= Retention
         /\ \A s \in signed : s.revision \in Int
         /\ 0..(MaxTime + Ahead) \subseteq Int
BY FusionAssumption DEF TypeOK, Time, State

LEMMA NextNow == ASSUME TypeOK, [Next]_vars PROVE now' \in Int
<1>1. now' \in Time
  BY FusionTypeStep DEF TypeOK
<1> QED
  BY <1>1, FusionAssumption DEF Time

LEMMA DatedStep == TypeOK /\ Dated /\ [Next]_vars => Dated'
<1> SUFFICES ASSUME TypeOK, Dated, [Next]_vars, NEW r \in DOMAIN rooms'
             PROVE  /\ rooms'[r].updated <= now'
                    /\ rooms'[r].revision <= rooms'[r].updated + Ahead
  BY DEF Dated
<1>1. CASE now' >= now /\ Stays(r)
  <2>1. /\ r \in DOMAIN rooms /\ rooms'[r].revision = rooms[r].revision
        /\ rooms'[r].updated = rooms[r].updated \/ rooms'[r].updated = now
    BY <1>1 DEF Stays
  <2>2. /\ rooms[r].updated \in Int /\ rooms[r].revision \in Int
        /\ rooms[r].updated <= now /\ rooms[r].revision <= rooms[r].updated + Ahead
    BY <2>1, Fields DEF Dated
  <2> QED
    BY <1>1, <2>1, <2>2, Numbers, NextNow
<1>2. ASSUME NEW s \in signed, Uploaded(r, s), now' = now
      PROVE  /\ rooms'[r].updated <= now'
             /\ rooms'[r].revision <= rooms'[r].updated + Ahead
  BY <1>2, Numbers DEF Uploaded, IsTimely
<1> QED
  BY <1>1, <1>2, RoomStep DEF Absent, Goes

LEMMA PastStep ==
  ASSUME NEW r \in Room, NEW n \in 0..(MaxTime + Ahead), TypeOK, Dated, Past(r, n), [Next]_vars
  PROVE  Past(r, n)'
<1>1. CASE now' >= now /\ (Stays(r) \/ Absent(r))
  <2>1. CASE Stays(r)
    BY <2>1 DEF Stays, Past
  <2>2. CASE Absent(r)
    BY <1>1, <2>2, Numbers, NextNow DEF Absent, Past
  <2> QED
    BY <1>1, <2>1, <2>2
<1>2. r \in Expired => now > n + Fresh
  BY Fields, Numbers DEF Expired, Dated, Past
<1>3. CASE now' = now /\ Goes(r)
  BY <1>2, <1>3 DEF Goes, Past
<1>4. ASSUME NEW s \in signed, Uploaded(r, s) PROVE Past(r, n)'
  <2>1. CASE r \in DOMAIN rooms \ Expired
    BY <1>4, <2>1, Fields, Numbers DEF Uploaded, Past
  <2>2. CASE r \notin DOMAIN rooms \ Expired
    <3>1. now > n + Fresh
      BY <1>2, <2>2 DEF Past
    <3> QED
      BY <1>4, <3>1, Numbers DEF Uploaded, IsTimely, Past
  <2> QED
    BY <2>1, <2>2
<1> QED
  BY <1>1, <1>3, <1>4, RoomStep

\* Nobody can bring back an older roster, neither while the hub has the room nor after
\* it forgot the room: what it forgot is too old to be uploaded again.
THEOREM RevisionsOnlyGrow == Spec => RevisionsGrow
<1> SUFFICES ASSUME NEW r \in Room, NEW n \in 0..(MaxTime + Ahead)
             PROVE  Spec => [](r \in DOMAIN rooms /\ rooms[r].revision = n
                                 => [](r \in DOMAIN rooms => rooms[r].revision >= n))
  BY DEF RevisionsGrow
<1>1. Init => Dated
  BY DEF Init, Dated
<1>2. r \in DOMAIN rooms /\ rooms[r].revision = n => Past(r, n)
  BY Numbers, FusionAssumption DEF Past
<1>3. TypeOK /\ Dated /\ Past(r, n) /\ [Next]_vars => Past(r, n)'
  BY PastStep
<1>4. Past(r, n) => (r \in DOMAIN rooms => rooms[r].revision >= n)
  BY DEF Past
<1> QED
  BY <1>1, <1>2, <1>3, <1>4, DatedStep, FusionTypeCorrect, PTL DEF Spec

-----------------------------------------------------------------------------
(* Packets *)

\* An entry of a queue is in a table of seen packets, or too old at t to matter.
Known(t, S, e) == /\ e.at <= t
                  /\ t > e.at + SeenFor \/ (e.packet \in DOMAIN S /\ S[e.packet] >= e.at)

\* What is queued for a peer is known to its room: this is what keeps the next copy out.
Traced ==
    /\ \A x \in DOMAIN relay : relay[x].pc = "checked" => relay[x].out = <<>>
    /\ \A r \in DOMAIN rooms : \A x \in rooms[r].peers : \A i \in DOMAIN relay[x].out :
          Known(now, rooms[r].seen, relay[x].out[i])

\* No entry of a queue repeats an earlier one too early.
NoRepeat(q) ==
    \A i, j \in DOMAIN q : i < j /\ q[i].packet = q[j].packet => q[j].at > q[i].at + SeenFor

\* A queue that is the same, or one shorter.
Drained(q, o) == q = o \/ (o # <<>> /\ q = Tail(o))

Entry == [packet: Packet, at: Time]

LEMMA DrainedQueue ==
  ASSUME NEW o \in Seq(Entry), NEW q, Drained(q, o)
  PROVE  /\ \A i \in DOMAIN q : \E j \in DOMAIN o : q[i] = o[j]
         /\ NoRepeat(o) => NoRepeat(q)
<1>1. CASE q = o
  BY <1>1
<1>2. CASE o # <<>> /\ q = Tail(o)
  <2>1. /\ DOMAIN q = 1..(Len(o) - 1) /\ DOMAIN o = 1..Len(o) /\ Len(o) \in Nat
        /\ \A i \in DOMAIN q : q[i] = o[i + 1]
    BY <1>2
  <2>2. \A i \in DOMAIN q : i + 1 \in DOMAIN o
    BY ONLY <2>1
  <2>3. NoRepeat(o) => NoRepeat(q)
    <3> SUFFICES ASSUME NoRepeat(o), NEW i \in DOMAIN q, NEW j \in DOMAIN q, i < j,
                        q[i].packet = q[j].packet
                 PROVE  q[j].at > q[i].at + SeenFor
      BY DEF NoRepeat
    <3>1. i + 1 < j + 1
      BY ONLY <2>1, i \in DOMAIN q, j \in DOMAIN q, i < j
    <3> QED
      BY <2>1, <2>2, <3>1 DEF NoRepeat
  <2> QED
    BY <2>1, <2>2, <2>3
<1> QED
  BY <1>1, <1>2 DEF Drained

\* The queues of the handlers, of cancelled ones and of ones with a timer too.
LEMMA Queues ==
  ASSUME TypeOK
  PROVE  \A x \in DOMAIN relay : relay[x].out \in Seq(Entry)
BY Fields DEF RelayRecord, Entry

LEMMA SameQueues ==
  ASSUME NEW R, Handlers(R), NEW P
  PROVE  /\ DOMAIN Cancel(R, P) = DOMAIN R /\ DOMAIN WithTimers(R, P) = DOMAIN R
         /\ \A x \in DOMAIN R : /\ Cancel(R, P)[x].out = R[x].out /\ Cancel(R, P)[x].pc = R[x].pc
                                /\ WithTimers(R, P)[x].out = R[x].out
                                /\ WithTimers(R, P)[x].pc = R[x].pc
<1>1. \A x \in DOMAIN R : R[x] \in RelayRecord
  BY DEF Handlers, IsMap
<1>2. DOMAIN Cancel(R, P) = DOMAIN R /\ DOMAIN WithTimers(R, P) = DOMAIN R
  BY DEF Cancel, WithTimers
<1>3. ASSUME NEW x \in DOMAIN R
      PROVE  Cancel(R, P)[x].out = R[x].out /\ Cancel(R, P)[x].pc = R[x].pc
  BY <1>1 DEF Cancel, RelayRecord
<1>4. ASSUME NEW x \in DOMAIN R
      PROVE  WithTimers(R, P)[x].out = R[x].out /\ WithTimers(R, P)[x].pc = R[x].pc
  BY <1>1 DEF WithTimers, RelayRecord
<1> QED
  BY <1>2, <1>3, <1>4

\* A step that leaves queues alone or takes from them: no handler gets a packet, and
\* the peers of a room have the table of seen packets they had.
Calm ==
    /\ now' >= now
    /\ \A x \in DOMAIN relay' :
          \/ relay'[x].pc = "checked" /\ relay'[x].out = <<>>
          \/ /\ x \in DOMAIN relay /\ Drained(relay'[x].out, relay[x].out)
             /\ relay'[x].pc = "checked" => relay[x].pc = "checked"
    /\ \A r \in DOMAIN rooms' : \A x \in rooms'[r].peers :
          \/ /\ r \in DOMAIN rooms /\ x \in rooms[r].peers
             /\ rooms'[r].seen = rooms[r].seen
          \/ x \in DOMAIN relay /\ relay[x].pc = "checked"

LEMMA CalmTraced ==
  ASSUME TypeOK, RelayMatchesPeers, RelayMatchesPeers', Traced, NoEarlyRepeat, Calm, now' \in Int
  PROVE  Traced' /\ NoEarlyRepeat'
<1>1. ASSUME NEW x \in DOMAIN relay' PROVE NoRepeat(relay'[x].out)
  <2>1. CASE relay'[x].out = <<>>
    BY <2>1 DEF NoRepeat
  <2>2. CASE x \in DOMAIN relay /\ Drained(relay'[x].out, relay[x].out)
    BY <2>2, Queues, DrainedQueue DEF NoEarlyRepeat, NoRepeat
  <2> QED
    BY <2>1, <2>2 DEF Calm
<1>2. ASSUME NEW x \in DOMAIN relay', relay'[x].pc = "checked" PROVE relay'[x].out = <<>>
  <2>1. CASE x \in DOMAIN relay /\ relay[x].pc = "checked" /\ Drained(relay'[x].out, relay[x].out)
    BY <2>1 DEF Traced, Drained
  <2> QED
    BY <1>2, <2>1 DEF Calm
<1>3. ASSUME NEW r \in DOMAIN rooms', NEW x \in rooms'[r].peers, NEW i \in DOMAIN relay'[x].out
      PROVE  Known(now', rooms'[r].seen, relay'[x].out[i])
  <2>1. x \in DOMAIN relay' /\ relay'[x].pc = "joined" /\ x \in DOMAIN relay
        /\ Drained(relay'[x].out, relay[x].out)
    BY <1>3 DEF RelayMatchesPeers, Calm
  <2>2. PICK j \in DOMAIN relay[x].out : relay'[x].out[i] = relay[x].out[j]
    BY <2>1, Queues, DrainedQueue
  <2>3. relay[x].pc # "checked"
    BY <2>1, <2>2 DEF Traced
  <2>4. r \in DOMAIN rooms /\ x \in rooms[r].peers /\ rooms'[r].seen = rooms[r].seen
    BY <1>3, <2>3 DEF Calm
  <2>5. Known(now, rooms[r].seen, relay[x].out[j])
    BY <2>2, <2>4 DEF Traced
  <2>6. relay[x].out[j].at \in Int
    <3>1. relay[x].out[j] \in Entry
      BY <2>1, Queues
    <3> QED
      BY <3>1, FusionAssumption DEF Entry, Time
  <2>7. now' >= now /\ now \in Int /\ SeenFor \in Int
    BY Numbers, FusionAssumption DEF Calm
  <2> QED
    BY <2>2, <2>4, <2>5, <2>6, <2>7 DEF Known
<1>4. Traced'
  BY <1>2, <1>3 DEF Traced
<1>5. NoEarlyRepeat'
  BY <1>1 DEF NoEarlyRepeat, NoRepeat
<1> QED
  BY <1>4, <1>5

\* Pruning the table of seen packets forgets no packet too early, and adding one none.
LEMMA RememberedKnown ==
  ASSUME TypeOK, NEW r \in DOMAIN rooms, NEW b \in BOOLEAN, NEW k,
         NEW e \in Entry, Known(now, rooms[r].seen, e)
  PROVE  /\ Known(now, Remembered(r, b), e)
         /\ Known(now, Put(Remembered(r, b), k, now), e)
<1> DEFINE S == rooms[r].seen
           M == Remembered(r, b)
<1>1. e.at \in Int /\ now \in Int /\ SeenFor \in Int
  BY Numbers, FusionAssumption DEF Entry, Time
<1>2. IsMap(S, Packet, Time)
  BY Fields, SeenIsMap DEF RoomRecord, Seen
<1>3. \A x \in DOMAIN S : S[x] \in Int
  BY <1>2, FusionAssumption DEF IsMap, Time
<1>4. /\ \A x \in DOMAIN S : x \notin DOMAIN M => now > S[x] + SeenFor
      /\ \A x \in DOMAIN M : x \in DOMAIN S /\ M[x] = S[x]
  BY <1>1, <1>3 DEF Remembered, Restrict
<1> HIDE DEF M
<1>5. e.at <= now /\ (now > e.at + SeenFor \/ (e.packet \in DOMAIN S /\ S[e.packet] >= e.at))
  BY DEF Known
<1>6. now > e.at + SeenFor \/ (e.packet \in DOMAIN M /\ M[e.packet] >= e.at)
  BY <1>1, <1>3, <1>4, <1>5
<1>7. Known(now, M, e)
  BY <1>5, <1>6 DEF Known
<1>8. Known(now, Put(M, k, now), e)
  BY <1>1, <1>5, <1>6 DEF Known, Put
<1> QED
  BY <1>7, <1>8 DEF M

\* A queue with one more entry, after those of the same packet are old enough.
LEMMA AppendedQueue ==
  ASSUME NEW q \in Seq(Entry), NEW e \in Entry, NoRepeat(q),
         \A i \in DOMAIN q : q[i].packet = e.packet => e.at > q[i].at + SeenFor
  PROVE  /\ NoRepeat(Append(q, e))
         /\ \A i \in DOMAIN Append(q, e) : Append(q, e)[i] = e \/ \E j \in DOMAIN q : Append(q, e)[i] = q[j]
<1> DEFINE a == Append(q, e)
<1>1. /\ Len(q) \in Nat /\ DOMAIN q = 1..Len(q) /\ DOMAIN a = 1..(Len(q) + 1)
      /\ \A i \in 1..Len(q) : a[i] = q[i]
      /\ a[Len(q) + 1] = e
  OBVIOUS
<1> HIDE DEF a
<1>2. \A i \in DOMAIN a : i \in DOMAIN q \/ i = Len(q) + 1
  BY <1>1
<1>3. ASSUME NEW i \in DOMAIN a, NEW j \in DOMAIN a, i < j, a[i].packet = a[j].packet
      PROVE  a[j].at > a[i].at + SeenFor
  <2>1. i \in DOMAIN q /\ a[i] = q[i]
    BY <1>1, <1>3
  <2>2. CASE j \in DOMAIN q
    BY <1>1, <1>3, <2>1, <2>2 DEF NoRepeat
  <2>3. CASE j = Len(q) + 1
    BY <1>1, <1>3, <2>1, <2>3
  <2> QED
    BY <1>2, <2>2, <2>3
<1> QED
  BY <1>1, <1>2, <1>3 DEF NoRepeat, a

\* A packet is queued only where no copy of it was queued lately, and is known from then on.
LEMMA ForwardTraced ==
  ASSUME TypeOK, RelayMatchesPeers, Traced, NoEarlyRepeat,
         NEW p \in Peer, NEW k \in Packet, NEW b \in BOOLEAN, Forward(p, k, b), ~HandlerEnds(p)
  PROVE  Traced' /\ NoEarlyRepeat'
<1> DEFINE r       == relay[p].room
           M       == Remembered(r, b)
           isNew   == k \notin DOMAIN M /\ Cardinality(DOMAIN M) < CacheSize
           targets == IF isNew THEN rooms[r].peers \ {p} ELSE {}
           n       == IF isNew THEN Put(M, k, now) ELSE M
           e       == [packet |-> k, at |-> now]
<1>1. /\ r \in DOMAIN rooms
      /\ \E u : rooms' = [rooms EXCEPT ![r].updated = u, ![r].seen = n]
      /\ relay' = [x \in DOMAIN relay |->
                    IF x \notin targets THEN relay[x]
                    ELSE IF Len(relay[x].out) < OutSize
                    THEN [relay[x] EXCEPT !.out = Append(@, e)]
                    ELSE [relay[x] EXCEPT !.cancelled = TRUE]]
      /\ now' = now
  BY DEF Forward
<1>2. e \in Entry /\ e.packet = k /\ e.at = now
  BY DEF Entry, TypeOK
<1>3. /\ DOMAIN rooms' = DOMAIN rooms
      /\ \A x \in DOMAIN rooms : rooms'[x].peers = rooms[x].peers
      /\ \A x \in DOMAIN rooms \ {r} : rooms'[x].seen = rooms[x].seen
      /\ rooms'[r].seen = n
  <2> HIDE DEF n
  <2>1. PICK u : rooms' = [rooms EXCEPT ![r].updated = u, ![r].seen = n]
    BY <1>1
  <2>2. rooms[r] \in RoomRecord /\ r \in DOMAIN rooms
    BY <1>1, Fields
  <2>3. /\ DOMAIN rooms' = DOMAIN rooms
        /\ \A x \in DOMAIN rooms \ {r} : rooms'[x] = rooms[x]
        /\ rooms'[r] = [rooms[r] EXCEPT !.updated = u, !.seen = n]
    BY <2>1, <2>2 DEF RoomRecord
  <2>4. rooms'[r].peers = rooms[r].peers /\ rooms'[r].seen = n
    BY <2>2, <2>3 DEF RoomRecord
  <2> QED
    BY <2>3, <2>4
<1> HIDE DEF e
<1>4. /\ DOMAIN relay' = DOMAIN relay
      /\ \A x \in DOMAIN relay :
            /\ relay'[x].pc = relay[x].pc
            /\ \/ relay'[x].out = relay[x].out
               \/ x \in targets /\ relay'[x].out = Append(relay[x].out, e)
  <2> HIDE DEF targets
  <2> QED
    BY <1>1, Fields DEF RelayRecord
<1>5. ASSUME NEW x \in targets
      PROVE  /\ isNew /\ x \in rooms[r].peers /\ x \in DOMAIN relay
             /\ relay[x].pc = "joined" /\ relay[x].room = r
             /\ NoRepeat(Append(relay[x].out, e))
             /\ \A i \in DOMAIN Append(relay[x].out, e) :
                   \/ Append(relay[x].out, e)[i] = e
                   \/ \E j \in DOMAIN relay[x].out : Append(relay[x].out, e)[i] = relay[x].out[j]
  <2>1. isNew /\ x \in rooms[r].peers
    OBVIOUS
  <2>2. x \in DOMAIN relay /\ relay[x].pc = "joined" /\ relay[x].room = r
    BY <1>1, <2>1 DEF RelayMatchesPeers
  <2>3. relay[x].out \in Seq(Entry) /\ NoRepeat(relay[x].out)
    BY <2>2, Queues DEF NoEarlyRepeat, NoRepeat
  <2>4. ASSUME NEW i \in DOMAIN relay[x].out, relay[x].out[i].packet = k
        PROVE  now > relay[x].out[i].at + SeenFor
    <3>1. relay[x].out[i] \in Entry /\ Known(now, rooms[r].seen, relay[x].out[i])
      BY <1>1, <2>1, <2>3 DEF Traced
    <3>2. Known(now, M, relay[x].out[i])
      BY <1>1, <3>1, RememberedKnown
    <3>3. k \notin DOMAIN M
      BY <2>1
    <3> QED
      BY <2>4, <3>2, <3>3 DEF Known
  <2> QED
    BY <1>2, <2>1, <2>2, <2>3, <2>4, AppendedQueue
<1>6. ASSUME NEW x \in DOMAIN relay' PROVE NoRepeat(relay'[x].out)
  <2> HIDE DEF targets
  <2>1. NoRepeat(relay[x].out)
    BY <1>4 DEF NoEarlyRepeat, NoRepeat
  <2> QED
    BY <1>4, <1>5, <2>1
<1>7. ASSUME NEW x \in DOMAIN relay', relay'[x].pc = "checked" PROVE relay'[x].out = <<>>
  <2> HIDE DEF targets
  <2> QED
    BY <1>4, <1>5, <1>7 DEF Traced
<1>8. ASSUME NEW x \in rooms[r].peers, NEW o \in Entry, Known(now, rooms[r].seen, o)
      PROVE  Known(now, n, o)
  BY <1>1, <1>8, RememberedKnown
<1>9. isNew => Known(now, n, e)
  BY <1>2, Numbers DEF Known, Put
<1>10. ASSUME NEW y \in DOMAIN rooms', NEW x \in rooms'[y].peers, NEW i \in DOMAIN relay'[x].out
       PROVE  Known(now', rooms'[y].seen, relay'[x].out[i])
  <2>1. y \in DOMAIN rooms /\ x \in rooms[y].peers
    BY <1>3
  <2>2. x \in DOMAIN relay /\ relay[x].room = y
    BY <2>1 DEF RelayMatchesPeers
  <2>3. ASSUME NEW j \in DOMAIN relay[x].out
        PROVE  Known(now, rooms'[y].seen, relay[x].out[j])
    <3>1. relay[x].out[j] \in Entry /\ Known(now, rooms[y].seen, relay[x].out[j])
      BY <2>1, <2>2, Queues DEF Traced
    <3>2. CASE y = r
      <4> HIDE DEF n
      <4> QED
        BY <1>3, <1>8, <2>1, <3>1, <3>2
    <3>3. CASE y # r
      BY <1>3, <2>1, <3>1, <3>3
    <3> QED
      BY <3>2, <3>3
  <2>4. CASE relay'[x].out = relay[x].out
    BY <1>1, <2>3, <2>4
  <2>5. CASE x \in targets /\ relay'[x].out = Append(relay[x].out, e)
    <3>1. isNew /\ y = r
      BY <1>5, <2>2, <2>5
    <3>2. Known(now, rooms'[y].seen, e)
      BY <1>3, <1>9, <3>1
    <3>3. relay'[x].out[i] = e \/ \E j \in DOMAIN relay[x].out : relay'[x].out[i] = relay[x].out[j]
      BY <1>5, <2>5
    <3> QED
      BY <1>1, <2>3, <3>2, <3>3
  <2> QED
    BY <1>4, <2>2, <2>4, <2>5
<1>11. Traced'
  <2> HIDE DEF targets, n
  <2> QED
    BY <1>7, <1>10 DEF Traced
<1>12. NoEarlyRepeat'
  BY <1>6 DEF NoEarlyRepeat, NoRepeat
<1> QED
  BY <1>11, <1>12

\* Every other step is calm: the directory's,
LEMMA DirectoryCalm == ASSUME TypeOK, RelayMatchesPeers, Directory \/ UNCHANGED vars PROVE Calm
<1>0. /\ DOMAIN Kept = DOMAIN rooms \ Expired
      /\ \A x \in DOMAIN Kept : Kept[x] = rooms[x]
      /\ now \in Int
  <2>1. now \in Int
    BY Numbers
  <2>2. IsMap(rooms, Room, RoomRecord)
    BY DEF TypeOK
  <2>3. /\ DOMAIN Restrict(rooms, DOMAIN rooms \ Expired) = DOMAIN rooms \ Expired
        /\ \A k \in DOMAIN rooms \ Expired : Restrict(rooms, DOMAIN rooms \ Expired)[k] = rooms[k]
    BY ONLY <2>2, RestrictMap
  <2> QED
    BY ONLY <2>1, <2>3 DEF Kept
<1>1. \A P : /\ DOMAIN Cancel(relay, P) = DOMAIN relay
             /\ \A x \in DOMAIN relay : /\ Cancel(relay, P)[x].out = relay[x].out
                                        /\ Cancel(relay, P)[x].pc = relay[x].pc
  BY SameQueues DEF TypeOK, Handlers
<1>2. CASE UNCHANGED <<rooms, relay>> /\ (now' = now \/ now' = now + 1)
  BY <1>0, <1>2 DEF Calm, Drained
<1>3. CASE Prune
  BY <1>0, <1>1, <1>3 DEF Prune, PrunedRelay, Calm, Drained
<1>4. CASE CloseHub
  BY <1>0, <1>1, <1>4 DEF CloseHub, Calm, Drained
<1>5. ASSUME NEW s \in signed, SyncFusion(s) PROVE Calm
  <2> DEFINE v == IF s.room \in DOMAIN Kept THEN Successor(s, Kept[s.room]) ELSE NewRoom(s)
  <2>1. rooms' = Put(Kept, s.room, v) /\ now' = now
    BY <1>5 DEF SyncFusion
  <2>2. v.peers = {} \/ (s.room \in DOMAIN Kept /\ v.peers = Kept[s.room].peers
                                                /\ v.seen = Kept[s.room].seen)
    BY DEF Successor, NewRoom
  <2>3. \A r \in DOMAIN rooms' : \A x \in rooms'[r].peers :
           r \in DOMAIN rooms /\ x \in rooms[r].peers /\ rooms'[r].seen = rooms[r].seen
    <3> HIDE DEF v
    <3> QED
      BY <1>0, <2>1, <2>2 DEF Put
  <2>4. relay' = PrunedRelay \/ \E P : relay' = WithTimers(PrunedRelay, P)
    BY <1>5 DEF SyncFusion
  <2>5. /\ DOMAIN relay' = DOMAIN relay
        /\ \A x \in DOMAIN relay : relay'[x].out = relay[x].out /\ relay'[x].pc = relay[x].pc
    BY <1>1, <2>4, PruneTypeOK, SameQueues DEF PrunedRelay
  <2> QED
    BY <1>0, <2>1, <2>3, <2>5 DEF Calm, Drained
<1> QED
  BY <1>2, <1>3, <1>4, <1>5 DEF Directory, Tick, Sign, vars

\* the end of a handler,
LEMMA EndCalm ==
  ASSUME TypeOK, NEW p \in Peer, HandlerEnds(p), now' = now
  PROVE  Calm
<1>1. /\ DOMAIN relay' = DOMAIN relay \ {p}
      /\ \A x \in DOMAIN relay' : relay'[x] = relay[x]
  BY DEF HandlerEnds, Restrict
<1>2. /\ DOMAIN rooms' = DOMAIN rooms
      /\ \A r \in DOMAIN rooms :
            rooms'[r].peers \subseteq rooms[r].peers /\ rooms'[r].seen = rooms[r].seen
  <2>1. \A r \in DOMAIN rooms : rooms[r] \in RoomRecord
    BY Fields
  <2> QED
    BY <2>1 DEF HandlerEnds, RoomRecord
<1> QED
  BY <1>1, <1>2, Numbers DEF Calm, Drained

\* and what else a handler does.
LEMMA HandlerCalm ==
  ASSUME TypeOK, RelayMatchesPeers, Traced, NEW p \in Peer,
         \/ \E r \in Room, a \in BOOLEAN : CheckRelay(p, r, a)
         \/ UpgradeFails(p) \/ JoinRelay(p) \/ Authenticate(p) \/ TimerFires(p)
         \/ \E b \in BOOLEAN : WriteOut(p, b)
  PROVE  Calm
<1>0. /\ now \in Int
      /\ p \in DOMAIN relay => relay[p] \in RelayRecord
      /\ \A r \in DOMAIN rooms : rooms[r] \in RoomRecord
  BY Fields, Numbers
<1>1. ASSUME NEW r \in Room, NEW a \in BOOLEAN, CheckRelay(p, r, a) PROVE Calm
  <2>1. /\ DOMAIN relay' = DOMAIN relay \cup {p} /\ p \notin DOMAIN relay
        /\ relay'[p].pc = "checked" /\ relay'[p].out = <<>>
        /\ \A x \in DOMAIN relay : relay'[x] = relay[x]
        /\ UNCHANGED rooms /\ now' = now
    BY <1>1 DEF CheckRelay, Put, Handler
  <2> QED
    BY <1>0, <2>1 DEF Calm, Drained
<1>2. ASSUME relay' = Restrict(relay, DOMAIN relay \ {p}), UNCHANGED rooms, now' = now PROVE Calm
  BY <1>0, <1>2 DEF Restrict, Calm, Drained
<1>3. CASE JoinRelay(p)
  <2> DEFINE r == relay[p].room
  <2>1. CASE MayJoin(r)
    <3>1. r \in DOMAIN rooms /\ p \in DOMAIN relay /\ relay[p].pc = "checked" /\ now' = now
      BY <1>3, <2>1 DEF JoinRelay, MayJoin
    <3>2. /\ DOMAIN rooms' = DOMAIN rooms
          /\ \A x \in DOMAIN rooms : /\ rooms'[x].peers \subseteq rooms[x].peers \cup {p}
                                     /\ rooms'[x].seen = rooms[x].seen
      BY <1>0, <1>3, <2>1, <3>1 DEF JoinRelay, RoomRecord
    <3>3. /\ DOMAIN relay' = DOMAIN relay
          /\ relay'[p].out = relay[p].out
          /\ \A x \in DOMAIN relay \ {p} : relay'[x] = relay[x]
      BY <1>0, <1>3, <2>1, <3>1 DEF JoinRelay, Joined, RelayRecord
    <3> QED
      BY <1>0, <3>1, <3>2, <3>3 DEF Calm, Drained
  <2>2. CASE ~MayJoin(r)
    BY <1>2, <1>3, <2>2 DEF JoinRelay
  <2> QED
    BY <2>1, <2>2
<1>4. ASSUME NEW b \in BOOLEAN, Authenticate(p) \/ TimerFires(p) \/ WriteOut(p, b) PROVE Calm
  <2>1. p \in DOMAIN relay /\ relay[p].pc = "joined" /\ UNCHANGED rooms /\ now' = now
    BY <1>4 DEF Authenticate, TimerFires, WriteOut
  <2>2. /\ DOMAIN relay' = DOMAIN relay
        /\ \A x \in DOMAIN relay \ {p} : relay'[x] = relay[x]
        /\ relay'[p].pc = "joined"
        /\ Drained(relay'[p].out, relay[p].out)
    <3>1. CASE Authenticate(p) \/ TimerFires(p)
      BY <1>0, <2>1, <3>1 DEF Authenticate, TimerFires, RelayRecord, Drained
    <3>2. CASE WriteOut(p, b)
      BY <1>0, <2>1, <3>2 DEF WriteOut, RelayRecord, Drained
    <3> QED
      BY <1>4, <3>1, <3>2
  <2> QED
    BY <1>0, <2>1, <2>2 DEF Calm, Drained
<1> QED
  BY <1>1, <1>2, <1>3, <1>4 DEF UpgradeFails

\* No peer is sent a packet a second time within SeenFor, however many gateways upload
\* it, whatever rosters replace each other and however often the table is pruned.
THEOREM RelayNeverRepeats == Spec => []NoEarlyRepeat
<1> DEFINE IInv == Traced /\ NoEarlyRepeat
<1>1. Init => IInv
  BY DEF Init, Traced, NoEarlyRepeat
<1>2. TypeOK /\ RelayMatchesPeers /\ RelayMatchesPeers' /\ IInv /\ [Next]_vars => IInv'
  <2> SUFFICES ASSUME TypeOK, RelayMatchesPeers, RelayMatchesPeers', Traced, NoEarlyRepeat, [Next]_vars
               PROVE  Traced' /\ NoEarlyRepeat'
    OBVIOUS
  <2>1. CASE Directory \/ UNCHANGED vars
    BY <2>1, DirectoryCalm, CalmTraced, NextNow
  <2>2. ASSUME NEW p \in Peer, NEW k \in Packet, NEW b \in BOOLEAN, Forward(p, k, b)
        PROVE  Traced' /\ NoEarlyRepeat'
    <3>1. CASE HandlerEnds(p)
      BY <2>2, <3>1, EndCalm, CalmTraced, NextNow DEF Forward
    <3>2. CASE ~HandlerEnds(p)
      BY <2>2, <3>2, ForwardTraced
    <3> QED
      BY <3>1, <3>2
  <2>3. ASSUME NEW p \in Peer, Leave(p) PROVE Traced' /\ NoEarlyRepeat'
    BY <2>3, EndCalm, CalmTraced, NextNow DEF Leave
  <2>4. ASSUME NEW p \in Peer,
               \/ \E r \in Room, a \in BOOLEAN : CheckRelay(p, r, a)
               \/ UpgradeFails(p) \/ JoinRelay(p) \/ Authenticate(p) \/ TimerFires(p)
               \/ \E b \in BOOLEAN : WriteOut(p, b)
        PROVE  Traced' /\ NoEarlyRepeat'
    BY <2>4, HandlerCalm, CalmTraced, NextNow
  <2> QED
    BY <2>1, <2>2, <2>3, <2>4 DEF Next, Relay
<1> QED
  BY <1>1, <1>2, FusionTypeCorrect, RelayStaysMatched, PTL DEF Spec
=============================================================================
