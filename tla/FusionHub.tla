------------------------------ MODULE FusionHub ------------------------------
(***************************************************************************)
(* The fusion relay: the directory of rooms whose rosters are signed by    *)
(* their creators and uploaded by any member, and the relay connections    *)
(* that forward sealed packets between gateways.                           *)
(*                                                                         *)
(* Source: internal/server/fusion.go.  Every critical section of           *)
(* fusionHub.mu is one action.  A relay handler takes the lock twice       *)
(* before it is a peer, with the WebSocket upgrade in between, and once    *)
(* more to leave; cancelling a peer and the end of its handler are two     *)
(* steps.  The clock is discrete, its tick much longer than a wait for the *)
(* lock; the three-second and twenty-second timers may fire at any moment. *)
(* Signatures and keys are abstracted to their verdicts, and a room has    *)
(* one manifest, made with its key pair.                                   *)
(***************************************************************************)
EXTENDS Integers, FiniteSets, Sequences, Functions

CONSTANTS
    Room, Peer, Packet,
    Retention,     \* 30 minutes without an authenticated packet
    Fresh, Ahead,  \* a signed state is accepted from 90 s old to one minute ahead
    EndGrace,      \* 3 s of forwarding after the end
    SeenFor,       \* 15 s in the table of seen packets
    MaxPeers, MaxRooms, CacheSize, OutSize,
    MaxTime, MaxSigned  \* bounds of the check on the clock and on the creators

ASSUME FusionAssumption ==
    /\ Retention \in Nat /\ Fresh \in Nat /\ Ahead \in Nat
    /\ EndGrace \in Nat /\ SeenFor \in Nat /\ MaxTime \in Nat
    /\ MaxPeers \in Nat \ {0} /\ MaxRooms \in Nat /\ CacheSize \in Nat /\ OutSize \in Nat
    /\ Fresh + Ahead <= Retention /\ SeenFor <= Retention
    /\ IsFiniteSet(Peer)

VARIABLES
    now,      \* the server's clock
    signed,   \* states the creators have signed; anybody may upload one, at any time
    rooms,    \* fusionHub.rooms
    relay     \* the running relayFusion handlers

vars == <<now, signed, rooms, relay>>

-----------------------------------------------------------------------------

Time == 0..MaxTime

State == [room: Room, revision: 0..(MaxTime + Ahead), ended: BOOLEAN]

RoomRecord == [revision: 0..(MaxTime + Ahead), ended: BOOLEAN, updated: Time,
               peers: SUBSET Peer, seen: UNION {[K -> Time] : K \in SUBSET Packet}]

RelayRecord == [room: Room, pc: {"checked", "joined"}, auth: BOOLEAN, deadline: BOOLEAN,
                ending: BOOLEAN, cancelled: BOOLEAN, out: Seq([packet: Packet, at: Time])]

IsMap(m, K, V) == /\ DOMAIN m \subseteq K
                  /\ m = [k \in DOMAIN m |-> m[k]]
                  /\ \A k \in DOMAIN m : m[k] \in V

\* A shape the directory and the handlers keep.
TypeOK ==
    /\ now \in Time
    /\ signed \subseteq State
    /\ IsMap(rooms, Room, RoomRecord)
    /\ IsMap(relay, Peer, RelayRecord)

Put(m, k, v) == [x \in DOMAIN m \cup {k} |-> IF x = k THEN v ELSE m[x]]

-----------------------------------------------------------------------------
(* Environment: the creators and the clock *)

\* A creator signs a state with a higher revision than all it signed before.
Sign(r, n, e) ==
    /\ Cardinality(signed) < MaxSigned
    /\ \A s \in signed : s.room = r => s.revision < n
    /\ signed' = signed \cup {[room |-> r, revision |-> n, ended |-> e]}
    /\ UNCHANGED <<now, rooms, relay>>

Tick ==
    /\ now < MaxTime
    /\ now' = now + 1
    /\ UNCHANGED <<signed, rooms, relay>>

-----------------------------------------------------------------------------
(* The directory *)

\* Mutant of IsTimely: how old a state is does not matter.
IsTimely_HoweverOld(s) == s.revision <= now + Ahead

\* parseFusion, of what a signature covers.
IsTimely(s) == s.revision <= now + Ahead /\ now <= s.revision + Fresh

\* fusionHub.prune: the rooms without a packet for too long, and what is left.
Expired == {r \in DOMAIN rooms : now > rooms[r].updated + Retention}
Kept    == Restrict(rooms, DOMAIN rooms \ Expired)

\* Cancelling the context of some handlers.
Cancel(R, P) == [p \in DOMAIN R |-> IF p \in P THEN [R[p] EXCEPT !.cancelled = TRUE] ELSE R[p]]

PrunedRelay == Cancel(relay, UNION {rooms[r].peers : r \in Expired})

\* Mutant of Supersedes: an ended room may go on with a newer state.
Supersedes_AfterEnd(s, old) == s.revision > old.revision

\* The same snapshot again, or a newer one, of a room that has not ended.
Supersedes(s, old) ==
    /\ ~old.ended
    /\ s.revision > old.revision \/ (s.revision = old.revision /\ s.ended = old.ended)

\* Mutants of Successor: the connections, or the seen packets, stay behind.
Successor_NewPeers(s, old) ==
    [revision |-> s.revision, ended |-> s.ended, updated |-> now,
     peers |-> {}, seen |-> old.seen]
Successor_NewSeen(s, old) ==
    [revision |-> s.revision, ended |-> s.ended, updated |-> now,
     peers |-> old.peers, seen |-> Restrict(old.seen, {})]

Successor(s, old) ==
    [revision |-> s.revision, ended |-> s.ended, updated |-> now,
     peers |-> old.peers, seen |-> old.seen]

NewRoom(s) ==
    [revision |-> s.revision, ended |-> s.ended, updated |-> now,
     peers |-> {}, seen |-> [k \in {} |-> 0]]

\* Mutant of WithTimers: only one timer is started, for the first peer.
WithTimers_First(R, P) ==
    [p \in DOMAIN R |-> [R[p] EXCEPT !.ending = @ \/ (P # {} /\ p = CHOOSE x \in P : TRUE)]]

\* The end of a room starts a timer for each of its peers.
WithTimers(R, P) == [p \in DOMAIN R |-> [R[p] EXCEPT !.ending = @ \/ p \in P]]

\* syncFusion, an upload that is accepted.
SyncFusion(s) ==
    /\ s \in signed
    /\ IsTimely(s)
    /\ LET r == s.room
       IN  /\ IF r \in DOMAIN Kept THEN Supersedes(s, Kept[r])
                                   ELSE Cardinality(DOMAIN Kept) < MaxRooms
           /\ rooms' = Put(Kept, r, IF r \in DOMAIN Kept THEN Successor(s, Kept[r]) ELSE NewRoom(s))
           /\ relay' = IF s.ended THEN WithTimers(PrunedRelay, rooms'[r].peers) ELSE PrunedRelay
    /\ UNCHANGED <<now, signed>>

\* listFusion, and an upload that is refused after the pruning.
Prune ==
    /\ Expired # {}
    /\ rooms' = Kept
    /\ relay' = PrunedRelay
    /\ UNCHANGED <<now, signed>>

\* fusionHub.close, at the shutdown.
CloseHub ==
    /\ relay' = Cancel(relay, UNION {rooms[r].peers : r \in DOMAIN rooms})
    /\ UNCHANGED <<now, signed, rooms>>

-----------------------------------------------------------------------------
(* relayFusion *)

Handler(r, a) ==
    [room |-> r, pc |-> "checked", auth |-> a, deadline |-> FALSE,
     ending |-> FALSE, cancelled |-> FALSE, out |-> <<>>]

\* The first look at the room, which does not prune; a is whether the header
\* carried the key.  A device that is not admitted yet needs a fresh state.
CheckRelay(p, r, a) ==
    /\ p \notin DOMAIN relay
    /\ r \in DOMAIN rooms /\ ~rooms[r].ended
    /\ now <= rooms[r].updated + Retention
    /\ Cardinality(rooms[r].peers) < MaxPeers
    /\ a \/ now <= rooms[r].revision + Fresh
    /\ relay' = Put(relay, p, Handler(r, a))
    /\ UNCHANGED <<now, signed, rooms>>

UpgradeFails(p) ==
    /\ p \in DOMAIN relay /\ relay[p].pc = "checked"
    /\ relay' = Restrict(relay, DOMAIN relay \ {p})
    /\ UNCHANGED <<now, signed, rooms>>

\* The second look, after the upgrade.
MayJoin(r) ==
    /\ r \in DOMAIN rooms /\ ~rooms[r].ended
    /\ Cardinality(rooms[r].peers) < MaxPeers

\* Mutant of Joined: the twenty seconds run for the wrong peers.
Joined_WrongDeadline(h) == [h EXCEPT !.pc = "joined", !.deadline = h.auth]

\* A peer that has not shown the key has twenty seconds to do so.
Joined(h) == [h EXCEPT !.pc = "joined", !.deadline = ~h.auth]

JoinRelay(p) ==
    /\ p \in DOMAIN relay /\ relay[p].pc = "checked"
    /\ LET r == relay[p].room
       IN  IF MayJoin(r)
           THEN /\ rooms' = [rooms EXCEPT ![r].peers = @ \cup {p}]
                /\ relay' = [relay EXCEPT ![p] = Joined(@)]
           ELSE /\ relay' = Restrict(relay, DOMAIN relay \ {p})
                /\ UNCHANGED rooms
    /\ UNCHANGED <<now, signed>>

\* The handler returns: the peer leaves the room that has its id now.
HandlerEnds(p) ==
    /\ relay' = Restrict(relay, DOMAIN relay \ {p})
    /\ rooms' = [r \in DOMAIN rooms |->
                    IF r = relay[p].room THEN [rooms[r] EXCEPT !.peers = @ \ {p}] ELSE rooms[r]]

\* The connection ends, by the peer, by a packet that is refused or by a cancellation.
Leave(p) ==
    /\ p \in DOMAIN relay /\ relay[p].pc = "joined"
    /\ HandlerEnds(p)
    /\ UNCHANGED <<now, signed>>

\* A text message with the key.
Authenticate(p) ==
    /\ p \in DOMAIN relay /\ relay[p].pc = "joined" /\ ~relay[p].auth
    /\ relay' = [relay EXCEPT ![p].auth = TRUE, ![p].deadline = FALSE]
    /\ UNCHANGED <<now, signed, rooms>>

\* The twenty seconds of a peer without the key, the three seconds of an ended room.
TimerFires(p) ==
    /\ p \in DOMAIN relay /\ relay[p].pc = "joined"
    /\ relay[p].deadline \/ relay[p].ending
    /\ relay' = [relay EXCEPT ![p].cancelled = TRUE, ![p].deadline = FALSE, ![p].ending = FALSE]
    /\ UNCHANGED <<now, signed, rooms>>

\* The packets still known, with or without the pruning of the table that a packet
\* causes once per second.
Remembered(r, prunes) ==
    IF prunes THEN Restrict(rooms[r].seen, {k \in DOMAIN rooms[r].seen : now <= rooms[r].seen[k] + SeenFor})
    ELSE rooms[r].seen

\* A packet from p, possibly read just before p was cancelled: forwarded to the other
\* peers of the room unless it is known or the table is full; a peer whose queue is
\* full is cancelled.
Forward(p, k, prunes) ==
    /\ p \in DOMAIN relay /\ relay[p].pc = "joined"
    /\ LET r       == relay[p].room
           known   == Remembered(r, prunes)
           isNew   == k \notin DOMAIN known /\ Cardinality(DOMAIN known) < CacheSize
           targets == IF isNew THEN rooms[r].peers \ {p} ELSE {}
       IN  IF r \notin DOMAIN rooms \/ (rooms[r].ended /\ now > rooms[r].updated + EndGrace)
           THEN HandlerEnds(p)
           ELSE /\ rooms' = [rooms EXCEPT
                      ![r].updated = IF relay[p].auth /\ ~rooms[r].ended THEN now ELSE @,
                      ![r].seen = IF isNew THEN Put(known, k, now) ELSE known]
                /\ relay' = [x \in DOMAIN relay |->
                      IF x \notin targets THEN relay[x]
                      ELSE IF Len(relay[x].out) < OutSize
                      THEN [relay[x] EXCEPT !.out = Append(@, [packet |-> k, at |-> now])]
                      ELSE [relay[x] EXCEPT !.cancelled = TRUE]]
    /\ UNCHANGED <<now, signed>>

\* The writer goroutine takes the next packet; a write that fails cancels the peer.
WriteOut(p, ok) ==
    /\ p \in DOMAIN relay /\ relay[p].pc = "joined" /\ relay[p].out # <<>>
    /\ relay' = [relay EXCEPT ![p].out = Tail(@), ![p].cancelled = @ \/ ~ok]
    /\ UNCHANGED <<now, signed, rooms>>

-----------------------------------------------------------------------------

Init ==
    /\ now = 0
    /\ signed = {}
    /\ rooms = [r \in {} |-> r]
    /\ relay = [p \in {} |-> p]

Directory ==
    \/ Tick \/ Prune \/ CloseHub
    \/ \E r \in Room, n \in 0..(MaxTime + Ahead), e \in BOOLEAN : Sign(r, n, e)
    \/ \E s \in signed : SyncFusion(s)

Relay ==
    \E p \in Peer :
        \/ \E r \in Room, a \in BOOLEAN : CheckRelay(p, r, a)
        \/ UpgradeFails(p) \/ JoinRelay(p) \/ Leave(p) \/ Authenticate(p) \/ TimerFires(p)
        \/ \E k \in Packet, b \in BOOLEAN : Forward(p, k, b)
        \/ \E b \in BOOLEAN : WriteOut(p, b)

Next == Directory \/ Relay

Spec == Init /\ [][Next]_vars

\* Upgrades end, timers fire and a cancelled handler returns.  No peer has to send,
\* to show the key or to leave, and no creator or member has to upload.
Fairness ==
    \A p \in Peer :
        /\ WF_vars(UpgradeFails(p) \/ JoinRelay(p))
        /\ WF_vars(TimerFires(p))
        /\ WF_vars(p \in DOMAIN relay /\ relay[p].cancelled /\ Leave(p))

FairSpec == Spec /\ Fairness

-----------------------------------------------------------------------------
(* Properties *)

\* The peers of a room are running handlers, and every handler that has joined and
\* is not cancelled is a peer of its room: no upload, pruning or re-creation of a
\* room loses a connection or leaves one behind.
RelayMatchesPeers ==
    /\ \A r \in DOMAIN rooms : \A p \in rooms[r].peers :
          p \in DOMAIN relay /\ relay[p].pc = "joined" /\ relay[p].room = r
    /\ \A p \in DOMAIN relay : relay[p].pc = "joined" /\ ~relay[p].cancelled =>
          relay[p].room \in DOMAIN rooms /\ p \in rooms[relay[p].room].peers

\* The upgrade between the two looks never lets more connections in than the limit.
RelayWithinLimit == \A r \in DOMAIN rooms : Cardinality(rooms[r].peers) <= MaxPeers

\* A peer is not sent a packet a second time within SeenFor, although every gateway
\* uploads its own copy and rosters are replaced in between.
NoEarlyRepeat ==
    \A p \in DOMAIN relay : \A i, j \in DOMAIN relay[p].out :
        i < j /\ relay[p].out[i].packet = relay[p].out[j].packet
            => relay[p].out[j].at > relay[p].out[i].at + SeenFor

\* The roster of a room never goes back to an older revision, also when the record
\* was pruned and somebody uploads a state from before (API.md: old versions are
\* refused).
RevisionsGrow ==
    \A r \in Room, n \in 0..(MaxTime + Ahead) :
        [](r \in DOMAIN rooms /\ rooms[r].revision = n
              => [](r \in DOMAIN rooms => rooms[r].revision >= n))

\* A room that has ended stays so for the whole retention, whatever its creator signs
\* and whoever uploads it (API.md: re-creation after the end is refused).
TombstoneHolds ==
    [][\A r \in DOMAIN rooms :
          rooms[r].ended /\ now <= rooms[r].updated + Retention =>
              r \in DOMAIN rooms' /\ rooms'[r].ended /\ rooms'[r].updated = rooms[r].updated]_vars

\* All connections of a room that has ended are closed.
EndedRoomEmpties ==
    \A r \in Room :
        (r \in DOMAIN rooms /\ rooms[r].ended)
        ~> (r \in DOMAIN rooms /\ rooms[r].ended => rooms[r].peers = {})

\* A connection that never shows the key is closed.
StrangersLeave ==
    \A p \in Peer :
        (p \in DOMAIN relay /\ ~relay[p].auth) ~> (p \in DOMAIN relay => relay[p].auth)
=============================================================================
