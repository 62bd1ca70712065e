-------------------------- MODULE PresenceAnnouncer --------------------------
(***************************************************************************)
(* The spoken announcements of a client: that a member has dropped out of  *)
(* the media room, or has left.                                            *)
(*                                                                         *)
(* Source: frontend/src/client/presence.ts, and what app.ts calls of it.   *)
(* Two sources are combined that know nothing of each other: the roster    *)
(* and the departures of the management channel, and the participants of   *)
(* the media room.  One stay in one room is modelled, so its owner is      *)
(* always the same, and the members are the others.  Whether something is  *)
(* really spoken (voices, the pause of 1.5 seconds) is left open: an       *)
(* announcement is what reaches speak() while announcements are enabled.   *)
(***************************************************************************)
EXTENDS Integers, Sequences

CONSTANTS
    Member,     \* the other members
    SeenLimit,  \* how many departures are remembered; 256 in the code
    MaxQueue,   \* bound: messages on the management channel
    MaxLeft     \* bound: departures accepted, repetitions included

ASSUME PresenceAssumption == SeenLimit \in Nat \ {0} /\ {MaxQueue, MaxLeft} \subseteq Nat

VARIABLES
    where,     \* per member: outside, in the media room, out of it, or left for good
    enabled,   \* the server's setting of the room
    channel,   \* the management channel: whether it is open, and what is on its way
    room,      \* the media room as the SDK sees it: connected, participants
    stay,      \* what the client has of the room: its members, and the setting
    presence,  \* the variables of presence.ts
    heard,     \* history: the members shown online since the last reset
    said,      \* history: the last announcement of a drop
    left       \* history: the departures that were accepted, in order

vars == <<where, enabled, channel, room, stay, presence, heard, said, left>>

-----------------------------------------------------------------------------

\* A roster, or the departure of a member: a member leaves once, and names the event.
Message == [kind: {"roster"}, members: SUBSET Member, enabled: BOOLEAN]
      \cup [kind: {"left"}, member: Member]

\* previous: unknown when the map has no entry.
PresenceRecord == [ready: BOOLEAN, previous: [Member -> {"unknown", "online", "offline"}],
                   pending: SUBSET Member, seen: Seq(Member)]

\* The shape of the state.
TypeOK ==
    /\ where \in [Member -> {"outside", "in", "out", "left"}]
    /\ enabled \in BOOLEAN
    /\ channel \in [open: BOOLEAN, queue: Seq(Message)]
    /\ room \in [connected: BOOLEAN, participants: SUBSET Member]
    /\ stay \in [members: SUBSET Member, enabled: BOOLEAN]
    /\ presence \in PresenceRecord /\ Len(presence.seen) <= SeenLimit
    /\ heard \subseteq Member
    /\ said \in SUBSET Member
    /\ left \in Seq(Member)

-----------------------------------------------------------------------------
(* presence.ts *)

Nobody == [m \in Member |-> "unknown"]

\* Mutant of Reset: the members it knew are compared with the next roster.
Reset_KeepsPrevious(p) == [p EXCEPT !.pending = {}]

\* resetPresence, for the same owner: what is known of the members, and the timers.
Reset(p) == [p EXCEPT !.ready = FALSE, !.previous = Nobody, !.pending = {}]

\* displayMembers while the room is connected: the participants are online.
Shown(members, participants) ==
    [m \in Member |-> IF m \notin members THEN "unknown"
                      ELSE IF m \in participants THEN "online" ELSE "offline"]

\* observePresence: a timer for each member that was online, and none for one that is
\* online again or gone from the roster; no timers at all while announcements are disabled.
Observed(p, shown, on) ==
    LET dropped == {m \in Member : shown[m] = "offline" /\ p.ready /\ p.previous[m] = "online"}
        gone == {m \in Member : shown[m] = "unknown" /\ p.previous[m] # "unknown"}
        back == {m \in Member : shown[m] = "online"}
    IN  [p EXCEPT !.ready = TRUE, !.previous = shown,
                  !.pending = IF on THEN ((@ \ back) \cup dropped) \ gone ELSE {}]

\* seen.add(eventId), and the oldest one is forgotten.
Remembered(seen, m) ==
    LET more == Append(seen, m)
    IN  IF Len(more) > SeenLimit THEN Tail(more) ELSE more

\* Mutant of IsNewDeparture: events are not told apart.
IsNewDeparture_Any(p, m) == p.ready

IsNewDeparture(p, m) == p.ready /\ \A i \in DOMAIN p.seen : p.seen[i] # m

-----------------------------------------------------------------------------
(* app.ts *)

\* renderMembers, with what it is given.
Render(p, s, r) ==
    IF r.connected
    THEN /\ presence' = Observed(p, Shown(s.members, r.participants), s.enabled)
         /\ heard' = heard \cup (s.members \cap r.participants)
    ELSE presence' = p /\ UNCHANGED heard

\* What a reset leaves behind.
ResetOnly == presence' = Reset(presence) /\ heard' = {}

\* The media room breaks: Reconnecting, or Disconnected.
RoomBreaks ==
    /\ room.connected
    /\ room' = [room EXCEPT !.connected = FALSE]
    /\ ResetOnly
    /\ said' = {}
    /\ UNCHANGED <<where, enabled, channel, stay, left>>

\* connectMedia replaces a room that is connected still (a timer that an older room has
\* armed): the end is marked as intended, and nothing is reset before the new one connects.
RoomReplaced ==
    /\ room.connected
    /\ room' = [room EXCEPT !.connected = FALSE]
    /\ said' = {}
    /\ UNCHANGED <<where, enabled, channel, stay, presence, heard, left>>

Present == {m \in Member : where[m] = "in"}

\* It is connected again, or a new one: the participants are those that are there by now.
RoomRecovers ==
    /\ ~room.connected
    /\ room' = [connected |-> TRUE, participants |-> Present]
    /\ presence' = Observed(Reset(presence), Shown(stay.members, Present), stay.enabled)
    /\ heard' = stay.members \cap Present
    /\ said' = {}
    /\ UNCHANGED <<where, enabled, channel, stay, left>>

\* The SDK hears that a participant came or went: ParticipantConnected, -Disconnected.
ParticipantChanges(m) ==
    /\ room.connected
    /\ m \in room.participants <=> where[m] # "in"
    /\ room' = [room EXCEPT !.participants = IF m \in @ THEN @ \ {m} ELSE @ \cup {m}]
    /\ Render(presence, stay, room')
    /\ said' = {}
    /\ UNCHANGED <<where, enabled, channel, stay, left>>

\* The close of the management channel: what was on its way is lost.
ChannelCloses ==
    /\ channel.open
    /\ channel' = [open |-> FALSE, queue |-> <<>>]
    /\ ResetOnly
    /\ said' = {}
    /\ UNCHANGED <<where, enabled, room, stay, left>>

Roster(members, on) == [kind |-> "roster", members |-> members, enabled |-> on]

Inside(w) == {m \in Member : w[m] \in {"in", "out"}}

\* connectEvents: the server begins with a snapshot.
ChannelOpens ==
    /\ ~channel.open
    /\ channel' = [open |-> TRUE, queue |-> <<Roster(Inside(where), enabled)>>]
    /\ ResetOnly
    /\ said' = {}
    /\ UNCHANGED <<where, enabled, room, stay, left>>

\* handleManagementEvent with a roster.
RosterArrives ==
    /\ channel.queue # <<>> /\ Head(channel.queue).kind = "roster"
    /\ LET s == [members |-> Head(channel.queue).members, enabled |-> Head(channel.queue).enabled]
       IN  stay' = s /\ Render(presence, s, room)
    /\ channel' = [channel EXCEPT !.queue = Tail(@)]
    /\ said' = {}
    /\ UNCHANGED <<where, enabled, room, left>>

\* With a departure, which another channel of the client may repeat later (one that was
\* given up too early stays open): memberLeft.
DepartureArrives(again) ==
    /\ channel.queue # <<>> /\ Head(channel.queue).kind = "left"
    /\ channel' = [channel EXCEPT !.queue = IF again THEN Append(Tail(@), Head(@)) ELSE Tail(@)]
    /\ LET m == Head(channel.queue).member
       IN  IF IsNewDeparture(presence, m)
           THEN /\ Len(left) < MaxLeft
                /\ left' = Append(left, m)
                /\ presence' = [presence EXCEPT !.seen = Remembered(@, m), !.pending = @ \ {m}]
           ELSE UNCHANGED <<left, presence>>
    /\ said' = {}
    /\ UNCHANGED <<where, enabled, room, stay, heard>>

\* The timer of two seconds.
TimerFires(m) ==
    /\ m \in presence.pending
    /\ presence' = [presence EXCEPT !.pending = @ \ {m}]
    /\ said' = IF presence.previous[m] = "offline" /\ stay.enabled THEN {m} ELSE {}
    /\ UNCHANGED <<where, enabled, channel, room, stay, heard, left>>

-----------------------------------------------------------------------------
(* The other members, and the server *)

Sends(messages) ==
    /\ channel' = IF channel.open THEN [channel EXCEPT !.queue = @ \o messages] ELSE channel
    /\ Len(channel'.queue) <= MaxQueue

\* A member joins, loses the media room, comes back, or leaves.
MemberMoves(m, to) ==
    /\ \/ where[m] = "outside" /\ to = "in"
       \/ where[m] = "in" /\ to \in {"out", "left"}
       \/ where[m] = "out" /\ to \in {"in", "left"}
    /\ where' = [where EXCEPT ![m] = to]
    /\ Sends(IF to = "left" THEN <<[kind |-> "left", member |-> m], Roster(Inside(where'), enabled)>>
             ELSE <<Roster(Inside(where'), enabled)>>)
    /\ said' = {}
    /\ UNCHANGED <<enabled, room, stay, presence, heard, left>>

\* The host switches the announcements.
Switch ==
    /\ enabled' = ~enabled
    /\ Sends(<<Roster(Inside(where), enabled')>>)
    /\ said' = {}
    /\ UNCHANGED <<where, room, stay, presence, heard, left>>

-----------------------------------------------------------------------------

Init ==
    /\ where = [m \in Member |-> "outside"]
    /\ enabled = FALSE
    /\ channel = [open |-> FALSE, queue |-> <<>>]
    /\ room = [connected |-> FALSE, participants |-> {}]
    /\ stay = [members |-> {}, enabled |-> FALSE]
    /\ presence = [ready |-> FALSE, previous |-> Nobody, pending |-> {}, seen |-> <<>>]
    /\ heard = {} /\ said = {} /\ left = <<>>

Next ==
    \/ RoomBreaks \/ RoomReplaced \/ RoomRecovers \/ ChannelCloses \/ ChannelOpens
    \/ RosterArrives \/ Switch
    \/ \E again \in BOOLEAN : DepartureArrives(again)
    \/ \E m \in Member : ParticipantChanges(m) \/ TimerFires(m)
    \/ \E m \in Member, to \in {"in", "out", "left"} : MemberMoves(m, to)

Spec == Init /\ [][Next]_vars

-----------------------------------------------------------------------------
(* Properties *)

\* A drop is announced of a member that was there since the client began anew (after a
\* break, with a new room or a new channel), and, while the room is connected, of one that
\* is absent now: a recovery does not tell again who was gone before, nor does the timer
\* tell of one who came back within the two seconds (docs/RELEASE_0.2.4.md:5).  While a
\* room is replaced the client does not know, and its timers run on (app.ts:780-783).
DropsAreFresh ==
    \A m \in said : m \in heard /\ (room.connected => m \in stay.members \ room.participants)

\* A departure that is delivered again is not announced again, unless as many others as
\* are remembered came in between.
DeparturesAreToldOnce ==
    \A i, j \in DOMAIN left : i < j /\ left[i] = left[j] => j - i > SeenLimit
=============================================================================
