--------------------------- MODULE PresenceProofs ---------------------------
(***************************************************************************)
(* What holds of PresenceAnnouncer for every value of its constants.       *)
(***************************************************************************)
EXTENDS PresenceAnnouncer, TLAPS

-----------------------------------------------------------------------------
(* Types *)

LEMMA ShownType ==
  ASSUME NEW members, NEW participants
  PROVE  /\ Shown(members, participants) \in [Member -> {"unknown", "online", "offline"}]
         /\ \A m \in Member :
               /\ Shown(members, participants)[m] = "online" <=> m \in members /\ m \in participants
               /\ Shown(members, participants)[m] = "offline" <=> m \in members /\ m \notin participants
BY DEF Shown

LEMMA ResetType ==
  ASSUME NEW p \in PresenceRecord
  PROVE  /\ Reset(p) \in PresenceRecord
         /\ Reset(p).ready = FALSE /\ Reset(p).pending = {} /\ Reset(p).previous = Nobody
         /\ Reset(p).seen = p.seen
BY DEF Reset, PresenceRecord, Nobody

LEMMA ObservedType ==
  ASSUME NEW p, p \in PresenceRecord, NEW on,
         NEW shown, shown \in [Member -> {"unknown", "online", "offline"}]
  PROVE  /\ Observed(p, shown, on) \in PresenceRecord
         /\ Observed(p, shown, on).seen = p.seen
         /\ Observed(p, shown, on).previous = shown
         /\ Observed(p, shown, on).ready
<1> DEFINE dropped == {m \in Member : shown[m] = "offline" /\ p.ready /\ p.previous[m] = "online"}
           gone == {m \in Member : shown[m] = "unknown" /\ p.previous[m] # "unknown"}
           back == {m \in Member : shown[m] = "online"}
           pending == IF on THEN ((p.pending \ back) \cup dropped) \ gone ELSE {}
           o == [p EXCEPT !.ready = TRUE, !.previous = shown, !.pending = pending]
<1>1. Observed(p, shown, on) = o
  BY DEF Observed
<1>2. pending \subseteq Member
  BY DEF PresenceRecord
<1> HIDE DEF pending
<1> QED
  BY <1>1, <1>2 DEF PresenceRecord

\* What observePresence leaves running: timers that ran already, or of members that were
\* online; none while announcements are disabled.
LEMMA ObservedPending ==
  ASSUME NEW p, p \in PresenceRecord, NEW on,
         NEW shown, shown \in [Member -> {"unknown", "online", "offline"}],
         NEW m \in Observed(p, shown, on).pending
  PROVE  /\ on
         /\ m \in Member
         /\ m \in p.pending \/ (p.ready /\ p.previous[m] = "online")
         /\ shown[m] = "offline" \/ (shown[m] = "unknown" /\ p.previous[m] = "unknown")
<1> DEFINE dropped == {n \in Member : shown[n] = "offline" /\ p.ready /\ p.previous[n] = "online"}
           gone == {n \in Member : shown[n] = "unknown" /\ p.previous[n] # "unknown"}
           back == {n \in Member : shown[n] = "online"}
           pending == IF on THEN ((p.pending \ back) \cup dropped) \ gone ELSE {}
<1>1. m \in pending
  BY DEF Observed, PresenceRecord
<1>2. m \in Member /\ on /\ m \notin gone /\ ((m \in p.pending /\ m \notin back) \/ m \in dropped)
  BY <1>1 DEF PresenceRecord
<1>3. shown[m] \in {"unknown", "online", "offline"}
  BY <1>2
<1> QED
  BY <1>2, <1>3

LEMMA RememberedType ==
  ASSUME NEW seen \in Seq(Member), Len(seen) <= SeenLimit, NEW m \in Member
  PROVE  Remembered(seen, m) \in Seq(Member) /\ Len(Remembered(seen, m)) <= SeenLimit
<1>1. Append(seen, m) \in Seq(Member) /\ Len(Append(seen, m)) = Len(seen) + 1
  OBVIOUS
<1>2. CASE Len(Append(seen, m)) > SeenLimit
  <2>1. Append(seen, m) # <<>>
    BY <1>1
  <2>2. Tail(Append(seen, m)) \in Seq(Member) /\ Len(Tail(Append(seen, m))) = Len(seen)
    BY <1>1, <2>1
  <2> QED
    BY <1>2, <2>2 DEF Remembered
<1>3. CASE ~(Len(Append(seen, m)) > SeenLimit)
  BY <1>1, <1>3, PresenceAssumption DEF Remembered
<1> QED
  BY <1>2, <1>3

\* The messages on their way.
LEMMA QueueType ==
  ASSUME TypeOK, channel.queue # <<>>
  PROVE  /\ Head(channel.queue) \in Message
         /\ Tail(channel.queue) \in Seq(Message)
         /\ Append(Tail(channel.queue), Head(channel.queue)) \in Seq(Message)
<1>1. channel.queue \in Seq(Message)
  BY DEF TypeOK
<1>2. Head(channel.queue) \in Message /\ Tail(channel.queue) \in Seq(Message)
  BY <1>1
<1> QED
  BY <1>2

LEMMA MessageType ==
  ASSUME NEW x \in Message
  PROVE  /\ x.kind = "roster" => x.members \subseteq Member /\ x.enabled \in BOOLEAN
         /\ x.kind = "left" => x.member \in Member
BY DEF Message

LEMMA RenderType ==
  ASSUME TypeOK, NEW s, s \in [members: SUBSET Member, enabled: BOOLEAN],
         NEW r, r \in [connected: BOOLEAN, participants: SUBSET Member],
         Render(presence, s, r)
  PROVE  /\ presence' \in PresenceRecord /\ presence'.seen = presence.seen
         /\ heard' \subseteq Member
<1>1. presence \in PresenceRecord
  BY DEF TypeOK
<1>2. CASE r.connected
  <2>1. presence' = Observed(presence, Shown(s.members, r.participants), s.enabled)
    BY <1>2 DEF Render
  <2>2. heard' = heard \cup (s.members \cap r.participants)
    BY <1>2 DEF Render
  <2>3. Shown(s.members, r.participants) \in [Member -> {"unknown", "online", "offline"}]
    BY ShownType
  <2>4. presence' \in PresenceRecord /\ presence'.seen = presence.seen
    BY <1>1, <2>1, <2>3, ObservedType
  <2> QED
    BY <2>2, <2>4 DEF TypeOK
<1>3. CASE ~r.connected
  BY <1>1, <1>3 DEF Render, TypeOK
<1> QED
  BY <1>2, <1>3

LEMMA NextTypeOK == TypeOK /\ [Next]_vars => TypeOK'
<1> SUFFICES ASSUME TypeOK, [Next]_vars
             PROVE  TypeOK'
  OBVIOUS
<1> USE PresenceAssumption
<1>0. presence \in PresenceRecord
  BY DEF TypeOK
<1>1. ASSUME RoomBreaks \/ ChannelCloses \/ ChannelOpens
      PROVE  TypeOK'
  <2>1. Reset(presence) \in PresenceRecord /\ Reset(presence).seen = presence.seen
    BY <1>0, ResetType
  <2>2. [kind |-> "roster", members |-> Inside(where), enabled |-> enabled] \in Message
    BY DEF Message, Inside, TypeOK
  <2>3. <<Roster(Inside(where), enabled)>> \in Seq(Message)
    BY <2>2 DEF Roster
  <2>4. [open |-> TRUE, queue |-> <<Roster(Inside(where), enabled)>>] \in [open: BOOLEAN, queue: Seq(Message)]
    BY <2>3
  <2>5. presence' = Reset(presence) /\ heard' = {} /\ said' = {} /\ UNCHANGED <<where, enabled, stay, left>>
    BY <1>1 DEF RoomBreaks, ChannelCloses, ChannelOpens, ResetOnly
  <2>6. channel' \in [open: BOOLEAN, queue: Seq(Message)]
    <3>1. CASE RoomBreaks
      BY <3>1 DEF RoomBreaks, TypeOK
    <3>2. CASE ChannelCloses
      BY <3>2 DEF ChannelCloses
    <3>3. CASE ChannelOpens
      BY <2>4, <3>3 DEF ChannelOpens
    <3> QED
      BY <1>1, <3>1, <3>2, <3>3
  <2>7. room' \in [connected: BOOLEAN, participants: SUBSET Member]
    BY <1>1 DEF RoomBreaks, ChannelCloses, ChannelOpens, TypeOK
  <2> QED
    BY <2>1, <2>5, <2>6, <2>7 DEF TypeOK
<1>2. ASSUME RoomRecovers
      PROVE  TypeOK'
  <2>1. Reset(presence) \in PresenceRecord /\ Reset(presence).seen = presence.seen
    BY <1>0, ResetType
  <2>2. stay.enabled \in BOOLEAN /\ Present \subseteq Member
    BY DEF TypeOK, Present
  <2>3. Shown(stay.members, Present) \in [Member -> {"unknown", "online", "offline"}]
    BY ShownType
  <2>4. presence' = Observed(Reset(presence), Shown(stay.members, Present), stay.enabled)
    BY <1>2 DEF RoomRecovers
  <2>5. presence' \in PresenceRecord /\ presence'.seen = presence.seen
    BY <2>1, <2>2, <2>3, <2>4, ObservedType
  <2> QED
    BY <1>2, <2>2, <2>5 DEF RoomRecovers, TypeOK
<1>3. ASSUME NEW m \in Member, ParticipantChanges(m)
      PROVE  TypeOK'
  <2>1. room' \in [connected: BOOLEAN, participants: SUBSET Member]
    BY <1>3 DEF ParticipantChanges, TypeOK
  <2>2. stay \in [members: SUBSET Member, enabled: BOOLEAN] /\ Render(presence, stay, room')
    BY <1>3 DEF ParticipantChanges, TypeOK
  <2>3. presence' \in PresenceRecord /\ presence'.seen = presence.seen /\ heard' \subseteq Member
    BY <2>1, <2>2, RenderType
  <2> QED
    BY <1>3, <2>1, <2>3 DEF ParticipantChanges, TypeOK
<1>4. ASSUME RosterArrives
      PROVE  TypeOK'
  <2> DEFINE x == Head(channel.queue)
             s == [members |-> x.members, enabled |-> x.enabled]
  <2>1. x \in Message /\ Tail(channel.queue) \in Seq(Message) /\ x.kind = "roster"
    BY <1>4, QueueType DEF RosterArrives
  <2>2. s \in [members: SUBSET Member, enabled: BOOLEAN]
    BY <2>1, MessageType
  <2>3. stay' = s /\ Render(presence, s, room)
    BY <1>4 DEF RosterArrives
  <2>4. presence' \in PresenceRecord /\ presence'.seen = presence.seen /\ heard' \subseteq Member
    BY <2>2, <2>3, RenderType DEF TypeOK
  <2>5. channel' \in [open: BOOLEAN, queue: Seq(Message)]
    BY <1>4, <2>1 DEF RosterArrives, TypeOK
  <2> QED
    BY <1>4, <2>2, <2>3, <2>4, <2>5 DEF RosterArrives, TypeOK
<1>5. ASSUME NEW again \in BOOLEAN, DepartureArrives(again)
      PROVE  TypeOK'
  <2> DEFINE x == Head(channel.queue)
  <2>1. x \in Message /\ x.kind = "left" /\ Tail(channel.queue) \in Seq(Message)
        /\ Append(Tail(channel.queue), x) \in Seq(Message)
    BY <1>5, QueueType DEF DepartureArrives
  <2>2. x.member \in Member
    BY <2>1, MessageType
  <2>3. channel' \in [open: BOOLEAN, queue: Seq(Message)]
    BY <1>5, <2>1 DEF DepartureArrives, TypeOK
  <2>4. presence.seen \in Seq(Member) /\ Len(presence.seen) <= SeenLimit
    BY DEF TypeOK, PresenceRecord
  <2>5. Remembered(presence.seen, x.member) \in Seq(Member)
        /\ Len(Remembered(presence.seen, x.member)) <= SeenLimit
    BY <2>2, <2>4, RememberedType
  <2>6. presence' \in PresenceRecord /\ Len(presence'.seen) <= SeenLimit
    <3> DEFINE seen == Remembered(presence.seen, x.member)
    <3>1. seen \in Seq(Member) /\ Len(seen) <= SeenLimit
      BY <2>5
    <3>2. \/ presence' = presence
          \/ presence' = [presence EXCEPT !.seen = seen, !.pending = @ \ {x.member}]
      BY <1>5 DEF DepartureArrives
    <3> HIDE DEF seen
    <3>3. presence \in PresenceRecord
      BY DEF TypeOK
    <3>4. CASE presence' = presence
      BY <2>4, <3>3, <3>4
    <3>5. CASE presence' = [presence EXCEPT !.seen = seen, !.pending = @ \ {x.member}]
      <4>1. presence' \in PresenceRecord
        BY ONLY <3>1, <3>3, <3>5 DEF PresenceRecord
      <4>2. presence'.seen = seen
        BY ONLY <3>3, <3>5 DEF PresenceRecord
      <4> QED
        BY ONLY <3>1, <4>1, <4>2
    <3> QED
      BY ONLY <3>2, <3>4, <3>5
  <2>7. left' \in Seq(Member)
    <3>1. left \in Seq(Member) /\ Append(left, x.member) \in Seq(Member)
      BY <2>2 DEF TypeOK
    <3>2. left' = left \/ left' = Append(left, x.member)
      BY <1>5 DEF DepartureArrives
    <3> QED
      BY <3>1, <3>2
  <2> QED
    BY <1>5, <2>3, <2>6, <2>7 DEF DepartureArrives, TypeOK
<1>6. ASSUME NEW m \in Member, TimerFires(m)
      PROVE  TypeOK'
  <2>1. presence' \in PresenceRecord /\ presence'.seen = presence.seen
    BY <1>0, <1>6 DEF TimerFires, PresenceRecord
  <2> QED
    BY <1>6, <2>1 DEF TimerFires, TypeOK
<1>7. ASSUME NEW messages \in Seq(Message), Sends(messages)
      PROVE  channel' \in [open: BOOLEAN, queue: Seq(Message)]
  <2>1. channel \in [open: BOOLEAN, queue: Seq(Message)]
    BY DEF TypeOK
  <2>2. channel.queue \o messages \in Seq(Message)
    BY <2>1
  <2>3. channel' = channel \/ channel' = [channel EXCEPT !.queue = channel.queue \o messages]
    BY <1>7 DEF Sends
  <2> QED
    BY <2>1, <2>2, <2>3
<1>8. ASSUME NEW m \in Member, NEW to \in {"in", "out", "left"}, MemberMoves(m, to)
      PROVE  TypeOK'
  <2>1. where' \in [Member -> {"outside", "in", "out", "left"}]
    BY <1>8 DEF MemberMoves, TypeOK
  <2>2. Roster(Inside(where'), enabled) \in Message
    BY DEF Roster, Inside, Message, TypeOK
  <2>3. [kind |-> "left", member |-> m] \in Message
    BY DEF Message
  <2>4. /\ <<[kind |-> "left", member |-> m], Roster(Inside(where'), enabled)>> \in Seq(Message)
        /\ <<Roster(Inside(where'), enabled)>> \in Seq(Message)
    BY <2>2, <2>3
  <2>5. channel' \in [open: BOOLEAN, queue: Seq(Message)]
    BY <1>7, <1>8, <2>4 DEF MemberMoves
  <2> QED
    BY <1>8, <2>1, <2>5 DEF MemberMoves, TypeOK
<1>9. ASSUME Switch
      PROVE  TypeOK'
  <2>1. enabled' \in BOOLEAN
    BY <1>9 DEF Switch, TypeOK
  <2>2. Roster(Inside(where), enabled') \in Message
    BY <2>1 DEF Roster, Inside, Message
  <2>3. <<Roster(Inside(where), enabled')>> \in Seq(Message)
    BY <2>2
  <2>4. channel' \in [open: BOOLEAN, queue: Seq(Message)]
    BY <1>7, <1>9, <2>3 DEF Switch
  <2> QED
    BY <1>9, <2>1, <2>4 DEF Switch, TypeOK
<1>10. CASE UNCHANGED vars
  BY <1>10 DEF vars, TypeOK
<1>11. CASE RoomReplaced
  BY <1>11 DEF RoomReplaced, TypeOK
<1> QED
  BY <1>1, <1>2, <1>3, <1>4, <1>5, <1>6, <1>8, <1>9, <1>10, <1>11 DEF Next

LEMMA InitTypeOK == Init => TypeOK
<1> SUFFICES ASSUME Init
             PROVE  TypeOK
  OBVIOUS
<1>1. <<>> \in Seq(Member) /\ <<>> \in Seq(Message) /\ Len(<<>>) = 0
  OBVIOUS
<1>2. Nobody \in [Member -> {"unknown", "online", "offline"}]
  BY DEF Nobody
<1>3. presence \in PresenceRecord
  BY <1>1, <1>2 DEF Init, PresenceRecord
<1>4. Len(presence.seen) <= SeenLimit
  BY <1>1, PresenceAssumption DEF Init
<1>5. channel \in [open: BOOLEAN, queue: Seq(Message)] /\ left \in Seq(Member)
  BY <1>1 DEF Init
<1>6. /\ where \in [Member -> {"outside", "in", "out", "left"}]
      /\ enabled \in BOOLEAN
      /\ room \in [connected: BOOLEAN, participants: SUBSET Member]
      /\ stay \in [members: SUBSET Member, enabled: BOOLEAN]
      /\ heard \subseteq Member /\ said \in SUBSET Member
  BY DEF Init
<1> QED
  BY <1>3, <1>4, <1>5, <1>6 DEF TypeOK

\* The shape of the state is kept.
THEOREM TypeCorrect == Spec => []TypeOK
BY InitTypeOK, NextTypeOK, PTL DEF Spec

-----------------------------------------------------------------------------
(* Drops *)

\* Before the first list nothing is known and no timer runs, and a timer runs only for
\* members that were heard of.  While the room is connected, what is known afterwards is
\* what is shown, whoever is shown online has been heard of, and a timer runs only for
\* members that are shown offline, while announcements are enabled.
KnownInv ==
    /\ ~presence.ready => presence.pending = {}
    /\ presence.pending \subseteq heard
    /\ presence.ready /\ room.connected =>
          /\ presence.previous = Shown(stay.members, room.participants)
          /\ stay.members \cap room.participants \subseteq heard
          /\ stay.enabled \/ presence.pending = {}
          /\ presence.pending \subseteq stay.members \ room.participants

\* The list is shown to observePresence.
LEMMA RenderKnown ==
  ASSUME TypeOK, KnownInv,
         stay' \in [members: SUBSET Member, enabled: BOOLEAN],
         room' \in [connected: BOOLEAN, participants: SUBSET Member],
         room'.connected = room.connected,
         Render(presence, stay', room')
  PROVE  KnownInv'
<1>1. presence \in PresenceRecord
  BY DEF TypeOK
<1>2. CASE room'.connected
  <2> DEFINE shown == Shown(stay'.members, room'.participants)
  <2>1. presence' = Observed(presence, shown, stay'.enabled)
    BY <1>2 DEF Render
  <2>2. heard' = heard \cup (stay'.members \cap room'.participants)
    BY <1>2 DEF Render
  <2>3. shown \in [Member -> {"unknown", "online", "offline"}]
    BY ShownType
  <2>4. \A m \in Member : /\ shown[m] = "online" <=> m \in stay'.members /\ m \in room'.participants
                          /\ shown[m] = "offline" <=> m \in stay'.members /\ m \notin room'.participants
    BY ShownType
  <2>5. \A m \in Member :
           /\ Shown(stay.members, room.participants)[m] = "online" <=> m \in stay.members /\ m \in room.participants
           /\ Shown(stay.members, room.participants)[m] = "offline" <=> m \in stay.members /\ m \notin room.participants
    BY ShownType
  <2> HIDE DEF shown
  <2>6. /\ presence'.previous = shown
        /\ \A m \in presence'.pending :
              /\ stay'.enabled
              /\ m \in presence.pending \/ (presence.ready /\ presence.previous[m] = "online")
              /\ shown[m] = "offline" \/ (shown[m] = "unknown" /\ presence.previous[m] = "unknown")
    BY <1>1, <2>1, <2>3, ObservedType, ObservedPending
  <2>7. presence' \in PresenceRecord /\ presence'.ready
    BY <1>1, <2>1, <2>3, ObservedType
  <2>8. ASSUME NEW m \in presence'.pending
        PROVE  stay'.enabled /\ m \in heard' /\ m \in stay'.members \ room'.participants
    <3>1. m \in Member
      BY <2>7 DEF PresenceRecord
    <3>2. presence.ready /\ room.connected
      BY <1>2, <2>6 DEF KnownInv
    <3>3. m \in heard /\ presence.previous[m] # "unknown"
      <4>1. CASE m \in presence.pending
        <5>1. m \in heard /\ m \in stay.members /\ m \notin room.participants
          BY <3>2, <4>1 DEF KnownInv
        <5>2. presence.previous[m] = "offline"
          BY <2>5, <3>1, <3>2, <5>1 DEF KnownInv
        <5> QED
          BY <5>1, <5>2
      <4>2. CASE presence.previous[m] = "online"
        <5>1. m \in stay.members /\ m \in room.participants
          BY <2>5, <3>1, <3>2, <4>2 DEF KnownInv
        <5> QED
          BY <3>2, <4>2, <5>1 DEF KnownInv
      <4> QED
        BY <2>6, <4>1, <4>2
    <3>4. shown[m] = "offline"
      BY <2>6, <3>3
    <3> QED
      BY <2>2, <2>4, <2>6, <3>1, <3>3, <3>4
  <2>9. stay'.members \cap room'.participants \subseteq heard'
    BY <2>2
  <2> QED
    BY <1>2, <2>6, <2>7, <2>8, <2>9 DEF KnownInv, shown
<1>3. CASE ~room'.connected
  BY <1>1, <1>3 DEF Render, KnownInv
<1> QED
  BY <1>2, <1>3

LEMMA NextKnownInv == TypeOK /\ TypeOK' /\ KnownInv /\ [Next]_vars => KnownInv'
<1> SUFFICES ASSUME TypeOK, TypeOK', KnownInv, [Next]_vars
             PROVE  KnownInv'
  OBVIOUS
<1>0. presence \in PresenceRecord
  BY DEF TypeOK
<1>1. ASSUME presence' = Reset(presence)
      PROVE  KnownInv'
  BY <1>0, <1>1, ResetType DEF KnownInv
<1>2. ASSUME RoomRecovers
      PROVE  KnownInv'
  <2> DEFINE shown == Shown(stay.members, Present)
  <2>1. Reset(presence) \in PresenceRecord /\ Reset(presence).ready = FALSE /\ Reset(presence).pending = {}
    BY <1>0, ResetType
  <2>2. shown \in [Member -> {"unknown", "online", "offline"}]
    BY ShownType
  <2>3. presence' = Observed(Reset(presence), shown, stay.enabled)
    BY <1>2 DEF RoomRecovers
  <2> HIDE DEF shown
  <2>4. presence'.previous = shown /\ presence'.pending = {}
    BY <2>1, <2>2, <2>3, ObservedType, ObservedPending
  <2> QED
    BY <1>2, <2>4 DEF RoomRecovers, KnownInv, shown
<1>3. ASSUME NEW m \in Member, ParticipantChanges(m)
      PROVE  KnownInv'
  <2>1. room'.connected = room.connected /\ stay' = stay
    BY <1>3 DEF ParticipantChanges, TypeOK
  <2>2. Render(presence, stay', room')
    BY <1>3, <2>1 DEF ParticipantChanges
  <2> QED
    BY <2>1, <2>2, RenderKnown DEF TypeOK
<1>4. ASSUME RosterArrives
      PROVE  KnownInv'
  <2>1. room' = room /\ Render(presence, stay', room')
    BY <1>4 DEF RosterArrives
  <2> QED
    BY <2>1, RenderKnown DEF TypeOK
<1>5. ASSUME UNCHANGED <<room, stay, heard>>,
             presence'.ready = presence.ready, presence'.previous = presence.previous,
             presence'.pending \subseteq presence.pending
      PROVE  KnownInv'
  BY <1>5 DEF KnownInv
<1>6. ASSUME NEW again \in BOOLEAN, DepartureArrives(again)
      PROVE  KnownInv'
  <2>1. /\ presence'.ready = presence.ready /\ presence'.previous = presence.previous
        /\ presence'.pending \subseteq presence.pending
    <3>1. presence \in PresenceRecord
      BY DEF TypeOK
    <3> DEFINE m == Head(channel.queue).member
               s == Remembered(presence.seen, m)
    <3>2. \/ presence' = presence
          \/ presence' = [presence EXCEPT !.seen = s, !.pending = @ \ {m}]
      BY ONLY <1>6 DEF DepartureArrives
    <3> HIDE DEF m, s
    <3>3. CASE presence' = presence
      BY ONLY <3>3
    <3>4. CASE presence' = [presence EXCEPT !.seen = s, !.pending = @ \ {m}]
      <4>1. /\ presence'.ready = presence.ready /\ presence'.previous = presence.previous
            /\ presence'.pending = presence.pending \ {m}
        BY ONLY <3>1, <3>4 DEF PresenceRecord
      <4> QED
        BY ONLY <4>1
    <3> QED
      BY ONLY <3>2, <3>3, <3>4
  <2> QED
    BY <1>5, <1>6, <2>1 DEF DepartureArrives
<1>7. ASSUME NEW m \in Member, TimerFires(m)
      PROVE  KnownInv'
  <2>1. /\ presence'.ready = presence.ready /\ presence'.previous = presence.previous
        /\ presence'.pending \subseteq presence.pending
    BY <1>0, <1>7 DEF TimerFires, PresenceRecord
  <2> QED
    BY <1>5, <1>7, <2>1 DEF TimerFires
<1>8. CASE RoomReplaced
  BY <1>8 DEF RoomReplaced, KnownInv, TypeOK
<1> QED
  BY <1>1, <1>2, <1>3, <1>4, <1>5, <1>6, <1>7, <1>8
  DEF Next, vars, RoomBreaks, ChannelCloses, ChannelOpens, ResetOnly, MemberMoves, Switch

\* A drop is announced when its timer fires.
LEMMA NextDrops == TypeOK /\ KnownInv /\ DropsAreFresh /\ [Next]_vars => DropsAreFresh'
<1> SUFFICES ASSUME TypeOK, KnownInv, DropsAreFresh, [Next]_vars
             PROVE  DropsAreFresh'
  OBVIOUS
<1>1. ASSUME NEW m \in Member, TimerFires(m)
      PROVE  DropsAreFresh'
  <2>1. said' \subseteq {m} /\ m \in presence.pending /\ UNCHANGED <<room, stay, heard>>
    BY <1>1 DEF TimerFires
  <2>2. presence.ready
    BY <2>1 DEF KnownInv
  <2> QED
    BY <2>1, <2>2 DEF KnownInv, DropsAreFresh
<1>2. ASSUME said' = {}
      PROVE  DropsAreFresh'
  BY <1>2 DEF DropsAreFresh
<1>3. CASE UNCHANGED vars
  BY <1>3 DEF vars, DropsAreFresh
<1> QED
  BY <1>1, <1>2, <1>3
  DEF Next, RoomBreaks, RoomReplaced, RoomRecovers, ChannelCloses, ChannelOpens, RosterArrives, Switch,
      DepartureArrives, ParticipantChanges, MemberMoves

\* Only fresh drops are announced, however many members there are.
THEOREM DropsFresh == Spec => []DropsAreFresh
<1> DEFINE Inv == TypeOK /\ KnownInv /\ DropsAreFresh
<1>1. Init => Inv
  <2>1. Init => TypeOK
    BY InitTypeOK
  <2>2. Init => KnownInv /\ DropsAreFresh
    BY DEF Init, KnownInv, DropsAreFresh
  <2> QED
    BY <2>1, <2>2
<1>2. Inv /\ [Next]_vars => Inv'
  BY NextTypeOK, NextKnownInv, NextDrops
<1> QED
  BY <1>1, <1>2, PTL DEF Spec
-----------------------------------------------------------------------------
(* Departures *)

\* What is remembered is the end of the departures that were accepted, all of them while
\* there is room.
SeenIsRecent ==
    /\ Len(presence.seen) <= Len(left)
    /\ Len(presence.seen) < SeenLimit => Len(presence.seen) = Len(left)
    /\ \A k \in 1..Len(presence.seen) :
          presence.seen[k] = left[Len(left) - Len(presence.seen) + k]

LEMMA NextSeenIsRecent ==
  ASSUME TypeOK, SeenIsRecent, DeparturesAreToldOnce, [Next]_vars
  PROVE  SeenIsRecent' /\ DeparturesAreToldOnce'
<1>0. presence \in PresenceRecord /\ stay.enabled \in BOOLEAN
  BY DEF TypeOK
<1>1. ASSUME presence'.seen = presence.seen, left' = left
      PROVE  SeenIsRecent' /\ DeparturesAreToldOnce'
  BY <1>1 DEF SeenIsRecent, DeparturesAreToldOnce
<1>2. ASSUME NEW again \in BOOLEAN, DepartureArrives(again)
      PROVE  SeenIsRecent' /\ DeparturesAreToldOnce'
  <2> DEFINE m == Head(channel.queue).member
             seen == presence.seen
             n == Len(left)
             l == Len(seen)
  <2>1. CASE IsNewDeparture(presence, m)
    <3>1. left' = Append(left, m) /\ presence'.seen = Remembered(seen, m)
      BY <1>0, <1>2, <2>1 DEF DepartureArrives, PresenceRecord
    <3>2. m \in Member
      BY <1>2, QueueType, MessageType DEF DepartureArrives
    <3>3. seen \in Seq(Member) /\ left \in Seq(Member) /\ l \in Nat /\ n \in Nat /\ l <= SeenLimit
      BY DEF TypeOK, PresenceRecord
    <3>4. l <= n /\ (l < SeenLimit => l = n) /\ \A k \in 1..l : seen[k] = left[n - l + k]
      BY DEF SeenIsRecent
    <3>5. \A k \in 1..l : seen[k] # m
      BY <2>1, <3>3 DEF IsNewDeparture
    <3> HIDE DEF m, seen, l, n
    <3>6. \A i \in 1..n : left[i] = m => i <= n - l
      <4> SUFFICES ASSUME NEW i \in 1..n, i > n - l
                   PROVE  left[i] # m
        BY <3>3
      <4>1. \E k \in 1..l : n - l + k = i
        <5>1. i - (n - l) \in 1..l /\ n - l + (i - (n - l)) = i
          BY <3>3, <3>4
        <5> QED
          BY <5>1
      <4>2. PICK k \in 1..l : n - l + k = i
        BY <4>1
      <4> QED
        BY <3>4, <3>5, <4>2
    <3>7. Len(left') = n + 1 /\ left'[n + 1] = m /\ \A i \in 1..n : left'[i] = left[i]
      BY <3>1, <3>2, <3>3 DEF n
    <3>8. DOMAIN left = 1..n /\ DOMAIN left' = 1..(n + 1)
      BY <3>1, <3>2, <3>3, <3>7 DEF n
    <3>9. SeenLimit \in Nat \ {0}
      BY PresenceAssumption
    <3>10. DeparturesAreToldOnce'
      <4> SUFFICES ASSUME NEW i \in 1..(n + 1), NEW j \in 1..(n + 1), i < j, left'[i] = left'[j]
                   PROVE  j - i > SeenLimit
        BY <3>8 DEF DeparturesAreToldOnce
      <4>1. CASE j = n + 1
        <5>1. i \in 1..n /\ left[i] = m
          BY <3>3, <3>7, <4>1
        <5>2. i <= n - l /\ 1 <= i
          BY <3>6, <5>1
        <5>3. l = SeenLimit
          BY <3>3, <3>4, <3>9, <5>2
        <5> QED
          BY <3>3, <3>9, <4>1, <5>2, <5>3
      <4>2. CASE j # n + 1
        <5>1. i \in 1..n /\ j \in 1..n
          BY <3>3, <4>2
        <5>2. left[i] = left[j]
          BY <3>7, <5>1
        <5> QED
          BY <3>8, <5>1, <5>2 DEF DeparturesAreToldOnce
      <4> QED
        BY <4>1, <4>2
    <3>11. SeenIsRecent'
      <4> DEFINE more == Append(seen, m)
      <4>1. /\ more \in Seq(Member) /\ Len(more) = l + 1 /\ more[l + 1] = m
            /\ \A k \in 1..l : more[k] = seen[k]
        BY <3>2, <3>3 DEF l
      <4>2. \A k \in 1..(l + 1) : more[k] = left'[n - l + k]
        <5> SUFFICES ASSUME NEW k \in 1..(l + 1)
                     PROVE  more[k] = left'[n - l + k]
          OBVIOUS
        <5>1. CASE k = l + 1
          <6>1. n - l + k = n + 1
            BY <3>3, <5>1
          <6> QED
            BY <3>7, <4>1, <5>1, <6>1
        <5>2. CASE k # l + 1
          <6>1. k \in 1..l /\ n - l + k \in 1..n
            BY <3>3, <3>4, <5>2
          <6> QED
            BY <3>4, <3>7, <4>1, <6>1
        <5> QED
          BY <5>1, <5>2
      <4> HIDE DEF more
      <4>3. presence'.seen = IF l + 1 > SeenLimit THEN Tail(more) ELSE more
        BY <3>1, <4>1 DEF Remembered, more
      <4>4. CASE l + 1 > SeenLimit
        <5>1. l = SeenLimit
          BY <3>3, <3>9, <4>4
        <5>2. Len(Tail(more)) = l /\ \A k \in 1..l : Tail(more)[k] = more[k + 1]
          BY <3>3, <4>1
        <5>3. \A k \in 1..l : Tail(more)[k] = left'[(n + 1) - l + k]
          <6> SUFFICES ASSUME NEW k \in 1..l
                       PROVE  Tail(more)[k] = left'[(n + 1) - l + k]
            OBVIOUS
          <6>1. k + 1 \in 1..(l + 1) /\ n - l + (k + 1) = (n + 1) - l + k
            BY <3>3
          <6> QED
            BY <4>2, <5>2, <6>1
        <5>4. presence'.seen = Tail(more)
          BY <4>3, <4>4
        <5>5. Len(presence'.seen) = l /\ Len(left') = n + 1
          BY <3>7, <5>2, <5>4
        <5>6. \A k \in 1..l : presence'.seen[k] = left'[(n + 1) - l + k]
          BY <5>3, <5>4
        <5>7. l <= n + 1 /\ ~(l < SeenLimit)
          BY <3>3, <3>4, <5>1
        <5> QED
          BY <5>5, <5>6, <5>7 DEF SeenIsRecent
      <4>5. CASE ~(l + 1 > SeenLimit)
        <5>1. presence'.seen = more /\ l = n
          BY <3>3, <3>4, <3>9, <4>3, <4>5
        <5>2. \A k \in 1..(l + 1) : more[k] = left'[(n + 1) - (l + 1) + k]
          <6> SUFFICES ASSUME NEW k \in 1..(l + 1)
                       PROVE  more[k] = left'[(n + 1) - (l + 1) + k]
            OBVIOUS
          <6>1. (n + 1) - (l + 1) + k = n - l + k
            BY <3>3
          <6> QED
            BY <4>2, <6>1
        <5> QED
          BY <3>3, <3>7, <4>1, <5>1, <5>2 DEF SeenIsRecent
      <4> QED
        BY <4>4, <4>5
    <3> QED
      BY <3>10, <3>11
  <2>2. CASE ~IsNewDeparture(presence, m)
    BY <1>1, <1>2, <2>2 DEF DepartureArrives
  <2> QED
    BY <2>1, <2>2
<1>3. ASSUME NEW m \in Member, TimerFires(m)
      PROVE  SeenIsRecent' /\ DeparturesAreToldOnce'
  BY <1>0, <1>1, <1>3 DEF TimerFires, PresenceRecord
<1>4. ASSUME RosterArrives
      PROVE  SeenIsRecent' /\ DeparturesAreToldOnce'
  <2> DEFINE x == Head(channel.queue)
             s == [members |-> x.members, enabled |-> x.enabled]
  <2>1. x \in Message /\ x.kind = "roster"
    BY <1>4, QueueType DEF RosterArrives
  <2>2. s \in [members: SUBSET Member, enabled: BOOLEAN]
    BY <2>1, MessageType
  <2>3. Render(presence, s, room) /\ left' = left
    BY <1>4 DEF RosterArrives
  <2>4. presence'.seen = presence.seen
    BY <2>2, <2>3, RenderType DEF TypeOK
  <2> QED
    BY <1>1, <2>3, <2>4
<1>5. ASSUME NEW m \in Member, ParticipantChanges(m)
      PROVE  SeenIsRecent' /\ DeparturesAreToldOnce'
  <2>1. room' \in [connected: BOOLEAN, participants: SUBSET Member]
    BY <1>5 DEF ParticipantChanges, TypeOK
  <2>2. Render(presence, stay, room') /\ left' = left
    BY <1>5 DEF ParticipantChanges
  <2>3. presence'.seen = presence.seen
    BY <2>1, <2>2, RenderType DEF TypeOK
  <2> QED
    BY <1>1, <2>2, <2>3
<1>6. ASSUME RoomRecovers
      PROVE  SeenIsRecent' /\ DeparturesAreToldOnce'
  <2>1. presence \in PresenceRecord
    BY DEF TypeOK
  <2>2. Reset(presence) \in PresenceRecord /\ Reset(presence).seen = presence.seen
    BY <2>1, ResetType
  <2>3. Shown(stay.members, Present) \in [Member -> {"unknown", "online", "offline"}]
    BY ShownType
  <2>4. presence' = Observed(Reset(presence), Shown(stay.members, Present), stay.enabled) /\ left' = left
    BY <1>6 DEF RoomRecovers
  <2>5. presence'.seen = presence.seen
    BY <2>2, <2>3, <2>4, ObservedType
  <2> QED
    BY <1>1, <2>4, <2>5
<1>7. ASSUME presence' = Reset(presence), left' = left
      PROVE  SeenIsRecent' /\ DeparturesAreToldOnce'
  BY <1>0, <1>1, <1>7, ResetType
<1> QED
  BY <1>1, <1>2, <1>3, <1>4, <1>5, <1>6, <1>7
  DEF Next, vars, RoomBreaks, RoomReplaced, ChannelCloses, ChannelOpens, ResetOnly,
      MemberMoves, Switch

\* Whatever the limit is, a departure is announced again only after that many others.
THEOREM DeparturesOnce == Spec => []DeparturesAreToldOnce
<1> DEFINE Inv == TypeOK /\ SeenIsRecent /\ DeparturesAreToldOnce
<1>1. Init => Inv
  <2>1. Init => SeenIsRecent /\ DeparturesAreToldOnce
    BY DEF Init, SeenIsRecent, DeparturesAreToldOnce
  <2> QED
    BY <2>1, InitTypeOK
<1>2. Inv /\ [Next]_vars => Inv'
  BY NextTypeOK, NextSeenIsRecent
<1> QED
  BY <1>1, <1>2, PTL DEF Spec
=============================================================================
