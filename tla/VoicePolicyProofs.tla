-------------------------- MODULE VoicePolicyProofs --------------------------
(***************************************************************************)
(* What holds of VoicePolicy for every number of handlers and attempts,    *)
(* and every bound.                                                        *)
(***************************************************************************)
EXTENDS VoicePolicy, TLAPS

-----------------------------------------------------------------------------
(* Types *)

LEMMA RunTypes ==
  /\ Idle \in RunRecord
  /\ \A b \in BOOLEAN : Waiting(b) \in RunRecord
  /\ \A r \in RunRecord : Ended(r) \in RunRecord
<1>1. 0 \in 0..(Attempts - 1)
  BY VoicePolicyAssumption
<1>2. Idle \in RunRecord
  BY <1>1 DEF Idle, RunRecord
<1>3. ASSUME NEW b \in BOOLEAN, NEW pc \in {"waiting", "telling"}
      PROVE  [Idle EXCEPT !.pc = pc, !.tells = b] \in RunRecord
  BY <1>2 DEF RunRecord
<1>4. \A r \in RunRecord : Ended(r) \in RunRecord
  BY <1>2, <1>3 DEF Ended
<1> QED
  BY <1>2, <1>3, <1>4 DEF Waiting

LEMMA RemovedType ==
  ASSUME NEW S, NEW s \in Seq(S), NEW i \in DOMAIN s
  PROVE  RemoveAt(s, i) \in Seq(S)
<1>1. i \in 1..Len(s)
  OBVIOUS
<1>2. SubSeq(s, 1, i - 1) \in Seq(S) /\ SubSeq(s, i + 1, Len(s)) \in Seq(S)
  BY <1>1
<1> QED
  BY <1>2 DEF RemoveAt

LEMMA RequestType ==
  ASSUME NEW c \in ClientRecord, NEW ch \in ChannelRecord, NEW connected, NEW force,
         Request(c, ch, connected, force)
  PROVE  client' \in ClientRecord /\ channel' \in ChannelRecord
<1>1. ASSUME NEW timer \in BOOLEAN PROVE [c EXCEPT !.timer = timer] \in ClientRecord
  BY DEF ClientRecord
<1>2. ASSUME NEW asked \in BOOLEAN PROVE [ch EXCEPT !.asked = asked] \in ChannelRecord
  BY DEF ChannelRecord
<1>3. PICK timer, asked : client' = [c EXCEPT !.timer = timer] /\ timer \in BOOLEAN
                          /\ channel' = [ch EXCEPT !.asked = asked] /\ asked \in BOOLEAN
  <2>1. /\ ((connected /\ ch.open) /\ Repeats(c)) \in BOOLEAN
        /\ (ch.asked \/ ((connected /\ ch.open) /\ (force \/ Disagrees(c)))) \in BOOLEAN
    OBVIOUS
  <2> QED
    BY <2>1, Zenon DEF Request
<1> QED
  BY <1>1, <1>2, <1>3

LEMMA PreparedType ==
  ASSUME TypeOK, NEW e \in Event, Prepared(e)
  PROVE  outbox' \in Seq(Event)
BY DEF TypeOK, Prepared

LEMMA AllowedType ==
  ASSUME NEW m \in MemberRecord
  PROVE  Allowed(m) \in BOOLEAN
BY Zenon DEF Allowed

LEMMA DisturbanceType ==
  ASSUME TypeOK, Disturbance
  PROVE  disturbances' \in Nat
BY DEF TypeOK, Disturbance

LEMMA BecomesType ==
  ASSUME TypeOK, NEW m \in MemberRecord, Becomes(m)
  PROVE  member' \in MemberRecord /\ unsynced' \in BOOLEAN /\ disturbances' \in Nat
<1>1. member' = m /\ disturbances' \in Nat
  BY DisturbanceType DEF Becomes
<1>2. unsynced' \in BOOLEAN
  BY Zenon DEF Becomes
<1> QED
  BY <1>1, <1>2 DEF TypeOK

LEMMA ObeysType ==
  ASSUME TypeOK, NEW can \in BOOLEAN, NEW by \in {"token", "call", "late"}, Obeys(can, by)
  PROVE  media' \in MediaRecord
BY DEF TypeOK, Obeys, MediaRecord

LEMMA AttemptType ==
  ASSUME TypeOK, NEW r \in Run, Attempt(r)
  PROVE  run' \in [Run -> RunRecord]
<1> DEFINE a == Allowed(member)
           new == IF member.present THEN [run[r] EXCEPT !.pc = "calling", !.allowed = a]
                  ELSE Ended(run[r])
<1>1. a \in BOOLEAN
  BY AllowedType DEF TypeOK
<1>2. run[r] \in RunRecord
  BY DEF TypeOK
<1>3. Ended(run[r]) \in RunRecord
  BY <1>2, RunTypes
<1>4. run' = [run EXCEPT ![r] = new]
  BY DEF Attempt
<1> HIDE DEF a
<1>5. new \in RunRecord
  BY <1>1, <1>2, <1>3 DEF RunRecord
<1> QED
  BY <1>4, <1>5 DEF TypeOK

LEMMA PostponedType ==
  ASSUME NEW r \in RunRecord
  PROVE  Postponed(r) \in RunRecord
<1>1. CASE GivesUp(r)
  BY <1>1, RunTypes DEF Postponed
<1>2. CASE ~GivesUp(r)
  <2>1. r.tries \in 0..(Attempts - 1) /\ r.tries + 1 # Attempts
    BY <1>2 DEF GivesUp, RunRecord
  <2>2. r.tries + 1 \in 0..(Attempts - 1)
    BY <2>1, VoicePolicyAssumption
  <2> QED
    BY <1>2, <2>2 DEF Postponed, RunRecord
<1> QED
  BY <1>1, <1>2

\* The steps of one handler.
LEMMA SynchroniseType ==
  ASSUME TypeOK, NEW r \in Run, Synchronise(r)
  PROVE  TypeOK'
<1>0. run[r] \in RunRecord /\ Ended(run[r]) \in RunRecord
  BY RunTypes DEF TypeOK
<1>1. CASE Begin(r)
  BY <1>1, AttemptType DEF TypeOK, Begin
<1>2. CASE Retry(r)
  <2>1. run' \in [Run -> RunRecord]
    <3>1. CASE run[r].expired
      BY <1>0, <1>2, <3>1 DEF TypeOK, Retry
    <3>2. CASE ~run[r].expired
      BY <1>2, <3>2, AttemptType DEF Retry
    <3> QED
      BY <3>1, <3>2
  <2> QED
    BY <1>2, <2>1 DEF TypeOK, Retry
<1>3. CASE CallReturns(r)
  <2>1. ASSUME NEW ok \in BOOLEAN, Answer(r, ok) PROVE run' \in [Run -> RunRecord]
    BY <1>0, <2>1 DEF Answer, TypeOK, RunRecord
  <2>2. run' \in [Run -> RunRecord] /\ media' \in MediaRecord
    <3>1. CASE run[r].expired
      BY <1>3, <2>1, <3>1 DEF CallReturns, TypeOK
    <3>2. CASE ~run[r].expired
      <4>1. Answer(r, media.connected) /\ Obeys(run[r].allowed, "call")
        BY <1>3, <3>2 DEF CallReturns
      <4>2. media.connected \in BOOLEAN /\ run[r].allowed \in BOOLEAN
        BY <1>0 DEF TypeOK, MediaRecord, RunRecord
      <4> QED
        BY <2>1, <4>1, <4>2, ObeysType
    <3> QED
      BY <3>1, <3>2
  <2> QED
    BY <1>3, <2>2 DEF TypeOK, CallReturns
<1>4. CASE Check(r)
  <2>1. run' \in [Run -> RunRecord] /\ unsynced' \in BOOLEAN
    <3>1. CASE run[r].ok /\ Unchanged(r)
      BY <1>0, <1>4, <3>1 DEF Check, TypeOK
    <3>2. CASE ~(run[r].ok /\ Unchanged(r))
      BY <1>0, <1>4, <3>2, PostponedType DEF Check, TypeOK
    <3> QED
      BY <3>1, <3>2
  <2> QED
    BY <1>4, <2>1 DEF TypeOK, Check
<1>5. CASE Expire(r)
  BY <1>0, <1>5, DisturbanceType DEF TypeOK, Expire, RunRecord
<1>6. ASSUME NEW fate \in {"lost", "done", "late"}, NEW over \in BOOLEAN,
             CallFails(r, fate, over)
      PROVE  TypeOK'
  <2>1. run' \in [Run -> RunRecord]
    BY <1>0, <1>6 DEF TypeOK, CallFails, RunRecord
  <2>2. run[r].allowed \in BOOLEAN
    BY <1>0 DEF RunRecord
  <2>3. media' \in MediaRecord /\ late' \subseteq BOOLEAN
    BY <1>6, <2>2, ObeysType DEF TypeOK, CallFails
  <2>4. disturbances' \in Nat
    BY <1>6, DisturbanceType DEF CallFails
  <2> QED
    BY <1>6, <2>1, <2>3, <2>4 DEF TypeOK, CallFails
<1> QED
  BY <1>1, <1>2, <1>3, <1>4, <1>5, <1>6 DEF Synchronise

\* The steps of the registry, which prepare an event.
LEMMA RegistryType ==
  ASSUME TypeOK,
         \/ \E r \in Run, speak \in BOOLEAN : SetVoicePolicy(r, speak)
         \/ \E b \in BOOLEAN : ChangeRole(b)
         \/ \E kind \in {"role", "other"} : OtherChanges(kind)
         \/ Leave
  PROVE  TypeOK'
<1>1. ASSUME NEW r \in Run, NEW speak \in BOOLEAN, SetVoicePolicy(r, speak)
      PROVE  TypeOK'
  <2>1. [member EXCEPT !.speak = speak] \in MemberRecord
    BY DEF TypeOK, MemberRecord
  <2>2. [by |-> r, kind |-> "own", host |-> FALSE, speak |-> speak] \in Event
    BY DEF Event
  <2>3. run' \in [Run -> RunRecord]
    BY <1>1, RunTypes DEF SetVoicePolicy, TypeOK
  <2> QED
    BY <1>1, <2>1, <2>2, <2>3, BecomesType, PreparedType DEF SetVoicePolicy, TypeOK
<1>2. ASSUME NEW b \in BOOLEAN, ChangeRole(b)
      PROVE  TypeOK'
  <2> DEFINE new == IF b THEN Promoted(member) ELSE [member EXCEPT !.host = FALSE]
  <2>1. new \in MemberRecord
    BY DEF TypeOK, MemberRecord, Promoted
  <2>2. Becomes(new)
    BY <1>2 DEF ChangeRole
  <2> HIDE DEF new
  <2>3. member' \in MemberRecord /\ unsynced' \in BOOLEAN /\ disturbances' \in Nat
    BY <2>1, <2>2, BecomesType
  <2>4. [by |-> "server", kind |-> "role", host |-> b, speak |-> member'.speak] \in Event
    BY <2>3 DEF Event, MemberRecord
  <2>5. outbox' \in Seq(Event)
    BY <1>2, <2>4, PreparedType DEF ChangeRole
  <2> QED
    BY <1>2, <2>3, <2>5 DEF ChangeRole, TypeOK
<1>3. ASSUME NEW kind \in {"role", "other"}, OtherChanges(kind)
      PROVE  TypeOK'
  <2>1. [by |-> "server", kind |-> kind, host |-> member.host, speak |-> member.speak] \in Event
    BY DEF TypeOK, MemberRecord, Event
  <2>2. member \in MemberRecord
    BY DEF TypeOK
  <2> QED
    BY <1>3, <2>1, <2>2, BecomesType, PreparedType DEF OtherChanges, TypeOK
<1>4. CASE Leave
  <2>1. [member EXCEPT !.present = FALSE] \in MemberRecord
    BY DEF TypeOK, MemberRecord
  <2>2. channel' \in ChannelRecord
    BY <1>4 DEF Leave, ChannelRecord
  <2> QED
    BY <1>4, <2>1, <2>2, BecomesType DEF Leave, TypeOK
<1> QED
  BY <1>1, <1>2, <1>3, <1>4

LEMMA SendType ==
  ASSUME TypeOK, NEW i \in DOMAIN outbox, Send(i)
  PROVE  TypeOK'
<1>1. outbox[i] \in Event
  BY DEF TypeOK
<1>2. outbox' \in Seq(Event)
  BY RemovedType DEF Send, TypeOK
<1>3. run' \in [Run -> RunRecord]
  BY RunTypes DEF Send, TypeOK
<1>4. [outbox[i] EXCEPT !.by = "server"] \in Event
  BY <1>1 DEF Event
<1>5. channel' \in ChannelRecord
  <2> DEFINE e == [outbox[i] EXCEPT !.by = "server"]
  <2>1. e \in Event
    BY <1>4
  <2>2. channel' = channel \/ channel' = [channel EXCEPT !.queue = Append(channel.queue, e)]
    BY DEF Send
  <2> HIDE DEF e
  <2>3. channel \in ChannelRecord
    BY DEF TypeOK
  <2>4. Append(channel.queue, e) \in Seq(Event)
    BY ONLY <2>1, <2>3 DEF ChannelRecord
  <2> QED
    BY ONLY <2>2, <2>3, <2>4 DEF ChannelRecord
<1> QED
  BY <1>2, <1>3, <1>5 DEF Send, TypeOK

LEMMA SeenType ==
  ASSUME NEW c \in ClientRecord, NEW e \in Event
  PROVE  Seen(c, e) \in ClientRecord
<1> DEFINE host == IF e.kind = "role" THEN e.host ELSE c.host
           rosters == IF e.kind = "own" THEN Append(c.rosters, e.speak) ELSE c.rosters
<1>1. host \in BOOLEAN /\ e.speak \in BOOLEAN
  BY DEF Event, ClientRecord
<1>2. rosters \in Seq(BOOLEAN)
  <2>1. c.rosters \in Seq(BOOLEAN)
    BY DEF ClientRecord
  <2>2. ASSUME NEW b \in BOOLEAN PROVE Append(c.rosters, b) \in Seq(BOOLEAN)
    BY ONLY <2>1, <2>2
  <2> QED
    BY <1>1, <2>1, <2>2
<1>3. Seen(c, e) = [c EXCEPT !.speak = e.speak, !.host = host, !.rosters = rosters]
  BY DEF Seen
<1> HIDE DEF host, rosters
<1> QED
  BY <1>1, <1>2, <1>3 DEF ClientRecord

\* The steps of the client, of its connections and of LiveKit.
LEMMA ClientType ==
  ASSUME TypeOK,
         \/ Deliver \/ RosterApplies \/ TimerFires \/ PermissionArrives \/ RequestIsLost
         \/ ChannelOpens \/ ChannelCloses \/ MediaConnects \/ MediaDrops
         \/ \E b \in BOOLEAN : LateCall(b)
         \/ \E r \in Run : Hear(r)
  PROVE  TypeOK'
<1>0. client \in ClientRecord /\ channel \in ChannelRecord /\ member \in MemberRecord
  BY DEF TypeOK
<1>1. CASE Deliver
  <2>1. Head(channel.queue) \in Event /\ Tail(channel.queue) \in Seq(Event)
    BY <1>0, <1>1 DEF Deliver, ChannelRecord
  <2>2. Seen(client, Head(channel.queue)) \in ClientRecord
    BY <1>0, <2>1, SeenType
  <2>3. [channel EXCEPT !.queue = Tail(@)] \in ChannelRecord
    BY <1>0, <2>1 DEF ChannelRecord
  <2> QED
    BY <1>1, <2>2, <2>3, RequestType DEF Deliver, TypeOK
<1>2. CASE TimerFires
  BY <1>0, <1>2, RequestType DEF TimerFires, TypeOK
<1>3. CASE PermissionArrives
  <2>1. [client EXCEPT !.can = media.can] \in ClientRecord
    BY <1>0 DEF TypeOK, MediaRecord, ClientRecord
  <2> QED
    BY <1>0, <1>3, <2>1, RequestType DEF PermissionArrives, TypeOK
<1>4. CASE RequestIsLost
  BY <1>0, <1>4, DisturbanceType DEF RequestIsLost, TypeOK, ChannelRecord
<1>5. CASE ChannelOpens
  <2>1. [by |-> "server", kind |-> "role", host |-> member.host, speak |-> member.speak] \in Event
    BY <1>0 DEF MemberRecord, Event
  <2>2. [channel EXCEPT !.open = TRUE] \in ChannelRecord
    BY <1>0 DEF ChannelRecord
  <2> QED
    BY <1>0, <1>5, <2>1, <2>2, PreparedType, RequestType DEF ChannelOpens, TypeOK
<1>6. CASE ChannelCloses
  BY <1>6, DisturbanceType DEF ChannelCloses, TypeOK, ChannelRecord
<1>7. CASE MediaConnects
  <2>1. media' \in MediaRecord
    BY <1>7 DEF MediaConnects, FromToken, MediaRecord
  <2>2. [client EXCEPT !.can = media'.can] \in ClientRecord
    BY <1>0, <2>1 DEF MediaRecord, ClientRecord
  <2> QED
    BY <1>0, <1>7, <2>1, <2>2, RequestType DEF MediaConnects, TypeOK
<1>8. CASE MediaDrops
  BY <1>8, DisturbanceType DEF MediaDrops, TypeOK, MediaRecord
<1>9. ASSUME NEW b \in BOOLEAN, LateCall(b) PROVE TypeOK'
  BY <1>9, ObeysType DEF LateCall, TypeOK
<1>10. ASSUME NEW r \in Run, Hear(r) PROVE TypeOK'
  <2>1. run' \in [Run -> RunRecord]
    BY <1>10, RunTypes DEF Hear, TypeOK
  <2>2. channel' \in ChannelRecord
    BY <1>0, <1>10 DEF Hear, ChannelRecord
  <2> QED
    BY <1>10, <2>1, <2>2 DEF Hear, TypeOK
<1>11. CASE RosterApplies
  <2>1. PICK i \in DOMAIN client.rosters :
           Request([client EXCEPT !.speak = client.rosters[i], !.rosters = RemoveAt(@, i)],
                   channel, media.connected, FALSE)
    BY <1>11 DEF RosterApplies
  <2>2. client.rosters \in Seq(BOOLEAN)
    BY <1>0 DEF ClientRecord
  <2>3. client.rosters[i] \in BOOLEAN /\ RemoveAt(client.rosters, i) \in Seq(BOOLEAN)
    BY <2>2, RemovedType
  <2>4. [client EXCEPT !.speak = client.rosters[i], !.rosters = RemoveAt(@, i)]
           \in ClientRecord
    BY <1>0, <2>3 DEF ClientRecord
  <2> QED
    BY <1>0, <1>11, <2>1, <2>4, RequestType DEF RosterApplies, TypeOK
<1> QED
  BY <1>1, <1>2, <1>3, <1>4, <1>5, <1>6, <1>7, <1>8, <1>9, <1>10, <1>11

LEMMA InitType == Init => TypeOK
<1> SUFFICES ASSUME Init PROVE TypeOK
  OBVIOUS
<1>1. member \in MemberRecord
  BY DEF Init, MemberRecord
<1>2. run \in [Run -> RunRecord]
  BY RunTypes DEF Init
<1>3. client \in ClientRecord
  BY <1>1 DEF Init, MemberRecord, ClientRecord
<1>4. <<>> \in Seq(Event)
  OBVIOUS
<1>5. media \in MediaRecord /\ channel \in ChannelRecord
  BY <1>4 DEF Init, MediaRecord, ChannelRecord
<1> QED
  BY <1>1, <1>2, <1>3, <1>4, <1>5 DEF Init, TypeOK

LEMMA NextType == TypeOK /\ [Next]_vars => TypeOK'
<1> SUFFICES ASSUME TypeOK, [Next]_vars PROVE TypeOK'
  OBVIOUS
<1>1. CASE UNCHANGED vars
  BY <1>1 DEF TypeOK, vars
<1>2. CASE \E r \in Run : Synchronise(r)
  BY <1>2, SynchroniseType
<1>3. CASE \/ \E r \in Run, speak \in BOOLEAN : SetVoicePolicy(r, speak)
           \/ \E b \in BOOLEAN : ChangeRole(b)
           \/ \E kind \in {"role", "other"} : OtherChanges(kind)
           \/ Leave
  BY <1>3, RegistryType
<1>4. CASE \E by \in Run \cup {"server"} : SendFor(by)
  BY <1>4, SendType DEF SendFor
<1>5. CASE \/ Deliver \/ RosterApplies \/ TimerFires \/ PermissionArrives \/ RequestIsLost
           \/ ChannelOpens \/ ChannelCloses \/ MediaConnects \/ MediaDrops
           \/ \E b \in BOOLEAN : LateCall(b)
           \/ \E r \in Run : Hear(r)
  BY <1>5, ClientType
<1> QED
  BY <1>1, <1>2, <1>3, <1>4, <1>5 DEF Next

\* Every step keeps the shape of the registry, of the handlers, of the events on their
\* way, of the participant and of the client.
THEOREM TypeCorrect == Spec => []TypeOK
BY InitType, NextType, PTL DEF Spec

-----------------------------------------------------------------------------
(* The policy that was applied last *)

\* One handler at a time talks to LiveKit about the member.
OneHolder == \A r, q \in Run : Holds(r) /\ Holds(q) => r = q

\* What a handler has read is the policy still, or the history knows of the change.
ReadingsAreTracked ==
    \A r \in Run : run[r].pc \in {"calling", "answered"} =>
        run[r].allowed = Allowed(member) \/ unsynced

\* A call that succeeded was obeyed, and nobody else has called since.
AnswersAreTrue ==
    \A r \in Run : run[r].pc = "answered" /\ run[r].ok
                    /\ media.connected /\ media.by = "call" => media.can = run[r].allowed

PolicyInv == OneHolder /\ ReadingsAreTracked /\ AnswersAreTrue /\ SyncedMeansEnforced

\* Actions that touch neither the handlers' calls, nor the permission, nor the policy.
LEMMA QuietSteps ==
  ASSUME PolicyInv, UNCHANGED <<media, unsynced>>, Allowed(member') = Allowed(member),
         \A r \in Run : run'[r] = run[r] \/ run'[r].pc \in {"idle", "waiting", "telling"}
  PROVE  PolicyInv'
<1>1. \A r \in Run : Holds(r)' => run'[r] = run[r] /\ Holds(r)
  BY DEF Holds
<1>2. OneHolder'
  BY <1>1 DEF PolicyInv, OneHolder
<1>3. ReadingsAreTracked'
  BY <1>1 DEF PolicyInv, ReadingsAreTracked, Holds
<1>4. AnswersAreTrue'
  BY <1>1 DEF PolicyInv, AnswersAreTrue, Holds
<1>5. SyncedMeansEnforced'
  BY DEF PolicyInv, SyncedMeansEnforced
<1> QED
  BY <1>2, <1>3, <1>4, <1>5 DEF PolicyInv

\* A change of the policy is noted.
LEMMA ChangeSteps ==
  ASSUME TypeOK, PolicyInv, NEW m \in MemberRecord, Becomes(m), UNCHANGED media,
         \A r \in Run : run'[r] = run[r] \/ run'[r].pc \in {"idle", "waiting", "telling"}
  PROVE  PolicyInv'
<1>1. \A r \in Run : Holds(r)' => run'[r] = run[r] /\ Holds(r)
  BY DEF Holds
<1>2. member' = m /\ (unsynced => unsynced') /\ (Allowed(m) # Allowed(member) => unsynced')
  BY Zenon DEF Becomes
<1>3. OneHolder'
  BY <1>1 DEF PolicyInv, OneHolder
<1>4. ReadingsAreTracked'
  <2> SUFFICES ASSUME NEW r \in Run, run'[r].pc \in {"calling", "answered"}
               PROVE  run'[r].allowed = Allowed(m) \/ unsynced'
    BY <1>2 DEF ReadingsAreTracked
  <2>1. run'[r] = run[r]
    BY <1>1 DEF Holds
  <2> QED
    BY <1>2, <2>1 DEF PolicyInv, ReadingsAreTracked
<1>5. AnswersAreTrue'
  BY <1>1 DEF PolicyInv, AnswersAreTrue, Holds
<1>6. SyncedMeansEnforced'
  <2>1. Allowed(member)' = Allowed(m)
    BY <1>2
  <2> QED
    BY <1>2, <2>1 DEF PolicyInv, SyncedMeansEnforced
<1> QED
  BY <1>3, <1>4, <1>5, <1>6 DEF PolicyInv

LEMMA InitInv == Init => PolicyInv
BY DEF Init, Idle, PolicyInv, OneHolder, ReadingsAreTracked, AnswersAreTrue,
       SyncedMeansEnforced, Holds

LEMMA EndedRuns == \A x : Ended(x).pc \in {"idle", "telling"}
BY DEF Ended, Idle

\* A step of the only handler that talks to LiveKit.
LEMMA HolderSteps ==
  ASSUME TypeOK, NEW r \in Run, \A q \in Run : Holds(q) => q = r,
         NEW new, run' = [run EXCEPT ![r] = new],
         new.pc \in {"calling", "answered"} => new.allowed = Allowed(member') \/ unsynced',
         new.pc = "answered" /\ new.ok /\ media'.connected /\ media'.by = "call"
            => media'.can = new.allowed,
         SyncedMeansEnforced'
  PROVE  PolicyInv'
<1>1. run'[r] = new /\ \A q \in Run : q # r => run'[q] = run[q]
  BY DEF TypeOK
<1>2. \A q \in Run : Holds(q)' => q = r
  BY <1>1 DEF Holds
<1>3. OneHolder'
  BY <1>2 DEF OneHolder
<1>4. ReadingsAreTracked'
  BY <1>1, <1>2 DEF ReadingsAreTracked, Holds
<1>5. AnswersAreTrue'
  BY <1>1, <1>2 DEF AnswersAreTrue, Holds
<1> QED
  BY <1>3, <1>4, <1>5 DEF PolicyInv

LEMMA AttemptSteps ==
  ASSUME TypeOK, PolicyInv, NEW r \in Run, \A q \in Run : Holds(q) => q = r,
         Attempt(r), UNCHANGED <<member, media, unsynced>>
  PROVE  PolicyInv'
<1> DEFINE a == Allowed(member)
           new == IF member.present THEN [run[r] EXCEPT !.pc = "calling", !.allowed = a]
                  ELSE Ended(run[r])
<1>1. run' = [run EXCEPT ![r] = new]
  BY DEF Attempt
<1>2. run[r] \in RunRecord
  BY DEF TypeOK
<1>3. a = Allowed(member')
  OBVIOUS
<1> HIDE DEF a
<1>4. new.pc \in {"calling", "idle", "telling"} /\ (new.pc = "calling" => new.allowed = a)
  BY <1>2, EndedRuns DEF RunRecord
<1>5. SyncedMeansEnforced'
  BY DEF PolicyInv, SyncedMeansEnforced
<1> HIDE DEF new
<1> QED
  BY <1>1, <1>3, <1>4, <1>5, HolderSteps

\* LiveKit obeys the call of the only handler that talks to it.
LEMMA ObeyedSteps ==
  ASSUME TypeOK, PolicyInv, NEW r \in Run, run[r].pc = "calling",
         Obeys(run[r].allowed, "call"), UNCHANGED <<member, unsynced>>
  PROVE  /\ media'.connected = media.connected
         /\ media'.connected => media'.can = run[r].allowed
         /\ SyncedMeansEnforced'
<1>1. run[r].allowed = Allowed(member) \/ unsynced
  BY DEF PolicyInv, ReadingsAreTracked
<1>2. /\ media'.connected = media.connected
      /\ media'.connected => media'.can = run[r].allowed
  BY DEF Obeys, TypeOK, MediaRecord
<1>3. Allowed(member)' = Allowed(member)
  OBVIOUS
<1> QED
  BY <1>1, <1>2, <1>3 DEF SyncedMeansEnforced

LEMMA SynchroniseInv ==
  ASSUME TypeOK, PolicyInv, NEW r \in Run, Synchronise(r)
  PROVE  PolicyInv'
<1>0. run[r] \in RunRecord /\ (Holds(r) => \A q \in Run : Holds(q) => q = r)
  BY DEF TypeOK, PolicyInv, OneHolder
<1>1. CASE Begin(r)
  <2>1. \A q \in Run : Holds(q) => q = r
    BY <1>1 DEF Begin, IsFree
  <2> QED
    BY <1>1, <2>1, AttemptSteps DEF Begin
<1>2. CASE Retry(r)
  <2>1. Holds(r)
    BY <1>2 DEF Retry, Holds
  <2>2. CASE ~run[r].expired
    BY <1>0, <1>2, <2>1, <2>2, AttemptSteps DEF Retry
  <2>3. CASE run[r].expired
    <3>1. \A q \in Run : run'[q] = run[q] \/ run'[q].pc \in {"idle", "waiting", "telling"}
      BY <1>2, <2>3, EndedRuns DEF Retry, TypeOK
    <3>2. UNCHANGED <<media, unsynced>> /\ member' = member
      BY <1>2 DEF Retry
    <3>3. Allowed(member') = Allowed(member)
      BY <3>2
    <3> QED
      BY <3>1, <3>2, <3>3, QuietSteps
  <2> QED
    BY <2>2, <2>3
<1>3. CASE CallReturns(r)
  <2> DEFINE ok == IF run[r].expired THEN FALSE ELSE media.connected
             new == [run[r] EXCEPT !.pc = "answered", !.ok = ok]
  <2>1. run[r].pc = "calling" /\ member' = member /\ unsynced' = unsynced
    BY <1>3 DEF CallReturns
  <2>2. run' = [run EXCEPT ![r] = new]
    BY <1>0, <1>3 DEF CallReturns, Answer, TypeOK, RunRecord
  <2>3. new.pc = "answered" /\ new.allowed = run[r].allowed /\ (new.ok => ok)
    BY <1>0 DEF RunRecord
  <2>4. new.allowed = Allowed(member') \/ unsynced'
    BY <2>1, <2>3 DEF PolicyInv, ReadingsAreTracked
  <2>5. /\ new.ok /\ media'.connected => media'.can = new.allowed
        /\ SyncedMeansEnforced'
    <3>1. CASE run[r].expired
      <4>1. ~ok /\ media' = media
        BY <1>3, <3>1 DEF CallReturns
      <4> QED
        BY <2>1, <2>3, <4>1 DEF PolicyInv, SyncedMeansEnforced
    <3>2. CASE ~run[r].expired
      BY <1>3, <2>1, <2>3, <3>2, ObeyedSteps DEF CallReturns
    <3> QED
      BY <3>1, <3>2
  <2>6. Holds(r)
    BY <2>1 DEF Holds
  <2> HIDE DEF new
  <2> QED
    BY <1>0, <2>2, <2>3, <2>4, <2>5, <2>6, HolderSteps
<1>4. CASE Check(r)
  <2>1. /\ run[r].pc = "answered" /\ member' = member /\ media' = media
        /\ Holds(r)
    BY <1>4 DEF Check, Holds
  <2>2. CASE run[r].ok /\ Unchanged(r)
    <3>1. run' = [run EXCEPT ![r] = Ended(run[r])]
      BY <1>4, <2>2 DEF Check
    <3>2. media.connected /\ media.by = "call" => media.can = Allowed(member)
      BY <2>1, <2>2 DEF PolicyInv, AnswersAreTrue, Unchanged
    <3>3. SyncedMeansEnforced'
      BY <2>1, <3>2 DEF SyncedMeansEnforced
    <3> QED
      BY <1>0, <2>1, <3>1, <3>3, EndedRuns, HolderSteps
  <2>3. CASE ~(run[r].ok /\ Unchanged(r))
    <3>1. run' = [run EXCEPT ![r] = Postponed(run[r])] /\ unsynced' = unsynced
      BY <1>4, <2>3 DEF Check
    <3>2. Postponed(run[r]).pc \notin {"calling", "answered"}
      BY <1>0, EndedRuns DEF Postponed, RunRecord
    <3>3. SyncedMeansEnforced'
      BY <2>1, <3>1 DEF PolicyInv, SyncedMeansEnforced
    <3> QED
      BY <1>0, <2>1, <3>1, <3>2, <3>3, HolderSteps
  <2> QED
    BY <2>2, <2>3
<1>5. CASE Expire(r)
  <2> DEFINE new == [run[r] EXCEPT !.expired = TRUE]
  <2>1. run' = [run EXCEPT ![r] = new] /\ UNCHANGED <<member, media, unsynced>>
    BY <1>5 DEF Expire
  <2>2. new.pc = run[r].pc /\ new.allowed = run[r].allowed /\ new.ok = run[r].ok
    BY <1>0 DEF RunRecord
  <2>3. SyncedMeansEnforced'
    BY <2>1 DEF PolicyInv, SyncedMeansEnforced
  <2>4. CASE Holds(r)
    <3> HIDE DEF new
    <3>1. new.pc \in {"calling", "answered"} => new.allowed = Allowed(member') \/ unsynced'
      BY <2>1, <2>2 DEF PolicyInv, ReadingsAreTracked
    <3>2. new.pc = "answered" /\ new.ok /\ media'.connected /\ media'.by = "call"
             => media'.can = new.allowed
      BY <2>1, <2>2 DEF PolicyInv, AnswersAreTrue
    <3> QED
      BY <1>0, <2>1, <2>3, <2>4, <3>1, <3>2, HolderSteps
  <2>5. CASE ~Holds(r)
    <3>1. run[r].pc = "waiting"
      BY <1>5, <2>5 DEF Expire, Holds
    <3>2. \A q \in Run : run'[q] = run[q] \/ run'[q].pc \in {"idle", "waiting", "telling"}
      BY <2>1, <2>2, <3>1 DEF TypeOK
    <3>3. Allowed(member') = Allowed(member)
      BY <2>1
    <3> QED
      BY <2>1, <3>2, <3>3, QuietSteps
  <2> QED
    BY <2>4, <2>5
<1>6. ASSUME NEW fate \in {"lost", "done", "late"}, NEW over \in BOOLEAN,
             CallFails(r, fate, over)
      PROVE  PolicyInv'
  <2> DEFINE new == [run[r] EXCEPT !.pc = "answered", !.ok = FALSE, !.expired = over]
  <2>1. run[r].pc = "calling" /\ member' = member /\ unsynced' = unsynced
    BY <1>6 DEF CallFails
  <2>2. run' = [run EXCEPT ![r] = new]
    BY <1>0, <1>6 DEF CallFails, TypeOK, RunRecord
  <2>3. ~new.ok /\ new.allowed = run[r].allowed
    BY <1>0 DEF RunRecord
  <2>4. new.allowed = Allowed(member') \/ unsynced'
    BY <2>1, <2>3 DEF PolicyInv, ReadingsAreTracked
  <2>5. SyncedMeansEnforced'
    <3>1. CASE fate = "done"
      BY <1>6, <2>1, <3>1, ObeyedSteps DEF CallFails
    <3>2. CASE fate # "done"
      <4>1. media' = media
        BY <1>6, <3>2 DEF CallFails
      <4> QED
        BY <2>1, <4>1 DEF PolicyInv, SyncedMeansEnforced
    <3> QED
      BY <3>1, <3>2
  <2>6. Holds(r)
    BY <2>1 DEF Holds
  <2> HIDE DEF new
  <2> QED
    BY <1>0, <2>2, <2>3, <2>4, <2>5, <2>6, HolderSteps
<1> QED
  BY <1>1, <1>2, <1>3, <1>4, <1>5, <1>6 DEF Synchronise

LEMMA NextInv == TypeOK /\ PolicyInv /\ [Next]_vars => PolicyInv'
<1> SUFFICES ASSUME TypeOK, PolicyInv, [Next]_vars PROVE PolicyInv'
  OBVIOUS
<1>0. member \in MemberRecord
  BY DEF TypeOK
<1>1. CASE \E r \in Run : Synchronise(r)
  BY <1>1, SynchroniseInv
<1>2. ASSUME NEW r \in Run, NEW speak \in BOOLEAN, SetVoicePolicy(r, speak)
      PROVE  PolicyInv'
  <2>1. [member EXCEPT !.speak = speak] \in MemberRecord
    BY <1>0 DEF MemberRecord
  <2>2. \A q \in Run : run'[q] = run[q] \/ run'[q].pc \in {"idle", "waiting", "telling"}
    BY <1>2 DEF SetVoicePolicy, TypeOK, Waiting, Idle
  <2> QED
    BY <1>2, <2>1, <2>2, ChangeSteps DEF SetVoicePolicy
<1>3. ASSUME NEW b \in BOOLEAN, ChangeRole(b) PROVE PolicyInv'
  <2> DEFINE new == IF b THEN Promoted(member) ELSE [member EXCEPT !.host = FALSE]
  <2>1. new \in MemberRecord
    BY <1>0 DEF MemberRecord, Promoted
  <2>2. Becomes(new) /\ UNCHANGED <<media, run>>
    BY <1>3 DEF ChangeRole
  <2> HIDE DEF new
  <2> QED
    BY <2>1, <2>2, ChangeSteps
<1>4. ASSUME NEW kind \in {"role", "other"}, OtherChanges(kind) PROVE PolicyInv'
  BY <1>0, <1>4, ChangeSteps DEF OtherChanges
<1>5. CASE Leave
  <2>1. [member EXCEPT !.present = FALSE] \in MemberRecord
    BY <1>0 DEF MemberRecord
  <2> QED
    BY <1>5, <2>1, ChangeSteps DEF Leave
<1>6. CASE \/ Deliver \/ RosterApplies \/ TimerFires \/ PermissionArrives \/ RequestIsLost
           \/ ChannelOpens \/ ChannelCloses \/ UNCHANGED vars
  <2>1. UNCHANGED <<member, media, run, unsynced>>
    BY <1>6 DEF Deliver, RosterApplies, TimerFires, PermissionArrives, RequestIsLost, ChannelOpens,
                ChannelCloses, vars
  <2>2. Allowed(member') = Allowed(member)
    BY <2>1
  <2> QED
    BY <2>1, <2>2, QuietSteps
<1>7. ASSUME NEW by \in Run \cup {"server"}, SendFor(by) PROVE PolicyInv'
  <2>1. PICK i \in DOMAIN outbox : Send(i)
    BY <1>7 DEF SendFor
  <2>2. UNCHANGED <<member, media, unsynced>>
    BY <2>1 DEF Send
  <2>3. \A q \in Run : run'[q] = run[q] \/ run'[q].pc \in {"idle", "waiting", "telling"}
    BY <2>1 DEF Send, Idle
  <2>4. Allowed(member') = Allowed(member)
    BY <2>2
  <2> QED
    BY <2>2, <2>3, <2>4, QuietSteps
<1>8. ASSUME NEW r \in Run, Hear(r) PROVE PolicyInv'
  <2>1. UNCHANGED <<member, media, unsynced>>
    BY <1>8 DEF Hear
  <2>2. \A q \in Run : run'[q] = run[q] \/ run'[q].pc \in {"idle", "waiting", "telling"}
    BY <1>8 DEF Hear, TypeOK, Waiting, Idle
  <2>3. Allowed(member') = Allowed(member)
    BY <2>1
  <2> QED
    BY <2>1, <2>2, <2>3, QuietSteps
<1>9. CASE MediaConnects \/ MediaDrops \/ \E b \in BOOLEAN : LateCall(b)
  <2>1. UNCHANGED <<member, run, unsynced>>
    BY <1>9 DEF MediaConnects, MediaDrops, LateCall
  <2>2. ~media'.connected \/ media'.by # "call"
    <3>0. media \in MediaRecord
      BY DEF TypeOK
    <3>1. CASE MediaConnects
      BY <3>1 DEF MediaConnects, FromToken
    <3>2. CASE MediaDrops
      BY <3>0, <3>2 DEF MediaDrops, MediaRecord
    <3>3. ASSUME NEW b \in BOOLEAN, LateCall(b)
          PROVE  ~media'.connected \/ media'.by # "call"
      <4>1. media' = IF media.connected THEN [media EXCEPT !.can = b, !.by = "late"] ELSE media
        BY <3>3 DEF LateCall, Obeys
      <4> QED
        BY <3>0, <4>1 DEF MediaRecord
    <3> QED
      BY <1>9, <3>1, <3>2, <3>3
  <2>3. OneHolder' /\ ReadingsAreTracked'
    <3>1. Allowed(member)' = Allowed(member)
      BY <2>1
    <3> QED
      BY <2>1, <3>1 DEF PolicyInv, OneHolder, ReadingsAreTracked, Holds
  <2>4. AnswersAreTrue' /\ SyncedMeansEnforced'
    BY <2>2 DEF AnswersAreTrue, SyncedMeansEnforced
  <2> QED
    BY <2>3, <2>4 DEF PolicyInv
<1> QED
  BY <1>1, <1>2, <1>3, <1>4, <1>5, <1>6, <1>7, <1>8, <1>9 DEF Next

\* However many handlers synchronise the member at a time, fail, retry or give up, and
\* whatever the policy becomes meanwhile, a success that no later change has overtaken
\* means that LiveKit enforces the policy of now (media_policy.go:10-48).
THEOREM SyncedEnforced == Spec => []SyncedMeansEnforced
<1>1. Init => PolicyInv
  BY InitInv
<1>2. TypeOK /\ PolicyInv /\ [Next]_vars => PolicyInv'
  BY NextInv
<1>3. PolicyInv => SyncedMeansEnforced
  BY DEF PolicyInv
<1> QED
  BY <1>1, <1>2, <1>3, TypeCorrect, PTL DEF Spec
=============================================================================
