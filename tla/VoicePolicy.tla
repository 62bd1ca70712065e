----------------------------- MODULE VoicePolicy -----------------------------
(***************************************************************************)
(* Who may be heard: the voice policy of one member, on its way from the   *)
(* registry to LiveKit, which enforces it, and to the member's client,     *)
(* which shows it and asks again when the two disagree.                    *)
(*                                                                         *)
(* Source: internal/server/media_policy.go, the handlers of server.go,     *)
(* admin.go and http_events.go that change or send a policy, and the       *)
(* requests of frontend/src/client/app.ts.  A handler changes the policy   *)
(* and prepares its event in one critical section of Server.mu, calls      *)
(* LiveKit outside it, under the lock of the identity, and sends the event *)
(* after that.  LiveKit is external: a call may fail before or after it    *)
(* took effect, or take effect after its caller has stopped waiting.       *)
(*                                                                         *)
(* Nothing orders two events that two handlers prepared: each is sent when *)
(* the lock is free, that of a policy after a synchronisation of up to     *)
(* three seconds.  The client takes an event of its own policy in two      *)
(* steps, with the microphone's operation in between.                      *)
(*                                                                         *)
(* Left out: the count of 30 requests per minute (a refusal counts as a    *)
(* loss), the loss of an event of a stalled stream that stays open, members*)
(* whose identities share a lock, the pause after the last attempt, the    *)
(* rollback of an administrator's change that cannot be saved (the lock is *)
(* held all the time), a snapshot for one member whose parts are read one  *)
(* after the other.  The channel is the HTTP stream; a WebSocket is sent a *)
(* second snapshot as it opens, and one request waits for the other.       *)
(***************************************************************************)
EXTENDS Integers, SequencesExt

CONSTANTS
    Run,             \* handlers that may be under way at a time
    Attempts,        \* calls to LiveKit in one synchronisation; 3 in the code
    MaxDisturbances, \* bound: changes of members, failures, lost requests and connections
    MaxQueue         \* bound: events on their way to the client

ASSUME VoicePolicyAssumption ==
    /\ Attempts \in Nat \ {0}
    /\ {MaxDisturbances, MaxQueue} \subseteq Nat
    /\ "server" \notin Run

VARIABLES
    member,   \* the server's record of the member: whether it has one, role and policy
    media,    \* LiveKit's participant: connected, may publish, and who said so
    run,      \* the handlers that synchronise the policy
    late,     \* permissions that LiveKit may still apply though nobody waits for it
    outbox,   \* events that are prepared and not sent
    channel,  \* the management channel: open, its events, a media_ready on its way
    client,   \* the fields of state.active, and the handlers of events that wait
    unsynced, \* history: the policy has changed since a synchronisation succeeded
    overtaken, \* history: an event was sent, or handled, before an older one
    disturbances

vars == <<member, media, run, late, outbox, channel, client, unsynced, overtaken, disturbances>>

-----------------------------------------------------------------------------

\* tells: an event is sent at the end, as by the handlers that change the policy.
RunRecord == [pc: {"idle", "waiting", "calling", "answered", "sleeping", "telling"},
              tells: BOOLEAN, allowed: BOOLEAN, ok: BOOLEAN, expired: BOOLEAN,
              tries: 0..(Attempts - 1)]

\* A snapshot or role_changed, which names the host, or voice_policy, of the member itself
\* or of another; speak is the policy of the member in the roster that all of them bring.
Event == [by: Run \cup {"server"}, kind: {"role", "own", "other"}, host: BOOLEAN, speak: BOOLEAN]

MemberRecord == [present: BOOLEAN, host: BOOLEAN, speak: BOOLEAN]
MediaRecord == [connected: BOOLEAN, can: BOOLEAN, by: {"token", "call", "late"}]
ChannelRecord == [open: BOOLEAN, queue: Seq(Event), asked: BOOLEAN]

\* rosters: those of the voice_policy events whose handlers wait for the microphone.
ClientRecord == [host: BOOLEAN, speak: BOOLEAN, can: BOOLEAN, timer: BOOLEAN,
                 rosters: Seq(BOOLEAN)]

\* The shape of the state.
TypeOK ==
    /\ member \in MemberRecord
    /\ media \in MediaRecord
    /\ run \in [Run -> RunRecord]
    /\ late \subseteq BOOLEAN
    /\ outbox \in Seq(Event)
    /\ channel \in ChannelRecord
    /\ client \in ClientRecord
    /\ unsynced \in BOOLEAN /\ overtaken \in BOOLEAN
    /\ disturbances \in Nat

Allowed(m) == m.host \/ m.speak

Idle == [pc |-> "idle", tells |-> FALSE, allowed |-> FALSE, ok |-> FALSE,
         expired |-> FALSE, tries |-> 0]

\* Handlers are alike: any one that is free serves a request.
Serves(r) == run[r].pc = "idle" /\ r = CHOOSE q \in Run : run[q].pc = "idle"

Waiting(tells) == [Idle EXCEPT !.pc = "waiting", !.tells = tells]

\* The end of a synchronisation: the event is still to be sent, if there is one.
Ended(r) == IF r.tells THEN [Idle EXCEPT !.pc = "telling", !.tells = TRUE] ELSE Idle

Disturbance == disturbances < MaxDisturbances /\ disturbances' = disturbances + 1

-----------------------------------------------------------------------------
(* The registry *)

Prepared(e) == outbox' = Append(outbox, e)

\* A change of the record; the history notes when it changes what is allowed.
Becomes(m) ==
    /\ Disturbance
    /\ member' = m
    /\ unsynced' = (unsynced \/ Allowed(m) # Allowed(member))

\* voicePolicy, adminVoicePolicy: up to the synchronisation
SetVoicePolicy(r, speak) ==
    /\ Serves(r) /\ member.present /\ ~member.host
    /\ Becomes([member EXCEPT !.speak = speak])
    /\ Prepared([by |-> r, kind |-> "own", host |-> FALSE, speak |-> speak])
    /\ run' = [run EXCEPT ![r] = Waiting(TRUE)]
    /\ UNCHANGED <<media, late, channel, client, overtaken>>

Promoted(m) == [m EXCEPT !.host = TRUE, !.speak = TRUE]

\* handover and assignHostLocked change the role, and nobody calls LiveKit.
ChangeRole(host) ==
    /\ member.present /\ member.host # host
    /\ host => channel.open
    /\ Becomes(IF host THEN Promoted(member) ELSE [member EXCEPT !.host = FALSE])
    /\ Prepared([by |-> "server", kind |-> "role", host |-> host, speak |-> member'.speak])
    /\ UNCHANGED <<media, run, late, channel, client, overtaken>>

\* Another member comes or goes, or its policy changes.
OtherChanges(kind) ==
    /\ member.present /\ Becomes(member)
    /\ Prepared([by |-> "server", kind |-> kind, host |-> member.host, speak |-> member.speak])
    /\ UNCHANGED <<media, run, late, channel, client, overtaken>>

\* leaveMember, deleteRoom
Leave ==
    /\ member.present
    /\ Becomes([member EXCEPT !.present = FALSE])
    /\ channel' = [open |-> FALSE, queue |-> <<>>, asked |-> FALSE]
    /\ UNCHANGED <<media, run, late, outbox, client, overtaken>>

-----------------------------------------------------------------------------
(* syncMediaPolicy *)

Holds(r) == run[r].pc \in {"calling", "answered", "sleeping"}

\* Mutants of IsFree: the calls for one identity are not serialized; the handler that
\* waits has taken the lock already.
IsFree_Always == TRUE
IsFree_Twice == \A r \in Run : run[r].pc \in {"idle", "telling"}

IsFree == \A r \in Run : ~Holds(r)

\* The policy is read anew for every call.
Attempt(r) ==
    run' = [run EXCEPT ![r] = IF member.present
                              THEN [@ EXCEPT !.pc = "calling", !.allowed = Allowed(member)]
                              ELSE Ended(@)]

Begin(r) ==
    /\ run[r].pc = "waiting" /\ IsFree
    /\ Attempt(r)
    /\ UNCHANGED <<member, media, late, outbox, channel, client, unsynced, overtaken, disturbances>>

Retry(r) ==
    /\ run[r].pc = "sleeping"
    /\ IF run[r].expired THEN run' = [run EXCEPT ![r] = Ended(@)] ELSE Attempt(r)
    /\ UNCHANGED <<member, media, late, outbox, channel, client, unsynced, overtaken, disturbances>>

Answer(r, ok) == run' = [run EXCEPT ![r].pc = "answered", ![r].ok = ok]

Obeys(can, by) ==
    media' = IF media.connected THEN [media EXCEPT !.can = can, !.by = by] ELSE media

\* setCanPublish: LiveKit knows the identity only while it is connected.
CallReturns(r) ==
    /\ run[r].pc = "calling"
    /\ IF run[r].expired THEN Answer(r, FALSE) /\ UNCHANGED media
       ELSE Answer(r, media.connected) /\ Obeys(run[r].allowed, "call")
    /\ UNCHANGED <<member, late, outbox, channel, client, unsynced, overtaken, disturbances>>

\* It fails, or takes longer than three seconds: the request is lost, or only its answer
\* is, or it is still on its way.  A request whose own time is over is not tried again.
CallFails(r, fate, over) ==
    /\ run[r].pc = "calling" /\ ~run[r].expired /\ Disturbance
    /\ run' = [run EXCEPT ![r].pc = "answered", ![r].ok = FALSE, ![r].expired = over]
    /\ IF fate = "done" THEN Obeys(run[r].allowed, "call") ELSE UNCHANGED media
    /\ late' = IF fate = "late" THEN late \cup {run[r].allowed} ELSE late
    /\ UNCHANGED <<member, outbox, channel, client, unsynced, overtaken>>

LateCall(can) ==
    /\ can \in late
    /\ late' = late \ {can}
    /\ Obeys(can, "late")
    /\ UNCHANGED <<member, run, outbox, channel, client, unsynced, overtaken, disturbances>>

Unchanged(r) == member.present /\ Allowed(member) = run[r].allowed

GivesUp(r) == r.expired \/ r.tries + 1 = Attempts

\* After a call in vain.
Postponed(r) ==
    IF GivesUp(r) THEN Ended(r)
    ELSE [r EXCEPT !.pc = "sleeping", !.ok = FALSE, !.tries = r.tries + 1]

Check(r) ==
    /\ run[r].pc = "answered"
    /\ IF run[r].ok /\ Unchanged(r)
       THEN unsynced' = FALSE /\ run' = [run EXCEPT ![r] = Ended(@)]
       ELSE UNCHANGED unsynced /\ run' = [run EXCEPT ![r] = Postponed(@)]
    /\ UNCHANGED <<member, media, late, outbox, channel, client, overtaken, disturbances>>

\* The time of the request is over, or its sender has hung up.
Expire(r) ==
    /\ run[r].pc \in {"waiting", "answered", "sleeping"} /\ ~run[r].expired /\ Disturbance
    /\ run' = [run EXCEPT ![r].expired = TRUE]
    /\ UNCHANGED <<member, media, late, outbox, channel, client, unsynced, overtaken>>

-----------------------------------------------------------------------------
(* Events *)

\* broadcastRoom: to the channel that is open by then.
Send(i) ==
    LET e == outbox[i]
    IN  /\ \A r \in Run : r = e.by => run[r].pc = "telling"
        /\ outbox' = RemoveAt(outbox, i)
        /\ run' = [r \in Run |-> IF r = e.by THEN Idle ELSE run[r]]
        /\ channel' = IF channel.open THEN [channel EXCEPT !.queue = Append(@, [e EXCEPT !.by = "server"])]
                       ELSE channel
        /\ Len(channel'.queue) <= MaxQueue
        /\ overtaken' = (overtaken \/ i # 1)
        /\ UNCHANGED <<member, media, late, client, unsynced, disturbances>>

SendFor(by) == \E i \in DOMAIN outbox : outbox[i].by = by /\ Send(i)

-----------------------------------------------------------------------------
(* The client *)

Disagrees(c) == c.can # (c.host \/ c.speak)

\* Mutant of Repeats: media_ready is sent once.
Repeats_Never(c) == FALSE

Repeats(c) == Disagrees(c)

\* requestMediaPermission, in a state where the two connections are as given: c is what
\* the handler makes of the client.
Request(c, ch, connected, force) ==
    LET ready == connected /\ ch.open
    IN  /\ client' = [c EXCEPT !.timer = ready /\ Repeats(c)]
        /\ channel' = [ch EXCEPT !.asked = @ \/ (ready /\ (force \/ Disagrees(c)))]

\* Mutant of Seen: a snapshot changes the role and not the policy.
Seen_KeepsPolicy(c, e) ==
    CASE e.kind = "role"  -> [c EXCEPT !.host = e.host]
      [] e.kind = "own"   -> [c EXCEPT !.speak = e.speak, !.rosters = Append(@, e.speak)]
      [] e.kind = "other" -> [c EXCEPT !.speak = e.speak]

\* handleManagementEvent up to its await; only voice_policy of the member goes on after it.
Seen(c, e) ==
    [c EXCEPT !.speak = e.speak,
              !.host = IF e.kind = "role" THEN e.host ELSE @,
              !.rosters = IF e.kind = "own" THEN Append(@, e.speak) ELSE @]

Deliver ==
    /\ channel.queue # <<>>
    /\ Request(Seen(client, Head(channel.queue)), [channel EXCEPT !.queue = Tail(@)],
               media.connected, FALSE)
    /\ overtaken' = (overtaken \/ client.rosters # <<>>)
    /\ UNCHANGED <<member, media, run, late, outbox, unsynced, disturbances>>

\* After applyMicrophone, voice_policy takes the policy from its own roster again.  The
\* operations of one gate end in order, those of two gates need not.
RosterApplies ==
    /\ \E i \in DOMAIN client.rosters :
          Request([client EXCEPT !.speak = client.rosters[i], !.rosters = RemoveAt(@, i)],
                  channel, media.connected, FALSE)
    /\ UNCHANGED <<member, media, run, late, outbox, unsynced, overtaken, disturbances>>

TimerFires ==
    /\ client.timer
    /\ Request(client, channel, media.connected, FALSE)
    /\ UNCHANGED <<member, media, run, late, outbox, unsynced, overtaken, disturbances>>

\* ParticipantPermissionsChanged
PermissionArrives ==
    /\ media.connected /\ client.can # media.can
    /\ Request([client EXCEPT !.can = media.can], channel, TRUE, FALSE)
    /\ UNCHANGED <<member, media, run, late, outbox, unsynced, overtaken, disturbances>>

\* connectEvents; the server's snapshot is prepared when the channel is registered.
ChannelOpens ==
    /\ member.present /\ ~channel.open
    /\ Prepared([by |-> "server", kind |-> "role", host |-> member.host, speak |-> member.speak])
    /\ Request(client, [channel EXCEPT !.open = TRUE], media.connected, TRUE)
    /\ UNCHANGED <<member, media, run, late, unsynced, overtaken, disturbances>>

\* What was on its way is lost.
ChannelCloses ==
    /\ channel.open /\ Disturbance
    /\ channel' = [open |-> FALSE, queue |-> <<>>, asked |-> FALSE]
    /\ UNCHANGED <<member, media, run, late, outbox, client, unsynced, overtaken>>

\* joinToken: nobody may publish before the policy is applied.
FromToken == [connected |-> TRUE, can |-> FALSE, by |-> "token"]

\* connectMedia, after room.connect
MediaConnects ==
    /\ member.present /\ ~media.connected
    /\ media' = FromToken
    /\ Request([client EXCEPT !.can = media'.can], channel, TRUE, TRUE)
    /\ UNCHANGED <<member, run, late, outbox, unsynced, overtaken, disturbances>>

MediaDrops ==
    /\ media.connected /\ Disturbance
    /\ media' = [media EXCEPT !.connected = FALSE]
    /\ UNCHANGED <<member, run, late, outbox, channel, client, unsynced, overtaken>>

\* routeEvent: media_ready, refused when the member has no record any more.
Hear(r) ==
    /\ channel.asked /\ Serves(r)
    /\ channel' = [channel EXCEPT !.asked = FALSE]
    /\ run' = IF member.present THEN [run EXCEPT ![r] = Waiting(FALSE)] ELSE run
    /\ UNCHANGED <<member, media, late, outbox, client, unsynced, overtaken, disturbances>>

\* It is lost, or refused because there were too many.
RequestIsLost ==
    /\ channel.asked /\ Disturbance
    /\ channel' = [channel EXCEPT !.asked = FALSE]
    /\ UNCHANGED <<member, media, run, late, outbox, client, unsynced, overtaken>>

-----------------------------------------------------------------------------

Init ==
    /\ member \in [present: {TRUE}, host: BOOLEAN, speak: BOOLEAN]
    /\ member.host => member.speak
    /\ media = [connected |-> FALSE, can |-> FALSE, by |-> "token"]
    /\ run = [r \in Run |-> Idle]
    /\ late = {} /\ outbox = <<>>
    /\ channel = [open |-> FALSE, queue |-> <<>>, asked |-> FALSE]
    /\ client = [host |-> member.host, speak |-> TRUE, can |-> FALSE, timer |-> FALSE,
               rosters |-> <<>>]
    /\ unsynced = TRUE /\ overtaken = FALSE
    /\ disturbances = 0

Synchronise(r) ==
    \/ Begin(r) \/ Retry(r) \/ CallReturns(r) \/ Check(r) \/ Expire(r)
    \/ \E fate \in {"lost", "done", "late"}, over \in BOOLEAN : CallFails(r, fate, over)

Next ==
    \/ \E r \in Run : Synchronise(r) \/ Hear(r)
    \/ \E r \in Run, speak \in BOOLEAN : SetVoicePolicy(r, speak)
    \/ \E b \in BOOLEAN : ChangeRole(b) \/ LateCall(b)
    \/ \E by \in Run \cup {"server"} : SendFor(by)
    \/ \E kind \in {"role", "other"} : OtherChanges(kind)
    \/ Leave \/ Deliver \/ RosterApplies \/ TimerFires \/ PermissionArrives \/ RequestIsLost
    \/ ChannelOpens \/ ChannelCloses \/ MediaConnects \/ MediaDrops

Spec == Init /\ [][Next]_vars

\* Handlers run, and a mutex is granted in the end to whoever waits (Go hands it over
\* after a millisecond); calls have a deadline; timers fire; an open channel delivers; the SDK
\* ends its operations.
Fairness ==
    /\ \A r \in Run : /\ SF_vars(Begin(r)) /\ WF_vars(Retry(r))
                      /\ WF_vars(CallReturns(r)) /\ WF_vars(Check(r))
    /\ \A by \in Run \cup {"server"} : WF_vars(SendFor(by))
    /\ WF_vars(Deliver) /\ WF_vars(RosterApplies) /\ WF_vars(TimerFires) /\ WF_vars(PermissionArrives)
    /\ WF_vars(\E r \in Run : Hear(r))

FairSpec == Spec /\ Fairness

-----------------------------------------------------------------------------
(* Properties *)

\* Once a synchronisation has succeeded and the policy was not changed since, LiveKit
\* enforces it, unless the participant has reconnected or a call that was given up came
\* through: "late retries cannot restore stale policy" (media_policy.go:11), whatever
\* other handlers synchronise the same member.
SyncedMeansEnforced ==
    ~unsynced /\ media.connected /\ media.by = "call" => media.can = Allowed(member)

Joined == member.present /\ channel.open /\ media.connected

\* LiveKit ends up with the policy of every member that has both connections: the server
\* applies "the latest persisted" one, and clients ask again "every ten seconds while room
\* policy and SDK permissions disagree" (docs/API.md:31).
PolicyReachesLiveKit == <>[](Joined => media.can = Allowed(member))

\* It does, whatever failed or came late, or else the client, which knows the permission
\* of LiveKit by then, believes that it is the policy: no other client stops asking.
OnlyMisledClientsRest ==
    <>[](Joined => \/ media.can = Allowed(member)
                   \/ client.can = media.can /\ ~Disagrees(client))

\* No client is misled but by an event that is sent, or handled, before an older one is:
\* otherwise its copy of the role and the policy ends up with those of the server.
OnlyOvertakingMisleads ==
    <>overtaken \/ <>[](Joined => (client.host \/ client.speak) = Allowed(member))

\* No handler waits for ever for the lock of the identity, nor keeps it.
HandlersEnd == \A r \in Run : run[r].pc # "idle" ~> run[r].pc = "idle"
=============================================================================
