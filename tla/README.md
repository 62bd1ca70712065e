# TLA+ models of the DawnMesh server and web client

DawnMesh is a push-to-talk intercom. This repository holds its Go server (rooms,
membership, roles, event channels, the control of the LiveKit media server, a
relay that fuses rooms of several gateways, an administrator API), the web
client, and the administrator's page. The server is one process: one mutex
`Server.mu`, in-memory maps that are the truth while it runs, and a SQLite file
they are rebuilt from. The client is TypeScript on the browser's event loop: one
handler at a time, and async functions that stop at every `await`.

This directory models the parts whose correctness depends on *order*: what
happens when handlers, close callbacks, the sweeper, a restart and the clock of
the server interleave, and what happens when the client's handlers, timers, the
answers to its requests and the calls of the media SDK do. File and line
references are to `src/`; Go files are in `src/internal/server/`, the client's in
`src/frontend/src/` (`app.ts` is `client/app.ts` unless said otherwise).

## 1. Inventory

### 1.1 Components

| Component | State | Operations | Modelled by |
|---|---|---|---|
| Room and member registry (`server.go`, `join.go`, `models.go`) | `rooms`, `members`; per member device, proof, join order, presence, role; per room host and two deadlines | create, join, rejoin, resume, rename, handover, leave, end, administrator end | `RoomRegistry`, `SeatLedger` |
| Presence and event channels (`server.go` `events`, `markConnected`; `http_events.go`) | `sockets`, `eventStreams`, `Connected` | accept, register, open, close, re-check, mark | `RoomRegistry` |
| Sweeper and deadlines (`server.go` `sweep`) | the three deadlines | a locked pass every 5 s, then one deletion per empty room | `RoomRegistry` |
| Restart (`New`, `store.load`) | the database | rebuild the maps, derive the host flag, arm deadlines | `RoomRegistry` (database and memory agree); plan: `DurableRooms` |
| SQLite store (`store.go`) | three tables | separate statements, mostly with discarded results | plan: `DurableRooms` |
| Media policy (`media_policy.go`, `livekit.go`) | `CanSpeak`, the host's role, per-identity locks, the permission LiveKit holds | change, synchronise, re-read, retry, ask | `VoicePolicy` |
| Administrator listening (`admin.go`) | leases | authorise, issue, renew, expire, stop | `AdminListening` (one page's leases) |
| Rate limiter (`server.go` `allowAttemptLocked`) | attempt windows | allow, sweep | plan: `RateLimiter` |
| Event fan-out (`broadcastRoom`, `joinRoom`, `http_events.go`) | queues of 64 events per stream | snapshot, send, replace a session | `VoicePolicy` (order of roles and policies); plan: `EventFanout` |
| Fusion relay (`fusion.go`) | rosters, revisions, tombstones, peers, de-duplication table | upload, list, prune, join, authenticate, forward, end | `FusionHub` |
| Client microphone (`press-to-talk.ts`, `microphone-gate.ts`, `app.ts`) | the press, the capture task, the track, the gate's wish and queue | press, release, mute, choose a mode or device, capture, publish, dispose | `Microphone`, `TalkSwitch` |
| Client connection recovery (`app.ts`) | `state.active`, per stay the socket, the media room, three timers, the resume token | enter, leave, end, connect, resume, renew the media grant | `CallSession` |
| Client chat (`crypto.ts` `ChatCipher`, `app.ts`) | counter, record of senders, list | encrypt, send, decrypt, show | `ChatReplay`, `OnceDelivery` |
| Client announcements (`presence.ts`) | previous roster, timers, departures seen | observe, reset, announce | `PresenceAnnouncer` |
| Administrator page (`admin/app.ts`) | token, listener, heartbeat, overview | sign in and out, start, renew, stop, load | `AdminListening` |
| Setup and rendering, key derivation and wrapping, configuration, assets, LiveKit itself | – | – | not modelled, see 2.14 |

### 1.2 How they interact

* Every handler of the server takes `Server.mu` for one or more short critical
  sections. A member request is *authenticated* in one (`withSession`) and
  *executed* in another, with a `*Member` pointer captured in the first.
* Event-channel handlers register their channel, open it (`markConnected(true)`),
  and on close unregister it, look for another channel, and call
  `markConnected(false)`, which looks again: four critical sections.
* The sweeper decides under the lock and deletes after it.
* Every mutation writes through to the store while the lock is held; broadcasts,
  LiveKit calls and token signatures happen after the unlock.
* The client keeps an event channel, a LiveKit room and a resume token
  alive with three timers that cancel one another. Each async function captures
  `active`, the stay it was called for, and compares it, or forgets to compare
  it, with `state.active` after its awaits.
* The microphone lives under the media room: a new room disposes of the
  capture; permissions come from the roster of the management channel and from
  the media server.
* The announcer combines the roster of the channel with the participants of the
  media room, which break and recover independently.
* The administrator's page holds a lease on the server, which the members of the
  room are shown as long as it is renewed.

### 1.3 What is hard

The hazards are listed in `PROJECT.json`, each at its line. In short: state read
in one critical section and used in the next (the sweeper's list, captured
members, the empty-room decision of `leaveMember`, token issue for
administrators); two channels of one member closing and opening together;
deadlines that must be armed by *every* way of becoming empty or hostless; a
rejoin that replaces an object other handlers still hold; database writes that
fail or stop half-way; external calls that finish late; bounded queues and
tables; in the client, whatever changes during an `await`: the stay, the media room,
the wish to speak, the token, the sign-in.

### 1.4 What makes each component correct

Where the code falls short of this is said in 2.10.

* **Registry**: capacity, one seat per proved device, a strict order of
  seniority, no member without a room, one host per room, only the host passes
  the role test, an empty room ends, a late host is replaced.
* **Presence**: what is shown agrees with the channels, whatever order the
  callbacks run in; a lost member is shown offline in the end.
* **Store**: after a crash the database yields a registry that memory could have
  been in.
* **Media policy**: a synchronisation that succeeds leaves LiveKit with the policy of the
  server; when changes and failures stop, LiveKit and the client agree with it.
* **Administrator listening** (server): never more than the limit of live leases; no
  token after the room ended.
* **Fan-out**: the last event a channel receives reflects the last state.
* **Fusion**: revisions never go back, an ended room stays ended, no packet is
  forwarded twice to a peer.
* **Microphone**: nobody is heard who is not meant to be; a lasting wish is granted;
  every captured device is released.
* **Recovery**: neither connection of the stay is forgotten, and both come back
  when faults stop; a stay that was left stays quiet.
* **Chat**: no nonce is used twice; a message is shown at most once, in the order of
  its author.
* **Announcements**: only fresh, true drops; each departure once.
* **Administrator's page**: no media connection without an owner; listening ends with
  its lease and with the logout.

## 2. What is modelled

### 2.1 `RoomRegistry`

One action per critical section of `Server.mu`; the lock is otherwise invisible.

| State | Code |
|---|---|
| `rooms` | `Server.rooms`: host, host deadline, empty deadline |
| `members` | `Server.members`: room, device, device proof, object, join order, presence, reconnect deadline |
| `isHost` | `Member.IsHost`, per *object* |
| `conns` | running event handlers, with the place each has reached; `Attached` is `sockets` plus `eventStreams` |
| `reqs` | member requests past `withSession`, with the captured object |
| `pending` | the sweeper's local list `deleteRooms` |
| `mu` | `"lost"` once the panic of `renameRoom` has left `Server.mu` locked (2.10) |

| Actions | Code |
|---|---|
| `CreateRoom`, `JoinRoom`, `RejoinRoom`, `Resume` | `createRoom`, the two branches of `joinRoom`, `resume` |
| `Accept`, `AddSocket`, `MarkOnline`, `RemoveSocket`, `CheckSocket`, `MarkOffline` | `events` and `eventHTTPStream`, section by section |
| `Enter` | `withSession`, with the role tests that precede the handler's own lock |
| `Reject`, `RenameRoom`, `Handover`, `LeaveMember`, `EndRoom` | the member handlers |
| `AdminEndRoom` | `adminEndRoom` |
| `Sweep`, `SweepDelete` | the locked pass of `sweep`, and each later `deleteRoom` |
| `ReconnectDeadlinePasses`, `HostDeadlinePasses`, `EmptyDeadlinePasses` | the clock |
| `Restart` | the process ends at any point; `New` and `load` |

Abstractions:

* **Deadlines** are `"zero"`, `"running"` or `"past"`. A running deadline may pass
  at any moment, so every relative timing of deadlines, sweeps and requests is
  covered; only "thirty minutes after" is lost, and no property depends on it.
* **Objects.** `joinRoom` replaces a `*Member` by a copy when a device rejoins,
  while other handlers hold the old pointer. `IsHost` is therefore kept per
  object; the other fields are only ever reached through the map.
* **`assignHostLocked`** is three functions of the map it sees (`RoomsAfter`,
  `FlagsAfter`, `Deposed`) for all rooms of one pass, because rooms do not
  interact and Go iterates a map in no order.
* **Identifiers.** `randomID` draws from a small pool an identifier nothing still
  refers to. Names, tokens, invitations, limits per source and audio settings
  are left out: no property here tells them apart.
* **Role tests** made on the captured object before the handler takes its lock are
  made at the capture. The flag of an object in the map is only raised while it
  is in the map, so no behaviour is lost.

`SeatLedger` is the abstract specification: a seat is handed out once, to a free
place, behind every seat taken, not to a device that already has one, and stays
as it is until released. `RoomRegistry` implements it under the mapping `seats`
(`ImplementsLedger`).

### 2.2 `FusionHub`

One action per critical section of `fusionHub.mu`.

| State | Code |
|---|---|
| `rooms` | `fusionHub.rooms`: revision, end, time of the last authenticated packet, peers, seen packets |
| `relay` | running `relayFusion` handlers: whether they have joined, shown the key, been cancelled; the timers that run for them; their queue |
| `signed` | states the creators have signed (environment) |
| `now` | the server's clock, which the signed revisions are compared with |

| Actions | Code |
|---|---|
| `SyncFusion`, `Prune` | `syncFusion` accepted; `listFusion`, and `syncFusion` refused after the pruning |
| `CheckRelay`, `UpgradeFails`, `JoinRelay` | the first look, the WebSocket upgrade, the second look |
| `Authenticate`, `Forward`, `WriteOut`, `Leave` | the read loop, the writer goroutine, the end of the handler |
| `TimerFires` | the 20-second and the 3-second timer |
| `CloseHub` | the shutdown |
| `Sign`, `Tick` | creators and time |

Here the clock is a number, because revisions *are* times: whether a pruned
record can be resurrected by an old roster depends on retention (30 min)
exceeding freshness plus tolerance (90 s + 60 s), which `FusionAssumption` states.
Signatures, keys and packets are abstracted to their verdicts and identities. A
creator may sign anything with growing revisions, states after its end included;
anybody may upload any signed state at any time, again and again.

### 2.3 `Microphone`

One stay in a room. An action is a handler, or the part of an async function between
two awaits, with every synchronous call it makes.

| State | Code |
|---|---|
| `held` | `source` of `bindPressToTalk`: somebody holds the button or key |
| `page` | the fields of `state.active` that matter: phase of the stay, which media room, whether it is connected, `canSpeak`, `muted`, `voiceMode`, `ptt`, the tail (`pttReleaseTimer`), `audioReady`, `audioGeneration`, `micTask`, `micTrack` with `micGate` |
| `task` | the calls of `initializeAudioDevices`: the await each has reached, and whether a handler awaits it to apply the wish |
| `track` | the `LocalAudioTrack` of each capture: device, `enabled`, the gate's `wanted` and `disposed`, its queue and the SDK call in progress |
| `upsets` | counts faults and changes of mind, for `MaxUpsets` |

| Actions | Code |
|---|---|
| `Press`, `Release`, `Hide`, `TailEnds` | `bindPressToTalk`, `setPTT`, the half-second timer, `visibilitychange` |
| `ToggleMute`, `ChooseMode`, `Enable`, `ChangeInput`, `PageHide` | the handlers of `app.ts` 1495–1535 and 1614 |
| `PermissionChanges`, `LinkFails`, `LinkRecovers`, `ReplaceRoom`, `NewRoom` | permission events, `Reconnecting`, `Disconnected`, `Reconnected`, `connectMedia` |
| `LeaveRoom`, `RoomLeft`, `RoomEnds`, `DeviceLost` | `cleanupRoom`, `handleRoomEnded`, the `ended` event |
| `Granted`, `Imported`, `Published`, `Refreshed`, `Finished`, `Fails`, `Failed` | `initializeAudioDevices` from await to await, and its `catch` and `finally` |
| `UnmuteReturns`, `MuteReturns`, `OperationFails` | the SDK calls of `MicrophoneGate.set` |

* `audioGeneration` is a number that is only ever compared with the newest one, so
  the model keeps which capture it belongs to.
* The promise chain of the gate is a count of queued operations: each reads the
  wish when its turn comes, so they are all alike. Beyond `QueueBound` a further one
  would read the same wish.
* `slip` and `again` mark two situations the properties exclude, both described in
  2.10: an error path that ended the press and left the wish of the gate, and a
  device which the SDK captured again after it had ended.

`TalkSwitch` is the abstract specification: the microphone opens only for a wish that
stood before, and the step that withdraws the wish closes it. `Microphone`
implements it (`ImplementsSwitch`).

### 2.4 `CallSession`

Several stays, because most functions of `app.ts` read `state.active` again after an
await, and an admission, a leave and a recovery of different stays can overlap.

| State | Code |
|---|---|
| `page.active`, `page.stay` | `state.active`; per stay `leaving`, `roomEnded`, `socket`, `room`, the three timers, and whether `resumeToken` is the newest |
| `page.channel`, `page.room` | the `EventChannel`s and the LiveKit `Room`s that exist, attached to a stay or not |
| `page.job` | the async functions that await something: `connectEvents`, `connectMedia`, the requests of the two reconnects, `cleanupRoom` |
| `server` | whether each stay's member is in the room, and whether an answer with a rotated token was lost |
| `faults` | counts faults, for `MaxFaults` |

| Actions | Code |
|---|---|
| `EnterRoom`, `LeaveRoom`, `CleanupEnds`, `RoomEnds`, `EndIsHeard` | `enterRoom`, `leaveRoom`, `cleanupRoom`, `endRoom`, `handleRoomEnded` |
| `ChannelOpens`, `ChannelFails`, `ChannelRefused`, `LateChannel`, `ChannelCloses`, `ChannelOfLeaver` | `connectEvents`, `openEventChannel`, `waitForOpen`, the `close` listener |
| `EventsTimer`, `FullTimer`, `MediaTimer` | the three timers |
| `ServerResumes`, `ResumeAnswered`, `ResumeRefused`, `ResumeLost` | `resume` of the server, and its answer |
| `GrantAnswered`, `MediaFails`, `MediaImported`, `RoomCreated`, `RoomConnected`, `JoinAborted`, `RoomDisconnected`, `RoomKicked` | the media grant, `connectMedia` await by await, `Disconnected` |

An operator from a page to a page (`ConnectEvents`, `ScheduleFull`, `AfterEvents`, ...)
is what a function of the source does up to its first await, so that an action is the
composition its handler makes. Only the newest resume token is accepted, so each
holder of a token keeps whether its copy is that one. Not modelled: the limit of 30
minutes on the attempts, the growing delays; the await of `diagnoseMediaFailure`, after a
connection that failed, is part of the step that fails, and the recovery it delays is
scheduled at once; the request of the speaking permission is in `VoicePolicy`.

### 2.5 `ChatReplay`

| State | Code |
|---|---|
| `counter`, `seen` | `ChatCipher.counter`, `ChatCipher.seen`, per stay |
| `sending` | calls of `sendChat` that have not ended |
| `wire` | packets handed to `publishData` |
| `opening` | calls of `decrypt` that await WebCrypto |
| `list` | `active.messages` |
| `sealed`, `opened` | history: what was given a nonce, and what was decrypted |

`Encrypt`, `Publish`, `Sent`, `SendFails` are `sendChat` (and the form that catches its
failure) from await to await, `Receive` and `Open` `receiveChat`. A cipher has a random
prefix, here the stay itself. A packet whose decryption fails changes nothing and is
left out; the trimming of the list to 100 messages is not modelled.

`OnceDelivery` is the abstract specification: a reader is shown only what was sent,
each message once, another writer's in order. `ChatReplay` implements it
(`ImplementsOnce`), with any losses.

### 2.6 `PresenceAnnouncer`

| State | Code |
|---|---|
| `presence` | `ready`, `previous`, `pending`, `seen` of `presence.ts` |
| `stay`, `room` | `active.members` and the setting; the connection and the participants of the media room |
| `channel` | the management channel and what is on its way |
| `where`, `enabled` | environment: the other members, and the server's setting |
| `heard`, `said`, `left` | history: who was shown online since the last reset, the last announcement, the departures accepted |

`RosterArrives`, `DepartureArrives`, `ParticipantChanges`, `RoomBreaks`, `RoomReplaced`, `RoomRecovers`,
`ChannelOpens`, `ChannelCloses` and `TimerFires` are the handlers that reach
`presence.ts`; `MemberMoves` and `Switch` are the other members and the host. The
channel delivers in order while it is open and loses everything when it closes; a
departure may be repeated, by a channel that was given up but stayed open. An
announcement is what reaches `speak` while announcements are enabled; whether a voice
is installed, and the pause of 1.5 seconds between two sentences, are left out.

A room ends in two ways. `RoomBreaks` is the loss of the connection, which resets the
announcer; `RoomReplaced` is `connectMedia` taking down a room that is still connected
(`app.ts:780-783`): its end counts as intended, and nothing is reset before the next room
connects (`app.ts:901`), so that timers run on in between.

### 2.7 `AdminListening`

| State | Code |
|---|---|
| `page` | `adminToken`, the dashboard, `activeListener`, `listenerHeartbeat`, the overview being loaded and who awaits it |
| `start` | the call of `startListening` (`startingListener` admits one), by await |
| `stops` | the calls of `stopListening`, by await, with whoever awaits them |
| `beats` | renewals under way, with the token they were sent with |
| `lease` | `Server.monitors` |
| `media` | the LiveKit rooms of the page |

The actions are the handlers of `admin/app.ts` from await to await, and for the server
`Granted`, `IsRefused` / `Renewed` and `LeaseEnds` (time, the end of the room, a restart).
`Reload` closes and opens the page. One room can be listened to; the other buttons only
await a request and load the overview, as `Refresh` does.

### 2.8 `VoicePolicy`

One member's permission to speak, in three places: the registry decides, LiveKit
enforces, the client shows. It is the composition of server, LiveKit and client.

| State | Code |
|---|---|
| `member` | whether the member has a record, `host` for `HostMemberID == memberID`, `CanSpeak` |
| `run` | the handlers that synchronise: waiting for the lock of the identity, calling, looking again, sleeping 250 ms, or about to send their event; with the policy read, the attempts made, and whether their context is over |
| `media` | LiveKit's participant: connected, may publish, and whether the token, a call or a late call said so |
| `late` | calls that timed out and may still be carried out |
| `outbox` | events prepared under `Server.mu` and not yet sent |
| `channel` | the stream: open, events on their way, a `media_ready` on its way |
| `client` | `state.active`: role, `policyCanSpeak`, `mediaCanPublish`, the ten-second timer; the rosters of the `voice_policy` handlers that await `applyMicrophone` |
| `unsynced` | history: the policy changed since a synchronisation succeeded |
| `overtaken` | history: an event was sent, or handled, before an older one |
| `disturbances` | counts changes and faults, for `MaxDisturbances` |

| Actions | Code |
|---|---|
| `SetVoicePolicy`, `ChangeRole`, `OtherChanges`, `Leave` | `voicePolicy` and `adminVoicePolicy`; `handover` and `assignHostLocked`; any `broadcastSnapshot`; `leaveMember` and `deleteRoom` |
| `Begin`, `CallReturns`, `CallFails`, `Check`, `Retry`, `Expire` | `syncMediaPolicy`, between its locks, its calls and its pauses |
| `LateCall` | LiveKit carries out a request whose sender has given it up |
| `SendFor` | `broadcastRoom` |
| `Deliver`, `RosterApplies` | `handleManagementEvent`; its rest after the await of `voice_policy` (`app.ts:538-542`) |
| `TimerFires`, `PermissionArrives`, `ChannelOpens`, `ChannelCloses`, `MediaConnects`, `MediaDrops` | the callers of `requestMediaPermission` and the loss of either connection |
| `Hear`, `RequestIsLost` | `routeEvent` on `media_ready`, and its refusals |

* An event is prepared with the change and sent any time later, for `voice_policy` after
  the synchronisation, so that events overtake one another in any order. The client's
  handler of `voice_policy` takes the policy, awaits the microphone, and then applies its
  own roster over whatever was handled in between. No property assumes an order;
  `OnlyOvertakingMisleads` says what follows when nothing is overtaken (2.10).
* A promotion changes the policy and calls nobody: LiveKit follows when the client asks.
* A leave is final for the model; a member that rejoins is a new stay of its client.
* Left out: the count of 30 requests per minute (a refusal counts as a loss), the event
  that a stream with 64 waiting ones loses while it stays open, two members that share
  one of the 64 locks, the second snapshot a WebSocket is sent, and its request that waits
  while another is handled; the pause of 250 ms after the last attempt, which delays only
  the answer; the rollback of `adminVoicePolicy` when the change cannot be saved, within
  the same critical section; a snapshot that reads its parts one after the other.

### 2.9 Runs

| Run | Question | Result |
|---|---|---|
| `registry_seats` | can any order of admission, rejoin, resume, departure, sweep and restart break capacity, identity, seats, the member–room relation or the empty deadline, split the role of the host but by a handover that met a rejoin, or endanger a host that is online but by such a split? | no |
| `registry_progress` | with two channels, is a shown presence true? Is a late host replaced, does an expired empty room end, is a lost member shown offline? | yes |
| `fusion_relay` | with uploads, prunings, upgrades, timers and packets in any order: do peers and handlers agree, is no packet repeated early, does an ended room stay ended while remembered, do old rosters stay dead, is an ended room emptied, is a stranger disconnected? | yes |
| `microphone` | is nobody heard who is not meant to be, does the gate implement the switch, is a lasting wish granted, is every device released? | yes |
| `call_session` | with recoveries overlapping and cancelling one another across stays: is either connection ever forgotten, is the token kept, is a stay that is left quiet, does recovery converge? | no; yes; yes; yes |
| `chat_replay` | are nonces unique, are only overtaken packets lost, does the chat deliver at most once and in order? | yes |
| `presence` | is every announced drop fresh and true, is a departure told once? | yes |
| `admin_listening` | is every media connection attended, does listening end without its lease and after a logout? | yes |
| `voice_policy` | is a successful synchronisation never undone by an older reading? Whatever fails or comes late, does LiveKit end up with the policy of the server, unless the client believes an older one; is it misled only by events that overtake one another; does every handler get the lock and give it back? | yes |
| `sweep_race` | is a room empty when the sweeper ends it? | **no** |
| `hot_microphone` | is a cancelled press always silent? | **no** |
| `policy_lost` | does LiveKit end up with the policy of every connected member? | **no** |

### 2.10 Disagreements, and behaviour the models show

Three runs refute what the repository says of itself:

1. **`sweep_race`** – `sweep` lists expired rooms, unlocks, and deletes each one
   looking only whether it still exists. A member whose channel opens in between
   is thrown out of an occupied room, against `README.md:207`.
2. **`hot_microphone`** – when an unmute of the SDK fails, `applyMicrophone`
   (`app.ts:931`) stops the press and disables the current track, but leaves
   `wanted` of the gate. An operation queued behind the failed one reads that wish and
   opens the track with nobody at the button, against `press-to-talk.ts:1` and
   `microphone-gate.ts:8`. `HeardOnlyWhenMeant` shows that this is the only way, but
   for the recaptured device below.
3. **`policy_lost`** – clients are to repeat `media_ready` every ten seconds while policy
   and permission disagree, and the server to apply the latest policy
   (`docs/API.md:31`). `requestMediaPermission` (`app.ts:582`) compares the permission
   with the client's *copy* of the policy, and events are sent after the lock they were
   prepared under is released (`server.go:999`), without a revision. TLC finds: a
   snapshot is prepared, the role changes, `role_changed` overtakes the snapshot, the
   one request it causes is lost, and the snapshot takes the role back. The copy now
   agrees with LiveKit, so the client stops asking, while the server has another policy.
   The same happens when `voice_policy` applies its roster after a newer event.
   `OnlyMisledClientsRest` and `OnlyOvertakingMisleads` show that this is the only way.

Two further disagreements have no run of their own; the properties name them instead, and
hold with them in the model:

* `handover` (`server.go:553`) clears `IsHost` on the object it captured. If the device
  rejoins in between, the copy in the map keeps the flag: two members pass the role
  test, although "a host that has handed over can change nothing"
  (`docs/RELEASE_0.2.4.md:3`, in Chinese). The closing channel of that stray member then
  arms the host's deadline, and the sweeper may depose a host that is online
  (`server.go:770`). `RoleSplitsOnlyByRejoin` and `OnlyStraysThreatenHosts` say that
  neither happens in another way; without their exceptions TLC refutes both.
* While `connectMedia` replaces a connected room, a pending timer announces the drop of a
  member that may be back, or that the client cannot see, although a break of two seconds
  is not to be announced (`docs/RELEASE_0.2.4.md:5`) and announcements are to stop while
  the media connection is restored (`docs/RELEASE_0.2.5.md:8`). `DropsAreFresh` speaks of
  the times when a room is connected; without that condition TLC refutes it.

The models also have the following behaviour of the code. No run is spent on it; the
properties are stated so that what they promise is true beside it.

Server:

* The empty deadline is armed only when a *channel* closes and at a restart
  (`server.go:580`): a voluntary departure of the last online member, or a creator that
  never connects, leaves a room that never ends.
* When the host leaves and all others are offline, `assignHostLocked` returns early
  (`server.go:872`) and nothing calls it again: members that come back have no host.
* `renameRoom` (`server.go:494`) uses the room without a nil test and unlocks without
  `defer`: a rename that races the end of its room keeps the mutex (`mu = "lost"`).
* `resume` rotates the token before its answer is delivered (`server.go:359`): a lost
  answer ends the stay (`server[s].lost`), although the client retries for 30 minutes.
* A creator that never connected and handed over stays for ever; a join between the
  two sections of `leaveMember` is admitted to a room that goes away.

Media policy:

* A promotion calls nobody (`server.go:881`): a new host whose channel breaks before its
  client has learned of the role is not heard until the channel is open again.

Microphone:

* `README.md` of the repository says that a release stops the transmission at once; the code
  keeps it for a tail of half a second (`app.ts:1548`), which `HeardOnlyWhenMeant` counts
  as meant.
* The `ended` listener calls `disposeMicrophone`, which raises the generation; if the
  task still awaits then, its `finally` does not clear `micTask`, and the microphone
  cannot be enabled again until another room, another device or `pagehide`.
* A device that ends before the `ended` listener is added goes unnoticed; the gate's next
  unmute lets the SDK capture a device again (`again`), and if a new capture replaces the
  track on the page by then, nobody owns that device (`Stray`).

Recovery:

* After a timeout of `waitForOpen` the HTTP stream is not closed and may open later;
  of two overlapping calls of `connectEvents` the one that ends first leaves an open
  channel behind (`LateChannel`, `ChannelOpens`).
* The continuation of a resume or media grant of a stay that was left connects the media
  of the *active* stay with the old grant; the media server then disconnects one of two
  connections of that identity, which a further media reconnect repairs.
* The admission dialog may be cancelled while its request runs: the stay is entered
  all the same and replaces the active one without leaving it.
* The rest of `cleanupRoom` clears `state.active` even if another stay is active by then.
* `Disconnected` does not compare the room with `active.room`, so the end of an old room
  schedules a media reconnect of the new one.
* Recoveries whose answers take longer than the timers' delay can go on refusing each
  other; `RecoveryConverges` counts each such overlap as a fault.

Chat: of two packets of one author that overtake each other, on the way or in WebCrypto,
the earlier is dropped (`OnlyOvertakenAreLost`).

Announcements: a member that has left may be announced as dropped as well, when the media
room notices before the roster does, or when the channel was broken.

Administrator's page:

* A heartbeat of an old listener that fails late stops the new one without telling the
  server, whose lease runs out by itself.
* A grant that arrives after the logout starts listening; the next heartbeat is refused
  with 401 and ends it. An overview that was in flight at the logout shows the dashboard
  again.
* A lease that is lost (a throttled timer, a restart) is noticed by the next heartbeat
  only: until then the page listens and the members are not shown a listener.

### 2.11 Bounds, and why they are enough

Registry and relay:

* One room. Rooms share only `MaximumRooms`, the limit per host device and the
  sweep; each property speaks of one room.
* Three member ids and three objects in `registry_seats`, with
  `MaxParticipants = 2`: a full room, and one identity more than fits, so a seat
  can be given up and handed out again. Three objects allow a rejoin while a
  request holds the replaced object.
* Two devices, one proof and "no proof": shared ids, proved against unproved,
  proved against proved.
* `MaxOrder = 3`, the one bound in a guard of the model (`JoinRoom`): a room of two
  in which a seat was given up and handed out again behind the others, so that
  orders exceed the number of members. The theorems cover every order.
* Two channels in `registry_progress`: the replacement of a
  channel. One in `registry_seats`, where channels only bring members online.
* One member request at a time: it already overlaps channels, admission, sweeps,
  administrator and clock. A second member request changes the registry as an
  `AdminEndRoom`, a rejoin or a sweep can.
* `HostedLimit = 3` as in the code; `MaximumRooms = 1`.
* `registry_progress` has `Ops = {"handover"}`: a rename may stop the process, and
  departures may leave a room without a deadline or a host (2.10). Handovers are the
  requests that move the role while deadlines run. It has no restarts and no
  symmetry, since it checks liveness, and no proofs: rejoins, and what they do to the role, are in
  `registry_seats`.
* Symmetry of the pools is used in the safety runs only; `NextHost` is a `CHOOSE`
  among members whose orders differ, so it does not depend on names.
* `fusion_relay`: two connections, so that one is between its two looks, or leaving, while
  the other is a peer; a queue of two, to hold a repetition; a table of one packet;
  `MaxTime = 3` against `Retention = 2`, so that a record can be pruned and made anew; two
  signed states, one to replace or resurrect the other. The limit of connections
  (`MaxPeers = 2`) is not reached: `RelayStaysWithinLimit` proves it for every limit and
  number of upgrades. `MaxTime` and `MaxSigned` are the bounds in guards (`Tick`, `Sign`).

Client:

* `microphone`: two captures and two media rooms, so that a capture can be superseded
  by another one at each of its awaits, in the same room or in the next; one upset
  (mute, mode, device, permission, failure, ...) beside any number of presses,
  releases, returns of the link and departures, which are not counted; a queue of
  two behind the running SDK call. `hot_microphone` needs one of each.
  `MaxTasks`, `MaxRooms`, `MaxUpsets` and `QueueBound` are the bounds in guards.
* `call_session`: two stays, so that the jobs of one run on in the other; four
  faults: entering twice, and two of losing a channel, a room, an answer, leaving,
  or a timer that fires during a request; four channels, rooms and jobs at a time
  (`HasSpace`), which these faults do not exhaust but for behaviours with
  all of them abandoned.
* `chat_replay`: three stays, so that a reader has two authors for a record of one
  (`Capacity = 1`); three messages for two counters (`MaxCounter = 1`), so that a
  counter is exhausted; two decryptions at a time, to overtake each other, a packet's
  second copy included. Symmetric in stays and messages.
* `presence`: three members with a memory of one departure (`SeenLimit = 1`), so that
  it evicts; three messages on the channel and four accepted departures (`MaxQueue`,
  `MaxLeft`), so that a repetition comes after an eviction. 5.2 million states.
* `admin_listening`: two listeners, two calls of `stopListening`, two sign-ins: one of
  each old and one new.

Media policy:

* Two handlers (`Run`), so that one waits for the lock of the other; `Attempts = 3` as in
  the code; two disturbances, each a change (of the member's role or policy, of another
  member, a departure) or a fault (a call that fails before or after it took effect, or
  comes late, a request that expires or is lost, a connection that breaks), beside any
  number of repeated requests and of connections made anew. Two are needed for every way
  of being misled: one change beside the snapshot of the channel, and one loss. One event
  on the channel (`MaxQueue = 1`) loses no order, since events overtake one another before
  they are sent and a second waits there. `policy_lost` has one attempt: its trace needs no
  second. `MaxDisturbances` and `MaxQueue` are the bounds in guards.
  `SyncedMeansEnforced` is proved for every number of disturbances and handlers.

Deadlock is checked in the registry runs, where something can always happen. It is not
in the others: the relay's clock stops at `MaxTime`, and a client may have left its
rooms with every bound used up.

### 2.12 Fairness

`FairSpec` of `RoomRegistry` assumes weak fairness of

* the steps of a channel handler, except the closing of the channel: a handler runs
  until it blocks in its read loop;
* the steps of a member request: a handler runs to its end;
* `Sweep` and each `SweepDelete`: a ticker every five seconds and a loop without
  conditions;
* the passing of each deadline: time does not stand still.

Nothing obliges a client to connect, disconnect, ask, join or rejoin; none of the
liveness properties needs it to.

`FairSpec` of `FusionHub` assumes that upgrades end, timers fire and a cancelled
handler returns (its reads and writes fail with its context). Peers need not send,
authenticate or leave, and nobody needs to upload.

`FairSpec` of `Microphone`: the SDK answers, one way or the other, and what follows an
answer runs. Nobody has to answer the browser's prompt for the microphone, to press,
to release or to leave.

`FairSpec` of `CallSession`: what is awaited is answered, timers fire while nothing of
their stay is waiting, and a channel or room that the other side closed says so.
Faults are finite (`MaxFaults`), so the property is about what follows the last one.

`FairSpec` of `AdminListening`: what is awaited returns or fails, and the heartbeat's
interval goes on. Nobody has to stop, to sign in or to reload.

`FairSpec` of `VoicePolicy`: handlers run on, each call to LiveKit has a deadline of three
seconds, events are sent, an open channel delivers, the SDK ends its operations (`RosterApplies`),
timers fire and requests are heard.
`Begin` is strongly fair: the lock is free again and again while others take it, and Go's
mutex is handed to whoever has waited for a millisecond. Nobody has to connect, which is
why the properties speak of a member with both connections; changes and failures are
finite.

### 2.13 Theorems

`RoomRegistryProofs` proves, with TLAPS, for every value of the constants that
satisfies `RegistryAssumption` (naturals as limits, `NoProof` not a proof, finite
pools of rooms and members, known operations):

| Theorem | Statement |
|---|---|
| `TypeCorrect` | `Spec => []TypeOK` |
| `MembersAlwaysHaveRooms` | `Spec => []MembersHaveRooms` |
| `CapacityIsKept` | `Spec => []WithinCapacity` |
| `DevicesHaveOneSeat` | `Spec => []OneSeatPerDevice` |
| `OrdersStayDistinct` | `Spec => []DistinctOrders` |
| `EmptyDeadlinesMeanEmpty` | `Spec => []EmptyDeadlineMeansEmpty` |
| `PresenceStaysTrue` | `Spec => []PresenceIsTrue` |
| `RegistryImplementsLedger` | `Spec => ImplementsLedger` |
| `OnlineMembersAreSpared` | `Spec => OnlineMembersStay` |
| `HostsCarryTheFlag` | `Spec => []HostInv` |
| `OneHostPerRoom` | `Spec => RoleSplitsOnlyByRejoin` |
| `OnlineHostsAreSafe` | `Spec => OnlyStraysThreatenHosts` |

How they go:

* `TypeOK` is inductive by itself: lemmas on maps (`PutMap`, `DropMap`, `UpdateMap`)
  and on the promotion of a host (`NextHostIsEarliest`, `RoomsAfterMap`), then one
  lemma per group of actions.
* `StepCases` sorts every step into three kinds: it admits one member
  (`AdmitsMember`), deletes a room, or keeps seats and rooms (`KeepsSeats`). The
  theorems on rooms, capacity, devices and orders, and the refinement, follow
  from these three kinds. Capacity needs a strengthening, `SeatsWithinCapacity`,
  which also speaks of room ids not in use: a fresh id must have no members.
* The empty deadline: only `MarkOnline`, `MarkOffline` and `Restart` can disturb it;
  for all others `NobodyAppears` holds.
* Presence: only the channel actions and `Restart` can disturb it. The invariant is
  not inductive alone: `markConnected` ignores a member whose room is gone, so
  the proof uses `MembersHaveRooms`.
* Sweeps: an action property, by a case for each action that drops members: with their
  room, at their own request, or because they are offline when the sweeper holds the lock.
* The host: the flag lives on a `*Member` *object*, which a rejoin replaces and a handler
  goes on holding. `HostInv` therefore speaks of objects: members do not share one
  (`DistinctObjects`), what a request captured belongs to its caller or to nobody
  (`CapturedObjects`), and the host of a room carries the flag (`HostIsFlagged`). That
  *nobody else* carries it is no invariant: a handover clears the flag of the object it
  captured, and a rejoin in between leaves the copy flagged (2.10). So the two theorems
  are action properties without a hypothesis: by a case for each action, a member that
  comes to carry the flag beside the host is the caller of a handover whose object is no
  longer its own; and the deadline of a host that is online comes to stand only by a
  channel, or a resumption, of a member that carries the flag, which is the host itself
  (and then it is not online, or the deadline goes) or a stray.

`FusionHubProofs` proves, for every value of the constants that satisfies
`FusionAssumption` (naturals as durations and limits, a finite pool of peers, and
`Fresh + Ahead <= Retention`: 90 s and one minute against 30 minutes), all the
safety properties `fusion_relay` checks, and that the limit of connections holds
(`RelayWithinLimit`, for every limit):

| Theorem | Statement |
|---|---|
| `FusionTypeCorrect` | `Spec => []TypeOK` |
| `RelayStaysMatched` | `Spec => []RelayMatchesPeers` |
| `RelayStaysWithinLimit` | `Spec => []RelayWithinLimit` |
| `TombstonesHold` | `Spec => TombstoneHolds` |
| `RevisionsOnlyGrow` | `Spec => RevisionsGrow` |
| `RelayNeverRepeats` | `Spec => []NoEarlyRepeat` |

* Connections: `Alike` and `SamePeers` say that a step leaves connections and peers as
  they are; `RelayMatchesPeers` is inductive once each kind of step is one of
  these, a pruning (whose peers are all cancelled), a join or an end.
* Rooms: `PeersOnlyJoin` says that only a join adds a peer, `RoomStep` that a
  record stays, expires or is replaced by a timely upload.
* Revisions: what `RevisionsGrow` says of a room's whole future follows from the
  invariant `Past(r, n)`: the record is as new as `n`, or `n` is too old to be
  uploaded. An expiring record hands over from the first to the second case
  because of `Dated` (no revision is further ahead of its last use than `Ahead`) and
  of `Fresh + Ahead <= Retention`; with a shorter retention the theorem would fail.
* Packets: `NoEarlyRepeat` alone is not inductive. `Traced` strengthens it: what is
  in a peer's queue is in the room's table of seen packets with a time at least as
  late, or is older than `SeenFor`. It needs `RelayMatchesPeers`, so that a peer gets
  packets from one room only.

`ChatReplayProofs` proves, for every value of the constants that satisfies
`ChatReplayAssumption` (a finite set of stays, naturals as limits), all properties
of `chat_replay`, and its type invariant:

| Theorem | Statement |
|---|---|
| `TypeCorrect` | `Spec => []TypeOK` |
| `NoncesAreUnique` | `Spec => []NoncesUnique` |
| `OnceImplemented` | `Spec => ImplementsOnce` |
| `OnlyOvertakenLost` | `Spec => []OnlyOvertakenAreLost` |

* Nonces: a stay's counter is above every counter it has written, and what is written
  has not wrapped, because `encrypt` refuses the value after the last.
* Refinement: what a reader was shown of an author is at most the counter it remembers
  of that author, so what passes `IsReplay` is later than all of it; and its own
  messages are shown by the one call that sends them.
* Losses: the remembered counter of an author is that of a message shown, and the
  record holds exactly the authors heard.

`PresenceProofs` proves, for every set of members, size of the memory and bounds:

| Theorem | Statement |
|---|---|
| `TypeCorrect` | `Spec => []TypeOK` |
| `DropsFresh` | `Spec => []DropsAreFresh` |
| `DeparturesOnce` | `Spec => []DeparturesAreToldOnce` |

* Drops: whoever is remembered as online or has a timer was shown online since the last
  reset; and while the announcer is ready and the room connected, what it remembers is what
  is displayed (`KnownInv`). A reset cancels the timers, so none outlives the break of either
  connection; they outlive only the replacement of a room, until the next one connects.
* Departures: the memory is the end of the history of accepted departures, as long as
  its limit allows (`SeenIsRecent`), so an accepted departure is none of the last
  `SeenLimit`.

`VoicePolicyProofs` proves, for every set of handlers, number of attempts and bounds, and
for events in any order:

| Theorem | Statement |
|---|---|
| `TypeCorrect` | `Spec => []TypeOK` |
| `SyncedEnforced` | `Spec => []SyncedMeansEnforced` |

* `SyncedMeansEnforced` is not inductive: what a handler reports at its check was read and
  called earlier. `PolicyInv` adds that one handler at a time holds the lock
  (`OneHolder`); that the policy it has read is the current one, or the change is noted as
  unsynchronised (`ReadingsAreTracked`); and that a call which succeeded is what LiveKit
  enforces, unless a token or a late call came after it (`AnswersAreTrue`).
  A step is one of three kinds: it touches neither calls nor policy (`QuietSteps`),
  changes the record (`ChangeSteps`), or belongs to the holder (`HolderSteps`).

`AdminListeningProofs` proves, for any number of listeners, stops and sign-ins:

| Theorem | Statement |
|---|---|
| `TypeCorrect` | `Spec => []TypeOK` |
| `ListeningIsAttended` | `Spec => []NothingPlaysUnattended` |

* A connection that plays is attended by the page, by the start that made it, or by a stop that
  will close it. `ListeningInv` adds `OneCall`: while a start waits the page plays nothing, and
  at most one stop runs on behalf of a start that waits for it. Otherwise the listener a
  start brings to the page could take the place of one that plays.

`CallSessionProofs` proves, for any number of stays, channels, rooms, overlapping async
functions and faults:

| Theorem | Statement |
|---|---|
| `TypeCorrect` | `Spec => []TypeOK` |
| `ConnectionsAreCaredFor` | `Spec => []NothingForgotten` |
| `NewestTokenIsKept` | `Spec => []TokenIsCurrent` |
| `LeavingStaysQuiet` | `Spec => []LeavingIsQuiet` |

* `SessionInv` is one invariant for the three. The socket of a stay is an open channel of its
  own whose end will be noticed, and no two calls wait for one channel (`Wired`); the same
  of rooms (`Housed`); only a stay that was entered is active or resumes (`Entered`); an
  answer with the newest token is on its way once, and nobody else has that token
  (`Tokens`). Only then is "either up, or a timer stands, or a call that ends with it
  runs" (`Cared`) kept by a call that fails: what failed was the call's own.
* The lemmas are about the operators of the source as functions of a page (`ScheduleEvents`,
  `EventsFailed`, ...), since a handler calls several in a row; each action then
  composes them.
* `RestoresRoom` counts fewer calls than `NothingForgotten` does: the full recovery of one
  stay looks at the room of another, and does not restore it.

`MicrophoneProofs` proves, for any number of captures, rooms and upsets and any length of
the gates' queues, all that `microphone` checks but liveness:

| Theorem | Statement |
|---|---|
| `TypeCorrect` | `Spec => []TypeOK` |
| `DevicesAreOwned` | `Spec => []CapturedDeviceIsOwned` |
| `NobodyElseIsHeard` | `Spec => []HeardOnlyWhenMeant` |
| `SwitchImplemented` | `Spec => ImplementsSwitch` |

* One gate: every operation of a gate is a `Moves`: what is disposed of stays so, what is dark
  (its device is gone, or the SDK's own) stays so, and a gate that is open afterwards had its
  wish before. The last is all that the refinement of `TalkSwitch` needs (`Opens`).
* Types are not inductive alone: a new room stays within `MaxRooms` because only one is
  replaced at a time (`Pressed`).
* Devices (`Owned`): the generation of the page is that of the capture under way or of one that
  has ended (`Newest`); so a microphone that a newer capture is about to replace has ended
  and is dark, one that was published is ready or dark, and a capture that is no longer the
  page's was disposed of before it ends (`Devices`).
* Hearing: the wish of the microphone's gate is that of the page or has slipped (`Meant`). It
  rests on `Pressed`: a room that was left has no microphone, one that is being replaced
  none that is ready, and a press on the page is a held button or its tail.
* `MicInv`, the conjunction, was checked by TLC with two captures and two upsets before it
  was proved.

Only model-checked: liveness is outside the prover's reach, so `LateHostIsReplaced`,
`EmptyDeadlineEndsRoom`, `LostMemberGoesOffline`, `EndedRoomEmpties`, `StrangersLeave`,
`WishIsGranted`, `DeviceIsReleased`, `RecoveryConverges`, `UnseenListeningEnds`,
`LogoutSilences`, `OnlyMisledClientsRest`, `OnlyOvertakingMisleads` and `HandlersEnd` stay
with TLC. Every invariant, action property and refinement of the passing runs is proved.
Of the type invariants, that of `Microphone` is in a run; the others, and
`DistinctOrders`, which `ImplementsLedger` implies, are proved and in no run.

### 2.14 Not modelled

* The SQLite store, the rate limiter, and the event fan-out of the server beyond the
  order of roles and policies: planned, section 3.
* Cryptography (scrypt, SPAKE2, HKDF, AES-GCM, key wrapping): nothing a model checker
  adds to. Where a model meets it, its verdict decides: a packet decrypts or is left
  out.
* Setup, rendering, the list of rooms, the wake lock, playback and the choice of a
  speaker: handlers that read state and write the page.
* Configuration, static files, process start: sequential I/O. LiveKit itself: external.

## 3. Plan

In this order:

1. `DurableRooms` – memory and database as two states; each statement of `createRoom`,
   `joinRoom`, `leaveMember`, `deleteRoom` and `sweep` a step that may fail or be
   the last before a crash. Abstract specification: the database is always a
   registry that memory was in.
2. `EventFanout` – snapshots sent outside the lock, bounded queues, session
   replacement; composes with the presence part of `RoomRegistry` and with
   `PresenceAnnouncer`.
3. `RateLimiter` – `allowAttemptLocked` against a reference definition, and the limit of
   listeners per room.

Theorems planned: the invariants of these modules.

## 4. Running

    tlc -config RegistrySeats.cfg MCRoomRegistry.tla
    tlc -config FusionRelay.cfg FusionHub.tla
    tlc -config Microphone.cfg Microphone.tla
    tlc -config VoicePolicy.cfg VoicePolicy.tla
    tlapm RoomRegistryProofs.tla
    tlapm FusionHubProofs.tla
    tlapm ChatReplayProofs.tla
    tlapm PresenceProofs.tla
    tlapm VoicePolicyProofs.tla
    tlapm AdminListeningProofs.tla
    tlapm CallSessionProofs.tla
    tlapm MicrophoneProofs.tla

The configurations of `RoomRegistry` belong to `MCRoomRegistry`, which adds the symmetry
sets; those of the other modules to the modules themselves. `HotMicrophone.cfg` belongs to
`Microphone`, `PolicyLost.cfg` to `VoicePolicy`, `SweepRace.cfg` to `MCRoomRegistry`.

Each definition named `X_Y` in these modules is a plausible mistake in definition `X`,
used to test that the properties notice it.
