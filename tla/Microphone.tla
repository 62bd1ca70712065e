----------------------------- MODULE Microphone -----------------------------
(***************************************************************************)
(* The microphone of the web client, during one stay in a room: the press  *)
(* on the talk button, the capture of a device, the gate that serializes   *)
(* the calls to the media SDK, and the media connection that comes and     *)
(* goes under them.                                                        *)
(*                                                                         *)
(* Source: frontend/src/shared/microphone-gate.ts, press-to-talk.ts and    *)
(* frontend/src/client/app.ts.  JavaScript runs one handler at a time, so  *)
(* an action is a handler, or the part of an async function between two    *)
(* awaits.  The SDK and the browser are external: their calls return, or   *)
(* fail, in any order.  A generation number is only ever compared with the *)
(* newest one, so the model keeps whose it is.                             *)
(***************************************************************************)
EXTENDS Integers

CONSTANTS
    MaxTasks,   \* bound: captures requested during the stay
    MaxRooms,   \* bound: media rooms the stay goes through
    MaxUpsets,  \* bound: changes of mind of the user, and faults
    QueueBound  \* bound: SDK operations in a queue; a further one would read the same wish

ASSUME MicrophoneAssumption ==
    MaxTasks \in Nat \ {0} /\ MaxRooms \in Nat \ {0} /\ MaxUpsets \in Nat /\ QueueBound \in Nat \ {0, 1}

VARIABLES
    held,   \* a source holds the talk button
    page,   \* the fields of state.active, and the life of the stay
    task,   \* the captures started by initializeAudioDevices
    track,  \* the track of each capture, with its gate
    upsets  \* how often something was changed, or failed

vars == <<held, page, task, track, upsets>>

-----------------------------------------------------------------------------

Task == 1..MaxTasks
None == 0

\* in: in the room; closing: inside cleanupRoom; ended: the room is gone, its
\* messages are kept; out: state.active is another room or none.
Page == [phase: {"in", "closing", "ended", "out"}, room: 1..MaxRooms, swapping: BOOLEAN,
         link: {"down", "up"}, canSpeak: BOOLEAN, muted: BOOLEAN,
         mode: {"ptt", "auto"}, ptt: BOOLEAN, tail: BOOLEAN, ready: BOOLEAN,
         generation: Task \cup {None}, micTask: Task \cup {None},
         mic: Task \cup {None}]

\* waits: the handlers that await the capture.
TaskRecord == [pc: {"unused", "request", "import", "publish", "refresh", "apply",
                    "releasing", "failing", "done"},
               room: 1..MaxRooms, waits: BOOLEAN]

\* live: the device is captured; open: the track is enabled; again: by the SDK on
\* its own; slip: an error path withdrew the wish of the page, not the gate's;
\* before: the operations that end before the capture's own use of the gate returns.
TrackRecord == [live: BOOLEAN, open: BOOLEAN, again: BOOLEAN, wanted: BOOLEAN, disposed: BOOLEAN,
                pending: 0..QueueBound, before: 0..(QueueBound + 1),
                op: {"idle", "unmuting", "reopening", "muting"}, slip: BOOLEAN]

\* The shape of the page, the captures and the gates.
TypeOK ==
    /\ held \in BOOLEAN
    /\ page \in Page
    /\ task \in [Task -> TaskRecord]
    /\ track \in [Task -> TrackRecord]
    /\ upsets \in 0..MaxUpsets

-----------------------------------------------------------------------------
(* The wish, and the gate *)

\* currentMicWanted
Wanted(p) ==
    /\ p.phase # "out" /\ p.link = "up" /\ p.ready /\ p.canSpeak /\ ~p.muted
    /\ p.mode = "auto" \/ p.ptt

\* initializeAudioDevices: current()
Current(t) == page.phase = "in" /\ page.room = task[t].room /\ page.generation = t

\* The next operation reads the wish when its turn comes.  Unmuting a track whose
\* device has ended captures it again.
Start(g) ==
    IF g.disposed THEN [g EXCEPT !.op = "idle", !.pending = 0, !.before = 0]
    ELSE IF g.wanted THEN [g EXCEPT !.op = IF g.live THEN "unmuting" ELSE "reopening"]
    ELSE [g EXCEPT !.op = "muting", !.open = FALSE]

Queued(g) ==
    IF g.op = "idle" THEN Start(g) ELSE [g EXCEPT !.pending = IF @ < QueueBound THEN @ + 1 ELSE @]

\* MicrophoneGate.set: a withdrawn wish closes the track at once, the SDK follows.
GateSet(g, w) ==
    Queued([g EXCEPT !.wanted = w /\ ~g.disposed, !.open = @ /\ w /\ ~g.disposed, !.slip = FALSE])

\* Mutant of GateDispose: a disposed gate keeps the device.
GateDispose_Keeps(g) == [g EXCEPT !.disposed = TRUE, !.wanted = FALSE, !.open = FALSE]

\* MicrophoneGate.dispose
GateDispose(g) == [g EXCEPT !.disposed = TRUE, !.wanted = FALSE, !.open = FALSE, !.live = FALSE]

\* applyMicrophone(currentMicWanted()), up to its await
Applied(p, tr) ==
    IF p.phase = "out" \/ p.mic = None THEN tr
    ELSE [tr EXCEPT ![p.mic] = GateSet(@, Wanted(p))]

\* The media handlers close the gate without looking at the page.
Closed(p, tr) == IF p.mic = None THEN tr ELSE [tr EXCEPT ![p.mic] = GateSet(@, FALSE)]

\* An error path cancels the press and leaves the wish of the gate.
Slipped(p, tr) == IF p.mic = None THEN tr ELSE [tr EXCEPT ![p.mic].slip = @ \/ tr[p.mic].wanted]

Disabled(p, tr) == IF p.mic = None THEN tr ELSE [tr EXCEPT ![p.mic].open = FALSE]

StopPTT(p) == [p EXCEPT !.ptt = FALSE, !.tail = FALSE]

\* disposeMicrophone
Disposed(p) == [StopPTT(p) EXCEPT !.generation = None, !.mic = None, !.ready = FALSE]
Silenced(p, tr) == IF p.mic = None THEN tr ELSE [tr EXCEPT ![p.mic] = GateDispose(@)]

Forgotten(p) == [p EXCEPT !.micTask = None]

\* The end of a handler that changed the page to p and applies the wish.
Apply(p) == page' = p /\ track' = Applied(p, track)

-----------------------------------------------------------------------------
(* Starting a capture: initializeAudioDevices up to its first await.  w is what the  *)
(* caller does once the capture has ended: a press and the choice of a mode apply    *)
(* the wish.                                                                         *)

Usable(p) == p.ready /\ p.mic # None /\ track[p.mic].live

\* A capture is under way: wait for it.
Join(p, w) ==
    /\ p.micTask # None
    /\ IF task[p.micTask].pc = "done"
       THEN IF w THEN Apply(p) /\ UNCHANGED task ELSE page' = p /\ UNCHANGED <<task, track>>
       ELSE /\ page' = p
            /\ task' = [task EXCEPT ![p.micTask].waits = @ \/ w]
            /\ UNCHANGED track

\* The capture is there already, or the media connection is not.
Decline(p, w) ==
    /\ p.micTask = None
    /\ Usable(p) \/ p.link # "up"
    /\ Apply(p) \/ (page' = p /\ UNCHANGED track)
    /\ UNCHANGED task

Request(p, w) ==
    /\ p.micTask = None /\ p.link = "up"
    /\ \E t \in Task :
          /\ task[t].pc = "unused" /\ \A u \in Task : u < t => task[u].pc # "unused"
          /\ page' = [p EXCEPT !.generation = t, !.micTask = t]
          /\ task' = [task EXCEPT ![t] = [pc |-> "request", room |-> p.room, waits |-> w]]

Initialize(p, w) == Join(p, w) \/ Decline(p, w) \/ (~Usable(p) /\ Request(p, w) /\ UNCHANGED track)

-----------------------------------------------------------------------------
(* The user *)

\* bindPressToTalk: available()
Available == page.phase # "out" /\ page.mode = "ptt" /\ page.canSpeak /\ ~page.muted

Press ==
    /\ ~held /\ Available
    /\ held' = TRUE
    /\ LET p == [page EXCEPT !.ptt = TRUE, !.tail = FALSE]
       IN  IF p.ready THEN Apply(p) /\ UNCHANGED task ELSE Initialize(p, TRUE)

\* Letting go: by the finger or key, after which the tail is still sent, or by losing
\* the pointer, the focus or the page.
Release(immediate) ==
    /\ held
    /\ held' = FALSE
    /\ IF page.phase = "out" THEN UNCHANGED <<page, track>>
       ELSE IF ~immediate /\ page.ptt /\ Usable(page)
       THEN page' = [page EXCEPT !.tail = TRUE] /\ UNCHANGED track
       ELSE Apply(StopPTT(page))
    /\ UNCHANGED task

\* The page is hidden: a tail is cut as well.
Hide ==
    /\ page.phase # "out" /\ ~held
    /\ Apply(StopPTT(page))
    /\ UNCHANGED <<held, task>>

\* Mutant of TailEnds: the tail ends on the page only.
TailEnds_Quiet ==
    /\ page.tail
    /\ page' = StopPTT(page)
    /\ UNCHANGED <<held, task, track>>

TailEnds ==
    /\ page.tail
    /\ IF page.phase = "out" THEN page' = [page EXCEPT !.tail = FALSE] /\ UNCHANGED track
       ELSE Apply(StopPTT(page))
    /\ UNCHANGED <<held, task>>

ToggleMute ==
    /\ page.phase \in {"in", "closing"}
    /\ Apply([StopPTT(page) EXCEPT !.muted = ~@])
    /\ UNCHANGED <<held, task>>

ChooseMode(m) ==
    /\ page.phase \in {"in", "closing"}
    /\ LET p == [StopPTT(page) EXCEPT !.mode = m]
       IN  IF m = "auto" /\ ~p.ready THEN Initialize(p, TRUE) ELSE Apply(p) /\ UNCHANGED task
    /\ UNCHANGED held

\* The button that enables the microphone, which is disabled during a capture.
Enable ==
    /\ page.phase # "out" /\ page.micTask = None
    /\ Initialize(page, FALSE)
    /\ UNCHANGED held

\* Another input device: what there is is disposed of, and a capture begins.
ChangeInput ==
    /\ page.phase # "out"
    /\ LET p == Forgotten(Disposed(page))
       IN  Request(p, FALSE) \/ (p.link # "up" /\ page' = p /\ UNCHANGED task)
    /\ track' = Silenced(page, track)
    /\ UNCHANGED held

PageHide ==
    /\ page.phase # "out"
    /\ held' = FALSE
    /\ page' = Forgotten(Disposed(page))
    /\ track' = Silenced(page, track)
    /\ UNCHANGED task

-----------------------------------------------------------------------------
(* The room and the media connection *)

\* A roster of the management channel, or the media server, says who may speak.
PermissionChanges(b) ==
    /\ page.phase = "in"
    /\ Apply(IF b THEN [page EXCEPT !.canSpeak = TRUE] ELSE [StopPTT(page) EXCEPT !.canSpeak = FALSE])
    /\ UNCHANGED <<held, task>>

\* RoomEvent.Reconnecting and RoomEvent.Disconnected
LinkFails ==
    /\ page.phase = "in"
    /\ page' = [StopPTT(page) EXCEPT !.link = "down"]
    /\ track' = Closed(page, track)
    /\ UNCHANGED <<held, task>>

\* RoomEvent.Reconnected and the end of connectMedia, with the permission the server now
\* gives; the latter applies the wish only to a microphone that is ready.
LinkRecovers(b) ==
    /\ page.phase = "in" /\ ~page.swapping /\ page.link = "down"
    /\ LET p == [(IF b THEN page ELSE StopPTT(page)) EXCEPT !.link = "up", !.canSpeak = b]
       IN  Apply(p) \/ (~p.ready /\ page' = p /\ UNCHANGED track)
    /\ UNCHANGED <<held, task>>

\* connectMedia, up to the disconnection of the old room: that room may stay
\* connected until the call returns.
ReplaceRoom(l) ==
    /\ page.phase = "in" /\ ~page.swapping /\ page.room < MaxRooms
    /\ l \in {page.link, "down"}
    /\ page' = [Forgotten(Disposed(page)) EXCEPT !.swapping = TRUE, !.link = l]
    /\ track' = Silenced(page, track)
    /\ UNCHANGED <<held, task>>

\* connectMedia, the new Room
NewRoom ==
    /\ page.phase # "out" /\ page.swapping
    /\ page' = [page EXCEPT !.swapping = FALSE, !.room = @ + 1, !.link = "down"]
    /\ UNCHANGED <<held, task, track>>

\* cleanupRoom, up to the disconnection
LeaveRoom ==
    /\ page.phase \in {"in", "ended"}
    /\ page' = [Disposed(page) EXCEPT !.phase = "closing"]
    /\ track' = Silenced(page, track)
    /\ UNCHANGED <<held, task>>

RoomLeft ==
    /\ page.phase = "closing"
    /\ page' = [page EXCEPT !.phase = "out", !.link = "down", !.swapping = FALSE, !.canSpeak = FALSE,
                            !.muted = FALSE, !.mode = "ptt", !.ptt = FALSE, !.tail = FALSE]
    /\ UNCHANGED <<held, task, track>>

\* handleRoomEnded, of a room with messages
RoomEnds ==
    /\ page.phase = "in"
    /\ page' = [Forgotten(Disposed(page)) EXCEPT !.phase = "ended", !.link = "down", !.swapping = FALSE]
    /\ track' = Silenced(page, track)
    /\ UNCHANGED <<held, task>>

\* The device goes away: the "ended" event.
DeviceLost(t) ==
    /\ track[t].live
    /\ IF Current(t) /\ ~track[t].again /\ task[t].pc \notin {"request", "import", "publish"}
       THEN /\ page' = Disposed(page)
            /\ track' = [Silenced(page, track) EXCEPT ![t].live = FALSE]
       ELSE /\ track' = [track EXCEPT ![t].live = FALSE]
            /\ UNCHANGED page
    /\ UNCHANGED <<held, task>>

-----------------------------------------------------------------------------
(* A capture, await by await *)

\* The end of the task: the state of the page when it was still its generation, and
\* the handlers that waited.  A failure is thrown at them.
Finish(t, p, tr, ok) ==
    LET q       == IF p.generation = t THEN Forgotten(p) ELSE p
    IN  /\ page' = q
        /\ \/ task[t].waits /\ track' = Applied(q, tr)
           \/ ~(ok /\ task[t].waits) /\ track' = tr
        /\ task' = [task EXCEPT ![t].pc = "done", ![t].waits = FALSE]

Step(t, from, to) ==
    /\ task[t].pc = from
    /\ task' = [task EXCEPT ![t].pc = to]

\* Mutant of Granted: a stream that arrives too late is kept.
Granted_Kept(t) ==
    /\ Step(t, "request", IF Current(t) THEN "import" ELSE "done")
    /\ track' = [track EXCEPT ![t].live = TRUE]
    /\ UNCHANGED <<held, page>>

\* getUserMedia answers; a stream nobody waits for any more is stopped.
Granted(t) ==
    /\ task[t].pc = "request"
    /\ IF Current(t)
       THEN /\ Step(t, "request", "import")
            /\ track' = [track EXCEPT ![t].live = TRUE]
            /\ UNCHANGED page
       ELSE Finish(t, page, track, TRUE)
    /\ UNCHANGED held

\* The SDK is loaded: the track and its closed gate become the page's.
Imported(t) ==
    /\ task[t].pc = "import"
    /\ IF Current(t)
       THEN /\ Step(t, "import", "publish")
            /\ page' = [page EXCEPT !.mic = t]
            /\ UNCHANGED track
       ELSE Finish(t, page, [track EXCEPT ![t].live = FALSE], TRUE)
    /\ UNCHANGED held

\* publishTrack does not succeed in a room that is being disconnected.
Published(t) ==
    /\ ~(page.swapping /\ page.room = task[t].room)
    /\ IF Current(t)
       THEN /\ Step(t, "publish", "refresh")
            /\ page' = [page EXCEPT !.ready = TRUE]
            /\ UNCHANGED track
       ELSE /\ Step(t, "publish", "releasing")
            /\ track' = [track EXCEPT ![t] = GateDispose(@)]
            /\ UNCHANGED page
    /\ UNCHANGED held

Awaited(g) == [g EXCEPT !.before = IF g.op = "idle" THEN 0 ELSE g.pending + 1]

\* Mutant of Refreshed: the new microphone does not learn of the wish.
Refreshed_Unapplied(t) ==
    /\ Step(t, "refresh", "apply")
    /\ UNCHANGED <<held, page, track>>

Refreshed(t) ==
    /\ Step(t, "refresh", "apply")
    /\ track' = IF page.mic = t THEN [Applied(page, track) EXCEPT ![t] = Awaited(@)]
                ELSE Applied(page, track)
    /\ UNCHANGED <<held, page>>

Finished(t) ==
    /\ task[t].pc = "releasing" \/ (task[t].pc = "apply" /\ track[t].before = 0)
    /\ Finish(t, page, track, TRUE)
    /\ UNCHANGED held

\* An await throws: the stream is stopped, and the track unpublished.
Fails(t) ==
    /\ task[t].pc \in {"request", "import", "publish", "refresh"}
    /\ task' = [task EXCEPT ![t].pc = "failing"]
    /\ track' = [track EXCEPT ![t].live = FALSE]
    /\ UNCHANGED <<held, page>>

Failed(t) ==
    /\ task[t].pc = "failing"
    /\ IF Current(t)
       THEN Finish(t, [StopPTT(page) EXCEPT !.ready = FALSE], Slipped(page, track), FALSE)
       ELSE Finish(t, page, track, FALSE)
    /\ UNCHANGED held

-----------------------------------------------------------------------------
(* The gate: one SDK operation after the other *)

\* Mutant of Turned: the queue is taken to hold another operation.
Turned_Blind(g) == Start([g EXCEPT !.pending = @ - 1])

Turned(g) ==
    LET h == [g EXCEPT !.before = IF @ > 0 THEN @ - 1 ELSE 0]
    IN  IF h.pending = 0 THEN [h EXCEPT !.op = "idle"] ELSE Start([h EXCEPT !.pending = @ - 1])

Unmuted(g) == [g EXCEPT !.open = TRUE, !.live = @ \/ g.op = "reopening", !.again = @ \/ g.op = "reopening"]

\* Mutant of UnmuteReturns: nobody looks whether the wish still stands.
UnmuteReturns_Trusting(t) ==
    /\ track[t].op \in {"unmuting", "reopening"}
    /\ track' = [track EXCEPT ![t] = Turned(Unmuted(@))]
    /\ UNCHANGED <<held, page, task>>

\* The SDK enables the track, whatever has happened meanwhile; the continuation, in the
\* same turn of the event loop, looks whether that was still wanted.
UnmuteReturns(t) ==
    /\ track[t].op \in {"unmuting", "reopening"}
    /\ track' = [track EXCEPT ![t] =
          IF @.disposed THEN [Start(@) EXCEPT !.open = FALSE, !.live = FALSE]
          ELSE IF @.wanted THEN Turned(Unmuted(@))
          ELSE [Unmuted(@) EXCEPT !.op = "muting", !.open = FALSE]]
    /\ UNCHANGED <<held, page, task>>

MuteReturns(t) ==
    /\ track[t].op = "muting"
    /\ track' = [track EXCEPT ![t] = Turned(@)]
    /\ UNCHANGED <<held, page, task>>

\* The SDK refuses to unmute.  applyMicrophone stops the press and disables the track
\* of the page, but leaves the wish of the gate.  Nobody catches the failure of an
\* operation queued by a media handler: then the one that renewed the wish is behind it.
OperationFails(t, caught) ==
    /\ track[t].op \in {"unmuting", "reopening"}
    /\ caught \/ track[t].pending > 0
    /\ LET tr == [track EXCEPT ![t] = Turned(@)]
       IN  IF caught
           THEN page' = StopPTT(page) /\ track' = Slipped(page, Disabled(page, tr))
           ELSE track' = tr /\ UNCHANGED page
    /\ UNCHANGED <<held, task>>

-----------------------------------------------------------------------------

Init ==
    /\ held = FALSE
    /\ page = [phase |-> "in", room |-> 1, swapping |-> FALSE, link |-> "down", canSpeak |-> FALSE,
               muted |-> FALSE, mode |-> "ptt", ptt |-> FALSE, tail |-> FALSE, ready |-> FALSE,
               generation |-> None, micTask |-> None, mic |-> None]
    /\ task = [t \in Task |-> [pc |-> "unused", room |-> 1, waits |-> FALSE]]
    /\ track = [t \in Task |-> [live |-> FALSE, open |-> FALSE, again |-> FALSE, wanted |-> FALSE,
                                disposed |-> FALSE, pending |-> 0, before |-> 0, op |-> "idle", slip |-> FALSE]]
    /\ upsets = 0

\* What the user does all the time, and what comes back.
Talking ==
    \/ Press \/ Hide \/ TailEnds \/ Enable
    \/ \E b \in BOOLEAN : Release(b) \/ LinkRecovers(b)
    \/ NewRoom \/ LeaveRoom \/ RoomLeft \/ RoomEnds

\* What the user, the host or the network changes now and then.
Upset ==
    \/ ToggleMute \/ ChangeInput \/ PageHide \/ LinkFails
    \/ \E m \in {"ptt", "auto"} : ChooseMode(m)
    \/ \E b \in BOOLEAN : PermissionChanges(b)
    \/ \E l \in {"down", "up"} : ReplaceRoom(l)
    \/ \E t \in Task : DeviceLost(t) \/ Fails(t) \/ (\E b \in BOOLEAN : OperationFails(t, b))

Capture(t) ==
    \/ Granted(t) \/ Imported(t) \/ Published(t) \/ Refreshed(t)
    \/ Finished(t) \/ Failed(t)

Gate(t) == UnmuteReturns(t) \/ MuteReturns(t)

Next ==
    \/ (Talking \/ \E t \in Task : Capture(t) \/ Gate(t)) /\ UNCHANGED upsets
    \/ upsets < MaxUpsets /\ Upset /\ upsets' = upsets + 1

Spec == Init /\ [][Next]_vars

\* The SDK answers, and what follows an answer runs.  Nobody has to answer the prompt
\* for the microphone, but a stream that was granted is dealt with.
Fairness ==
    /\ WF_vars(NewRoom /\ UNCHANGED upsets)
    /\ \A t \in Task :
        /\ WF_vars((UnmuteReturns(t) \/ MuteReturns(t)) /\ UNCHANGED upsets)
        /\ WF_vars((Imported(t) \/ Published(t) \/ Refreshed(t) \/ Finished(t) \/ Failed(t))
                     /\ UNCHANGED upsets)

FairSpec == Spec /\ Fairness

-----------------------------------------------------------------------------
(* Properties *)

\* The device is captured and its track enabled.
OnAir(t) == track[t].live /\ track[t].open

\* Its device ended before anybody listened for it, the SDK captured it again, and then
\* the next capture took its place on the page.
Stray(t) == t # page.mic /\ track[t].again

MayBeHeard ==
    /\ page.phase = "in" /\ page.link = "up" /\ page.canSpeak /\ ~page.muted
    /\ page.mode = "auto" \/ held \/ page.tail

\* Nobody is heard who does not hold the button, or speak automatically, with the
\* permission and a connection: except after an error path that cancelled the press
\* and left the wish of the gate standing.
HeardOnlyWhenMeant ==
    \A t \in Task : OnAir(t) => track[t].slip \/ Stray(t) \/ (t = page.mic /\ MayBeHeard)

\* A press that was cancelled or released is never on air (press-to-talk.ts:1,
\* microphone-gate.ts:8).
ReleasedPressIsSilent == \A t \in Task : OnAir(t) => MayBeHeard

\* Whatever a capture was waiting for when it was superseded, its device is released:
\* a device is captured only by the page's track or by a capture that still runs.
CapturedDeviceIsOwned ==
    \A t \in Task : track[t].live =>
        t = page.mic \/ task[t].pc \notin {"unused", "done"} \/ track[t].again

\* The gate implements the switch.
Switch == INSTANCE TalkSwitch WITH
    wish <- \E t \in Task : track[t].wanted,
    air  <- \E t \in Task : OnAir(t)

ImplementsSwitch == Switch!Spec

\* A wish that stays is granted, or an error is shown.
WishIsGranted ==
    <>[]Wanted(page) => <>[](\E t \in Task : t = page.mic /\ (OnAir(t) \/ track[t].slip \/ track[t].again))

\* After the room was left, every device is released, and stays so.
DeviceIsReleased ==
    [](page.phase = "out" => <>[](\A t \in Task : track[t].live => track[t].again))
=============================================================================
