---------------------------- MODULE CallSession ----------------------------
(***************************************************************************)
(* The web client's stays in rooms: its management channel, its media      *)
(* room, and their recovery when one of them breaks.                       *)
(*                                                                         *)
(* Source: frontend/src/client/app.ts.  An action is a handler, or the     *)
(* part of an async function between two awaits; a job is an async         *)
(* function that awaits something.  The timers and the jobs of a stay keep *)
(* a reference to it, but most of what they call reads state.active again: *)
(* so several stays live here at a time, the one in state.active and those *)
(* whose jobs have not ended.  An operator from a page to a page is what a *)
(* function of the source does up to its first await.                      *)
(*                                                                         *)
(* A session token is rotated by every resume, so the model only keeps who *)
(* holds the newest one.  The limit of 30 minutes on the attempts is not   *)
(* modelled: the attempts go on.                                           *)
(***************************************************************************)
EXTENDS Integers

CONSTANTS
    MaxStays,     \* bound: stays, one after the other in state.active
    MaxChannels,  \* bound: management channels at a time
    MaxRooms,     \* bound: media rooms at a time
    MaxJobs,      \* bound: async functions at a time
    MaxFaults     \* bound: failures, and changes of mind

ASSUME CallSessionAssumption ==
    /\ \A n \in {MaxStays, MaxChannels, MaxRooms, MaxJobs} : n \in Nat \ {0}
    /\ MaxFaults \in Nat

VARIABLES
    page,    \* the state of the page: state.active, the stays, and what they use
    server,  \* what the server says of the member of each stay
    faults   \* how much has gone wrong so far

vars == <<page, server, faults>>

-----------------------------------------------------------------------------

None == 0
Stay == 1..MaxStays
Channel == 1..MaxChannels
MediaRoom == 1..MaxRooms
Job == 1..MaxJobs

\* current: the resume token is the server's; events, media, full: the timers
\* eventsReconnectTimer, mediaReconnectTimer, fullReconnectTimer.
StayRecord == [entered: BOOLEAN, leaving: BOOLEAN, ended: BOOLEAN, current: BOOLEAN,
               socket: Channel \cup {None}, room: MediaRoom \cup {None},
               events: BOOLEAN, media: BOOLEAN, full: BOOLEAN]

\* listened: its "close" is listened to, as that of every channel once it was attached.
ChannelRecord == [state: {"free", "connecting", "open"}, stay: Stay, listened: BOOLEAN]

\* grant: the stay whose grant the room is connected with.
RoomRecord == [state: {"free", "new", "aborted", "up", "kicked", "down"}, stay: Stay, grant: Stay]

\* connect: connectEvents; import, drop, join: the awaits of connectMedia; resume, resumed:
\* the request of a full reconnect, and its answer; grant: the request of a media
\* reconnect; cleanup: cleanupRoom.  stay: the `active` it captured; origin: the stay
\* that called it; by: who awaits it.
JobRecord == [kind: {"free", "connect", "resume", "resumed", "grant", "import", "drop", "join", "cleanup"},
              stay: Stay, origin: Stay, by: {"enter", "timer", "full"}, current: BOOLEAN,
              channel: Channel \cup {None}, room: MediaRoom \cup {None}]

\* The shape of the page and of the server.
TypeOK ==
    /\ page \in [active: Stay \cup {None}, stay: [Stay -> StayRecord],
                 channel: [Channel -> ChannelRecord], room: [MediaRoom -> RoomRecord],
                 job: [Job -> JobRecord]]
    /\ server \in [Stay -> [member: {"in", "left", "ended"}, lost: BOOLEAN]]
    /\ faults \in 0..MaxFaults

-----------------------------------------------------------------------------

Active(w) == w.stay[w.active]

\* The guard of most functions: there is an active stay, and it is not being left.
Live(w) == w.active # None /\ ~Active(w).leaving

FreeJobs(w) == {j \in Job : w.job[j].kind = "free"}
FreeChannels(w) == {c \in Channel : w.channel[c].state = "free"}
FreeRooms(w) == {r \in MediaRoom : w.room[r].state = "free"}
First(S) == CHOOSE x \in S : \A y \in S : x <= y

\* Within the bounds there is something left for whatever a handler starts.
HasSpace(w) == FreeJobs(w) # {} /\ FreeChannels(w) # {} /\ FreeRooms(w) # {}

Idle == [kind |-> "free", stay |-> 1, origin |-> 1, by |-> "timer", current |-> FALSE,
         channel |-> None, room |-> None]
Unused == [state |-> "free", stay |-> 1, listened |-> FALSE]
NoRoom == [state |-> "free", stay |-> 1, grant |-> 1]

Done(w, j) == [w EXCEPT !.job[j] = Idle]
Begin(w, fields) == [w EXCEPT !.job[First(FreeJobs(w))] = fields]

\* The socket of a stay is marked as intentional, and closed.
SocketClosed(w, s) ==
    IF w.stay[s].socket = None THEN w
    ELSE [w EXCEPT !.channel[w.stay[s].socket] = Unused, !.stay[s].socket = None]

\* The room of a stay is disconnected on purpose.
RoomClosed(w, s) ==
    IF w.stay[s].room = None THEN w
    ELSE [w EXCEPT !.room[w.stay[s].room] = IF @.state = "new" THEN [@ EXCEPT !.state = "aborted"] ELSE NoRoom,
                   !.stay[s].room = None]

-----------------------------------------------------------------------------
(* Scheduling a recovery.  Both act on state.active, whoever calls them. *)

\* scheduleFullReconnect: the partial recoveries are cancelled.
ScheduleFull(w) ==
    IF ~Live(w) \/ Active(w).full THEN w
    ELSE [w EXCEPT !.stay[w.active] = [@ EXCEPT !.full = TRUE, !.events = FALSE, !.media = FALSE]]

\* scheduleMediaReconnect
ScheduleMedia(w) == IF Live(w) THEN [w EXCEPT !.stay[w.active].media = TRUE] ELSE w

-----------------------------------------------------------------------------
(* connectMedia and connectEvents, up to their first await, and what awaits them *)

\* connectMedia(grant of o), on state.active.
ConnectMedia(w, o) ==
    IF ~Live(w) THEN w
    ELSE Begin(w, [Idle EXCEPT !.kind = "import", !.stay = w.active, !.origin = o])

IsUp(w, s) == w.stay[s].room # None /\ w.room[w.stay[s].room].state \in {"up", "kicked"}

\* Mutant of AfterEvents: a resume restores the management channel only.
AfterEvents_Half(w, by, o) == IF by = "enter" THEN ConnectMedia(w, o) ELSE w

\* What follows `await connectEvents()` in enterRoom, in the timer of the channel, and
\* in the full recovery of the stay o, which looks at the media room of that stay.
AfterEvents(w, by, o) ==
    IF by = "timer" \/ (by = "full" /\ IsUp(w, o)) THEN w ELSE ConnectMedia(w, o)

\* Mutant of EventsFailed: only a full recovery is repeated.
EventsFailed_Once(w, by, o) ==
    CASE by = "enter" -> ConnectMedia(w, o)
      [] by = "timer" -> w
      [] by = "full"  -> ScheduleFull(w)

\* What follows its failure.
EventsFailed(w, by, o) ==
    IF by = "enter" THEN ConnectMedia(ScheduleFull(w), o) ELSE ScheduleFull(w)

ConnectEvents(w, by, o) ==
    IF ~Live(w) THEN AfterEvents(w, by, o)
    ELSE LET v == SocketClosed(w, w.active)
             c == First(FreeChannels(v))
         IN  Begin([v EXCEPT !.channel[c] = [state |-> "connecting", stay |-> w.active, listened |-> FALSE]],
                   [kind |-> "connect", stay |-> w.active, origin |-> o, by |-> by,
                    current |-> Active(w).current, channel |-> c, room |-> None])

-----------------------------------------------------------------------------
(* Entering, leaving, and the end of a room *)

\* createRoom or completeAdmission has its grant: nobody asks whether the user is in
\* another room by now.
EnterRoom(s) ==
    /\ ~page.stay[s].entered /\ \A t \in Stay : t < s => page.stay[t].entered
    /\ HasSpace(page)
    /\ page' = ConnectEvents([page EXCEPT !.active = s, !.stay[s].entered = TRUE,
                                          !.stay[s].current = TRUE], "enter", s)
    /\ UNCHANGED server

\* Mutant of Quiet: the timer of a full recovery is forgotten.
Quiet_Half(st) == [st EXCEPT !.leaving = TRUE, !.events = FALSE, !.media = FALSE]

Quiet(st) == [st EXCEPT !.leaving = TRUE, !.events = FALSE, !.media = FALSE, !.full = FALSE]

\* cleanupRoom, up to the disconnection of the media room.
CleanupRoom(w) ==
    LET a == w.active
    IN  Begin(RoomClosed(SocketClosed([w EXCEPT !.stay[a] = Quiet(@)], a), a),
              [Idle EXCEPT !.kind = "cleanup", !.stay = a])

\* leaveRoom: the server may not have heard of it.
LeaveRoom(heard) ==
    /\ page.active # None /\ HasSpace(page)
    /\ Active(page).leaving => Active(page).ended
    /\ page' = CleanupRoom(page)
    /\ server' = [server EXCEPT ![page.active].member = IF heard /\ @ = "in" THEN "left" ELSE @]

\* The rest of cleanupRoom.
CleanupEnds(j) ==
    /\ page.job[j].kind = "cleanup"
    /\ page' = [Done(page, j) EXCEPT !.active = None]
    /\ UNCHANGED server

\* handleRoomEnded, in a room without and with messages.
HandleRoomEnded(w, empty) ==
    LET a == w.active
    IN  IF a = None \/ Active(w).ended THEN w
        ELSE IF empty THEN CleanupRoom(w)
        ELSE RoomClosed(SocketClosed([w EXCEPT !.stay[a] = [Quiet(@) EXCEPT !.ended = TRUE]], a), a)

\* The host or an administrator ends the room, or another tab takes the seat.
RoomEnds(s) ==
    /\ page.stay[s].entered /\ server[s].member = "in"
    /\ server' = [server EXCEPT ![s].member = "ended"]
    /\ UNCHANGED page

\* The open channels hear of it, whichever stay is active by now.
EndIsHeard(c, empty) ==
    /\ page.channel[c].state = "open" /\ server[page.channel[c].stay].member = "ended"
    /\ FreeJobs(page) # {}
    /\ LET w == HandleRoomEnded(page, empty)
           s == page.channel[c].stay
       IN  page' = [w EXCEPT !.channel[c] = Unused,
                             !.stay[s].socket = IF @ = c THEN None ELSE @]
    /\ UNCHANGED server

-----------------------------------------------------------------------------
(* The management channel *)

\* The server accepts the newest token of a member.
Accepts(s, current) == server[s].member = "in" /\ current

\* The channel opens: it becomes the socket of its stay, and the one before it, of
\* another call of connectEvents, is left as it is.
ChannelOpens(j) ==
    /\ page.job[j].kind = "connect"
    /\ LET b == page.job[j]
           w == Done(page, j)
           v == IF Live(w) /\ w.active = b.stay
                THEN [w EXCEPT !.channel[b.channel] = [@ EXCEPT !.state = "open", !.listened = TRUE],
                               !.stay[b.stay].socket = b.channel]
                ELSE [w EXCEPT !.channel[b.channel] = Unused]
       IN  /\ Accepts(b.stay, b.current)
           /\ page' = AfterEvents(v, b.by, b.origin)
    /\ UNCHANGED server

\* It is refused, or fails.  After the time limit of the second transport it is not
\* closed.
ChannelFails(j, late) ==
    /\ page.job[j].kind = "connect"
    /\ LET b == page.job[j]
           w == Done(page, j)
           v == IF late THEN w ELSE [w EXCEPT !.channel[b.channel] = Unused]
       IN  page' = EventsFailed(v, b.by, b.origin)
    /\ UNCHANGED server

ChannelRefused(j) ==
    /\ ~Accepts(page.job[j].stay, page.job[j].current)
    /\ ChannelFails(j, FALSE)

\* A channel nobody waits for any more opens, or is refused.
LateChannel(c) ==
    /\ page.channel[c].state = "connecting"
    /\ \A j \in Job : page.job[j].channel # c
    /\ \/ page' = [page EXCEPT !.channel[c].state = "open"]
       \/ page' = [page EXCEPT !.channel[c] = Unused]
    /\ UNCHANGED server

\* The "close" of an open channel.
ChannelCloses(c) ==
    /\ page.channel[c].state = "open"
    /\ LET s == page.channel[c].stay
           w == [page EXCEPT !.channel[c] = Unused, !.stay[s].socket = IF @ = c THEN None ELSE @]
       IN  page' = IF page.channel[c].listened /\ Live(w) /\ w.active = s
                   THEN [w EXCEPT !.stay[s].events = TRUE] ELSE w
    /\ UNCHANGED server

\* The server closes the channels of a member that left.
ChannelOfLeaver(c) == server[page.channel[c].stay].member = "left" /\ ChannelCloses(c)

EventsTimer(s) ==
    /\ page.stay[s].events /\ HasSpace(page)
    /\ page' = ConnectEvents([page EXCEPT !.stay[s].events = FALSE], "timer", s)
    /\ UNCHANGED server

-----------------------------------------------------------------------------
(* The full recovery *)

FullTimer(s) ==
    /\ page.stay[s].full /\ HasSpace(page)
    /\ page' = Begin([page EXCEPT !.stay[s].full = FALSE],
                     [Idle EXCEPT !.kind = "resume", !.stay = s, !.origin = s,
                                  !.current = page.stay[s].current])
    /\ UNCHANGED server

\* The server rotates the token: whoever held it holds an old one.
Rotated(w, s, j) ==
    [w EXCEPT !.stay[s].current = FALSE,
              !.job = [k \in Job |-> IF w.job[k].stay = s THEN [w.job[k] EXCEPT !.current = (k = j)]
                                     ELSE w.job[k]]]

ServerResumes(j) ==
    /\ page.job[j].kind = "resume" /\ Accepts(page.job[j].stay, page.job[j].current)
    /\ page' = [Rotated(page, page.job[j].stay, j) EXCEPT !.job[j].kind = "resumed"]
    /\ UNCHANGED server

\* Mutant of ResumeAnswered: the new token is not kept.
ResumeAnswered_OldToken(j) ==
    /\ page.job[j].kind = "resumed" /\ HasSpace(page)
    /\ page' = ConnectEvents(Done(page, j), "full", page.job[j].stay)
    /\ UNCHANGED server

ResumeAnswered(j) ==
    /\ page.job[j].kind = "resumed" /\ HasSpace(page)
    /\ LET s == page.job[j].stay
       IN  page' = ConnectEvents([Done(page, j) EXCEPT !.stay[s].current = page.job[j].current], "full", s)
    /\ UNCHANGED server

ResumeRefused(j) ==
    /\ page.job[j].kind = "resume" /\ ~Accepts(page.job[j].stay, page.job[j].current)
    /\ page' = ScheduleFull(Done(page, j))
    /\ UNCHANGED server

\* The request or its answer is lost.
ResumeLost(j) ==
    /\ page.job[j].kind \in {"resume", "resumed"}
    /\ page' = ScheduleFull(Done(page, j))
    /\ server' = [server EXCEPT ![page.job[j].stay].lost = @ \/ page.job[j].kind = "resumed"]

-----------------------------------------------------------------------------
(* The media room *)

MediaTimer(s) ==
    /\ page.stay[s].media /\ HasSpace(page)
    /\ page' = Begin([page EXCEPT !.stay[s].media = FALSE],
                     [Idle EXCEPT !.kind = "grant", !.stay = s, !.origin = s,
                                  !.current = page.stay[s].current])
    /\ UNCHANGED server

\* A new grant; a refusal of the token, which a full recovery may cure.
GrantAnswered(j) ==
    /\ page.job[j].kind = "grant"
    /\ page' = IF Accepts(page.job[j].stay, page.job[j].current)
               THEN ConnectMedia(Done(page, j), page.job[j].stay)
               ELSE ScheduleFull(Done(page, j))
    /\ UNCHANGED server

JoinFailed(w, j) ==
    LET b == w.job[j]
    IN  ScheduleMedia([Done(w, j) EXCEPT
            !.room[b.room] = IF w.stay[b.stay].room = b.room THEN [@ EXCEPT !.state = "down"] ELSE NoRoom])

\* The request fails, or the connection to the media server.
MediaFails(j) ==
    /\ \/ page.job[j].kind = "grant" /\ page' = ScheduleMedia(Done(page, j))
       \/ page.job[j].kind = "join" /\ page' = JoinFailed(page, j)
    /\ UNCHANGED server

\* Another call of connectMedia disconnected the room that was being connected.
JoinAborted(j) ==
    /\ page.job[j].kind = "join" /\ page.room[page.job[j].room].state = "aborted"
    /\ page' = JoinFailed(page, j)
    /\ UNCHANGED server

\* The SDK is loaded: what the stay had is disconnected.
MediaImported(j) ==
    /\ page.job[j].kind = "import"
    /\ LET s == page.job[j].stay
       IN  page' = IF Live(page) /\ page.active = s
                   THEN [RoomClosed(page, s) EXCEPT !.job[j].kind = "drop"]
                   ELSE Done(page, j)
    /\ UNCHANGED server

\* A new room replaces whatever room the stay has by now, even after the stay was left.
RoomCreated(j) ==
    /\ page.job[j].kind = "drop" /\ FreeRooms(page) # {}
    /\ LET b == page.job[j]
           r == First(FreeRooms(page))
           o == page.stay[b.stay].room
           w == IF o # None /\ page.room[o].state = "down" THEN [page EXCEPT !.room[o] = NoRoom] ELSE page
       IN  page' = [w EXCEPT !.room[r] = [state |-> "new", stay |-> b.stay, grant |-> b.origin],
                             !.stay[b.stay].room = r, !.job[j].kind = "join", !.job[j].room = r]
    /\ UNCHANGED server

\* room.connect: the media server keeps one connection for each grant's member.  A room
\* that was replaced meanwhile is disconnected again, which its stay takes for a failure.
RoomConnected(j) ==
    /\ page.job[j].kind = "join" /\ page.room[page.job[j].room].state = "new"
    /\ LET b == page.job[j]
           w == Done(page, j)
           v == [w EXCEPT !.room = [r \in MediaRoom |->
                    IF w.room[r].state = "up" /\ w.room[r].grant = b.origin
                    THEN [w.room[r] EXCEPT !.state = "kicked"] ELSE w.room[r]]]
           mine == Live(w) /\ w.active = b.stay
       IN  page' = IF mine /\ w.stay[b.stay].room = b.room
                   THEN [v EXCEPT !.room[b.room].state = "up"]
                   ELSE LET u == [v EXCEPT !.room[b.room] = NoRoom,
                                           !.stay[b.stay].room = IF @ = b.room THEN None ELSE @]
                        IN  IF mine THEN ScheduleMedia(u) ELSE u
    /\ UNCHANGED server

\* RoomEvent.Disconnected: nobody asks whether the room is still that of the stay.
RoomDisconnected(r) ==
    /\ page.room[r].state \in {"up", "kicked"}
    /\ LET s == page.room[r].stay
           w == IF page.stay[s].room = r THEN [page EXCEPT !.room[r].state = "down"]
                ELSE [page EXCEPT !.room[r] = NoRoom]
       IN  page' = IF w.active = s THEN ScheduleMedia(w) ELSE w
    /\ UNCHANGED server

RoomKicked(r) == page.room[r].state = "kicked" /\ RoomDisconnected(r)

-----------------------------------------------------------------------------

Init ==
    /\ page = [active |-> None,
               stay |-> [s \in Stay |->
                   [entered |-> FALSE, leaving |-> FALSE, ended |-> FALSE, current |-> FALSE,
                    socket |-> None, room |-> None, events |-> FALSE, media |-> FALSE, full |-> FALSE]],
               channel |-> [c \in Channel |-> Unused],
               room |-> [r \in MediaRoom |-> NoRoom],
               job |-> [j \in Job |-> Idle]]
    /\ server = [s \in Stay |-> [member |-> "in", lost |-> FALSE]]
    /\ faults = 0

OfJob(j) ==
    \/ CleanupEnds(j) \/ ChannelOpens(j) \/ ChannelRefused(j)
    \/ ServerResumes(j) \/ ResumeAnswered(j) \/ ResumeRefused(j)
    \/ GrantAnswered(j) \/ MediaImported(j) \/ RoomCreated(j) \/ RoomConnected(j) \/ JoinAborted(j)

\* An async function of the stay is still waiting.
Busy(s) == \E j \in Job : page.job[j].kind # "free" /\ s \in {page.job[j].stay, page.job[j].origin}

OfStay(s) == EventsTimer(s) \/ FullTimer(s) \/ MediaTimer(s)

OfChannel(c) == LateChannel(c) \/ ChannelOfLeaver(c) \/ \E empty \in BOOLEAN : EndIsHeard(c, empty)

\* What happens by itself.
Step ==
    \/ \E j \in Job : OfJob(j)
    \/ \E s \in Stay : ~Busy(s) /\ OfStay(s)
    \/ \E c \in Channel : OfChannel(c)
    \/ \E r \in MediaRoom : RoomKicked(r)

\* What the user or the network brings about.  An answer that takes longer than the
\* delay of a timer is a fault as well: recoveries that overlap may go on refusing each other.
Fault ==
    \/ \E s \in Stay : EnterRoom(s) \/ RoomEnds(s) \/ (Busy(s) /\ OfStay(s))
    \/ \E heard \in BOOLEAN : LeaveRoom(heard)
    \/ \E j \in Job : ResumeLost(j) \/ MediaFails(j) \/ \E late \in BOOLEAN : ChannelFails(j, late)
    \/ \E c \in Channel : ChannelCloses(c)
    \/ \E r \in MediaRoom : RoomDisconnected(r)

Next ==
    \/ Step /\ UNCHANGED faults
    \/ faults < MaxFaults /\ Fault /\ faults' = faults + 1

Spec == Init /\ [][Next]_vars

\* Timers fire while nothing of their stay is waiting, requests are answered, and what is closed says so.
Fairness ==
    /\ \A j \in Job : WF_vars(OfJob(j) /\ UNCHANGED faults)
    /\ \A s \in Stay : WF_vars(~Busy(s) /\ OfStay(s) /\ UNCHANGED faults)
    /\ \A c \in Channel : WF_vars(OfChannel(c) /\ UNCHANGED faults)
    /\ \A r \in MediaRoom : WF_vars(RoomKicked(r) /\ UNCHANGED faults)

FairSpec == Spec /\ Fairness

-----------------------------------------------------------------------------
(* Properties *)

\* The management channel of the stay s is up, or something is under way to restore it.
ChannelCared(s) ==
    \/ page.stay[s].socket # None \/ page.stay[s].events \/ page.stay[s].full
    \/ \E j \in Job : page.job[j].stay = s /\ page.job[j].kind \in {"connect", "resume", "resumed"}

\* The same of its media room.
RoomCared(s) ==
    \/ IsUp(page, s)
    \/ page.stay[s].media \/ page.stay[s].full
    \/ \E j \in Job :
          /\ page.job[j].stay = s
          /\ \/ page.job[j].kind \in {"resume", "resumed", "grant", "import", "drop", "join"}
             \/ page.job[j].kind = "connect" /\ page.job[j].by # "timer"

\* However the recoveries overlap, replace and cancel each other, none of the two
\* connections of the active stay is forgotten.
NothingForgotten == Live(page) => ChannelCared(page.active) /\ RoomCared(page.active)

\* The client holds the newest token of a member that has not left, unless the answer
\* with it is on its way or was lost.
TokenIsCurrent ==
    \A s \in Stay :
        page.stay[s].entered => \/ page.stay[s].current \/ server[s].lost
                                \/ \E j \in Job : page.job[j].kind = "resumed" /\ page.job[j].stay = s

\* A stay that is being left starts no recovery, and is not attached to a channel.
LeavingIsQuiet ==
    \A s \in Stay : page.stay[s].leaving =>
        ~page.stay[s].events /\ ~page.stay[s].media /\ ~page.stay[s].full /\ page.stay[s].socket = None

\* Both connections of the active stay are up.
Connected ==
    /\ Active(page).socket # None
    /\ Active(page).room # None /\ page.room[Active(page).room].state = "up"

\* When nothing fails any more, the active stay is connected again and stays so, unless
\* its token was lost or the room has ended.
RecoveryConverges ==
    <>[](Live(page) => Connected \/ server[page.active].lost \/ server[page.active].member # "in")
=============================================================================
