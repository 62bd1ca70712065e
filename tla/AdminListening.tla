--------------------------- MODULE AdminListening ---------------------------
(***************************************************************************)
(* The administrator's page: listening to a room under a lease that the    *)
(* members of the room are shown, next to signing in and out and to the    *)
(* overview.                                                               *)
(*                                                                         *)
(* Source: frontend/src/admin/app.ts, and the leases of                    *)
(* internal/server/admin.go.  An action is a handler, or the part of an    *)
(* async function between two awaits.  One room can be listened to; the    *)
(* buttons that rename or end a room or mute a member only await a request *)
(* and load the overview, as Refresh does.                                 *)
(***************************************************************************)
EXTENDS Integers

CONSTANTS
    MaxListeners,  \* bound: leases granted
    MaxStops,      \* bound: calls of stopListening at a time
    MaxSignIns     \* bound: times the administrator signs in

ASSUME AdminListeningAssumption ==
    {MaxListeners, MaxStops, MaxSignIns} \subseteq Nat \ {0}

VARIABLES
    page,     \* the variables of the page, and what it shows
    start,    \* the call of startListening: startingListener admits one
    stops,    \* the calls of stopListening
    beats,    \* the renewals of a lease that are under way
    lease,    \* the server's leases, s.monitors
    media,    \* the connections to the media server
    signIns   \* how often the administrator has signed in

vars == <<page, start, stops, beats, lease, media, signIns>>

-----------------------------------------------------------------------------

None == 0
Listener == 1..MaxListeners
Stop == 1..MaxStops

\* active: activeListener; beating: its heartbeat is set; overview: who waits for the
\* overview that is being loaded.
PageRecord == [token: BOOLEAN, dashboard: BOOLEAN, active: Listener \cup {None},
               beating: BOOLEAN, overview: {"none", "page", "start", "stop"}]

\* token: what the request that it awaits was sent with.
StartRecord == [at: {"idle", "import", "stop", "ask", "answer", "prepare", "connect", "drop", "overview", "fail"},
                listener: Listener \cup {None}, token: BOOLEAN]

\* by: who awaits it.
StopRecord == [at: {"free", "disconnect", "delete", "overview"}, listener: Listener \cup {None},
               notify: BOOLEAN, by: {"nobody", "start", "logout"}, token: BOOLEAN]

\* token: what it was sent with.
Beats == [listener: Listener, token: BOOLEAN]

\* The shape of the state.
TypeOK ==
    /\ page \in PageRecord
    /\ start \in StartRecord
    /\ stops \in [Stop -> StopRecord]
    /\ beats \subseteq Beats
    /\ lease \in [Listener -> {"none", "live", "over"}]
    /\ media \in [Listener -> {"none", "new", "connecting", "connected", "closed"}]
    /\ signIns \in 0..MaxSignIns

Idle == [at |-> "idle", listener |-> None, token |-> FALSE]
Free == [at |-> "free", listener |-> None, notify |-> FALSE, by |-> "nobody", token |-> FALSE]

FreeStops == {k \in Stop : stops[k].at = "free"}

-----------------------------------------------------------------------------
(* stopListening *)

\* Up to its first await; there is nothing more to do without a listener.
StopBegins(p, notify, by) ==
    /\ page' = [p EXCEPT !.active = None, !.beating = FALSE]
    /\ IF p.active = None THEN UNCHANGED stops
       ELSE \E k \in FreeStops :
               /\ \A j \in FreeStops : k <= j
               /\ stops' = [stops EXCEPT ![k] = [Free EXCEPT !.at = "disconnect", !.listener = p.active,
                                                             !.notify = notify, !.by = by]]

\* The call has ended, and whoever awaits it goes on: startListening asks for the next
\* lease, or ends; the logout forgets the token.
StopEnds(p, k) ==
    LET by == stops[k].by
    IN  /\ stops' = [stops EXCEPT ![k] = Free]
        /\ page' = IF by = "logout" THEN [p EXCEPT !.token = FALSE, !.dashboard = FALSE] ELSE p
        /\ start' = IF by # "start" THEN start
                    ELSE IF start.at = "stop" THEN [start EXCEPT !.at = "ask", !.token = p.token]
                    ELSE Idle

\* It loads the overview at the end, unless that is being loaded already.
StopLoads(k) ==
    IF page.token /\ page.overview = "none"
    THEN /\ page' = [page EXCEPT !.overview = "stop"]
         /\ stops' = [stops EXCEPT ![k].at = "overview"]
         /\ UNCHANGED start
    ELSE StopEnds(page, k)

\* room.disconnect() has returned.
StopDisconnected(k) ==
    /\ stops[k].at = "disconnect"
    /\ media' = [media EXCEPT ![stops[k].listener] = "closed"]
    /\ IF stops[k].notify
       THEN /\ stops' = [stops EXCEPT ![k].at = "delete", ![k].token = page.token]
            /\ UNCHANGED <<page, start>>
       ELSE StopLoads(k)
    /\ UNCHANGED <<beats, lease, signIns>>

\* The DELETE is answered, or lost before the server saw it.
StopDeleted(k, heard) ==
    /\ stops[k].at = "delete"
    /\ lease' = IF heard /\ stops[k].token
                THEN [lease EXCEPT ![stops[k].listener] = "over"] ELSE lease
    /\ StopLoads(k)
    /\ UNCHANGED <<beats, media, signIns>>

\* The button.
StopListening ==
    /\ page.active # None
    /\ StopBegins(page, TRUE, "nobody")
    /\ UNCHANGED <<start, beats, lease, media, signIns>>

-----------------------------------------------------------------------------
(* startListening *)

\* The button of a room, which says "stop" if the room was listened to when it was drawn.
StartListening ==
    /\ page.dashboard /\ start.at = "idle"
    /\ \E l \in Listener : lease[l] = "none"
    /\ start' = [Idle EXCEPT !.at = "import"]
    /\ UNCHANGED <<page, stops, beats, lease, media, signIns>>

\* Mutant of Imported: the listener there is goes on next to the new one.
Imported_Second ==
    /\ start.at = "import"
    /\ start' = [start EXCEPT !.at = "ask", !.token = page.token]
    /\ UNCHANGED <<page, stops, beats, lease, media, signIns>>

\* The SDK is loaded: the listener there is, if any, is stopped first.
Imported ==
    /\ start.at = "import"
    /\ start' = IF page.active # None THEN [start EXCEPT !.at = "stop"]
                ELSE [start EXCEPT !.at = "ask", !.token = page.token]
    /\ IF page.active # None THEN StopBegins(page, TRUE, "start") ELSE UNCHANGED <<page, stops>>
    /\ UNCHANGED <<beats, lease, media, signIns>>

\* adminStartListening grants the next lease.
Granted ==
    /\ start.at = "ask" /\ start.token
    /\ \E l \in Listener :
          /\ lease[l] = "none" /\ \A m \in Listener : lease[m] = "none" => l <= m
          /\ lease' = [lease EXCEPT ![l] = "live"]
          /\ start' = [start EXCEPT !.at = "answer", !.listener = l]
    /\ UNCHANGED <<page, stops, beats, media, signIns>>

\* The SDK cannot be loaded, or the lease is refused, or one of its messages is lost.
StartFails ==
    /\ start.at \in {"import", "ask", "answer"}
    /\ start' = Idle
    /\ UNCHANGED <<page, stops, beats, lease, media, signIns>>

\* The grant has arrived; nobody asks whether the administrator is still signed in.
Answered ==
    /\ start.at = "answer"
    /\ page' = [page EXCEPT !.active = start.listener]
    /\ media' = [media EXCEPT ![start.listener] = "new"]
    /\ start' = [start EXCEPT !.at = "prepare"]
    /\ UNCHANGED <<stops, beats, lease, signIns>>

IsStillMine == page.active = start.listener

\* The encryption is set up.
Prepared ==
    /\ start.at = "prepare"
    /\ IF IsStillMine
       THEN /\ start' = [start EXCEPT !.at = "connect"]
            /\ media' = [media EXCEPT ![start.listener] = "connecting"]
       ELSE start' = Idle /\ UNCHANGED media
    /\ UNCHANGED <<page, stops, beats, lease, signIns>>

\* What follows the connection: the heartbeat, and the overview.
Listens ==
    LET loads == page.token /\ page.overview = "none"
    IN  /\ page' = [page EXCEPT !.beating = TRUE, !.overview = IF loads THEN "start" ELSE @]
        /\ start' = IF loads THEN [start EXCEPT !.at = "overview"] ELSE Idle

\* Mutant of Connected: the lease is never renewed.
Connected_Unrenewed ==
    /\ start.at = "connect" /\ media[start.listener] = "connecting"
    /\ media' = [media EXCEPT ![start.listener] = "connected"]
    /\ start' = IF IsStillMine THEN Idle ELSE [start EXCEPT !.at = "drop"]
    /\ UNCHANGED <<page, stops, beats, lease, signIns>>

\* room.connect() has returned.
Connected ==
    /\ start.at = "connect" /\ media[start.listener] = "connecting"
    /\ media' = [media EXCEPT ![start.listener] = "connected"]
    /\ IF IsStillMine THEN Listens
       ELSE start' = [start EXCEPT !.at = "drop"] /\ UNCHANGED page
    /\ UNCHANGED <<stops, beats, lease, signIns>>

\* The connection was not wanted any more, and is gone.
Dropped ==
    /\ start.at = "drop"
    /\ media' = [media EXCEPT ![start.listener] = "closed"]
    /\ start' = Idle
    /\ UNCHANGED <<page, stops, beats, lease, signIns>>

\* The error handler: whatever listener there is by now is stopped.
Caught(p) ==
    /\ StopBegins(p, TRUE, "start")
    /\ start' = IF p.active = None THEN Idle ELSE [start EXCEPT !.at = "fail"]

\* The encryption or the connection fails, as a connection does that is closed meanwhile.
MediaFails ==
    /\ start.at \in {"prepare", "connect"}
    /\ media' = [media EXCEPT ![start.listener] = "closed"]
    /\ Caught(page)
    /\ UNCHANGED <<beats, lease, signIns>>

MediaAborted == start.at = "connect" /\ media[start.listener] = "closed" /\ MediaFails

-----------------------------------------------------------------------------
(* The heartbeat, and the media room *)

\* Every 10 seconds.
Beat ==
    /\ page.beating /\ page.active # None
    /\ LET b == [listener |-> page.active, token |-> page.token]
       IN  b \notin beats /\ beats' = beats \cup {b}
    /\ UNCHANGED <<page, start, stops, lease, media, signIns>>

IsRefused(b) == ~b.token \/ lease[b.listener] # "live"

Renewed(b) ==
    /\ b \in beats /\ ~IsRefused(b)
    /\ beats' = beats \ {b}
    /\ UNCHANGED <<page, start, stops, lease, media, signIns>>

\* Mutant of BeatFails: the listener only ends with its lease (404), not with the token (401).
BeatFails_Unauthorized(b) ==
    /\ b \in beats
    /\ beats' = beats \ {b}
    /\ IF b.token THEN StopBegins(page, FALSE, "nobody") ELSE UNCHANGED <<page, stops>>
    /\ UNCHANGED <<start, lease, media, signIns>>

\* The renewal is refused, or fails: whatever listener there is by now is stopped, and the
\* server is not told.
BeatFails(b) ==
    /\ b \in beats
    /\ beats' = beats \ {b}
    /\ StopBegins(page, FALSE, "nobody")
    /\ UNCHANGED <<start, lease, media, signIns>>

\* The media server ends the connection: RoomEvent.Disconnected.
MediaEnds(l) ==
    /\ media[l] = "connected"
    /\ media' = [media EXCEPT ![l] = "closed"]
    /\ IF page.active = l THEN StopBegins(page, TRUE, "nobody")
       ELSE UNCHANGED <<page, stops>>
    /\ UNCHANGED <<start, beats, lease, signIns>>

\* A lease ends with its time, with its room, or with a restart of the server.
LeaseEnds(l) ==
    /\ lease[l] = "live"
    /\ lease' = [lease EXCEPT ![l] = "over"]
    /\ UNCHANGED <<page, start, stops, beats, media, signIns>>

-----------------------------------------------------------------------------
(* Signing in and out, and the overview *)

SignIn ==
    /\ ~page.dashboard /\ signIns < MaxSignIns
    /\ page' = [page EXCEPT !.token = TRUE,
                            !.overview = IF @ = "none" THEN "page" ELSE @]
    /\ signIns' = signIns + 1
    /\ UNCHANGED <<start, stops, beats, lease, media>>

\* The timer, the page that is visible again, a button: loadOverview.
Refresh ==
    /\ page.token /\ page.overview = "none"
    /\ page' = [page EXCEPT !.overview = "page"]
    /\ UNCHANGED <<start, stops, beats, lease, media, signIns>>

\* The overview has arrived, or was refused, or failed; a refusal shows the login.
OverviewLoaded(outcome) ==
    LET p == [page EXCEPT !.overview = "none",
                          !.dashboard = CASE outcome = "ok" -> TRUE
                                          [] outcome = "refused" -> FALSE
                                          [] outcome = "failed" -> @]
    IN  /\ page.overview # "none"
        /\ CASE page.overview = "page" -> page' = p /\ UNCHANGED <<start, stops>>
             [] page.overview = "stop" -> \E k \in Stop : stops[k].at = "overview" /\ StopEnds(p, k)
             [] page.overview = "start" /\ outcome = "ok" ->
                   page' = p /\ start' = Idle /\ UNCHANGED stops
             [] page.overview = "start" /\ outcome # "ok" -> Caught(p)
        /\ UNCHANGED <<beats, lease, media, signIns>>

\* logout: at once, or when the listener is stopped.
SignOut ==
    /\ page.dashboard
    /\ IF page.active = None
       THEN page' = [page EXCEPT !.token = FALSE, !.dashboard = FALSE] /\ UNCHANGED stops
       ELSE StopBegins(page, TRUE, "logout")
    /\ UNCHANGED <<start, beats, lease, media, signIns>>

\* The page is closed and opened again; the server may not get the DELETE of the handler
\* of beforeunload.
Reload(heard) ==
    /\ lease' = IF heard /\ page.token /\ page.active # None
                THEN [lease EXCEPT ![page.active] = "over"] ELSE lease
    /\ page' = [token |-> page.token, dashboard |-> FALSE, active |-> None, beating |-> FALSE,
                overview |-> IF page.token THEN "page" ELSE "none"]
    /\ start' = Idle
    /\ stops' = [k \in Stop |-> Free]
    /\ beats' = {}
    /\ media' = [l \in Listener |-> IF media[l] = "none" THEN "none" ELSE "closed"]
    /\ UNCHANGED signIns

-----------------------------------------------------------------------------

Init ==
    /\ page = [token |-> FALSE, dashboard |-> FALSE, active |-> None, beating |-> FALSE,
               overview |-> "none"]
    /\ start = Idle
    /\ stops = [k \in Stop |-> Free]
    /\ beats = {}
    /\ lease = [l \in Listener |-> "none"]
    /\ media = [l \in Listener |-> "none"]
    /\ signIns = 0

StopReturns(k) == StopDisconnected(k) \/ \E heard \in BOOLEAN : StopDeleted(k, heard)

StartReturns == Imported \/ StartFails \/ Answered \/ Prepared \/ Connected \/ Dropped \/ MediaAborted

OverviewReturns == \E outcome \in {"ok", "refused", "failed"} : OverviewLoaded(outcome)

BeatReturns(b) == Renewed(b) \/ (IsRefused(b) /\ BeatFails(b))

Next ==
    \/ SignIn \/ SignOut \/ Refresh \/ OverviewReturns
    \/ StartListening \/ StopListening
    \/ Imported \/ Granted \/ StartFails \/ Answered \/ Prepared \/ Connected \/ Dropped \/ MediaFails
    \/ \E k \in Stop : StopReturns(k)
    \/ Beat
    \/ \E b \in beats : Renewed(b) \/ BeatFails(b)
    \/ \E l \in Listener : MediaEnds(l) \/ LeaseEnds(l)
    \/ \E heard \in BOOLEAN : Reload(heard)

Spec == Init /\ [][Next]_vars

\* Whatever is awaited returns or fails, and the heartbeat goes on.
Fairness ==
    /\ \A k \in Stop : WF_vars(StopReturns(k))
    /\ WF_vars(StartReturns) /\ WF_vars(OverviewReturns) /\ WF_vars(Beat)
    /\ \A b \in Beats : WF_vars(BeatReturns(b))

FairSpec == Spec /\ Fairness

-----------------------------------------------------------------------------
(* Properties *)

\* Every connection to the media server is the listener's, with a heartbeat, or about to
\* be disconnected by whoever took it away: none plays on unattended.
NothingPlaysUnattended ==
    \A l \in Listener :
        media[l] = "connected" =>
            \/ page.active = l /\ page.beating
            \/ start.at = "drop" /\ start.listener = l
            \/ \E k \in Stop : stops[k].at = "disconnect" /\ stops[k].listener = l

IsHeard(l) == media[l] = "connected"

\* Listening does not go on for long behind the back of the members: they are shown a
\* listener as long as it has its lease, and one that lost it is disconnected.
UnseenListeningEnds == \A l \in Listener : IsHeard(l) /\ lease[l] = "over" ~> ~IsHeard(l)

\* A logout ends the listening, that of a lease which was asked for before included.
LogoutSilences ==
    ~page.token /\ (\E l \in Listener : IsHeard(l)) ~> page.token \/ ~\E l \in Listener : IsHeard(l)
=============================================================================
