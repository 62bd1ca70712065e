-------------------------- MODULE MicrophoneProofs --------------------------
(***************************************************************************)
(* Theorems about Microphone, for every value of its constants.            *)
(*                                                                         *)
(* The lemmas go from one gate to all of them, then to what the operators  *)
(* of the source make of a page p, of its captures and of their tracks.    *)
(***************************************************************************)
EXTENDS Microphone, TLAPS

-----------------------------------------------------------------------------
(* One gate *)

\* A gate is open only for a wish, and a disposed gate has let go of everything.
Sound(g) ==
    /\ g.open => g.wanted
    /\ g.disposed => ~g.live /\ ~g.open /\ ~g.wanted

\* Nothing of the device is left, or the SDK captured it again on its own.
Dark(g) == g.live => g.again

\* What a step makes of a gate, except where a device is granted: what is disposed or
\* dark stays so, and it opens only for a wish that stands already.
Moves(g, h) ==
    /\ h \in TrackRecord /\ Sound(h)
    /\ g.disposed => h.disposed
    /\ Dark(g) => Dark(h)
    /\ h.open => g.wanted

\* Only the queue changes, and the track closes at most.
Alike(g, h) ==
    /\ h \in TrackRecord
    /\ h.live = g.live /\ h.again = g.again /\ h.wanted = g.wanted
    /\ h.disposed = g.disposed /\ h.slip = g.slip
    /\ h.open => g.open

\* The bounds are numbers.
LEMMA Bounds ==
    /\ MaxTasks \in Nat /\ MaxRooms \in Nat /\ MaxUpsets \in Nat /\ QueueBound \in Nat
    /\ MaxTasks > 0 /\ MaxRooms > 0 /\ QueueBound > 1
    /\ None \notin Task /\ Task \subseteq Nat
  BY MicrophoneAssumption DEF Task, None

\* What keeps the gate but for its queue is a move.
LEMMA AlikeMoves ==
    ASSUME NEW g \in TrackRecord, NEW h, Sound(g), Alike(g, h)
    PROVE  Moves(g, h)
  BY DEF Alike, Moves, Sound, Dark

\* A gate that stays as it is moves.
LEMMA StayMoves ==
    ASSUME NEW g \in TrackRecord, Sound(g)
    PROVE  Moves(g, g)
  BY DEF Moves, Sound, Dark

\* The next operation starts: only the queue changes.
LEMMA StartAlike ==
    ASSUME NEW g \in TrackRecord
    PROVE  Alike(g, Start(g))
  <1>1. 0 \in 0..QueueBound /\ 0 \in 0..(QueueBound + 1)
    BY Bounds
  <1>2. CASE g.disposed
    BY <1>1, <1>2 DEF Start, Alike, TrackRecord
  <1>3. CASE ~g.disposed /\ g.wanted
    <2>1. Start(g) = [g EXCEPT !.op = IF g.live THEN "unmuting" ELSE "reopening"]
      BY <1>3 DEF Start
    <2> QED BY <2>1 DEF Alike, TrackRecord
  <1>4. CASE ~g.disposed /\ ~g.wanted
    BY <1>4 DEF Start, Alike, TrackRecord
  <1> QED BY <1>2, <1>3, <1>4 DEF TrackRecord

\* An operation is queued: only the queue changes.
LEMMA QueuedAlike ==
    ASSUME NEW g \in TrackRecord
    PROVE  Alike(g, Queued(g))
  <1>1. CASE g.op = "idle"
    BY <1>1, StartAlike DEF Queued
  <1>2. CASE g.op # "idle"
    <2> DEFINE n == IF g.pending < QueueBound THEN g.pending + 1 ELSE g.pending
    <2>1. n \in 0..QueueBound
      BY Bounds DEF TrackRecord
    <2>2. Queued(g) = [g EXCEPT !.pending = n]
      BY <1>2 DEF Queued
    <2> HIDE DEF n
    <2> QED BY <2>1, <2>2 DEF Alike, TrackRecord
  <1> QED BY <1>1, <1>2

\* An operation ends and the next one starts: only the queue changes.
LEMMA TurnedAlike ==
    ASSUME NEW g \in TrackRecord
    PROVE  Alike(g, Turned(g))
  <1> DEFINE n == IF g.before > 0 THEN g.before - 1 ELSE 0
             h == [g EXCEPT !.before = n]
             k == [h EXCEPT !.pending = h.pending - 1]
  <1>1. n \in 0..(QueueBound + 1)
    BY Bounds DEF TrackRecord
  <1> HIDE DEF n
  <1>2. h \in TrackRecord /\ Alike(g, h) /\ h.pending = g.pending
    BY <1>1 DEF Alike, TrackRecord
  <1>3. Turned(g) = IF h.pending = 0 THEN [h EXCEPT !.op = "idle"] ELSE Start(k)
    BY DEF Turned, n
  <1> HIDE DEF h
  <1>4. CASE h.pending = 0
    <2>1. Turned(g) = [h EXCEPT !.op = "idle"]
      BY <1>3, <1>4
    <2>2. Alike(h, [h EXCEPT !.op = "idle"])
      BY <1>2 DEF Alike, TrackRecord
    <2> QED BY <1>2, <2>1, <2>2 DEF Alike
  <1>5. CASE h.pending # 0
    <2>1. h.pending - 1 \in 0..QueueBound
      BY <1>2, <1>5, Bounds DEF TrackRecord
    <2>2. k \in TrackRecord /\ Alike(h, k)
      BY <1>2, <2>1 DEF Alike, TrackRecord
    <2> HIDE DEF k
    <2>3. Alike(k, Start(k)) /\ Turned(g) = Start(k)
      BY <1>3, <1>5, <2>2, StartAlike
    <2> QED BY <1>2, <2>2, <2>3 DEF Alike
  <1> QED BY <1>4, <1>5

\* MicrophoneGate.set: a move after which the wish is the given one, or none when the gate
\* is disposed, and no slip is remembered.
LEMMA GateSetMoves ==
    ASSUME NEW g \in TrackRecord, Sound(g), NEW w \in BOOLEAN
    PROVE  /\ Moves(g, GateSet(g, w))
           /\ GateSet(g, w).wanted => w
  <1> DEFINE b == w /\ ~g.disposed
             o == g.open /\ w /\ ~g.disposed
             k == [g EXCEPT !.wanted = b, !.open = o, !.slip = FALSE]
  <1>1. b \in BOOLEAN /\ o \in BOOLEAN /\ (o => g.wanted /\ b) /\ (b => w /\ ~g.disposed)
    BY DEF Sound, TrackRecord
  <1>2. GateSet(g, w) = Queued(k)
    BY DEF GateSet
  <1> HIDE DEF b, o
  <1>3. /\ k \in TrackRecord /\ k.wanted = b /\ k.open = o
        /\ k.live = g.live /\ k.again = g.again /\ k.disposed = g.disposed
    BY <1>1 DEF TrackRecord
  <1> HIDE DEF k
  <1>4. Alike(k, Queued(k))
    BY <1>3, QueuedAlike
  <1> QED BY <1>1, <1>2, <1>3, <1>4 DEF Alike, Moves, Sound, Dark

\* MicrophoneGate.dispose
LEMMA GateDisposeMoves ==
    ASSUME NEW g \in TrackRecord
    PROVE  Moves(g, GateDispose(g)) /\ GateDispose(g).disposed
  BY DEF GateDispose, Moves, Sound, Dark, TrackRecord

\* The SDK has enabled the track, of a gate that is not disposed.
LEMMA UnmutedGate ==
    ASSUME NEW g \in TrackRecord, ~g.disposed
    PROVE  /\ Unmuted(g) \in TrackRecord
           /\ Unmuted(g).wanted = g.wanted /\ ~Unmuted(g).disposed
           /\ Dark(g) => Dark(Unmuted(g))
  BY DEF Unmuted, Dark, TrackRecord

\* What an SDK call that unmuted makes of its gate: a move.
Answered(g) ==
    IF g.disposed THEN [Start(g) EXCEPT !.open = FALSE, !.live = FALSE]
    ELSE IF g.wanted THEN Turned(Unmuted(g))
    ELSE [Unmuted(g) EXCEPT !.op = "muting", !.open = FALSE]

LEMMA AnsweredMoves ==
    ASSUME NEW g \in TrackRecord, Sound(g)
    PROVE  Moves(g, Answered(g))
  <1>1. CASE g.disposed
    <2> DEFINE h == Start(g)
    <2>1. Alike(g, h)
      BY StartAlike
    <2>2. Answered(g) = [h EXCEPT !.open = FALSE, !.live = FALSE]
      BY <1>1 DEF Answered
    <2> HIDE DEF h
    <2>3. Answered(g) \in TrackRecord
      BY <2>1, <2>2 DEF Alike, TrackRecord
    <2> QED BY <1>1, <2>1, <2>2, <2>3 DEF Alike, Moves, Sound, Dark, TrackRecord
  <1>2. CASE ~g.disposed /\ g.wanted
    <2> DEFINE h == Unmuted(g)
    <2>1. h \in TrackRecord /\ h.wanted = g.wanted /\ ~h.disposed /\ (Dark(g) => Dark(h))
      BY <1>2, UnmutedGate
    <2>2. Answered(g) = Turned(h)
      BY <1>2 DEF Answered
    <2> HIDE DEF h
    <2>3. Alike(h, Turned(h))
      BY <2>1, TurnedAlike
    <2> QED BY <1>2, <2>1, <2>2, <2>3 DEF Alike, Moves, Sound, Dark
  <1>3. CASE ~g.disposed /\ ~g.wanted
    <2> DEFINE h == Unmuted(g)
    <2>1. h \in TrackRecord /\ h.wanted = g.wanted /\ ~h.disposed /\ (Dark(g) => Dark(h))
      BY <1>3, UnmutedGate
    <2>2. Answered(g) = [h EXCEPT !.op = "muting", !.open = FALSE]
      BY <1>3 DEF Answered
    <2> HIDE DEF h
    <2>3. Answered(g) \in TrackRecord
      BY <2>1, <2>2 DEF TrackRecord
    <2> QED BY <1>3, <2>1, <2>2, <2>3 DEF Moves, Sound, Dark, TrackRecord
  <1> QED BY <1>1, <1>2, <1>3

-----------------------------------------------------------------------------
(* All gates *)

Tracks == [Task -> TrackRecord]
Sane(tr) == tr \in Tracks /\ \A t \in Task : Sound(tr[t])

\* Every gate moves.
AllMove(tr, tn) == tn \in Tracks /\ \A t \in Task : Moves(tr[t], tn[t])

\* Every gate moves, and only that of the page's microphone changes.
OnlyMic(p, tr, tn) == AllMove(tr, tn) /\ \A t \in Task : t # p.mic => tn[t] = tr[t]

\* Gates that move stay sound.
LEMMA MovedSane ==
    ASSUME NEW tr, NEW tn, AllMove(tr, tn)
    PROVE  Sane(tn)
  BY DEF AllMove, Sane, Moves

\* Nothing changes.
LEMMA NoneMoves ==
    ASSUME NEW p, NEW tr, Sane(tr)
    PROVE  OnlyMic(p, tr, tr)
  BY StayMoves DEF Sane, Tracks, AllMove, OnlyMic

\* One gate moves.
LEMMA OneMoves ==
    ASSUME NEW tr, Sane(tr), NEW c \in Task, NEW v, Moves(tr[c], v)
    PROVE  AllMove(tr, [tr EXCEPT ![c] = v])
  <1>1. \A t \in Task : Moves(tr[t], tr[t])
    BY StayMoves DEF Sane, Tracks
  <1>2. v \in TrackRecord
    BY DEF Moves
  <1> QED BY <1>1, <1>2 DEF Sane, Tracks, AllMove

\* The gate of the page's microphone moves.
LEMMA MicMoves ==
    ASSUME NEW p \in Page, NEW tr, Sane(tr), p.mic # None, NEW v, Moves(tr[p.mic], v)
    PROVE  /\ OnlyMic(p, tr, [tr EXCEPT ![p.mic] = v])
           /\ [tr EXCEPT ![p.mic] = v][p.mic] = v
  <1>1. p.mic \in Task
    BY DEF Page
  <1>2. AllMove(tr, [tr EXCEPT ![p.mic] = v])
    BY <1>1, OneMoves
  <1> QED BY <1>1, <1>2 DEF OnlyMic, Sane, Tracks

\* Two moves of the page's microphone are one, when the first leaves the wish.
LEMMA MovesTwice ==
    ASSUME NEW f, NEW g, NEW h, Moves(f, g), Moves(g, h), g.wanted => f.wanted
    PROVE  Moves(f, h)
  BY DEF Moves

\* The wish of a page is a Boolean.
LEMMA WantedType ==
    ASSUME NEW p \in Page
    PROVE  Wanted(p) \in BOOLEAN
  BY DEF Wanted

\* applyMicrophone: the wish of the gate is that of the page, or none.
LEMMA AppliedMoves ==
    ASSUME NEW p \in Page, NEW tr, Sane(tr)
    PROVE  /\ OnlyMic(p, tr, Applied(p, tr))
           /\ p.mic # None /\ p.phase # "out" /\ Applied(p, tr)[p.mic].wanted => Wanted(p)
  <1>1. CASE p.phase = "out" \/ p.mic = None
    BY <1>1, NoneMoves DEF Applied
  <1>2. CASE ~(p.phase = "out" \/ p.mic = None)
    <2> DEFINE v == GateSet(tr[p.mic], Wanted(p))
    <2>1. p.mic \in Task /\ Wanted(p) \in BOOLEAN
      BY <1>2 DEF Page, Wanted
    <2>2. Moves(tr[p.mic], v) /\ (v.wanted => Wanted(p))
      BY <2>1, GateSetMoves DEF Sane, Tracks
    <2>3. Applied(p, tr) = [tr EXCEPT ![p.mic] = v]
      BY <1>2, <2>1 DEF Applied
    <2> HIDE DEF v
    <2>4. OnlyMic(p, tr, [tr EXCEPT ![p.mic] = v]) /\ [tr EXCEPT ![p.mic] = v][p.mic] = v
      BY <1>2, <2>2, MicMoves
    <2> QED BY <1>2, <2>2, <2>3, <2>4
  <1> QED BY <1>1, <1>2

\* The media handlers withdraw the wish.
LEMMA ClosedMoves ==
    ASSUME NEW p \in Page, NEW tr, Sane(tr)
    PROVE  /\ OnlyMic(p, tr, Closed(p, tr))
           /\ p.mic # None => ~Closed(p, tr)[p.mic].wanted
  <1>1. CASE p.mic = None
    BY <1>1, NoneMoves DEF Closed
  <1>2. CASE p.mic # None
    <2> DEFINE v == GateSet(tr[p.mic], FALSE)
    <2>1. p.mic \in Task
      BY <1>2 DEF Page
    <2>2. Moves(tr[p.mic], v) /\ (v.wanted => FALSE)
      BY <2>1, GateSetMoves DEF Sane, Tracks
    <2>3. Closed(p, tr) = [tr EXCEPT ![p.mic] = v]
      BY <1>2, <2>1 DEF Closed
    <2> HIDE DEF v
    <2>4. OnlyMic(p, tr, [tr EXCEPT ![p.mic] = v]) /\ [tr EXCEPT ![p.mic] = v][p.mic] = v
      BY <1>2, <2>2, MicMoves
    <2> QED BY <1>2, <2>2, <2>3, <2>4
  <1> QED BY <1>1, <1>2

\* A disposal disposes of the page's microphone.
LEMMA SilencedMoves ==
    ASSUME NEW p \in Page, NEW tr, Sane(tr)
    PROVE  /\ OnlyMic(p, tr, Silenced(p, tr))
           /\ p.mic # None => Silenced(p, tr)[p.mic].disposed
  <1>1. CASE p.mic = None
    BY <1>1, NoneMoves DEF Silenced
  <1>2. CASE p.mic # None
    <2> DEFINE v == GateDispose(tr[p.mic])
    <2>1. p.mic \in Task
      BY <1>2 DEF Page
    <2>2. Moves(tr[p.mic], v) /\ v.disposed
      BY <2>1, GateDisposeMoves DEF Sane, Tracks
    <2>3. Silenced(p, tr) = [tr EXCEPT ![p.mic] = v]
      BY <1>2, <2>1 DEF Silenced
    <2> HIDE DEF v
    <2>4. OnlyMic(p, tr, [tr EXCEPT ![p.mic] = v]) /\ [tr EXCEPT ![p.mic] = v][p.mic] = v
      BY <1>2, <2>2, MicMoves
    <2> QED BY <1>2, <2>2, <2>3, <2>4
  <1> QED BY <1>1, <1>2

\* An error path remembers a wish it left standing.
LEMMA SlippedMoves ==
    ASSUME NEW p \in Page, NEW tr, Sane(tr)
    PROVE  /\ OnlyMic(p, tr, Slipped(p, tr))
           /\ p.mic # None /\ Slipped(p, tr)[p.mic].wanted => Slipped(p, tr)[p.mic].slip
           /\ \A t \in Task : Slipped(p, tr)[t].wanted = tr[t].wanted
  <1>1. CASE p.mic = None
    BY <1>1, NoneMoves DEF Slipped
  <1>2. CASE p.mic # None
    <2> DEFINE v == [tr[p.mic] EXCEPT !.slip = tr[p.mic].slip \/ tr[p.mic].wanted]
    <2>1. p.mic \in Task /\ tr[p.mic] \in TrackRecord /\ Sound(tr[p.mic])
      BY <1>2 DEF Page, Sane, Tracks
    <2>2. Moves(tr[p.mic], v) /\ (v.wanted => v.slip) /\ v.wanted = tr[p.mic].wanted
      BY <2>1 DEF Moves, Sound, Dark, TrackRecord
    <2>3. Slipped(p, tr) = [tr EXCEPT ![p.mic] = v]
      BY <1>2, <2>1 DEF Slipped
    <2> HIDE DEF v
    <2>4. OnlyMic(p, tr, [tr EXCEPT ![p.mic] = v]) /\ [tr EXCEPT ![p.mic] = v][p.mic] = v
      BY <1>2, <2>2, MicMoves
    <2> QED BY <1>2, <2>2, <2>3, <2>4 DEF OnlyMic
  <1> QED BY <1>1, <1>2

\* The track of the page is disabled.
LEMMA DisabledMoves ==
    ASSUME NEW p \in Page, NEW tr, Sane(tr)
    PROVE  /\ OnlyMic(p, tr, Disabled(p, tr))
           /\ \A t \in Task : Disabled(p, tr)[t].wanted = tr[t].wanted
  <1>1. CASE p.mic = None
    BY <1>1, NoneMoves DEF Disabled
  <1>2. CASE p.mic # None
    <2> DEFINE v == [tr[p.mic] EXCEPT !.open = FALSE]
    <2>1. p.mic \in Task /\ tr[p.mic] \in TrackRecord /\ Sound(tr[p.mic])
      BY <1>2 DEF Page, Sane, Tracks
    <2>2. Moves(tr[p.mic], v) /\ v.wanted = tr[p.mic].wanted
      BY <2>1 DEF Moves, Sound, Dark, TrackRecord
    <2>3. Disabled(p, tr) = [tr EXCEPT ![p.mic] = v]
      BY <1>2, <2>1 DEF Disabled
    <2> HIDE DEF v
    <2>4. OnlyMic(p, tr, [tr EXCEPT ![p.mic] = v]) /\ [tr EXCEPT ![p.mic] = v][p.mic] = v
      BY <1>2, <2>2, MicMoves
    <2> QED BY <1>2, <2>2, <2>3, <2>4 DEF OnlyMic
  <1> QED BY <1>1, <1>2

-----------------------------------------------------------------------------
(* Captures and devices *)

Tasks == [Task -> TaskRecord]

\* Before its capture is published, nobody uses a gate.
Young == {"unused", "request", "import"}

Fit(tk, tr) ==
    \A t \in Task :
        /\ tk[t].pc \in Young =>
              tr[t].op = "idle" /\ ~tr[t].wanted /\ ~tr[t].open /\ ~tr[t].disposed
        /\ tk[t].pc \in {"unused", "request"} => ~tr[t].live

\* The capture under way is that of the page's generation, and a generation whose capture
\* is not under way has seen its end.
Newest(p, tk) ==
    /\ p.micTask # None => p.generation \in {None, p.micTask} /\ tk[p.micTask].pc # "unused"
    /\ p.generation # None =>
        /\ p.micTask = p.generation => tk[p.generation].pc # "done"
        /\ p.micTask = None => tk[p.generation].pc = "done"
    /\ p.mic # None => p.generation # None /\ tk[p.mic].pc \notin Young

\* A microphone that a newer capture is about to replace is over and dark; one that is
\* published is ready or dark; and a capture that lost its place has let go of the device
\* before it ends.
Devices(p, tk, tr) ==
    /\ p.mic # None /\ p.generation # p.mic => tk[p.mic].pc = "done" /\ Dark(tr[p.mic])
    /\ p.mic # None /\ tk[p.mic].pc \in {"refresh", "apply", "done"} => p.ready \/ Dark(tr[p.mic])
    /\ \A t \in Task :
        /\ tk[t].pc = "releasing" => tr[t].disposed
        /\ tk[t].pc = "failing" => Dark(tr[t])
        /\ tk[t].pc = "done" /\ t # p.mic => Dark(tr[t])
        /\ tk[t].pc \in {"publish", "refresh", "apply"} /\ t # p.mic => tr[t].disposed

Typed(p, tk, tr) == p \in Page /\ tk \in Tasks /\ Sane(tr)

Owned(p, tk, tr) ==
    Typed(p, tk, tr) /\ Fit(tk, tr) /\ Newest(p, tk) /\ Devices(p, tk, tr)

\* The owners of the page p.
SameOwners(p, q) == q.mic = p.mic /\ q.generation = p.generation /\ q.micTask = p.micTask

\* The microphone of a page is a capture that has come far.
LEMMA MicIsGrown ==
    ASSUME NEW p \in Page, NEW tk \in Tasks, NEW tr, NEW tn, Fit(tk, tr), Newest(p, tk),
           OnlyMic(p, tr, tn)
    PROVE  Fit(tk, tn)
  <1>1. \A t \in Task : tk[t].pc \in Young => t # p.mic
    BY Bounds DEF Newest
  <1>2. \A t \in Task : tk[t].pc \in Young => tn[t] = tr[t]
    BY <1>1 DEF OnlyMic
  <1> QED BY <1>2 DEF Fit, Young

\* The gates move, and neither captures nor owners change.
LEMMA QuietOwned ==
    ASSUME NEW p, NEW tk, NEW tr, Owned(p, tk, tr), NEW q \in Page, NEW tn,
           SameOwners(p, q), p.ready => q.ready, AllMove(tr, tn), Fit(tk, tn)
    PROVE  Owned(q, tk, tn)
  <1>1. Typed(q, tk, tn)
    BY MovedSane DEF Owned, Typed
  <1>2. Newest(q, tk)
    BY DEF Owned, Newest, SameOwners
  <1>3. \A t \in Task : (Dark(tr[t]) => Dark(tn[t])) /\ (tr[t].disposed => tn[t].disposed)
    BY DEF AllMove, Moves
  <1>4. p.mic # None => p.mic \in Task
    BY DEF Owned, Typed, Page
  <1>5. Devices(p, tk, tr)
    BY DEF Owned
  <1>6. Devices(q, tk, tn)
    BY <1>3, <1>4, <1>5 DEF Devices, SameOwners
  <1> QED BY <1>1, <1>2, <1>6 DEF Owned

\* A disposal: the page has no microphone any more.
LEMMA DisposedOwned ==
    ASSUME NEW p, NEW tk, NEW tr, Owned(p, tk, tr), NEW q \in Page, NEW tn,
           q.mic = None, q.generation = None, q.micTask \in {None, p.micTask},
           OnlyMic(p, tr, tn), p.mic # None => tn[p.mic].disposed
    PROVE  Owned(q, tk, tn)
  <1>1. Typed(q, tk, tn)
    BY MovedSane DEF Owned, Typed, OnlyMic
  <1>2. Fit(tk, tn)
    BY MicIsGrown DEF Owned, Typed
  <1>3. Newest(q, tk)
    BY DEF Owned, Newest
  <1>4. \A t \in Task : /\ Dark(tr[t]) => Dark(tn[t])
                        /\ tr[t].disposed => tn[t].disposed
                        /\ tn[t].disposed => Dark(tn[t])
    BY DEF OnlyMic, AllMove, Moves, Sound, Dark
  <1>5. Devices(p, tk, tr) /\ (p.mic # None => p.mic \in Task)
    BY DEF Owned, Typed, Page
  <1>6. \A t \in Task : t # q.mic
    BY Bounds
  <1>7. Devices(q, tk, tn)
    BY <1>4, <1>5, <1>6 DEF Devices
  <1> QED BY <1>1, <1>2, <1>3, <1>7 DEF Owned

\* A capture begins, when the page has no microphone in use.
LEMMA RequestOwned ==
    ASSUME NEW p, NEW tk, NEW tr, Owned(p, tk, tr), p.micTask = None,
           ~(p.ready /\ p.mic # None /\ tr[p.mic].live),
           NEW t \in Task, tk[t].pc = "unused", NEW w \in BOOLEAN, NEW q, NEW tn,
           q = [p EXCEPT !.generation = t, !.micTask = t],
           tn = [tk EXCEPT ![t] = [pc |-> "request", room |-> p.room, waits |-> w]]
    PROVE  Owned(q, tn, tr)
  <1>1. /\ q \in Page /\ q.mic = p.mic /\ q.ready = p.ready
        /\ q.generation = t /\ q.micTask = t
    BY DEF Owned, Typed, Page
  <1>2. tn \in Tasks /\ tn[t].pc = "request" /\ \A u \in Task : u # t => tn[u] = tk[u]
    BY DEF Owned, Typed, Page, Tasks, TaskRecord
  <1>3. Fit(tn, tr)
    BY <1>2 DEF Owned, Fit, Young
  <1>4. t # None /\ (p.mic # None => p.mic \in Task /\ p.mic # t)
    BY Bounds DEF Owned, Typed, Page, Newest, Young
  <1>5. Newest(q, tn)
    BY <1>1, <1>2, <1>4 DEF Owned, Newest, Young
  <1>6. p.mic # None => tk[p.mic].pc = "done" /\ Dark(tr[p.mic])
    BY DEF Owned, Newest, Devices, Dark
  <1>7. Devices(q, tn, tr)
    BY <1>1, <1>2, <1>4, <1>6 DEF Owned, Devices
  <1> QED BY <1>1, <1>2, <1>3, <1>5, <1>7 DEF Owned, Typed

\* A capture ends, when it is dark or has applied the wish.
LEMMA FinishOwned ==
    ASSUME NEW p, NEW tk, NEW tr, Owned(p, tk, tr), NEW t \in Task,
           tk[t].pc = "apply" \/ (tk[t].pc \notin {"unused", "done"} /\ Dark(tr[t])),
           NEW q, NEW tn, NEW w,
           q = IF p.generation = t THEN Forgotten(p) ELSE p,
           tn = [tk EXCEPT ![t].pc = "done", ![t].waits = FALSE],
           OnlyMic(q, tr, w)
    PROVE  Owned(q, tn, w)
  <1>1. /\ q \in Page /\ q.mic = p.mic /\ q.ready = p.ready /\ q.generation = p.generation
        /\ q.micTask = IF p.generation = t THEN None ELSE p.micTask
    BY DEF Owned, Typed, Page, Forgotten
  <1>2. tn \in Tasks /\ tn[t].pc = "done" /\ \A u \in Task : u # t => tn[u] = tk[u]
    BY DEF Owned, Typed, Tasks, TaskRecord
  <1>3. t # None /\ (p.mic # None => p.mic \in Task) /\ (p.generation # None => p.generation \in Task)
    BY Bounds DEF Owned, Typed, Page
  <1>4. Newest(q, tn)
    <2>1. Newest(p, tk) /\ (p.micTask # None => p.micTask \in Task)
      BY DEF Owned, Typed, Page
    <2>2. CASE p.generation = t
      BY <1>1, <1>2, <1>3, <2>1, <2>2 DEF Newest, Young
    <2>3. CASE p.generation # t
      BY <1>1, <1>2, <1>3, <2>1, <2>3 DEF Newest, Young
    <2> QED BY <2>2, <2>3
  <1>5. Fit(tn, tr)
    BY <1>2 DEF Owned, Fit, Young
  <1>6. Fit(tn, w) /\ Sane(w)
    BY <1>1, <1>2, <1>4, <1>5, MicIsGrown, MovedSane DEF OnlyMic
  <1>7. \A u \in Task : /\ Dark(tr[u]) => Dark(w[u])
                        /\ tr[u].disposed => w[u].disposed
                        /\ tr[u].disposed => Dark(tr[u])
    BY DEF OnlyMic, AllMove, Moves, Sane, Sound, Dark, Owned, Typed
  <1>8. Devices(p, tk, tr)
    BY DEF Owned
  <1>9. t # p.mic => Dark(tr[t])
    BY <1>7, <1>8 DEF Devices
  <1>10. Devices(q, tn, w)
    BY <1>1, <1>2, <1>3, <1>7, <1>8, <1>9 DEF Devices
  <1> QED BY <1>1, <1>2, <1>4, <1>6, <1>10 DEF Owned, Typed

\* A capture goes on, and a stream arrives.
Went(tk, t, to) == [tk EXCEPT ![t].pc = to]
Arrived(tr, t) == [tr EXCEPT ![t].live = TRUE]

\* A device is granted to a capture that is still wanted.
LEMMA GrantOwned ==
    ASSUME NEW p, NEW tk, NEW tr, Owned(p, tk, tr), NEW t \in Task, tk[t].pc = "request",
           NEW tn, tn = Went(tk, t, "import"),
           NEW w, w = Arrived(tr, t)
    PROVE  Owned(p, tn, w) /\ \A u \in Task : w[u].open = tr[u].open
  <1>1. /\ tn \in Tasks /\ tn[t].pc = "import" /\ \A u \in Task : u # t => tn[u] = tk[u]
    BY DEF Owned, Typed, Tasks, TaskRecord, Went
  <1>2. /\ tr[t] \in TrackRecord /\ tr \in Tracks
        /\ tr[t].op = "idle" /\ ~tr[t].wanted /\ ~tr[t].open /\ ~tr[t].disposed
    BY DEF Owned, Typed, Sane, Tracks, Fit, Young
  <1> DEFINE v == [tr[t] EXCEPT !.live = TRUE]
  <1>3. /\ v \in TrackRecord /\ v.open = tr[t].open /\ v.wanted = tr[t].wanted
        /\ v.op = tr[t].op /\ v.disposed = tr[t].disposed
    BY <1>2 DEF TrackRecord
  <1>4. w = [tr EXCEPT ![t] = v]
    BY DEF Arrived
  <1> HIDE DEF v
  <1>5. w \in Tracks /\ w[t] = v /\ \A u \in Task : u # t => w[u] = tr[u]
    BY <1>2, <1>3, <1>4 DEF Tracks
  <1>6. Sane(w)
    BY <1>2, <1>3, <1>5 DEF Owned, Typed, Sane, Sound
  <1>7. Fit(tn, w)
    BY <1>1, <1>2, <1>3, <1>5 DEF Owned, Fit, Young
  <1>8. (p.mic # None => p.mic \in Task) /\ p.mic # t
        /\ (p.generation # None => p.generation \in Task)
        /\ (p.micTask # None => p.micTask \in Task)
    BY Bounds DEF Owned, Typed, Page, Newest, Young
  <1>9. Newest(p, tn)
    BY <1>1, <1>8 DEF Owned, Newest, Young
  <1>10. Devices(p, tn, w)
    BY <1>1, <1>5, <1>8 DEF Owned, Devices
  <1> QED BY <1>1, <1>3, <1>5, <1>6, <1>7, <1>9, <1>10 DEF Owned, Typed

\* The capture of the page's generation becomes its microphone.
LEMMA ImportOwned ==
    ASSUME NEW p, NEW tk, NEW tr, Owned(p, tk, tr), NEW t \in Task, tk[t].pc = "import",
           p.generation = t,
           NEW tn, tn = Went(tk, t, "publish"),
           NEW q, q = [p EXCEPT !.mic = t]
    PROVE  Owned(q, tn, tr)
  <1>1. /\ tn \in Tasks /\ tn[t].pc = "publish" /\ \A u \in Task : u # t => tn[u] = tk[u]
    BY DEF Owned, Typed, Tasks, TaskRecord, Went
  <1>2. /\ q \in Page /\ q.mic = t /\ q.generation = t /\ q.micTask = p.micTask
        /\ t # None /\ (p.mic # None => p.mic \in Task) /\ p.mic # t
        /\ (p.micTask # None => p.micTask \in Task)
    BY Bounds DEF Owned, Typed, Page, Newest, Young
  <1>3. Fit(tn, tr)
    BY <1>1 DEF Owned, Fit, Young
  <1>4. Newest(q, tn)
    BY <1>1, <1>2 DEF Owned, Newest, Young
  <1>5. p.mic # None => tk[p.mic].pc = "done" /\ Dark(tr[p.mic])
    BY <1>2 DEF Owned, Devices
  <1>6. Devices(p, tk, tr)
    BY DEF Owned
  <1>7. Devices(q, tn, tr)
    <2>1. ASSUME NEW u \in Task
          PROVE  /\ tn[u].pc = "releasing" => tr[u].disposed
                 /\ tn[u].pc = "failing" => Dark(tr[u])
                 /\ tn[u].pc = "done" /\ u # t => Dark(tr[u])
                 /\ tn[u].pc \in {"publish", "refresh", "apply"} /\ u # t => tr[u].disposed
      <3>1. CASE u = t
        BY <1>1, <3>1
      <3>2. CASE u # t /\ u = p.mic
        BY <1>1, <1>2, <1>5, <3>2, Bounds
      <3>3. CASE u # t /\ u # p.mic
        BY <1>1, <1>6, <3>3 DEF Devices
      <3> QED BY <3>1, <3>2, <3>3
    <2> QED BY <1>1, <1>2, <2>1 DEF Devices
  <1> QED BY <1>1, <1>2, <1>3, <1>4, <1>7 DEF Owned, Typed

\* A capture goes on: its page stays or becomes ready, and its gate is disposed of or dark
\* where the source lets go of the device.
LEMMA StepOwned ==
    ASSUME NEW p, NEW tk, NEW tr, Owned(p, tk, tr), NEW t \in Task, NEW to,
           tk[t].pc \notin {"unused", "done"},
           to \in {"refresh", "releasing", "apply", "failing"},
           NEW tn, tn = Went(tk, t, to),
           NEW q \in Page, SameOwners(p, q), p.ready => q.ready,
           NEW w, AllMove(tr, w), \A u \in Task : tk[u].pc \in Young /\ u # t => w[u] = tr[u],
           to = "refresh" => tk[t].pc = "publish" /\ q.ready,
           to = "apply" => tk[t].pc = "refresh",
           to = "releasing" => w[t].disposed,
           to = "failing" => Dark(w[t])
    PROVE  Owned(q, tn, w)
  <1>1. /\ tn \in Tasks /\ tn[t].pc = to /\ \A u \in Task : u # t => tn[u] = tk[u]
    BY DEF Owned, Typed, Tasks, TaskRecord, Went
  <1>2. /\ (p.mic # None => p.mic \in Task)
        /\ (p.generation # None => p.generation \in Task)
        /\ (p.micTask # None => p.micTask \in Task)
    BY DEF Owned, Typed, Page
  <1>3. to \notin Young /\ to \notin {"unused", "done"}
    BY DEF Young
  <1>4. Fit(tn, w)
    BY <1>1, <1>3 DEF Owned, Fit, Young
  <1>5. Newest(q, tn)
    BY <1>1, <1>2, <1>3 DEF Owned, Newest, SameOwners
  <1>6. \A u \in Task : (Dark(tr[u]) => Dark(w[u])) /\ (tr[u].disposed => w[u].disposed)
    BY DEF AllMove, Moves
  <1>7. Devices(p, tk, tr) /\ (p.mic # None /\ p.generation # p.mic => tk[p.mic].pc = "done")
    BY DEF Owned, Devices
  <1>8. Devices(q, tn, w)
    <2>1. q.mic # None /\ q.generation # q.mic => tn[q.mic].pc = "done" /\ Dark(w[q.mic])
      BY <1>1, <1>2, <1>6, <1>7 DEF Devices, SameOwners
    <2>2. q.mic # None /\ tn[q.mic].pc \in {"refresh", "apply", "done"} => q.ready \/ Dark(w[q.mic])
      BY <1>1, <1>2, <1>6, <1>7 DEF Devices, SameOwners
    <2>3. ASSUME NEW u \in Task
          PROVE  /\ tn[u].pc = "releasing" => w[u].disposed
                 /\ tn[u].pc = "failing" => Dark(w[u])
                 /\ tn[u].pc = "done" /\ u # q.mic => Dark(w[u])
                 /\ tn[u].pc \in {"publish", "refresh", "apply"} /\ u # q.mic => w[u].disposed
      BY <1>1, <1>6, <1>7 DEF Devices, SameOwners
    <2> QED BY <2>1, <2>2, <2>3 DEF Devices
  <1> QED BY <1>1, <1>4, <1>5, <1>8, MovedSane DEF Owned, Typed

\* An error path of the page's generation withdraws its readiness.
LEMMA UnreadyOwned ==
    ASSUME NEW p, NEW tk, NEW tr, Owned(p, tk, tr), NEW t \in Task, tk[t].pc = "failing",
           p.generation = t, NEW q \in Page, SameOwners(p, q)
    PROVE  Owned(q, tk, tr)
  <1>1. p.mic # None /\ tk[p.mic].pc \in {"refresh", "apply", "done"} => Dark(tr[p.mic])
    BY DEF Owned, Devices
  <1>2. Devices(q, tk, tr)
    BY <1>1 DEF Owned, Devices, SameOwners
  <1>3. Newest(q, tk)
    BY DEF Owned, Newest, SameOwners
  <1> QED BY <1>2, <1>3 DEF Owned, Typed

-----------------------------------------------------------------------------
(* Wishes *)

\* A room that is being replaced has no microphone that is ready, one that was left has none,
\* and a press on the page is a held button or its tail.
Pressed(p, h) ==
    /\ p.swapping => ~p.ready /\ p.room < MaxRooms
    /\ p.phase # "in" => p.mic = None
    /\ p.phase = "in" /\ p.ptt => h \/ p.tail

\* Somebody is meant to be heard on the page p, while h says whether the button is held.
Ought(p, h) ==
    /\ p.phase = "in" /\ p.link = "up" /\ p.ready /\ p.canSpeak /\ ~p.muted
    /\ p.mode = "auto" \/ h \/ p.tail

\* The wish of the microphone's gate is that of the page, or has slipped.
Meant(p, h, tr) ==
    p.mic # None /\ tr[p.mic].wanted => tr[p.mic].slip \/ Ought(p, h)

MicState(p, h, tk, tr) ==
    h \in BOOLEAN /\ Owned(p, tk, tr) /\ Pressed(p, h) /\ Meant(p, h, tr)

\* A gate opens only for a wish that stands already.
Opens(tr, tn) == \A t \in Task : tn[t].open => tr[t].wanted

\* Gates that move open for a wish.
LEMMA MovesOpen ==
    ASSUME NEW tr, NEW tn, AllMove(tr, tn)
    PROVE  Opens(tr, tn)
  BY DEF AllMove, Moves, Opens

\* Gates that stay are open for a wish.
LEMMA StaysOpen ==
    ASSUME NEW tr, Sane(tr)
    PROVE  Opens(tr, tr)
  BY DEF Sane, Sound, Opens

\* The page applies its wish: whatever was meant before, the gate follows.
LEMMA AppliedMeant ==
    ASSUME NEW p \in Page, NEW tr, Sane(tr), NEW h, Pressed(p, h)
    PROVE  Meant(p, h, Applied(p, tr))
  <1>1. p.mic # None => p.phase = "in"
    BY DEF Pressed
  <1>2. p.mic # None /\ Applied(p, tr)[p.mic].wanted => Wanted(p)
    BY <1>1, AppliedMoves
  <1> QED BY <1>1, <1>2 DEF Meant, Ought, Wanted, Pressed

\* A handler that changes the page to q and applies the wish.
LEMMA ApplyKeeps ==
    ASSUME NEW p, NEW h, NEW tk, NEW tr, MicState(p, h, tk, tr),
           NEW q \in Page, SameOwners(p, q), p.ready => q.ready,
           NEW k \in BOOLEAN, Pressed(q, k), NEW tn, tn = Applied(q, tr)
    PROVE  MicState(q, k, tk, tn) /\ Opens(tr, tn)
  <1>1. /\ Owned(p, tk, tr) /\ Sane(tr) /\ p \in Page /\ tk \in Tasks
        /\ Fit(tk, tr) /\ Newest(p, tk)
    BY DEF MicState, Owned, Typed
  <1>2. OnlyMic(q, tr, tn)
    BY <1>1, AppliedMoves
  <1>3. OnlyMic(p, tr, tn)
    BY <1>2 DEF OnlyMic, SameOwners
  <1>4. AllMove(tr, tn) /\ Fit(tk, tn)
    BY <1>1, <1>3, MicIsGrown DEF OnlyMic
  <1>5. Owned(q, tk, tn)
    BY <1>1, <1>4, QuietOwned
  <1>6. Meant(q, k, tn)
    BY <1>1, AppliedMeant
  <1> QED BY <1>4, <1>5, <1>6, MovesOpen DEF MicState

\* A handler that changes the page to q, where what was meant is meant still.
LEMMA PageKeeps ==
    ASSUME NEW p, NEW h, NEW tk, NEW tr, MicState(p, h, tk, tr),
           NEW q \in Page, SameOwners(p, q), p.ready => q.ready,
           NEW k \in BOOLEAN, Pressed(q, k), p.mic # None /\ Ought(p, h) => Ought(q, k)
    PROVE  MicState(q, k, tk, tr)
  <1>1. Owned(p, tk, tr) /\ Sane(tr)
    BY DEF MicState, Owned, Typed
  <1>2. AllMove(tr, tr) /\ Fit(tk, tr)
    BY <1>1, NoneMoves DEF OnlyMic, Owned
  <1>3. Owned(q, tk, tr)
    BY <1>1, <1>2, QuietOwned
  <1>4. Meant(q, k, tr)
    BY DEF MicState, Meant, SameOwners
  <1> QED BY <1>3, <1>4 DEF MicState

\* The handlers that wait for a capture may change.
LEMMA WaitsKeep ==
    ASSUME NEW p, NEW h, NEW tk, NEW tr, MicState(p, h, tk, tr),
           NEW tn \in Tasks, \A t \in Task : tn[t].pc = tk[t].pc
    PROVE  MicState(p, h, tn, tr)
  <1>1. Owned(p, tk, tr)
    BY DEF MicState
  <1>2. /\ p.mic # None => p.mic \in Task
        /\ p.generation # None => p.generation \in Task
        /\ p.micTask # None => p.micTask \in Task
    BY <1>1 DEF Owned, Typed, Page
  <1>3. Newest(p, tn)
    BY <1>1, <1>2 DEF Owned, Newest
  <1>4. Devices(p, tn, tr)
    BY <1>1, <1>2 DEF Owned, Devices
  <1>5. Fit(tn, tr)
    BY <1>1 DEF Owned, Fit
  <1> QED BY <1>1, <1>3, <1>4, <1>5 DEF MicState, Owned, Typed

\* A page without a microphone.
LEMMA DisposedKeeps ==
    ASSUME NEW p, NEW h, NEW tk, NEW tr, MicState(p, h, tk, tr), NEW q \in Page, NEW tn,
           q.mic = None, q.generation = None, q.micTask \in {None, p.micTask}, ~q.ready, ~q.ptt,
           q.swapping => q.room < MaxRooms, tn = Silenced(p, tr), NEW k \in BOOLEAN
    PROVE  MicState(q, k, tk, tn) /\ Opens(tr, tn)
  <1>1. Owned(p, tk, tr) /\ Sane(tr) /\ p \in Page
    BY DEF MicState, Owned, Typed
  <1>2. OnlyMic(p, tr, tn) /\ (p.mic # None => tn[p.mic].disposed)
    BY <1>1, SilencedMoves
  <1>3. Owned(q, tk, tn)
    BY <1>1, <1>2, DisposedOwned
  <1>4. Opens(tr, tn)
    BY <1>2, MovesOpen DEF OnlyMic
  <1> QED BY <1>3, <1>4 DEF MicState, Pressed, Meant

\* A capture begins.
LEMMA RequestKeeps ==
    ASSUME NEW p, NEW h, NEW tr, MicState(p, h, task, tr), NEW w \in BOOLEAN, Request(p, w),
           ~(p.ready /\ p.mic # None /\ tr[p.mic].live)
    PROVE  MicState(page', h, task', tr)
  <1>1. PICK t \in Task :
          /\ task[t].pc = "unused"
          /\ page' = [p EXCEPT !.generation = t, !.micTask = t]
          /\ task' = [task EXCEPT ![t] = [pc |-> "request", room |-> p.room, waits |-> w]]
    BY DEF Request
  <1>2. Owned(p, task, tr) /\ p \in Page /\ p.micTask = None
    BY DEF MicState, Owned, Typed, Request
  <1>3. Owned(page', task', tr)
    BY <1>1, <1>2, RequestOwned
  <1>4. /\ page'.swapping = p.swapping /\ page'.ready = p.ready /\ page'.room = p.room
        /\ page'.phase = p.phase /\ page'.mic = p.mic /\ page'.ptt = p.ptt /\ page'.tail = p.tail
        /\ page'.link = p.link /\ page'.canSpeak = p.canSpeak /\ page'.muted = p.muted
        /\ page'.mode = p.mode
    BY <1>1, <1>2 DEF Page
  <1>5. Pressed(page', h)
    BY <1>4 DEF MicState, Pressed
  <1>6. Meant(page', h, tr)
    BY <1>4 DEF MicState, Meant, Ought
  <1> QED BY <1>3, <1>5, <1>6 DEF MicState

\* A capture ends, and the handlers that waited apply the wish.
LEMMA FinishKeeps ==
    ASSUME NEW p, NEW h, NEW tr, MicState(p, h, task, tr), NEW t \in Task, NEW ok \in BOOLEAN,
           Finish(t, p, tr, ok),
           task[t].pc = "apply" \/ (task[t].pc \notin {"unused", "done"} /\ Dark(tr[t]))
    PROVE  MicState(page', h, task', track') /\ Opens(tr, track')
  <1> DEFINE q == IF p.generation = t THEN Forgotten(p) ELSE p
  <1>1. /\ page' = q
        /\ track' = Applied(q, tr) \/ track' = tr
        /\ task' = [task EXCEPT ![t].pc = "done", ![t].waits = FALSE]
    BY DEF Finish
  <1>2. Owned(p, task, tr) /\ p \in Page /\ Sane(tr)
    BY DEF MicState, Owned, Typed
  <1>3. /\ q \in Page /\ q.mic = p.mic
        /\ q.swapping = p.swapping /\ q.ready = p.ready /\ q.room = p.room
        /\ q.phase = p.phase /\ q.ptt = p.ptt /\ q.tail = p.tail
        /\ q.link = p.link /\ q.canSpeak = p.canSpeak /\ q.muted = p.muted /\ q.mode = p.mode
    BY <1>2 DEF Page, Forgotten
  <1>4. Pressed(q, h)
    BY <1>3 DEF MicState, Pressed
  <1>5. Meant(q, h, tr)
    BY <1>3 DEF MicState, Meant, Ought
  <1>6. q = IF p.generation = t THEN Forgotten(p) ELSE p
    OBVIOUS
  <1> HIDE DEF q
  <1>7. OnlyMic(q, tr, track')
    BY <1>1, <1>2, <1>3, NoneMoves, AppliedMoves
  <1>8. Owned(q, task', track')
    BY <1>1, <1>2, <1>6, <1>7, FinishOwned
  <1>9. Meant(q, h, track')
    BY <1>1, <1>2, <1>3, <1>4, <1>5, AppliedMeant
  <1> QED BY <1>1, <1>4, <1>7, <1>8, <1>9, MovesOpen DEF MicState, OnlyMic

\* initializeAudioDevices, up to its first await.
LEMMA InitializeKeeps ==
    ASSUME NEW p, NEW h, MicState(p, h, task, track), NEW w \in BOOLEAN, Initialize(p, w)
    PROVE  MicState(page', h, task', track') /\ Opens(track, track')
  <1>1. p \in Page /\ task \in Tasks /\ Sane(track) /\ h \in BOOLEAN /\ Pressed(p, h)
    BY DEF MicState, Owned, Typed
  <1>2. Opens(track, track)
    BY <1>1, StaysOpen
  <1>3. ASSUME track' = Applied(p, track)
        PROVE  MicState(p, h, task, track') /\ Opens(track, track')
    <2>1. SameOwners(p, p)
      BY DEF SameOwners
    <2> QED BY <1>1, <1>3, <2>1, ApplyKeeps
  <1>4. CASE Join(p, w)
    <2>1. CASE task[p.micTask].pc = "done"
      BY <1>2, <1>3, <1>4, <2>1 DEF Join, Apply
    <2>2. CASE task[p.micTask].pc # "done"
      <3>1. /\ page' = p /\ track' = track
            /\ task' = [task EXCEPT ![p.micTask].waits = @ \/ w]
            /\ p.micTask # None
        BY <1>4, <2>2 DEF Join
      <3>2. p.micTask \in Task /\ task[p.micTask] \in TaskRecord
        BY <1>1, <3>1 DEF Page, Tasks
      <3>3. task' \in Tasks /\ \A t \in Task : task'[t].pc = task[t].pc
        BY <1>1, <3>1, <3>2 DEF Tasks, TaskRecord
      <3>4. MicState(p, h, task', track)
        BY <3>3, WaitsKeep
      <3> QED BY <1>2, <3>1, <3>4
    <2> QED BY <2>1, <2>2
  <1>5. CASE Decline(p, w)
    BY <1>2, <1>3, <1>5 DEF Decline, Apply
  <1>6. CASE ~Usable(p) /\ Request(p, w) /\ UNCHANGED track
    <2>1. ~(p.ready /\ p.mic # None /\ track[p.mic].live)
      BY <1>6 DEF Usable
    <2> QED BY <1>2, <1>6, <2>1, RequestKeeps
  <1> QED BY <1>4, <1>5, <1>6 DEF Initialize

-----------------------------------------------------------------------------
(* The user *)

MicInv == upsets \in 0..MaxUpsets /\ MicState(page, held, task, track)

\* What an action keeps.
Kept == MicState(page', held', task', track') /\ Opens(track, track')

\* The parts of the invariant that every action needs.
LEMMA MicFacts ==
    ASSUME MicInv
    PROVE  /\ held \in BOOLEAN /\ page \in Page /\ task \in Tasks /\ Sane(track)
           /\ Pressed(page, held) /\ MicState(page, held, task, track)
           /\ Owned(page, task, track) /\ Opens(track, track)
  BY StaysOpen DEF MicInv, MicState, Owned, Typed

\* A handler whose page is q, with the button in state k, and that applies the wish.
LEMMA ApplyKept ==
    ASSUME MicInv, NEW q \in Page, SameOwners(page, q), page.ready => q.ready,
           held' \in BOOLEAN, Pressed(q, held'), Apply(q), UNCHANGED task
    PROVE  Kept
  BY MicFacts, ApplyKeeps DEF Apply, Kept

\* The press, and its end on the page.
LEMMA StoppedPage ==
    ASSUME NEW p \in Page
    PROVE  /\ StopPTT(p) \in Page /\ SameOwners(p, StopPTT(p))
           /\ ~StopPTT(p).ptt /\ ~StopPTT(p).tail
           /\ StopPTT(p).swapping = p.swapping /\ StopPTT(p).ready = p.ready
           /\ StopPTT(p).room = p.room /\ StopPTT(p).phase = p.phase
           /\ StopPTT(p).link = p.link /\ StopPTT(p).canSpeak = p.canSpeak
           /\ StopPTT(p).muted = p.muted /\ StopPTT(p).mode = p.mode
  BY DEF StopPTT, Page, SameOwners

LEMMA PressKeeps ==
    ASSUME MicInv, Press
    PROVE  Kept
  <1> DEFINE p == [page EXCEPT !.ptt = TRUE, !.tail = FALSE]
  <1>1. /\ held \in BOOLEAN /\ page \in Page /\ Pressed(page, held)
        /\ MicState(page, held, task, track)
    BY MicFacts
  <1>2. /\ p \in Page /\ SameOwners(page, p) /\ p.ready = page.ready
        /\ p.swapping = page.swapping /\ p.room = page.room /\ p.phase = page.phase
        /\ p.link = page.link /\ p.canSpeak = page.canSpeak /\ p.muted = page.muted
        /\ p.mode = page.mode
    BY <1>1 DEF Page, SameOwners
  <1>3. held' = TRUE /\ IF p.ready THEN Apply(p) /\ UNCHANGED task ELSE Initialize(p, TRUE)
    BY DEF Press
  <1> HIDE DEF p
  <1>4. Pressed(p, TRUE)
    BY <1>1, <1>2 DEF Pressed, SameOwners
  <1>5. CASE p.ready
    BY <1>2, <1>3, <1>4, <1>5, ApplyKept
  <1>6. CASE ~p.ready
    <2>1. Ought(page, held) => Ought(p, TRUE)
      BY <1>2 DEF Ought
    <2>2. MicState(p, TRUE, task, track)
      BY <1>1, <1>2, <1>4, <2>1, PageKeeps
    <2> QED BY <1>3, <1>6, <2>2, InitializeKeeps DEF Kept
  <1> QED BY <1>5, <1>6

\* A press that ends with its wish applied.
LEMMA StopKeeps ==
    ASSUME MicInv, Apply(StopPTT(page)), held' \in BOOLEAN, UNCHANGED task
    PROVE  Kept
  <1>1. page \in Page /\ Pressed(page, held)
    BY MicFacts
  <1>2. /\ StopPTT(page) \in Page /\ SameOwners(page, StopPTT(page)) /\ ~StopPTT(page).ptt
        /\ StopPTT(page).swapping = page.swapping /\ StopPTT(page).ready = page.ready
        /\ StopPTT(page).room = page.room /\ StopPTT(page).phase = page.phase
    BY <1>1, StoppedPage
  <1>3. Pressed(StopPTT(page), held')
    BY <1>1, <1>2 DEF Pressed, SameOwners
  <1> QED BY <1>2, <1>3, ApplyKept

LEMMA ReleaseKeeps ==
    ASSUME MicInv, NEW i \in BOOLEAN, Release(i)
    PROVE  Kept
  <1>1. /\ held \in BOOLEAN /\ page \in Page /\ Pressed(page, held) /\ Opens(track, track)
        /\ MicState(page, held, task, track)
    BY MicFacts
  <1>2. held' = FALSE /\ UNCHANGED task
    BY DEF Release
  <1>3. CASE page.phase = "out"
    <2>1. page' = page /\ track' = track
      BY <1>3 DEF Release
    <2>2. Pressed(page, FALSE) /\ page.mic = None /\ SameOwners(page, page)
      BY <1>1, <1>3 DEF Pressed, SameOwners
    <2>3. MicState(page, FALSE, task, track)
      BY <1>1, <2>2, PageKeeps
    <2> QED BY <1>1, <1>2, <2>1, <2>3 DEF Kept
  <1>4. CASE page.phase # "out" /\ ~i /\ page.ptt /\ Usable(page)
    <2> DEFINE q == [page EXCEPT !.tail = TRUE]
    <2>1. page' = q /\ track' = track
      BY <1>4 DEF Release
    <2>2. /\ q \in Page /\ SameOwners(page, q) /\ q.tail /\ q.ready = page.ready
          /\ q.swapping = page.swapping /\ q.room = page.room /\ q.phase = page.phase
          /\ q.link = page.link /\ q.canSpeak = page.canSpeak /\ q.muted = page.muted
      BY <1>1 DEF Page, SameOwners
    <2> HIDE DEF q
    <2>3. Pressed(q, FALSE)
      BY <1>1, <2>2 DEF Pressed, SameOwners
    <2>4. Ought(page, held) => Ought(q, FALSE)
      BY <2>2 DEF Ought
    <2>5. MicState(q, FALSE, task, track)
      BY <1>1, <2>2, <2>3, <2>4, PageKeeps
    <2> QED BY <1>1, <1>2, <2>1, <2>5 DEF Kept
  <1>5. CASE page.phase # "out" /\ ~(~i /\ page.ptt /\ Usable(page))
    <2>1. Apply(StopPTT(page))
      BY <1>5 DEF Release
    <2> QED BY <1>2, <2>1, StopKeeps
  <1> QED BY <1>3, <1>4, <1>5

LEMMA HideKeeps ==
    ASSUME MicInv, Hide
    PROVE  Kept
  BY MicFacts, StopKeeps DEF Hide

LEMMA TailEndsKeeps ==
    ASSUME MicInv, TailEnds
    PROVE  Kept
  <1>1. /\ held \in BOOLEAN /\ page \in Page /\ Pressed(page, held) /\ Opens(track, track)
        /\ MicState(page, held, task, track) /\ held' = held /\ task' = task
    BY MicFacts DEF TailEnds
  <1>2. CASE page.phase = "out"
    <2> DEFINE q == [page EXCEPT !.tail = FALSE]
    <2>1. page' = q /\ track' = track
      BY <1>2 DEF TailEnds
    <2>2. /\ q \in Page /\ SameOwners(page, q) /\ q.ready = page.ready
          /\ q.swapping = page.swapping /\ q.room = page.room /\ q.phase = page.phase
      BY <1>1 DEF Page, SameOwners
    <2> HIDE DEF q
    <2>3. Pressed(q, held) /\ page.mic = None
      BY <1>1, <1>2, <2>2 DEF Pressed, SameOwners
    <2>4. MicState(q, held, task, track)
      BY <1>1, <2>2, <2>3, PageKeeps
    <2> QED BY <1>1, <2>1, <2>4 DEF Kept
  <1>3. CASE page.phase # "out"
    BY <1>1, <1>3, StopKeeps DEF TailEnds
  <1> QED BY <1>2, <1>3

LEMMA ToggleMuteKeeps ==
    ASSUME MicInv, ToggleMute
    PROVE  Kept
  <1> DEFINE s == StopPTT(page)
             q == [s EXCEPT !.muted = ~s.muted]
  <1>1. /\ held \in BOOLEAN /\ page \in Page /\ Pressed(page, held) /\ held' = held
        /\ task' = task /\ Apply(q)
    BY MicFacts DEF ToggleMute
  <1>2. /\ s \in Page /\ SameOwners(page, s) /\ ~s.ptt
        /\ s.swapping = page.swapping /\ s.ready = page.ready /\ s.room = page.room
        /\ s.phase = page.phase
    BY <1>1, StoppedPage
  <1> HIDE DEF s
  <1>3. /\ q \in Page /\ SameOwners(page, q) /\ ~q.ptt
        /\ q.swapping = page.swapping /\ q.ready = page.ready /\ q.room = page.room
        /\ q.phase = page.phase
    BY <1>2 DEF Page, SameOwners
  <1> HIDE DEF q
  <1>4. Pressed(q, held)
    BY <1>1, <1>3 DEF Pressed, SameOwners
  <1> QED BY <1>1, <1>3, <1>4, ApplyKept

LEMMA ChooseModeKeeps ==
    ASSUME MicInv, NEW m \in {"ptt", "auto"}, ChooseMode(m)
    PROVE  Kept
  <1> DEFINE s == StopPTT(page)
             q == [s EXCEPT !.mode = m]
  <1>1. /\ held \in BOOLEAN /\ page \in Page /\ Pressed(page, held) /\ held' = held
        /\ MicState(page, held, task, track)
        /\ IF m = "auto" /\ ~q.ready THEN Initialize(q, TRUE) ELSE Apply(q) /\ UNCHANGED task
    BY MicFacts DEF ChooseMode
  <1>2. /\ s \in Page /\ SameOwners(page, s) /\ ~s.ptt
        /\ s.swapping = page.swapping /\ s.ready = page.ready /\ s.room = page.room
        /\ s.phase = page.phase /\ s.link = page.link /\ s.canSpeak = page.canSpeak
        /\ s.muted = page.muted
    BY <1>1, StoppedPage
  <1> HIDE DEF s
  <1>3. /\ q \in Page /\ SameOwners(page, q) /\ ~q.ptt /\ q.mode = m
        /\ q.swapping = page.swapping /\ q.ready = page.ready /\ q.room = page.room
        /\ q.phase = page.phase /\ q.link = page.link /\ q.canSpeak = page.canSpeak
        /\ q.muted = page.muted
    BY <1>2 DEF Page, SameOwners
  <1> HIDE DEF q
  <1>4. Pressed(q, held)
    BY <1>1, <1>3 DEF Pressed, SameOwners
  <1>5. CASE m = "auto" /\ ~q.ready
    <2>1. Ought(page, held) => Ought(q, held)
      BY <1>3, <1>5 DEF Ought
    <2>2. MicState(q, held, task, track)
      BY <1>1, <1>3, <1>4, <2>1, PageKeeps
    <2> QED BY <1>1, <1>5, <2>2, InitializeKeeps DEF Kept
  <1>6. CASE ~(m = "auto" /\ ~q.ready)
    BY <1>1, <1>3, <1>4, <1>6, ApplyKept
  <1> QED BY <1>5, <1>6

LEMMA EnableKeeps ==
    ASSUME MicInv, Enable
    PROVE  Kept
  <1>1. /\ MicState(page, held, task, track) /\ held' = held
        /\ Initialize(page, FALSE)
    BY MicFacts DEF Enable
  <1>2. FALSE \in BOOLEAN
    OBVIOUS
  <1> QED BY <1>1, <1>2, InitializeKeeps DEF Kept

\* disposeMicrophone, on the page.
LEMMA DisposedPage ==
    ASSUME NEW p \in Page
    PROVE  /\ Disposed(p) \in Page
           /\ Disposed(p).mic = None /\ Disposed(p).generation = None
           /\ Disposed(p).micTask = p.micTask /\ ~Disposed(p).ready /\ ~Disposed(p).ptt
           /\ Disposed(p).swapping = p.swapping /\ Disposed(p).room = p.room
           /\ Disposed(p).link = p.link
  <1>1. StopPTT(p) \in Page /\ ~StopPTT(p).ptt /\ StopPTT(p).micTask = p.micTask
        /\ StopPTT(p).swapping = p.swapping /\ StopPTT(p).room = p.room
        /\ StopPTT(p).link = p.link
    BY StoppedPage DEF SameOwners
  <1> DEFINE s == StopPTT(p)
  <1>2. Disposed(p) = [s EXCEPT !.generation = None, !.mic = None, !.ready = FALSE]
    BY DEF Disposed
  <1> HIDE DEF s
  <1>3. s \in Page /\ ~s.ptt /\ s.micTask = p.micTask
        /\ s.swapping = p.swapping /\ s.room = p.room /\ s.link = p.link
    BY <1>1 DEF s
  <1> DEFINE q == [s EXCEPT !.generation = None, !.mic = None, !.ready = FALSE]
  <1>4. q \in Page
    BY <1>3 DEF Page
  <1>5. /\ q.mic = None /\ q.generation = None /\ ~q.ready
        /\ q.micTask = s.micTask /\ q.ptt = s.ptt /\ q.swapping = s.swapping
        /\ q.room = s.room /\ q.link = s.link
    BY <1>3 DEF Page
  <1> HIDE DEF q
  <1>6. Disposed(p) = q
    BY <1>2 DEF q
  <1> QED BY <1>3, <1>4, <1>5, <1>6

\* The same, of the capture under way as well.
LEMMA ForgottenPage ==
    ASSUME NEW p \in Page
    PROVE  /\ Forgotten(Disposed(p)) \in Page
           /\ Forgotten(Disposed(p)).mic = None /\ Forgotten(Disposed(p)).generation = None
           /\ Forgotten(Disposed(p)).micTask = None
           /\ ~Forgotten(Disposed(p)).ready /\ ~Forgotten(Disposed(p)).ptt
           /\ Forgotten(Disposed(p)).swapping = p.swapping
           /\ Forgotten(Disposed(p)).room = p.room
           /\ Forgotten(Disposed(p)).link = p.link
  <1> DEFINE d == Disposed(p)
  <1>1. /\ d \in Page
        /\ d.mic = None /\ d.generation = None
        /\ d.micTask = p.micTask /\ ~d.ready /\ ~d.ptt
        /\ d.swapping = p.swapping /\ d.room = p.room /\ d.link = p.link
    BY DisposedPage
  <1>2. Forgotten(Disposed(p)) = [d EXCEPT !.micTask = None]
    BY DEF Forgotten
  <1> HIDE DEF d
  <1> QED BY <1>1, <1>2 DEF Page

\* A handler that disposes of the microphone.
LEMMA DisposalKept ==
    ASSUME MicInv, NEW q \in Page,
           q.mic = None, q.generation = None, q.micTask \in {None, page.micTask},
           ~q.ready, ~q.ptt, q.swapping => q.room < MaxRooms,
           page' = q, track' = Silenced(page, track), held' \in BOOLEAN, UNCHANGED task
    PROVE  Kept
  BY MicFacts, DisposedKeeps DEF Kept

LEMMA ChangeInputKeeps ==
    ASSUME MicInv, ChangeInput
    PROVE  Kept
  <1> DEFINE p == Forgotten(Disposed(page))
             tr == Silenced(page, track)
  <1>1. /\ held \in BOOLEAN /\ page \in Page /\ Pressed(page, held) /\ held' = held
        /\ MicState(page, held, task, track)
        /\ Request(p, FALSE) \/ (page' = p /\ UNCHANGED task)
        /\ track' = tr
    BY MicFacts DEF ChangeInput
  <1>2. /\ p \in Page /\ p.mic = None /\ p.generation = None /\ p.micTask = None
        /\ ~p.ready /\ ~p.ptt /\ p.swapping = page.swapping /\ p.room = page.room
    BY <1>1, ForgottenPage
  <1>3. tr = Silenced(page, track)
    OBVIOUS
  <1> HIDE DEF p, tr
  <1>4. p.swapping => p.room < MaxRooms
    BY <1>1, <1>2 DEF Pressed
  <1>5. MicState(p, held, task, tr) /\ Opens(track, tr)
    BY <1>1, <1>2, <1>3, <1>4, DisposedKeeps
  <1>6. CASE Request(p, FALSE)
    <2>1. FALSE \in BOOLEAN
      OBVIOUS
    <2>2. MicState(page', held, task', tr)
      BY <1>2, <1>5, <1>6, <2>1, RequestKeeps
    <2> QED BY <1>1, <1>5, <2>2 DEF Kept
  <1>7. CASE page' = p /\ UNCHANGED task
    BY <1>1, <1>5, <1>7 DEF Kept
  <1> QED BY <1>1, <1>6, <1>7

LEMMA PageHideKeeps ==
    ASSUME MicInv, PageHide
    PROVE  Kept
  <1>1. /\ page \in Page /\ Pressed(page, held) /\ held' = FALSE /\ UNCHANGED task
        /\ page' = Forgotten(Disposed(page)) /\ track' = Silenced(page, track)
    BY MicFacts DEF PageHide
  <1> QED BY <1>1, ForgottenPage, DisposalKept DEF Pressed

-----------------------------------------------------------------------------
(* The room and the media connection *)

LEMMA PermissionKeeps ==
    ASSUME MicInv, NEW b \in BOOLEAN, PermissionChanges(b)
    PROVE  Kept
  <1>1. /\ held \in BOOLEAN /\ page \in Page /\ Pressed(page, held) /\ held' = held
        /\ page.phase = "in" /\ UNCHANGED task
    BY MicFacts DEF PermissionChanges
  <1>2. CASE b
    <2> DEFINE q == [page EXCEPT !.canSpeak = TRUE]
    <2>1. Apply(q)
      BY <1>2 DEF PermissionChanges
    <2>2. /\ q \in Page /\ SameOwners(page, q) /\ q.ptt = page.ptt /\ q.tail = page.tail
          /\ q.swapping = page.swapping /\ q.ready = page.ready /\ q.room = page.room
          /\ q.phase = page.phase
      BY <1>1 DEF Page, SameOwners
    <2> HIDE DEF q
    <2>3. Pressed(q, held)
      BY <1>1, <2>2 DEF Pressed, SameOwners
    <2> QED BY <1>1, <2>1, <2>2, <2>3, ApplyKept
  <1>3. CASE ~b
    <2> DEFINE s == StopPTT(page)
               q == [s EXCEPT !.canSpeak = FALSE]
    <2>1. Apply(q)
      BY <1>3 DEF PermissionChanges
    <2>2. /\ s \in Page /\ SameOwners(page, s) /\ ~s.ptt
          /\ s.swapping = page.swapping /\ s.ready = page.ready /\ s.room = page.room
          /\ s.phase = page.phase
      BY <1>1, StoppedPage
    <2> HIDE DEF s
    <2>3. /\ q \in Page /\ SameOwners(page, q) /\ ~q.ptt
          /\ q.swapping = page.swapping /\ q.ready = page.ready /\ q.room = page.room
          /\ q.phase = page.phase
      BY <2>2 DEF Page, SameOwners
    <2> HIDE DEF q
    <2>4. Pressed(q, held)
      BY <1>1, <2>3 DEF Pressed, SameOwners
    <2> QED BY <1>1, <2>1, <2>3, <2>4, ApplyKept
  <1> QED BY <1>2, <1>3

\* The gate is closed, whatever the page wishes.
LEMMA LinkFailsKeeps ==
    ASSUME MicInv, LinkFails
    PROVE  Kept
  <1> DEFINE s == StopPTT(page)
             q == [s EXCEPT !.link = "down"]
  <1>1. /\ held \in BOOLEAN /\ page \in Page /\ Pressed(page, held) /\ held' = held
        /\ MicState(page, held, task, track) /\ Owned(page, task, track) /\ Sane(track)
        /\ page' = q /\ track' = Closed(page, track) /\ task' = task /\ task \in Tasks
    BY MicFacts DEF LinkFails
  <1>2. /\ s \in Page /\ SameOwners(page, s) /\ ~s.ptt
        /\ s.swapping = page.swapping /\ s.ready = page.ready /\ s.room = page.room
        /\ s.phase = page.phase
    BY <1>1, StoppedPage
  <1> HIDE DEF s
  <1>3. /\ q \in Page /\ SameOwners(page, q) /\ ~q.ptt
        /\ q.swapping = page.swapping /\ q.ready = page.ready /\ q.room = page.room
        /\ q.phase = page.phase
    BY <1>2 DEF Page, SameOwners
  <1> HIDE DEF q
  <1>4. Pressed(q, held)
    BY <1>1, <1>3 DEF Pressed, SameOwners
  <1>5. OnlyMic(page, track, track') /\ (page.mic # None => ~track'[page.mic].wanted)
    BY <1>1, ClosedMoves
  <1>6. Fit(task, track) /\ Newest(page, task)
    BY <1>1 DEF Owned
  <1>7. AllMove(track, track') /\ Fit(task, track')
    BY <1>1, <1>5, <1>6, MicIsGrown DEF OnlyMic
  <1>8. Owned(q, task, track')
    BY <1>1, <1>3, <1>7, QuietOwned
  <1>9. Meant(q, held, track')
    BY <1>3, <1>5 DEF Meant, SameOwners
  <1> QED BY <1>1, <1>4, <1>7, <1>8, <1>9, MovesOpen DEF Kept, MicState

LEMMA LinkRecoversKeeps ==
    ASSUME MicInv, NEW b \in BOOLEAN, LinkRecovers(b)
    PROVE  Kept
  <1> DEFINE s == IF b THEN page ELSE StopPTT(page)
             q == [s EXCEPT !.link = "up", !.canSpeak = b]
  <1>1. /\ held \in BOOLEAN /\ page \in Page /\ Pressed(page, held) /\ held' = held
        /\ MicState(page, held, task, track) /\ Opens(track, track) /\ task' = task
        /\ page.link = "down"
        /\ Apply(q) \/ (~q.ready /\ page' = q /\ UNCHANGED track)
    BY MicFacts DEF LinkRecovers
  <1>2. /\ s \in Page /\ SameOwners(page, s)
        /\ s.ptt => page.ptt /\ s.tail = page.tail
        /\ s.swapping = page.swapping /\ s.ready = page.ready /\ s.room = page.room
        /\ s.phase = page.phase
    BY <1>1, StoppedPage DEF SameOwners
  <1> HIDE DEF s
  <1>3. /\ q \in Page /\ SameOwners(page, q)
        /\ q.ptt => page.ptt /\ q.tail = page.tail
        /\ q.swapping = page.swapping /\ q.ready = page.ready /\ q.room = page.room
        /\ q.phase = page.phase
    BY <1>2 DEF Page, SameOwners
  <1> HIDE DEF q
  <1>4. Pressed(q, held)
    BY <1>1, <1>3 DEF Pressed, SameOwners
  <1>5. CASE Apply(q)
    BY <1>1, <1>3, <1>4, <1>5, ApplyKept
  <1>6. CASE page' = q /\ UNCHANGED track
    <2>1. ~Ought(page, held)
      BY <1>1 DEF Ought
    <2>2. MicState(q, held, task, track)
      BY <1>1, <1>3, <1>4, <2>1, PageKeeps
    <2> QED BY <1>1, <1>6, <2>2 DEF Kept
  <1> QED BY <1>1, <1>5, <1>6

LEMMA ReplaceRoomKeeps ==
    ASSUME MicInv, NEW l \in {"down", "up"}, ReplaceRoom(l)
    PROVE  Kept
  <1> DEFINE d == Forgotten(Disposed(page))
             q == [d EXCEPT !.swapping = TRUE, !.link = l]
  <1>1. /\ page \in Page /\ held \in BOOLEAN /\ held' = held /\ UNCHANGED task
        /\ page.room < MaxRooms
        /\ page' = q /\ track' = Silenced(page, track)
    BY MicFacts DEF ReplaceRoom
  <1>2. /\ d \in Page /\ d.mic = None /\ d.generation = None /\ d.micTask = None
        /\ ~d.ready /\ ~d.ptt /\ d.room = page.room
    BY <1>1, ForgottenPage
  <1> HIDE DEF d
  <1>3. /\ q \in Page /\ q.mic = None /\ q.generation = None /\ q.micTask = None
        /\ ~q.ready /\ ~q.ptt /\ q.room = page.room
    BY <1>2 DEF Page
  <1> HIDE DEF q
  <1> QED BY <1>1, <1>3, DisposalKept

LEMMA NewRoomKeeps ==
    ASSUME MicInv, NewRoom
    PROVE  Kept
  <1> DEFINE q == [page EXCEPT !.swapping = FALSE, !.room = page.room + 1, !.link = "down"]
  <1>1. /\ held \in BOOLEAN /\ page \in Page /\ Pressed(page, held) /\ held' = held
        /\ MicState(page, held, task, track) /\ Opens(track, track) /\ UNCHANGED <<task, track>>
        /\ page.swapping /\ page' = q
    BY MicFacts DEF NewRoom
  <1>2. page.room + 1 \in 1..MaxRooms /\ ~page.ready
    BY <1>1, Bounds DEF Pressed, Page
  <1>3. /\ q \in Page /\ SameOwners(page, q) /\ ~q.swapping /\ q.ready = page.ready
        /\ q.phase = page.phase /\ q.ptt = page.ptt /\ q.tail = page.tail
    BY <1>1, <1>2 DEF Page, SameOwners
  <1> HIDE DEF q
  <1>4. Pressed(q, held)
    BY <1>1, <1>3 DEF Pressed, SameOwners
  <1>5. ~Ought(page, held)
    BY <1>2 DEF Ought
  <1>6. MicState(q, held, task, track)
    BY <1>1, <1>3, <1>4, <1>5, PageKeeps
  <1> QED BY <1>1, <1>6 DEF Kept

LEMMA LeaveRoomKeeps ==
    ASSUME MicInv, LeaveRoom
    PROVE  Kept
  <1> DEFINE d == Disposed(page)
             q == [d EXCEPT !.phase = "closing"]
  <1>1. /\ page \in Page /\ held \in BOOLEAN /\ held' = held /\ UNCHANGED task
        /\ Pressed(page, held) /\ page' = q /\ track' = Silenced(page, track)
    BY MicFacts DEF LeaveRoom
  <1>2. /\ d \in Page /\ d.mic = None /\ d.generation = None /\ d.micTask = page.micTask
        /\ ~d.ready /\ ~d.ptt /\ d.swapping = page.swapping /\ d.room = page.room
    BY <1>1, DisposedPage
  <1> HIDE DEF d
  <1>3. /\ q \in Page /\ q.mic = None /\ q.generation = None /\ q.micTask = page.micTask
        /\ ~q.ready /\ ~q.ptt /\ q.swapping = page.swapping /\ q.room = page.room
    BY <1>2 DEF Page
  <1> HIDE DEF q
  <1> QED BY <1>1, <1>3, DisposalKept DEF Pressed

LEMMA RoomLeftKeeps ==
    ASSUME MicInv, RoomLeft
    PROVE  Kept
  <1> DEFINE q == [page EXCEPT !.phase = "out", !.link = "down", !.swapping = FALSE,
                               !.canSpeak = FALSE, !.muted = FALSE, !.mode = "ptt",
                               !.ptt = FALSE, !.tail = FALSE]
  <1>1. /\ held \in BOOLEAN /\ page \in Page /\ Pressed(page, held) /\ held' = held
        /\ MicState(page, held, task, track) /\ Opens(track, track) /\ UNCHANGED <<task, track>>
        /\ page.phase = "closing" /\ page' = q
    BY MicFacts DEF RoomLeft
  <1>2. page.mic = None
    BY <1>1 DEF Pressed
  <1>3. /\ q \in Page /\ SameOwners(page, q) /\ ~q.swapping /\ q.ready = page.ready /\ ~q.ptt
    BY <1>1 DEF Page, SameOwners
  <1> HIDE DEF q
  <1>4. Pressed(q, held)
    BY <1>2, <1>3 DEF Pressed, SameOwners
  <1>5. MicState(q, held, task, track)
    BY <1>1, <1>2, <1>3, <1>4, PageKeeps
  <1> QED BY <1>1, <1>5 DEF Kept

LEMMA RoomEndsKeeps ==
    ASSUME MicInv, RoomEnds
    PROVE  Kept
  <1> DEFINE d == Forgotten(Disposed(page))
             q == [d EXCEPT !.phase = "ended", !.link = "down", !.swapping = FALSE]
  <1>1. /\ page \in Page /\ held \in BOOLEAN /\ held' = held /\ UNCHANGED task
        /\ page' = q /\ track' = Silenced(page, track)
    BY MicFacts DEF RoomEnds
  <1>2. /\ d \in Page /\ d.mic = None /\ d.generation = None /\ d.micTask = None
        /\ ~d.ready /\ ~d.ptt
    BY <1>1, ForgottenPage
  <1> HIDE DEF d
  <1>3. /\ q \in Page /\ q.mic = None /\ q.generation = None /\ q.micTask = None
        /\ ~q.ready /\ ~q.ptt /\ ~q.swapping
    BY <1>2 DEF Page
  <1> HIDE DEF q
  <1> QED BY <1>1, <1>3, DisposalKept

-----------------------------------------------------------------------------
(* The gate *)

\* One gate moves, and does not forget a slip while its wish stands.
LEMMA OneGateKeeps ==
    ASSUME NEW p, NEW h, NEW tk, NEW tr, MicState(p, h, tk, tr), NEW t \in Task, NEW v,
           Moves(tr[t], v), v.wanted => tr[t].wanted, tr[t].slip => v.slip,
           tk[t].pc \in Young =>
             /\ v.op = tr[t].op /\ v.open = tr[t].open
             /\ v.disposed = tr[t].disposed /\ (v.live => tr[t].live),
           NEW tn, tn = [tr EXCEPT ![t] = v]
    PROVE  MicState(p, h, tk, tn) /\ Opens(tr, tn)
  <1>1. Owned(p, tk, tr) /\ Sane(tr) /\ p \in Page /\ Fit(tk, tr)
    BY DEF MicState, Owned, Typed
  <1>2. AllMove(tr, [tr EXCEPT ![t] = v])
    BY <1>1, OneMoves
  <1>3. AllMove(tr, tn)
    BY <1>2
  <1>4. tn[t] = v /\ \A u \in Task : u # t => tn[u] = tr[u]
    BY <1>1 DEF Sane, Tracks
  <1>5. Fit(tk, tn)
    BY <1>1, <1>4 DEF Fit, Young
  <1>6. SameOwners(p, p)
    BY DEF SameOwners
  <1>7. Owned(p, tk, tn)
    BY <1>1, <1>3, <1>5, <1>6, QuietOwned
  <1>8. p.mic # None => p.mic \in Task
    BY <1>1 DEF Page
  <1>9. Meant(p, h, tn)
    BY <1>4, <1>8 DEF MicState, Meant
  <1> QED BY <1>3, <1>7, <1>9, MovesOpen DEF MicState

\* A gate that works is that of a capture that has come far.
LEMMA WorkingIsGrown ==
    ASSUME MicInv, NEW t \in Task, track[t].op # "idle"
    PROVE  /\ task[t].pc \notin Young
           /\ track[t] \in TrackRecord /\ Sound(track[t])
  <1>1. Owned(page, task, track) /\ Sane(track)
    BY MicFacts
  <1> QED BY <1>1 DEF Owned, Fit, Sane, Tracks

\* The SDK call of a gate returns, and the gate moves.
LEMMA GateKept ==
    ASSUME MicInv, NEW t \in Task, track[t].op # "idle", NEW v, Moves(track[t], v),
           v.wanted => track[t].wanted, track[t].slip => v.slip,
           track' = [track EXCEPT ![t] = v], UNCHANGED <<held, page, task>>
    PROVE  Kept
  <1>1. MicState(page, held, task, track) /\ task[t].pc \notin Young
    BY MicFacts, WorkingIsGrown
  <1>2. MicState(page, held, task, track') /\ Opens(track, track')
    BY <1>1, OneGateKeeps
  <1> QED BY <1>2 DEF Kept

\* The answer to an unmuting leaves wish and slip.
LEMMA AnsweredWish ==
    ASSUME NEW g \in TrackRecord
    PROVE  Answered(g).wanted = g.wanted /\ Answered(g).slip = g.slip
  <1>1. CASE g.disposed
    <2> DEFINE h == Start(g)
    <2>1. Alike(g, h) /\ Answered(g) = [h EXCEPT !.open = FALSE, !.live = FALSE]
      BY <1>1, StartAlike DEF Answered
    <2> HIDE DEF h
    <2> QED BY <2>1 DEF Alike, TrackRecord
  <1>2. CASE ~g.disposed
    <2> DEFINE h == Unmuted(g)
    <2>1. h \in TrackRecord /\ h.wanted = g.wanted /\ h.slip = g.slip
      BY DEF Unmuted, TrackRecord
    <2>2. Answered(g) = IF g.wanted THEN Turned(h) ELSE [h EXCEPT !.op = "muting", !.open = FALSE]
      BY <1>2 DEF Answered
    <2> HIDE DEF h
    <2>3. CASE g.wanted
      BY <2>1, <2>2, <2>3, TurnedAlike DEF Alike
    <2>4. CASE ~g.wanted
      BY <2>1, <2>2, <2>4 DEF TrackRecord
    <2> QED BY <2>3, <2>4
  <1> QED BY <1>1, <1>2

LEMMA UnmuteReturnsKeeps ==
    ASSUME MicInv, NEW t \in Task, UnmuteReturns(t)
    PROVE  Kept
  <1> DEFINE v == Answered(track[t])
  <1>1. /\ track[t].op # "idle" /\ UNCHANGED <<held, page, task>>
        /\ track' = [track EXCEPT ![t] = v]
    BY DEF UnmuteReturns, Answered
  <1>2. track[t] \in TrackRecord /\ Sound(track[t])
    BY <1>1, WorkingIsGrown
  <1>3. Moves(track[t], v) /\ v.wanted = track[t].wanted /\ v.slip = track[t].slip
    BY <1>2, AnsweredMoves, AnsweredWish
  <1> HIDE DEF v
  <1> QED BY <1>1, <1>3, GateKept

LEMMA MuteReturnsKeeps ==
    ASSUME MicInv, NEW t \in Task, MuteReturns(t)
    PROVE  Kept
  <1> DEFINE v == Turned(track[t])
  <1>1. /\ track[t].op # "idle" /\ UNCHANGED <<held, page, task>>
        /\ track' = [track EXCEPT ![t] = v]
    BY DEF MuteReturns
  <1>2. track[t] \in TrackRecord /\ Sound(track[t])
    BY <1>1, WorkingIsGrown
  <1>3. Alike(track[t], v)
    BY <1>2, TurnedAlike
  <1> HIDE DEF v
  <1>4. Moves(track[t], v) /\ v.wanted = track[t].wanted /\ v.slip = track[t].slip
    BY <1>2, <1>3, AlikeMoves DEF Alike
  <1> QED BY <1>1, <1>4, GateKept

\* The error path of a refused operation: the press ends, and a wish that stands slips.
LEMMA OperationFailsKeeps ==
    ASSUME MicInv, NEW t \in Task, NEW caught \in BOOLEAN, OperationFails(t, caught)
    PROVE  Kept
  <1> DEFINE v  == Turned(track[t])
             tr == [track EXCEPT ![t] = v]
             td == Disabled(page, tr)
             ts == Slipped(page, td)
             q  == StopPTT(page)
  <1>1. /\ held \in BOOLEAN /\ page \in Page /\ Pressed(page, held)
        /\ MicState(page, held, task, track) /\ task \in Tasks /\ Sane(track)
        /\ track[t].op # "idle" /\ held' = held /\ task' = task
        /\ IF caught THEN page' = q /\ track' = ts ELSE track' = tr /\ page' = page
    BY MicFacts DEF OperationFails
  <1>2. track[t] \in TrackRecord /\ Sound(track[t]) /\ task[t].pc \notin Young
    BY <1>1, WorkingIsGrown
  <1>3. Alike(track[t], v)
    BY <1>2, TurnedAlike
  <1> HIDE DEF v
  <1>4. Moves(track[t], v) /\ v.wanted = track[t].wanted /\ v.slip = track[t].slip
    BY <1>2, <1>3, AlikeMoves DEF Alike
  <1>5. tr = [track EXCEPT ![t] = v]
    OBVIOUS
  <1>6. \A u \in Task : tr[u].wanted => track[u].wanted
    BY <1>1, <1>4 DEF Sane, Tracks
  <1>7. td = Disabled(page, tr) /\ ts = Slipped(page, td)
    OBVIOUS
  <1> HIDE DEF tr, td, ts
  <1>8. MicState(page, held, task, tr) /\ Opens(track, tr)
    BY <1>1, <1>2, <1>4, <1>5, OneGateKeeps
  <1>9. CASE caught
    <2>1. Owned(page, task, tr) /\ Sane(tr)
      BY <1>8 DEF MicState, Owned, Typed
    <2>2. OnlyMic(page, tr, td) /\ \A u \in Task : td[u].wanted = tr[u].wanted
      BY <1>1, <1>7, <2>1, DisabledMoves
    <2>3. Sane(td)
      BY <2>2, MovedSane DEF OnlyMic
    <2>4. /\ OnlyMic(page, td, ts)
          /\ page.mic # None /\ ts[page.mic].wanted => ts[page.mic].slip
          /\ \A u \in Task : ts[u].wanted = td[u].wanted
      BY <1>1, <1>7, <2>3, SlippedMoves
    <2>5. SameOwners(page, page)
      BY DEF SameOwners
    <2>6. Fit(task, td) /\ AllMove(tr, td)
      BY <1>1, <2>1, <2>2, MicIsGrown DEF Owned, OnlyMic
    <2>7. Owned(page, task, td)
      BY <1>1, <2>1, <2>5, <2>6, QuietOwned
    <2>8. Fit(task, ts) /\ AllMove(td, ts)
      BY <1>1, <2>4, <2>7, MicIsGrown DEF Owned, OnlyMic
    <2>9. /\ q \in Page /\ SameOwners(page, q) /\ ~q.ptt
          /\ q.swapping = page.swapping /\ q.ready = page.ready /\ q.room = page.room
          /\ q.phase = page.phase
      BY <1>1, StoppedPage
    <2> HIDE DEF q
    <2>10. Owned(q, task, ts)
      BY <2>7, <2>8, <2>9, QuietOwned
    <2>11. Pressed(q, held)
      BY <1>1, <2>9 DEF Pressed, SameOwners
    <2>12. Meant(q, held, ts)
      BY <2>4, <2>9 DEF Meant, SameOwners
    <2>13. Opens(track, ts)
      BY <1>6, <2>2, <2>8 DEF AllMove, Moves, Opens
    <2> QED BY <1>1, <1>9, <2>10, <2>11, <2>12, <2>13 DEF Kept, MicState, q
  <1>10. CASE ~caught
    BY <1>1, <1>8, <1>10 DEF Kept
  <1> QED BY <1>9, <1>10

\* A device is let go of.
Lost(tr, t) == [tr EXCEPT ![t].live = FALSE]

LEMMA LosingKeeps ==
    ASSUME NEW p, NEW h, NEW tk, NEW tr, MicState(p, h, tk, tr), NEW t \in Task,
           NEW tn, tn = Lost(tr, t)
    PROVE  /\ MicState(p, h, tk, tn) /\ AllMove(tr, tn) /\ ~tn[t].live
           /\ \A u \in Task : u # t => tn[u] = tr[u]
           /\ \A u \in Task :
                tn[u].open = tr[u].open /\ tn[u].wanted = tr[u].wanted /\ tn[u].slip = tr[u].slip
  <1> DEFINE v == [tr[t] EXCEPT !.live = FALSE]
  <1>1. tr \in Tracks /\ tr[t] \in TrackRecord /\ Sound(tr[t]) /\ Sane(tr)
    BY DEF MicState, Owned, Typed, Sane, Tracks
  <1>2. /\ v.wanted = tr[t].wanted /\ v.slip = tr[t].slip
        /\ v.op = tr[t].op /\ v.open = tr[t].open /\ v.disposed = tr[t].disposed /\ ~v.live
        /\ v \in TrackRecord
    BY <1>1 DEF TrackRecord
  <1>3. Moves(tr[t], v)
    BY <1>1, <1>2 DEF Moves, Sound, Dark
  <1>4. tn = [tr EXCEPT ![t] = v]
    BY DEF Lost
  <1> HIDE DEF v
  <1>5. MicState(p, h, tk, tn)
    BY <1>2, <1>3, <1>4, OneGateKeeps
  <1>6. AllMove(tr, [tr EXCEPT ![t] = v])
    BY <1>1, <1>3, OneMoves
  <1>7. tn[t] = v /\ \A u \in Task : u # t => tn[u] = tr[u]
    BY <1>1, <1>4 DEF Tracks
  <1> QED BY <1>2, <1>4, <1>5, <1>6, <1>7

LEMMA DeviceLostKeeps ==
    ASSUME MicInv, NEW t \in Task, DeviceLost(t)
    PROVE  Kept
  <1>1. /\ held \in BOOLEAN /\ page \in Page /\ Pressed(page, held)
        /\ MicState(page, held, task, track)
        /\ held' = held /\ task' = task
    BY MicFacts DEF DeviceLost
  <1>2. CASE page' = page /\ track' = Lost(track, t)
    <2>1. MicState(page, held, task, track') /\ AllMove(track, track')
      BY <1>1, <1>2, LosingKeeps
    <2> QED BY <1>1, <1>2, <2>1, MovesOpen DEF Kept
  <1>3. CASE /\ page' = Disposed(page)
             /\ track' = Lost(Silenced(page, track), t)
    <2> DEFINE tr == Silenced(page, track)
               q  == Disposed(page)
    <2>1. /\ q \in Page /\ q.mic = None /\ q.generation = None /\ q.micTask = page.micTask
          /\ ~q.ready /\ ~q.ptt /\ q.swapping = page.swapping /\ q.room = page.room
      BY <1>1, DisposedPage
    <2>2. tr = Silenced(page, track) /\ page' = q /\ track' = Lost(tr, t)
      BY <1>3
    <2> HIDE DEF tr, q
    <2>3. q.swapping => q.room < MaxRooms
      BY <1>1, <2>1 DEF Pressed
    <2>4. MicState(q, held, task, tr) /\ Opens(track, tr)
      BY <1>1, <2>1, <2>2, <2>3, DisposedKeeps
    <2>5. /\ MicState(q, held, task, track')
          /\ \A u \in Task : track'[u].open = tr[u].open
      BY <2>2, <2>4, LosingKeeps
    <2>6. Opens(track, track')
      BY <2>4, <2>5 DEF Opens
    <2> QED BY <1>1, <2>2, <2>5, <2>6 DEF Kept
  <1> QED BY <1>2, <1>3 DEF DeviceLost, Lost

-----------------------------------------------------------------------------
(* A capture *)

\* A capture that is young is not the page's microphone.
LEMMA YoungIsNoMic ==
    ASSUME MicInv, NEW t \in Task, task[t].pc \in Young
    PROVE  /\ page.mic # t /\ track[t] \in TrackRecord
           /\ ~track[t].wanted /\ ~track[t].open
           /\ task[t].pc = "request" => Dark(track[t])
  <1>1. Owned(page, task, track) /\ t # None
    BY MicFacts, Bounds
  <1>2. page.mic # t
    BY <1>1 DEF Owned, Newest
  <1>3. track[t] \in TrackRecord
    BY <1>1 DEF Owned, Typed, Sane, Tracks
  <1>4. ~track[t].wanted /\ ~track[t].open /\ (task[t].pc = "request" => Dark(track[t]))
    BY <1>1 DEF Owned, Fit, Dark
  <1> QED BY <1>2, <1>3, <1>4

LEMMA GrantedKeeps ==
    ASSUME MicInv, NEW t \in Task, Granted(t)
    PROVE  Kept
  <1>1. /\ held \in BOOLEAN /\ page \in Page /\ Pressed(page, held) /\ Sane(track)
        /\ MicState(page, held, task, track) /\ Owned(page, task, track)
        /\ held' = held /\ task[t].pc = "request"
    BY MicFacts DEF Granted
  <1>2. page.mic # t /\ Dark(track[t]) /\ track[t].op = track[t].op
    BY <1>1, YoungIsNoMic DEF Young
  <1>3. CASE Current(t)
    <2>1. /\ task' = Went(task, t, "import") /\ page' = page
          /\ track' = Arrived(track, t)
      BY <1>3 DEF Granted, Step, Went, Arrived
    <2>2. Owned(page, task', track') /\ \A u \in Task : track'[u].open = track[u].open
      BY <1>1, <2>1, GrantOwned
    <2>3. Opens(track, track')
      BY <1>1, <2>2 DEF Opens, Sane, Sound
    <2>4. page.mic # None => page.mic \in Task /\ track'[page.mic] = track[page.mic]
      BY <1>1, <1>2, <2>1 DEF Page, Sane, Tracks, Arrived
    <2>5. Meant(page, held, track')
      BY <1>1, <2>4 DEF Meant, MicState
    <2> QED BY <1>1, <2>1, <2>2, <2>3, <2>5 DEF Kept, MicState
  <1>4. CASE ~Current(t)
    <2>1. Finish(t, page, track, TRUE) /\ TRUE \in BOOLEAN
      BY <1>4 DEF Granted
    <2> QED BY <1>1, <1>2, <2>1, FinishKeeps DEF Kept
  <1> QED BY <1>3, <1>4

LEMMA ImportedKeeps ==
    ASSUME MicInv, NEW t \in Task, Imported(t)
    PROVE  Kept
  <1>1. /\ held \in BOOLEAN /\ page \in Page /\ Pressed(page, held) /\ Sane(track)
        /\ MicState(page, held, task, track) /\ Owned(page, task, track)
        /\ Opens(track, track) /\ held' = held /\ task[t].pc = "import"
    BY MicFacts DEF Imported
  <1>2. page.mic # t /\ ~track[t].wanted
    BY <1>1, YoungIsNoMic DEF Young
  <1>3. CASE Current(t)
    <2> DEFINE q == [page EXCEPT !.mic = t]
    <2>1. /\ task' = Went(task, t, "publish") /\ page' = q /\ track' = track
          /\ page.generation = t /\ page.phase = "in"
      BY <1>3 DEF Imported, Step, Current, Went
    <2>2. Owned(q, task', track)
      BY <1>1, <2>1, ImportOwned
    <2>3. /\ q.mic = t /\ q.phase = page.phase /\ q.swapping = page.swapping
          /\ q.ready = page.ready /\ q.room = page.room /\ q.ptt = page.ptt /\ q.tail = page.tail
      BY <1>1 DEF Page
    <2> HIDE DEF q
    <2>4. Pressed(q, held) /\ Meant(q, held, track)
      BY <1>1, <1>2, <2>1, <2>3 DEF Pressed, Meant
    <2> QED BY <1>1, <2>1, <2>2, <2>4 DEF Kept, MicState
  <1>4. CASE ~Current(t)
    <2> DEFINE tr == Lost(track, t)
    <2>1. Finish(t, page, tr, TRUE) /\ TRUE \in BOOLEAN /\ tr = Lost(track, t)
      BY <1>4 DEF Imported, Lost
    <2> HIDE DEF tr
    <2>2. /\ MicState(page, held, task, tr) /\ ~tr[t].live
          /\ \A u \in Task : tr[u].wanted = track[u].wanted
      BY <1>1, <2>1, LosingKeeps
    <2>3. Dark(tr[t]) /\ task[t].pc \notin {"unused", "done"}
      BY <1>1, <2>2 DEF Dark
    <2>4. MicState(page', held, task', track') /\ Opens(tr, track')
      BY <2>1, <2>2, <2>3, FinishKeeps
    <2>5. Opens(track, track')
      BY <2>2, <2>4 DEF Opens
    <2> QED BY <1>1, <2>4, <2>5 DEF Kept
  <1> QED BY <1>3, <1>4

LEMMA PublishedKeeps ==
    ASSUME MicInv, NEW t \in Task, Published(t)
    PROVE  Kept
  <1>1. /\ held \in BOOLEAN /\ page \in Page /\ Pressed(page, held) /\ Sane(track)
        /\ MicState(page, held, task, track) /\ Owned(page, task, track)
        /\ Opens(track, track) /\ held' = held /\ task[t].pc = "publish"
        /\ OnlyMic(page, track, track) /\ SameOwners(page, page)
    BY MicFacts, NoneMoves DEF Published, Step, SameOwners
  <1>2. task[t].pc \notin {"unused", "done"}
    BY <1>1
  <1>3. CASE Current(t)
    <2> DEFINE q == [page EXCEPT !.ready = TRUE]
    <2>1. /\ task' = Went(task, t, "refresh") /\ page' = q /\ track' = track
          /\ ~page.swapping
      BY <1>3 DEF Published, Step, Current, Went
    <2>2. /\ q \in Page /\ SameOwners(page, q) /\ q.ready
          /\ q.phase = page.phase /\ q.swapping = page.swapping
          /\ q.room = page.room /\ q.ptt = page.ptt /\ q.tail = page.tail
          /\ q.link = page.link /\ q.canSpeak = page.canSpeak /\ q.muted = page.muted
          /\ q.mode = page.mode
      BY <1>1 DEF Page, SameOwners
    <2> HIDE DEF q
    <2>3. AllMove(track, track)
      BY <1>1 DEF OnlyMic
    <2>4. Owned(q, task', track)
      BY <1>1, <1>2, <2>1, <2>2, <2>3, StepOwned
    <2>5. Pressed(q, held)
      BY <1>1, <2>1, <2>2 DEF Pressed, SameOwners
    <2>6. Meant(q, held, track)
      BY <1>1, <2>2 DEF Meant, MicState, SameOwners, Ought
    <2> QED BY <1>1, <2>1, <2>4, <2>5, <2>6 DEF Kept, MicState
  <1>4. CASE ~Current(t)
    <2> DEFINE v == GateDispose(track[t])
               tn == [track EXCEPT ![t] = v]
    <2>1. /\ task' = Went(task, t, "releasing") /\ page' = page /\ track' = tn
      BY <1>4 DEF Published, Step, Went
    <2>2. track[t] \in TrackRecord
      BY <1>1 DEF Sane, Tracks
    <2>3. Moves(track[t], v) /\ v.disposed /\ ~v.wanted
      BY <2>2, GateDisposeMoves DEF Moves, Sound
    <2>4. tn = [track EXCEPT ![t] = v]
      OBVIOUS
    <2> HIDE DEF v, tn
    <2>5. AllMove(track, [track EXCEPT ![t] = v])
      BY <1>1, <2>3, OneMoves
    <2>6. AllMove(track, tn) /\ tn[t] = v /\ \A u \in Task : u # t => tn[u] = track[u]
      BY <1>1, <2>4, <2>5 DEF Sane, Tracks
    <2>7. Owned(page, task', tn)
      BY <1>1, <1>2, <2>1, <2>3, <2>6, StepOwned
    <2>8. page.mic # None => page.mic \in Task
      BY <1>1 DEF Page
    <2>9. Meant(page, held, tn)
      BY <1>1, <2>3, <2>6, <2>8 DEF Meant, MicState
    <2> QED BY <1>1, <2>1, <2>6, <2>7, <2>9, MovesOpen DEF Kept, MicState
  <1> QED BY <1>3, <1>4

\* A new microphone learns of the wish, and the capture waits for its gate.
LEMMA RefreshedKeeps ==
    ASSUME MicInv, NEW t \in Task, Refreshed(t)
    PROVE  Kept
  <1> DEFINE a == Applied(page, track)
             v == Awaited(a[t])
  <1>1. /\ held \in BOOLEAN /\ page \in Page /\ Pressed(page, held) /\ Sane(track)
        /\ MicState(page, held, task, track) /\ Owned(page, task, track)
        /\ held' = held /\ page' = page
        /\ task[t].pc = "refresh" /\ task' = Went(task, t, "apply")
        /\ track' = IF page.mic = t THEN [a EXCEPT ![t] = v] ELSE a
    BY MicFacts DEF Refreshed, Step, Went
  <1>2. a = Applied(page, track) /\ SameOwners(page, page)
    BY DEF SameOwners
  <1>3. v = Awaited(a[t])
    OBVIOUS
  <1> HIDE DEF a, v
  <1>4. OnlyMic(page, track, a)
    BY <1>1, <1>2, AppliedMoves
  <1>5. Meant(page, held, a)
    BY <1>1, <1>2, AppliedMeant
  <1>6. AllMove(track, a) /\ Sane(a) /\ Opens(track, a)
    BY <1>4, MovedSane, MovesOpen DEF OnlyMic
  <1>7. \A u \in Task : task[u].pc \in Young /\ u # t => a[u] = track[u]
    BY <1>1, <1>4, YoungIsNoMic DEF OnlyMic
  <1>8. task[t].pc \notin {"unused", "done"}
    BY <1>1
  <1>9. Owned(page, task', a)
    BY <1>1, <1>2, <1>6, <1>7, <1>8, StepOwned
  <1>10. MicState(page, held, task', a)
    BY <1>1, <1>5, <1>9 DEF MicState
  <1>11. CASE page.mic = t
    <2>1. a \in Tracks /\ a[t] \in TrackRecord /\ Sound(a[t])
      BY <1>6 DEF Sane, Tracks
    <2> DEFINE n == IF a[t].op = "idle" THEN 0 ELSE a[t].pending + 1
    <2>2. n \in 0..(QueueBound + 1)
      BY <2>1, Bounds DEF TrackRecord
    <2>3. v = [a[t] EXCEPT !.before = n]
      BY <1>3 DEF Awaited
    <2> HIDE DEF n
    <2>4. Alike(a[t], v) /\ v.open = a[t].open /\ v.op = a[t].op
      BY <2>1, <2>2, <2>3 DEF Alike, TrackRecord
    <2>5. /\ Moves(a[t], v) /\ v.wanted = a[t].wanted /\ v.slip = a[t].slip
          /\ v.live = a[t].live /\ v.disposed = a[t].disposed
      BY <2>1, <2>4, AlikeMoves DEF Alike
    <2>6. track' = [a EXCEPT ![t] = v]
      BY <1>1, <1>11
    <2>7. MicState(page, held, task', track') /\ Opens(a, track')
      BY <1>10, <2>4, <2>5, <2>6, OneGateKeeps
    <2>8. \A u \in Task : track'[u].open = a[u].open
      BY <2>1, <2>4, <2>6 DEF Tracks
    <2>9. Opens(track, track')
      BY <1>6, <2>8 DEF Opens
    <2> QED BY <1>1, <2>7, <2>9 DEF Kept
  <1>12. CASE page.mic # t
    BY <1>1, <1>6, <1>10, <1>12 DEF Kept
  <1> QED BY <1>11, <1>12

LEMMA FinishedKeeps ==
    ASSUME MicInv, NEW t \in Task, Finished(t)
    PROVE  Kept
  <1>1. /\ MicState(page, held, task, track) /\ Owned(page, task, track) /\ Sane(track)
        /\ held' = held /\ task[t].pc \in {"releasing", "apply"}
        /\ Finish(t, page, track, TRUE) /\ TRUE \in BOOLEAN
    BY MicFacts DEF Finished
  <1>2. task[t].pc = "releasing" => Dark(track[t])
    BY <1>1 DEF Owned, Devices, Sane, Sound, Dark
  <1>3. task[t].pc = "apply" \/ (task[t].pc \notin {"unused", "done"} /\ Dark(track[t]))
    BY <1>1, <1>2
  <1> QED BY <1>1, <1>3, FinishKeeps DEF Kept

LEMMA FailsKeeps ==
    ASSUME MicInv, NEW t \in Task, Fails(t)
    PROVE  Kept
  <1>1. /\ held \in BOOLEAN /\ page \in Page /\ Pressed(page, held) /\ Sane(track)
        /\ MicState(page, held, task, track) /\ Owned(page, task, track)
        /\ held' = held /\ page' = page
        /\ task[t].pc \notin {"unused", "done"} /\ task' = Went(task, t, "failing")
        /\ track' = Lost(track, t) /\ SameOwners(page, page)
    BY MicFacts DEF Fails, Went, Lost, SameOwners
  <1>2. /\ MicState(page, held, task, track') /\ AllMove(track, track') /\ ~track'[t].live
        /\ \A u \in Task : u # t => track'[u] = track[u]
    BY <1>1, LosingKeeps
  <1>3. Dark(track'[t])
    BY <1>2 DEF Dark
  <1>4. Owned(page, task', track')
    BY <1>1, <1>2, <1>3, StepOwned
  <1> QED BY <1>1, <1>2, <1>4, MovesOpen DEF Kept, MicState

\* The failure of a capture that is still the page's withdraws its wish, not that of a gate.
LEMMA FailedKeeps ==
    ASSUME MicInv, NEW t \in Task, Failed(t)
    PROVE  Kept
  <1>1. /\ held \in BOOLEAN /\ page \in Page /\ Pressed(page, held) /\ Sane(track)
        /\ MicState(page, held, task, track) /\ Owned(page, task, track)
        /\ held' = held /\ task[t].pc = "failing" /\ FALSE \in BOOLEAN /\ task \in Tasks
    BY MicFacts DEF Failed
  <1>2. CASE Current(t)
    <2> DEFINE s == StopPTT(page)
               q == [s EXCEPT !.ready = FALSE]
               tr == Slipped(page, track)
    <2>1. Finish(t, q, tr, FALSE) /\ tr = Slipped(page, track)
          /\ page.generation = t
      BY <1>2 DEF Failed, Current
    <2>2. /\ s \in Page /\ SameOwners(page, s) /\ ~s.ptt
          /\ s.swapping = page.swapping /\ s.room = page.room /\ s.phase = page.phase
      BY <1>1, StoppedPage
    <2> HIDE DEF s
    <2>3. /\ q \in Page /\ SameOwners(page, q) /\ ~q.ptt /\ ~q.ready
          /\ q.swapping = page.swapping /\ q.room = page.room /\ q.phase = page.phase
      BY <2>2 DEF Page, SameOwners
    <2> HIDE DEF q, tr
    <2>4. /\ OnlyMic(page, track, tr)
          /\ page.mic # None /\ tr[page.mic].wanted => tr[page.mic].slip
          /\ \A u \in Task : tr[u].wanted = track[u].wanted
      BY <1>1, <2>1, SlippedMoves
    <2>5. SameOwners(page, page) /\ Fit(task, tr) /\ AllMove(track, tr)
      BY <1>1, <2>4, MicIsGrown DEF Owned, OnlyMic, SameOwners
    <2>6. Owned(page, task, tr)
      BY <1>1, <2>5, QuietOwned
    <2>7. Owned(q, task, tr)
      BY <1>1, <2>1, <2>3, <2>6, UnreadyOwned
    <2>8. Pressed(q, held) /\ Meant(q, held, tr)
      BY <1>1, <2>3, <2>4 DEF Pressed, Meant, SameOwners
    <2>9. MicState(q, held, task, tr)
      BY <1>1, <2>7, <2>8 DEF MicState
    <2>10. Dark(tr[t])
      BY <1>1, <2>6 DEF Owned, Devices
    <2>11. task[t].pc \notin {"unused", "done"}
      BY <1>1
    <2>12. MicState(page', held, task', track') /\ Opens(tr, track')
      BY <1>1, <2>1, <2>9, <2>10, <2>11, FinishKeeps
    <2>13. Opens(track, track')
      BY <2>4, <2>12 DEF Opens
    <2> QED BY <1>1, <2>12, <2>13 DEF Kept
  <1>3. CASE ~Current(t)
    <2>1. Finish(t, page, track, FALSE)
      BY <1>3 DEF Failed
    <2>2. Dark(track[t]) /\ task[t].pc \notin {"unused", "done"}
      BY <1>1 DEF Owned, Devices
    <2> QED BY <1>1, <2>1, <2>2, FinishKeeps DEF Kept
  <1> QED BY <1>2, <1>3

-----------------------------------------------------------------------------
(* The theorems *)

LEMMA InitMic == Init => MicInv
  <1> SUFFICES ASSUME Init PROVE MicInv
    OBVIOUS
  <1>1. /\ 1 \in 1..MaxRooms /\ 0 \in 0..QueueBound /\ 0 \in 0..(QueueBound + 1)
        /\ 0 \in 0..MaxUpsets
    BY Bounds
  <1>2. /\ page \in Page /\ page.mic = None /\ page.generation = None /\ page.micTask = None
        /\ ~page.swapping /\ ~page.ptt
    BY <1>1 DEF Init, Page
  <1>3. task \in Tasks /\ \A t \in Task : task[t].pc = "unused"
    BY <1>1 DEF Init, Tasks, TaskRecord
  <1>4. track \in Tracks
    BY <1>1 DEF Init, Tracks, TrackRecord
  <1>5. \A t \in Task :
          /\ ~track[t].live /\ ~track[t].open /\ ~track[t].wanted /\ ~track[t].disposed
          /\ track[t].op = "idle"
    BY DEF Init
  <1>6. Sane(track) /\ Fit(task, track)
    BY <1>3, <1>4, <1>5 DEF Sane, Sound, Fit
  <1>7. Newest(page, task) /\ Devices(page, task, track)
    BY <1>2, <1>3 DEF Newest, Devices
  <1>8. Pressed(page, held) /\ Meant(page, held, track) /\ page.phase = "in"
    BY <1>2 DEF Pressed, Meant, Init
  <1> QED BY <1>1, <1>2, <1>3, <1>6, <1>7, <1>8 DEF Init, MicInv, MicState, Owned, Typed

LEMMA TalkingKeeps ==
    ASSUME MicInv, Talking
    PROVE  Kept
  BY PressKeeps, HideKeeps, TailEndsKeeps, EnableKeeps, ReleaseKeeps, LinkRecoversKeeps,
     NewRoomKeeps, LeaveRoomKeeps, RoomLeftKeeps, RoomEndsKeeps
     DEF Talking

LEMMA UpsetKeeps ==
    ASSUME MicInv, Upset
    PROVE  Kept
  BY ToggleMuteKeeps, ChangeInputKeeps, PageHideKeeps, LinkFailsKeeps, ChooseModeKeeps,
     PermissionKeeps, ReplaceRoomKeeps, DeviceLostKeeps, FailsKeeps, OperationFailsKeeps
     DEF Upset

LEMMA CaptureKeeps ==
    ASSUME MicInv, NEW t \in Task, Capture(t) \/ Gate(t)
    PROVE  Kept
  BY GrantedKeeps, ImportedKeeps, PublishedKeeps, RefreshedKeeps, FinishedKeeps, FailedKeeps,
     UnmuteReturnsKeeps, MuteReturnsKeeps
     DEF Capture, Gate

\* The invariant is inductive, and no step opens a gate that had no wish.
LEMMA NextMic ==
    ASSUME MicInv, [Next]_vars
    PROVE  MicInv' /\ Opens(track, track')
  <1>1. CASE UNCHANGED vars
    <2>1. /\ held' = held /\ page' = page /\ task' = task /\ track' = track /\ upsets' = upsets
      BY <1>1 DEF vars
    <2>2. upsets \in 0..MaxUpsets /\ MicState(page, held, task, track) /\ Opens(track, track)
      BY MicFacts DEF MicInv
    <2>3. upsets' \in 0..MaxUpsets /\ MicState(page', held', task', track') /\ Opens(track, track')
      BY <2>1, <2>2
    <2> QED BY <2>3 DEF MicInv
  <1>2. CASE Next
    <2>1. Kept
      BY <1>2, TalkingKeeps, UpsetKeeps, CaptureKeeps DEF Next
    <2>2. upsets' \in 0..MaxUpsets
      BY <1>2, Bounds DEF Next, MicInv
    <2>3. MicState(page', held', task', track') /\ Opens(track, track')
      BY <2>1 DEF Kept
    <2> QED BY <2>2, <2>3 DEF MicInv
  <1> QED BY <1>1, <1>2

LEMMA MicInvariant == Spec => []MicInv
  <1>1. MicInv /\ [Next]_vars => MicInv'
    BY NextMic
  <1> QED BY <1>1, InitMic, PTL DEF Spec

\* The page, the captures and the gates keep their shape.
THEOREM TypeCorrect == Spec => []TypeOK
  <1>1. MicInv => TypeOK
    BY MicFacts DEF MicInv, TypeOK, Tasks, Sane, Tracks
  <1> QED BY <1>1, MicInvariant, PTL

\* A device is captured only by the page's microphone, by a capture that still runs, or
\* because the SDK captured it again: whatever initializeAudioDevices was waiting for when
\* its microphone was disposed of, its device is released.
THEOREM DevicesAreOwned == Spec => []CapturedDeviceIsOwned
  <1>1. ASSUME MicInv
        PROVE  CapturedDeviceIsOwned
    <2>1. Fit(task, track) /\ Devices(page, task, track)
      BY <1>1, MicFacts DEF Owned
    <2> SUFFICES ASSUME NEW t \in Task, track[t].live
                 PROVE  t = page.mic \/ task[t].pc \notin {"unused", "done"} \/ track[t].again
      BY DEF CapturedDeviceIsOwned
    <2> QED BY <2>1 DEF Fit, Devices, Dark
  <1> QED BY <1>1, MicInvariant, PTL

\* Nobody is heard who is not meant to be: whoever is on air holds the button, lets the tail
\* of a press end, or speaks automatically, with the permission and a connection; except
\* after an error path that left the wish of the gate, and for a stray device.
THEOREM NobodyElseIsHeard == Spec => []HeardOnlyWhenMeant
  <1>1. ASSUME MicInv
        PROVE  HeardOnlyWhenMeant
    <2>1. /\ Fit(task, track) /\ Devices(page, task, track) /\ Sane(track) /\ task \in Tasks
          /\ Meant(page, held, track)
      BY <1>1, MicFacts DEF Owned, MicState
    <2> SUFFICES ASSUME NEW t \in Task, OnAir(t)
                 PROVE  track[t].slip \/ Stray(t) \/ (t = page.mic /\ MayBeHeard)
      BY DEF HeardOnlyWhenMeant
    <2>2. track[t].live /\ track[t].open /\ track[t].wanted /\ ~track[t].disposed
      BY <2>1 DEF OnAir, Sane, Sound
    <2>3. CASE t = page.mic
      <3>1. track[t].slip \/ Ought(page, held)
        BY <2>1, <2>2, <2>3, Bounds DEF Meant
      <3> QED BY <2>3, <3>1 DEF Ought, MayBeHeard
    <2>4. CASE t # page.mic
      <3>1. task[t].pc \notin Young
        BY <2>1, <2>2 DEF Fit
      <3>2. task[t].pc \in {"unused", "request", "import", "publish", "refresh", "apply",
                            "releasing", "failing", "done"}
        BY <2>1 DEF Tasks, TaskRecord
      <3>3. Dark(track[t])
        BY <2>1, <2>2, <2>4, <3>1, <3>2 DEF Devices, Young
      <3> QED BY <2>2, <2>4, <3>3 DEF Dark, Stray
    <2> QED BY <2>3, <2>4
  <1> QED BY <1>1, MicInvariant, PTL

\* The gates in front of the microphones implement the switch of TalkSwitch: somebody comes on
\* air only for a wish that stood before the step, and the step that withdraws the last wish
\* is the one that ends it.
THEOREM SwitchImplemented == Spec => ImplementsSwitch
  <1> DEFINE wish == \E t \in Task : track[t].wanted
             air  == \E t \in Task : OnAir(t)
  <1>1. Init => Switch!Init
    BY DEF Init, Switch!Init, OnAir
  <1>2. ASSUME MicInv, [Next]_vars
        PROVE  [Switch!Next]_<<wish, air>>
    <2>1. MicInv' /\ Opens(track, track')
      BY <1>2, NextMic
    <2>2. Sane(track')
      BY <2>1 DEF MicInv, MicState, Owned, Typed
    <2>3. \A t \in Task : OnAir(t)' => track'[t].wanted /\ track[t].wanted
      BY <2>1, <2>2 DEF OnAir, Opens, Sane, Sound
    <2>4. air' => wish' /\ wish
      BY <2>3
    <2>5. wish \in BOOLEAN /\ air \in BOOLEAN /\ wish' \in BOOLEAN /\ air' \in BOOLEAN
      OBVIOUS
    <2>6. CASE ~air'
      BY <2>5, <2>6 DEF Switch!Next, Switch!Close
    <2>7. CASE air'
      BY <2>4, <2>5, <2>7 DEF Switch!Next, Switch!Ask, Switch!Open
    <2> QED BY <2>6, <2>7
  <1>3. Switch!Init /\ [][Switch!Next]_<<wish, air>> => ImplementsSwitch
    BY DEF ImplementsSwitch, Switch!Spec
  <1> QED BY <1>1, <1>2, <1>3, MicInvariant, PTL DEF Spec
=============================================================================
