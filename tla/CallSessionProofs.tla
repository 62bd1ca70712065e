-------------------------- MODULE CallSessionProofs --------------------------
(***************************************************************************)
(* Theorems about CallSession, for every value of its constants.           *)
(*                                                                         *)
(* Most lemmas are about a page w and what an operator of the source makes *)
(* of it; the theorems put them together, one action at a time.            *)
(***************************************************************************)
EXTENDS CallSession, WellFoundedInduction, TLAPS

-----------------------------------------------------------------------------
(* The inductive invariant *)

\* The pages, and what the server says of the members.
PageRecord == [active: Stay \cup {None}, stay: [Stay -> StayRecord],
               channel: [Channel -> ChannelRecord], room: [MediaRoom -> RoomRecord],
               job: [Job -> JobRecord]]
ServerRecord == [Stay -> [member: {"in", "left", "ended"}, lost: BOOLEAN]]

\* A stay's socket is an open channel of its own whose end will be noticed, and a call of
\* connectEvents waits for a channel that nobody else waits for.
Wired(w) ==
    /\ \A s \in Stay : w.stay[s].socket # None =>
          /\ w.channel[w.stay[s].socket].state = "open"
          /\ w.channel[w.stay[s].socket].listened
          /\ w.channel[w.stay[s].socket].stay = s
    /\ \A j \in Job : w.job[j].kind = "connect" =>
          /\ w.job[j].channel \in Channel
          /\ w.channel[w.job[j].channel].state = "connecting"
          /\ w.channel[w.job[j].channel].stay = w.job[j].stay
    /\ \A j, k \in Job :
          w.job[j].kind = "connect" /\ w.job[k].kind = "connect" /\ w.job[j].channel = w.job[k].channel
          => j = k

\* A stay's room is one of its own, and a call of connectMedia connects a room that
\* nobody else connects.
Housed(w) ==
    /\ \A s \in Stay : w.stay[s].room # None =>
          /\ w.room[w.stay[s].room].stay = s
          /\ w.room[w.stay[s].room].state \notin {"free", "aborted"}
    /\ \A j \in Job : w.job[j].kind = "join" =>
          /\ w.job[j].room \in MediaRoom
          /\ w.room[w.job[j].room].stay = w.job[j].stay
          /\ w.room[w.job[j].room].state \in {"new", "aborted"}
    /\ \A j, k \in Job :
          w.job[j].kind = "join" /\ w.job[k].kind = "join" /\ w.job[j].room = w.job[k].room => j = k

\* LeavingIsQuiet, of a page; the room of a stay ends for it only with the stay.
Calm(w) ==
    \A s \in Stay :
        /\ w.stay[s].ended => w.stay[s].leaving
        /\ w.stay[s].leaving =>
              ~w.stay[s].events /\ ~w.stay[s].media /\ ~w.stay[s].full /\ w.stay[s].socket = None

\* Only a stay that was entered is active or resumes its session.
Entered(w) ==
    /\ w.active # None => w.stay[w.active].entered
    /\ \A s \in Stay : w.stay[s].full => w.stay[s].entered
    /\ \A j \in Job : w.job[j].kind \in {"resume", "resumed"} => w.stay[w.job[j].stay].entered

\* TokenIsCurrent, of a page; while an answer with the newest token of a stay is on its
\* way, nobody else holds that token.
Tokens(w, sv) ==
    /\ \A s \in Stay : w.stay[s].entered =>
          \/ w.stay[s].current \/ sv[s].lost
          \/ \E j \in Job : w.job[j].kind = "resumed" /\ w.job[j].stay = s
    /\ \A j \in Job : w.job[j].kind = "resumed" =>
          /\ w.job[j].current /\ ~w.stay[w.job[j].stay].current
          /\ \A k \in Job : k # j /\ w.job[k].stay = w.job[j].stay => ~w.job[k].current

\* What every operator of the source keeps.
Good(w, sv) ==
    /\ w \in PageRecord /\ sv \in ServerRecord
    /\ Wired(w) /\ Housed(w) /\ Calm(w) /\ Entered(w) /\ Tokens(w, sv)

\* The job b ends with a channel for the stay s.
RestoresChannel(b, s) == b.stay = s /\ b.kind \in {"connect", "resume", "resumed"}

\* The job b ends with a room for the stay s.  A channel that is being connected does if the
\* stay has just been entered, or if the full recovery is that of the same stay: another
\* stay's recovery looks at the other stay's room.
RestoresRoom(b, s) ==
    /\ b.stay = s
    /\ \/ b.kind \in {"resume", "resumed", "grant", "import", "drop", "join"}
       \/ b.kind = "connect" /\ b.by = "enter"
       \/ b.kind = "connect" /\ b.by = "full" /\ b.origin = s

\* ChannelCared, of a page.
ChannelIsCared(w, s) ==
    \/ w.stay[s].socket # None \/ w.stay[s].events \/ w.stay[s].full
    \/ \E j \in Job : RestoresChannel(w.job[j], s)

\* RoomCared, of a page, with fewer jobs.
RoomIsCared(w, s) ==
    \/ IsUp(w, s) \/ w.stay[s].media \/ w.stay[s].full
    \/ \E j \in Job : RestoresRoom(w.job[j], s)

\* NothingForgotten, of a page.
Cared(w) == Live(w) => ChannelIsCared(w, w.active) /\ RoomIsCared(w, w.active)

SessionInv == Good(page, server) /\ Cared(page)

-----------------------------------------------------------------------------
(* Numbers *)

\* The bounds are positive, so nothing has the number None, and there is a first stay.
LEMMA Numbers ==
  /\ Stay \subseteq Nat /\ Channel \subseteq Nat /\ MediaRoom \subseteq Nat /\ Job \subseteq Nat
  /\ None \notin Stay /\ None \notin Channel /\ None \notin MediaRoom /\ None \notin Job
  /\ 1 \in Stay
BY CallSessionAssumption DEF Stay, Channel, MediaRoom, Job, None

\* The number First chooses is one of the set.
LEMMA FirstIsOne == ASSUME NEW S, S \subseteq Nat, S # {} PROVE First(S) \in S
<1> DEFINE R == {ss \in Nat \X Nat : ss[1] < ss[2]}
<1>1. IsWellFoundedOn(R, Nat)
  <2>1. R = OpToRel(<, Nat)
    BY Zenon DEF OpToRel
  <2> QED
    BY <2>1, NatLessThanWellFounded
<1>2. PICK x \in S : \A y \in S : <<y, x>> \notin R
  BY <1>1, WFMin
<1>3. ASSUME NEW y \in S PROVE x <= y
  <2>1. x \in Nat /\ y \in Nat /\ <<y, x>> \notin R
    BY <1>2
  <2>2. ~(y < x)
    BY <2>1
  <2> QED
    BY ONLY <2>1, <2>2
<1> QED
  BY <1>3 DEF First

\* What is not used is well typed.
LEMMA Empty == Idle \in JobRecord /\ Unused \in ChannelRecord /\ NoRoom \in RoomRecord
BY Numbers DEF Idle, Unused, NoRoom, JobRecord, ChannelRecord, RoomRecord

\* So are the numbers of the jobs, channels and rooms a handler takes.
LEMMA Taken ==
  ASSUME NEW w
  PROVE  /\ FreeJobs(w) # {} => First(FreeJobs(w)) \in Job /\ w.job[First(FreeJobs(w))].kind = "free"
         /\ FreeChannels(w) # {} =>
              First(FreeChannels(w)) \in Channel /\ w.channel[First(FreeChannels(w))].state = "free"
         /\ FreeRooms(w) # {} =>
              First(FreeRooms(w)) \in MediaRoom /\ w.room[First(FreeRooms(w))].state = "free"
<1>1. FreeJobs(w) \subseteq Nat /\ FreeChannels(w) \subseteq Nat /\ FreeRooms(w) \subseteq Nat
  BY Numbers DEF FreeJobs, FreeChannels, FreeRooms
<1>2. FreeJobs(w) # {} => First(FreeJobs(w)) \in FreeJobs(w)
  BY <1>1, FirstIsOne
<1>3. FreeChannels(w) # {} => First(FreeChannels(w)) \in FreeChannels(w)
  BY <1>1, FirstIsOne
<1>4. FreeRooms(w) # {} => First(FreeRooms(w)) \in FreeRooms(w)
  BY <1>1, FirstIsOne
<1> QED
  BY <1>2, <1>3, <1>4 DEF FreeJobs, FreeChannels, FreeRooms

-----------------------------------------------------------------------------
(* What the operators change *)

\* The connections of the stays apart, they are as before.
SameFlags(w, v) ==
    \A t \in Stay :
        /\ v.stay[t].entered = w.stay[t].entered /\ v.stay[t].leaving = w.stay[t].leaving
        /\ v.stay[t].ended = w.stay[t].ended /\ v.stay[t].current = w.stay[t].current
        /\ v.stay[t].events = w.stay[t].events /\ v.stay[t].media = w.stay[t].media
        /\ v.stay[t].full = w.stay[t].full

\* The end of a job changes this job only.
LEMMA DoneEffect ==
  ASSUME NEW w \in PageRecord, NEW j \in Job, NEW v, v = Done(w, j)
  PROVE  /\ v \in PageRecord
         /\ v.active = w.active /\ v.stay = w.stay /\ v.channel = w.channel /\ v.room = w.room
         /\ v.job[j] = Idle /\ \A k \in Job : k # j => v.job[k] = w.job[k]
BY Empty DEF Done, PageRecord

\* The start of a job takes a free one.
LEMMA BeginEffect ==
  ASSUME NEW w \in PageRecord, NEW f \in JobRecord, FreeJobs(w) # {}, NEW v, v = Begin(w, f)
  PROVE  /\ v \in PageRecord
         /\ v.active = w.active /\ v.stay = w.stay /\ v.channel = w.channel /\ v.room = w.room
         /\ \E n \in Job : /\ w.job[n].kind = "free" /\ v.job[n] = f
                           /\ \A k \in Job : k # n => v.job[k] = w.job[k]
<1> DEFINE n == First(FreeJobs(w))
<1>1. n \in Job /\ w.job[n].kind = "free"
  BY Taken
<1>2. v = [w EXCEPT !.job[n] = f]
  BY DEF Begin
<1> HIDE DEF n
<1> QED
  BY <1>1, <1>2 DEF PageRecord

\* Closing the socket of a stay changes the socket and its channel.
LEMMA SocketClosedEffect ==
  ASSUME NEW w \in PageRecord, NEW s \in Stay, NEW v, v = SocketClosed(w, s)
  PROVE  /\ v \in PageRecord
         /\ v.active = w.active /\ v.room = w.room /\ v.job = w.job
         /\ SameFlags(w, v) /\ \A t \in Stay : v.stay[t].room = w.stay[t].room
         /\ v.stay[s].socket = None
         /\ \A t \in Stay : t # s => v.stay[t].socket = w.stay[t].socket
         /\ w.stay[s].socket # None => v.channel[w.stay[s].socket] = Unused
         /\ \A c \in Channel : c # w.stay[s].socket => v.channel[c] = w.channel[c]
<1>1. CASE w.stay[s].socket = None
  <2>1. v = w
    BY <1>1 DEF SocketClosed
  <2> QED
    BY ONLY <1>1, <2>1, w \in PageRecord DEF SameFlags
<1>2. CASE w.stay[s].socket # None
  <2> DEFINE c == w.stay[s].socket
             st == [w.stay[s] EXCEPT !.socket = None]
  <2>1. c \in Channel /\ st \in StayRecord
    <3>1. w.stay[s] \in StayRecord
      BY DEF PageRecord
    <3> QED
      BY ONLY <1>2, <3>1 DEF StayRecord
  <2>2. v = [w EXCEPT !.channel = [w.channel EXCEPT ![c] = Unused], !.stay = [w.stay EXCEPT ![s] = st]]
    BY <1>2 DEF SocketClosed, PageRecord
  <2> HIDE DEF c, st
  <2>3. v \in PageRecord
    <3>1. [w.channel EXCEPT ![c] = Unused] \in [Channel -> ChannelRecord]
      BY <2>1, Empty DEF PageRecord
    <3>2. [w.stay EXCEPT ![s] = st] \in [Stay -> StayRecord]
      BY <2>1 DEF PageRecord
    <3> QED
      BY ONLY <2>2, <3>1, <3>2, w \in PageRecord DEF PageRecord
  <2>4. /\ v.active = w.active /\ v.room = w.room /\ v.job = w.job
        /\ v.channel = [w.channel EXCEPT ![c] = Unused] /\ v.stay = [w.stay EXCEPT ![s] = st]
    BY <2>2 DEF PageRecord
  <2>5. DOMAIN w.channel = Channel /\ DOMAIN w.stay = Stay
    BY DEF PageRecord
  <2>6. /\ v.stay[s] = st /\ \A t \in Stay : t # s => v.stay[t] = w.stay[t]
        /\ v.channel[c] = Unused /\ \A d \in Channel : d # c => v.channel[d] = w.channel[d]
    BY ONLY <2>1, <2>4, <2>5, s \in Stay
  <2>7. /\ st.entered = w.stay[s].entered /\ st.leaving = w.stay[s].leaving
        /\ st.ended = w.stay[s].ended /\ st.current = w.stay[s].current
        /\ st.events = w.stay[s].events /\ st.media = w.stay[s].media
        /\ st.full = w.stay[s].full /\ st.room = w.stay[s].room /\ st.socket = None
    <3>1. w.stay[s] \in StayRecord
      BY DEF PageRecord
    <3> QED
      BY ONLY <3>1 DEF st, StayRecord
  <2>8. SameFlags(w, v)
    BY ONLY <2>6, <2>7, s \in Stay DEF SameFlags
  <2> QED
    BY ONLY <2>3, <2>4, <2>6, <2>7, <2>8, s \in Stay DEF c
<1> QED
  BY <1>1, <1>2

\* Closing the room of a stay changes the stay and this room.
LEMMA RoomClosedEffect ==
  ASSUME NEW w \in PageRecord, NEW s \in Stay, NEW v, v = RoomClosed(w, s)
  PROVE  /\ v \in PageRecord
         /\ v.active = w.active /\ v.channel = w.channel /\ v.job = w.job
         /\ SameFlags(w, v) /\ \A t \in Stay : v.stay[t].socket = w.stay[t].socket
         /\ v.stay[s].room = None
         /\ \A t \in Stay : t # s => v.stay[t].room = w.stay[t].room
         /\ w.stay[s].room # None =>
              \/ /\ w.room[w.stay[s].room].state = "new"
                 /\ v.room[w.stay[s].room].state = "aborted"
                 /\ v.room[w.stay[s].room].stay = w.room[w.stay[s].room].stay
              \/ w.room[w.stay[s].room].state # "new" /\ v.room[w.stay[s].room] = NoRoom
         /\ \A r \in MediaRoom : r # w.stay[s].room => v.room[r] = w.room[r]
<1>1. CASE w.stay[s].room = None
  <2>1. v = w
    BY <1>1 DEF RoomClosed
  <2> QED
    BY ONLY <1>1, <2>1, w \in PageRecord DEF SameFlags
<1>2. CASE w.stay[s].room # None
  <2> DEFINE r == w.stay[s].room
             st == [w.stay[s] EXCEPT !.room = None]
             new == IF w.room[r].state = "new" THEN [w.room[r] EXCEPT !.state = "aborted"] ELSE NoRoom
  <2>1. r \in MediaRoom /\ st \in StayRecord
    <3>1. w.stay[s] \in StayRecord
      BY DEF PageRecord
    <3> QED
      BY ONLY <1>2, <3>1 DEF StayRecord
  <2>2. new \in RoomRecord
    <3>1. w.room[r] \in RoomRecord
      BY <2>1 DEF PageRecord
    <3> QED
      BY ONLY <3>1, Empty DEF RoomRecord
  <2>3. v = [w EXCEPT !.room = [w.room EXCEPT ![r] = new], !.stay = [w.stay EXCEPT ![s] = st]]
    BY <1>2 DEF RoomClosed, PageRecord
  <2> HIDE DEF r, st, new
  <2>4. v \in PageRecord
    <3>1. [w.room EXCEPT ![r] = new] \in [MediaRoom -> RoomRecord]
      BY <2>1, <2>2 DEF PageRecord
    <3>2. [w.stay EXCEPT ![s] = st] \in [Stay -> StayRecord]
      BY <2>1 DEF PageRecord
    <3> QED
      BY ONLY <2>3, <3>1, <3>2, w \in PageRecord DEF PageRecord
  <2>5. /\ v.active = w.active /\ v.channel = w.channel /\ v.job = w.job
        /\ v.room = [w.room EXCEPT ![r] = new] /\ v.stay = [w.stay EXCEPT ![s] = st]
    BY <2>3 DEF PageRecord
  <2>6. DOMAIN w.room = MediaRoom /\ DOMAIN w.stay = Stay
    BY DEF PageRecord
  <2>7. /\ v.stay[s] = st /\ \A t \in Stay : t # s => v.stay[t] = w.stay[t]
        /\ v.room[r] = new /\ \A q \in MediaRoom : q # r => v.room[q] = w.room[q]
    BY ONLY <2>1, <2>5, <2>6, s \in Stay
  <2>8. /\ st.entered = w.stay[s].entered /\ st.leaving = w.stay[s].leaving
        /\ st.ended = w.stay[s].ended /\ st.current = w.stay[s].current
        /\ st.events = w.stay[s].events /\ st.media = w.stay[s].media
        /\ st.full = w.stay[s].full /\ st.socket = w.stay[s].socket /\ st.room = None
    <3>1. w.stay[s] \in StayRecord
      BY DEF PageRecord
    <3> QED
      BY ONLY <3>1 DEF st, StayRecord
  <2>9. SameFlags(w, v)
    BY ONLY <2>7, <2>8, s \in Stay DEF SameFlags
  <2>10. \/ w.room[r].state = "new" /\ new.state = "aborted" /\ new.stay = w.room[r].stay
         \/ w.room[r].state # "new" /\ new = NoRoom
    <3>1. w.room[r] \in RoomRecord
      BY <2>1 DEF PageRecord
    <3> QED
      BY ONLY <3>1 DEF new, RoomRecord
  <2> QED
    BY ONLY <2>4, <2>5, <2>7, <2>8, <2>9, <2>10, s \in Stay DEF r
<1> QED
  BY <1>1, <1>2

\* What is set in one stay changes this stay only.
LEMMA StayEffect ==
  ASSUME NEW w \in PageRecord, NEW s \in Stay, NEW st \in StayRecord, NEW v,
         v = [w EXCEPT !.stay = [w.stay EXCEPT ![s] = st]]
  PROVE  /\ v \in PageRecord
         /\ v.active = w.active /\ v.channel = w.channel /\ v.room = w.room /\ v.job = w.job
         /\ v.stay[s] = st /\ \A t \in Stay : t # s => v.stay[t] = w.stay[t]
BY DEF PageRecord

\* The active stay is one of the stays.
LEMMA LiveStay ==
  ASSUME NEW w \in PageRecord, w.active # None
  PROVE  w.active \in Stay /\ Active(w) = w.stay[w.active] /\ Active(w) \in StayRecord
BY DEF PageRecord, Active

\* The schedules set timers of the active stay only.
LEMMA ScheduleFullEffect ==
  ASSUME NEW w \in PageRecord, Live(w), ~Active(w).full, NEW v, v = ScheduleFull(w)
  PROVE  /\ v \in PageRecord
         /\ v.active = w.active /\ v.channel = w.channel /\ v.room = w.room /\ v.job = w.job
         /\ v.stay[w.active].full
         /\ v.stay[w.active].leaving = w.stay[w.active].leaving
         /\ v.stay[w.active].socket = w.stay[w.active].socket
         /\ v.stay[w.active].room = w.stay[w.active].room
         /\ \A t \in Stay : t # w.active => v.stay[t] = w.stay[t]
<1> DEFINE s == w.active
           st == [w.stay[s] EXCEPT !.full = TRUE, !.events = FALSE, !.media = FALSE]
<1>1. s \in Stay /\ w.stay[s] \in StayRecord
  BY LiveStay DEF Live
<1>2. st \in StayRecord
  BY ONLY <1>1 DEF StayRecord
<1>3. v = [w EXCEPT !.stay = [w.stay EXCEPT ![s] = st]]
  BY DEF ScheduleFull, PageRecord
<1> HIDE DEF s, st
<1>4. /\ v \in PageRecord
      /\ v.active = w.active /\ v.channel = w.channel /\ v.room = w.room /\ v.job = w.job
      /\ v.stay[s] = st /\ \A t \in Stay : t # s => v.stay[t] = w.stay[t]
  BY <1>1, <1>2, <1>3, StayEffect
<1>5. st.full /\ st.leaving = w.stay[s].leaving /\ st.socket = w.stay[s].socket /\ st.room = w.stay[s].room
  BY ONLY <1>1 DEF st, StayRecord
<1> QED
  BY ONLY <1>4, <1>5 DEF s

LEMMA ScheduleMediaEffect ==
  ASSUME NEW w \in PageRecord, Live(w), NEW v, v = ScheduleMedia(w)
  PROVE  /\ v \in PageRecord
         /\ v.active = w.active /\ v.channel = w.channel /\ v.room = w.room /\ v.job = w.job
         /\ v.stay[w.active].media
         /\ v.stay[w.active].leaving = w.stay[w.active].leaving
         /\ v.stay[w.active].socket = w.stay[w.active].socket
         /\ v.stay[w.active].room = w.stay[w.active].room
         /\ v.stay[w.active].events = w.stay[w.active].events
         /\ v.stay[w.active].full = w.stay[w.active].full
         /\ \A t \in Stay : t # w.active => v.stay[t] = w.stay[t]
<1> DEFINE s == w.active
           st == [w.stay[s] EXCEPT !.media = TRUE]
<1>1. s \in Stay /\ w.stay[s] \in StayRecord
  BY LiveStay DEF Live
<1>2. st \in StayRecord
  BY ONLY <1>1 DEF StayRecord
<1>3. v = [w EXCEPT !.stay = [w.stay EXCEPT ![s] = st]]
  BY DEF ScheduleMedia, PageRecord
<1> HIDE DEF s, st
<1>4. /\ v \in PageRecord
      /\ v.active = w.active /\ v.channel = w.channel /\ v.room = w.room /\ v.job = w.job
      /\ v.stay[s] = st /\ \A t \in Stay : t # s => v.stay[t] = w.stay[t]
  BY <1>1, <1>2, <1>3, StayEffect
<1>5. st.media /\ st.events = w.stay[s].events /\ st.full = w.stay[s].full /\ st.leaving = w.stay[s].leaving /\ st.socket = w.stay[s].socket /\ st.room = w.stay[s].room
  BY ONLY <1>1 DEF st, StayRecord
<1> QED
  BY ONLY <1>4, <1>5 DEF s

-----------------------------------------------------------------------------
(* What the operators keep *)

\* The tokens are those of the jobs and the stays.
LEMMA SameTokens ==
  ASSUME NEW sv, NEW w \in PageRecord, Tokens(w, sv), NEW v, v.job = w.job,
         \A t \in Stay : v.stay[t].entered = w.stay[t].entered /\ v.stay[t].current = w.stay[t].current
  PROVE  Tokens(v, sv)
<1>1. \A j \in Job : w.job[j].stay \in Stay
  BY DEF PageRecord, JobRecord
<1>2. ASSUME NEW s \in Stay, v.stay[s].entered
      PROVE  \/ v.stay[s].current \/ sv[s].lost
             \/ \E j \in Job : v.job[j].kind = "resumed" /\ v.job[j].stay = s
  <2>1. \/ w.stay[s].current \/ sv[s].lost
        \/ \E j \in Job : w.job[j].kind = "resumed" /\ w.job[j].stay = s
    BY <1>2 DEF Tokens
  <2> QED
    BY <2>1
<1>3. ASSUME NEW j \in Job, v.job[j].kind = "resumed"
      PROVE  /\ v.job[j].current /\ ~v.stay[v.job[j].stay].current
             /\ \A k \in Job : k # j /\ v.job[k].stay = v.job[j].stay => ~v.job[k].current
  <2>1. /\ w.job[j].current /\ ~w.stay[w.job[j].stay].current
        /\ \A k \in Job : k # j /\ w.job[k].stay = w.job[j].stay => ~w.job[k].current
    BY <1>3 DEF Tokens
  <2> QED
    BY <1>1, <2>1
<1> QED
  BY <1>2, <1>3 DEF Tokens

\* The wires only depend on the sockets, the channels and the calls of connectEvents.
LEMMA WiredStays ==
  ASSUME NEW w, Wired(w), NEW v, v.channel = w.channel,
         \A t \in Stay : v.stay[t].socket = w.stay[t].socket,
         \A k \in Job : v.job[k].kind = "connect" =>
            w.job[k].kind = "connect" /\ v.job[k].channel = w.job[k].channel /\ v.job[k].stay = w.job[k].stay
  PROVE  Wired(v)
<1>1. ASSUME NEW s \in Stay, v.stay[s].socket # None
      PROVE  /\ v.channel[v.stay[s].socket].state = "open"
             /\ v.channel[v.stay[s].socket].listened
             /\ v.channel[v.stay[s].socket].stay = s
  BY <1>1 DEF Wired
<1>2. ASSUME NEW j \in Job, v.job[j].kind = "connect"
      PROVE  /\ v.job[j].channel \in Channel
             /\ v.channel[v.job[j].channel].state = "connecting"
             /\ v.channel[v.job[j].channel].stay = v.job[j].stay
  BY <1>2 DEF Wired
<1>3. ASSUME NEW j \in Job, NEW k \in Job, v.job[j].kind = "connect", v.job[k].kind = "connect",
             v.job[j].channel = v.job[k].channel
      PROVE  j = k
  BY <1>3 DEF Wired
<1> QED
  BY ONLY <1>1, <1>2, <1>3 DEF Wired

\* The rooms in use only depend on those of the stays and on the calls of connectMedia.
LEMMA HousedStays ==
  ASSUME NEW w, Housed(w), NEW v, v.room = w.room,
         \A t \in Stay : v.stay[t].room = w.stay[t].room,
         \A k \in Job : v.job[k].kind = "join" =>
            w.job[k].kind = "join" /\ v.job[k].room = w.job[k].room /\ v.job[k].stay = w.job[k].stay
  PROVE  Housed(v)
<1>1. ASSUME NEW s \in Stay, v.stay[s].room # None
      PROVE  /\ v.room[v.stay[s].room].stay = s
             /\ v.room[v.stay[s].room].state \notin {"free", "aborted"}
  BY <1>1 DEF Housed
<1>2. ASSUME NEW j \in Job, v.job[j].kind = "join"
      PROVE  /\ v.job[j].room \in MediaRoom
             /\ v.room[v.job[j].room].stay = v.job[j].stay
             /\ v.room[v.job[j].room].state \in {"new", "aborted"}
  BY <1>2 DEF Housed
<1>3. ASSUME NEW j \in Job, NEW k \in Job, v.job[j].kind = "join", v.job[k].kind = "join",
             v.job[j].room = v.job[k].room
      PROVE  j = k
  BY <1>3 DEF Housed
<1> QED
  BY ONLY <1>1, <1>2, <1>3 DEF Housed

\* Who was entered only depends on the flags of the stays and on the resumes.
LEMMA EnteredStays ==
  ASSUME NEW w \in PageRecord, Entered(w), NEW v, v.active = w.active,
         \A t \in Stay : v.stay[t].entered = w.stay[t].entered /\ v.stay[t].full = w.stay[t].full,
         \A k \in Job : v.job[k].kind \in {"resume", "resumed"} =>
            w.job[k].kind \in {"resume", "resumed"} /\ v.job[k].stay = w.job[k].stay
  PROVE  Entered(v)
<1>1. (w.active # None => w.active \in Stay) /\ \A j \in Job : w.job[j].stay \in Stay
  BY DEF PageRecord, JobRecord
<1>2. v.active # None => v.stay[v.active].entered
  BY <1>1 DEF Entered
<1>3. ASSUME NEW s \in Stay, v.stay[s].full PROVE v.stay[s].entered
  BY <1>3 DEF Entered
<1>4. ASSUME NEW j \in Job, v.job[j].kind \in {"resume", "resumed"} PROVE v.stay[v.job[j].stay].entered
  BY <1>1, <1>4 DEF Entered
<1> QED
  BY ONLY <1>2, <1>3, <1>4 DEF Entered

\* A stay that was quiet still is.
LEMMA CalmStays ==
  ASSUME NEW w, Calm(w), NEW v, SameFlags(w, v), \A t \in Stay : v.stay[t].socket = w.stay[t].socket
  PROVE  Calm(v)
BY DEF Calm, SameFlags

\* The same if no job changes.
LEMMA WiredAndHoused ==
  ASSUME NEW w, NEW v, v.job = w.job
  PROVE  /\ /\ Wired(w) /\ v.channel = w.channel
            /\ \A t \in Stay : v.stay[t].socket = w.stay[t].socket
            => Wired(v)
         /\ /\ Housed(w) /\ v.room = w.room
            /\ \A t \in Stay : v.stay[t].room = w.stay[t].room
            => Housed(v)
<1>1. /\ \A k \in Job : v.job[k].kind = "connect" =>
           w.job[k].kind = "connect" /\ v.job[k].channel = w.job[k].channel /\ v.job[k].stay = w.job[k].stay
      /\ \A k \in Job : v.job[k].kind = "join" =>
           w.job[k].kind = "join" /\ v.job[k].room = w.job[k].room /\ v.job[k].stay = w.job[k].stay
  OBVIOUS
<1>2. ASSUME Wired(w), v.channel = w.channel, \A t \in Stay : v.stay[t].socket = w.stay[t].socket
      PROVE  Wired(v)
  BY ONLY <1>1, <1>2, WiredStays
<1>3. ASSUME Housed(w), v.room = w.room, \A t \in Stay : v.stay[t].room = w.stay[t].room
      PROVE  Housed(v)
  BY ONLY <1>1, <1>3, HousedStays
<1> QED
  BY <1>2, <1>3

\* A stay's socket is open, and its room is in use.
LEMMA SocketIsOpen ==
  ASSUME NEW w, Wired(w), NEW t \in Stay, w.stay[t].socket # None
  PROVE  /\ w.channel[w.stay[t].socket].state = "open"
         /\ w.channel[w.stay[t].socket].listened
         /\ w.channel[w.stay[t].socket].stay = t
BY DEF Wired

LEMMA RoomIsInUse ==
  ASSUME NEW w, Housed(w), NEW t \in Stay, w.stay[t].room # None
  PROVE  /\ w.room[w.stay[t].room].stay = t
         /\ w.room[w.stay[t].room].state \notin {"free", "aborted"}
BY DEF Housed

\* A stay has no other stay's room.
LEMMA OwnRoom ==
  ASSUME NEW w, Housed(w), NEW r \in MediaRoom
  PROVE  \A t \in Stay : w.stay[t].room = r => t = w.room[r].stay
<1>1. r # None
  BY Numbers
<1> QED
  BY ONLY <1>1, Housed(w) DEF Housed

\* The sockets and the rooms of the stays are channels and rooms.
LEMMA PlacesTyped ==
  ASSUME NEW w \in PageRecord
  PROVE  \A t \in Stay : /\ w.stay[t].socket # None => w.stay[t].socket \in Channel
                         /\ w.stay[t].room # None => w.stay[t].room \in MediaRoom
<1>1. \A t \in Stay : w.stay[t] \in StayRecord
  BY DEF PageRecord
<1> QED
  BY ONLY <1>1 DEF StayRecord

\* What changes neither a stay, a channel nor a room leaves the rest in order, too, if no
\* job takes up one that others use.
LEMMA JobsKeep ==
  ASSUME NEW w \in PageRecord, Wired(w), Housed(w), Calm(w), Entered(w),
         NEW v, v.active = w.active, v.stay = w.stay, v.channel = w.channel, v.room = w.room,
         \A k \in Job : v.job[k].kind \in {"connect", "join", "resume", "resumed"} => v.job[k] = w.job[k]
  PROVE  Wired(v) /\ Housed(v) /\ Calm(v) /\ Entered(v)
<1>1. /\ \A t \in Stay : v.stay[t].socket = w.stay[t].socket /\ v.stay[t].room = w.stay[t].room
      /\ \A t \in Stay : v.stay[t].entered = w.stay[t].entered /\ v.stay[t].full = w.stay[t].full
      /\ SameFlags(w, v)
  BY DEF SameFlags
<1>2. Wired(v)
  <2>1. \A k \in Job : v.job[k].kind = "connect" =>
          w.job[k].kind = "connect" /\ v.job[k].channel = w.job[k].channel /\ v.job[k].stay = w.job[k].stay
    OBVIOUS
  <2> QED
    BY ONLY <1>1, <2>1, Wired(w), v.channel = w.channel, WiredStays
<1>3. Housed(v)
  <2>1. \A k \in Job : v.job[k].kind = "join" =>
          w.job[k].kind = "join" /\ v.job[k].room = w.job[k].room /\ v.job[k].stay = w.job[k].stay
    OBVIOUS
  <2> QED
    BY ONLY <1>1, <2>1, Housed(w), v.room = w.room, HousedStays
<1>4. Entered(v)
  <2>1. \A k \in Job : v.job[k].kind \in {"resume", "resumed"} =>
          w.job[k].kind \in {"resume", "resumed"} /\ v.job[k].stay = w.job[k].stay
    OBVIOUS
  <2> QED
    BY ONLY <1>1, <2>1, Entered(w), w \in PageRecord, v.active = w.active, EnteredStays
<1>5. Calm(v)
  BY ONLY <1>1, Calm(w), CalmStays
<1> QED
  BY <1>2, <1>3, <1>4, <1>5

\* A job that ends leaves everything in order, unless it brings a token.
LEMMA DoneGood ==
  ASSUME NEW sv, NEW w, Good(w, sv), NEW j \in Job, w.job[j].kind # "resumed", NEW v, v = Done(w, j)
  PROVE  Good(v, sv)
<1>1. /\ v \in PageRecord
      /\ v.active = w.active /\ v.stay = w.stay /\ v.channel = w.channel /\ v.room = w.room
      /\ v.job[j] = Idle /\ \A k \in Job : k # j => v.job[k] = w.job[k]
  BY DoneEffect DEF Good
<1>2. \A k \in Job : v.job[k].kind # "free" => k # j /\ v.job[k] = w.job[k]
  BY <1>1 DEF Idle
<1>3. Wired(v) /\ Housed(v) /\ Calm(v) /\ Entered(v)
  <2>1. w \in PageRecord /\ Wired(w) /\ Housed(w) /\ Calm(w) /\ Entered(w)
    BY DEF Good
  <2>2. \A k \in Job : v.job[k].kind \in {"connect", "join", "resume", "resumed"} => v.job[k] = w.job[k]
    BY ONLY <1>2
  <2> QED
    BY ONLY <1>1, <2>1, <2>2, JobsKeep
<1>4. Tokens(v, sv)
  BY ONLY <1>1, <1>2, Good(w, sv), w.job[j].kind # "resumed" DEF Good, Tokens, Idle
<1> QED
  BY ONLY <1>1, <1>3, <1>4, Good(w, sv) DEF Good

\* So does one that starts, if it knows no newer token than its stay.
LEMMA BeginGood ==
  ASSUME NEW sv, NEW w, Good(w, sv), FreeJobs(w) # {}, NEW f \in JobRecord,
         f.kind \in {"import", "resume", "grant", "cleanup"},
         f.current => w.stay[f.stay].current,
         f.kind = "resume" => w.stay[f.stay].entered,
         NEW v, v = Begin(w, f)
  PROVE  Good(v, sv)
<1>1. PICK n \in Job :
        /\ v \in PageRecord
        /\ v.active = w.active /\ v.stay = w.stay /\ v.channel = w.channel /\ v.room = w.room
        /\ w.job[n].kind = "free" /\ v.job[n] = f
        /\ \A k \in Job : k # n => v.job[k] = w.job[k]
  BY BeginEffect DEF Good
<1>2. Wired(v) /\ Housed(v) /\ Calm(v)
  <2>1. Wired(w) /\ Housed(w) /\ Calm(w)
    BY DEF Good
  <2>2. \A k \in Job : v.job[k].kind \in {"connect", "join"} => v.job[k] = w.job[k]
    BY ONLY <1>1, f.kind \in {"import", "resume", "grant", "cleanup"}
  <2>3. \A k \in Job : v.job[k].kind = "connect" =>
          w.job[k].kind = "connect" /\ v.job[k].channel = w.job[k].channel /\ v.job[k].stay = w.job[k].stay
    BY ONLY <2>2
  <2>4. \A k \in Job : v.job[k].kind = "join" =>
          w.job[k].kind = "join" /\ v.job[k].room = w.job[k].room /\ v.job[k].stay = w.job[k].stay
    BY ONLY <2>2
  <2>5. \A t \in Stay : v.stay[t].socket = w.stay[t].socket
    BY ONLY <1>1
  <2>6. \A t \in Stay : v.stay[t].room = w.stay[t].room
    BY ONLY <1>1
  <2>7. Wired(v)
    BY ONLY <1>1, <2>1, <2>3, <2>5, WiredStays
  <2>8. Housed(v)
    BY ONLY <1>1, <2>1, <2>4, <2>6, HousedStays
  <2>9. Calm(v)
    BY ONLY <1>1, <2>1 DEF Calm
  <2> QED
    BY <2>7, <2>8, <2>9
<1>3. Entered(v)
  BY ONLY <1>1, Good(w, sv), f.kind \in {"import", "resume", "grant", "cleanup"},
          f.kind = "resume" => w.stay[f.stay].entered
  DEF Good, Entered
<1>4. Tokens(v, sv)
  BY ONLY <1>1, Good(w, sv), f.kind \in {"import", "resume", "grant", "cleanup"},
          f.current => w.stay[f.stay].current
  DEF Good, Tokens
<1> QED
  BY ONLY <1>1, <1>2, <1>3, <1>4, Good(w, sv) DEF Good

\* A socket that is closed on purpose leaves everything in order.
LEMMA SocketClosedGood ==
  ASSUME NEW sv, NEW w, Good(w, sv), NEW s \in Stay, NEW v, v = SocketClosed(w, s)
  PROVE  Good(v, sv)
<1>1. /\ v \in PageRecord
      /\ v.active = w.active /\ v.room = w.room /\ v.job = w.job
      /\ SameFlags(w, v) /\ \A t \in Stay : v.stay[t].room = w.stay[t].room
      /\ v.stay[s].socket = None
      /\ \A t \in Stay : t # s => v.stay[t].socket = w.stay[t].socket
      /\ w.stay[s].socket # None => v.channel[w.stay[s].socket] = Unused
      /\ \A c \in Channel : c # w.stay[s].socket => v.channel[c] = w.channel[c]
  BY SocketClosedEffect DEF Good
<1>2. /\ \A t \in Stay : t # s => v.stay[t].socket = w.stay[t].socket
      /\ v.stay[s].socket = None
      /\ SameFlags(w, v) /\ \A t \in Stay : v.stay[t].room = w.stay[t].room
  BY <1>1
<1>3. Wired(v)
  <2>1. ASSUME NEW t \in Stay, v.stay[t].socket # None
        PROVE  /\ t # s /\ v.stay[t].socket \in Channel
               /\ v.channel[v.stay[t].socket] = w.channel[w.stay[t].socket]
    <3>1. t # s /\ v.stay[t].socket = w.stay[t].socket
      BY ONLY <1>2, <2>1
    <3>2. w.stay[t].socket \in Channel
      BY ONLY <3>1, <2>1, Good(w, sv) DEF Good, PageRecord, StayRecord
    <3>3. w.stay[t].socket # w.stay[s].socket
      BY ONLY <3>1, <2>1, Good(w, sv), s \in Stay DEF Good, Wired
    <3> QED
      BY ONLY <1>1, <3>1, <3>2, <3>3
  <2>0. Wired(w)
    BY DEF Good
  <2>2. ASSUME NEW j \in Job, w.job[j].kind = "connect"
        PROVE  v.channel[w.job[j].channel] = w.channel[w.job[j].channel]
    <3>1. w.job[j].channel \in Channel /\ w.channel[w.job[j].channel].state = "connecting"
      BY ONLY <2>0, <2>2 DEF Wired
    <3>2. w.job[j].channel # w.stay[s].socket
      <4>1. w.job[j].channel # None
        BY ONLY <3>1, Numbers
      <4>2. w.stay[s].socket # None => w.channel[w.stay[s].socket].state = "open"
        BY ONLY <2>0, s \in Stay DEF Wired
      <4> QED
        BY ONLY <3>1, <4>1, <4>2
    <3> QED
      BY ONLY <1>1, <3>1, <3>2
  <2>3. ASSUME NEW t \in Stay, v.stay[t].socket # None
        PROVE  /\ v.channel[v.stay[t].socket].state = "open"
               /\ v.channel[v.stay[t].socket].listened
               /\ v.channel[v.stay[t].socket].stay = t
    <3>1. v.stay[t].socket = w.stay[t].socket /\ v.channel[v.stay[t].socket] = w.channel[w.stay[t].socket]
      BY ONLY <1>2, <2>1, <2>3
    <3> QED
      BY ONLY <2>0, <2>3, <3>1, SocketIsOpen
  <2>4. ASSUME NEW j \in Job, v.job[j].kind = "connect"
        PROVE  /\ v.job[j].channel \in Channel
               /\ v.channel[v.job[j].channel].state = "connecting"
               /\ v.channel[v.job[j].channel].stay = v.job[j].stay
    BY ONLY <1>1, <2>0, <2>2, <2>4 DEF Wired
  <2>5. \A j, k \in Job :
          v.job[j].kind = "connect" /\ v.job[k].kind = "connect" /\ v.job[j].channel = v.job[k].channel
          => j = k
    BY ONLY <1>1, <2>0 DEF Wired
  <2> QED
    BY ONLY <2>3, <2>4, <2>5 DEF Wired
<1>4. Housed(v)
  <2>1. Housed(w)
    BY DEF Good
  <2> QED
    BY ONLY <1>1, <1>2, <2>1, WiredAndHoused
<1>5. Calm(v)
  <2>1. ASSUME NEW t \in Stay PROVE v.stay[t].socket = None \/ v.stay[t].socket = w.stay[t].socket
    BY ONLY <1>2
  <2> QED
    BY ONLY <1>2, <2>1, Good(w, sv) DEF Good, Calm, SameFlags
<1>6. Entered(v)
  BY ONLY <1>1, <1>2, Good(w, sv) DEF Good, Entered, PageRecord, JobRecord, SameFlags
<1>7. Tokens(v, sv)
  <2>1. w \in PageRecord /\ Tokens(w, sv)
    BY DEF Good
  <2> QED
    BY ONLY <1>1, <1>2, <2>1, SameTokens DEF SameFlags
<1> QED
  BY ONLY <1>1, <1>3, <1>4, <1>5, <1>6, <1>7, Good(w, sv) DEF Good

\* So does a room that is closed on purpose: whoever connects it will see that.
LEMMA RoomClosedGood ==
  ASSUME NEW sv, NEW w, Good(w, sv), NEW s \in Stay, NEW v, v = RoomClosed(w, s)
  PROVE  Good(v, sv)
<1>1. /\ v \in PageRecord
      /\ v.active = w.active /\ v.channel = w.channel /\ v.job = w.job
      /\ SameFlags(w, v) /\ \A t \in Stay : v.stay[t].socket = w.stay[t].socket
      /\ v.stay[s].room = None
      /\ \A t \in Stay : t # s => v.stay[t].room = w.stay[t].room
      /\ w.stay[s].room # None =>
           \/ /\ w.room[w.stay[s].room].state = "new"
              /\ v.room[w.stay[s].room].state = "aborted"
              /\ v.room[w.stay[s].room].stay = w.room[w.stay[s].room].stay
           \/ w.room[w.stay[s].room].state # "new" /\ v.room[w.stay[s].room] = NoRoom
      /\ \A r \in MediaRoom : r # w.stay[s].room => v.room[r] = w.room[r]
  <2>1. w \in PageRecord
    BY DEF Good
  <2> QED
    BY ONLY <2>1, s \in Stay, v = RoomClosed(w, s), RoomClosedEffect
<1>2. /\ SameFlags(w, v) /\ \A t \in Stay : v.stay[t].socket = w.stay[t].socket
      /\ v.stay[s].room = None
      /\ \A t \in Stay : t # s => v.stay[t].room = w.stay[t].room
  BY <1>1
<1>3. Housed(v)
  <2>1. ASSUME NEW t \in Stay, v.stay[t].room # None
        PROVE  /\ t # s /\ v.stay[t].room \in MediaRoom
               /\ v.room[v.stay[t].room] = w.room[w.stay[t].room]
    <3>1. t # s /\ v.stay[t].room = w.stay[t].room
      BY ONLY <1>2, <2>1
    <3>2. w.stay[t].room \in MediaRoom
      BY ONLY <3>1, <2>1, Good(w, sv) DEF Good, PageRecord, StayRecord
    <3>3. w.stay[t].room # w.stay[s].room
      BY ONLY <3>1, <2>1, Good(w, sv), s \in Stay DEF Good, Housed
    <3> QED
      BY ONLY <1>1, <3>1, <3>2, <3>3
  <2>2. ASSUME NEW j \in Job, w.job[j].kind = "join"
        PROVE  /\ v.room[w.job[j].room].stay = w.room[w.job[j].room].stay
               /\ v.room[w.job[j].room].state \in {"new", "aborted"}
    <3> DEFINE r == w.job[j].room
    <3>1. r \in MediaRoom /\ w.room[r].state \in {"new", "aborted"} /\ w.room[r] \in RoomRecord
      BY ONLY <2>2, Good(w, sv) DEF Good, Housed, PageRecord
    <3>2. CASE r # w.stay[s].room
      BY ONLY <1>1, <3>1, <3>2
    <3>3. CASE r = w.stay[s].room
      <4>1. w.room[r].state # "aborted" /\ w.stay[s].room # None
        BY ONLY <3>1, <3>3, Good(w, sv), s \in Stay, Numbers DEF Good, Housed
      <4> QED
        BY ONLY <1>1, <3>1, <3>3, <4>1
    <3> QED
      BY <3>2, <3>3
  <2>3. Housed(w)
    BY DEF Good
  <2>4. ASSUME NEW t \in Stay, v.stay[t].room # None
        PROVE  /\ v.room[v.stay[t].room].stay = t
               /\ v.room[v.stay[t].room].state \notin {"free", "aborted"}
    <3>1. t # s /\ v.room[v.stay[t].room] = w.room[w.stay[t].room]
      BY ONLY <2>1, <2>4
    <3>2. w.stay[t].room # None
      BY ONLY <1>2, <2>4, <3>1
    <3> QED
      BY ONLY <2>3, <3>1, <3>2 DEF Housed
  <2>5. ASSUME NEW j \in Job, v.job[j].kind = "join"
        PROVE  /\ v.job[j].room \in MediaRoom
               /\ v.room[v.job[j].room].stay = v.job[j].stay
               /\ v.room[v.job[j].room].state \in {"new", "aborted"}
    <3>1. w.job[j].kind = "join" /\ v.job[j] = w.job[j]
      BY ONLY <1>1, <2>5
    <3>2. w.job[j].room \in MediaRoom /\ w.room[w.job[j].room].stay = w.job[j].stay
      BY ONLY <2>3, <3>1 DEF Housed
    <3> QED
      BY ONLY <2>2, <3>1, <3>2
  <2>6. \A j, k \in Job :
          v.job[j].kind = "join" /\ v.job[k].kind = "join" /\ v.job[j].room = v.job[k].room => j = k
    <3>1. \A j, k \in Job :
            w.job[j].kind = "join" /\ w.job[k].kind = "join" /\ w.job[j].room = w.job[k].room => j = k
      BY ONLY <2>3 DEF Housed
    <3> QED
      BY ONLY <1>1, <3>1
  <2> QED
    BY ONLY <2>4, <2>5, <2>6 DEF Housed
<1>4. Wired(v)
  <2>1. Wired(w)
    BY DEF Good
  <2> QED
    BY ONLY <1>1, <1>2, <2>1, WiredAndHoused
<1>5. Calm(v)
  BY ONLY <1>1, <1>2, Good(w, sv) DEF Good, Calm, SameFlags
<1>6. Entered(v)
  BY ONLY <1>1, <1>2, Good(w, sv) DEF Good, Entered, PageRecord, JobRecord, SameFlags
<1>7. Tokens(v, sv)
  <2>1. w \in PageRecord /\ Tokens(w, sv)
    BY DEF Good
  <2> QED
    BY ONLY <1>1, <1>2, <2>1, SameTokens DEF SameFlags
<1> QED
  BY ONLY <1>1, <1>3, <1>4, <1>5, <1>6, <1>7, Good(w, sv) DEF Good

\* The timers and the end of a stay may change, as long as a stay that is being left is calm.
LEMMA FlagsGood ==
  ASSUME NEW sv, NEW w, Good(w, sv), NEW s \in Stay, NEW st \in StayRecord,
         st.entered = w.stay[s].entered, st.current = w.stay[s].current,
         st.socket = w.stay[s].socket, st.room = w.stay[s].room,
         st.ended => st.leaving,
         st.leaving => ~st.events /\ ~st.media /\ ~st.full /\ st.socket = None,
         st.full => st.entered,
         NEW v, v = [w EXCEPT !.stay = [w.stay EXCEPT ![s] = st]]
  PROVE  Good(v, sv)
<1>1. /\ v \in PageRecord
      /\ v.active = w.active /\ v.channel = w.channel /\ v.room = w.room /\ v.job = w.job
      /\ v.stay[s] = st /\ \A t \in Stay : t # s => v.stay[t] = w.stay[t]
  <2>1. w \in PageRecord
    BY DEF Good
  <2> QED
    BY ONLY <2>1, s \in Stay, st \in StayRecord, v = [w EXCEPT !.stay = [w.stay EXCEPT ![s] = st]]
    DEF PageRecord
<1>2. \A t \in Stay :
           /\ v.stay[t].entered = w.stay[t].entered /\ v.stay[t].current = w.stay[t].current
           /\ v.stay[t].socket = w.stay[t].socket /\ v.stay[t].room = w.stay[t].room
  BY <1>1
<1>3. Wired(v) /\ Housed(v)
  <2>1. Wired(w) /\ Housed(w)
    BY DEF Good
  <2> QED
    BY ONLY <1>1, <1>2, <2>1, WiredAndHoused
<1>5. Calm(v)
  BY <1>1 DEF Good, Calm
<1>6. Entered(v)
  <2>1. \A t \in Stay : v.stay[t].full => v.stay[t].entered
    BY <1>1 DEF Good, Entered
  <2> QED
    BY ONLY <1>1, <1>2, <2>1, Good(w, sv) DEF Good, Entered, PageRecord, JobRecord
<1>7. Tokens(v, sv)
  <2>1. w \in PageRecord /\ Tokens(w, sv)
    BY DEF Good
  <2> QED
    BY ONLY <1>1, <1>2, <2>1, SameTokens
<1> QED
  BY ONLY <1>1, <1>3, <1>5, <1>6, <1>7, Good(w, sv) DEF Good

\* Scheduling a recovery leaves everything in order.
LEMMA ScheduleFullGood ==
  ASSUME NEW sv, NEW w, Good(w, sv), NEW v, v = ScheduleFull(w)
  PROVE  Good(v, sv)
<1>1. CASE ~Live(w) \/ Active(w).full
  BY <1>1 DEF ScheduleFull
<1>2. CASE Live(w) /\ ~Active(w).full
  <2> DEFINE s == w.active
             st == [w.stay[s] EXCEPT !.full = TRUE, !.events = FALSE, !.media = FALSE]
  <2>1. s \in Stay /\ w.stay[s] \in StayRecord /\ ~w.stay[s].leaving /\ w.stay[s].entered /\ ~w.stay[s].ended
    BY <1>2, LiveStay DEF Good, Live, Entered, Calm
  <2>2. /\ st \in StayRecord
        /\ st.entered = w.stay[s].entered /\ st.current = w.stay[s].current
        /\ st.socket = w.stay[s].socket /\ st.room = w.stay[s].room
        /\ st.leaving = w.stay[s].leaving /\ st.ended = w.stay[s].ended
    BY ONLY <2>1 DEF StayRecord
  <2>3. v = [w EXCEPT !.stay = [w.stay EXCEPT ![s] = st]]
    BY <1>2 DEF ScheduleFull, Good, PageRecord
  <2> HIDE DEF s, st
  <2> QED
    BY <2>1, <2>2, <2>3, FlagsGood
<1> QED
  BY <1>1, <1>2

LEMMA ScheduleMediaGood ==
  ASSUME NEW sv, NEW w, Good(w, sv), NEW v, v = ScheduleMedia(w)
  PROVE  Good(v, sv)
<1>1. CASE ~Live(w)
  BY <1>1 DEF ScheduleMedia
<1>2. CASE Live(w)
  <2> DEFINE s == w.active
             st == [w.stay[s] EXCEPT !.media = TRUE]
  <2>1. s \in Stay /\ w.stay[s] \in StayRecord /\ ~w.stay[s].leaving /\ w.stay[s].entered /\ ~w.stay[s].ended
    BY <1>2, LiveStay DEF Good, Live, Entered, Calm
  <2>2. /\ st \in StayRecord
        /\ st.entered = w.stay[s].entered /\ st.current = w.stay[s].current
        /\ st.socket = w.stay[s].socket /\ st.room = w.stay[s].room
        /\ st.leaving = w.stay[s].leaving /\ st.ended = w.stay[s].ended
    BY ONLY <2>1 DEF StayRecord
  <2>3. v = [w EXCEPT !.stay = [w.stay EXCEPT ![s] = st]]
    BY <1>2 DEF ScheduleMedia, Good, PageRecord
  <2> HIDE DEF s, st
  <2> QED
    BY <2>1, <2>2, <2>3, FlagsGood
<1> QED
  BY <1>1, <1>2

\* connectMedia starts a job, or does nothing.
LEMMA ConnectMediaGood ==
  ASSUME NEW sv, NEW w, Good(w, sv), Live(w) => FreeJobs(w) # {}, NEW o \in Stay,
         NEW v, v = ConnectMedia(w, o)
  PROVE  Good(v, sv)
<1>1. CASE ~Live(w)
  BY <1>1 DEF ConnectMedia
<1>2. CASE Live(w)
  <2> DEFINE f == [Idle EXCEPT !.kind = "import", !.stay = w.active, !.origin = o]
  <2>1. f \in JobRecord /\ f.kind = "import" /\ f.current = FALSE
    BY <1>2, LiveStay, Numbers DEF Good, Live, Idle, JobRecord
  <2>2. v = Begin(w, f)
    BY <1>2 DEF ConnectMedia
  <2> HIDE DEF f
  <2> QED
    BY <1>2, <2>1, <2>2, BeginGood
<1> QED
  BY <1>1, <1>2

LEMMA AfterEventsGood ==
  ASSUME NEW sv, NEW w, Good(w, sv), Live(w) => FreeJobs(w) # {}, NEW o \in Stay, NEW by,
         NEW v, v = AfterEvents(w, by, o)
  PROVE  Good(v, sv)
BY ConnectMediaGood DEF AfterEvents

LEMMA EventsFailedGood ==
  ASSUME NEW sv, NEW w, Good(w, sv), Live(w) => FreeJobs(w) # {}, NEW o \in Stay, NEW by,
         NEW v, v = EventsFailed(w, by, o)
  PROVE  Good(v, sv)
<1>1. Good(ScheduleFull(w), sv)
  BY ScheduleFullGood
<1>2. FreeJobs(ScheduleFull(w)) = FreeJobs(w) /\ (Live(ScheduleFull(w)) => Live(w))
  <2>1. w \in PageRecord
    BY DEF Good
  <2>2. CASE Live(w) /\ ~Active(w).full
    BY <2>1, <2>2, ScheduleFullEffect DEF FreeJobs
  <2>3. CASE ~Live(w) \/ Active(w).full
    BY <2>3 DEF ScheduleFull
  <2> QED
    BY <2>2, <2>3
<1> QED
  BY <1>1, <1>2, ConnectMediaGood DEF EventsFailed

\* connectEvents closes the socket of the active stay and waits for a new channel.
LEMMA ConnectEventsEffect ==
  ASSUME NEW sv, NEW w, Good(w, sv), Live(w), HasSpace(w),
         NEW o \in Stay, NEW by \in {"enter", "timer", "full"},
         NEW u, u = SocketClosed(w, w.active), NEW v, v = ConnectEvents(w, by, o)
  PROVE  \E n \in Job, c \in Channel, f \in JobRecord :
           /\ w.job[n].kind = "free" /\ u.channel[c].state = "free"
           /\ f.kind = "connect" /\ f.stay = w.active /\ f.origin = o /\ f.by = by
           /\ f.current = w.stay[w.active].current /\ f.channel = c
           /\ v \in PageRecord
           /\ v.active = u.active /\ v.stay = u.stay /\ v.room = u.room
           /\ v.job[n] = f /\ \A k \in Job : k # n => v.job[k] = u.job[k]
           /\ v.channel[c] = [state |-> "connecting", stay |-> w.active, listened |-> FALSE]
           /\ \A d \in Channel : d # c => v.channel[d] = u.channel[d]
<1> DEFINE s == w.active
           c == First(FreeChannels(u))
           x == [state |-> "connecting", stay |-> w.active, listened |-> FALSE]
           f == [kind |-> "connect", stay |-> s, origin |-> o, by |-> by,
                 current |-> Active(w).current, channel |-> c, room |-> None]
           m == [u EXCEPT !.channel[c] = x]
<1>1. s \in Stay /\ w.stay[s] \in StayRecord /\ Active(w) = w.stay[s]
  BY LiveStay DEF Good, Live
<1>2. /\ u \in PageRecord
      /\ u.active = w.active /\ u.room = w.room /\ u.job = w.job
      /\ w.stay[s].socket # None => u.channel[w.stay[s].socket] = Unused
      /\ \A d \in Channel : d # w.stay[s].socket => u.channel[d] = w.channel[d]
  <2>1. w \in PageRecord
    BY DEF Good
  <2>2. s \in Stay /\ u = SocketClosed(w, s)
    BY <1>1
  <2> HIDE DEF s, c, x, f, m
  <2> QED
    BY ONLY <2>1, <2>2, SocketClosedEffect
<1>3. c \in Channel /\ u.channel[c].state = "free"
  <2>1. PICK d \in Channel : w.channel[d].state = "free"
    BY DEF HasSpace, FreeChannels
  <2>2. u.channel[d].state = "free"
    <3>1. w.stay[s].socket # d => u.channel[d] = w.channel[d]
      BY <1>2
    <3>2. w.stay[s].socket = d => u.channel[d] = Unused
      BY <1>2, Numbers
    <3>3. Unused.state = "free"
      BY DEF Unused
    <3> QED
      BY ONLY <2>1, <3>1, <3>2, <3>3
  <2> QED
    BY <2>2, Taken DEF FreeChannels
<1>4. FreeJobs(m) # {}
  <2>1. FreeJobs(w) # {}
    BY DEF HasSpace
  <2>2. m.job = w.job
    BY <1>2 DEF PageRecord
  <2> QED
    BY ONLY <2>1, <2>2 DEF FreeJobs
<1>5. f \in JobRecord /\ x \in ChannelRecord
  <2>1. Active(w).current \in BOOLEAN
    BY <1>1 DEF StayRecord
  <2> QED
    BY <1>1, <1>3, <2>1 DEF JobRecord, ChannelRecord
<1>6. v = Begin(m, f)
  BY DEF ConnectEvents
<1>7. /\ f.kind = "connect" /\ f.stay = s /\ f.origin = o /\ f.by = by
      /\ f.current = w.stay[s].current /\ f.channel = c
  BY <1>1
<1>8. /\ m \in PageRecord
      /\ m.active = u.active /\ m.stay = u.stay /\ m.room = u.room /\ m.job = u.job
      /\ m.channel[c] = x /\ \A d \in Channel : d # c => m.channel[d] = u.channel[d]
  <2> HIDE DEF c, x, s
  <2> QED
    BY ONLY <1>2, <1>3, <1>5 DEF PageRecord
<1> HIDE DEF f, m, c
<1>9. PICK n \in Job :
        /\ v \in PageRecord
        /\ v.active = m.active /\ v.stay = m.stay /\ v.channel = m.channel /\ v.room = m.room
        /\ m.job[n].kind = "free" /\ v.job[n] = f
        /\ \A k \in Job : k # n => v.job[k] = m.job[k]
  BY ONLY <1>4, <1>5, <1>6, <1>8, BeginEffect
<1> QED
  BY ONLY <1>2, <1>3, <1>5, <1>7, <1>8, <1>9

LEMMA ConnectEventsGood ==
  ASSUME NEW sv, NEW w, Good(w, sv), Live(w) => HasSpace(w),
         NEW o \in Stay, NEW by \in {"enter", "timer", "full"}, NEW v, v = ConnectEvents(w, by, o)
  PROVE  Good(v, sv)
<1>1. CASE ~Live(w)
  BY <1>1, AfterEventsGood DEF ConnectEvents
<1>2. CASE Live(w)
  <2> DEFINE u == SocketClosed(w, w.active)
  <2>0. w.active \in Stay
    BY <1>2, LiveStay DEF Good, Live
  <2>1. Good(u, sv)
    BY <2>0, SocketClosedGood
  <2>2. PICK n \in Job, c \in Channel, f \in JobRecord :
           /\ w.job[n].kind = "free" /\ u.channel[c].state = "free"
           /\ f.kind = "connect" /\ f.stay = w.active /\ f.origin = o /\ f.by = by
           /\ f.current = w.stay[w.active].current /\ f.channel = c
           /\ v \in PageRecord
           /\ v.active = u.active /\ v.stay = u.stay /\ v.room = u.room
           /\ v.job[n] = f /\ \A k \in Job : k # n => v.job[k] = u.job[k]
           /\ v.channel[c] = [state |-> "connecting", stay |-> w.active, listened |-> FALSE]
           /\ \A d \in Channel : d # c => v.channel[d] = u.channel[d]
    BY <1>2, ConnectEventsEffect
  <2>3. /\ u.job = w.job /\ u.active = w.active
        /\ u.stay[w.active].current = w.stay[w.active].current
    <3>1. w \in PageRecord /\ w.stay[w.active] \in StayRecord
      BY <2>0 DEF Good, PageRecord
    <3> QED
      BY ONLY <2>0, <3>1, SocketClosedEffect DEF SameFlags
  <2> HIDE DEF u
  <2>4. Wired(v)
    <3>1. Wired(u)
      BY <2>1 DEF Good
    <3>2. ASSUME NEW t \in Stay, v.stay[t].socket # None
          PROVE  /\ v.channel[v.stay[t].socket].state = "open"
                 /\ v.channel[v.stay[t].socket].listened
                 /\ v.channel[v.stay[t].socket].stay = t
      <4>0. u.stay[t] \in StayRecord /\ u.stay[t].socket # None
        BY ONLY <2>1, <2>2, <3>2 DEF Good, PageRecord
      <4>1. u.stay[t].socket \in Channel
        BY ONLY <4>0 DEF StayRecord
      <4>2. u.channel[u.stay[t].socket].state = "open"
        BY ONLY <2>2, <3>1, <3>2 DEF Wired
      <4>3. v.channel[v.stay[t].socket] = u.channel[u.stay[t].socket]
        BY ONLY <2>2, <4>1, <4>2
      <4>4. u.channel[u.stay[t].socket].listened /\ u.channel[u.stay[t].socket].stay = t
        BY ONLY <3>1, <3>2, <4>0 DEF Wired
      <4>5. v.stay[t].socket = u.stay[t].socket
        BY ONLY <2>2
      <4> QED
        BY ONLY <4>2, <4>3, <4>4, <4>5
    <3>3. ASSUME NEW k \in Job, k # n, v.job[k].kind = "connect"
          PROVE  /\ v.job[k] = u.job[k] /\ v.job[k].channel \in Channel /\ v.job[k].channel # c
                 /\ v.channel[v.job[k].channel].state = "connecting"
                 /\ v.channel[v.job[k].channel].stay = v.job[k].stay
      <4>1. v.job[k] = u.job[k]
        BY ONLY <2>2, <3>3
      <4>2. /\ v.job[k].channel \in Channel
            /\ u.channel[v.job[k].channel].state = "connecting"
            /\ u.channel[v.job[k].channel].stay = v.job[k].stay
        BY ONLY <3>1, <3>3, <4>1 DEF Wired
      <4> QED
        BY ONLY <2>2, <4>1, <4>2
    <3>4. /\ v.job[n].channel = c /\ v.job[n].stay = w.active
          /\ v.channel[c].state = "connecting" /\ v.channel[c].stay = w.active
      BY ONLY <2>2
    <3>5. ASSUME NEW k \in Job, v.job[k].kind = "connect"
          PROVE  /\ v.job[k].channel \in Channel
                 /\ v.channel[v.job[k].channel].state = "connecting"
                 /\ v.channel[v.job[k].channel].stay = v.job[k].stay
      BY ONLY <3>3, <3>4, <3>5
    <3>6. ASSUME NEW k \in Job, NEW l \in Job, v.job[k].kind = "connect", v.job[l].kind = "connect",
                 v.job[k].channel = v.job[l].channel
          PROVE  k = l
      BY ONLY <3>1, <3>3, <3>4, <3>6 DEF Wired
    <3> QED
      BY ONLY <3>2, <3>5, <3>6 DEF Wired
  <2>5. Housed(v) /\ Calm(v)
    <3>1. Housed(u) /\ Calm(u)
      BY <2>1 DEF Good
    <3>2. \A k \in Job : v.job[k].kind = "join" =>
            u.job[k].kind = "join" /\ v.job[k].room = u.job[k].room /\ v.job[k].stay = u.job[k].stay
      BY ONLY <2>2
    <3>3. \A t \in Stay : v.stay[t].room = u.stay[t].room
      BY ONLY <2>2
    <3>4. Housed(v)
      BY ONLY <2>2, <3>1, <3>2, <3>3, HousedStays
    <3>5. Calm(v)
      BY ONLY <2>2, <3>1 DEF Calm
    <3> QED
      BY <3>4, <3>5
  <2>6. Entered(v)
    BY ONLY <2>1, <2>2, <2>3 DEF Good, Entered
  <2>7. Tokens(v, sv)
    BY ONLY <2>1, <2>2, <2>3 DEF Good, Tokens
  <2> QED
    BY ONLY <2>1, <2>2, <2>4, <2>5, <2>6, <2>7 DEF Good
<1> QED
  BY <1>1, <1>2

\* A stay that is left, or whose room has ended, is shut: its recoveries are cancelled,
\* its socket and its room are closed.
LEMMA ShutGood ==
  ASSUME NEW sv, NEW w, Good(w, sv), NEW s \in Stay, NEW e \in BOOLEAN, NEW q,
         q = [Quiet(w.stay[s]) EXCEPT !.ended = e],
         NEW v, v = RoomClosed(SocketClosed([w EXCEPT !.stay = [w.stay EXCEPT ![s] = q]], s), s)
  PROVE  Good(v, sv) /\ v.active = w.active /\ v.job = w.job /\ v.stay[s].leaving
         /\ \A c \in Channel : v.channel[c] \in {w.channel[c], Unused}
<1> DEFINE x == [w EXCEPT !.stay = [w.stay EXCEPT ![s] = q]]
           u == SocketClosed(w, s)
           st == [q EXCEPT !.socket = None]
<1>1. /\ w.stay[s] \in StayRecord /\ q \in StayRecord /\ st \in StayRecord
      /\ q.socket = w.stay[s].socket
  <2>1. w.stay[s] \in StayRecord
    BY DEF Good, PageRecord
  <2>2. q \in StayRecord /\ q.socket = w.stay[s].socket
    BY ONLY <2>1, q = [Quiet(w.stay[s]) EXCEPT !.ended = e], e \in BOOLEAN DEF Quiet, StayRecord
  <2> QED
    BY ONLY <2>1, <2>2 DEF StayRecord
<1>2. SocketClosed(x, s) = [u EXCEPT !.stay = [u.stay EXCEPT ![s] = st]]
  <2>0. w \in PageRecord
    BY DEF Good
  <2>1. /\ x.stay[s] = q /\ x.channel = w.channel /\ x.stay = [w.stay EXCEPT ![s] = q]
    BY ONLY <2>0, s \in Stay DEF PageRecord
  <2>2. CASE q.socket = None
    <3>1. SocketClosed(x, s) = x /\ u = w
      BY ONLY <2>1, <2>2, <1>1 DEF SocketClosed
    <3>2. st = q
      BY ONLY <1>1, <2>2 DEF StayRecord
    <3> QED
      BY ONLY <3>1, <3>2
  <2>3. CASE q.socket # None
    <3> DEFINE c == q.socket
    <3>1. SocketClosed(x, s) = [x EXCEPT !.channel = [x.channel EXCEPT ![c] = Unused],
                                         !.stay = [x.stay EXCEPT ![s] = [x.stay[s] EXCEPT !.socket = None]]]
      BY ONLY <2>0, <2>1, <2>3, s \in Stay DEF SocketClosed, PageRecord
    <3>2. u = [w EXCEPT !.channel = [w.channel EXCEPT ![c] = Unused],
                        !.stay = [w.stay EXCEPT ![s] = [w.stay[s] EXCEPT !.socket = None]]]
      BY ONLY <1>1, <2>0, <2>3, s \in Stay DEF SocketClosed, PageRecord
    <3> HIDE DEF c
    <3>3. SocketClosed(x, s) = [w EXCEPT !.channel = [w.channel EXCEPT ![c] = Unused],
                                         !.stay = [w.stay EXCEPT ![s] = st]]
      BY ONLY <2>0, <2>1, <3>1, s \in Stay DEF PageRecord
    <3>4. u.stay = [w.stay EXCEPT ![s] = [w.stay[s] EXCEPT !.socket = None]]
      BY ONLY <2>0, <3>2 DEF PageRecord
    <3>5. [u.stay EXCEPT ![s] = st] = [w.stay EXCEPT ![s] = st]
      BY ONLY <2>0, <3>4, s \in Stay DEF PageRecord
    <3> HIDE DEF x, u, st
    <3> QED
      BY ONLY <2>0, <3>2, <3>3, <3>5 DEF PageRecord
  <2> QED
    BY <2>2, <2>3
<1>3. Good(u, sv)
  BY SocketClosedGood
<1>4. /\ SameFlags(w, u) /\ u.stay[s].socket = None /\ u.stay[s].room = w.stay[s].room
  BY SocketClosedEffect DEF Good
<1>5. /\ st.entered = u.stay[s].entered /\ st.current = u.stay[s].current
      /\ st.socket = u.stay[s].socket /\ st.room = u.stay[s].room
      /\ st.leaving /\ ~st.events /\ ~st.media /\ ~st.full /\ st.socket = None
  BY ONLY <1>1, <1>4, s \in Stay, q = [Quiet(w.stay[s]) EXCEPT !.ended = e], e \in BOOLEAN
  DEF Quiet, StayRecord, SameFlags
<1> HIDE DEF u, st
<1>6. Good(SocketClosed(x, s), sv)
  BY ONLY <1>1, <1>2, <1>3, <1>5, s \in Stay, FlagsGood
<1>7. /\ SocketClosed(x, s).active = w.active /\ SocketClosed(x, s).job = w.job
      /\ SocketClosed(x, s).stay[s].leaving /\ SocketClosed(x, s).channel = u.channel
      /\ \A c \in Channel : u.channel[c] \in {w.channel[c], Unused}
  <2>0. w \in PageRecord
    BY DEF Good
  <2>1. /\ u.active = w.active /\ u.job = w.job
        /\ w.stay[s].socket # None => u.channel[w.stay[s].socket] = Unused
        /\ \A c \in Channel : c # w.stay[s].socket => u.channel[c] = w.channel[c]
    BY ONLY <2>0, s \in Stay, SocketClosedEffect DEF u
  <2>2. u \in PageRecord
    BY <1>3 DEF Good
  <2> QED
    BY ONLY <1>2, <1>5, <2>1, <2>2, s \in Stay, Numbers DEF PageRecord
<1> DEFINE y == SocketClosed(x, s)
<1>8. Good(y, sv) /\ y.active = w.active /\ y.job = w.job /\ y.stay[s].leaving /\ v = RoomClosed(y, s)
      /\ \A c \in Channel : y.channel[c] \in {w.channel[c], Unused}
  BY <1>6, <1>7
<1> HIDE DEF x, y
<1>9. Good(v, sv)
  BY ONLY <1>8, s \in Stay, RoomClosedGood
<1>10. y \in PageRecord
  BY ONLY <1>8 DEF Good
<1>11. v.active = y.active /\ v.job = y.job /\ v.channel = y.channel /\ SameFlags(y, v)
  BY ONLY <1>8, <1>10, s \in Stay, RoomClosedEffect
<1> QED
  BY ONLY <1>8, <1>9, <1>11, s \in Stay DEF SameFlags

\* A stay that is left is shut, and its cleanup goes on.
LEMMA CleanupRoomGood ==
  ASSUME NEW sv, NEW w, Good(w, sv), w.active # None, FreeJobs(w) # {}, NEW v, v = CleanupRoom(w)
  PROVE  Good(v, sv) /\ ~Live(v) /\ \A c \in Channel : v.channel[c] \in {w.channel[c], Unused}
<1> DEFINE s == w.active
           q == Quiet(w.stay[s])
           u == RoomClosed(SocketClosed([w EXCEPT !.stay = [w.stay EXCEPT ![s] = q]], s), s)
           f == [Idle EXCEPT !.kind = "cleanup", !.stay = s]
<1>1. s \in Stay /\ w.stay[s] \in StayRecord
  BY LiveStay DEF Good, PageRecord
<1>2. q = [Quiet(w.stay[s]) EXCEPT !.ended = w.stay[s].ended] /\ w.stay[s].ended \in BOOLEAN
  BY ONLY <1>1 DEF q, Quiet, StayRecord
<1>3. v = Begin(u, f)
  <2>1. [w EXCEPT !.stay[s] = Quiet(@)] = [w EXCEPT !.stay = [w.stay EXCEPT ![s] = q]]
    OBVIOUS
  <2> QED
    BY <2>1 DEF CleanupRoom
<1>4. f \in JobRecord /\ f.kind = "cleanup" /\ f.current = FALSE
  BY <1>1, Numbers DEF Idle, JobRecord
<1> HIDE DEF s, q, f
<1>5. /\ Good(u, sv) /\ u.active = w.active /\ u.job = w.job /\ u.stay[s].leaving
      /\ \A c \in Channel : u.channel[c] \in {w.channel[c], Unused}
  BY <1>1, <1>2, ShutGood
<1> HIDE DEF u
<1>6. FreeJobs(u) # {}
  BY <1>5 DEF FreeJobs
<1>7. Good(v, sv)
  BY <1>3, <1>4, <1>5, <1>6, BeginGood
<1>8. u \in PageRecord
  BY <1>5 DEF Good
<1>9. v.active = u.active /\ v.stay = u.stay /\ v.channel = u.channel
  BY ONLY <1>3, <1>4, <1>6, <1>8, BeginEffect
<1> QED
  BY ONLY <1>5, <1>7, <1>9 DEF Live, Active, s

LEMMA HandleRoomEndedGood ==
  ASSUME NEW sv, NEW w, Good(w, sv), FreeJobs(w) # {}, NEW empty \in BOOLEAN,
         NEW v, v = HandleRoomEnded(w, empty)
  PROVE  Good(v, sv) /\ ~Live(v) /\ \A c \in Channel : v.channel[c] \in {w.channel[c], Unused}
<1>1. CASE w.active = None
  BY <1>1 DEF HandleRoomEnded, Live
<1>2. CASE w.active # None /\ Active(w).ended
  <2>1. v = w
    BY <1>2 DEF HandleRoomEnded
  <2>2. Active(w).leaving
    BY <1>2, LiveStay DEF Good, Calm
  <2> QED
    BY <2>1, <2>2 DEF Live
<1>3. CASE w.active # None /\ ~Active(w).ended /\ empty
  BY <1>3, CleanupRoomGood DEF HandleRoomEnded
<1>4. CASE w.active # None /\ ~Active(w).ended /\ ~empty
  <2> DEFINE s == w.active
             q == [Quiet(w.stay[s]) EXCEPT !.ended = TRUE]
  <2>1. s \in Stay
    BY <1>4, LiveStay DEF Good
  <2>2. v = RoomClosed(SocketClosed([w EXCEPT !.stay = [w.stay EXCEPT ![s] = q]], s), s)
    <3>1. [w EXCEPT !.stay[s] = [Quiet(@) EXCEPT !.ended = TRUE]] = [w EXCEPT !.stay = [w.stay EXCEPT ![s] = q]]
      OBVIOUS
    <3> QED
      BY <1>4, <3>1 DEF HandleRoomEnded
  <2>3. PICK e \in BOOLEAN : q = [Quiet(w.stay[s]) EXCEPT !.ended = e]
    OBVIOUS
  <2> HIDE DEF s, q
  <2>4. /\ Good(v, sv) /\ v.active = w.active /\ v.stay[s].leaving
        /\ \A c \in Channel : v.channel[c] \in {w.channel[c], Unused}
    BY <2>1, <2>2, <2>3, ShutGood
  <2> QED
    BY ONLY <2>4 DEF Live, Active, s
<1> QED
  BY <1>1, <1>2, <1>3, <1>4

-----------------------------------------------------------------------------
(* What cares for the active stay *)

\* What cares for a stay goes on to, unless it is given up or is the job j, which ends.
LEMMA LeftToCare ==
  ASSUME NEW w, NEW v, NEW s, NEW j \in Job,
         \A k \in Job : k # j /\ w.job[k].kind # "free" => v.job[k] = w.job[k]
  PROVE  /\ ChannelIsCared(w, s) =>
              \/ ChannelIsCared(v, s)
              \/ RestoresChannel(w.job[j], s)
              \/ w.stay[s].socket # None /\ v.stay[s].socket = None
              \/ w.stay[s].events /\ ~v.stay[s].events
              \/ w.stay[s].full /\ ~v.stay[s].full
         /\ RoomIsCared(w, s) =>
              \/ RoomIsCared(v, s)
              \/ RestoresRoom(w.job[j], s)
              \/ IsUp(w, s) /\ ~IsUp(v, s)
              \/ w.stay[s].media /\ ~v.stay[s].media
              \/ w.stay[s].full /\ ~v.stay[s].full
<1>1. ASSUME NEW k \in Job, k # j, RestoresChannel(w.job[k], s)
      PROVE  ChannelIsCared(v, s)
  <2>1. v.job[k] = w.job[k]
    BY <1>1 DEF RestoresChannel
  <2> QED
    BY ONLY <1>1, <2>1 DEF ChannelIsCared
<1>2. ASSUME NEW k \in Job, k # j, RestoresRoom(w.job[k], s)
      PROVE  RoomIsCared(v, s)
  <2>1. v.job[k] = w.job[k]
    BY <1>2 DEF RestoresRoom
  <2> QED
    BY ONLY <1>2, <2>1 DEF RoomIsCared
<1>3. ChannelIsCared(w, s) =>
              \/ ChannelIsCared(v, s)
              \/ RestoresChannel(w.job[j], s)
              \/ w.stay[s].socket # None /\ v.stay[s].socket = None
              \/ w.stay[s].events /\ ~v.stay[s].events
              \/ w.stay[s].full /\ ~v.stay[s].full
  BY <1>1 DEF ChannelIsCared
<1>4. RoomIsCared(w, s) =>
              \/ RoomIsCared(v, s)
              \/ RestoresRoom(w.job[j], s)
              \/ IsUp(w, s) /\ ~IsUp(v, s)
              \/ w.stay[s].media /\ ~v.stay[s].media
              \/ w.stay[s].full /\ ~v.stay[s].full
  BY <1>2 DEF RoomIsCared
<1> QED
  BY <1>3, <1>4

\* The same if no job ends.
LEMMA StillCared ==
  ASSUME NEW w, NEW v, NEW s,
         \A k \in Job : w.job[k].kind # "free" => v.job[k] = w.job[k]
  PROVE  /\ ChannelIsCared(w, s) =>
              \/ ChannelIsCared(v, s)
              \/ w.stay[s].socket # None /\ v.stay[s].socket = None
              \/ w.stay[s].events /\ ~v.stay[s].events
              \/ w.stay[s].full /\ ~v.stay[s].full
         /\ RoomIsCared(w, s) =>
              \/ RoomIsCared(v, s)
              \/ IsUp(w, s) /\ ~IsUp(v, s)
              \/ w.stay[s].media /\ ~v.stay[s].media
              \/ w.stay[s].full /\ ~v.stay[s].full
<1>1. ASSUME NEW j \in Job, RestoresChannel(w.job[j], s) PROVE ChannelIsCared(v, s)
  <2>1. v.job[j] = w.job[j]
    BY <1>1 DEF RestoresChannel
  <2> QED
    BY ONLY <1>1, <2>1 DEF ChannelIsCared
<1>2. ASSUME NEW j \in Job, RestoresRoom(w.job[j], s) PROVE RoomIsCared(v, s)
  <2>1. v.job[j] = w.job[j]
    BY <1>2 DEF RestoresRoom
  <2> QED
    BY ONLY <1>2, <2>1 DEF RoomIsCared
<1>3. ChannelIsCared(w, s) =>
              \/ ChannelIsCared(v, s)
              \/ w.stay[s].socket # None /\ v.stay[s].socket = None
              \/ w.stay[s].events /\ ~v.stay[s].events
              \/ w.stay[s].full /\ ~v.stay[s].full
  BY <1>1 DEF ChannelIsCared
<1>4. RoomIsCared(w, s) =>
              \/ RoomIsCared(v, s)
              \/ IsUp(w, s) /\ ~IsUp(v, s)
              \/ w.stay[s].media /\ ~v.stay[s].media
              \/ w.stay[s].full /\ ~v.stay[s].full
  BY <1>2 DEF RoomIsCared
<1> QED
  BY <1>3, <1>4

\* A full recovery cares for both connections.
LEMMA ScheduleFullCares ==
  ASSUME NEW w \in PageRecord, NEW v, v = ScheduleFull(w)
  PROVE  Cared(v) /\ (Live(v) => Live(w) /\ v.active = w.active /\ Active(v).full)
<1>1. CASE ~Live(w) \/ Active(w).full
  BY <1>1 DEF ScheduleFull, Cared, ChannelIsCared, RoomIsCared, Active
<1>2. CASE Live(w) /\ ~Active(w).full
  <2>1. v.active = w.active /\ v.stay[w.active].full
    BY <1>2, ScheduleFullEffect
  <2> QED
    BY <1>2, <2>1 DEF Cared, ChannelIsCared, RoomIsCared, Active
<1> QED
  BY <1>1, <1>2

\* A media reconnect cares for the room.
LEMMA ScheduleMediaCares ==
  ASSUME NEW w \in PageRecord, Live(w) => ChannelIsCared(w, w.active), NEW v, v = ScheduleMedia(w)
  PROVE  Cared(v)
<1>1. CASE ~Live(w)
  BY <1>1 DEF ScheduleMedia, Cared
<1>2. CASE Live(w)
  <2> DEFINE s == w.active
  <2>1. /\ v.active = w.active /\ v.job = w.job
        /\ v.stay[s].media
        /\ v.stay[s].socket = w.stay[s].socket
        /\ v.stay[s].events = w.stay[s].events
        /\ v.stay[s].full = w.stay[s].full
    BY <1>2, ScheduleMediaEffect
  <2>2. ChannelIsCared(v, s)
    BY ONLY <1>2, <2>1, Live(w) => ChannelIsCared(w, w.active) DEF ChannelIsCared
  <2> QED
    BY ONLY <2>1, <2>2 DEF Cared, RoomIsCared
<1> QED
  BY <1>1, <1>2

\* So does connectMedia.
LEMMA ConnectMediaCares ==
  ASSUME NEW w \in PageRecord, Live(w) => FreeJobs(w) # {} /\ ChannelIsCared(w, w.active),
         NEW o \in Stay, NEW v, v = ConnectMedia(w, o)
  PROVE  Cared(v)
<1>1. CASE ~Live(w)
  BY <1>1 DEF ConnectMedia, Cared
<1>2. CASE Live(w)
  <2> DEFINE f == [Idle EXCEPT !.kind = "import", !.stay = w.active, !.origin = o]
  <2>1. f \in JobRecord /\ f.kind = "import" /\ f.stay = w.active
    BY <1>2, LiveStay, Numbers DEF Live, Idle, JobRecord
  <2>2. v = Begin(w, f)
    BY <1>2 DEF ConnectMedia
  <2> HIDE DEF f
  <2>3. PICK n \in Job :
          /\ v.active = w.active /\ v.stay = w.stay
          /\ w.job[n].kind = "free" /\ v.job[n] = f
          /\ \A k \in Job : k # n => v.job[k] = w.job[k]
    BY <1>2, <2>1, <2>2, BeginEffect
  <2>4. ChannelIsCared(v, w.active)
    BY <1>2, <2>3, StillCared
  <2>5. RoomIsCared(v, w.active)
    BY ONLY <2>1, <2>3 DEF RoomIsCared, RestoresRoom
  <2> QED
    BY <2>3, <2>4, <2>5 DEF Cared
<1> QED
  BY <1>1, <1>2

\* Once the channel is cared for, what follows connectEvents cares for the room, unless
\* another call does.
LEMMA AfterEventsCares ==
  ASSUME NEW w \in PageRecord, NEW o \in Stay, NEW by,
         Live(w) => /\ FreeJobs(w) # {} /\ ChannelIsCared(w, w.active)
                    /\ RoomIsCared(w, w.active) \/ by = "enter" \/ (by = "full" /\ o = w.active),
         NEW v, v = AfterEvents(w, by, o)
  PROVE  Cared(v)
<1>1. CASE v = ConnectMedia(w, o)
  BY <1>1, ConnectMediaCares
<1>2. CASE v # ConnectMedia(w, o)
  <2>1. v = w /\ (by = "timer" \/ (by = "full" /\ IsUp(w, o)))
    BY <1>2 DEF AfterEvents
  <2> QED
    BY <2>1 DEF Cared, RoomIsCared
<1> QED
  BY <1>1, <1>2

\* A channel that fails is cared for by a full recovery, the room as well.
LEMMA EventsFailedCares ==
  ASSUME NEW sv, NEW w, Good(w, sv), Live(w) => FreeJobs(w) # {}, NEW o \in Stay, NEW by,
         NEW v, v = EventsFailed(w, by, o)
  PROVE  Cared(v)
<1> DEFINE u == ScheduleFull(w)
<1>1. Cared(u) /\ (Live(u) => Live(w) /\ u.active = w.active /\ Active(u).full) /\ u \in PageRecord
  BY ScheduleFullCares, ScheduleFullGood DEF Good
<1>2. FreeJobs(u) = FreeJobs(w)
  <2>1. w \in PageRecord
    BY DEF Good
  <2>2. CASE Live(w) /\ ~Active(w).full
    BY <2>1, <2>2, ScheduleFullEffect DEF FreeJobs
  <2>3. CASE ~Live(w) \/ Active(w).full
    BY <2>3 DEF ScheduleFull
  <2> QED
    BY <2>2, <2>3
<1>3. Live(u) => ChannelIsCared(u, u.active)
  BY <1>1 DEF Cared
<1>4. v = u \/ v = ConnectMedia(u, o)
  BY DEF EventsFailed
<1> HIDE DEF u
<1> QED
  BY <1>1, <1>2, <1>3, <1>4, ConnectMediaCares

\* connectEvents cares for the channel.
LEMMA ConnectEventsCares ==
  ASSUME NEW sv, NEW w, Good(w, sv), NEW o \in Stay, NEW by \in {"enter", "timer", "full"},
         Live(w) => /\ HasSpace(w)
                    /\ RoomIsCared(w, w.active) \/ by = "enter" \/ (by = "full" /\ o = w.active),
         NEW v, v = ConnectEvents(w, by, o)
  PROVE  Cared(v)
<1>1. CASE ~Live(w)
  <2>1. v = w
    BY <1>1 DEF ConnectEvents, AfterEvents, ConnectMedia
  <2> QED
    BY <1>1, <2>1 DEF Cared
<1>2. CASE Live(w)
  <2> DEFINE u == SocketClosed(w, w.active)
             s == w.active
  <2>0. s \in Stay /\ w \in PageRecord
    BY <1>2, LiveStay DEF Good, Live
  <2>1. PICK n \in Job, c \in Channel, f \in JobRecord :
           /\ w.job[n].kind = "free" /\ u.channel[c].state = "free"
           /\ f.kind = "connect" /\ f.stay = w.active /\ f.origin = o /\ f.by = by
           /\ f.current = w.stay[w.active].current /\ f.channel = c
           /\ v \in PageRecord
           /\ v.active = u.active /\ v.stay = u.stay /\ v.room = u.room
           /\ v.job[n] = f /\ \A k \in Job : k # n => v.job[k] = u.job[k]
           /\ v.channel[c] = [state |-> "connecting", stay |-> w.active, listened |-> FALSE]
           /\ \A d \in Channel : d # c => v.channel[d] = u.channel[d]
    BY <1>2, ConnectEventsEffect
  <2>2. /\ u.active = w.active /\ u.job = w.job /\ u.room = w.room
        /\ SameFlags(w, u) /\ \A t \in Stay : u.stay[t].room = w.stay[t].room
    BY <2>0, SocketClosedEffect
  <2> HIDE DEF u, s
  <2>3. /\ v.active = s /\ \A k \in Job : w.job[k].kind # "free" => v.job[k] = w.job[k]
        /\ v.stay[s].room = w.stay[s].room /\ v.room = w.room
        /\ v.stay[s].media = w.stay[s].media /\ v.stay[s].full = w.stay[s].full
        /\ v.job[n].kind = "connect" /\ v.job[n].stay = s /\ v.job[n].by = by /\ v.job[n].origin = o
    BY ONLY <2>0, <2>1, <2>2 DEF SameFlags, s
  <2>4. ChannelIsCared(v, s)
    BY ONLY <2>3 DEF ChannelIsCared, RestoresChannel
  <2>5. CASE RoomIsCared(w, s)
    <3>1. IsUp(w, s) => IsUp(v, s)
      BY ONLY <2>3 DEF IsUp
    <3>2. RoomIsCared(v, s)
      BY <2>3, <2>5, <3>1, StillCared
    <3> QED
      BY ONLY <2>3, <2>4, <3>2 DEF Cared
  <2>6. CASE by = "enter" \/ (by = "full" /\ o = s)
    <3>1. RoomIsCared(v, s)
      BY ONLY <2>3, <2>6 DEF RoomIsCared, RestoresRoom
    <3> QED
      BY ONLY <2>3, <2>4, <3>1 DEF Cared
  <2> QED
    BY <1>2, <2>5, <2>6 DEF s
<1> QED
  BY <1>1, <1>2

-----------------------------------------------------------------------------
(* Entering, leaving, and the end of a room *)

\* The server may forget a token, and whether a member is in.
LEMMA ServerGood ==
  ASSUME NEW w, NEW sv, NEW su \in ServerRecord, Good(w, sv), \A s \in Stay : sv[s].lost => su[s].lost
  PROVE  Good(w, su)
BY DEF Good, Tokens

\* A channel nobody uses may be opened or closed.
LEMMA ChannelGood ==
  ASSUME NEW sv, NEW w, Good(w, sv), NEW c \in Channel, NEW x \in ChannelRecord,
         \A s \in Stay : w.stay[s].socket # c,
         \A j \in Job : w.job[j].kind = "connect" => w.job[j].channel # c,
         NEW v, v = [w EXCEPT !.channel = [w.channel EXCEPT ![c] = x]]
  PROVE  Good(v, sv)
<1>1. /\ v \in PageRecord
      /\ v.active = w.active /\ v.stay = w.stay /\ v.room = w.room /\ v.job = w.job
      /\ \A d \in Channel : d # c => v.channel[d] = w.channel[d]
  BY DEF Good, PageRecord
<1>2. Wired(v)
  <2>0. Wired(w) /\ w \in PageRecord
    BY DEF Good
  <2>1. \A s \in Stay : w.stay[s].socket # None => w.stay[s].socket \in Channel /\ w.stay[s].socket # c
    BY <2>0, PlacesTyped
  <2>2. ASSUME NEW s \in Stay, v.stay[s].socket # None
        PROVE  /\ v.channel[v.stay[s].socket].state = "open"
               /\ v.channel[v.stay[s].socket].listened
               /\ v.channel[v.stay[s].socket].stay = s
    <3>1. v.channel[v.stay[s].socket] = w.channel[w.stay[s].socket]
      BY ONLY <1>1, <2>1, <2>2
    <3>2. v.stay[s].socket = w.stay[s].socket
      BY ONLY <1>1
    <3> QED
      BY ONLY <2>0, <2>2, <3>1, <3>2, SocketIsOpen
  <2>3. ASSUME NEW j \in Job, v.job[j].kind = "connect"
        PROVE  /\ v.job[j].channel \in Channel
               /\ v.channel[v.job[j].channel].state = "connecting"
               /\ v.channel[v.job[j].channel].stay = v.job[j].stay
    <3>1. v.job[j] = w.job[j] /\ w.job[j].channel # c
      BY <1>1, <2>3
    <3> QED
      BY ONLY <1>1, <2>0, <2>3, <3>1 DEF Wired
  <2>4. \A j, k \in Job :
          v.job[j].kind = "connect" /\ v.job[k].kind = "connect" /\ v.job[j].channel = v.job[k].channel
          => j = k
    BY ONLY <1>1, <2>0 DEF Wired
  <2> QED
    BY ONLY <2>2, <2>3, <2>4 DEF Wired
<1>3. Housed(v) /\ Calm(v) /\ Entered(v)
  <2>1. Housed(w) /\ Calm(w) /\ Entered(w)
    BY DEF Good
  <2>2. Housed(v)
    BY ONLY <1>1, <2>1, WiredAndHoused
  <2>3. Calm(v) /\ Entered(v)
    BY ONLY <1>1, <2>1 DEF Calm, Entered
  <2> QED
    BY <2>2, <2>3
<1>4. Tokens(v, sv)
  BY ONLY <1>1, Good(w, sv) DEF Good, Tokens
<1> QED
  BY ONLY <1>1, <1>2, <1>3, <1>4, Good(w, sv) DEF Good

\* The channel c of the stay s is no longer open.
Dropped(w, c, s) == [w EXCEPT !.channel[c] = Unused, !.stay[s].socket = IF @ = c THEN None ELSE @]

\* An open channel closes: the stay that uses it, if any, has no socket any more.
LEMMA OpenChannelGood ==
  ASSUME NEW sv, NEW w, Good(w, sv), NEW c \in Channel, NEW s \in Stay,
         w.channel[c].state # "connecting",
         w.channel[c].state = "open" => w.channel[c].stay = s,
         NEW v, v = Dropped(w, c, s)
  PROVE  /\ Good(v, sv)
         /\ v.active = w.active /\ v.room = w.room /\ v.job = w.job
         /\ SameFlags(w, v) /\ \A t \in Stay : v.stay[t].room = w.stay[t].room
         /\ w.stay[s].socket # c => v.stay[s].socket = w.stay[s].socket
         /\ \A t \in Stay : t # s => v.stay[t].socket = w.stay[t].socket
<1>1. \A t \in Stay : w.stay[t].socket = c => t = s
  BY Numbers DEF Good, Wired
<1>2. w \in PageRecord /\ w.stay[s] \in StayRecord
  BY DEF Good, PageRecord
<1>3. CASE w.stay[s].socket = c
  <2>1. v = SocketClosed(w, s)
    <3>1. c # None
      BY Numbers
    <3>2. v = [w EXCEPT !.channel[c] = Unused, !.stay[s].socket = None]
      BY <1>3 DEF Dropped
    <3> QED
      BY <1>3, <3>1, <3>2 DEF SocketClosed
  <2> QED
    BY <1>2, <1>3, <2>1, SocketClosedGood, SocketClosedEffect
<1>4. CASE w.stay[s].socket # c
  <2>1. v = [w EXCEPT !.channel = [w.channel EXCEPT ![c] = Unused]]
    <3>1. [w.stay EXCEPT ![s].socket = IF @ = c THEN None ELSE @] = w.stay
      <4>1. [w.stay[s] EXCEPT !.socket = IF @ = c THEN None ELSE @] = w.stay[s]
        BY ONLY <1>2, <1>4 DEF StayRecord
      <4> QED
        BY ONLY <1>2, <4>1, s \in Stay DEF PageRecord
    <3>2. v = [w EXCEPT !.channel[c] = Unused,
                        !.stay = [w.stay EXCEPT ![s].socket = IF @ = c THEN None ELSE @]]
      BY DEF Dropped
    <3> QED
      BY ONLY <1>2, <3>1, <3>2 DEF PageRecord
  <2>2. \A j \in Job : w.job[j].kind = "connect" => w.job[j].channel # c
    BY DEF Good, Wired
  <2>3. Good(v, sv)
    BY ONLY <1>1, <1>4, <2>1, <2>2, Good(w, sv), c \in Channel, Empty, ChannelGood
  <2>4. /\ v.active = w.active /\ v.room = w.room /\ v.job = w.job /\ v.stay = w.stay
    BY ONLY <1>2, <2>1 DEF PageRecord
  <2> QED
    BY ONLY <2>3, <2>4, <1>4 DEF SameFlags
<1> QED
  BY <1>3, <1>4

\* A stay is entered.
LEMMA EnterRoomKeeps ==
  ASSUME SessionInv, NEW s \in Stay, EnterRoom(s)
  PROVE  SessionInv'
<1> DEFINE st == [page.stay[s] EXCEPT !.entered = TRUE, !.current = TRUE]
           w == [page EXCEPT !.active = s, !.stay = [page.stay EXCEPT ![s] = st]]
<1>0. /\ Good(page, server) /\ page \in PageRecord /\ page.stay[s] \in StayRecord
      /\ ~page.stay[s].entered /\ HasSpace(page) /\ server' = server
  BY DEF SessionInv, Good, PageRecord, EnterRoom
<1>1. page' = ConnectEvents(w, "enter", s)
  <2>1. [page EXCEPT !.active = s, !.stay[s].entered = TRUE, !.stay[s].current = TRUE] = w
    BY ONLY <1>0, s \in Stay DEF PageRecord
  <2> QED
    BY <2>1 DEF EnterRoom
<1>2. /\ st \in StayRecord /\ st.entered /\ st.current
      /\ st.leaving = page.stay[s].leaving /\ st.ended = page.stay[s].ended
      /\ st.socket = page.stay[s].socket /\ st.room = page.stay[s].room
      /\ st.events = page.stay[s].events /\ st.media = page.stay[s].media /\ st.full = page.stay[s].full
  BY ONLY <1>0 DEF StayRecord
<1> HIDE DEF st
<1>3. /\ w \in PageRecord
      /\ w.active = s /\ w.channel = page.channel /\ w.room = page.room /\ w.job = page.job
      /\ w.stay[s] = st /\ \A t \in Stay : t # s => w.stay[t] = page.stay[t]
  BY ONLY <1>0, <1>2, s \in Stay DEF PageRecord
<1> HIDE DEF w
<1>4. \A t \in Stay : w.stay[t].socket = page.stay[t].socket /\ w.stay[t].room = page.stay[t].room
  BY ONLY <1>2, <1>3
<1>5. Wired(w) /\ Housed(w)
  <2>1. Wired(page) /\ Housed(page)
    BY <1>0 DEF Good
  <2>2. Wired(w)
    BY ONLY <1>3, <1>4, <2>1, WiredStays
  <2>3. Housed(w)
    BY ONLY <1>3, <1>4, <2>1, HousedStays
  <2> QED
    BY <2>2, <2>3
<1>6. Calm(w)
  <2>1. ASSUME NEW t \in Stay
        PROVE  /\ w.stay[t].leaving = page.stay[t].leaving /\ w.stay[t].ended = page.stay[t].ended
               /\ w.stay[t].events = page.stay[t].events /\ w.stay[t].media = page.stay[t].media
               /\ w.stay[t].full = page.stay[t].full
    BY ONLY <1>2, <1>3, <2>1
  <2> QED
    BY ONLY <1>0, <1>4, <2>1 DEF Good, Calm
<1>7. Entered(w)
  <2>1. \A t \in Stay : page.stay[t].entered => w.stay[t].entered
    BY ONLY <1>2, <1>3
  <2>2. \A t \in Stay : w.stay[t].full => w.stay[t].entered
    BY ONLY <1>0, <1>2, <1>3 DEF Good, Entered
  <2>3. \A j \in Job : page.job[j].stay \in Stay
    BY <1>0 DEF PageRecord, JobRecord
  <2> QED
    BY ONLY <1>0, <1>2, <1>3, <2>1, <2>2, <2>3 DEF Good, Entered
<1>8. Tokens(w, server)
  <2>1. \A j \in Job : page.job[j].kind = "resumed" => page.job[j].stay # s /\ page.job[j].stay \in Stay
    BY <1>0 DEF Good, Entered, PageRecord, JobRecord
  <2> QED
    BY ONLY <1>0, <1>2, <1>3, <2>1 DEF Good, Tokens
<1>9. Good(w, server) /\ HasSpace(w)
  BY ONLY <1>0, <1>3, <1>5, <1>6, <1>7, <1>8 DEF Good, HasSpace, FreeJobs, FreeChannels, FreeRooms
<1>10. Good(page', server) /\ Cared(page')
  BY ONLY <1>1, <1>9, s \in Stay, ConnectEventsGood, ConnectEventsCares
<1> QED
  BY <1>0, <1>10 DEF SessionInv

\* A stay is left.
LEMMA LeaveRoomKeeps ==
  ASSUME SessionInv, NEW heard \in BOOLEAN, LeaveRoom(heard)
  PROVE  SessionInv'
<1>1. Good(page, server) /\ page \in PageRecord /\ page.active # None /\ FreeJobs(page) # {}
  BY DEF SessionInv, Good, LeaveRoom, HasSpace
<1>2. Good(page', server) /\ ~Live(page')
  BY <1>1, CleanupRoomGood DEF LeaveRoom
<1>3. server' \in ServerRecord /\ \A s \in Stay : server[s].lost => server'[s].lost
  <2>1. server \in ServerRecord /\ page.active \in Stay
    BY <1>1, LiveStay DEF Good
  <2> DEFINE m == IF heard /\ server[page.active].member = "in" THEN "left" ELSE server[page.active].member
  <2>2. server' = [server EXCEPT ![page.active] = [server[page.active] EXCEPT !.member = m]]
    BY <2>1 DEF LeaveRoom, ServerRecord
  <2>3. m \in {"in", "left", "ended"}
    BY <2>1 DEF ServerRecord
  <2> HIDE DEF m
  <2> QED
    BY ONLY <2>1, <2>2, <2>3 DEF ServerRecord
<1>4. Good(page', server')
  BY <1>2, <1>3, ServerGood
<1> QED
  BY <1>2, <1>4 DEF SessionInv, Cared

LEMMA CleanupEndsKeeps ==
  ASSUME SessionInv, NEW j \in Job, CleanupEnds(j)
  PROVE  SessionInv'
<1> DEFINE w == Done(page, j)
<1>1. Good(w, server)
  BY DoneGood DEF SessionInv, CleanupEnds
<1>2. page' = [w EXCEPT !.active = None] /\ server' = server
  BY DEF CleanupEnds
<1> HIDE DEF w
<1>3. /\ page' \in PageRecord /\ page'.active = None
      /\ page'.stay = w.stay /\ page'.channel = w.channel /\ page'.room = w.room /\ page'.job = w.job
  BY ONLY <1>1, <1>2 DEF Good, PageRecord
<1>4. Good(page', server)
  <2>1. Wired(page') /\ Housed(page')
    BY ONLY <1>1, <1>3, WiredStays, HousedStays DEF Good
  <2>2. Calm(page') /\ Entered(page')
    BY ONLY <1>1, <1>3 DEF Good, Calm, Entered
  <2>3. Tokens(page', server)
    BY ONLY <1>1, <1>3, SameTokens DEF Good
  <2> QED
    BY ONLY <1>1, <1>3, <2>1, <2>2, <2>3 DEF Good
<1> QED
  BY <1>2, <1>3, <1>4 DEF SessionInv, Cared, Live

LEMMA RoomEndsKeeps ==
  ASSUME SessionInv, NEW s \in Stay, RoomEnds(s)
  PROVE  SessionInv'
<1>1. Good(page, server) /\ Cared(page) /\ page' = page
  BY DEF SessionInv, RoomEnds
<1>2. server' \in ServerRecord /\ \A t \in Stay : server[t].lost => server'[t].lost
  BY DEF SessionInv, Good, RoomEnds, ServerRecord
<1> QED
  BY <1>1, <1>2, ServerGood DEF SessionInv

LEMMA EndIsHeardKeeps ==
  ASSUME SessionInv, NEW c \in Channel, NEW empty \in BOOLEAN, EndIsHeard(c, empty)
  PROVE  SessionInv'
<1> DEFINE w == HandleRoomEnded(page, empty)
           s == page.channel[c].stay
<1>1. Good(page, server) /\ s \in Stay /\ page.channel[c].state = "open" /\ server' = server
  BY DEF SessionInv, Good, PageRecord, ChannelRecord, EndIsHeard
<1>2. page' = Dropped(w, c, s)
  BY DEF EndIsHeard, Dropped
<1>3. Good(w, server) /\ ~Live(w) /\ w.channel[c] \in {page.channel[c], Unused}
  <2>1. FreeJobs(page) # {}
    BY DEF EndIsHeard
  <2> QED
    BY <1>1, <2>1, HandleRoomEndedGood
<1>4. w.channel[c].state # "connecting" /\ (w.channel[c].state = "open" => w.channel[c].stay = s)
  BY <1>1, <1>3 DEF Unused
<1> HIDE DEF w, s
<1>5. /\ Good(page', server) /\ page'.active = w.active /\ SameFlags(w, page')
  BY <1>1, <1>2, <1>3, <1>4, OpenChannelGood
<1>6. ~Live(page')
  BY <1>3, <1>5, LiveStay DEF Good, Live, Active, SameFlags
<1> QED
  BY <1>1, <1>5, <1>6 DEF SessionInv, Cared

-----------------------------------------------------------------------------
(* The management channel *)

\* The channel c is open, and the socket of the stay s.
Attached(w, s, c) ==
    [w EXCEPT !.channel[c] = [@ EXCEPT !.state = "open", !.listened = TRUE], !.stay[s].socket = c]

\* A channel that opens becomes the socket of its stay.
LEMMA AttachedGood ==
  ASSUME NEW sv, NEW w, Good(w, sv), NEW s \in Stay, ~w.stay[s].leaving, NEW c \in Channel,
         w.channel[c].state = "connecting", w.channel[c].stay = s,
         \A j \in Job : w.job[j].kind = "connect" => w.job[j].channel # c,
         NEW v, v = Attached(w, s, c)
  PROVE  /\ Good(v, sv)
         /\ v.active = w.active /\ v.room = w.room /\ v.job = w.job
         /\ SameFlags(w, v) /\ \A t \in Stay : v.stay[t].room = w.stay[t].room
         /\ v.stay[s].socket = c /\ \A t \in Stay : t # s => v.stay[t].socket = w.stay[t].socket
<1> DEFINE x == [w.channel[c] EXCEPT !.state = "open", !.listened = TRUE]
           st == [w.stay[s] EXCEPT !.socket = c]
<1>1. w \in PageRecord /\ w.stay[s] \in StayRecord /\ w.channel[c] \in ChannelRecord
  BY DEF Good, PageRecord
<1>2. x \in ChannelRecord /\ x.state = "open" /\ x.listened /\ x.stay = s
  BY ONLY <1>1, w.channel[c].stay = s DEF ChannelRecord
<1>3. /\ st \in StayRecord /\ st.socket = c
      /\ st.entered = w.stay[s].entered /\ st.leaving = w.stay[s].leaving
      /\ st.ended = w.stay[s].ended /\ st.current = w.stay[s].current
      /\ st.events = w.stay[s].events /\ st.media = w.stay[s].media
      /\ st.full = w.stay[s].full /\ st.room = w.stay[s].room
  BY ONLY <1>1, c \in Channel DEF StayRecord
<1>4. v = [w EXCEPT !.channel = [w.channel EXCEPT ![c] = x], !.stay = [w.stay EXCEPT ![s] = st]]
  BY ONLY <1>1, s \in Stay, c \in Channel,
          v = Attached(w, s, c)
  DEF Attached, PageRecord, x, st
<1> HIDE DEF x, st
<1>5. /\ v \in PageRecord
      /\ v.active = w.active /\ v.room = w.room /\ v.job = w.job
      /\ v.channel[c] = x /\ \A d \in Channel : d # c => v.channel[d] = w.channel[d]
      /\ v.stay[s] = st /\ \A t \in Stay : t # s => v.stay[t] = w.stay[t]
  BY ONLY <1>1, <1>2, <1>3, <1>4, s \in Stay, c \in Channel DEF PageRecord
<1>6. SameFlags(w, v) /\ \A t \in Stay : v.stay[t].room = w.stay[t].room
  BY ONLY <1>3, <1>5 DEF SameFlags
<1>7. v.stay[s].socket = c /\ \A t \in Stay : t # s => v.stay[t].socket = w.stay[t].socket
  BY ONLY <1>3, <1>5
<1>8. Wired(v)
  <2>1. ASSUME NEW t \in Stay, t # s, w.stay[t].socket # None
        PROVE  w.stay[t].socket \in Channel /\ w.stay[t].socket # c
    BY <1>1, <2>1 DEF Good, Wired, PageRecord, StayRecord
  <2>2. ASSUME NEW j \in Job, w.job[j].kind = "connect"
        PROVE  w.job[j].channel \in Channel /\ w.job[j].channel # c
    BY <2>2 DEF Good, Wired
  <2>3. Wired(w)
    BY DEF Good
  <2>4. ASSUME NEW t \in Stay, v.stay[t].socket # None
        PROVE  /\ v.channel[v.stay[t].socket].state = "open"
               /\ v.channel[v.stay[t].socket].listened
               /\ v.channel[v.stay[t].socket].stay = t
    <3>1. CASE t = s
      BY ONLY <1>2, <1>5, <1>7, <3>1
    <3>2. CASE t # s
      <4>1. v.stay[t].socket = w.stay[t].socket
        BY ONLY <1>7, <3>2, t \in Stay
      <4>2. v.channel[w.stay[t].socket] = w.channel[w.stay[t].socket]
        BY ONLY <1>5, <2>1, <2>4, <3>2, <4>1
      <4> QED
        BY ONLY <2>3, <2>4, <4>1, <4>2, SocketIsOpen
    <3> QED
      BY <3>1, <3>2
  <2>5. ASSUME NEW j \in Job, v.job[j].kind = "connect"
        PROVE  /\ v.job[j].channel \in Channel
               /\ v.channel[v.job[j].channel].state = "connecting"
               /\ v.channel[v.job[j].channel].stay = v.job[j].stay
    BY ONLY <1>5, <2>2, <2>3, <2>5 DEF Wired
  <2>6. \A j, k \in Job :
          v.job[j].kind = "connect" /\ v.job[k].kind = "connect" /\ v.job[j].channel = v.job[k].channel
          => j = k
    BY ONLY <1>5, <2>3 DEF Wired
  <2> QED
    BY ONLY <2>4, <2>5, <2>6 DEF Wired
<1>9. Housed(v)
  <2>1. Housed(w)
    BY DEF Good
  <2> QED
    BY ONLY <1>5, <1>6, <2>1, WiredAndHoused
<1>10. Calm(v)
  <2>1. ASSUME NEW t \in Stay, w.stay[t].leaving PROVE v.stay[t].socket = w.stay[t].socket
    BY <1>7, <2>1
  <2> QED
    BY ONLY <1>6, <2>1, Good(w, sv) DEF Good, Calm, SameFlags
<1>11. Entered(v)
  <2>1. Entered(w)
    BY DEF Good
  <2>2. \A t \in Stay : v.stay[t].entered = w.stay[t].entered /\ v.stay[t].full = w.stay[t].full
    BY ONLY <1>6 DEF SameFlags
  <2>3. \A k \in Job : v.job[k].kind \in {"resume", "resumed"} =>
          w.job[k].kind \in {"resume", "resumed"} /\ v.job[k].stay = w.job[k].stay
    BY ONLY <1>5
  <2> QED
    BY ONLY <1>1, <1>5, <2>1, <2>2, <2>3, EnteredStays
<1>12. Tokens(v, sv)
  <2>1. Tokens(w, sv)
    BY DEF Good
  <2> QED
    BY ONLY <1>1, <1>5, <1>6, <2>1, SameTokens DEF SameFlags
<1> QED
  BY ONLY <1>5, <1>6, <1>7, <1>8, <1>9, <1>10, <1>11, <1>12, Good(w, sv) DEF Good

LEMMA ChannelOpensKeeps ==
  ASSUME SessionInv, NEW j \in Job, ChannelOpens(j)
  PROVE  SessionInv'
<1> DEFINE b == page.job[j]
           w == Done(page, j)
           mine == Live(w) /\ w.active = b.stay
           v == IF mine
                THEN [w EXCEPT !.channel[b.channel] = [@ EXCEPT !.state = "open", !.listened = TRUE],
                               !.stay[b.stay].socket = b.channel]
                ELSE [w EXCEPT !.channel[b.channel] = Unused]
<1>0. /\ Good(page, server) /\ Cared(page) /\ page \in PageRecord /\ b.kind = "connect"
      /\ page' = AfterEvents(v, b.by, b.origin) /\ server' = server
  BY DEF SessionInv, Good, ChannelOpens
<1>1. /\ b.stay \in Stay /\ b.origin \in Stay
      /\ b.channel \in Channel
      /\ page.channel[b.channel].state = "connecting" /\ page.channel[b.channel].stay = b.stay
      /\ \A k \in Job : k # j /\ page.job[k].kind = "connect" => page.job[k].channel # b.channel
  <2>1. b \in JobRecord /\ Wired(page)
    BY <1>0 DEF Good, PageRecord
  <2>2. b.stay \in Stay /\ b.origin \in Stay
    BY ONLY <2>1 DEF JobRecord
  <2>3. /\ b.channel \in Channel
        /\ page.channel[b.channel].state = "connecting" /\ page.channel[b.channel].stay = b.stay
        /\ \A k \in Job : k # j /\ page.job[k].kind = "connect" => page.job[k].channel # b.channel
    BY ONLY <1>0, <2>1, j \in Job DEF Wired
  <2> QED
    BY <2>2, <2>3
<1>2. /\ Good(w, server)
      /\ w.active = page.active /\ w.stay = page.stay /\ w.channel = page.channel /\ w.room = page.room
      /\ w.job[j] = Idle /\ \A k \in Job : k # j => w.job[k] = page.job[k]
  BY <1>0, DoneGood, DoneEffect
<1>3. \A k \in Job : w.job[k].kind = "connect" => w.job[k].channel # b.channel
  BY ONLY <1>1, <1>2 DEF Idle
<1>4. ASSUME NEW t \in Stay PROVE w.stay[t].socket # b.channel
  <2>1. page.stay[t].socket # None => page.channel[page.stay[t].socket].state = "open"
    BY <1>0 DEF Good, Wired
  <2>2. b.channel # None
    BY ONLY <1>1, Numbers
  <2> QED
    BY ONLY <1>1, <1>2, <2>1, <2>2
<1> HIDE DEF b, w
<1>5. CASE mine
  <2>1. ~w.stay[b.stay].leaving
    BY <1>5 DEF Live, Active
  <2>2. v = Attached(w, b.stay, b.channel)
    BY <1>5 DEF Attached
  <2> HIDE DEF v
  <2>3. /\ Good(v, server)
        /\ v.active = w.active /\ v.room = w.room /\ v.job = w.job
        /\ SameFlags(w, v) /\ \A t \in Stay : v.stay[t].room = w.stay[t].room
        /\ v.stay[b.stay].socket = b.channel
    BY ONLY <1>1, <1>2, <1>3, <2>1, <2>2, AttachedGood
  <2>4. j \in FreeJobs(v)
    BY ONLY <1>2, <2>3, j \in Job DEF FreeJobs, Idle
  <2>5. ChannelIsCared(v, v.active)
    BY <1>1, <1>5, <2>3, Numbers DEF ChannelIsCared
  <2>6. RoomIsCared(v, v.active) \/ b.by = "enter" \/ (b.by = "full" /\ b.origin = v.active)
    <3>1. RoomIsCared(page, b.stay)
      BY <1>0, <1>2, <1>5 DEF Cared, Live, Active
    <3>2. /\ v.stay[b.stay].media = page.stay[b.stay].media
          /\ v.stay[b.stay].full = page.stay[b.stay].full
          /\ IsUp(page, b.stay) => IsUp(v, b.stay)
      BY ONLY <1>1, <1>2, <2>3 DEF SameFlags, IsUp
    <3>3. \A k \in Job : k # j /\ page.job[k].kind # "free" => v.job[k] = page.job[k]
      BY ONLY <1>2, <2>3
    <3>4. RoomIsCared(v, b.stay) \/ RestoresRoom(page.job[j], b.stay)
      BY <3>1, <3>2, <3>3, LeftToCare
    <3> QED
      BY <1>0, <1>5, <2>3, <3>4 DEF RestoresRoom, b
  <2>7. v \in PageRecord
    BY ONLY <2>3 DEF Good
  <2>8. Good(page', server) /\ Cared(page')
    BY ONLY <1>0, <1>1, <2>3, <2>4, <2>5, <2>6, <2>7, AfterEventsGood, AfterEventsCares
  <2> QED
    BY <1>0, <2>8 DEF SessionInv
<1>6. CASE ~mine
  <2>1. v = [w EXCEPT !.channel = [w.channel EXCEPT ![b.channel] = Unused]]
    BY <1>6
  <2> HIDE DEF v
  <2>2. Good(v, server)
    BY ONLY <1>1, <1>2, <1>3, <1>4, <2>1, Empty, ChannelGood
  <2>3. v.active = w.active /\ v.stay = w.stay /\ v.room = w.room /\ v.job = w.job
    BY ONLY <1>2, <2>1 DEF Good, PageRecord
  <2>4. j \in FreeJobs(v)
    BY ONLY <1>2, <2>3, j \in Job DEF FreeJobs, Idle
  <2>5. ASSUME Live(v) PROVE ChannelIsCared(v, v.active) /\ RoomIsCared(v, v.active)
    <3> DEFINE a == v.active
    <3>1. Live(page) /\ a = page.active /\ a # b.stay
      BY <1>2, <1>6, <2>3, <2>5 DEF Live, Active
    <3>2. ChannelIsCared(page, a) /\ RoomIsCared(page, a)
      BY <1>0, <3>1 DEF Cared
    <3>3. v.stay = page.stay /\ v.room = page.room
      BY ONLY <1>2, <2>3
    <3>4. \A k \in Job : k # j /\ page.job[k].kind # "free" => v.job[k] = page.job[k]
      BY ONLY <1>2, <2>3
    <3>5. ~RestoresChannel(page.job[j], a) /\ ~RestoresRoom(page.job[j], a)
      BY <3>1 DEF RestoresChannel, RestoresRoom, b
    <3> HIDE DEF a
    <3>6. IsUp(page, a) => IsUp(v, a)
      BY ONLY <3>3 DEF IsUp
    <3>7. ChannelIsCared(v, a) /\ RoomIsCared(v, a)
      BY <3>2, <3>3, <3>4, <3>5, <3>6, LeftToCare
    <3> QED
      BY <3>7 DEF a
  <2>6. v \in PageRecord
    BY ONLY <2>2 DEF Good
  <2>7. Good(page', server) /\ Cared(page')
    BY ONLY <1>0, <1>1, <2>2, <2>4, <2>5, <2>6, AfterEventsGood, AfterEventsCares
  <2> QED
    BY <1>0, <2>7 DEF SessionInv
<1> QED
  BY <1>5, <1>6

LEMMA ChannelFailsKeeps ==
  ASSUME SessionInv, NEW j \in Job, NEW late \in BOOLEAN, ChannelFails(j, late)
  PROVE  SessionInv'
<1> DEFINE b == page.job[j]
           w == Done(page, j)
           v == IF late THEN w ELSE [w EXCEPT !.channel[b.channel] = Unused]
<1>0. /\ Good(page, server) /\ page \in PageRecord /\ b.kind = "connect"
      /\ page' = EventsFailed(v, b.by, b.origin) /\ server' = server
  BY DEF SessionInv, Good, ChannelFails
<1>1. /\ b.origin \in Stay /\ b.channel \in Channel
      /\ page.channel[b.channel].state = "connecting"
      /\ \A k \in Job : k # j /\ page.job[k].kind = "connect" => page.job[k].channel # b.channel
  BY <1>0 DEF Good, Wired, PageRecord, JobRecord
<1>2. /\ Good(w, server) /\ w.stay = page.stay
      /\ w.job[j] = Idle /\ \A k \in Job : k # j => w.job[k] = page.job[k]
  BY <1>0, DoneGood, DoneEffect
<1>3. \A k \in Job : w.job[k].kind = "connect" => w.job[k].channel # b.channel
  BY ONLY <1>1, <1>2 DEF Idle
<1>4. ASSUME NEW t \in Stay PROVE w.stay[t].socket # b.channel
  <2>1. page.stay[t].socket # None => page.channel[page.stay[t].socket].state = "open"
    BY <1>0 DEF Good, Wired
  <2>2. b.channel # None
    BY ONLY <1>1, Numbers
  <2> QED
    BY ONLY <1>1, <1>2, <2>1, <2>2
<1> HIDE DEF b, w
<1>5. Good(v, server) /\ v.job = w.job
  <2>1. CASE late
    BY <1>2, <2>1
  <2>2. CASE ~late
    <3>1. v = [w EXCEPT !.channel = [w.channel EXCEPT ![b.channel] = Unused]]
      BY <2>2
    <3> HIDE DEF v
    <3>2. Good(v, server)
      BY ONLY <1>1, <1>2, <1>3, <1>4, <3>1, Empty, ChannelGood
    <3>3. v.job = w.job
      BY ONLY <1>2, <3>1 DEF Good, PageRecord
    <3> QED
      BY <3>2, <3>3
  <2> QED
    BY <2>1, <2>2
<1> HIDE DEF v
<1>6. j \in FreeJobs(v)
  BY ONLY <1>2, <1>5, j \in Job DEF FreeJobs, Idle
<1>7. Good(page', server) /\ Cared(page')
  BY ONLY <1>0, <1>1, <1>5, <1>6, EventsFailedGood, EventsFailedCares
<1> QED
  BY <1>0, <1>7 DEF SessionInv

\* A channel nobody waits for serves nobody.
LEMMA LateChannelKeeps ==
  ASSUME SessionInv, NEW c \in Channel, LateChannel(c)
  PROVE  SessionInv'
<1>0. /\ Good(page, server) /\ Cared(page) /\ page \in PageRecord /\ server' = server
      /\ page.channel[c].state = "connecting" /\ page.channel[c] \in ChannelRecord
      /\ \A j \in Job : page.job[j].channel # c
  BY DEF SessionInv, Good, LateChannel, PageRecord
<1>1. PICK x \in ChannelRecord : page' = [page EXCEPT !.channel = [page.channel EXCEPT ![c] = x]]
  <2>1. [page.channel[c] EXCEPT !.state = "open"] \in ChannelRecord
    BY ONLY <1>0 DEF ChannelRecord
  <2>2. \/ page' = [page EXCEPT !.channel = [page.channel EXCEPT ![c] = [page.channel[c] EXCEPT !.state = "open"]]]
        \/ page' = [page EXCEPT !.channel = [page.channel EXCEPT ![c] = Unused]]
    BY ONLY LateChannel(c), <1>0 DEF LateChannel, PageRecord
  <2> QED
    BY ONLY <2>1, <2>2, Empty
<1>2. \A s \in Stay : page.stay[s].socket # c
  BY <1>0, Numbers DEF Good, Wired
<1>3. Good(page', server)
  BY ONLY <1>0, <1>1, <1>2, c \in Channel, ChannelGood
<1>4. /\ page'.active = page.active /\ page'.stay = page.stay
      /\ page'.room = page.room /\ page'.job = page.job
  BY ONLY <1>0, <1>1 DEF PageRecord
<1>5. Cared(page')
  BY ONLY <1>0, <1>4 DEF Cared, Live, Active, ChannelIsCared, RoomIsCared, IsUp
<1> QED
  BY <1>0, <1>3, <1>5 DEF SessionInv

\* An open channel closes: that of the active stay is restored.
LEMMA ChannelClosesKeeps ==
  ASSUME SessionInv, NEW c \in Channel, ChannelCloses(c)
  PROVE  SessionInv'
<1> DEFINE s == page.channel[c].stay
           w == Dropped(page, c, s)
<1>0. /\ Good(page, server) /\ Cared(page) /\ page \in PageRecord /\ server' = server
      /\ page.channel[c].state = "open" /\ s \in Stay
      /\ page' = IF page.channel[c].listened /\ Live(w) /\ w.active = s
                 THEN [w EXCEPT !.stay[s].events = TRUE] ELSE w
  BY DEF SessionInv, Good, PageRecord, ChannelRecord, ChannelCloses, Dropped
<1>1. /\ Good(w, server)
      /\ w.active = page.active /\ w.room = page.room /\ w.job = page.job
      /\ SameFlags(page, w) /\ \A t \in Stay : w.stay[t].room = page.stay[t].room
      /\ page.stay[s].socket # c => w.stay[s].socket = page.stay[s].socket
      /\ \A t \in Stay : t # s => w.stay[t].socket = page.stay[t].socket
  <2> DEFINE x == w
  <2>1. x = Dropped(page, c, s)
    OBVIOUS
  <2>2. page.channel[c].state # "connecting" /\ page.channel[c].stay = s
    BY <1>0
  <2> HIDE DEF x, s
  <2>3. /\ Good(x, server)
        /\ x.active = page.active /\ x.room = page.room /\ x.job = page.job
        /\ SameFlags(page, x) /\ \A t \in Stay : x.stay[t].room = page.stay[t].room
        /\ page.stay[s].socket # c => x.stay[s].socket = page.stay[s].socket
        /\ \A t \in Stay : t # s => x.stay[t].socket = page.stay[t].socket
    BY ONLY <1>0, <2>1, <2>2, c \in Channel, OpenChannelGood
  <2> QED
    BY <2>3 DEF x
<1>2. \A t \in Stay : page.stay[t].socket = c => t = s /\ page.channel[c].listened
  <2>1. Wired(page) /\ c # None
    BY <1>0, Numbers DEF Good
  <2> QED
    BY ONLY <2>1 DEF Wired
<1>3. \A t \in Stay : w.stay[t].media = page.stay[t].media /\ w.stay[t].events = page.stay[t].events
                      /\ w.stay[t].full = page.stay[t].full /\ w.stay[t].leaving = page.stay[t].leaving
  BY <1>1 DEF SameFlags
<1>4. ASSUME NEW a \in Stay, RoomIsCared(page, a) PROVE RoomIsCared(w, a)
  BY ONLY <1>1, <1>3, <1>4 DEF RoomIsCared, IsUp
<1>5. ASSUME NEW a \in Stay, ChannelIsCared(page, a), page.stay[a].socket # c PROVE ChannelIsCared(w, a)
  BY ONLY <1>1, <1>3, <1>5 DEF ChannelIsCared
<1> HIDE DEF s, w
<1>6. CASE page.channel[c].listened /\ Live(w) /\ w.active = s
  <2> DEFINE st == [w.stay[s] EXCEPT !.events = TRUE]
  <2>1. w \in PageRecord /\ w.stay[s] \in StayRecord /\ ~w.stay[s].leaving /\ ~w.stay[s].ended
        /\ (w.stay[s].full => w.stay[s].entered)
    BY <1>0, <1>1, <1>6 DEF Good, Entered, Calm, PageRecord, Live, Active
  <2>2. /\ st \in StayRecord /\ st.events
        /\ st.entered = w.stay[s].entered /\ st.current = w.stay[s].current
        /\ st.socket = w.stay[s].socket /\ st.room = w.stay[s].room
        /\ st.leaving = w.stay[s].leaving /\ st.ended = w.stay[s].ended
        /\ st.media = w.stay[s].media /\ st.full = w.stay[s].full
    BY ONLY <2>1 DEF StayRecord
  <2>3. page' = [w EXCEPT !.stay = [w.stay EXCEPT ![s] = st]]
    <3>1. page' = [w EXCEPT !.stay[s].events = TRUE]
      BY <1>0, <1>6
    <3> QED
      BY ONLY <1>0, <2>1, <3>1 DEF PageRecord
  <2> HIDE DEF st
  <2>4. Good(page', server)
    <3>1. st.full => st.entered
      BY <2>1, <2>2
    <3>2. st.ended => st.leaving
      BY <2>1, <2>2
    <3>3. st.leaving => ~st.events /\ ~st.media /\ ~st.full /\ st.socket = None
      BY <2>1, <2>2
    <3>4. Good(w, server) /\ s \in Stay
      BY <1>0, <1>1
    <3> QED
      BY ONLY <2>2, <2>3, <3>1, <3>2, <3>3, <3>4, FlagsGood
  <2>5. page'.active = s /\ page'.room = w.room /\ page'.job = w.job /\ page'.stay[s] = st
    BY ONLY <1>0, <1>6, <2>1, <2>3 DEF PageRecord
  <2>6. ChannelIsCared(page', s)
    BY ONLY <2>2, <2>5 DEF ChannelIsCared
  <2>7. RoomIsCared(w, s)
    BY <1>0, <1>1, <1>3, <1>4, <1>6 DEF Cared, Live, Active
  <2>8. RoomIsCared(page', s)
    BY ONLY <2>2, <2>5, <2>7 DEF RoomIsCared, IsUp
  <2> QED
    BY <1>0, <2>4, <2>5, <2>6, <2>8 DEF SessionInv, Cared
<1>7. CASE ~(page.channel[c].listened /\ Live(w) /\ w.active = s)
  <2>1. page' = w
    BY <1>0, <1>7
  <2>2. ASSUME Live(w) PROVE ChannelIsCared(w, w.active) /\ RoomIsCared(w, w.active)
    <3>1. w.active \in Stay
      BY <1>1, <2>2, LiveStay DEF Good, Live
    <3>2. Live(page)
      BY ONLY <1>1, <1>3, <2>2, <3>1 DEF Live, Active
    <3>3. page.stay[w.active].socket # c
      BY <1>2, <1>7, <2>2, <3>1
    <3> QED
      BY <1>0, <1>1, <1>4, <1>5, <3>1, <3>2, <3>3 DEF Cared
  <2> QED
    BY <1>0, <1>1, <2>1, <2>2 DEF SessionInv, Cared
<1> QED
  BY <1>6, <1>7

\* One of the timers of a stay is cleared.
Cleared(st) == {[st EXCEPT !.events = FALSE], [st EXCEPT !.media = FALSE], [st EXCEPT !.full = FALSE]}
WithStay(w, s, st) == [w EXCEPT !.stay = [w.stay EXCEPT ![s] = st]]

\* A timer that fires is cleared.
LEMMA TimerGood ==
  ASSUME Good(page, server), NEW s \in Stay, NEW st \in Cleared(page.stay[s]),
         NEW w, w = WithStay(page, s, st)
  PROVE  /\ Good(w, server)
         /\ w.active = page.active /\ w.channel = page.channel /\ w.room = page.room /\ w.job = page.job
         /\ w.stay[s] = st /\ \A t \in Stay : t # s => w.stay[t] = page.stay[t]
<1>1. page.stay[s] \in StayRecord /\ page \in PageRecord
  BY DEF Good, PageRecord
<1>2. /\ st \in StayRecord
      /\ st.entered = page.stay[s].entered /\ st.current = page.stay[s].current
      /\ st.socket = page.stay[s].socket /\ st.room = page.stay[s].room
      /\ st.leaving = page.stay[s].leaving /\ st.ended = page.stay[s].ended
  BY <1>1 DEF StayRecord, Cleared
<1>3. /\ st.events => page.stay[s].events
      /\ st.media => page.stay[s].media
      /\ st.full => page.stay[s].full
  BY <1>1 DEF StayRecord, Cleared
<1>4. /\ st.ended => st.leaving
      /\ st.leaving => ~st.events /\ ~st.media /\ ~st.full /\ st.socket = None
      /\ st.full => st.entered
  <2>1. /\ page.stay[s].ended => page.stay[s].leaving
        /\ page.stay[s].leaving => ~page.stay[s].events /\ ~page.stay[s].media
                                   /\ ~page.stay[s].full /\ page.stay[s].socket = None
        /\ page.stay[s].full => page.stay[s].entered
    BY DEF Good, Calm, Entered
  <2> QED
    BY ONLY <1>2, <1>3, <2>1
<1>5. Good(w, server)
  BY <1>2, <1>4, FlagsGood DEF WithStay
<1>6. /\ w.active = page.active /\ w.channel = page.channel /\ w.room = page.room /\ w.job = page.job
      /\ w.stay[s] = st /\ \A t \in Stay : t # s => w.stay[t] = page.stay[t]
  BY ONLY <1>1, <1>2, s \in Stay, w = WithStay(page, s, st) DEF PageRecord, WithStay
<1> QED
  BY <1>5, <1>6

LEMMA EventsTimerKeeps ==
  ASSUME SessionInv, NEW s \in Stay, EventsTimer(s)
  PROVE  SessionInv'
<1> DEFINE st == [page.stay[s] EXCEPT !.events = FALSE]
           w == WithStay(page, s, st)
<1>0. /\ Good(page, server) /\ Cared(page) /\ page \in PageRecord /\ page.stay[s] \in StayRecord
      /\ server' = server /\ HasSpace(page)
  BY DEF SessionInv, Good, PageRecord, EventsTimer
<1>1. page' = ConnectEvents(w, "timer", s)
  <2>1. [page EXCEPT !.stay[s].events = FALSE] = w
    BY ONLY <1>0, s \in Stay DEF PageRecord, WithStay
  <2> QED
    BY <2>1 DEF EventsTimer
<1>2. /\ st.media = page.stay[s].media /\ st.full = page.stay[s].full /\ st.leaving = page.stay[s].leaving
      /\ st.room = page.stay[s].room
  BY ONLY <1>0 DEF StayRecord
<1>3. st \in Cleared(page.stay[s]) /\ w = WithStay(page, s, st)
  BY DEF Cleared
<1> HIDE DEF st, w
<1>4. /\ Good(w, server)
      /\ w.active = page.active /\ w.channel = page.channel /\ w.room = page.room /\ w.job = page.job
      /\ w.stay[s] = st /\ \A t \in Stay : t # s => w.stay[t] = page.stay[t]
  BY <1>0, <1>3, TimerGood
<1>5. HasSpace(w)
  BY ONLY <1>0, <1>4 DEF HasSpace, FreeJobs, FreeChannels, FreeRooms
<1>6. ASSUME Live(w) PROVE RoomIsCared(w, w.active)
  <2>1. w.active \in Stay
    BY <1>4, <1>6, LiveStay DEF Good, Live
  <2>2. \A t \in Stay : /\ w.stay[t].media = page.stay[t].media /\ w.stay[t].full = page.stay[t].full
                        /\ w.stay[t].leaving = page.stay[t].leaving /\ w.stay[t].room = page.stay[t].room
    BY ONLY <1>2, <1>4
  <2>3. Live(page) /\ page.active = w.active
    BY ONLY <1>4, <1>6, <2>1, <2>2 DEF Live, Active
  <2>4. RoomIsCared(page, w.active)
    BY <1>0, <2>3 DEF Cared
  <2> QED
    BY ONLY <1>4, <2>1, <2>2, <2>4 DEF RoomIsCared, IsUp
<1>7. Good(page', server) /\ Cared(page')
  BY ONLY <1>1, <1>4, <1>5, <1>6, s \in Stay, ConnectEventsGood, ConnectEventsCares
<1> QED
  BY <1>0, <1>7 DEF SessionInv

-----------------------------------------------------------------------------
(* The full recovery *)

\* The timers of a full recovery and of a media reconnect start the request, which cares
\* for what the timer cared for.
LEMMA TimerBegins ==
  ASSUME SessionInv, FreeJobs(page) # {},
         NEW s \in Stay, NEW st \in Cleared(page.stay[s]), st.leaving = page.stay[s].leaving,
         NEW f \in JobRecord, f.stay = s, f.current = page.stay[s].current,
         \/ f.kind = "resume" /\ page.stay[s].entered
         \/ /\ f.kind = "grant" /\ st.socket = page.stay[s].socket
            /\ st.events = page.stay[s].events /\ st.full = page.stay[s].full,
         page' = Begin(WithStay(page, s, st), f), server' = server
  PROVE  SessionInv'
<1> DEFINE w == WithStay(page, s, st)
<1>1. /\ Good(w, server)
      /\ w.active = page.active /\ w.channel = page.channel /\ w.room = page.room /\ w.job = page.job
      /\ w.stay[s] = st /\ \A t \in Stay : t # s => w.stay[t] = page.stay[t]
      /\ st.entered = page.stay[s].entered /\ st.current = page.stay[s].current
  <2>1. Good(page, server) /\ page.stay[s] \in StayRecord
    BY DEF SessionInv, Good, PageRecord
  <2>2. st.entered = page.stay[s].entered /\ st.current = page.stay[s].current
    BY ONLY <2>1, st \in Cleared(page.stay[s]) DEF Cleared, StayRecord
  <2> QED
    BY ONLY <2>1, <2>2, s \in Stay, st \in Cleared(page.stay[s]), TimerGood
<1>2. FreeJobs(w) # {}
  BY ONLY <1>1, FreeJobs(page) # {} DEF FreeJobs
<1> HIDE DEF w
<1>3. Good(page', server)
  <2>1. f.kind \in {"import", "resume", "grant", "cleanup"} /\ f.current = w.stay[f.stay].current
    BY <1>1
  <2>2. f.kind = "resume" => w.stay[f.stay].entered
    BY <1>1
  <2>3. page' = Begin(w, f)
    BY DEF w
  <2> QED
    BY ONLY <1>1, <1>2, <2>1, <2>2, <2>3, f \in JobRecord, BeginGood
<1>4. PICK n \in Job :
        /\ page'.active = w.active /\ page'.stay = w.stay /\ page'.room = w.room
        /\ w.job[n].kind = "free" /\ page'.job[n] = f
        /\ \A k \in Job : k # n => page'.job[k] = w.job[k]
  <2>1. w \in PageRecord /\ page' = Begin(w, f)
    BY <1>1 DEF Good, w
  <2> QED
    BY ONLY <1>2, <2>1, f \in JobRecord, BeginEffect
<1>5. \A k \in Job : page.job[k].kind # "free" => page'.job[k] = page.job[k]
  BY ONLY <1>1, <1>4
<1>6. ASSUME Live(page') PROVE ChannelIsCared(page', page'.active) /\ RoomIsCared(page', page'.active)
  <2> DEFINE a == page.active
  <2>1. page'.active = a /\ a # None
    BY ONLY <1>1, <1>4, <1>6 DEF Live
  <2>2. a \in Stay
    BY <2>1, LiveStay DEF SessionInv, Good
  <2>3. Live(page)
    <3>1. page'.stay[a].leaving = page.stay[a].leaving
      BY <1>1, <1>4, <2>2
    <3> QED
      BY ONLY <1>6, <2>1, <3>1 DEF Live, Active
  <2>4. ChannelIsCared(page, a) /\ RoomIsCared(page, a)
    BY <2>3 DEF SessionInv, Cared
  <2> HIDE DEF a
  <2>5. CASE a # s
    <3>1. page'.stay[a] = page.stay[a] /\ page'.room = page.room
      BY ONLY <1>1, <1>4, <2>2, <2>5
    <3>2. IsUp(page, a) => IsUp(page', a)
      BY ONLY <3>1 DEF IsUp
    <3>3. ChannelIsCared(page', a) /\ RoomIsCared(page', a)
      BY ONLY <1>5, <2>4, <3>1, <3>2, StillCared
    <3> QED
      BY <2>1, <3>3
  <2>6. CASE a = s
    <3>1. RoomIsCared(page', s)
      BY <1>4 DEF RoomIsCared, RestoresRoom
    <3>2. ChannelIsCared(page', s)
      <4>1. CASE f.kind = "resume"
        BY <1>4, <4>1 DEF ChannelIsCared, RestoresChannel
      <4>2. CASE f.kind = "grant"
        <5>1. /\ page'.stay[s].socket = page.stay[s].socket
              /\ page'.stay[s].events = page.stay[s].events /\ page'.stay[s].full = page.stay[s].full
          BY <1>1, <1>4, <4>2
        <5> QED
          BY ONLY <1>5, <2>4, <2>6, <5>1, StillCared
      <4> QED
        BY <4>1, <4>2
    <3> QED
      BY <2>1, <2>6, <3>1, <3>2
  <2> QED
    BY <2>5, <2>6
<1> QED
  BY <1>3, <1>6 DEF SessionInv, Cared

LEMMA FullTimerKeeps ==
  ASSUME SessionInv, NEW s \in Stay, FullTimer(s)
  PROVE  SessionInv'
<1> DEFINE st == [page.stay[s] EXCEPT !.full = FALSE]
           f == [Idle EXCEPT !.kind = "resume", !.stay = s, !.origin = s, !.current = page.stay[s].current]
<1>1. /\ page \in PageRecord /\ page.stay[s] \in StayRecord /\ page.stay[s].entered
      /\ server' = server /\ FreeJobs(page) # {}
  BY DEF SessionInv, Good, PageRecord, Entered, FullTimer, HasSpace
<1>2. page' = Begin(WithStay(page, s, st), f)
  <2>1. [page EXCEPT !.stay[s].full = FALSE] = WithStay(page, s, st)
    BY ONLY <1>1, s \in Stay DEF PageRecord, WithStay
  <2> QED
    BY <2>1 DEF FullTimer
<1>3. st \in Cleared(page.stay[s]) /\ st.leaving = page.stay[s].leaving
  BY ONLY <1>1 DEF Cleared, StayRecord
<1>4. f \in JobRecord /\ f.kind = "resume" /\ f.stay = s /\ f.current = page.stay[s].current
  BY ONLY <1>1, s \in Stay, Numbers DEF Idle, JobRecord, StayRecord
<1> HIDE DEF st, f
<1>5. \/ f.kind = "resume" /\ page.stay[s].entered
      \/ /\ f.kind = "grant" /\ st.socket = page.stay[s].socket
         /\ st.events = page.stay[s].events /\ st.full = page.stay[s].full
  BY ONLY <1>1, <1>4
<1> QED
  BY ONLY SessionInv, s \in Stay, <1>1, <1>2, <1>3, <1>4, <1>5, TimerBegins

LEMMA MediaTimerKeeps ==
  ASSUME SessionInv, NEW s \in Stay, MediaTimer(s)
  PROVE  SessionInv'
<1> DEFINE st == [page.stay[s] EXCEPT !.media = FALSE]
           f == [Idle EXCEPT !.kind = "grant", !.stay = s, !.origin = s, !.current = page.stay[s].current]
<1>1. /\ page \in PageRecord /\ page.stay[s] \in StayRecord
      /\ server' = server /\ FreeJobs(page) # {}
  BY DEF SessionInv, Good, PageRecord, MediaTimer, HasSpace
<1>2. page' = Begin(WithStay(page, s, st), f)
  <2>1. [page EXCEPT !.stay[s].media = FALSE] = WithStay(page, s, st)
    BY ONLY <1>1, s \in Stay DEF PageRecord, WithStay
  <2> QED
    BY <2>1 DEF MediaTimer
<1>3. /\ st \in Cleared(page.stay[s]) /\ st.leaving = page.stay[s].leaving
      /\ st.socket = page.stay[s].socket
      /\ st.events = page.stay[s].events /\ st.full = page.stay[s].full
  BY ONLY <1>1 DEF Cleared, StayRecord
<1>4. f \in JobRecord /\ f.kind = "grant" /\ f.stay = s /\ f.current = page.stay[s].current
  BY ONLY <1>1, s \in Stay, Numbers DEF Idle, JobRecord, StayRecord
<1> HIDE DEF st, f
<1>5. \/ f.kind = "resume" /\ page.stay[s].entered
      \/ /\ f.kind = "grant" /\ st.socket = page.stay[s].socket
         /\ st.events = page.stay[s].events /\ st.full = page.stay[s].full
  BY ONLY <1>3, <1>4
<1> QED
  BY ONLY SessionInv, s \in Stay, <1>1, <1>2, <1>3, <1>4, <1>5, TimerBegins

\* The server rotates the token: the answer holds the only one.
LEMMA ServerResumesKeeps ==
  ASSUME SessionInv, NEW j \in Job, ServerResumes(j)
  PROVE  SessionInv'
<1> DEFINE s == page.job[j].stay
<1>0. /\ Good(page, server) /\ Cared(page) /\ page \in PageRecord /\ server' = server
      /\ page.job[j].kind = "resume" /\ page.job[j].current /\ s \in Stay /\ page.stay[s].entered
      /\ \A k \in Job : page.job[k] \in JobRecord
  BY DEF SessionInv, Good, PageRecord, JobRecord, ServerResumes, Accepts, Entered
<1>1. /\ page' \in PageRecord
      /\ page'.active = page.active /\ page'.channel = page.channel /\ page'.room = page.room
      /\ page'.stay = [page.stay EXCEPT ![s] = [page.stay[s] EXCEPT !.current = FALSE]]
      /\ \A k \in Job : /\ page'.job[k].stay = page.job[k].stay /\ page'.job[k].origin = page.job[k].origin
                        /\ page'.job[k].by = page.job[k].by /\ page'.job[k].channel = page.job[k].channel
                        /\ page'.job[k].room = page.job[k].room
                        /\ page'.job[k].kind = (IF k = j THEN "resumed" ELSE page.job[k].kind)
                        /\ page'.job[k].current = (IF page.job[k].stay = s THEN k = j ELSE page.job[k].current)
  <2> DEFINE J == [k \in Job |-> IF page.job[k].stay = s THEN [page.job[k] EXCEPT !.current = (k = j)]
                                 ELSE page.job[k]]
             st == [page.stay[s] EXCEPT !.current = FALSE]
  <2>1. page' = [page EXCEPT !.stay = [page.stay EXCEPT ![s] = st],
                             !.job = [J EXCEPT ![j] = [J[j] EXCEPT !.kind = "resumed"]]]
    BY <1>0 DEF ServerResumes, Rotated, PageRecord
  <2>2. J \in [Job -> JobRecord]
    <3>1. ASSUME NEW k \in Job PROVE [page.job[k] EXCEPT !.current = (k = j)] \in JobRecord
      <4>1. page.job[k] \in JobRecord /\ (k = j) \in BOOLEAN
        BY <1>0
      <4> QED
        BY ONLY <4>1 DEF JobRecord
    <3> QED
      BY ONLY <1>0, <3>1
  <2>3. st \in StayRecord
    <3>1. page.stay[s] \in StayRecord
      BY <1>0 DEF PageRecord
    <3> QED
      BY ONLY <3>1 DEF st, StayRecord
  <2>4. [J[j] EXCEPT !.kind = "resumed"] \in JobRecord
    <3>1. J[j] \in JobRecord
      BY <2>2
    <3> HIDE DEF J
    <3> QED
      BY ONLY <3>1 DEF JobRecord
  <2>5. \A k \in Job : /\ J[k].stay = page.job[k].stay /\ J[k].origin = page.job[k].origin
                       /\ J[k].by = page.job[k].by /\ J[k].channel = page.job[k].channel
                       /\ J[k].room = page.job[k].room /\ J[k].kind = page.job[k].kind
    BY ONLY <1>0 DEF J, JobRecord
  <2>6. \A k \in Job : J[k].current = (IF page.job[k].stay = s THEN k = j ELSE page.job[k].current)
    BY ONLY <1>0 DEF J, JobRecord
  <2> HIDE DEF J, st
  <2>7. /\ page' \in PageRecord
        /\ page'.active = page.active /\ page'.channel = page.channel /\ page'.room = page.room
        /\ page'.stay = [page.stay EXCEPT ![s] = st]
        /\ page'.job = [J EXCEPT ![j] = [J[j] EXCEPT !.kind = "resumed"]]
    BY ONLY <1>0, <2>1, <2>2, <2>3, <2>4 DEF PageRecord
  <2>8. \A k \in Job : /\ page'.job[k].stay = J[k].stay /\ page'.job[k].origin = J[k].origin
                       /\ page'.job[k].by = J[k].by /\ page'.job[k].channel = J[k].channel
                       /\ page'.job[k].room = J[k].room /\ page'.job[k].current = J[k].current
                       /\ page'.job[k].kind = (IF k = j THEN "resumed" ELSE J[k].kind)
    <3>1. page'.job[j] = [J[j] EXCEPT !.kind = "resumed"] /\ \A k \in Job : k # j => page'.job[k] = J[k]
      BY ONLY <2>2, <2>7, j \in Job
    <3>2. J[j] \in JobRecord
      BY ONLY <2>2, j \in Job
    <3>3. /\ page'.job[j].stay = J[j].stay /\ page'.job[j].origin = J[j].origin
          /\ page'.job[j].by = J[j].by /\ page'.job[j].channel = J[j].channel
          /\ page'.job[j].room = J[j].room /\ page'.job[j].current = J[j].current
          /\ page'.job[j].kind = "resumed"
      BY ONLY <3>1, <3>2 DEF JobRecord
    <3> QED
      BY ONLY <3>1, <3>3
  <2> QED
    BY ONLY <2>5, <2>6, <2>7, <2>8 DEF st
<1>2. /\ ~page'.stay[s].current
      /\ \A t \in Stay : t # s => page'.stay[t].current = page.stay[t].current
      /\ \A t \in Stay :
           /\ page'.stay[t].entered = page.stay[t].entered /\ page'.stay[t].leaving = page.stay[t].leaving
           /\ page'.stay[t].ended = page.stay[t].ended
           /\ page'.stay[t].socket = page.stay[t].socket /\ page'.stay[t].room = page.stay[t].room
           /\ page'.stay[t].events = page.stay[t].events /\ page'.stay[t].media = page.stay[t].media
           /\ page'.stay[t].full = page.stay[t].full
  <2>1. page.stay \in [Stay -> StayRecord]
    BY <1>0 DEF PageRecord
  <2> HIDE DEF s
  <2> QED
    BY ONLY <1>0, <1>1, <2>1 DEF StayRecord
<1>3. \A k \in Job : k # j => page'.job[k].kind = page.job[k].kind
  BY <1>1
<1>4. page'.job[j].kind = "resumed"
  BY <1>1
<1> HIDE DEF s
<1>5. Wired(page') /\ Housed(page')
  <2>1. Wired(page) /\ Housed(page)
    BY <1>0 DEF Good
  <2>2. \A k \in Job : page'.job[k].kind \in {"connect", "join"} => page'.job[k].kind = page.job[k].kind
    BY ONLY <1>3, <1>4
  <2>3. \A k \in Job : page'.job[k].kind = "connect" =>
          /\ page.job[k].kind = "connect"
          /\ page'.job[k].channel = page.job[k].channel /\ page'.job[k].stay = page.job[k].stay
    BY ONLY <1>1, <2>2
  <2>4. \A k \in Job : page'.job[k].kind = "join" =>
          /\ page.job[k].kind = "join"
          /\ page'.job[k].room = page.job[k].room /\ page'.job[k].stay = page.job[k].stay
    BY ONLY <1>1, <2>2
  <2>5. /\ \A t \in Stay : page'.stay[t].socket = page.stay[t].socket
        /\ \A t \in Stay : page'.stay[t].room = page.stay[t].room
        /\ page'.channel = page.channel /\ page'.room = page.room
    BY ONLY <1>1, <1>2
  <2>6. Wired(page')
    BY ONLY <2>1, <2>3, <2>5, WiredStays
  <2>7. Housed(page')
    BY ONLY <2>1, <2>4, <2>5, HousedStays
  <2> QED
    BY <2>6, <2>7
<1>6. Calm(page')
  BY ONLY <1>0, <1>2 DEF Good, Calm
<1>7. Entered(page')
  <2>1. page'.active # None => page'.stay[page'.active].entered
    BY ONLY <1>0, <1>1, <1>2 DEF Good, Entered, PageRecord
  <2>2. \A t \in Stay : page'.stay[t].full => page'.stay[t].entered
    BY ONLY <1>0, <1>2 DEF Good, Entered
  <2>3. \A k \in Job : page'.job[k].kind \in {"resume", "resumed"} => page'.stay[page'.job[k].stay].entered
    BY ONLY <1>0, <1>1, <1>2, <1>3, <1>4 DEF Good, Entered, JobRecord
  <2> QED
    BY <2>1, <2>2, <2>3 DEF Entered
<1>8. Tokens(page', server)
  <2>1. \A k \in Job : page.job[k].kind = "resumed" => page.job[k].stay # s
    BY <1>0 DEF Good, Tokens, s
  <2>2. page.job[j].stay = s
    BY DEF s
  <2>3. ASSUME NEW t \in Stay, page'.stay[t].entered
        PROVE  \/ page'.stay[t].current \/ server[t].lost
               \/ \E k \in Job : page'.job[k].kind = "resumed" /\ page'.job[k].stay = t
    <3>1. CASE t = s
      BY <1>1, <1>4, <2>2, <3>1
    <3>2. CASE t # s
      <4>1. \/ page.stay[t].current \/ server[t].lost
            \/ \E k \in Job : page.job[k].kind = "resumed" /\ page.job[k].stay = t
        BY <1>0, <1>2, <2>3 DEF Good, Tokens
      <4>2. page'.stay[t].current = page.stay[t].current
        BY <1>2, <3>2
      <4>3. \A k \in Job : page.job[k].kind = "resumed" => page'.job[k].kind = "resumed" /\ page'.job[k].stay = page.job[k].stay
        BY ONLY <1>1, <1>3, <1>4
      <4> QED
        BY ONLY <4>1, <4>2, <4>3
    <3> QED
      BY <3>1, <3>2
  <2>4. ASSUME NEW k \in Job, page'.job[k].kind = "resumed"
        PROVE  /\ page'.job[k].current /\ ~page'.stay[page'.job[k].stay].current
               /\ \A i \in Job : i # k /\ page'.job[i].stay = page'.job[k].stay => ~page'.job[i].current
    <3>1. CASE k = j
      <4>1. page'.job[j].stay = s /\ page'.job[j].current
        BY ONLY <1>1, <2>2, j \in Job
      <4>2. ASSUME NEW i \in Job, i # j, page'.job[i].stay = s PROVE ~page'.job[i].current
        <5>1. page.job[i].stay = s
          BY ONLY <1>1, <4>2
        <5> QED
          BY ONLY <1>1, <4>2, <5>1
      <4> QED
        BY ONLY <1>2, <3>1, <4>1, <4>2
    <3>2. CASE k # j
      <4>1. page.job[k].kind = "resumed" /\ page.job[k].stay \in Stay /\ page.job[k].stay # s
        BY <1>0, <1>3, <2>1, <2>4, <3>2 DEF JobRecord
      <4>2. /\ page.job[k].current /\ ~page.stay[page.job[k].stay].current
            /\ \A i \in Job : i # k /\ page.job[i].stay = page.job[k].stay => ~page.job[i].current
        BY <1>0, <4>1 DEF Good, Tokens
      <4>3. \A i \in Job : page.job[i].stay # s => page'.job[i].current = page.job[i].current
        BY <1>1
      <4> QED
        BY <1>1, <1>2, <4>1, <4>2, <4>3
    <3> QED
      BY <3>1, <3>2
  <2> QED
    BY <2>3, <2>4 DEF Tokens
<1>9. Cared(page')
  <2>1. \A k \in Job : \A a :
          /\ RestoresChannel(page.job[k], a) => RestoresChannel(page'.job[k], a)
          /\ RestoresRoom(page.job[k], a) => RestoresRoom(page'.job[k], a)
    BY ONLY <1>0, <1>1, <1>3, <1>4 DEF RestoresChannel, RestoresRoom
  <2>2. ASSUME NEW a \in Stay
        PROVE  /\ ChannelIsCared(page, a) => ChannelIsCared(page', a)
               /\ RoomIsCared(page, a) => RoomIsCared(page', a)
    <3>1. IsUp(page, a) => IsUp(page', a)
      BY ONLY <1>1, <1>2, <2>2 DEF IsUp
    <3> QED
      BY ONLY <1>2, <2>1, <2>2, <3>1 DEF ChannelIsCared, RoomIsCared
  <2>3. ASSUME Live(page') PROVE Live(page) /\ page'.active \in Stay
    <3>1. page.active \in Stay
      BY <1>0, <1>1, <2>3, LiveStay DEF Live
    <3> QED
      BY ONLY <1>1, <1>2, <2>3, <3>1 DEF Live, Active
  <2> QED
    BY <1>0, <1>1, <2>2, <2>3 DEF Cared
<1> QED
  BY <1>0, <1>1, <1>5, <1>6, <1>7, <1>8, <1>9 DEF SessionInv, Good

\* The lost answer of the server is the end of a token.
LEMMA TokenLostGood ==
  ASSUME NEW sv, NEW su, NEW w, Good(w, sv), NEW j \in Job, su \in ServerRecord,
         \A s \in Stay : sv[s].lost => su[s].lost,
         w.job[j].kind = "resumed" => su[w.job[j].stay].lost,
         NEW v, v = Done(w, j)
  PROVE  Good(v, su)
<1>1. CASE w.job[j].kind # "resumed"
  BY <1>1, DoneGood, ServerGood
<1>2. CASE w.job[j].kind = "resumed"
  <2>1. /\ v \in PageRecord
        /\ v.active = w.active /\ v.stay = w.stay /\ v.channel = w.channel /\ v.room = w.room
        /\ v.job[j] = Idle /\ \A k \in Job : k # j => v.job[k] = w.job[k]
    BY DoneEffect DEF Good
  <2>2. \A k \in Job : v.job[k].kind # "free" => k # j /\ v.job[k] = w.job[k]
    BY <2>1 DEF Idle
  <2>3. Wired(v) /\ Housed(v) /\ Calm(v) /\ Entered(v)
    <3>1. w \in PageRecord /\ Wired(w) /\ Housed(w) /\ Calm(w) /\ Entered(w)
      BY DEF Good
    <3>2. \A k \in Job : v.job[k].kind \in {"connect", "join", "resume", "resumed"} => v.job[k] = w.job[k]
      BY ONLY <2>2
    <3> QED
      BY ONLY <2>1, <3>1, <3>2, JobsKeep
  <2>4. Tokens(v, su)
    <3>1. ASSUME NEW s \in Stay, v.stay[s].entered
          PROVE  \/ v.stay[s].current \/ su[s].lost
                 \/ \E k \in Job : v.job[k].kind = "resumed" /\ v.job[k].stay = s
      <4>1. \/ w.stay[s].current \/ sv[s].lost
            \/ \E k \in Job : w.job[k].kind = "resumed" /\ w.job[k].stay = s
        BY <2>1, <3>1 DEF Good, Tokens
      <4>2. CASE w.stay[s].current \/ sv[s].lost
        BY <2>1, <4>2
      <4>3. ASSUME NEW k \in Job, w.job[k].kind = "resumed", w.job[k].stay = s
            PROVE  su[s].lost \/ (v.job[k].kind = "resumed" /\ v.job[k].stay = s)
        BY <1>2, <2>1, <4>3
      <4> QED
        BY <4>1, <4>2, <4>3
    <3>2. ASSUME NEW k \in Job, v.job[k].kind = "resumed"
          PROVE  /\ v.job[k].current /\ ~v.stay[v.job[k].stay].current
                 /\ \A i \in Job : i # k /\ v.job[i].stay = v.job[k].stay => ~v.job[i].current
      <4>1. v.job[k] = w.job[k]
        BY <2>2, <3>2
      <4>2. /\ w.job[k].current /\ ~w.stay[w.job[k].stay].current
            /\ \A i \in Job : i # k /\ w.job[i].stay = w.job[k].stay => ~w.job[i].current
        BY <3>2, <4>1 DEF Good, Tokens
      <4>3. ~Idle.current
        BY DEF Idle
      <4> QED
        BY ONLY <2>1, <4>1, <4>2, <4>3
    <3> QED
      BY <3>1, <3>2 DEF Tokens
  <2> QED
    BY ONLY <2>1, <2>3, <2>4, su \in ServerRecord DEF Good
<1> QED
  BY <1>1, <1>2

\* The answer arrives: its stay holds the newest token again.
LEMMA ResumeAnsweredKeeps ==
  ASSUME SessionInv, NEW j \in Job, ResumeAnswered(j)
  PROVE  SessionInv'
<1> DEFINE s == page.job[j].stay
           u == Done(page, j)
           st == [page.stay[s] EXCEPT !.current = page.job[j].current]
           w == WithStay(u, s, st)
<1>0. /\ Good(page, server) /\ Cared(page) /\ page \in PageRecord /\ server' = server /\ HasSpace(page)
      /\ page.job[j].kind = "resumed" /\ page.job[j].current /\ s \in Stay
      /\ page.stay[s] \in StayRecord /\ page.job[j].current \in BOOLEAN
      /\ \A k \in Job : page.job[k].kind = "resumed" /\ page.job[k].stay = s => k = j
  BY DEF SessionInv, Good, PageRecord, JobRecord, ResumeAnswered, Tokens
<1>1. /\ u \in PageRecord
      /\ u.active = page.active /\ u.stay = page.stay /\ u.channel = page.channel /\ u.room = page.room
      /\ u.job[j] = Idle /\ \A k \in Job : k # j => u.job[k] = page.job[k]
  BY <1>0, DoneEffect
<1>2. page' = ConnectEvents(w, "full", s)
  <2> HIDE DEF u
  <2>1. [u EXCEPT !.stay[s].current = page.job[j].current] = w
    BY ONLY <1>0, <1>1 DEF PageRecord, WithStay, w, st
  <2> QED
    BY <2>1 DEF ResumeAnswered, u
<1>3. /\ st \in StayRecord /\ st.current
      /\ st.entered = page.stay[s].entered /\ st.leaving = page.stay[s].leaving
      /\ st.ended = page.stay[s].ended
      /\ st.socket = page.stay[s].socket /\ st.room = page.stay[s].room
      /\ st.events = page.stay[s].events /\ st.media = page.stay[s].media
      /\ st.full = page.stay[s].full
  BY ONLY <1>0 DEF st, StayRecord
<1> HIDE DEF u, st
<1>4. /\ w \in PageRecord
      /\ w.active = page.active /\ w.channel = page.channel /\ w.room = page.room /\ w.job = u.job
      /\ w.stay[s] = st /\ \A t \in Stay : t # s => w.stay[t] = page.stay[t]
  BY ONLY <1>0, <1>1, <1>3 DEF PageRecord, WithStay, w
<1> HIDE DEF w
<1>5. \A t \in Stay :
           /\ w.stay[t].entered = page.stay[t].entered /\ w.stay[t].leaving = page.stay[t].leaving
           /\ w.stay[t].ended = page.stay[t].ended
           /\ w.stay[t].socket = page.stay[t].socket /\ w.stay[t].room = page.stay[t].room
           /\ w.stay[t].events = page.stay[t].events /\ w.stay[t].media = page.stay[t].media
           /\ w.stay[t].full = page.stay[t].full
  BY ONLY <1>3, <1>4
<1>6. \A k \in Job : w.job[k].kind # "free" => k # j /\ w.job[k] = page.job[k]
  BY ONLY <1>1, <1>4 DEF Idle
<1>7. Good(w, server)
  <2>0. /\ Wired(page) /\ Housed(page)
        /\ \A t \in Stay : w.stay[t].socket = page.stay[t].socket
        /\ \A t \in Stay : w.stay[t].room = page.stay[t].room
        /\ \A k \in Job : w.job[k].kind \in {"connect", "join"} => w.job[k] = page.job[k]
    BY <1>0, <1>5, <1>6 DEF Good
  <2>1. Wired(w)
    <3>1. \A k \in Job : w.job[k].kind = "connect" =>
            /\ page.job[k].kind = "connect"
            /\ w.job[k].channel = page.job[k].channel /\ w.job[k].stay = page.job[k].stay
      BY ONLY <2>0
    <3> QED
      BY ONLY <1>4, <2>0, <3>1, WiredStays
  <2>2. Housed(w)
    <3>1. \A k \in Job : w.job[k].kind = "join" =>
            /\ page.job[k].kind = "join"
            /\ w.job[k].room = page.job[k].room /\ w.job[k].stay = page.job[k].stay
      BY ONLY <2>0
    <3> QED
      BY ONLY <1>4, <2>0, <3>1, HousedStays
  <2>3. Calm(w)
    BY ONLY <1>0, <1>5 DEF Good, Calm
  <2>4. Entered(w)
    <3>1. w.active # None => w.stay[w.active].entered
      BY ONLY <1>0, <1>4, <1>5 DEF Good, Entered, PageRecord
    <3>2. \A t \in Stay : w.stay[t].full => w.stay[t].entered
      BY ONLY <1>0, <1>5 DEF Good, Entered
    <3>3. \A k \in Job : w.job[k].kind \in {"resume", "resumed"} => w.stay[w.job[k].stay].entered
      <4>1. \A k \in Job : page.job[k].stay \in Stay
        BY <1>0 DEF PageRecord, JobRecord
      <4> QED
        BY ONLY <1>0, <1>5, <1>6, <4>1 DEF Good, Entered
    <3> QED
      BY <3>1, <3>2, <3>3 DEF Entered
  <2>5. Tokens(w, server)
    <3>1. ASSUME NEW t \in Stay, w.stay[t].entered
          PROVE  \/ w.stay[t].current \/ server[t].lost
                 \/ \E k \in Job : w.job[k].kind = "resumed" /\ w.job[k].stay = t
      <4>1. CASE t = s
        BY <1>3, <1>4, <4>1
      <4>2. CASE t # s
        <5>1. \/ page.stay[t].current \/ server[t].lost
              \/ \E k \in Job : page.job[k].kind = "resumed" /\ page.job[k].stay = t
          BY <1>0, <1>5, <3>1 DEF Good, Tokens
        <5>2. ASSUME NEW k \in Job, page.job[k].kind = "resumed", page.job[k].stay = t
              PROVE  w.job[k] = page.job[k]
          BY <1>1, <1>4, <4>2, <5>2
        <5> QED
          BY <1>4, <4>2, <5>1, <5>2
      <4> QED
        BY <4>1, <4>2
    <3>2. ASSUME NEW k \in Job, w.job[k].kind = "resumed"
          PROVE  /\ w.job[k].current /\ ~w.stay[w.job[k].stay].current
                 /\ \A i \in Job : i # k /\ w.job[i].stay = w.job[k].stay => ~w.job[i].current
      <4>1. k # j /\ w.job[k] = page.job[k]
        BY <1>6, <3>2
      <4>2. page.job[k].kind = "resumed" /\ page.job[k].stay # s /\ page.job[k].stay \in Stay
        BY <1>0, <3>2, <4>1 DEF PageRecord, JobRecord
      <4>3. /\ page.job[k].current /\ ~page.stay[page.job[k].stay].current
            /\ \A i \in Job : i # k /\ page.job[i].stay = page.job[k].stay => ~page.job[i].current
        BY <1>0, <4>2 DEF Good, Tokens
      <4>4. ~Idle.current
        BY DEF Idle
      <4>5. w.stay[page.job[k].stay] = page.stay[page.job[k].stay]
        BY <1>4, <4>2
      <4> QED
        BY ONLY <1>1, <1>4, <4>1, <4>3, <4>4, <4>5
    <3> QED
      BY <3>1, <3>2 DEF Tokens
  <2> QED
    BY ONLY <1>0, <1>4, <2>1, <2>2, <2>3, <2>4, <2>5 DEF Good
<1>8. HasSpace(w)
  <2>1. j \in FreeJobs(w)
    BY <1>1, <1>4 DEF FreeJobs, Idle
  <2> QED
    BY ONLY <1>0, <1>4, <2>1 DEF HasSpace, FreeChannels, FreeRooms
<1>9. ASSUME Live(w) PROVE RoomIsCared(w, w.active) \/ s = w.active
  <2> DEFINE a == w.active
  <2>1. a \in Stay /\ a = page.active
    BY <1>4, <1>9, LiveStay DEF Live
  <2>2. RoomIsCared(page, a)
    <3>1. Live(page)
      BY ONLY <1>4, <1>5, <1>9, <2>1 DEF Live, Active
    <3> QED
      BY <1>0, <2>1, <3>1 DEF Cared
  <2>3. \A k \in Job : k # j /\ page.job[k].kind # "free" => w.job[k] = page.job[k]
    BY <1>1, <1>4
  <2> HIDE DEF a
  <2>4. IsUp(page, a) => IsUp(w, a)
    BY ONLY <1>4, <1>5, <2>1 DEF IsUp
  <2>5. w.stay[a].media = page.stay[a].media /\ w.stay[a].full = page.stay[a].full
    BY ONLY <1>5, <2>1
  <2>6. RoomIsCared(w, a) \/ RestoresRoom(page.job[j], a)
    BY ONLY <2>2, <2>3, <2>4, <2>5, j \in Job, LeftToCare
  <2> QED
    BY <2>6 DEF RestoresRoom, a
<1> HIDE DEF s
<1>10. Good(page', server) /\ Cared(page')
  BY ONLY <1>0, <1>2, <1>7, <1>8, <1>9, ConnectEventsGood, ConnectEventsCares
<1> QED
  BY <1>0, <1>10 DEF SessionInv

LEMMA ResumeRefusedKeeps ==
  ASSUME SessionInv, NEW j \in Job, ResumeRefused(j)
  PROVE  SessionInv'
<1> DEFINE w == Done(page, j)
<1>1. /\ Good(page, server) /\ page.job[j].kind # "resumed"
      /\ page' = ScheduleFull(w) /\ server' = server
  BY DEF SessionInv, ResumeRefused
<1>2. Good(w, server)
  BY <1>1, DoneGood
<1> HIDE DEF w
<1>3. w \in PageRecord
  BY <1>2 DEF Good
<1>4. Good(page', server) /\ Cared(page')
  BY ONLY <1>1, <1>2, <1>3, ScheduleFullGood, ScheduleFullCares
<1> QED
  BY <1>1, <1>4 DEF SessionInv

LEMMA ResumeLostKeeps ==
  ASSUME SessionInv, NEW j \in Job, ResumeLost(j)
  PROVE  SessionInv'
<1> DEFINE w == Done(page, j)
           s == page.job[j].stay
           l == server[s].lost \/ page.job[j].kind = "resumed"
<1>1. /\ Good(page, server) /\ page' = ScheduleFull(w) /\ s \in Stay /\ server \in ServerRecord
  BY DEF SessionInv, Good, PageRecord, JobRecord, ResumeLost
<1>2. server' = [server EXCEPT ![s] = [server[s] EXCEPT !.lost = l]] /\ l \in BOOLEAN
  <2>1. server[s].lost \in BOOLEAN
    BY <1>1 DEF ServerRecord
  <2>2. server' = [server EXCEPT ![s].lost = @ \/ page.job[j].kind = "resumed"]
    BY DEF ResumeLost
  <2> QED
    BY <1>1, <2>1, <2>2 DEF ServerRecord
<1>3. l = (server[s].lost \/ page.job[j].kind = "resumed")
  OBVIOUS
<1> HIDE DEF s, l
<1>4. server' \in ServerRecord /\ server'[s].lost = l /\ \A t \in Stay : t # s => server'[t] = server[t]
  BY ONLY <1>1, <1>2 DEF ServerRecord
<1>5. \A t \in Stay : server[t].lost => server'[t].lost
  BY ONLY <1>3, <1>4
<1>6. page.job[j].kind = "resumed" => server'[page.job[j].stay].lost
  BY ONLY <1>3, <1>4 DEF s
<1>7. Good(w, server')
  BY ONLY <1>1, <1>4, <1>5, <1>6, j \in Job, TokenLostGood DEF w
<1> HIDE DEF w
<1>8. w \in PageRecord
  BY <1>7 DEF Good
<1>9. Good(page', server') /\ Cared(page')
  BY ONLY <1>1, <1>7, <1>8, ScheduleFullGood, ScheduleFullCares
<1> QED
  BY <1>9 DEF SessionInv

-----------------------------------------------------------------------------
(* The media room *)

\* The room r is now x.
WithRoom(w, r, x) == [w EXCEPT !.room = [w.room EXCEPT ![r] = x]]

\* A room nobody connects may change, as long as its stay can tell.
LEMMA RoomGood ==
  ASSUME NEW sv, NEW w, Good(w, sv), NEW r \in MediaRoom, NEW x \in RoomRecord,
         \A j \in Job : w.job[j].kind = "join" => w.job[j].room # r,
         \A s \in Stay : w.stay[s].room = r => x.stay = s /\ x.state \notin {"free", "aborted"},
         NEW v, v = WithRoom(w, r, x)
  PROVE  /\ Good(v, sv)
         /\ v.active = w.active /\ v.stay = w.stay /\ v.channel = w.channel /\ v.job = w.job
         /\ v.room[r] = x /\ \A q \in MediaRoom : q # r => v.room[q] = w.room[q]
<1>0. w \in PageRecord
  BY DEF Good
<1>1. /\ v \in PageRecord
      /\ v.active = w.active /\ v.stay = w.stay /\ v.channel = w.channel /\ v.job = w.job
      /\ v.room[r] = x /\ \A q \in MediaRoom : q # r => v.room[q] = w.room[q]
  BY ONLY <1>0, r \in MediaRoom, x \in RoomRecord, v = WithRoom(w, r, x) DEF PageRecord, WithRoom
<1>2. Housed(v)
  <2>0. Housed(w)
    BY DEF Good
  <2>1. ASSUME NEW s \in Stay, v.stay[s].room # None
        PROVE  v.room[v.stay[s].room].stay = s /\ v.room[v.stay[s].room].state \notin {"free", "aborted"}
    <3>1. w.stay[s].room \in MediaRoom /\ v.stay[s].room = w.stay[s].room
      BY <1>0, <1>1, <2>1, PlacesTyped
    <3>2. CASE w.stay[s].room = r
      BY <1>1, <3>1, <3>2
    <3>3. CASE w.stay[s].room # r
      BY ONLY <1>1, <2>0, <2>1, <3>1, <3>3 DEF Housed
    <3> QED
      BY <3>2, <3>3
  <2>2. ASSUME NEW j \in Job, v.job[j].kind = "join"
        PROVE  /\ v.job[j].room \in MediaRoom
               /\ v.room[v.job[j].room].stay = v.job[j].stay
               /\ v.room[v.job[j].room].state \in {"new", "aborted"}
    <3>1. v.job[j] = w.job[j] /\ w.job[j].room # r
      BY <1>1, <2>2
    <3> QED
      BY ONLY <1>1, <2>0, <2>2, <3>1 DEF Housed
  <2>3. \A j, k \in Job :
          v.job[j].kind = "join" /\ v.job[k].kind = "join" /\ v.job[j].room = v.job[k].room => j = k
    BY ONLY <1>1, <2>0 DEF Housed
  <2> QED
    BY ONLY <2>1, <2>2, <2>3 DEF Housed
<1>3. Wired(v) /\ Calm(v) /\ Entered(v)
  <2>1. Wired(w) /\ Calm(w) /\ Entered(w)
    BY DEF Good
  <2>2. Wired(v)
    BY ONLY <1>1, <2>1, WiredAndHoused
  <2>3. Calm(v) /\ Entered(v)
    BY ONLY <1>1, <2>1 DEF Calm, Entered
  <2> QED
    BY <2>2, <2>3
<1>4. Tokens(v, sv)
  BY ONLY <1>1, Good(w, sv) DEF Good, Tokens
<1>5. Good(v, sv)
  BY ONLY <1>1, <1>2, <1>3, <1>4, Good(w, sv) DEF Good
<1> QED
  BY <1>1, <1>5

\* The end of a job of the media room leaves the channel to those who care for it.
LEMMA MediaJobEnds ==
  ASSUME SessionInv, NEW j \in Job, page.job[j].kind \in {"grant", "import", "drop", "join"},
         NEW w, w = Done(page, j)
  PROVE  /\ Good(w, server) /\ j \in FreeJobs(w)
         /\ Live(w) => Live(page) /\ ChannelIsCared(w, w.active)
<1>1. Good(page, server) /\ Cared(page) /\ page \in PageRecord
  BY DEF SessionInv, Good
<1>2. Good(w, server)
  BY <1>1, DoneGood
<1>3. /\ w.active = page.active /\ w.stay = page.stay /\ w.job[j] = Idle
      /\ \A k \in Job : k # j => w.job[k] = page.job[k]
  BY <1>1, DoneEffect
<1>4. j \in FreeJobs(w)
  BY ONLY <1>3, j \in Job DEF FreeJobs, Idle
<1>5. ASSUME Live(w) PROVE Live(page) /\ ChannelIsCared(w, w.active)
  <2> DEFINE a == w.active
  <2>1. Live(page) /\ page.active = a
    BY ONLY <1>3, <1>5 DEF Live, Active
  <2>2. ChannelIsCared(page, a)
    BY <1>1, <2>1 DEF Cared
  <2>3. ~RestoresChannel(page.job[j], a)
    BY DEF RestoresChannel
  <2> HIDE DEF a
  <2>4. ChannelIsCared(w, a)
    BY ONLY <1>3, <2>2, <2>3, j \in Job, LeftToCare
  <2> QED
    BY <2>1, <2>4 DEF a
<1> QED
  BY <1>2, <1>4, <1>5

LEMMA GrantAnsweredKeeps ==
  ASSUME SessionInv, NEW j \in Job, GrantAnswered(j)
  PROVE  SessionInv'
<1> DEFINE w == Done(page, j)
           s == page.job[j].stay
<1>1. /\ page.job[j].kind = "grant" /\ s \in Stay /\ server' = server
      /\ page' = ConnectMedia(w, s) \/ page' = ScheduleFull(w)
  BY DEF SessionInv, Good, PageRecord, JobRecord, GrantAnswered
<1>2. Good(w, server) /\ j \in FreeJobs(w) /\ (Live(w) => ChannelIsCared(w, w.active))
  BY <1>1, MediaJobEnds
<1> HIDE DEF w, s
<1>3. w \in PageRecord
  BY <1>2 DEF Good
<1>4. Good(page', server) /\ Cared(page')
  BY ONLY <1>1, <1>2, <1>3, ConnectMediaGood, ConnectMediaCares, ScheduleFullGood, ScheduleFullCares
<1> QED
  BY <1>1, <1>4 DEF SessionInv

\* A room that cannot be connected is given up, or tried again.
LEMMA JoinFailedKeeps ==
  ASSUME SessionInv, NEW j \in Job, page.job[j].kind = "join", page' = JoinFailed(page, j), server' = server
  PROVE  SessionInv'
<1> DEFINE b == page.job[j]
           w == Done(page, j)
           x == IF page.stay[b.stay].room = b.room THEN [page.room[b.room] EXCEPT !.state = "down"] ELSE NoRoom
           v == WithRoom(w, b.room, x)
<1>0. /\ Good(page, server) /\ page \in PageRecord /\ b.stay \in Stay
      /\ b.room \in MediaRoom /\ page.room[b.room] \in RoomRecord /\ page.room[b.room].stay = b.stay
      /\ \A k \in Job : k # j /\ page.job[k].kind = "join" => page.job[k].room # b.room
  BY DEF SessionInv, Good, Housed, PageRecord, JobRecord
<1>1. Good(w, server) /\ (Live(w) => ChannelIsCared(w, w.active))
  BY MediaJobEnds
<1>2. /\ w.stay = page.stay /\ w.active = page.active /\ w.room = page.room
      /\ w.job[j] = Idle /\ \A k \in Job : k # j => w.job[k] = page.job[k]
  BY <1>0, DoneEffect
<1>3. page' = ScheduleMedia(v)
  <2>1. page' = ScheduleMedia([w EXCEPT !.room[b.room] =
                  IF page.stay[b.stay].room = b.room THEN [@ EXCEPT !.state = "down"] ELSE NoRoom])
    BY DEF JoinFailed
  <2>2. [w EXCEPT !.room[b.room] =
                  IF page.stay[b.stay].room = b.room THEN [@ EXCEPT !.state = "down"] ELSE NoRoom] = v
    <3> HIDE DEF w, b
    <3> QED
      BY ONLY <1>0, <1>2 DEF PageRecord, WithRoom, v, x
  <2> QED
    BY <2>1, <2>2
<1>4. /\ x \in RoomRecord
      /\ \A t \in Stay : w.stay[t].room = b.room => x.stay = t /\ x.state \notin {"free", "aborted"}
  <2>1. \A t \in Stay : page.stay[t].room = b.room => t = b.stay
    BY ONLY <1>0, OwnRoom DEF Good
  <2>2. CASE page.stay[b.stay].room = b.room
    <3>1. x = [page.room[b.room] EXCEPT !.state = "down"]
      BY <2>2
    <3>2. x \in RoomRecord /\ x.stay = b.stay /\ x.state = "down"
      <4> HIDE DEF x, b
      <4> QED
        BY ONLY <1>0, <3>1 DEF RoomRecord
    <3> HIDE DEF x, b
    <3> QED
      BY ONLY <1>2, <2>1, <3>2
  <2>3. CASE page.stay[b.stay].room # b.room
    BY <1>2, <2>1, <2>3, Empty
  <2> QED
    BY <2>2, <2>3
<1>5. \A k \in Job : w.job[k].kind = "join" => w.job[k].room # b.room
  <2> HIDE DEF w, b
  <2> QED
    BY ONLY <1>0, <1>2 DEF Idle
<1> HIDE DEF b, w, x
<1>6. Good(v, server) /\ v.active = w.active /\ v.stay = w.stay /\ v.job = w.job
  BY ONLY <1>0, <1>1, <1>4, <1>5, RoomGood DEF v
<1> HIDE DEF v
<1>7. v \in PageRecord /\ (Live(v) => ChannelIsCared(v, v.active))
  BY ONLY <1>1, <1>6 DEF Good, Live, Active, ChannelIsCared
<1>8. Good(page', server) /\ Cared(page')
  BY ONLY <1>3, <1>6, <1>7, ScheduleMediaGood, ScheduleMediaCares
<1> QED
  BY <1>8 DEF SessionInv

LEMMA MediaFailsKeeps ==
  ASSUME SessionInv, NEW j \in Job, MediaFails(j) \/ JoinAborted(j)
  PROVE  SessionInv'
<1>1. CASE page.job[j].kind = "join" /\ page' = JoinFailed(page, j)
  BY <1>1, JoinFailedKeeps DEF MediaFails, JoinAborted
<1>2. CASE page.job[j].kind = "grant" /\ page' = ScheduleMedia(Done(page, j))
  <2> DEFINE w == Done(page, j)
  <2>1. Good(w, server) /\ (Live(w) => ChannelIsCared(w, w.active)) /\ page' = ScheduleMedia(w) /\ server' = server
    BY <1>2, MediaJobEnds DEF MediaFails, JoinAborted
  <2> HIDE DEF w
  <2>2. w \in PageRecord
    BY <2>1 DEF Good
  <2>3. Good(page', server) /\ Cared(page')
    BY ONLY <2>1, <2>2, ScheduleMediaGood, ScheduleMediaCares
  <2> QED
    BY <2>1, <2>3 DEF SessionInv
<1> QED
  BY <1>1, <1>2 DEF MediaFails, JoinAborted

\* A room that is disconnected is given up, or tried again.
LEMMA RoomDisconnectedKeeps ==
  ASSUME SessionInv, NEW r \in MediaRoom, RoomDisconnected(r)
  PROVE  SessionInv'
<1> DEFINE s == page.room[r].stay
           x == IF page.stay[s].room = r THEN [page.room[r] EXCEPT !.state = "down"] ELSE NoRoom
           w == WithRoom(page, r, x)
<1>0. /\ Good(page, server) /\ Cared(page) /\ page \in PageRecord /\ s \in Stay
      /\ page.room[r] \in RoomRecord /\ page.room[r].state \in {"up", "kicked"} /\ server' = server
  BY DEF SessionInv, Good, PageRecord, RoomRecord, RoomDisconnected
<1>1. page' = IF w.active = s THEN ScheduleMedia(w) ELSE w
  <2>1. w = IF page.stay[s].room = r THEN [page EXCEPT !.room[r].state = "down"]
            ELSE [page EXCEPT !.room[r] = NoRoom]
    <3>1. CASE page.stay[s].room = r
      <4>1. w = WithRoom(page, r, [page.room[r] EXCEPT !.state = "down"])
        BY <3>1
      <4> HIDE DEF w
      <4> QED
        BY <1>0, <3>1, <4>1 DEF PageRecord, WithRoom
    <3>2. CASE page.stay[s].room # r
      <4>1. w = WithRoom(page, r, NoRoom)
        BY <3>2
      <4> HIDE DEF w
      <4> QED
        BY <1>0, <3>2, <4>1 DEF PageRecord, WithRoom
    <3> QED
      BY <3>1, <3>2
  <2> HIDE DEF w
  <2>2. CASE page.stay[s].room = r
    BY <2>1, <2>2 DEF RoomDisconnected
  <2>3. CASE page.stay[s].room # r
    BY <2>1, <2>3 DEF RoomDisconnected
  <2> QED
    BY <2>2, <2>3
<1>2. \A t \in Stay : page.stay[t].room = r => t = s
  BY <1>0, Numbers DEF Good, Housed
<1>3. /\ x \in RoomRecord
      /\ \A t \in Stay : page.stay[t].room = r => x.stay = t /\ x.state \notin {"free", "aborted"}
  <2>1. CASE page.stay[s].room = r
    <3>1. x = [page.room[r] EXCEPT !.state = "down"]
      BY <2>1
    <3>2. x \in RoomRecord /\ x.stay = s /\ x.state = "down"
      <4> HIDE DEF x
      <4> QED
        BY <1>0, <3>1 DEF RoomRecord
    <3> HIDE DEF x, s
    <3> QED
      BY ONLY <1>2, <3>2
  <2>2. CASE page.stay[s].room # r
    BY <1>2, <2>2, Empty
  <2> QED
    BY <2>1, <2>2
<1>4. \A k \in Job : page.job[k].kind = "join" => page.job[k].room # r
  BY <1>0 DEF Good, Housed
<1> HIDE DEF s, x
<1>5. /\ Good(w, server)
      /\ w.active = page.active /\ w.stay = page.stay /\ w.job = page.job
      /\ \A q \in MediaRoom : q # r => w.room[q] = page.room[q]
  BY ONLY <1>0, <1>3, <1>4, r \in MediaRoom, RoomGood DEF w
<1> HIDE DEF w
<1>6. CASE w.active = s
  <2>1. w \in PageRecord /\ (Live(w) => ChannelIsCared(w, w.active))
    BY ONLY <1>0, <1>5 DEF Good, Cared, Live, Active, ChannelIsCared
  <2>2. page' = ScheduleMedia(w)
    BY <1>1, <1>6
  <2>3. Good(page', server) /\ Cared(page')
    BY ONLY <1>5, <2>1, <2>2, ScheduleMediaGood, ScheduleMediaCares
  <2> QED
    BY <1>0, <2>3 DEF SessionInv
<1>7. CASE w.active # s
  <2>1. page' = w
    BY <1>1, <1>7
  <2>2. ASSUME Live(w) PROVE ChannelIsCared(w, w.active) /\ RoomIsCared(w, w.active)
    <3>1. page.active \in Stay /\ Live(page) /\ w.active = page.active
      BY <1>0, <1>5, <2>2, LiveStay DEF Live, Active
    <3>2. page.stay[page.active].room # r
      BY <1>2, <1>7, <3>1
    <3>3. page.stay[page.active].room # None => page.stay[page.active].room \in MediaRoom
      BY <1>0, <3>1 DEF PageRecord, StayRecord
    <3>4. ChannelIsCared(page, page.active) /\ RoomIsCared(page, page.active)
      BY <1>0, <3>1 DEF Cared
    <3>5. IsUp(page, page.active) => IsUp(w, page.active)
      BY ONLY <1>5, <3>2, <3>3 DEF IsUp
    <3> QED
      BY ONLY <1>5, <3>1, <3>4, <3>5 DEF ChannelIsCared, RoomIsCared
  <2> QED
    BY <1>0, <1>5, <2>1, <2>2 DEF SessionInv, Cared
<1> QED
  BY <1>6, <1>7

\* The job j becomes f.
WithJob(w, j, f) == [w EXCEPT !.job = [w.job EXCEPT ![j] = f]]

\* The SDK is loaded: a call of connectMedia goes on with the rooms in order.
LEMMA DropGood ==
  ASSUME NEW sv, NEW w, Good(w, sv), NEW j \in Job, w.job[j].kind = "import",
         NEW f \in JobRecord, f.kind = "drop", f.stay = w.job[j].stay, f.current = w.job[j].current,
         NEW v, v = WithJob(w, j, f)
  PROVE  /\ Good(v, sv)
         /\ v.active = w.active /\ v.stay = w.stay /\ v.channel = w.channel /\ v.room = w.room
         /\ v.job[j] = f /\ \A k \in Job : k # j => v.job[k] = w.job[k]
<1>0. w \in PageRecord
  BY DEF Good
<1>1. /\ v \in PageRecord
      /\ v.active = w.active /\ v.stay = w.stay /\ v.channel = w.channel /\ v.room = w.room
      /\ v.job[j] = f /\ \A k \in Job : k # j => v.job[k] = w.job[k]
  BY ONLY <1>0, j \in Job, f \in JobRecord, v = WithJob(w, j, f) DEF PageRecord, WithJob
<1>2. \A k \in Job : v.job[k].kind \in {"connect", "join", "resume", "resumed"} => k # j /\ v.job[k] = w.job[k]
  BY ONLY <1>1, f.kind = "drop"
<1>3. Wired(v) /\ Housed(v) /\ Calm(v) /\ Entered(v)
  <2>1. w \in PageRecord /\ Wired(w) /\ Housed(w) /\ Calm(w) /\ Entered(w)
    BY DEF Good
  <2>2. \A k \in Job : v.job[k].kind \in {"connect", "join", "resume", "resumed"} => v.job[k] = w.job[k]
    BY ONLY <1>2
  <2> QED
    BY ONLY <1>1, <2>1, <2>2, JobsKeep
<1>4. Tokens(v, sv)
  <2>1. \A k \in Job : v.job[k].stay = w.job[k].stay /\ v.job[k].current = w.job[k].current
    BY ONLY <1>1, f.stay = w.job[j].stay, f.current = w.job[j].current
  <2>2. \A k \in Job : w.job[k].kind = "resumed" <=> v.job[k].kind = "resumed"
    BY ONLY <1>1, w.job[j].kind = "import", f.kind = "drop"
  <2> QED
    BY ONLY <1>1, <2>1, <2>2, Good(w, sv) DEF Good, Tokens
<1>5. Good(v, sv)
  BY ONLY <1>1, <1>3, <1>4, Good(w, sv) DEF Good
<1> QED
  BY <1>1, <1>5

LEMMA MediaImportedKeeps ==
  ASSUME SessionInv, NEW j \in Job, MediaImported(j)
  PROVE  SessionInv'
<1> DEFINE s == page.job[j].stay
<1>0. /\ Good(page, server) /\ Cared(page) /\ page \in PageRecord /\ s \in Stay
      /\ page.job[j] \in JobRecord /\ page.job[j].kind = "import" /\ server' = server
  BY DEF SessionInv, Good, PageRecord, JobRecord, MediaImported
<1>1. CASE Live(page) /\ page.active = s
  <2> DEFINE w == RoomClosed(page, s)
             f == [page.job[j] EXCEPT !.kind = "drop"]
  <2>1. /\ f \in JobRecord /\ f.kind = "drop" /\ f.stay = s /\ f.current = page.job[j].current
    BY ONLY <1>0 DEF JobRecord
  <2>2. /\ Good(w, server) /\ w \in PageRecord
        /\ w.active = page.active /\ w.job = page.job
        /\ SameFlags(page, w) /\ \A t \in Stay : w.stay[t].socket = page.stay[t].socket
    BY <1>0, RoomClosedGood, RoomClosedEffect
  <2>3. page' = WithJob(w, j, f)
    <3>1. page' = [w EXCEPT !.job[j].kind = "drop"]
      BY <1>1 DEF MediaImported
    <3> HIDE DEF w
    <3>2. [w EXCEPT !.job[j].kind = "drop"] = WithJob(w, j, f)
      BY ONLY <1>0, <2>2 DEF PageRecord, WithJob
    <3> QED
      BY <3>1, <3>2
  <2> HIDE DEF w, f, s
  <2>4. /\ Good(page', server)
        /\ page'.active = w.active /\ page'.stay = w.stay
        /\ page'.job[j] = f /\ \A k \in Job : k # j => page'.job[k] = w.job[k]
    <3>1. w.job[j].kind = "import" /\ f.stay = w.job[j].stay /\ f.current = w.job[j].current
      BY <1>0, <2>1, <2>2 DEF s
    <3> QED
      BY ONLY <2>1, <2>2, <2>3, <3>1, j \in Job, DropGood
  <2>5. ChannelIsCared(page', s)
    <3>1. ChannelIsCared(page, s)
      BY <1>0, <1>1 DEF Cared
    <3>2. ~RestoresChannel(page.job[j], s)
      BY <1>0 DEF RestoresChannel
    <3>3. /\ page'.stay[s].socket = page.stay[s].socket
          /\ page'.stay[s].events = page.stay[s].events /\ page'.stay[s].full = page.stay[s].full
      BY ONLY <1>0, <2>2, <2>4 DEF SameFlags
    <3>4. \A k \in Job : k # j /\ page.job[k].kind # "free" => page'.job[k] = page.job[k]
      BY ONLY <2>2, <2>4
    <3> QED
      BY ONLY <3>1, <3>2, <3>3, <3>4, j \in Job, LeftToCare
  <2>6. RoomIsCared(page', s)
    <3>1. RestoresRoom(page'.job[j], s)
      BY ONLY <2>1, <2>4 DEF RestoresRoom
    <3> QED
      BY <3>1 DEF RoomIsCared
  <2>7. page'.active = s
    BY <1>1, <2>2, <2>4
  <2> QED
    BY <1>0, <2>4, <2>5, <2>6, <2>7 DEF SessionInv, Cared
<1>2. CASE ~(Live(page) /\ page.active = s)
  <2>1. page' = Done(page, j)
    BY <1>2 DEF MediaImported
  <2>2. Good(page', server) /\ (Live(page') => Live(page) /\ ChannelIsCared(page', page'.active))
    BY <1>0, <2>1, MediaJobEnds
  <2>3. /\ page'.active = page.active /\ page'.stay = page.stay /\ page'.room = page.room
        /\ \A k \in Job : k # j => page'.job[k] = page.job[k]
    BY <1>0, <2>1, DoneEffect
  <2>4. ASSUME Live(page') PROVE RoomIsCared(page', page'.active)
    <3> DEFINE a == page.active
    <3>1. RoomIsCared(page, a) /\ Live(page)
      BY <1>0, <2>2, <2>4 DEF Cared
    <3>2. ~RestoresRoom(page.job[j], a)
      BY <1>2, <3>1 DEF RestoresRoom
    <3>3. IsUp(page', a) = IsUp(page, a)
      BY ONLY <2>3 DEF IsUp
    <3> HIDE DEF a
    <3>4. RoomIsCared(page', a)
      BY ONLY <2>3, <3>1, <3>2, <3>3, j \in Job, LeftToCare
    <3> QED
      BY <2>3, <3>4 DEF a
  <2> QED
    BY <1>0, <2>2, <2>4 DEF SessionInv, Cared
<1> QED
  BY <1>1, <1>2

\* What connectMedia changes when it replaces the room of its stay.
LEMMA RoomCreatedEffect ==
  ASSUME Good(page, server), NEW j \in Job, RoomCreated(j),
         NEW s, s = page.job[j].stay, NEW o, o = page.stay[s].room
  PROVE  \E r \in MediaRoom, f \in JobRecord :
           /\ s \in Stay /\ page.room[r].state = "free" /\ page' \in PageRecord
           /\ f.kind = "join" /\ f.stay = s /\ f.current = page.job[j].current /\ f.room = r
           /\ page'.active = page.active /\ page'.channel = page.channel
           /\ page'.room[r].state = "new" /\ page'.room[r].stay = s
           /\ \A q \in MediaRoom : q # r /\ q # o => page'.room[q] = page.room[q]
           /\ o # None /\ o # r => page'.room[o] = IF page.room[o].state = "down" THEN NoRoom ELSE page.room[o]
           /\ SameFlags(page, page') /\ \A t \in Stay : page'.stay[t].socket = page.stay[t].socket
           /\ page'.stay[s].room = r /\ \A t \in Stay : t # s => page'.stay[t].room = page.stay[t].room
           /\ page'.job[j] = f /\ \A k \in Job : k # j => page'.job[k] = page.job[k]
<1> DEFINE b == page.job[j]
           r == First(FreeRooms(page))
           x == [state |-> "new", stay |-> s, grant |-> b.origin]
           st == [page.stay[s] EXCEPT !.room = r]
           f == [b EXCEPT !.kind = "join", !.room = r]
           rooms == IF o # None /\ page.room[o].state = "down" THEN [page.room EXCEPT ![o] = NoRoom]
                    ELSE page.room
<1>1. /\ page \in PageRecord /\ b \in JobRecord /\ s \in Stay /\ b.origin \in Stay /\ b.stay = s
      /\ page.stay[s] \in StayRecord /\ o \in MediaRoom \cup {None}
  <2>1. page \in PageRecord /\ b \in JobRecord /\ b.stay = s
    BY DEF Good, PageRecord
  <2>2. s \in Stay /\ b.origin \in Stay
    BY <2>1 DEF JobRecord
  <2>3. page.stay[s] \in StayRecord
    BY <2>1, <2>2 DEF PageRecord
  <2>4. o \in MediaRoom \cup {None}
    BY <2>3 DEF StayRecord
  <2> QED
    BY <2>1, <2>2, <2>3, <2>4
<1>2. r \in MediaRoom /\ page.room[r].state = "free"
  BY Taken DEF RoomCreated
<1>3. /\ x \in RoomRecord /\ x.state = "new" /\ x.stay = s
      /\ rooms \in [MediaRoom -> RoomRecord]
      /\ \A q \in MediaRoom : q # o => rooms[q] = page.room[q]
      /\ o # None => rooms[o] = IF page.room[o].state = "down" THEN NoRoom ELSE page.room[o]
  <2>1. x \in RoomRecord /\ x.state = "new" /\ x.stay = s
    BY <1>1 DEF RoomRecord
  <2>2. page.room \in [MediaRoom -> RoomRecord] /\ NoRoom \in RoomRecord
    BY <1>1, Empty DEF PageRecord
  <2> HIDE DEF x
  <2>3. /\ rooms \in [MediaRoom -> RoomRecord]
        /\ \A q \in MediaRoom : q # o => rooms[q] = page.room[q]
        /\ o # None => rooms[o] = IF page.room[o].state = "down" THEN NoRoom ELSE page.room[o]
    BY <1>1, <2>2
  <2> QED
    BY <2>1, <2>3
<1>4. page' = [page EXCEPT !.room = [rooms EXCEPT ![r] = x], !.stay = [page.stay EXCEPT ![s] = st],
                           !.job = [page.job EXCEPT ![j] = f]]
  <2> DEFINE w == IF o # None /\ page.room[o].state = "down" THEN [page EXCEPT !.room[o] = NoRoom] ELSE page
  <2>1. page' = [w EXCEPT !.room[r] = x, !.stay[s].room = r, !.job[j].kind = "join", !.job[j].room = r]
    BY DEF RoomCreated
  <2>2. w = [page EXCEPT !.room = rooms]
    <3>1. page = [page EXCEPT !.room = page.room]
      BY <1>1 DEF PageRecord
    <3>2. [page EXCEPT !.room[o] = NoRoom] = [page EXCEPT !.room = [page.room EXCEPT ![o] = NoRoom]]
      BY <1>1 DEF PageRecord
    <3> QED
      BY ONLY <3>1, <3>2
  <2> HIDE DEF w, x, r, rooms, b
  <2>3. w.stay = page.stay /\ w.job = page.job /\ w.room = rooms /\ w \in PageRecord
    BY ONLY <1>1, <1>3, <2>2 DEF PageRecord
  <2>4. page' = [w EXCEPT !.room = [rooms EXCEPT ![r] = x], !.stay = [page.stay EXCEPT ![s] = st],
                          !.job = [page.job EXCEPT ![j] = f]]
    <3>1. page.stay[s] \in StayRecord /\ page.job[j] = b /\ b \in JobRecord
      BY <1>1 DEF b
    <3> QED
      BY ONLY <2>1, <2>3, <3>1, <1>1, j \in Job DEF PageRecord
  <2> HIDE DEF st, f
  <2> QED
    BY ONLY <1>1, <2>2, <2>4 DEF PageRecord
<1>5. /\ f \in JobRecord /\ f.kind = "join" /\ f.stay = s /\ f.current = page.job[j].current /\ f.room = r
  <2> HIDE DEF r
  <2> QED
    BY <1>1, <1>2 DEF JobRecord
<1>6. /\ st \in StayRecord /\ st.room = r
      /\ st.entered = page.stay[s].entered /\ st.leaving = page.stay[s].leaving
      /\ st.ended = page.stay[s].ended /\ st.current = page.stay[s].current
      /\ st.events = page.stay[s].events /\ st.media = page.stay[s].media
      /\ st.full = page.stay[s].full /\ st.socket = page.stay[s].socket
  <2> HIDE DEF r
  <2> QED
    BY <1>1, <1>2 DEF StayRecord
<1> HIDE DEF b, r, x, st, f, rooms
<1>7. /\ page' \in PageRecord /\ page'.active = page.active /\ page'.channel = page.channel
      /\ page'.room = [rooms EXCEPT ![r] = x]
      /\ page'.stay = [page.stay EXCEPT ![s] = st] /\ page'.job = [page.job EXCEPT ![j] = f]
  BY ONLY <1>1, <1>2, <1>3, <1>4, <1>5, <1>6, j \in Job DEF PageRecord
<1>8. /\ page'.room[r] = x /\ \A q \in MediaRoom : q # r => page'.room[q] = rooms[q]
      /\ page'.stay[s] = st /\ \A t \in Stay : t # s => page'.stay[t] = page.stay[t]
      /\ page'.job[j] = f /\ \A k \in Job : k # j => page'.job[k] = page.job[k]
  BY ONLY <1>1, <1>2, <1>3, <1>7, j \in Job DEF PageRecord
<1>9. SameFlags(page, page') /\ \A t \in Stay : page'.stay[t].socket = page.stay[t].socket
  BY ONLY <1>6, <1>8, <1>1 DEF SameFlags
<1> QED
  BY ONLY <1>1, <1>2, <1>3, <1>5, <1>6, <1>7, <1>8, <1>9

LEMMA RoomCreatedKeeps ==
  ASSUME SessionInv, NEW j \in Job, RoomCreated(j)
  PROVE  SessionInv'
<1> DEFINE s == page.job[j].stay
           o == page.stay[s].room
<1>0. Good(page, server) /\ Cared(page) /\ page.job[j].kind = "drop" /\ server' = server
  BY DEF SessionInv, RoomCreated
<1>1. PICK r \in MediaRoom, f \in JobRecord :
           /\ s \in Stay /\ page.room[r].state = "free" /\ page' \in PageRecord
           /\ f.kind = "join" /\ f.stay = s /\ f.current = page.job[j].current /\ f.room = r
           /\ page'.active = page.active /\ page'.channel = page.channel
           /\ page'.room[r].state = "new" /\ page'.room[r].stay = s
           /\ \A q \in MediaRoom : q # r /\ q # o => page'.room[q] = page.room[q]
           /\ o # None /\ o # r => page'.room[o] = IF page.room[o].state = "down" THEN NoRoom ELSE page.room[o]
           /\ SameFlags(page, page') /\ \A t \in Stay : page'.stay[t].socket = page.stay[t].socket
           /\ page'.stay[s].room = r /\ \A t \in Stay : t # s => page'.stay[t].room = page.stay[t].room
           /\ page'.job[j] = f /\ \A k \in Job : k # j => page'.job[k] = page.job[k]
  BY <1>0, RoomCreatedEffect
<1>2. \A k \in Job : page'.job[k].stay = page.job[k].stay /\ page'.job[k].current = page.job[k].current
  BY ONLY <1>1
<1>3. \A k \in Job : page'.job[k].kind \in {"connect", "resume", "resumed"}
                     <=> page.job[k].kind \in {"connect", "resume", "resumed"}
  BY ONLY <1>0, <1>1
<1>4. \A k \in Job : page.job[k].kind \in {"connect", "resume", "resumed"} => page'.job[k] = page.job[k]
  BY ONLY <1>0, <1>1
<1>5. Wired(page')
  <2>1. Wired(page)
    BY <1>0 DEF Good
  <2>2. \A k \in Job : page'.job[k].kind = "connect" =>
          /\ page.job[k].kind = "connect"
          /\ page'.job[k].channel = page.job[k].channel /\ page'.job[k].stay = page.job[k].stay
    BY ONLY <1>3, <1>4
  <2> HIDE DEF s, o
  <2> QED
    BY ONLY <1>1, <2>1, <2>2, WiredStays
<1>6. \A t \in Stay : t # s /\ page.stay[t].room # None =>
        /\ page.stay[t].room \in MediaRoom /\ page.stay[t].room # r /\ page.stay[t].room # o
        /\ page'.room[page.stay[t].room] = page.room[page.stay[t].room]
  <2> SUFFICES ASSUME NEW t \in Stay, t # s, page.stay[t].room # None
               PROVE  /\ page.stay[t].room \in MediaRoom /\ page.stay[t].room # r /\ page.stay[t].room # o
                      /\ page'.room[page.stay[t].room] = page.room[page.stay[t].room]
    OBVIOUS
  <2>0. Housed(page) /\ page.stay[t] \in StayRecord
    BY <1>0 DEF Good, PageRecord
  <2>1. page.stay[t].room \in MediaRoom
    BY ONLY <2>0, page.stay[t].room # None DEF StayRecord
  <2>2. page.stay[t].room # r /\ page.stay[t].room # o
    <3>1. page.room[page.stay[t].room].stay = t /\ page.room[page.stay[t].room].state # "free"
      BY ONLY <2>0, t \in Stay, page.stay[t].room # None DEF Housed
    <3>2. s \in Stay /\ page.room[r].state = "free"
      BY ONLY <1>1
    <3>3. page.stay[t].room = o => page.room[page.stay[t].room].stay = s
      BY ONLY <2>0, <3>2, page.stay[t].room # None DEF Housed
    <3> QED
      BY ONLY <3>1, <3>2, <3>3, t # s
  <2> HIDE DEF s, o
  <2> QED
    BY ONLY <1>1, <2>1, <2>2
<1>7. \A k \in Job : k # j /\ page.job[k].kind = "join" =>
        /\ page.job[k].room \in MediaRoom /\ page.job[k].room # r
        /\ page'.room[page.job[k].room] = page.room[page.job[k].room]
  <2> SUFFICES ASSUME NEW k \in Job, k # j, page.job[k].kind = "join"
               PROVE  /\ page.job[k].room \in MediaRoom /\ page.job[k].room # r
                      /\ page'.room[page.job[k].room] = page.room[page.job[k].room]
    OBVIOUS
  <2>1. /\ page.job[k].room \in MediaRoom
        /\ page.room[page.job[k].room].state \in {"new", "aborted"}
    BY <1>0 DEF Good, Housed
  <2>2. page.job[k].room # r
    BY <1>1, <2>1
  <2>3. page.job[k].room = o => o # None /\ o # r /\ page.room[o].state # "down"
    BY <2>1, <2>2, Numbers
  <2> HIDE DEF s, o
  <2> QED
    BY ONLY <1>1, <2>1, <2>2, <2>3
<1>8. Housed(page')
  <2>1. ASSUME NEW t \in Stay, page'.stay[t].room # None
        PROVE  /\ page'.room[page'.stay[t].room].stay = t
               /\ page'.room[page'.stay[t].room].state \notin {"free", "aborted"}
    <3>1. CASE t = s
      BY <1>1, <3>1
    <3>2. CASE t # s
      <4>1. page'.stay[t].room = page.stay[t].room
        BY <1>1, <3>2
      <4>2. Housed(page) /\ page.stay[t].room # None
        BY <1>0, <2>1, <4>1 DEF Good
      <4>3. page'.room[page.stay[t].room] = page.room[page.stay[t].room]
        BY ONLY <1>6, <3>2, <4>2, t \in Stay
      <4>4. /\ page.room[page.stay[t].room].stay = t
            /\ page.room[page.stay[t].room].state \notin {"free", "aborted"}
        BY ONLY <4>2, t \in Stay, RoomIsInUse
      <4> QED
        BY ONLY <4>1, <4>3, <4>4
    <3> QED
      BY <3>1, <3>2
  <2>2. ASSUME NEW k \in Job, page'.job[k].kind = "join"
        PROVE  /\ page'.job[k].room \in MediaRoom
               /\ page'.room[page'.job[k].room].stay = page'.job[k].stay
               /\ page'.room[page'.job[k].room].state \in {"new", "aborted"}
    <3>1. CASE k = j
      <4>1. page'.job[k].room = r /\ page'.job[k].stay = s
        BY ONLY <1>1, <3>1
      <4> QED
        BY ONLY <1>1, <4>1
    <3>2. CASE k # j
      <4>1. page'.job[k] = page.job[k] /\ Housed(page)
        BY <1>0, <1>1, <3>2 DEF Good
      <4> QED
        BY ONLY <1>7, <2>2, <3>2, <4>1 DEF Housed
    <3> QED
      BY <3>1, <3>2
  <2>3. ASSUME NEW k \in Job, NEW l \in Job, page'.job[k].kind = "join", page'.job[l].kind = "join",
               page'.job[k].room = page'.job[l].room
        PROVE  k = l
    <3>0. Housed(page)
      BY <1>0 DEF Good
    <3>1. \A i \in Job : i # j => page'.job[i] = page.job[i]
      BY ONLY <1>1
    <3>2. k # j /\ l # j => k = l
      BY ONLY <2>3, <3>0, <3>1 DEF Housed
    <3>3. \A i \in Job : i # j /\ page'.job[i].kind = "join" => page'.job[i].room # r
      BY ONLY <1>7, <3>1
    <3>4. page'.job[j].room = r
      BY ONLY <1>1
    <3> QED
      BY ONLY <2>3, <3>2, <3>3, <3>4
  <2> HIDE DEF s, o
  <2> QED
    BY ONLY <2>1, <2>2, <2>3 DEF Housed
<1>9. Calm(page')
  <2>1. Calm(page)
    BY <1>0 DEF Good
  <2>2. SameFlags(page, page') /\ \A t \in Stay : page'.stay[t].socket = page.stay[t].socket
    BY <1>1
  <2> QED
    BY ONLY <2>1, <2>2, CalmStays
<1>10. Entered(page')
  <2>1. \A k \in Job : page'.job[k].kind \in {"resume", "resumed"} =>
          page.job[k].kind \in {"resume", "resumed"} /\ page.job[k].stay \in Stay
    BY ONLY <1>0, <1>1 DEF Good, PageRecord, JobRecord
  <2>2. page.active # None => page.active \in Stay
    BY <1>0 DEF Good, PageRecord
  <2> HIDE DEF s, o
  <2> QED
    BY ONLY <1>0, <1>1, <1>2, <2>1, <2>2 DEF Good, Entered, SameFlags
<1>11. Tokens(page', server)
  <2>1. \A k \in Job : page'.job[k].kind = "resumed" <=> page.job[k].kind = "resumed"
    BY ONLY <1>0, <1>1
  <2>2. \A k \in Job : page.job[k].stay \in Stay
    BY <1>0 DEF Good, PageRecord, JobRecord
  <2> HIDE DEF s, o
  <2> QED
    BY ONLY <1>0, <1>1, <1>2, <2>1, <2>2 DEF Good, Tokens, SameFlags
<1>12. Good(page', server)
  BY ONLY <1>0, <1>1, <1>5, <1>8, <1>9, <1>10, <1>11 DEF Good
<1>13. ASSUME Live(page') PROVE ChannelIsCared(page', page'.active) /\ RoomIsCared(page', page'.active)
  <2> DEFINE a == page.active
  <2>1. a \in Stay /\ page'.active = a
    BY <1>0, <1>1, <1>13 DEF Live, Good, PageRecord
  <2>2. Live(page)
    BY ONLY <1>1, <1>13, <2>1 DEF Live, Active, SameFlags
  <2>3. ChannelIsCared(page, a) /\ RoomIsCared(page, a)
    BY <1>0, <2>2 DEF Cared
  <2>4. ~RestoresChannel(page.job[j], a)
    BY <1>0 DEF RestoresChannel
  <2>5. \A k \in Job : k # j /\ page.job[k].kind # "free" => page'.job[k] = page.job[k]
    BY ONLY <1>1
  <2>6. /\ page'.stay[a].socket = page.stay[a].socket /\ page'.stay[a].events = page.stay[a].events
        /\ page'.stay[a].media = page.stay[a].media /\ page'.stay[a].full = page.stay[a].full
    BY ONLY <1>1, <2>1 DEF SameFlags
  <2>7. CASE a = s
    <3>1. RestoresRoom(page'.job[j], a)
      BY <1>1, <2>7 DEF RestoresRoom
    <3>2. RoomIsCared(page', a)
      BY <3>1 DEF RoomIsCared
    <3>3. ChannelIsCared(page', a)
      <4> HIDE DEF a
      <4> QED
        BY ONLY <2>3, <2>4, <2>5, <2>6, j \in Job, LeftToCare
    <3> QED
      BY <2>1, <3>2, <3>3
  <2>8. CASE a # s
    <3>1. ~RestoresRoom(page.job[j], a)
      BY <2>8 DEF RestoresRoom
    <3>2. IsUp(page, a) => IsUp(page', a)
      BY <1>1, <1>6, <2>1, <2>8 DEF IsUp
    <3> HIDE DEF a
    <3>3. ChannelIsCared(page', a) /\ RoomIsCared(page', a)
      BY ONLY <2>3, <2>4, <2>5, <2>6, <3>1, <3>2, j \in Job, LeftToCare
    <3> QED
      BY <2>1, <3>3
  <2> QED
    BY <2>7, <2>8
<1> QED
  BY <1>0, <1>12, <1>13 DEF SessionInv, Cared

\* A stay may give its room away.
LEMMA WithoutRoomGood ==
  ASSUME NEW sv, NEW w, Good(w, sv), NEW s \in Stay,
         NEW st, st = [w.stay[s] EXCEPT !.room = None],
         NEW v, v = WithStay(w, s, st)
  PROVE  /\ Good(v, sv)
         /\ v.active = w.active /\ v.channel = w.channel /\ v.room = w.room /\ v.job = w.job
         /\ SameFlags(w, v) /\ \A t \in Stay : v.stay[t].socket = w.stay[t].socket
         /\ v.stay[s].room = None /\ \A t \in Stay : t # s => v.stay[t].room = w.stay[t].room
<1>0. w \in PageRecord /\ w.stay[s] \in StayRecord
  BY DEF Good, PageRecord
<1>1. /\ st \in StayRecord /\ st.room = None
      /\ st.entered = w.stay[s].entered /\ st.leaving = w.stay[s].leaving
      /\ st.ended = w.stay[s].ended /\ st.current = w.stay[s].current
      /\ st.events = w.stay[s].events /\ st.media = w.stay[s].media
      /\ st.full = w.stay[s].full /\ st.socket = w.stay[s].socket
  BY ONLY <1>0, st = [w.stay[s] EXCEPT !.room = None] DEF StayRecord
<1>2. /\ v \in PageRecord
      /\ v.active = w.active /\ v.channel = w.channel /\ v.room = w.room /\ v.job = w.job
      /\ v.stay[s] = st /\ \A t \in Stay : t # s => v.stay[t] = w.stay[t]
  BY ONLY <1>0, <1>1, s \in Stay, v = WithStay(w, s, st), StayEffect DEF WithStay
<1>3. /\ SameFlags(w, v) /\ \A t \in Stay : v.stay[t].socket = w.stay[t].socket
      /\ v.stay[s].room = None /\ \A t \in Stay : t # s => v.stay[t].room = w.stay[t].room
  BY ONLY <1>1, <1>2, s \in Stay DEF SameFlags
<1>4. Wired(v)
  <2>1. Wired(w)
    BY DEF Good
  <2> QED
    BY ONLY <1>2, <1>3, <2>1, WiredAndHoused
<1>5. Housed(v)
  <2>1. Housed(w)
    BY DEF Good
  <2>2. \A t \in Stay : v.stay[t].room # None =>
          w.stay[t].room # None /\ v.room[v.stay[t].room] = w.room[w.stay[t].room]
    BY ONLY <1>2, <1>3
  <2>3. \A t \in Stay : v.stay[t].room # None =>
          v.room[v.stay[t].room].stay = t /\ v.room[v.stay[t].room].state \notin {"free", "aborted"}
    BY ONLY <2>1, <2>2, RoomIsInUse
  <2> QED
    BY ONLY <1>2, <2>1, <2>3 DEF Housed
<1>6. Calm(v)
  <2>1. Calm(w)
    BY DEF Good
  <2> QED
    BY ONLY <1>3, <2>1, CalmStays
<1>7. Entered(v)
  <2>1. (w.active # None => w.active \in Stay) /\ \A j \in Job : w.job[j].stay \in Stay
    BY <1>0 DEF PageRecord, JobRecord
  <2>2. Entered(w)
    BY DEF Good
  <2> QED
    BY ONLY <1>2, <1>3, <2>1, <2>2 DEF Entered, SameFlags
<1>8. Tokens(v, sv)
  <2>1. Tokens(w, sv)
    BY DEF Good
  <2> QED
    BY ONLY <1>0, <1>2, <1>3, <2>1, SameTokens DEF SameFlags
<1>9. Good(v, sv)
  BY ONLY <1>2, <1>4, <1>5, <1>6, <1>7, <1>8, Good(w, sv) DEF Good
<1> QED
  BY ONLY <1>2, <1>3, <1>9

\* The rooms that are connected with the grant of the stay o lose their connection.
Kicked(w, o) ==
    [w EXCEPT !.room = [r \in MediaRoom |-> IF w.room[r].state = "up" /\ w.room[r].grant = o
                                            THEN [w.room[r] EXCEPT !.state = "kicked"] ELSE w.room[r]]]

\* Their stays have not heard of it.
LEMMA KickedGood ==
  ASSUME NEW sv, NEW w, Good(w, sv), NEW o, NEW v, v = Kicked(w, o)
  PROVE  /\ Good(v, sv)
         /\ v.active = w.active /\ v.stay = w.stay /\ v.channel = w.channel /\ v.job = w.job
         /\ \A r \in MediaRoom : /\ v.room[r].stay = w.room[r].stay
                                 /\ \/ v.room[r].state = w.room[r].state
                                    \/ w.room[r].state = "up" /\ v.room[r].state = "kicked"
<1> DEFINE rooms == [r \in MediaRoom |-> IF w.room[r].state = "up" /\ w.room[r].grant = o
                                         THEN [w.room[r] EXCEPT !.state = "kicked"] ELSE w.room[r]]
<1>0. w \in PageRecord
  BY DEF Good
<1>1. ASSUME NEW r \in MediaRoom
      PROVE  /\ rooms[r] \in RoomRecord /\ rooms[r].stay = w.room[r].stay
             /\ \/ rooms[r].state = w.room[r].state
                \/ w.room[r].state = "up" /\ rooms[r].state = "kicked"
  <2>1. w.room[r] \in RoomRecord
    BY <1>0 DEF PageRecord
  <2>2. rooms[r] = IF w.room[r].state = "up" /\ w.room[r].grant = o
                   THEN [w.room[r] EXCEPT !.state = "kicked"] ELSE w.room[r]
    OBVIOUS
  <2> HIDE DEF rooms
  <2> QED
    BY ONLY <2>1, <2>2 DEF RoomRecord
<1>2. rooms \in [MediaRoom -> RoomRecord]
  BY <1>1
<1>3. v = [w EXCEPT !.room = rooms]
  BY DEF Kicked
<1> HIDE DEF rooms
<1>4. /\ v \in PageRecord /\ v.active = w.active /\ v.stay = w.stay /\ v.channel = w.channel
      /\ v.job = w.job /\ v.room = rooms
  BY ONLY <1>0, <1>2, <1>3 DEF PageRecord
<1>5. \A r \in MediaRoom : /\ v.room[r].stay = w.room[r].stay
                           /\ \/ v.room[r].state = w.room[r].state
                              \/ w.room[r].state = "up" /\ v.room[r].state = "kicked"
  BY <1>1, <1>4
<1>6. Housed(v)
  <2>1. \A t \in Stay : w.stay[t].room # None => w.stay[t].room \in MediaRoom
    BY DEF Good, PageRecord, StayRecord
  <2> QED
    BY ONLY <1>4, <1>5, <2>1, Good(w, sv) DEF Good, Housed
<1>7. Wired(v) /\ Calm(v) /\ Entered(v)
  <2>1. Wired(w) /\ Calm(w) /\ Entered(w)
    BY DEF Good
  <2>2. Wired(v)
    BY ONLY <1>4, <2>1, WiredAndHoused
  <2>3. Calm(v) /\ Entered(v)
    BY ONLY <1>4, <2>1 DEF Calm, Entered
  <2> QED
    BY <2>2, <2>3
<1>8. Tokens(v, sv)
  BY ONLY <1>4, Good(w, sv) DEF Good, Tokens
<1>9. Good(v, sv)
  BY ONLY <1>4, <1>6, <1>7, <1>8, Good(w, sv) DEF Good
<1> QED
  BY ONLY <1>4, <1>5, <1>9

\* The room r is given up, and the stay s has it no more.
GivenUp(v, r, s) == [v EXCEPT !.room[r] = NoRoom, !.stay[s].room = IF @ = r THEN None ELSE @]

\* A room nobody connects any more is given up, whatever became of its stay.
LEMMA RoomGivenUp ==
  ASSUME NEW sv, NEW v, Good(v, sv), NEW s \in Stay, NEW r \in MediaRoom,
         \A k \in Job : v.job[k].kind = "join" => v.job[k].room # r,
         \A t \in Stay : v.stay[t].room = r => t = s,
         NEW u, u = GivenUp(v, r, s)
  PROVE  /\ Good(u, sv)
         /\ u.active = v.active /\ u.channel = v.channel /\ u.job = v.job
         /\ SameFlags(v, u) /\ \A t \in Stay : u.stay[t].socket = v.stay[t].socket
         /\ \A t \in Stay : t # s => u.stay[t].room = v.stay[t].room
         /\ \A q \in MediaRoom : q # r => u.room[q] = v.room[q]
<1>0. v \in PageRecord /\ v.stay[s] \in StayRecord
  BY DEF Good, PageRecord
<1>1. NoRoom \in RoomRecord
  BY Empty
<1>2. CASE v.stay[s].room = r
  <2> DEFINE st == [v.stay[s] EXCEPT !.room = None]
             x == WithStay(v, s, st)
  <2>1. u = WithRoom(x, r, NoRoom)
    BY ONLY <1>0, <1>2, s \in Stay, r \in MediaRoom,
            u = GivenUp(v, r, s)
    DEF GivenUp, PageRecord, WithRoom, WithStay
  <2> HIDE DEF x
  <2>2. /\ Good(x, sv)
        /\ x.active = v.active /\ x.channel = v.channel /\ x.room = v.room /\ x.job = v.job
        /\ SameFlags(v, x) /\ \A t \in Stay : x.stay[t].socket = v.stay[t].socket
        /\ x.stay[s].room = None /\ \A t \in Stay : t # s => x.stay[t].room = v.stay[t].room
    BY WithoutRoomGood DEF x
  <2>3. \A k \in Job : x.job[k].kind = "join" => x.job[k].room # r
    BY <2>2
  <2>4. \A t \in Stay : x.stay[t].room # r
    <3>1. r # None
      BY Numbers
    <3> QED
      BY <2>2, <3>1
  <2>5. /\ Good(u, sv)
        /\ u.active = x.active /\ u.stay = x.stay /\ u.channel = x.channel /\ u.job = x.job
        /\ \A q \in MediaRoom : q # r => u.room[q] = x.room[q]
    BY ONLY <1>1, <2>1, <2>2, <2>3, <2>4, r \in MediaRoom, RoomGood
  <2> QED
    BY ONLY <2>2, <2>5 DEF SameFlags
<1>3. CASE v.stay[s].room # r
  <2>1. u = WithRoom(v, r, NoRoom)
    <3>1. [v.stay[s] EXCEPT !.room = IF @ = r THEN None ELSE @] = v.stay[s]
      BY ONLY <1>0, <1>3 DEF StayRecord
    <3>2. [v.stay EXCEPT ![s].room = IF @ = r THEN None ELSE @] = v.stay
      BY ONLY <1>0, <3>1, s \in Stay DEF PageRecord
    <3>3. u = [v EXCEPT !.room[r] = NoRoom, !.stay = [v.stay EXCEPT ![s].room = IF @ = r THEN None ELSE @]]
      BY DEF GivenUp
    <3> QED
      BY ONLY <1>0, <3>2, <3>3, r \in MediaRoom DEF PageRecord, WithRoom
  <2>2. \A t \in Stay : v.stay[t].room = r => NoRoom.stay = t /\ NoRoom.state \notin {"free", "aborted"}
    BY <1>3
  <2>3. /\ Good(u, sv)
        /\ u.active = v.active /\ u.stay = v.stay /\ u.channel = v.channel /\ u.job = v.job
        /\ \A q \in MediaRoom : q # r => u.room[q] = v.room[q]
    BY ONLY <1>1, <2>1, <2>2, Good(v, sv), r \in MediaRoom,
            \A k \in Job : v.job[k].kind = "join" => v.job[k].room # r, RoomGood
  <2> QED
    BY ONLY <2>3 DEF SameFlags
<1> QED
  BY <1>2, <1>3

LEMMA RoomConnectedKeeps ==
  ASSUME SessionInv, NEW j \in Job, RoomConnected(j)
  PROVE  SessionInv'
<1> DEFINE b == page.job[j]
           s == b.stay
           r == b.room
           w == Done(page, j)
           v == Kicked(w, b.origin)
           mine == Live(w) /\ w.active = s
           u == GivenUp(v, r, s)
<1>0. /\ Good(page, server) /\ Cared(page) /\ page \in PageRecord /\ s \in Stay /\ r \in MediaRoom
      /\ b.kind = "join" /\ page.room[r].stay = s /\ server' = server
      /\ \A k \in Job : k # j /\ page.job[k].kind = "join" => page.job[k].room # r
  BY DEF SessionInv, Good, Housed, PageRecord, JobRecord, RoomConnected
<1>1. Good(w, server) /\ (Live(w) => ChannelIsCared(w, w.active))
  BY <1>0, MediaJobEnds
<1>2. /\ w.stay = page.stay /\ w.active = page.active /\ w.room = page.room
      /\ w.job[j] = Idle /\ \A k \in Job : k # j => w.job[k] = page.job[k]
  BY <1>0, DoneEffect
<1>3. page' = IF mine /\ w.stay[s].room = r THEN [v EXCEPT !.room[r].state = "up"]
              ELSE IF mine THEN ScheduleMedia(u) ELSE u
  BY DEF RoomConnected, Kicked, GivenUp
<1>4. \A t \in Stay : page.stay[t].room = r => t = s
  BY ONLY <1>0, OwnRoom DEF Good
<1> HIDE DEF w
<1>5. /\ Good(v, server)
      /\ v.active = w.active /\ v.stay = w.stay /\ v.channel = w.channel /\ v.job = w.job
      /\ \A q \in MediaRoom : /\ v.room[q].stay = w.room[q].stay
                              /\ \/ v.room[q].state = w.room[q].state
                                 \/ w.room[q].state = "up" /\ v.room[q].state = "kicked"
  BY <1>1, KickedGood
<1> HIDE DEF v
<1>6. \A k \in Job : v.job[k].kind = "join" => v.job[k].room # r
  BY <1>0, <1>2, <1>5 DEF Idle
<1>7. \A t \in Stay : v.stay[t].room = r => t = s
  BY <1>2, <1>4, <1>5
<1>8. CASE mine /\ w.stay[s].room = r
  <2> DEFINE x == [v.room[r] EXCEPT !.state = "up"]
  <2>1. v \in PageRecord /\ v.room[r] \in RoomRecord
    BY <1>0, <1>5 DEF Good, PageRecord
  <2>2. x \in RoomRecord /\ x.state = "up" /\ x.stay = s
    <3>1. v.room[r].stay = s
      BY <1>0, <1>2, <1>5
    <3> QED
      BY ONLY <2>1, <3>1 DEF RoomRecord
  <2>3. page' = WithRoom(v, r, x)
    <3>1. page' = [v EXCEPT !.room[r].state = "up"]
      BY <1>3, <1>8
    <3> HIDE DEF r
    <3> QED
      BY ONLY <1>0, <2>1, <3>1 DEF PageRecord, WithRoom
  <2> HIDE DEF x, r, s, b
  <2>4. /\ Good(page', server)
        /\ page'.active = v.active /\ page'.stay = v.stay /\ page'.channel = v.channel /\ page'.job = v.job
        /\ page'.room[r] = x
    <3>1. \A t \in Stay : v.stay[t].room = r => x.stay = t /\ x.state \notin {"free", "aborted"}
      BY ONLY <1>7, <2>2
    <3> QED
      BY ONLY <1>0, <1>5, <1>6, <2>2, <2>3, <3>1, RoomGood
  <2>5. page'.active = s /\ IsUp(page', s)
    <3>1. page'.stay[s].room = r /\ page'.active = s /\ r # None
      BY <1>0, <1>5, <1>8, <2>4, Numbers
    <3> QED
      BY ONLY <2>2, <2>4, <3>1 DEF IsUp
  <2>6. ChannelIsCared(page', s)
    BY ONLY <1>1, <1>5, <1>8, <2>4 DEF ChannelIsCared
  <2> QED
    BY <1>0, <2>4, <2>5, <2>6 DEF SessionInv, Cared, RoomIsCared
<1>9. CASE ~(mine /\ w.stay[s].room = r)
  <2>1. /\ Good(u, server)
        /\ u.active = v.active /\ u.channel = v.channel /\ u.job = v.job
        /\ SameFlags(v, u) /\ \A t \in Stay : u.stay[t].socket = v.stay[t].socket
        /\ \A t \in Stay : t # s => u.stay[t].room = v.stay[t].room
        /\ \A q \in MediaRoom : q # r => u.room[q] = v.room[q]
    <3> DEFINE y == u
    <3>1. y = GivenUp(v, r, s)
      OBVIOUS
    <3> HIDE DEF y, r, s
    <3>2. /\ Good(y, server)
          /\ y.active = v.active /\ y.channel = v.channel /\ y.job = v.job
          /\ SameFlags(v, y) /\ \A t \in Stay : y.stay[t].socket = v.stay[t].socket
          /\ \A t \in Stay : t # s => y.stay[t].room = v.stay[t].room
          /\ \A q \in MediaRoom : q # r => y.room[q] = v.room[q]
      BY ONLY <1>0, <1>5, <1>6, <1>7, <3>1, RoomGivenUp
    <3> QED
      BY <3>2 DEF y
  <2>2. page' = IF mine THEN ScheduleMedia(u) ELSE u
    BY <1>3, <1>9
  <2> HIDE DEF u
  <2>3. ASSUME Live(u)
        PROVE  u.active \in Stay /\ u.active = page.active /\ Live(w) /\ ChannelIsCared(u, u.active)
    <3>1. u.active \in Stay
      BY <2>1, <2>3, LiveStay DEF Good, Live
    <3>2. u.active = w.active /\ Live(w)
      BY ONLY <1>5, <2>1, <2>3, <3>1 DEF Live, Active, SameFlags
    <3>3. ChannelIsCared(w, w.active)
      BY <1>1, <3>2
    <3>4. ChannelIsCared(u, w.active)
      BY ONLY <1>5, <2>1, <3>1, <3>2, <3>3 DEF ChannelIsCared, SameFlags
    <3> QED
      BY <1>2, <3>1, <3>2, <3>4
  <2>4. CASE mine
    <3>1. page' = ScheduleMedia(u) /\ u \in PageRecord
      BY <2>1, <2>2, <2>4 DEF Good
    <3>2. Good(page', server) /\ Cared(page')
      BY ONLY <2>1, <2>3, <3>1, ScheduleMediaGood, ScheduleMediaCares
    <3> QED
      BY <1>0, <3>2 DEF SessionInv
  <2>5. CASE ~mine
    <3>1. page' = u
      BY <2>2, <2>5
    <3>2. ASSUME Live(u) PROVE RoomIsCared(u, u.active)
      <4> DEFINE a == u.active
      <4>1. a \in Stay /\ page.active = a /\ Live(page) /\ a # s
        BY <1>2, <2>3, <2>5, <3>2 DEF Live, Active
      <4>2. RoomIsCared(page, a)
        BY <1>0, <4>1 DEF Cared
      <4>3. ~RestoresRoom(page.job[j], a)
        BY <4>1 DEF RestoresRoom
      <4>4. IsUp(page, a) => IsUp(u, a)
        <5>1. page.stay[a].room # r /\ u.stay[a].room = page.stay[a].room
          BY <1>2, <1>4, <1>5, <2>1, <4>1
        <5>2. page.stay[a].room # None => page.stay[a].room \in MediaRoom
          BY <1>0, <4>1 DEF PageRecord, StayRecord
        <5> HIDE DEF a, r, s, b
        <5> QED
          BY ONLY <1>2, <1>5, <2>1, <5>1, <5>2 DEF IsUp
      <4>5. u.stay[a].media = page.stay[a].media /\ u.stay[a].full = page.stay[a].full
        BY ONLY <1>2, <1>5, <2>1, <4>1 DEF SameFlags
      <4>6. \A k \in Job : k # j /\ page.job[k].kind # "free" => u.job[k] = page.job[k]
        BY ONLY <1>2, <1>5, <2>1
      <4> HIDE DEF a
      <4>7. RoomIsCared(u, a)
        BY ONLY <4>2, <4>3, <4>4, <4>5, <4>6, j \in Job, LeftToCare
      <4> QED
        BY <4>7 DEF a
    <3> QED
      BY <1>0, <2>1, <2>3, <3>1, <3>2 DEF SessionInv, Cared
  <2> QED
    BY <2>4, <2>5
<1> QED
  BY <1>8, <1>9

-----------------------------------------------------------------------------
(* The theorems *)

\* Nobody has entered anything when the page is loaded.
LEMMA InitInv == Init => SessionInv
<1> SUFFICES ASSUME Init PROVE SessionInv
  OBVIOUS
<1> DEFINE st == [entered |-> FALSE, leaving |-> FALSE, ended |-> FALSE, current |-> FALSE,
                  socket |-> None, room |-> None, events |-> FALSE, media |-> FALSE, full |-> FALSE]
           m == [member |-> "in", lost |-> FALSE]
<1>1. page = [active |-> None, stay |-> [s \in Stay |-> st], channel |-> [c \in Channel |-> Unused],
              room |-> [r \in MediaRoom |-> NoRoom], job |-> [j \in Job |-> Idle]]
      /\ server = [s \in Stay |-> m]
  BY DEF Init
<1>2. st \in StayRecord /\ m \in [member: {"in", "left", "ended"}, lost: BOOLEAN]
  BY DEF StayRecord
<1>3. /\ ~st.entered /\ ~st.leaving /\ ~st.ended /\ ~st.full /\ st.socket = None /\ st.room = None
      /\ Idle.kind = "free"
  BY DEF Idle
<1> HIDE DEF st, m
<1>4. page \in PageRecord /\ server \in ServerRecord
  BY ONLY <1>1, <1>2, Empty DEF PageRecord, ServerRecord
<1>5. /\ page.active = None /\ \A s \in Stay : page.stay[s] = st
      /\ \A j \in Job : page.job[j] = Idle
  BY ONLY <1>1
<1>6. Wired(page) /\ Housed(page) /\ Calm(page)
  BY ONLY <1>3, <1>5 DEF Wired, Housed, Calm
<1>7. Entered(page) /\ Tokens(page, server)
  BY ONLY <1>3, <1>5 DEF Entered, Tokens
<1>8. Cared(page)
  BY <1>5 DEF Cared, Live
<1> QED
  BY <1>4, <1>6, <1>7, <1>8 DEF SessionInv, Good

\* What happens by itself keeps the invariant.
LEMMA StepKeeps == ASSUME SessionInv, Step PROVE SessionInv'
<1>1. ASSUME NEW j \in Job, OfJob(j) PROVE SessionInv'
  <2>1. ChannelRefused(j) => ChannelFails(j, FALSE)
    BY DEF ChannelRefused
  <2> QED
    BY <1>1, <2>1, CleanupEndsKeeps, ChannelOpensKeeps, ChannelFailsKeeps, ServerResumesKeeps,
       ResumeAnsweredKeeps, ResumeRefusedKeeps, GrantAnsweredKeeps, MediaImportedKeeps,
       RoomCreatedKeeps, RoomConnectedKeeps, MediaFailsKeeps
    DEF OfJob
<1>2. ASSUME NEW s \in Stay, OfStay(s) PROVE SessionInv'
  BY <1>2, EventsTimerKeeps, FullTimerKeeps, MediaTimerKeeps DEF OfStay
<1>3. ASSUME NEW c \in Channel, OfChannel(c) PROVE SessionInv'
  BY <1>3, LateChannelKeeps, ChannelClosesKeeps, EndIsHeardKeeps DEF OfChannel, ChannelOfLeaver
<1>4. ASSUME NEW r \in MediaRoom, RoomKicked(r) PROVE SessionInv'
  BY <1>4, RoomDisconnectedKeeps DEF RoomKicked
<1> QED
  BY <1>1, <1>2, <1>3, <1>4 DEF Step

\* So does what the user or the network brings about.
LEMMA FaultKeeps == ASSUME SessionInv, Fault PROVE SessionInv'
<1>1. ASSUME NEW s \in Stay, EnterRoom(s) \/ RoomEnds(s) \/ (Busy(s) /\ OfStay(s)) PROVE SessionInv'
  BY <1>1, EnterRoomKeeps, RoomEndsKeeps, EventsTimerKeeps, FullTimerKeeps, MediaTimerKeeps DEF OfStay
<1>2. ASSUME NEW heard \in BOOLEAN, LeaveRoom(heard) PROVE SessionInv'
  BY <1>2, LeaveRoomKeeps
<1>3. ASSUME NEW j \in Job, ResumeLost(j) \/ MediaFails(j) \/ \E late \in BOOLEAN : ChannelFails(j, late)
      PROVE  SessionInv'
  BY <1>3, ResumeLostKeeps, MediaFailsKeeps, ChannelFailsKeeps
<1>4. ASSUME NEW c \in Channel, ChannelCloses(c) PROVE SessionInv'
  BY <1>4, ChannelClosesKeeps
<1>5. ASSUME NEW r \in MediaRoom, RoomDisconnected(r) PROVE SessionInv'
  BY <1>5, RoomDisconnectedKeeps
<1> QED
  BY <1>1, <1>2, <1>3, <1>4, <1>5 DEF Fault

\* Every step keeps the invariant.
LEMMA StepInv == SessionInv /\ [Next]_vars => SessionInv'
<1>1. ASSUME SessionInv, UNCHANGED vars PROVE SessionInv'
  <2>1. page' = page /\ server' = server
    BY <1>1 DEF vars
  <2> QED
    BY <1>1, <2>1 DEF SessionInv
<1> QED
  BY <1>1, StepKeeps, FaultKeeps DEF Next

\* So it always holds.
LEMMA AlwaysInv == Spec => []SessionInv
BY InitInv, StepInv, PTL DEF Spec

\* The page and what the server says of it always have their shape, and no more goes wrong
\* than the bound allows.
THEOREM TypeCorrect == Spec => []TypeOK
<1>1. Init => faults \in 0..MaxFaults
  BY CallSessionAssumption DEF Init
<1>2. faults \in 0..MaxFaults /\ [Next]_vars => (faults \in 0..MaxFaults)'
  BY CallSessionAssumption DEF Next, vars
<1>3. SessionInv /\ faults \in 0..MaxFaults => TypeOK
  BY DEF SessionInv, Good, PageRecord, ServerRecord, TypeOK
<1> QED
  BY <1>1, <1>2, <1>3, AlwaysInv, PTL DEF Spec

\* Neither connection of the active stay is ever without both being up and being restored,
\* however many calls of connectEvents and connectMedia overlap, and however the timers of
\* the recoveries and their answers interleave.
THEOREM ConnectionsAreCaredFor == Spec => []NothingForgotten
<1>1. ASSUME SessionInv, Live(page) PROVE ChannelCared(page.active) /\ RoomCared(page.active)
  <2> DEFINE a == page.active
  <2>1. ChannelIsCared(page, a) /\ RoomIsCared(page, a)
    BY <1>1 DEF SessionInv, Cared
  <2> HIDE DEF a
  <2>2. ChannelCared(a)
    BY ONLY <2>1 DEF ChannelIsCared, RestoresChannel, ChannelCared
  <2>3. \A b : RestoresRoom(b, a) =>
          /\ b.stay = a
          /\ \/ b.kind \in {"resume", "resumed", "grant", "import", "drop", "join"}
             \/ b.kind = "connect" /\ b.by # "timer"
    BY ONLY TRUE DEF RestoresRoom
  <2>4. RoomCared(a)
    BY ONLY <2>1, <2>3 DEF RoomIsCared, RoomCared
  <2> QED
    BY <2>2, <2>4 DEF a
<1>2. SessionInv => NothingForgotten
  BY <1>1 DEF NothingForgotten
<1> QED
  BY <1>2, AlwaysInv, PTL

\* The client never loses the token of its session but with an answer that was lost: the
\* resume that rotates it is the only job that knows the new one.
THEOREM NewestTokenIsKept == Spec => []TokenIsCurrent
<1>1. SessionInv => TokenIsCurrent
  BY DEF SessionInv, Good, Tokens, TokenIsCurrent
<1> QED
  BY <1>1, AlwaysInv, PTL

\* No late answer and no late timer wakes a stay that is being left.
THEOREM LeavingStaysQuiet == Spec => []LeavingIsQuiet
<1>1. SessionInv => LeavingIsQuiet
  BY DEF SessionInv, Good, Calm, LeavingIsQuiet
<1> QED
  BY <1>1, AlwaysInv, PTL
=============================================================================
