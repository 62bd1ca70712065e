------------------------ MODULE AdminListeningProofs ------------------------
(***************************************************************************)
(* Theorems about AdminListening, for every value of its constants.        *)
(***************************************************************************)
EXTENDS AdminListening, TLAPS

-----------------------------------------------------------------------------
(* Types *)

\* The bounds are positive numbers, so no listener is the absent one.
LEMMA Numbers ==
  /\ MaxListeners \in Nat \ {0} /\ MaxStops \in Nat \ {0} /\ MaxSignIns \in Nat \ {0}
  /\ Listener \subseteq Nat \ {0} /\ Stop \subseteq Nat \ {0}
  /\ \A l \in Listener : l # None
BY AdminListeningAssumption DEF Listener, Stop, None

\* The two records a call starts from and ends with.
LEMMA EmptyCalls == Idle \in StartRecord /\ Free \in StopRecord
BY DEF Idle, Free, StartRecord, StopRecord

\* stopListening, up to its first await, keeps the types of what it changes.
LEMMA StopBeginsTypeOK ==
  ASSUME TypeOK, NEW p \in PageRecord, NEW notify \in BOOLEAN,
         NEW by \in {"nobody", "start", "logout"}, StopBegins(p, notify, by)
  PROVE  page' \in PageRecord /\ stops' \in [Stop -> StopRecord]
<1>1. page' \in PageRecord
  BY DEF StopBegins, PageRecord
<1>2. stops' \in [Stop -> StopRecord]
  <2>1. CASE p.active = None
    BY <2>1 DEF StopBegins, TypeOK
  <2>2. CASE p.active # None
    <3> DEFINE s == [Free EXCEPT !.at = "disconnect", !.listener = p.active,
                                 !.notify = notify, !.by = by]
    <3>1. PICK k \in FreeStops : stops' = [stops EXCEPT ![k] = s]
      BY <2>2 DEF StopBegins
    <3>2. s \in StopRecord
      BY DEF Free, StopRecord, PageRecord
    <3>3. k \in Stop
      BY DEF FreeStops
    <3> QED
      BY ONLY <3>1, <3>2, <3>3, TypeOK DEF TypeOK
  <2> QED
    BY <2>1, <2>2
<1> QED
  BY <1>1, <1>2

\* The end of stopListening keeps the types of what it changes.
LEMMA StopEndsTypeOK ==
  ASSUME TypeOK, NEW p \in PageRecord, NEW k \in Stop, StopEnds(p, k)
  PROVE  page' \in PageRecord /\ start' \in StartRecord /\ stops' \in [Stop -> StopRecord]
<1>1. page' \in PageRecord
  BY DEF StopEnds, PageRecord
<1>2. stops' \in [Stop -> StopRecord]
  BY EmptyCalls DEF StopEnds, TypeOK
<1>3. start' \in StartRecord
  <2>1. start \in StartRecord /\ p.token \in BOOLEAN
    BY DEF TypeOK, PageRecord
  <2>2. [start EXCEPT !.at = "ask", !.token = p.token] \in StartRecord
    BY ONLY <2>1 DEF StartRecord
  <2> QED
    BY <2>1, <2>2, EmptyCalls DEF StopEnds
<1> QED
  BY <1>1, <1>2, <1>3

\* So does what follows its last request.
LEMMA StopLoadsTypeOK ==
  ASSUME TypeOK, NEW k \in Stop, StopLoads(k)
  PROVE  page' \in PageRecord /\ start' \in StartRecord /\ stops' \in [Stop -> StopRecord]
<1>1. page \in PageRecord /\ start \in StartRecord /\ stops \in [Stop -> StopRecord]
  BY DEF TypeOK
<1>2. CASE page.token /\ page.overview = "none"
  <2>1. /\ page' = [page EXCEPT !.overview = "stop"]
        /\ stops' = [stops EXCEPT ![k] = [stops[k] EXCEPT !.at = "overview"]]
        /\ start' = start
    BY <1>2 DEF StopLoads
  <2>2. page' \in PageRecord
    BY ONLY <1>1, <2>1 DEF PageRecord
  <2>3. [stops[k] EXCEPT !.at = "overview"] \in StopRecord
    BY ONLY <1>1, k \in Stop DEF StopRecord
  <2> QED
    BY ONLY <1>1, <2>1, <2>2, <2>3
<1>3. CASE ~(page.token /\ page.overview = "none")
  BY <1>1, <1>3, StopEndsTypeOK DEF StopLoads
<1> QED
  BY <1>2, <1>3

\* The error handler of startListening keeps the types of what it changes.
LEMMA CaughtTypeOK ==
  ASSUME TypeOK, NEW p \in PageRecord, Caught(p)
  PROVE  page' \in PageRecord /\ start' \in StartRecord /\ stops' \in [Stop -> StopRecord]
<1>1. StopBegins(p, TRUE, "start")
  BY DEF Caught
<1>2. start' \in StartRecord
  <2>1. [start EXCEPT !.at = "fail"] \in StartRecord
    BY DEF TypeOK, StartRecord
  <2> QED
    BY <2>1, EmptyCalls DEF Caught
<1> QED
  BY <1>1, <1>2, StopBeginsTypeOK

\* Closing or opening a connection keeps the type of media.
LEMMA MediaTypeOK ==
  ASSUME TypeOK, NEW l, NEW m \in {"none", "new", "connecting", "connected", "closed"},
         media' = [media EXCEPT ![l] = m]
  PROVE  media' \in [Listener -> {"none", "new", "connecting", "connected", "closed"}]
BY DEF TypeOK

\* The steps of stopListening keep the types.
LEMMA StopTypeOK ==
  ASSUME TypeOK, NEW k \in Stop, StopReturns(k)
  PROVE  TypeOK'
<1>1. CASE StopDisconnected(k)
  <2>1. media' \in [Listener -> {"none", "new", "connecting", "connected", "closed"}]
    BY <1>1, MediaTypeOK DEF StopDisconnected
  <2>2. page' \in PageRecord /\ start' \in StartRecord /\ stops' \in [Stop -> StopRecord]
    <3>1. CASE stops[k].notify
      <4>1. /\ stops' = [stops EXCEPT ![k] = [stops[k] EXCEPT !.at = "delete", !.token = page.token]]
            /\ UNCHANGED <<page, start>>
        BY <1>1, <3>1 DEF StopDisconnected, TypeOK
      <4>2. [stops[k] EXCEPT !.at = "delete", !.token = page.token] \in StopRecord
        <5>1. stops[k] \in StopRecord /\ page.token \in BOOLEAN
          BY DEF TypeOK, PageRecord
        <5> QED
          BY ONLY <5>1 DEF StopRecord
      <4> QED
        BY <4>1, <4>2 DEF TypeOK
    <3>2. CASE ~stops[k].notify
      BY <1>1, <3>2, StopLoadsTypeOK DEF StopDisconnected
    <3> QED
      BY <3>1, <3>2
  <2> QED
    BY <1>1, <2>1, <2>2 DEF StopDisconnected, TypeOK
<1>2. ASSUME NEW heard \in BOOLEAN, StopDeleted(k, heard) PROVE TypeOK'
  <2>1. lease' \in [Listener -> {"none", "live", "over"}]
    BY <1>2 DEF StopDeleted, TypeOK
  <2>2. page' \in PageRecord /\ start' \in StartRecord /\ stops' \in [Stop -> StopRecord]
    BY <1>2, StopLoadsTypeOK DEF StopDeleted
  <2> QED
    BY <1>2, <2>1, <2>2 DEF StopDeleted, TypeOK
<1> QED
  BY <1>1, <1>2 DEF StopReturns

\* The steps of startListening keep the types.
LEMMA StartTypeOK ==
  ASSUME TypeOK,
         \/ StartListening \/ StopListening \/ Imported \/ Granted \/ StartFails
         \/ Answered \/ Prepared \/ Connected \/ Dropped \/ MediaFails
  PROVE  TypeOK'
<1>0. page \in PageRecord /\ start \in StartRecord
  BY DEF TypeOK
<1>1. CASE StartListening
  <2>1. start' \in StartRecord
    BY <1>1 DEF StartListening, Idle, StartRecord
  <2> QED
    BY <1>1, <2>1 DEF StartListening, TypeOK
<1>2. CASE StopListening
  <2>1. page' \in PageRecord /\ stops' \in [Stop -> StopRecord]
    BY <1>0, <1>2, StopBeginsTypeOK DEF StopListening
  <2> QED
    BY <1>2, <2>1 DEF StopListening, TypeOK
<1>3. CASE Imported
  <2>1. page' \in PageRecord /\ stops' \in [Stop -> StopRecord]
    <3>1. CASE page.active # None
      BY <1>0, <1>3, <3>1, StopBeginsTypeOK DEF Imported
    <3>2. CASE page.active = None
      BY <1>3, <3>2 DEF Imported, TypeOK
    <3> QED
      BY <3>1, <3>2
  <2>2. start' \in StartRecord
    BY <1>0, <1>3 DEF Imported, StartRecord, PageRecord
  <2> QED
    BY <1>3, <2>1, <2>2 DEF Imported, TypeOK
<1>4. CASE Granted
  <2>1. PICK l \in Listener : /\ lease' = [lease EXCEPT ![l] = "live"]
                              /\ start' = [start EXCEPT !.at = "answer", !.listener = l]
    BY <1>4 DEF Granted
  <2>2. start' \in StartRecord
    BY <1>0, <2>1 DEF StartRecord
  <2>3. lease' \in [Listener -> {"none", "live", "over"}]
    BY <2>1 DEF TypeOK
  <2> QED
    BY <1>4, <2>2, <2>3 DEF Granted, TypeOK
<1>5. CASE StartFails
  BY <1>5, EmptyCalls DEF StartFails, TypeOK
<1>6. CASE Answered
  <2>1. page' \in PageRecord /\ start' \in StartRecord
    BY <1>0, <1>6 DEF Answered, StartRecord, PageRecord
  <2>2. media' \in [Listener -> {"none", "new", "connecting", "connected", "closed"}]
    BY <1>6, MediaTypeOK DEF Answered
  <2> QED
    BY <1>6, <2>1, <2>2 DEF Answered, TypeOK
<1>7. CASE Prepared
  <2>1. start' \in StartRecord
    BY <1>0, <1>7, EmptyCalls DEF Prepared, StartRecord
  <2>2. media' \in [Listener -> {"none", "new", "connecting", "connected", "closed"}]
    BY <1>7, MediaTypeOK DEF Prepared, TypeOK
  <2> QED
    BY <1>7, <2>1, <2>2 DEF Prepared, TypeOK
<1>8. CASE Connected
  <2>1. media' \in [Listener -> {"none", "new", "connecting", "connected", "closed"}]
    BY <1>8, MediaTypeOK DEF Connected
  <2>2. page' \in PageRecord
    BY <1>0, <1>8 DEF Connected, Listens, PageRecord
  <2>3. start' \in StartRecord
    BY <1>0, <1>8, EmptyCalls DEF Connected, Listens, StartRecord
  <2> QED
    BY <1>8, <2>1, <2>2, <2>3 DEF Connected, TypeOK
<1>9. CASE Dropped
  <2>1. media' \in [Listener -> {"none", "new", "connecting", "connected", "closed"}]
    BY <1>9, MediaTypeOK DEF Dropped
  <2> QED
    BY <1>9, <2>1, EmptyCalls DEF Dropped, TypeOK
<1>10. CASE MediaFails
  <2>1. media' \in [Listener -> {"none", "new", "connecting", "connected", "closed"}]
    BY <1>10, MediaTypeOK DEF MediaFails
  <2>2. page' \in PageRecord /\ start' \in StartRecord /\ stops' \in [Stop -> StopRecord]
    BY <1>0, <1>10, CaughtTypeOK DEF MediaFails
  <2> QED
    BY <1>10, <2>1, <2>2 DEF MediaFails, TypeOK
<1> QED
  BY <1>1, <1>2, <1>3, <1>4, <1>5, <1>6, <1>7, <1>8, <1>9, <1>10

\* The heartbeat and the events of the media room keep the types.
LEMMA BeatTypeOK ==
  ASSUME TypeOK,
         \/ Beat \/ \E b \in beats : Renewed(b) \/ BeatFails(b)
         \/ \E l \in Listener : MediaEnds(l) \/ LeaseEnds(l)
  PROVE  TypeOK'
<1>0. page \in PageRecord /\ beats \subseteq Beats
  BY DEF TypeOK
<1>1. CASE Beat
  <2>1. [listener |-> page.active, token |-> page.token] \in Beats
    BY <1>0, <1>1 DEF Beat, PageRecord, Beats
  <2> QED
    BY <1>1, <2>1 DEF Beat, TypeOK
<1>2. ASSUME NEW b \in beats, Renewed(b) PROVE TypeOK'
  BY <1>2 DEF Renewed, TypeOK
<1>3. ASSUME NEW b \in beats, BeatFails(b) PROVE TypeOK'
  <2>1. page' \in PageRecord /\ stops' \in [Stop -> StopRecord]
    BY <1>0, <1>3, StopBeginsTypeOK DEF BeatFails
  <2> QED
    BY <1>3, <2>1 DEF BeatFails, TypeOK
<1>4. ASSUME NEW l \in Listener, MediaEnds(l) PROVE TypeOK'
  <2>1. media' \in [Listener -> {"none", "new", "connecting", "connected", "closed"}]
    BY <1>4, MediaTypeOK DEF MediaEnds
  <2>2. page' \in PageRecord /\ stops' \in [Stop -> StopRecord]
    <3>1. CASE page.active = l
      BY <1>0, <1>4, <3>1, StopBeginsTypeOK DEF MediaEnds
    <3>2. CASE page.active # l
      BY <1>4, <3>2 DEF MediaEnds, TypeOK
    <3> QED
      BY <3>1, <3>2
  <2> QED
    BY <1>4, <2>1, <2>2 DEF MediaEnds, TypeOK
<1>5. ASSUME NEW l \in Listener, LeaseEnds(l) PROVE TypeOK'
  BY <1>5 DEF LeaseEnds, TypeOK
<1> QED
  BY <1>1, <1>2, <1>3, <1>4, <1>5

\* Signing in and out, the overview and a reload keep the types.
LEMMA PageTypeOK ==
  ASSUME TypeOK,
         \/ SignIn \/ SignOut \/ Refresh \/ OverviewReturns
         \/ \E heard \in BOOLEAN : Reload(heard)
  PROVE  TypeOK'
<1>0. page \in PageRecord /\ start \in StartRecord
  BY DEF TypeOK
<1>1. CASE SignIn
  <2>1. page' \in PageRecord
    BY <1>0, <1>1 DEF SignIn, PageRecord
  <2>2. signIns' \in 0..MaxSignIns
    BY <1>1, Numbers DEF SignIn, TypeOK
  <2> QED
    BY <1>1, <2>1, <2>2 DEF SignIn, TypeOK
<1>2. CASE Refresh
  <2>1. page' \in PageRecord
    BY <1>0, <1>2 DEF Refresh, PageRecord
  <2> QED
    BY <1>2, <2>1 DEF Refresh, TypeOK
<1>3. CASE SignOut
  <2>1. page' \in PageRecord /\ stops' \in [Stop -> StopRecord]
    <3>1. CASE page.active = None
      <4>1. stops' = stops /\ page' = [page EXCEPT !.token = FALSE, !.dashboard = FALSE]
        BY <1>3, <3>1 DEF SignOut
      <4>2. page' \in PageRecord
        BY ONLY <1>0, <4>1 DEF PageRecord
      <4> QED
        BY <4>1, <4>2 DEF TypeOK
    <3>2. CASE page.active # None
      BY <1>0, <1>3, <3>2, StopBeginsTypeOK DEF SignOut
    <3> QED
      BY <3>1, <3>2
  <2> QED
    BY <1>3, <2>1 DEF SignOut, TypeOK
<1>4. ASSUME NEW outcome \in {"ok", "refused", "failed"}, OverviewLoaded(outcome) PROVE TypeOK'
  <2> DEFINE p == [page EXCEPT !.overview = "none",
                               !.dashboard = CASE outcome = "ok" -> TRUE
                                               [] outcome = "refused" -> FALSE
                                               [] outcome = "failed" -> @]
  <2>1. p \in PageRecord
    BY <1>0 DEF PageRecord
  <2>2. \/ page' = p /\ UNCHANGED <<start, stops>>
        \/ \E k \in Stop : StopEnds(p, k)
        \/ page' = p /\ start' = Idle /\ UNCHANGED stops
        \/ Caught(p)
    BY <1>0, <1>4 DEF OverviewLoaded, PageRecord
  <2> HIDE DEF p
  <2>3. page' \in PageRecord /\ start' \in StartRecord /\ stops' \in [Stop -> StopRecord]
    BY <2>1, <2>2, StopEndsTypeOK, CaughtTypeOK, EmptyCalls DEF TypeOK
  <2>4. UNCHANGED <<beats, lease, media, signIns>>
    BY <1>4 DEF OverviewLoaded
  <2> QED
    BY ONLY <2>3, <2>4, TypeOK DEF TypeOK
<1>5. ASSUME NEW heard \in BOOLEAN, Reload(heard) PROVE TypeOK'
  <2>1. page' \in PageRecord
    BY <1>0, <1>5 DEF Reload, PageRecord
  <2>2. start' \in StartRecord /\ stops' \in [Stop -> StopRecord]
    BY <1>5, EmptyCalls DEF Reload
  <2>3. lease' \in [Listener -> {"none", "live", "over"}]
    BY <1>5 DEF Reload, TypeOK
  <2>4. /\ media' \in [Listener -> {"none", "new", "connecting", "connected", "closed"}]
        /\ beats' \subseteq Beats /\ signIns' \in 0..MaxSignIns
    BY <1>5 DEF Reload, TypeOK
  <2> QED
    BY <2>1, <2>2, <2>3, <2>4 DEF TypeOK
<1> QED
  BY <1>1, <1>2, <1>3, <1>4, <1>5 DEF OverviewReturns

\* The page, its calls and the leases keep their shape, whatever overlaps.
THEOREM TypeCorrect == Spec => []TypeOK
<1>1. Init => TypeOK
  BY Numbers, EmptyCalls DEF Init, TypeOK, PageRecord
<1>2. TypeOK /\ [Next]_vars => TypeOK'
  <2>1. TypeOK /\ UNCHANGED vars => TypeOK'
    BY DEF TypeOK, vars
  <2> QED
    BY <2>1, StopTypeOK, StartTypeOK, BeatTypeOK, PageTypeOK DEF Next
<1> QED
  BY <1>1, <1>2, PTL DEF Spec

-----------------------------------------------------------------------------
(* Nothing plays unattended *)

\* Somebody answers for the connection of l.
Attended(l) ==
    \/ page.active = l /\ page.beating
    \/ start.at = "drop" /\ start.listener = l
    \/ \E k \in Stop : stops[k].at = "disconnect" /\ stops[k].listener = l

\* There is one call of startListening: while it asks for a lease there is no listener,
\* at most one stopListening is awaited by it, and then it does nothing else; and it
\* is the one that waits for an overview loaded on its behalf.
OneCall ==
    /\ start.at \in {"stop", "ask", "answer"} => page.active = None
    /\ \A k \in Stop : stops[k].by = "start" => start.at \in {"stop", "fail"}
    /\ \A j, k \in Stop : stops[j].by = "start" /\ stops[k].by = "start" => j = k
    /\ page.overview = "start" => start.at = "overview"

\* What stopListening does up to its first await.
LEMMA StopBegun ==
  ASSUME TypeOK, NEW p \in PageRecord, NEW notify \in BOOLEAN,
         NEW by \in {"nobody", "start", "logout"}, StopBegins(p, notify, by)
  PROVE  /\ page'.active = None /\ page'.overview = p.overview
         /\ p.active = None => stops' = stops
         /\ p.active # None =>
              \E k \in Stop :
                 /\ stops[k].at = "free"
                 /\ stops'[k].at = "disconnect" /\ stops'[k].listener = p.active
                 /\ stops'[k].by = by
                 /\ \A j \in Stop : j # k => stops'[j] = stops[j]
<1>1. page'.active = None /\ page'.overview = p.overview
  BY DEF StopBegins, PageRecord
<1>2. p.active = None => stops' = stops
  BY DEF StopBegins
<1>3. ASSUME p.active # None
      PROVE  \E k \in Stop :
                /\ stops[k].at = "free"
                /\ stops'[k].at = "disconnect" /\ stops'[k].listener = p.active
                /\ stops'[k].by = by
                /\ \A j \in Stop : j # k => stops'[j] = stops[j]
  <2> DEFINE s == [Free EXCEPT !.at = "disconnect", !.listener = p.active,
                               !.notify = notify, !.by = by]
  <2>1. PICK k \in FreeStops : stops' = [stops EXCEPT ![k] = s]
    BY <1>3 DEF StopBegins
  <2>2. k \in Stop /\ stops[k].at = "free"
    BY DEF FreeStops
  <2>3. s.at = "disconnect" /\ s.listener = p.active /\ s.by = by
    BY DEF Free
  <2>4. stops \in [Stop -> StopRecord]
    BY DEF TypeOK
  <2> HIDE DEF s
  <2>5. stops'[k] = s /\ \A j \in Stop : j # k => stops'[j] = stops[j]
    BY ONLY <2>1, <2>2, <2>4
  <2> QED
    BY <2>2, <2>3, <2>5
<1> QED
  BY <1>1, <1>2, <1>3

\* The listener that stopListening takes away becomes its own to disconnect.
LEMMA StopBegunAttends ==
  ASSUME TypeOK, NEW p \in PageRecord, NEW notify \in BOOLEAN,
         NEW by \in {"nobody", "start", "logout"}, StopBegins(p, notify, by),
         p.active = page.active,
         start.at = "drop" => start' = start,
         NEW l \in Listener, Attended(l)
  PROVE  Attended(l)'
<1>0. l # None
  BY Numbers
<1>1. CASE page.active = l
  BY <1>0, <1>1, StopBegun DEF Attended
<1>2. CASE start.at = "drop" /\ start.listener = l
  BY <1>2 DEF Attended
<1>3. ASSUME NEW k \in Stop, stops[k].at = "disconnect", stops[k].listener = l
      PROVE  Attended(l)'
  <2>1. stops'[k] = stops[k]
    BY <1>3, StopBegun
  <2> QED
    BY <1>3, <2>1 DEF Attended
<1> QED
  BY <1>1, <1>2, <1>3 DEF Attended

\* A stopListening that nobody awaits adds nothing to what the one call is about.
LEMMA StopBegunOneCall ==
  ASSUME TypeOK, OneCall, NEW p \in PageRecord, NEW notify \in BOOLEAN,
         NEW by \in {"nobody", "logout"}, StopBegins(p, notify, by),
         p.overview = page.overview, start' = start
  PROVE  OneCall'
<1>1. page'.active = None /\ page'.overview = page.overview
  BY StopBegun
<1>2. \A k \in Stop : stops'[k].by = "start" => stops[k].by = "start"
  BY StopBegun
<1> QED
  BY <1>1, <1>2 DEF OneCall

\* What the end of stopListening does.
LEMMA StopEnded ==
  ASSUME TypeOK, NEW p \in PageRecord, NEW k \in Stop, StopEnds(p, k)
  PROVE  /\ page'.active = p.active /\ page'.beating = p.beating
         /\ page'.overview = p.overview
         /\ stops'[k].by = "nobody" /\ \A j \in Stop : j # k => stops'[j] = stops[j]
         /\ stops[k].by # "start" => start' = start
         /\ stops[k].by = "start" =>
               \/ start.at = "stop" /\ start'.at = "ask"
               \/ start'.at = "idle"
<1>1. /\ page'.active = p.active /\ page'.beating = p.beating
      /\ page'.overview = p.overview
  BY DEF StopEnds, PageRecord
<1>2. stops'[k].by = "nobody" /\ \A j \in Stop : j # k => stops'[j] = stops[j]
  <2>1. stops' = [stops EXCEPT ![k] = Free] /\ stops \in [Stop -> StopRecord]
    BY DEF StopEnds, TypeOK
  <2> QED
    BY ONLY <2>1, k \in Stop DEF Free
<1>3. stops[k].by # "start" => start' = start
  BY DEF StopEnds
<1>4. stops[k].by = "start" /\ start.at = "stop" => start'.at = "ask"
  BY DEF StopEnds, TypeOK, StartRecord
<1>5. stops[k].by = "start" /\ start.at # "stop" => start'.at = "idle"
  BY DEF StopEnds, Idle
<1> QED
  BY <1>1, <1>2, <1>3, <1>4, <1>5

\* It leaves every connection attended that was not its own.
LEMMA StopEndedAttends ==
  ASSUME TypeOK, OneCall, NEW p \in PageRecord, NEW k \in Stop, StopEnds(p, k),
         p.active = page.active, p.beating = page.beating,
         NEW l \in Listener, Attended(l),
         ~(stops[k].at = "disconnect" /\ stops[k].listener = l)
  PROVE  Attended(l)'
<1>1. CASE page.active = l /\ page.beating
  BY <1>1, StopEnded DEF Attended
<1>2. CASE start.at = "drop" /\ start.listener = l
  <2>1. start' = start
    BY <1>2, StopEnded DEF OneCall
  <2> QED
    BY <1>2, <2>1 DEF Attended
<1>3. ASSUME NEW j \in Stop, stops[j].at = "disconnect", stops[j].listener = l
      PROVE  Attended(l)'
  <2>1. stops'[j] = stops[j]
    BY <1>3, StopEnded
  <2> QED
    BY <1>3, <2>1 DEF Attended
<1> QED
  BY <1>1, <1>2, <1>3 DEF Attended

\* And the one call stays one.
LEMMA StopEndedOneCall ==
  ASSUME TypeOK, OneCall, NEW p \in PageRecord, NEW k \in Stop, StopEnds(p, k),
         p.active = page.active,
         p.overview = "start" => page.overview = "start"
  PROVE  OneCall'
<1>1. CASE stops[k].by = "start"
  <2>1. start.at \in {"stop", "fail"} /\ page.overview # "start"
    BY <1>1 DEF OneCall
  <2>2. \A j \in Stop : stops'[j].by # "start"
    BY <1>1, StopEnded DEF OneCall
  <2>3. page'.overview # "start" /\ (start'.at = "ask" => page'.active = None)
    BY <1>1, <2>1, StopEnded DEF OneCall
  <2>4. start'.at \in {"ask", "idle"}
    BY <1>1, StopEnded
  <2> QED
    BY ONLY <2>2, <2>3, <2>4 DEF OneCall
<1>2. CASE stops[k].by # "start"
  BY <1>2, StopEnded DEF OneCall
<1> QED
  BY <1>1, <1>2

\* What follows the last request of stopListening: it waits for an overview, or ends.
LEMMA StopLoadsKeeps ==
  ASSUME TypeOK, OneCall, NEW k \in Stop, StopLoads(k)
  PROVE  /\ OneCall'
         /\ \A l \in Listener :
              Attended(l) /\ ~(stops[k].at = "disconnect" /\ stops[k].listener = l) => Attended(l)'
<1>1. page \in PageRecord /\ start \in StartRecord /\ stops \in [Stop -> StopRecord]
  BY DEF TypeOK
<1>2. CASE page.token /\ page.overview = "none"
  <2>1. /\ page' = [page EXCEPT !.overview = "stop"]
        /\ stops' = [stops EXCEPT ![k] = [stops[k] EXCEPT !.at = "overview"]]
        /\ start' = start
    BY <1>2 DEF StopLoads
  <2>2. page'.active = page.active /\ page'.beating = page.beating /\ page'.overview = "stop"
    BY ONLY <1>1, <2>1 DEF PageRecord
  <2>3. /\ stops'[k].by = stops[k].by
        /\ \A j \in Stop : j # k => stops'[j] = stops[j]
    BY ONLY <1>1, <2>1, k \in Stop DEF StopRecord
  <2>4. OneCall'
    BY <2>1, <2>2, <2>3 DEF OneCall
  <2>5. ASSUME NEW l \in Listener, Attended(l),
               ~(stops[k].at = "disconnect" /\ stops[k].listener = l)
        PROVE  Attended(l)'
    BY <2>1, <2>2, <2>3, <2>5 DEF Attended
  <2> QED
    BY <2>4, <2>5
<1>3. CASE ~(page.token /\ page.overview = "none")
  <2>1. StopEnds(page, k)
    BY <1>3 DEF StopLoads
  <2> QED
    BY <1>1, <2>1, StopEndedOneCall, StopEndedAttends
<1> QED
  BY <1>2, <1>3

\* The error handler of startListening, when that has nothing left to wait for.
LEMMA CaughtKeeps ==
  ASSUME TypeOK, OneCall, NEW p \in PageRecord, Caught(p),
         start.at \in {"prepare", "connect", "overview"},
         p.active = page.active, p.overview # "start"
  PROVE  /\ OneCall'
         /\ \A l \in Listener : Attended(l) => Attended(l)'
<1>1. StopBegins(p, TRUE, "start") /\ \A k \in Stop : stops[k].by # "start"
  BY DEF Caught, OneCall
<1>2. start'.at = IF p.active = None THEN "idle" ELSE "fail"
  <2>1. start \in StartRecord
    BY DEF TypeOK
  <2> QED
    BY <2>1 DEF Caught, Idle, StartRecord
<1>3. page'.active = None /\ page'.overview # "start"
  BY <1>1, StopBegun
<1>4. OneCall'
  <2>1. CASE p.active = None
    BY <1>1, <1>2, <1>3, <2>1, StopBegun DEF OneCall
  <2>2. CASE p.active # None
    <3>1. PICK k \in Stop : \A j \in Stop : j # k => stops'[j] = stops[j]
      BY <1>1, <2>2, StopBegun
    <3>2. \A j \in Stop : stops'[j].by = "start" => j = k
      BY <1>1, <3>1
    <3> QED
      BY <1>2, <1>3, <2>2, <3>2 DEF OneCall
  <2> QED
    BY <2>1, <2>2
<1>5. ASSUME NEW l \in Listener, Attended(l) PROVE Attended(l)'
  BY <1>1, <1>5, StopBegunAttends
<1> QED
  BY <1>4, <1>5

\* What is proved to be inductive.
ListeningInv == OneCall /\ NothingPlaysUnattended

\* A step that opens no connection, and leaves each one that is not closed attended.
LEMMA AttendedStays ==
  ASSUME NothingPlaysUnattended,
         \A l \in Listener : media'[l] = "connected" =>
            media[l] = "connected" /\ (Attended(l) => Attended(l)')
  PROVE  NothingPlaysUnattended'
BY DEF NothingPlaysUnattended, Attended

\* stopListening keeps it.
LEMMA StopKeeps ==
  ASSUME TypeOK, ListeningInv, NEW k \in Stop, StopReturns(k)
  PROVE  ListeningInv'
<1> USE DEF ListeningInv
<1>1. CASE StopDisconnected(k)
  <2>1. \A l \in Listener : media'[l] = "connected" =>
           media[l] = "connected" /\ l # stops[k].listener
    BY <1>1 DEF StopDisconnected, TypeOK
  <2>2. CASE stops[k].notify
    <3>1. /\ stops' = [stops EXCEPT ![k] = [stops[k] EXCEPT !.at = "delete", !.token = page.token]]
          /\ UNCHANGED <<page, start>>
      BY <1>1, <2>2 DEF StopDisconnected, TypeOK
    <3>2. stops \in [Stop -> StopRecord]
      BY DEF TypeOK
    <3>3. /\ stops'[k].by = stops[k].by
          /\ \A j \in Stop : j # k => stops'[j] = stops[j]
      BY ONLY <3>1, <3>2, k \in Stop DEF StopRecord
    <3>4. OneCall'
      BY <3>1, <3>3 DEF OneCall
    <3>5. ASSUME NEW l \in Listener, Attended(l), l # stops[k].listener PROVE Attended(l)'
      BY ONLY <3>1, <3>3, <3>5 DEF Attended
    <3> QED
      BY <2>1, <3>4, <3>5, AttendedStays
  <2>3. CASE ~stops[k].notify
    <3>1. StopLoads(k)
      BY <1>1, <2>3 DEF StopDisconnected
    <3> QED
      BY <2>1, <3>1, StopLoadsKeeps, AttendedStays
  <2> QED
    BY <2>2, <2>3
<1>2. ASSUME NEW heard \in BOOLEAN, StopDeleted(k, heard) PROVE ListeningInv'
  <2>1. StopLoads(k) /\ media' = media /\ stops[k].at # "disconnect"
    BY <1>2 DEF StopDeleted
  <2> QED
    BY <2>1, StopLoadsKeeps, AttendedStays
<1> QED
  BY <1>1, <1>2 DEF StopReturns

\* startListening keeps it.
LEMMA StartKeeps ==
  ASSUME TypeOK, ListeningInv,
         \/ StartListening \/ StopListening \/ Imported \/ Granted \/ StartFails
         \/ Answered \/ Prepared \/ Connected \/ Dropped \/ MediaFails
  PROVE  ListeningInv'
<1>0. page \in PageRecord /\ start \in StartRecord /\ OneCall /\ NothingPlaysUnattended
  BY DEF TypeOK, ListeningInv
<1>1. CASE StartListening
  <2>1. start'.at = "import" /\ start.at = "idle" /\ UNCHANGED <<page, stops, media>>
    BY <1>1 DEF StartListening, Idle
  <2> QED
    BY ONLY <1>0, <2>1 DEF ListeningInv, OneCall, NothingPlaysUnattended
<1>2. CASE StopListening
  <2>1. StopBegins(page, TRUE, "nobody") /\ start' = start /\ media' = media
    BY <1>2 DEF StopListening
  <2>2. OneCall'
    BY <1>0, <2>1, StopBegunOneCall
  <2>3. \A l \in Listener : Attended(l) => Attended(l)'
    BY <1>0, <2>1, StopBegunAttends
  <2> QED
    BY <1>0, <2>1, <2>2, <2>3, AttendedStays DEF ListeningInv
<1>3. CASE Imported
  <2>1. media' = media /\ start.at = "import" /\ \A k \in Stop : stops[k].by # "start"
    BY <1>0, <1>3 DEF Imported, OneCall
  <2>2. CASE page.active # None
    <3>1. StopBegins(page, TRUE, "start") /\ start'.at = "stop"
      BY <1>0, <1>3, <2>2 DEF Imported, StartRecord
    <3>2. page'.active = None /\ page'.overview # "start"
      BY <1>0, <2>1, <3>1, StopBegun DEF OneCall
    <3>3. PICK k \in Stop : \A j \in Stop : j # k => stops'[j] = stops[j]
      BY <1>0, <2>2, <3>1, StopBegun
    <3>4. \A j \in Stop : stops'[j].by = "start" => j = k
      BY <2>1, <3>3
    <3>5. OneCall'
      BY ONLY <3>1, <3>2, <3>4 DEF OneCall
    <3>6. \A l \in Listener : Attended(l) => Attended(l)'
      BY <1>0, <2>1, <3>1, StopBegunAttends
    <3> QED
      BY <1>0, <2>1, <3>5, <3>6, AttendedStays DEF ListeningInv
  <2>3. CASE page.active = None
    <3>1. UNCHANGED <<page, stops>> /\ start'.at = "ask"
      BY <1>0, <1>3, <2>3 DEF Imported, StartRecord
    <3> QED
      BY ONLY <1>0, <2>1, <2>3, <3>1 DEF ListeningInv, OneCall, NothingPlaysUnattended
  <2> QED
    BY <2>2, <2>3
<1>4. CASE Granted
  <2>1. start.at = "ask" /\ start'.at = "answer" /\ UNCHANGED <<page, stops, media>>
    BY <1>0, <1>4 DEF Granted, StartRecord
  <2> QED
    BY ONLY <1>0, <2>1 DEF ListeningInv, OneCall, NothingPlaysUnattended
<1>5. CASE StartFails
  <2>1. /\ start.at \in {"import", "ask", "answer"} /\ start'.at = "idle"
        /\ UNCHANGED <<page, stops, media>>
    BY <1>5 DEF StartFails, Idle
  <2> QED
    BY ONLY <1>0, <2>1 DEF ListeningInv, OneCall, NothingPlaysUnattended
<1>6. CASE Answered
  <2>1. /\ start.at = "answer" /\ start'.at = "prepare" /\ stops' = stops
        /\ page'.overview = page.overview
    BY <1>0, <1>6 DEF Answered, StartRecord, PageRecord
  <2>2. OneCall'
    BY ONLY <1>0, <2>1 DEF OneCall
  <2>3. \A l \in Listener : media'[l] = "connected" => media[l] = "connected"
    BY <1>6 DEF Answered, TypeOK
  <2>4. ASSUME NEW l \in Listener, Attended(l) PROVE Attended(l)'
    <3>1. page.active # l
      BY <1>0, <2>1, Numbers DEF OneCall
    <3> QED
      BY ONLY <2>1, <2>4, <3>1 DEF Attended
  <2> QED
    BY <1>0, <2>2, <2>3, <2>4, AttendedStays DEF ListeningInv
<1>7. CASE Prepared
  <2>1. /\ start.at = "prepare" /\ start'.at \in {"connect", "idle"}
        /\ UNCHANGED <<page, stops>>
    BY <1>0, <1>7 DEF Prepared, Idle, StartRecord
  <2>2. OneCall'
    BY ONLY <1>0, <2>1 DEF OneCall
  <2>3. \A l \in Listener : media'[l] = "connected" => media[l] = "connected"
    BY <1>7 DEF Prepared, TypeOK
  <2>4. \A l \in Listener : Attended(l) => Attended(l)'
    BY ONLY <2>1 DEF Attended
  <2> QED
    BY <1>0, <2>2, <2>3, <2>4, AttendedStays DEF ListeningInv
<1>8. CASE Connected
  <2>1. /\ start.at = "connect" /\ stops' = stops
        /\ \A l \in Listener : media'[l] = "connected" =>
              media[l] = "connected" \/ l = start.listener
    BY <1>8 DEF Connected, TypeOK
  <2>2. \A k \in Stop : stops[k].by # "start"
    BY <1>0, <2>1 DEF OneCall
  <2>3. CASE IsStillMine
    <3>1. /\ page.active = start.listener /\ page'.active = page.active /\ page'.beating
      BY <1>0, <1>8, <2>3 DEF Connected, IsStillMine, Listens, PageRecord
    <3>2. OneCall'
      <4>1. CASE page.token /\ page.overview = "none"
        <5>1. start'.at = "overview"
          BY <1>0, <1>8, <2>3, <4>1 DEF Connected, Listens, StartRecord
        <5> QED
          BY ONLY <2>1, <2>2, <5>1 DEF OneCall
      <4>2. CASE ~(page.token /\ page.overview = "none")
        <5>1. start'.at = "idle" /\ page'.overview = page.overview
          <6>1. /\ start' = Idle
                /\ page' = [page EXCEPT !.beating = TRUE, !.overview = page.overview]
            BY <1>8, <2>3, <4>2 DEF Connected, Listens
          <6> QED
            BY ONLY <1>0, <6>1 DEF Idle, PageRecord
        <5> QED
          BY ONLY <1>0, <2>1, <2>2, <5>1 DEF OneCall
      <4> QED
        BY <4>1, <4>2
    <3>3. \A l \in Listener : media'[l] = "connected" => Attended(l)'
      BY ONLY <1>0, <2>1, <3>1 DEF NothingPlaysUnattended, Attended
    <3> QED
      BY ONLY <3>2, <3>3 DEF ListeningInv, NothingPlaysUnattended, Attended
  <2>4. CASE ~IsStillMine
    <3>1. page' = page /\ start'.at = "drop" /\ start'.listener = start.listener
      BY <1>0, <1>8, <2>4 DEF Connected, StartRecord
    <3>2. OneCall'
      BY ONLY <1>0, <2>1, <2>2, <3>1 DEF OneCall
    <3> QED
      BY ONLY <1>0, <2>1, <3>1, <3>2 DEF ListeningInv, NothingPlaysUnattended
  <2> QED
    BY <2>3, <2>4
<1>9. CASE Dropped
  <2>1. /\ start.at = "drop" /\ start'.at = "idle" /\ UNCHANGED <<page, stops>>
        /\ \A l \in Listener : media'[l] = "connected" =>
              media[l] = "connected" /\ l # start.listener
    BY <1>9 DEF Dropped, Idle, TypeOK
  <2> QED
    BY ONLY <1>0, <2>1 DEF ListeningInv, OneCall, NothingPlaysUnattended
<1>10. CASE MediaFails
  <2>1. /\ start.at \in {"prepare", "connect"} /\ Caught(page)
        /\ \A l \in Listener : media'[l] = "connected" => media[l] = "connected"
    BY <1>10 DEF MediaFails, TypeOK
  <2>2. page.overview # "start"
    BY <1>0, <2>1 DEF OneCall
  <2>3. OneCall' /\ \A l \in Listener : Attended(l) => Attended(l)'
    BY <1>0, <2>1, <2>2, CaughtKeeps
  <2> QED
    BY <1>0, <2>1, <2>3, AttendedStays DEF ListeningInv
<1> QED
  BY <1>1, <1>2, <1>3, <1>4, <1>5, <1>6, <1>7, <1>8, <1>9, <1>10

\* The heartbeat and the events of the media room keep it.
LEMMA BeatKeeps ==
  ASSUME TypeOK, ListeningInv,
         \/ Beat \/ \E b \in beats : Renewed(b) \/ BeatFails(b)
         \/ \E l \in Listener : MediaEnds(l) \/ LeaseEnds(l)
  PROVE  ListeningInv'
<1>0. page \in PageRecord /\ OneCall /\ NothingPlaysUnattended
  BY DEF TypeOK, ListeningInv
<1>1. ASSUME UNCHANGED <<page, start, stops, media>> PROVE ListeningInv'
  BY ONLY <1>0, <1>1 DEF ListeningInv, OneCall, NothingPlaysUnattended
<1>2. CASE Beat
  BY <1>1, <1>2 DEF Beat
<1>3. ASSUME NEW b \in beats, Renewed(b) PROVE ListeningInv'
  BY <1>1, <1>3 DEF Renewed
<1>4. ASSUME NEW b \in beats, BeatFails(b) PROVE ListeningInv'
  <2>1. StopBegins(page, FALSE, "nobody") /\ start' = start /\ media' = media
    BY <1>4 DEF BeatFails
  <2>2. OneCall' /\ \A l \in Listener : Attended(l) => Attended(l)'
    BY <1>0, <2>1, StopBegunOneCall, StopBegunAttends
  <2> QED
    BY <1>0, <2>1, <2>2, AttendedStays DEF ListeningInv
<1>5. ASSUME NEW l \in Listener, MediaEnds(l) PROVE ListeningInv'
  <2>1. /\ start' = start
        /\ \A m \in Listener : media'[m] = "connected" => media[m] = "connected"
    BY <1>5 DEF MediaEnds, TypeOK
  <2>2. CASE page.active = l
    <3>1. StopBegins(page, TRUE, "nobody")
      BY <1>5, <2>2 DEF MediaEnds
    <3>2. OneCall' /\ \A m \in Listener : Attended(m) => Attended(m)'
      BY <1>0, <2>1, <3>1, StopBegunOneCall, StopBegunAttends
    <3> QED
      BY <1>0, <2>1, <3>2, AttendedStays DEF ListeningInv
  <2>3. CASE page.active # l
    <3>1. UNCHANGED <<page, stops>>
      BY <1>5, <2>3 DEF MediaEnds
    <3> QED
      BY ONLY <1>0, <2>1, <3>1 DEF ListeningInv, OneCall, NothingPlaysUnattended
  <2> QED
    BY <2>2, <2>3
<1>6. ASSUME NEW l \in Listener, LeaseEnds(l) PROVE ListeningInv'
  BY <1>1, <1>6 DEF LeaseEnds
<1> QED
  BY <1>2, <1>3, <1>4, <1>5, <1>6

\* Signing in and out, the overview and a reload keep it.
LEMMA PageKeeps ==
  ASSUME TypeOK, ListeningInv,
         \/ SignIn \/ SignOut \/ Refresh \/ OverviewReturns
         \/ \E heard \in BOOLEAN : Reload(heard)
  PROVE  ListeningInv'
<1>0. page \in PageRecord /\ start \in StartRecord /\ OneCall /\ NothingPlaysUnattended
  BY DEF TypeOK, ListeningInv
<1>1. ASSUME page'.active = page.active, page'.beating = page.beating,
             page'.overview = "start" => page.overview = "start",
             UNCHANGED <<start, stops, media>>
      PROVE  ListeningInv'
  BY ONLY <1>0, <1>1 DEF ListeningInv, OneCall, NothingPlaysUnattended
<1>2. CASE SignIn
  BY <1>0, <1>1, <1>2 DEF SignIn, PageRecord
<1>3. CASE Refresh
  BY <1>0, <1>1, <1>3 DEF Refresh, PageRecord
<1>4. CASE SignOut
  <2>1. CASE page.active = None
    BY <1>0, <1>1, <1>4, <2>1 DEF SignOut, PageRecord
  <2>2. CASE page.active # None
    <3>1. StopBegins(page, TRUE, "logout") /\ start' = start /\ media' = media
      BY <1>4, <2>2 DEF SignOut
    <3>2. OneCall' /\ \A l \in Listener : Attended(l) => Attended(l)'
      BY <1>0, <3>1, StopBegunOneCall, StopBegunAttends
    <3> QED
      BY <1>0, <3>1, <3>2, AttendedStays DEF ListeningInv
  <2> QED
    BY <2>1, <2>2
<1>5. ASSUME NEW outcome \in {"ok", "refused", "failed"}, OverviewLoaded(outcome)
      PROVE  ListeningInv'
  <2> DEFINE p == [page EXCEPT !.overview = "none",
                               !.dashboard = CASE outcome = "ok" -> TRUE
                                               [] outcome = "refused" -> FALSE
                                               [] outcome = "failed" -> @]
  <2>1. /\ p \in PageRecord
        /\ p.active = page.active /\ p.beating = page.beating /\ p.overview = "none"
    BY <1>0 DEF PageRecord
  <2>2. \/ page' = p /\ UNCHANGED <<start, stops>>
        \/ \E k \in Stop : stops[k].at = "overview" /\ StopEnds(p, k)
        \/ page.overview = "start" /\ page' = p /\ start' = Idle /\ UNCHANGED stops
        \/ page.overview = "start" /\ Caught(p)
    BY <1>0, <1>5 DEF OverviewLoaded, PageRecord
  <2>3. media' = media
    BY <1>5 DEF OverviewLoaded
  <2> HIDE DEF p
  <2>4. CASE page' = p /\ UNCHANGED <<start, stops>>
    BY <1>1, <2>1, <2>3, <2>4
  <2>5. ASSUME NEW k \in Stop, stops[k].at = "overview", StopEnds(p, k) PROVE ListeningInv'
    <3>1. OneCall' /\ \A l \in Listener : Attended(l) => Attended(l)'
      BY <1>0, <2>1, <2>5, StopEndedOneCall, StopEndedAttends
    <3> QED
      BY <1>0, <2>3, <3>1, AttendedStays DEF ListeningInv
  <2>6. CASE page.overview = "start" /\ page' = p /\ start' = Idle /\ UNCHANGED stops
    <3>1. start.at = "overview" /\ start'.at = "idle"
      BY <1>0, <2>6 DEF OneCall, Idle
    <3> QED
      BY ONLY <1>0, <2>1, <2>3, <2>6, <3>1 DEF ListeningInv, OneCall, NothingPlaysUnattended
  <2>7. CASE page.overview = "start" /\ Caught(p)
    <3>1. start.at = "overview"
      BY <1>0, <2>7 DEF OneCall
    <3>2. OneCall' /\ \A l \in Listener : Attended(l) => Attended(l)'
      BY <1>0, <2>1, <2>7, <3>1, CaughtKeeps
    <3> QED
      BY <1>0, <2>3, <3>2, AttendedStays DEF ListeningInv
  <2> QED
    BY <2>2, <2>4, <2>5, <2>6, <2>7
<1>6. ASSUME NEW heard \in BOOLEAN, Reload(heard) PROVE ListeningInv'
  <2>1. /\ start'.at = "idle" /\ page'.overview # "start"
        /\ \A k \in Stop : stops'[k].by = "nobody"
        /\ \A l \in Listener : media'[l] # "connected"
    BY <1>6 DEF Reload, Idle, Free
  <2> QED
    BY ONLY <2>1 DEF ListeningInv, OneCall, NothingPlaysUnattended
<1> QED
  BY <1>2, <1>3, <1>4, <1>5, <1>6 DEF OverviewReturns

\* No connection to the media server plays on unattended: a lease that arrives after the
\* listener was stopped, a failure that stops another listener than its own, a logout
\* and an overview that is refused each leave every connection with somebody who keeps
\* its heartbeat or is about to disconnect it.
THEOREM ListeningIsAttended == Spec => []NothingPlaysUnattended
<1>1. Init => ListeningInv
  BY DEF Init, Idle, Free, ListeningInv, OneCall, NothingPlaysUnattended
<1>2. TypeOK /\ ListeningInv /\ [Next]_vars => ListeningInv'
  <2>1. ListeningInv /\ UNCHANGED vars => ListeningInv'
    BY DEF ListeningInv, OneCall, NothingPlaysUnattended, vars
  <2> QED
    BY <2>1, StopKeeps, StartKeeps, BeatKeeps, PageKeeps DEF Next
<1>3. ListeningInv => NothingPlaysUnattended
  BY DEF ListeningInv
<1> QED
  BY <1>1, <1>2, <1>3, TypeCorrect, PTL DEF Spec
=============================================================================
