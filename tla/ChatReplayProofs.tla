-------------------------- MODULE ChatReplayProofs --------------------------
(***************************************************************************)
(* What holds of ChatReplay for every value of its constants.              *)
(***************************************************************************)
EXTENDS ChatReplay, FiniteSetTheorems, TLAPS

-----------------------------------------------------------------------------
(* Types *)

\* Up to its last value the counter is written as it is.
LEMMA WrittenInRange ==
  ASSUME NEW n \in 0..MaxCounter
  PROVE  Written(n) = n
BY ChatReplayAssumption DEF Written

\* Every step keeps the types.
LEMMA NextTypeOK == TypeOK /\ [Next]_vars => TypeOK'
<1> SUFFICES ASSUME TypeOK, [Next]_vars
             PROVE  TypeOK'
  OBVIOUS
<1> USE ChatReplayAssumption
<1>1. ASSUME NEW s \in Stay, NEW t \in Text, Encrypt(s, t)
      PROVE  TypeOK'
  <2>1. counter[s] \in 0..MaxCounter
    BY <1>1 DEF Encrypt, Exhausted, TypeOK
  <2>2. Written(counter[s]) = counter[s]
    BY <2>1, WrittenInRange
  <2>3. [from |-> s, text |-> t, counter |-> Written(counter[s])] \in Message
    BY <2>1, <2>2 DEF Message
  <2>4. counter' \in [Stay -> 0..(MaxCounter + 1)]
    BY <1>1, <2>1 DEF Encrypt, TypeOK
  <2> QED
    BY <1>1, <2>3, <2>4 DEF Encrypt, TypeOK
<1>2. ASSUME NEW m \in sending, Publish(m) \/ SendFails(m)
      PROVE  TypeOK'
  BY <1>2 DEF Publish, SendFails, TypeOK
<1>3. ASSUME NEW m \in sending, Sent(m)
      PROVE  TypeOK'
  <2>1. m \in Message /\ m.from \in Stay
    BY DEF TypeOK, Message
  <2>2. Append(list[m.from], m) \in Seq(Message)
    BY <2>1 DEF TypeOK
  <2> QED
    BY <1>3, <2>1, <2>2 DEF Sent, TypeOK
<1>4. ASSUME NEW r \in Stay, NEW m \in wire, NEW k \in 1..MaxOpening,
             Receive([at |-> r, message |-> m, copy |-> k])
      PROVE  TypeOK'
  <2>1. [at |-> r, message |-> m, copy |-> k] \in Delivery
    BY DEF Delivery, TypeOK
  <2> QED
    BY <1>4, <2>1 DEF Receive, TypeOK
<1>5. ASSUME NEW d \in opening, Open(d)
      PROVE  TypeOK'
  <2> DEFINE r == d.at
             m == d.message
  <2>1. r \in Stay /\ m \in Message /\ m.from \in Stay /\ m.counter \in None..MaxCounter
    BY DEF TypeOK, Delivery, Message, None
  <2>2. Append(list[r], m) \in Seq(Message)
    BY <2>1 DEF TypeOK
  <2>3. Recorded(r, m) \in [Stay -> [Stay -> None..MaxCounter]]
    BY <2>1 DEF TypeOK, Recorded
  <2>4. [list EXCEPT ![r] = Append(@, m)] \in [Stay -> Seq(Message)]
    BY <2>1, <2>2 DEF TypeOK
  <2>5. opened' \in [Stay -> SUBSET Message]
    BY <1>5, <2>1 DEF Open, TypeOK
  <2> QED
    BY <1>5, <2>3, <2>4, <2>5 DEF Open, TypeOK
<1>6. CASE UNCHANGED vars
  BY <1>6 DEF vars, TypeOK
<1> QED
  BY <1>1, <1>2, <1>3, <1>4, <1>5, <1>6 DEF Next

\* The counters stay in range and the lists show messages.
THEOREM TypeCorrect == Spec => []TypeOK
<1>1. Init => TypeOK
  BY ChatReplayAssumption DEF Init, TypeOK, None
<1> QED
  BY <1>1, NextTypeOK, PTL DEF Spec

-----------------------------------------------------------------------------
(* Nonces *)

\* The counter of a cipher is past the counters of the packets it made.
CountersGrow == \A m \in sealed : m.counter < counter[m.from]

NonceInv == TypeOK /\ CountersGrow /\ NoncesUnique

LEMMA NextNonceInv == NonceInv /\ [Next]_vars => NonceInv'
<1> SUFFICES ASSUME NonceInv, [Next]_vars
             PROVE  NonceInv'
  OBVIOUS
<1> USE ChatReplayAssumption
<1>1. TypeOK'
  BY NextTypeOK DEF NonceInv
<1>2. ASSUME NEW s \in Stay, NEW t \in Text, Encrypt(s, t)
      PROVE  CountersGrow' /\ NoncesUnique'
  <2> DEFINE new == [from |-> s, text |-> t, counter |-> Written(counter[s])]
  <2>1. counter[s] \in 0..MaxCounter
    BY <1>2 DEF Encrypt, Exhausted, TypeOK, NonceInv
  <2>2. new.counter = counter[s] /\ new.from = s
    BY <2>1, WrittenInRange
  <2> HIDE DEF new
  <2>3. sealed' = sealed \cup {new} /\ counter' = [counter EXCEPT ![s] = @ + 1]
    BY <1>2 DEF Encrypt, new
  <2>4. \A m \in sealed : m.counter \in Int /\ m.from \in Stay /\ m.counter < counter[m.from]
    BY DEF NonceInv, TypeOK, Message, CountersGrow
  <2>5. \A p \in Stay : counter[p] \in Int /\ counter'[p] \in Int /\ counter[p] <= counter'[p]
    BY <2>3 DEF NonceInv, TypeOK
  <2>6. new.counter < counter'[s]
    BY <2>1, <2>2, <2>3 DEF NonceInv, TypeOK
  <2>7. CountersGrow'
    BY <2>2, <2>3, <2>4, <2>5, <2>6 DEF CountersGrow
  <2>8. \A m \in sealed : m.from = new.from => m.counter # new.counter
    BY <2>1, <2>2, <2>4
  <2>9. NoncesUnique'
    BY <2>3, <2>8 DEF NoncesUnique, NonceInv
  <2> QED
    BY <2>7, <2>9
<1>3. ASSUME UNCHANGED <<counter, sealed>>
      PROVE  CountersGrow' /\ NoncesUnique'
  BY <1>3 DEF NonceInv, CountersGrow, NoncesUnique
<1> QED
  BY <1>1, <1>2, <1>3
  DEF Next, vars, NonceInv, Publish, Sent, SendFails, Receive, Open

\* No cipher uses a nonce twice, whatever the width of the counter.
THEOREM NoncesAreUnique == Spec => []NoncesUnique
<1>1. Init => NonceInv
  BY ChatReplayAssumption DEF Init, NonceInv, TypeOK, None, CountersGrow, NoncesUnique
<1>2. NonceInv => NoncesUnique
  BY DEF NonceInv
<1> QED
  BY <1>1, <1>2, NextNonceInv, PTL DEF Spec

-----------------------------------------------------------------------------
(* The abstract specification *)

\* A message on its way was encrypted, one shown was sent, and the messages of others
\* that are shown are not newer than the record says.
ListInv ==
    /\ sending \subseteq sealed
    /\ wire \subseteq sealed
    /\ \A d \in opening : d.message \in wire /\ d.message.from # d.at
    /\ \A r \in Stay : \A i \in DOMAIN list[r] :
          /\ list[r][i] \in wire
          /\ list[r][i].from = r => list[r][i] \notin sending
          /\ list[r][i].from # r => list[r][i].counter <= seen[r][list[r][i].from]

\* Appending to one list leaves the other entries.
LEMMA AppendEntries ==
  ASSUME NEW S, NEW L \in [Stay -> Seq(S)], NEW r \in Stay, NEW m \in S,
         NEW M, M = [L EXCEPT ![r] = Append(@, m)],
         NEW q \in Stay, NEW i \in DOMAIN M[q]
  PROVE  \/ i \in DOMAIN L[q] /\ M[q][i] = L[q][i]
         \/ q = r /\ M[q][i] = m
BY DEF Message

\* The lists show messages.
LEMMA ListedMessages ==
  ASSUME TypeOK, NEW r \in Stay, NEW i \in DOMAIN list[r]
  PROVE  list[r][i] \in Message /\ list[r][i].counter \in Int /\ list[r][i].from \in Stay
<1>1. list[r] \in Seq(Message)
  BY DEF TypeOK
<1>2. list[r][i] \in Message
  BY <1>1
<1> QED
  BY <1>2, ChatReplayAssumption DEF Message

\* Accepting a packet only makes the record newer.
LEMMA RecordGrows ==
  ASSUME TypeOK, NEW r \in Stay, NEW m \in Message, ~IsReplay(r, m),
         seen' = Recorded(r, m), NEW q \in Stay, NEW p \in Stay
  PROVE  seen[q][p] \in Int /\ seen'[q][p] \in Int /\ seen[q][p] <= seen'[q][p]
<1>1. m.from \in Stay /\ m.counter \in Int
  BY ChatReplayAssumption DEF Message
<1>2. \A x, y \in Stay : seen[x][y] \in Int
  BY ChatReplayAssumption DEF TypeOK, None
<1>3. ~(m.counter <= seen[r][m.from])
  BY DEF IsReplay
<1>4. seen'[q][p] = IF q = r /\ p = m.from THEN m.counter ELSE seen[q][p]
  BY <1>1 DEF Recorded, TypeOK
<1> QED
  BY <1>1, <1>2, <1>3, <1>4

LEMMA NextListInv == TypeOK /\ ListInv /\ [Next]_vars => ListInv'
<1> SUFFICES ASSUME TypeOK, ListInv, [Next]_vars
             PROVE  ListInv'
  OBVIOUS
<1> USE ChatReplayAssumption
<1>1. ASSUME NEW s \in Stay, NEW t \in Text, Encrypt(s, t)
      PROVE  ListInv'
  <2> DEFINE new == [from |-> s, text |-> t, counter |-> Written(counter[s])]
  <2>1. new.text = t
    OBVIOUS
  <2> HIDE DEF new
  <2>2. \A m \in sealed : m.text # t
    BY <1>1 DEF Encrypt
  <2>3. /\ sealed' = sealed \cup {new} /\ sending' = sending \cup {new}
        /\ UNCHANGED <<seen, wire, opening, list>>
    BY <1>1 DEF Encrypt, new
  <2>4. new \notin wire
    BY <2>1, <2>2 DEF ListInv
  <2> QED
    BY <2>3, <2>4 DEF ListInv
<1>2. ASSUME NEW m \in sending, Publish(m) \/ SendFails(m)
      PROVE  ListInv'
  BY <1>2 DEF Publish, SendFails, ListInv
<1>3. ASSUME NEW m \in sending, Sent(m)
      PROVE  ListInv'
  <2>1. m \in Message /\ m.from \in Stay /\ m \in wire
    BY <1>3 DEF Sent, TypeOK, Message
  <2>2. \A q \in Stay : \A i \in DOMAIN list'[q] :
           \/ i \in DOMAIN list[q] /\ list'[q][i] = list[q][i]
           \/ q = m.from /\ list'[q][i] = m
    BY <1>3, <2>1, AppendEntries DEF Sent, TypeOK
  <2> QED
    BY <1>3, <2>1, <2>2 DEF Sent, ListInv
<1>4. ASSUME NEW r \in Stay, NEW m \in wire, NEW k \in 1..MaxOpening,
             Receive([at |-> r, message |-> m, copy |-> k])
      PROVE  ListInv'
  BY <1>4 DEF Receive, ListInv
<1>5. ASSUME NEW d \in opening, Open(d)
      PROVE  ListInv'
  <2> DEFINE r == d.at
             m == d.message
  <2>1. r \in Stay /\ m \in Message /\ m \in wire /\ m.from \in Stay /\ m.from # r
    BY DEF TypeOK, Delivery, Message, ListInv
  <2>2. CASE UNCHANGED <<seen, list>>
    BY <1>5, <2>2 DEF Open, ListInv
  <2>3. CASE /\ ~IsReplay(r, m)
             /\ seen' = Recorded(r, m)
             /\ list' = [list EXCEPT ![r] = Append(@, m)]
    <3>1. \A q \in Stay : \A i \in DOMAIN list'[q] :
             \/ i \in DOMAIN list[q] /\ list'[q][i] = list[q][i]
             \/ q = r /\ list'[q][i] = m
      BY <2>1, <2>3, AppendEntries DEF TypeOK
    <3>2. \A q, p \in Stay : seen[q][p] \in Int /\ seen'[q][p] \in Int /\ seen[q][p] <= seen'[q][p]
      BY <2>1, <2>3, RecordGrows
    <3>3. seen'[r][m.from] = m.counter /\ m.counter \in Int
      BY <2>1, <2>3 DEF Recorded, TypeOK, Message
    <3>4. \A q \in Stay : \A i \in DOMAIN list[q] :
             list[q][i] \in Message /\ list[q][i].counter \in Int /\ list[q][i].from \in Stay
      BY ListedMessages
    <3>5. ASSUME NEW q \in Stay, NEW i \in DOMAIN list'[q]
          PROVE  /\ list'[q][i] \in wire
                 /\ list'[q][i].from = q => list'[q][i] \notin sending
                 /\ list'[q][i].from # q => list'[q][i].counter <= seen'[q][list'[q][i].from]
      <4>1. CASE i \in DOMAIN list[q] /\ list'[q][i] = list[q][i]
        BY <3>2, <3>4, <4>1 DEF ListInv
      <4>2. CASE q = r /\ list'[q][i] = m
        BY <2>1, <3>3, <4>2
      <4> QED
        BY <3>1, <4>1, <4>2
    <3> QED
      BY <1>5, <3>5 DEF Open, ListInv
  <2> QED
    BY <1>5, <2>2, <2>3 DEF Open
<1>6. CASE UNCHANGED vars
  BY <1>6 DEF vars, ListInv
<1> QED
  BY <1>1, <1>2, <1>3, <1>4, <1>5, <1>6 DEF Next

\* Every step of the chat is a step of the abstract specification, or a stutter.
LEMMA StepImplementsOnce ==
  TypeOK /\ ListInv /\ [Next]_vars => [Once!Next]_<<wire, list>>
<1> SUFFICES ASSUME TypeOK, ListInv, [Next]_vars
             PROVE  [Once!Next]_<<wire, list>>
  OBVIOUS
<1>1. ASSUME NEW m \in sending, Publish(m)
      PROVE  Once!Send
  BY <1>1 DEF Publish, Once!Send, TypeOK
<1>2. ASSUME NEW m \in sending, Sent(m)
      PROVE  Once!Show(m.from, m) /\ m.from \in Stay /\ m \in Message
  BY <1>2 DEF Sent, TypeOK, Message, ListInv, Once!Show, Once!IsNew, Author
<1>3. ASSUME NEW d \in opening, Open(d), ~UNCHANGED list
      PROVE  /\ Once!Show(d.at, d.message)
             /\ d.at \in Stay /\ d.message \in Message
  <2> DEFINE r == d.at
             m == d.message
  <2>1. r \in Stay /\ m \in Message /\ m \in wire /\ m.from \in Stay /\ m.from # r
    BY DEF TypeOK, Delivery, Message, ListInv
  <2>2. ~IsReplay(r, m) /\ list' = [list EXCEPT ![r] = Append(@, m)] /\ UNCHANGED wire
    BY <1>3 DEF Open
  <2>3. m.counter \in Int /\ seen[r][m.from] \in Int /\ ~(m.counter <= seen[r][m.from])
    BY <2>1, <2>2 DEF IsReplay, TypeOK, Message, None
  <2>4. \A i \in DOMAIN list[r] : list[r][i].counter \in Int
    BY <2>1, ListedMessages
  <2>5. \A i \in DOMAIN list[r] :
           list[r][i].from = m.from => list[r][i].counter <= seen[r][m.from]
    BY <2>1 DEF ListInv
  <2>6. Once!IsNew(r, m) /\ Once!IsInOrder(r, m)
    BY <2>3, <2>4, <2>5 DEF Once!IsNew, Once!IsInOrder, IsEarlier
  <2> QED
    BY <2>1, <2>2, <2>6 DEF Once!Show
<1>4. ASSUME UNCHANGED <<wire, list>>
      PROVE  [Once!Next]_<<wire, list>>
  BY <1>4
<1>5. ASSUME NEW d \in opening, Open(d)
      PROVE  UNCHANGED wire
  BY <1>5 DEF Open
<1> QED
  BY <1>1, <1>2, <1>3, <1>4, <1>5
  DEF Next, vars, Encrypt, SendFails, Receive, Once!Next

\* The chat implements the abstract specification.
THEOREM OnceImplemented == Spec => ImplementsOnce
<1> DEFINE Inv == TypeOK /\ ListInv
<1>1. Init => Inv
  BY ChatReplayAssumption DEF Init, TypeOK, ListInv, None
<1>2. Inv /\ [Next]_vars => Inv'
  BY NextTypeOK, NextListInv
<1>3. Init => Once!Init
  BY DEF Init, Once!Init
<1>4. Inv /\ [Next]_vars => [Once!Next]_<<wire, list>>
  BY StepImplementsOnce
<1> QED
  BY <1>1, <1>2, <1>3, <1>4, PTL DEF Spec, ImplementsOnce, Once!Spec

-----------------------------------------------------------------------------
(* Losses *)

\* The record of a reader has a place for each writer it heard, and the counter of a
\* message of that writer it shows.
RecordInv ==
    \A r \in Stay :
        /\ Known(r) = Heard(r)
        /\ \A p \in Known(r) : \E n \in Shown(r) : n.from = p /\ n.counter = seen[r][p]

LossInv == RecordInv /\ OnlyOvertakenAreLost

\* Appending a message shows it.
LEMMA AppendShows ==
  ASSUME TypeOK, NEW r \in Stay, NEW m \in Message,
         list' = [list EXCEPT ![r] = Append(@, m)], NEW q \in Stay
  PROVE  Shown(q)' = IF q = r THEN Shown(q) \cup {m} ELSE Shown(q)
<1>1. list[r] \in Seq(Message) /\ list[q] \in Seq(Message)
  BY DEF TypeOK
<1>2. CASE q # r
  BY <1>2 DEF Shown, TypeOK
<1>3. CASE q = r
  <2>1. list'[r] = Append(list[r], m)
    BY DEF TypeOK
  <2>2. /\ DOMAIN list'[r] = DOMAIN list[r] \cup {Len(list[r]) + 1}
        /\ list'[r][Len(list[r]) + 1] = m
        /\ \A i \in DOMAIN list[r] : list'[r][i] = list[r][i]
    BY <1>1, <2>1
  <2> QED
    BY <1>3, <2>2 DEF Shown
<1> QED
  BY <1>2, <1>3

LEMMA NextLossInv == TypeOK /\ NoncesUnique /\ ListInv /\ LossInv /\ [Next]_vars => LossInv'
<1> SUFFICES ASSUME TypeOK, NoncesUnique, ListInv, LossInv, [Next]_vars
             PROVE  LossInv'
  OBVIOUS
<1>1. ASSUME UNCHANGED <<seen, list, opened>>
      PROVE  LossInv'
  <2>1. \A q \in Stay : Shown(q)' = Shown(q) /\ Heard(q)' = Heard(q) /\ Known(q)' = Known(q)
    BY <1>1 DEF Known, Heard, Shown
  <2>2. RecordInv' /\ OnlyOvertakenAreLost'
    BY <1>1, <2>1 DEF RecordInv, OnlyOvertakenAreLost, LossInv
  <2> QED
    BY <2>2 DEF LossInv
<1>2. ASSUME NEW m \in sending, Sent(m)
      PROVE  LossInv'
  <2>1. /\ m \in Message /\ m.from \in Stay
        /\ list' = [list EXCEPT ![m.from] = Append(@, m)] /\ UNCHANGED <<seen, opened>>
    BY <1>2 DEF Sent, TypeOK, Message
  <2>2. ASSUME NEW q \in Stay
        PROVE  Shown(q) \subseteq Shown(q)' /\ Heard(q)' = Heard(q) /\ Known(q)' = Known(q)
    <3>1. Shown(q)' = IF q = m.from THEN Shown(q) \cup {m} ELSE Shown(q)
      BY <2>1, AppendShows
    <3> QED
      BY <2>1, <3>1 DEF Heard, Known
  <2>3. RecordInv'
    BY <2>1, <2>2 DEF RecordInv, LossInv
  <2>4. OnlyOvertakenAreLost'
    BY <2>1, <2>2 DEF OnlyOvertakenAreLost, LossInv
  <2> QED
    BY <2>3, <2>4 DEF LossInv
<1>3. ASSUME NEW d \in opening, Open(d)
      PROVE  LossInv'
  <2> DEFINE r == d.at
             m == d.message
  <2>1. r \in Stay /\ m \in Message /\ m.from \in Stay /\ m.from # r /\ m.counter \in 0..MaxCounter
    BY DEF TypeOK, Delivery, Message, ListInv
  <2>2. \A q \in Stay : opened'[q] = IF q = r THEN opened[q] \cup {m} ELSE opened[q]
    BY <1>3, <2>1 DEF Open, TypeOK
  <2>3. \A q, p \in Stay : seen[q][p] \in None..MaxCounter
    BY DEF TypeOK
  <2>4. CASE IsReplay(r, m) \/ ~HasPlace(r, m.from)
    <3>1. UNCHANGED <<seen, list>>
      BY <1>3, <2>4 DEF Open
    <3>2. \A q \in Stay : Shown(q)' = Shown(q) /\ Heard(q)' = Heard(q) /\ Known(q)' = Known(q)
      BY <3>1 DEF Shown, Heard, Known
    <3>3. RecordInv'
      BY <3>1, <3>2 DEF RecordInv, LossInv
    <3>4. \/ m \in Shown(r)
          \/ \E n \in Shown(r) : n.from = m.from /\ n.counter > m.counter
          \/ m.from \notin Heard(r) /\ Cardinality(Heard(r)) >= Capacity
      <4>1. CASE IsReplay(r, m)
        <5>1. m.counter <= seen[r][m.from] /\ seen[r][m.from] # None
          BY <2>1, <2>3, <4>1, ChatReplayAssumption DEF IsReplay, None
        <5>2. m.from \in Known(r)
          BY <2>1, <5>1 DEF Known
        <5>3. PICK n \in Shown(r) : n.from = m.from /\ n.counter = seen[r][m.from]
          BY <2>1, <5>2 DEF RecordInv, LossInv
        <5>4. CASE n.counter = m.counter
          <6>1. n \in wire /\ m \in wire
            BY <2>1 DEF Shown, ListInv
          <6>2. n = m
            BY <5>3, <5>4, <6>1 DEF NoncesUnique, ListInv
          <6> QED
            BY <6>2
        <5>5. CASE n.counter # m.counter
          <6>1. seen[r][m.from] \in Int /\ m.counter \in Int
            BY <2>1, <2>3, ChatReplayAssumption DEF None
          <6>2. n.counter > m.counter
            BY <5>1, <5>3, <5>5, <6>1
          <6> QED
            BY <5>3, <6>2
        <5> QED
          BY <5>4, <5>5
      <4>2. CASE ~HasPlace(r, m.from)
        <5>1. Known(r) = Heard(r)
          BY <2>1 DEF RecordInv, LossInv
        <5>2. Known(r) \subseteq Stay
          BY DEF Known
        <5>3. Cardinality(Known(r)) \in Nat
          BY <5>2, FS_Subset, FS_CardinalityType, ChatReplayAssumption
        <5>4. m.from \notin Known(r) /\ ~(Cardinality(Known(r)) < Capacity)
          BY ONLY <4>2 DEF HasPlace
        <5>5. Capacity \in Nat
          BY ONLY ChatReplayAssumption
        <5>6. Cardinality(Known(r)) >= Capacity
          BY ONLY <5>3, <5>4, <5>5
        <5> QED
          BY ONLY <5>1, <5>4, <5>6
      <4> QED
        BY <2>4, <4>1, <4>2
    <3>5. OnlyOvertakenAreLost'
      <4> SUFFICES ASSUME NEW q \in Stay, NEW k \in opened'[q]
                   PROVE  \/ k \in Shown(q)
                          \/ \E n \in Shown(q) : n.from = k.from /\ n.counter > k.counter
                          \/ k.from \notin Heard(q) /\ Cardinality(Heard(q)) >= Capacity
        BY <3>2 DEF OnlyOvertakenAreLost
      <4>1. CASE q = r /\ k = m
        BY ONLY <3>4, <4>1
      <4>2. CASE k \in opened[q]
        BY <4>2 DEF OnlyOvertakenAreLost, LossInv
      <4> QED
        BY <2>2, <4>1, <4>2
    <3> QED
      BY <3>3, <3>5 DEF LossInv
  <2>5. CASE ~IsReplay(r, m) /\ HasPlace(r, m.from)
    <3>1. seen' = Recorded(r, m) /\ list' = [list EXCEPT ![r] = Append(@, m)]
      BY <1>3, <2>5 DEF Open
    <3>2. \A q \in Stay : Shown(q)' = IF q = r THEN Shown(q) \cup {m} ELSE Shown(q)
      BY <2>1, <3>1, AppendShows
    <3>3. \A q, p \in Stay :
             seen'[q][p] = IF q = r /\ p = m.from THEN m.counter ELSE seen[q][p]
      BY <2>1, <3>1 DEF Recorded, TypeOK
    <3>4. m.counter # None
      BY <2>1, ChatReplayAssumption DEF None
    <3>5. \A q \in Stay : Known(q)' = IF q = r THEN Known(q) \cup {m.from} ELSE Known(q)
      BY <2>1, <3>3, <3>4 DEF Known
    <3>6. \A q \in Stay : Heard(q)' = IF q = r THEN Heard(q) \cup {m.from} ELSE Heard(q)
      BY <2>1, <3>2 DEF Heard
    <3>7. RecordInv'
      <4>1. ASSUME NEW q \in Stay
            PROVE  Known(q)' = Heard(q)'
        BY <3>5, <3>6 DEF RecordInv, LossInv
      <4>2. ASSUME NEW q \in Stay, NEW p \in Known(q)'
            PROVE  \E n \in Shown(q)' : n.from = p /\ n.counter = seen'[q][p]
        <5>1. CASE q = r /\ p = m.from
          BY <2>1, <3>2, <3>3, <5>1
        <5>2. CASE ~(q = r /\ p = m.from)
          <6>1. p \in Known(q) /\ p \in Stay
            BY <3>5, <4>2, <5>2 DEF Known
          <6>2. PICK n \in Shown(q) : n.from = p /\ n.counter = seen[q][p]
            BY <6>1 DEF RecordInv, LossInv
          <6> QED
            BY <3>2, <3>3, <5>2, <6>1, <6>2
        <5> QED
          BY <5>1, <5>2
      <4> QED
        BY <4>1, <4>2 DEF RecordInv
    <3>8. ASSUME NEW q \in Stay, NEW x \in opened'[q]
          PROVE  \/ x \in Shown(q)'
                 \/ \E n \in Shown(q)' : n.from = x.from /\ n.counter > x.counter
                 \/ x.from \notin Heard(q)' /\ Cardinality(Heard(q)') >= Capacity
      <4>1. CASE q = r /\ x = m
        BY <3>2, <4>1
      <4>2. CASE ~(q = r /\ x = m)
        <5>1. x \in opened[q]
          BY <2>2, <3>8, <4>2
        <5>2. \/ x \in Shown(q)
              \/ \E n \in Shown(q) : n.from = x.from /\ n.counter > x.counter
              \/ x.from \notin Heard(q) /\ Cardinality(Heard(q)) >= Capacity
          BY <5>1 DEF OnlyOvertakenAreLost, LossInv
        <5>3. CASE x.from \notin Heard(q) /\ Cardinality(Heard(q)) >= Capacity
          <6>1. Known(q) = Heard(q) /\ Known(q) \subseteq Stay
            BY DEF RecordInv, LossInv, Known
          <6>2. Cardinality(Heard(q)) \in Nat
            BY <6>1, FS_Subset, FS_CardinalityType, ChatReplayAssumption
          <6>3. q = r => m.from \in Heard(q)
            BY <2>5, <5>3, <6>1, <6>2, ChatReplayAssumption DEF HasPlace
          <6>4. Heard(q)' = Heard(q)
            BY <3>6, <6>3
          <6> QED
            BY <5>3, <6>4
        <5> QED
          BY <3>2, <5>2, <5>3
      <4> QED
        BY <4>1, <4>2
    <3> QED
      BY <3>7, <3>8 DEF OnlyOvertakenAreLost, LossInv
  <2> QED
    BY <2>4, <2>5
<1>4. CASE UNCHANGED vars
  BY <1>1, <1>4 DEF vars
<1> QED
  BY <1>1, <1>2, <1>3, <1>4 DEF Next, Encrypt, Publish, SendFails, Receive

\* A packet that was decrypted is only missing if a later one of its author was shown, or
\* the record is full of others; for any number of stays and any capacity.
THEOREM OnlyOvertakenLost == Spec => []OnlyOvertakenAreLost
<1> DEFINE Inv == NonceInv /\ ListInv /\ LossInv
<1>1. Init => Inv
  <2> SUFFICES ASSUME Init PROVE Inv
    OBVIOUS
  <2>1. NonceInv /\ ListInv
    BY ChatReplayAssumption
    DEF Init, NonceInv, TypeOK, None, CountersGrow, NoncesUnique, ListInv
  <2>2. \A r \in Stay : Known(r) = {} /\ Shown(r) = {} /\ Heard(r) = {}
    BY DEF Init, Known, Shown, Heard
  <2>3. LossInv
    BY <2>2 DEF LossInv, RecordInv, OnlyOvertakenAreLost, Init
  <2> QED
    BY <2>1, <2>3
<1>2. Inv /\ [Next]_vars => Inv'
  BY NextNonceInv, NextListInv, NextLossInv DEF NonceInv
<1>3. Inv => OnlyOvertakenAreLost
  BY DEF LossInv
<1> QED
  BY <1>1, <1>2, <1>3, PTL DEF Spec
=============================================================================
