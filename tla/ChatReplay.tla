----------------------------- MODULE ChatReplay -----------------------------
(***************************************************************************)
(* The encrypted chat between the members of a room: the nonces a client   *)
(* gives its packets, and the record of those it has seen.                 *)
(*                                                                         *)
(* Source: frontend/src/client/crypto.ts (ChatCipher) and app.ts (sendChat *)
(* and receiveChat).  A stay in the room has a cipher of its own, with a   *)
(* random prefix, here the stay itself.  Encrypting and decrypting await   *)
(* WebCrypto: they end in any order.  The media room carries the packets,  *)
(* late, twice or never.  Decryption fails for a packet of another key or  *)
(* of another author than the sender; such packets change nothing, and are *)
(* left out.  So is the trimming of the list to 100 messages.              *)
(***************************************************************************)
EXTENDS Integers, Sequences, FiniteSets, TLC

CONSTANTS
    Stay,        \* the stays in the room, each with a cipher
    Text,        \* the messages that may be written; each is written once
    MaxCounter,  \* the last value of the counter in a nonce; 2^32 - 1 in the code
    Capacity,    \* how many prefixes a cipher remembers; 128 in the code
    MaxOpening   \* bound: packets that are being decrypted at a time

ASSUME ChatReplayAssumption ==
    /\ IsFiniteSet(Stay)
    /\ MaxCounter \in Nat
    /\ Capacity \in Nat \ {0}
    /\ MaxOpening \in Nat \ {0}

VARIABLES
    counter,  \* per stay, ChatCipher.counter
    seen,     \* per stay, ChatCipher.seen: per prefix the last counter, or none
    sending,  \* the messages of the calls of sendChat that have not ended
    wire,     \* the messages whose packet was published
    opening,  \* the packets that are being decrypted
    list,     \* per stay, the messages shown
    sealed,   \* history: every message that was given a nonce
    opened    \* history: per stay, the messages that were decrypted

vars == <<counter, seen, sending, wire, opening, list, sealed, opened>>

-----------------------------------------------------------------------------

None == -1

\* The nonce of a message's packet is the prefix of its author and the counter.
Message == [from: Stay, text: Text, counter: 0..MaxCounter]

Delivery == [at: Stay, message: Message, copy: 1..MaxOpening]

\* The counters stay in range, and a list shows messages.
TypeOK ==
    /\ counter \in [Stay -> 0..(MaxCounter + 1)]
    /\ seen \in [Stay -> [Stay -> None..MaxCounter]]
    /\ sending \subseteq Message
    /\ wire \subseteq Message
    /\ opening \subseteq Delivery
    /\ list \in [Stay -> Seq(Message)]
    /\ sealed \subseteq Message
    /\ opened \in [Stay -> SUBSET Message]

-----------------------------------------------------------------------------
(* Sending *)

\* Mutant of Exhausted: the counter is compared with the number of its values.
Exhausted_Late(s) == counter[s] > MaxCounter + 1

\* The counter has passed its last value.
Exhausted(s) == counter[s] > MaxCounter

\* What setUint32 writes into the nonce.
Written(n) == n % (MaxCounter + 1)

\* sendChat calls ChatCipher.encrypt, which takes the counter before its first await.
Encrypt(s, t) ==
    /\ \A m \in sealed : m.text # t
    /\ ~Exhausted(s)
    /\ LET m == [from |-> s, text |-> t, counter |-> Written(counter[s])]
       IN sending' = sending \cup {m} /\ sealed' = sealed \cup {m}
    /\ counter' = [counter EXCEPT ![s] = @ + 1]
    /\ UNCHANGED <<seen, wire, opening, list, opened>>

\* The packet is encrypted, and goes to publishData.
Publish(m) ==
    /\ m \in sending \ wire
    /\ wire' = wire \cup {m}
    /\ UNCHANGED <<counter, seen, sending, opening, list, sealed, opened>>

\* publishData returns: the author shows its message.
Sent(m) ==
    /\ m \in sending \cap wire
    /\ sending' = sending \ {m}
    /\ list' = [list EXCEPT ![m.from] = Append(@, m)]
    /\ UNCHANGED <<counter, seen, wire, opening, sealed, opened>>

\* publishData fails, perhaps after the packet was sent, or the stay has no room by now.
SendFails(m) ==
    /\ m \in sending
    /\ sending' = sending \ {m}
    /\ UNCHANGED <<counter, seen, wire, opening, list, sealed, opened>>

-----------------------------------------------------------------------------
(* Receiving *)

\* The media room hands over a packet, not necessarily for the first time: receiveChat
\* calls decrypt, which awaits WebCrypto.
Receive(d) ==
    /\ d.message \in wire /\ d.message.from # d.at
    /\ d \notin opening /\ Cardinality(opening) < MaxOpening
    /\ opening' = opening \cup {d}
    /\ UNCHANGED <<counter, seen, sending, wire, list, sealed, opened>>

\* The prefixes a cipher remembers.
Known(r) == {p \in Stay : seen[r][p] # None}

\* Mutant of IsReplay: only the last packet of a prefix is known again.
IsReplay_Last(r, m) == m.counter = seen[r][m.from]

\* The packet is not newer than the newest one of its prefix.
IsReplay(r, m) == m.counter <= seen[r][m.from]

\* Mutant of HasPlace: a full record takes nobody any more.
HasPlace_Full(r, p) == Cardinality(Known(r)) < Capacity

\* A new prefix is only taken while there is room for it.
HasPlace(r, p) == p \in Known(r) \/ Cardinality(Known(r)) < Capacity

\* What the record holds after a packet was accepted: nothing is ever evicted.
Recorded(r, m) == [seen EXCEPT ![r][m.from] = m.counter]

\* The rest of decrypt and of receiveChat; a packet that is refused is dropped.
Open(d) ==
    LET r == d.at
        m == d.message
    IN /\ d \in opening
       /\ opening' = opening \ {d}
       /\ opened' = [opened EXCEPT ![r] = @ \cup {m}]
       /\ IF IsReplay(r, m) \/ ~HasPlace(r, m.from)
          THEN UNCHANGED <<seen, list>>
          ELSE /\ seen' = Recorded(r, m)
               /\ list' = [list EXCEPT ![r] = Append(@, m)]
       /\ UNCHANGED <<counter, sending, wire, sealed>>

-----------------------------------------------------------------------------

Init ==
    /\ counter = [s \in Stay |-> 0]
    /\ seen = [s \in Stay |-> [p \in Stay |-> None]]
    /\ sending = {}
    /\ wire = {}
    /\ opening = {}
    /\ list = [s \in Stay |-> <<>>]
    /\ sealed = {}
    /\ opened = [s \in Stay |-> {}]

Next ==
    \/ \E s \in Stay, t \in Text : Encrypt(s, t)
    \/ \E m \in sending : Publish(m) \/ Sent(m) \/ SendFails(m)
    \/ \E r \in Stay, m \in wire, k \in 1..MaxOpening :
          Receive([at |-> r, message |-> m, copy |-> k])
    \/ \E d \in opening : Open(d)

Spec == Init /\ [][Next]_vars

-----------------------------------------------------------------------------
(* Properties *)

\* No nonce is used for two messages, however many calls of sendChat overlap and
\* however many packets were written (AES-GCM is broken by a single repetition).
NoncesUnique ==
    \A m, n \in sealed : m.from = n.from /\ m.counter = n.counter => m = n

Shown(r) == {list[r][i] : i \in DOMAIN list[r]}

\* The writers whose messages were shown to r.
Heard(r) == {m.from : m \in Shown(r)} \ {r}

\* A packet that was decrypted is shown, or was overtaken by a later one of its author,
\* or its author is one too many for the record: an established author always gets
\* through, with whatever is newer than what was shown (tests/chat-replay.test.ts).
OnlyOvertakenAreLost ==
    \A r \in Stay : \A m \in opened[r] :
        \/ m \in Shown(r)
        \/ \E n \in Shown(r) : n.from = m.from /\ n.counter > m.counter
        \/ m.from \notin Heard(r) /\ Cardinality(Heard(r)) >= Capacity

Author(m) == m.from
IsEarlier(m, n) == m.from = n.from /\ m.counter < n.counter

\* Each message is shown once, and in the order of its author.
Once == INSTANCE OnceDelivery WITH
    Reader <- Stay, Writer <- Author, Precedes <- IsEarlier, sent <- wire, shown <- list

ImplementsOnce == Once!Spec

Symmetry == Permutations(Stay) \cup Permutations(Text)
=============================================================================
