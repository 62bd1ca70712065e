---------------------------- MODULE OnceDelivery ----------------------------
(***************************************************************************)
(* What the encrypted chat promises a reader: it is shown only what its    *)
(* writer sent, each message once, and the messages of another writer in   *)
(* the order that writer wrote them.  Messages may be missing.             *)
(***************************************************************************)
EXTENDS Sequences

CONSTANTS
    Reader,          \* those who read, and write
    Message,         \* what may be written
    Writer(_),       \* who wrote a message
    Precedes(_, _)   \* whether a writer wrote one message before another of its own

VARIABLES
    sent,    \* the messages sent
    shown    \* per reader, the messages it was shown, in order

Init ==
    /\ sent = {}
    /\ shown = [r \in Reader |-> <<>>]

Send ==
    /\ \E m \in Message \ sent : sent' = sent \cup {m}
    /\ UNCHANGED shown

IsNew(r, m) == \A i \in DOMAIN shown[r] : shown[r][i] # m

IsInOrder(r, m) == \A i \in DOMAIN shown[r] : ~Precedes(m, shown[r][i])

Show(r, m) ==
    /\ m \in sent
    /\ IsNew(r, m)
    /\ Writer(m) = r \/ IsInOrder(r, m)
    /\ shown' = [shown EXCEPT ![r] = Append(@, m)]
    /\ UNCHANGED sent

Next ==
    \/ Send
    \/ \E r \in Reader, m \in Message : Show(r, m)

Spec == Init /\ [][Next]_<<sent, shown>>
=============================================================================
