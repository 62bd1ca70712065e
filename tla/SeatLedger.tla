----------------------------- MODULE SeatLedger -----------------------------
(***************************************************************************)
(* What admission promises, without tokens, channels, deadlines or hosts:  *)
(* a ledger of seats.  A seat is handed out once, to a free place of a     *)
(* room, behind every seat already taken there; from then on it does not   *)
(* change until it is released.  Reconnecting, rejoining, handing over and *)
(* restarting are invisible here.                                          *)
(***************************************************************************)
EXTENDS Naturals, FiniteSets

CONSTANTS Room, MemberId, Device, Proof, NoProof, MaxParticipants

VARIABLE seats      \* member id -> seat, for the seats in use

Seat == [room: Room, device: Device, proof: Proof \cup {NoProof}, joinOrder: Nat \ {0}]

SeatsOf(r) == {i \in DOMAIN seats : seats[i].room = r}

\* The seat may be added: a free place, behind the others, and no second proved
\* seat for a device nor a proved one beside an unproved one.
MayTake(s) ==
    /\ Cardinality(SeatsOf(s.room)) < MaxParticipants
    /\ \A j \in SeatsOf(s.room) :
          /\ seats[j].joinOrder < s.joinOrder
          /\ seats[j].device = s.device => seats[j].proof = NoProof /\ s.proof = NoProof

Admit(i) ==
    /\ i \notin DOMAIN seats
    /\ DOMAIN seats' = DOMAIN seats \cup {i}
    /\ seats'[i] \in Seat
    /\ MayTake(seats'[i])
    /\ seats' = [j \in DOMAIN seats \cup {i} |-> IF j = i THEN seats'[i] ELSE seats[j]]

Release ==
    /\ DOMAIN seats' \subseteq DOMAIN seats
    /\ seats' = [i \in DOMAIN seats' |-> seats[i]]

Init == seats = [i \in {} |-> i]

Next == (\E i \in MemberId : Admit(i)) \/ Release

Spec == Init /\ [][Next]_seats
=============================================================================
