----------------------------- MODULE TalkSwitch -----------------------------
(***************************************************************************)
(* What the gate in front of the microphone promises: it opens only for a  *)
(* wish that was standing before, and the step that withdraws the wish is  *)
(* the step that closes it.  How long opening takes, and what else is      *)
(* waiting in front of it, is invisible here.                              *)
(***************************************************************************)
VARIABLES
    wish,   \* somebody is meant to be heard
    air     \* somebody is heard

Init == ~wish /\ ~air

Ask == wish' = TRUE /\ air' = air

Open == wish /\ UNCHANGED wish /\ air' = TRUE

Close == wish' \in BOOLEAN /\ air' = FALSE

Next == Ask \/ Open \/ Close

Spec == Init /\ [][Next]_<<wish, air>>
=============================================================================
