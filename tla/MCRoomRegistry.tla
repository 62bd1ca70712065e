--------------------------- MODULE MCRoomRegistry ---------------------------
(* Model-checking instances of RoomRegistry. *)
EXTENDS RoomRegistry, TLC

\* The pools hold interchangeable names.
Symmetry ==
    Permutations(MemberId) \cup Permutations(Object) \cup Permutations(Device)
    \cup Permutations(Conn) \cup Permutations(Request)
=============================================================================
