----------------------------- MODULE MCRoomList -----------------------------
(* Values for model-checking RoomList. *)
EXTENDS RoomList, TLC

CONSTANTS r1, r2, r3, r4, s1

Symmetry == Permutations(Rooms)
=============================================================================
