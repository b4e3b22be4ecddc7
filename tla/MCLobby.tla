------------------------------- MODULE MCLobby -------------------------------
(* Values for model-checking Lobby. *)
EXTENDS Lobby, TLC

CONSTANTS s1, s2, s3, r1, r2, r3

Symmetry == Permutations(Services) \cup Permutations(Rooms)
=============================================================================
