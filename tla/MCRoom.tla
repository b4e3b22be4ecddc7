------------------------------- MODULE MCRoom -------------------------------
(* Values for model-checking Room. *)
EXTENDS Room, TLC

CONSTANTS c1, c2, c3, c4

(* Three users; c4 is a second client of the user of c1, so that at most one *)
(* of the two can be in the room.                                            *)
ThreeUsers == (c1 :> "u1") @@ (c2 :> "u2") @@ (c3 :> "u3") @@ (c4 :> "u1")

(* A user each. *)
OwnUsers == [c \in Conns |-> c]

Symmetry == Permutations(Conns)
=============================================================================
