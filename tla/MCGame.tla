------------------------------- MODULE MCGame -------------------------------
(* Values for model-checking Game. *)
EXTENDS Game, TLC

CONSTANTS c1, c2, c3

(* A user each. *)
OwnUsers == [c \in Conns |-> c]

(* c3 is a second client of the user of c1: the room refuses one of the two. *)
TwoUsers == (c1 :> "u1") @@ (c2 :> "u2") @@ (c3 :> "u1")

(* What the steps to come and the invariants read.  Nothing reads what was    *)
(* written last, or the hints; the turns of a room that is over; or the flag  *)
(* of a client that has left the room's page and does not come back.         *)
RoomOver == killed \/ pc \in {"closed", "crashed"}

RoomView ==
    <<fds, pc, close_room, owner,
      IF RoomOver THEN << >> ELSE <<listVars, turnVars, loopVars>> >>

Flags ==
    [c \in Conns |->
        IF page[c] \in {"room", "asking"} \/ c \in Rejoiners THEN turn_flag[c] ELSE "wait"]

GameView == <<RoomView, page, typed, Flags, up, down, killed>>
=============================================================================
