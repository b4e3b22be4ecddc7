-------------------------------- MODULE Match --------------------------------
(***************************************************************************)
(* What a room promises: the players of a match in the order they came in,   *)
(* one of them the suzerain who chooses the word, another one holding the    *)
(* turn to guess it.  There are no list nodes, no array of polled sockets,   *)
(* no scan of events here; module Room, which has them all, implements this  *)
(* module (ImplementsMatch there), and module View composes it with the word *)
(* and with the screens of the players.                                      *)
(***************************************************************************)
EXTENDS Naturals, Sequences

CONSTANTS
    Conns,      \* the connections that may enter
    NULL

ASSUME NobodyAssumption == NULL \notin Conns

VARIABLES
    order,      \* the players, in the order they came in
    suz,        \* the suzerain
    turn,       \* the player whose turn it is
    picked,     \* has the word been chosen?
    ended,      \* the round is over: the next thing is a new one
    over        \* the room is closing

matchVars == <<order, suz, turn, picked, ended, over>>

-----------------------------------------------------------------------------
Players == {order[i] : i \in DOMAIN order}

Place(c) == CHOOSE i \in DOMAIN order : order[i] = c

Follower(i) == IF i = Len(order) THEN 1 ELSE i + 1

(* Who is next in the order of arrival, which is a circle. *)
NextTo(c) == order[Follower(Place(c))]

(* Mutant: the turn comes to the suzerain like to everybody else. *)
AfterNotSkipping(c, s) == NextTo(c)

(* Who has the turn after c: the suzerain is passed over. *)
After(c, s) == IF NextTo(c) = s THEN NextTo(s) ELSE NextTo(c)

Without(c) ==
    [j \in 1 .. Len(order) - 1 |->
        IF j < Place(c) THEN order[j] ELSE order[j + 1]]

Heir(c) == IF Len(order) = 1 THEN NULL ELSE NextTo(c)

-----------------------------------------------------------------------------
MatchInit ==
    /\ order = << >> /\ suz = NULL /\ turn = NULL
    /\ picked = FALSE /\ ended = TRUE /\ over = FALSE

StartRound ==
    /\ ended
    /\ ended' = FALSE /\ picked' = FALSE
    /\ UNCHANGED <<order, suz, turn, over>>

(* An event is handled: the match goes on. *)
Playing == ~over /\ ~ended

Enter(c) ==
    /\ Playing /\ c \notin Players
    /\ order' = Append(order, c)
    /\ suz' = IF suz = NULL THEN c ELSE suz
    /\ picked' = (picked /\ suz # NULL)
    /\ turn' = IF turn = NULL /\ suz # NULL THEN c ELSE turn
    /\ UNCHANGED <<ended, over>>

Choose ==
    /\ Playing /\ suz # NULL
    /\ picked' = TRUE /\ turn' = NextTo(suz)
    /\ UNCHANGED <<order, suz, ended, over>>

(* The suzerain's choice cannot be read: the word is to be chosen again. *)
ChooseAgain ==
    /\ Playing /\ suz # NULL
    /\ picked' = FALSE
    /\ UNCHANGED <<order, suz, turn, ended, over>>

Win(c) ==
    /\ Playing /\ c \in Players /\ turn # NULL
    /\ suz' = c /\ ended' = TRUE
    /\ UNCHANGED <<order, turn, picked, over>>

(* A guess misses. *)
Miss ==
    /\ Playing /\ turn # NULL
    /\ turn' = After(turn, suz)
    /\ UNCHANGED <<order, suz, picked, ended, over>>

(* The holder of the turn lets it expire.  The clock is read after the events *)
(* were handled, so the round may be over already.                            *)
TurnExpires ==
    /\ ~over /\ turn # NULL /\ (picked \/ suz = NULL)
    /\ turn' = After(turn, suz)
    /\ UNCHANGED <<order, suz, picked, ended, over>>

(* The suzerain has not chosen in time. *)
ChoiceExpires ==
    /\ ~over /\ suz # NULL /\ ~picked
    /\ suz' = Heir(suz) /\ ended' = TRUE
    /\ UNCHANGED <<order, turn, picked, over>>

(* The suzerain of a match that goes on without c. *)
SuzWithout(c) == IF suz = c THEN NextTo(c) ELSE suz

TurnWithout(c) ==
    LET q == After(c, SuzWithout(c)) IN
    IF turn # c THEN turn ELSE IF q = c THEN NULL ELSE q

Part(c) ==
    /\ Playing /\ c \in Players /\ Len(order) > 1
    /\ order' = Without(c)
    /\ suz' = SuzWithout(c)
    /\ turn' = TurnWithout(c)
    /\ ended' = (Len(order) = 2 \/ suz = c)
    /\ UNCHANGED <<picked, over>>

(* The last player leaves, or poll(), a socket or accept() fails. *)
CloseMatch ==
    /\ ~over
    /\ over' = TRUE /\ order' = << >> /\ suz' = NULL /\ turn' = NULL
    /\ picked' = FALSE /\ ended' = FALSE

MatchNext ==
    \/ StartRound
    \/ \E c \in Conns : Enter(c) \/ Win(c) \/ Part(c)
    \/ Choose \/ ChooseAgain
    \/ Miss \/ TurnExpires \/ ChoiceExpires
    \/ CloseMatch

MatchSpec == MatchInit /\ [][MatchNext]_matchVars

-----------------------------------------------------------------------------
(* Properties *)

MatchTypeOK ==
    /\ order \in Seq(Conns)
    /\ suz \in Conns \cup {NULL} /\ turn \in Conns \cup {NULL}
    /\ picked \in BOOLEAN /\ ended \in BOOLEAN /\ over \in BOOLEAN

(* moveSuzerainTurn, movePlayerTurn (ThreadRoom.c:653-669).  Whoever comes,   *)
(* leaves, wins or is late: nobody is in a match twice, the suzerain and the  *)
(* holder of the turn are in it, and two players are never without a          *)
(* suzerain.                                                                  *)
MatchInOrder ==
    /\ \A i, k \in DOMAIN order : order[i] = order[k] => i = k
    /\ {suz, turn} \subseteq Players \cup {NULL}
    /\ Len(order) > 1 => suz # NULL

(* The turn is never passed to the suzerain of a match of two or more: it     *)
(* would be guessing its own word.                                            *)
TurnSkipsSuzerain ==
    [][turn' # turn /\ Len(order') > 1 => turn' # suz' \/ turn' = NULL]_matchVars
=============================================================================
