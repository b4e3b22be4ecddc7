-------------------------------- MODULE View --------------------------------
(***************************************************************************)
(* What a player of a room sees.  The match (module Match) and the word      *)
(* (module Words) are composed with the messages thrRoom writes about them   *)
(* and with the screen of a client, which is only what switchServer has      *)
(* drawn from the messages it has read so far.                               *)
(*                                                                         *)
(* The clients do not see each other's screens, so one of them is enough:    *)
(* Viewer is any connection, and what the others are sent is left out.  An   *)
(* action is one whole handler of the room, from the change of the match to  *)
(* the last write, or one message read by the client.  The turn signals and  *)
(* the echoes of guesses leave this part of the screen alone; they are in    *)
(* modules Room, Game and Client.                                            *)
(***************************************************************************)
EXTENDS Match, Words

CONSTANTS
    Viewer,     \* the connection of the client that is looked at
    MaxUnread   \* bound: it is written to while it is fewer messages behind

ASSUME ViewerAssumption == Viewer \in Conns /\ MaxUnread \in Nat

VARIABLES
    asked,   \* word_is_sent
    unread,  \* the messages on the way to Viewer
    screen   \* what it shows: the suzerain, the players, and under "Parola da
             \* indovinare" one text, or the three to choose from

vars == <<matchVars, wordVars, asked, unread, screen>>

-----------------------------------------------------------------------------
(* The circle of the players as getRoomInfo walks it, from node s on. *)
Circle(s) ==
    [j \in 1 .. Len(order) |-> order[((Place(s) + j - 2) % Len(order)) + 1]]

(* getRoomInfo, after the change of the match and of the word. *)
RoomInfo(sig) ==
    [sig |-> sig, suz |-> suz', players |-> Circle(suz)', text |-> <<hidden_word'>>]

Hint == [sig |-> "NEWHINT", text |-> <<hidden_word'>>]

Offer == [sig |-> "CHOOSEWORD", text |-> words]

(* The players S are written the messages ms. *)
Write(S, ms) ==
    IF Viewer \in S
    THEN Len(unread) < MaxUnread /\ unread' = unread \o ms
    ELSE UNCHANGED unread

SameWord == UNCHANGED wordVars

Quiet == UNCHANGED unread

Home == [suz |-> NULL, players |-> << >>, text |-> << >>]

-----------------------------------------------------------------------------
ViewInit ==
    /\ MatchInit /\ WordsInit
    /\ asked = FALSE
    /\ unread = << >> /\ screen = Home

(* Mutant: the suzerain of the next round counts as asked. *)
RoundStartsAsked ==
    /\ StartRound /\ NewRound
    /\ Quiet
    /\ UNCHANGED <<asked, screen>>

(* A new round starts, and nobody is told: the next message about it comes    *)
(* when its word is chosen, or somebody joins or leaves.                      *)
RoundStarts ==
    /\ StartRound /\ NewRound
    /\ asked' = FALSE /\ Quiet
    /\ UNCHANGED screen

(* The suzerain of a match of two or more is sent the three words. *)
SuzerainAsked ==
    /\ Playing /\ ~picked /\ suz # NULL /\ ~asked /\ Len(order) > 1
    /\ asked' = TRUE
    /\ Write({suz}, <<Offer>>)
    /\ UNCHANGED <<matchVars, wordVars, screen>>

(* Mutant: only the player that joins is told. *)
JoinsUnnoticed(c) ==
    /\ Enter(c) /\ SameWord
    /\ Write({c}, <<RoomInfo("ROOMOK")>>)
    /\ UNCHANGED <<asked, screen>>

Joins(c) ==
    /\ Enter(c) /\ SameWord
    /\ Write(Players', <<RoomInfo(IF Viewer = c THEN "ROOMOK" ELSE "PLAYERUPDATE")>>)
    /\ UNCHANGED <<asked, screen>>

(* Mutant: the information goes out before the first hint is given. *)
WordChosenLate(n) ==
    /\ Choose /\ SelectWord(n)
    /\ Write(Players, <<[RoomInfo("NEWGAME") EXCEPT !.text = <<Blank(words[n])>>]>>)
    /\ UNCHANGED <<asked, screen>>

(* C_SELECTWORD of the suzerain. *)
WordChosen(n) ==
    /\ Choose /\ SelectWord(n)
    /\ Write(Players, <<RoomInfo("NEWGAME")>>)
    /\ UNCHANGED <<asked, screen>>

WordUnreadable ==
    /\ ChooseAgain /\ SelectUnreadable
    /\ asked' = FALSE /\ Quiet
    /\ UNCHANGED screen

GuessRight(c) == Win(c) /\ SameWord /\ Quiet /\ UNCHANGED <<asked, screen>>

(* The turn moves on; past the suzerain it brings a hint, which everybody is  *)
(* sent even when there was none left to give.                                *)
TurnMoves ==
    /\ Miss \/ TurnExpires
    /\ IF NextTo(turn) = suz
       THEN GiveHint /\ Write(Players, <<Hint>>)
       ELSE SameWord /\ Quiet
    /\ UNCHANGED <<asked, screen>>

SuzerainLate == ChoiceExpires /\ SameWord /\ Quiet /\ UNCHANGED <<asked, screen>>

(* A player leaves: the others get its hint, if its turn was the last of the  *)
(* circle, and then the players that are left.  Viewer itself goes back to    *)
(* its home page.                                                             *)
Leaves(c) ==
    LET hint == turn = c /\ NextTo(c) = SuzWithout(c) IN
    /\ Part(c)
    /\ IF hint THEN GiveHint ELSE SameWord
    /\ IF c = Viewer
       THEN unread' = << >> /\ screen' = Home
       ELSE /\ Write(Players \ {c}, (IF hint THEN <<Hint>> ELSE << >>)
                                        \o <<RoomInfo("PLAYERUPDATE")>>)
            /\ UNCHANGED screen
    /\ UNCHANGED asked

Closes ==
    /\ CloseMatch
    /\ unread' = << >> /\ screen' = Home
    /\ UNCHANGED <<wordVars, asked>>

(* What the layouts of the console draw. *)
renderRoom(m) == [suz |-> m.suz, players |-> m.players, text |-> m.text]

updatePlayer(old, m) == [old EXCEPT !.players = m.players]

updateWord(old, m) == [old EXCEPT !.text = m.text]

(* switchServer: a join and a new game draw the whole screen, an update only  *)
(* the players, a hint and the words to choose from only the word.            *)
Drawn(old, m) ==
    CASE m.sig \in {"ROOMOK", "NEWGAME"} -> renderRoom(m)
      [] m.sig = "PLAYERUPDATE" -> updatePlayer(old, m)
      [] m.sig \in {"NEWHINT", "CHOOSEWORD"} -> updateWord(old, m)

Reads ==
    /\ unread # << >>
    /\ screen' = Drawn(screen, Head(unread))
    /\ unread' = Tail(unread)
    /\ UNCHANGED <<matchVars, wordVars, asked>>

ViewNext ==
    \/ RoundStarts \/ SuzerainAsked
    \/ \E c \in Conns : Joins(c) \/ GuessRight(c) \/ Leaves(c)
    \/ \E n \in 1 .. 3 : WordChosen(n)
    \/ WordUnreadable
    \/ TurnMoves \/ SuzerainLate
    \/ Closes
    \/ Reads

ViewSpec == ViewInit /\ [][ViewNext]_vars

-----------------------------------------------------------------------------
(* Properties *)

(* The match, the word and the screen have their types. *)
ViewTypeOK ==
    /\ MatchTypeOK /\ WordsTypeOK
    /\ asked \in BOOLEAN
    /\ Len(unread) <= MaxUnread + 1
    /\ screen.suz \in Conns \cup {NULL}
    /\ screen.players \in Seq(Conns)
    /\ screen.text \in Seq(Seq(Cells))

UpToDate == Viewer \in Players /\ unread = << >>

(* PollSwitches.c:102-120 and 198-261.  While a word is being guessed, a      *)
(* player who has read what was sent sees the suzerain, the players and the   *)
(* word as the room has them, although no message draws everything that has   *)
(* changed before it and a new round is announced to nobody.                  *)
ScreenShowsMatch ==
    UpToDate /\ picked /\ ~ended =>
        screen = [suz |-> suz, players |-> Circle(suz), text |-> <<hidden_word>>]

(* ThreadRoom.c:217-226 and 466-474.  Between the rounds too, whoever has     *)
(* read what was sent sees exactly the players of the room.                   *)
ScreenShowsPlayers ==
    UpToDate =>
        {screen.players[k] : k \in DOMAIN screen.players} = Players

(* ThreadRoom.c:100-109.  Three words on the screen of the suzerain who was    *)
(* asked are those of this round, so that the number it answers stands for    *)
(* the word it has read.                                                      *)
OfferIsCurrent ==
    (asked /\ ~picked /\ ~ended /\ suz = Viewer /\ UpToDate)
        => (Len(screen.text) = 3 => screen.text = words)
=============================================================================
