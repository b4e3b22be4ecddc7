-------------------------------- MODULE Game --------------------------------
(***************************************************************************)
(* A match as it is really played: the room thread of module Room and the   *)
(* clients it serves.  A client has two threads: the prompt thread (module   *)
(* functions thrPrompt and promptRoom) reads the keyboard, the main thread   *)
(* (switchPrompt and switchServer) forwards what was typed to the server and *)
(* obeys what the server writes.  Both use room->turn_flag.                  *)
(*                                                                         *)
(* Between a client and the room lies a byte stream in each direction.  A    *)
(* read() takes the bytes that have arrived, parses the first message and    *)
(* drops the rest (readFromClient, readFromServer); Coalesce says whether    *)
(* several messages may arrive before a read.  The signals that only change  *)
(* what the screen shows are all alike here, but take their place in the     *)
(* stream.  The clients of a game ask the room for nothing it has no handler *)
(* for, so that OutOfPlace of module Room has no part in it.                 *)
(***************************************************************************)
EXTENDS Room

CONSTANTS
    Coalesce,   \* may one read() take several messages?
    Quitters,   \* the clients that may be terminated
    Rejoiners,  \* bound: the clients that may come back after leaving
    MaxDown,    \* bound: signals a client has not read when the room goes on
    MaxUp       \* bound: requests in flight from a client

ASSUME GameAssumption ==
    /\ Coalesce \in BOOLEAN
    /\ Quitters \subseteq Conns /\ Rejoiners \subseteq Conns
    /\ MaxDown \in Nat /\ MaxUp \in Nat \ {0}

VARIABLES
    page,       \* the page the prompt thread of each client serves
    turn_flag,  \* room->turn_flag
    typed,      \* what the prompt thread has written to the main thread
    up,         \* requests the server has not read yet
    down,       \* signals the client has not read yet
    killed      \* has SIGPIPE killed the server?

clientVars == <<page, turn_flag, typed>>
gameVars == <<vars, clientVars, up, down, killed>>

-----------------------------------------------------------------------------
(* The streams. *)

Heeded == {"ROOMOK", "CHOOSEWORD", "YOURTURN", "NOTYOURTURN", "TURNTIMEOUT",
           "HOMEPAGEOK", "LOGINOK"}

(* What a client makes of the signals s. *)
Heard(s) == [k \in DOMAIN s |-> IF s[k] \in Heeded THEN s[k] ELSE "OTHER"]

(* How the stream of a terminated client ends: in an orderly way; with a     *)
(* reset the server has not noticed yet; or with a reset it must not write   *)
(* after, for the next write raises SIGPIPE.                                 *)
Hangups == {"EOF", "RST", "EPIPE"}

Hangup(c) == up[c][Len(up[c])]

(* What the room has written arrives, and the end of the stream behind it    *)
(* when the socket is closed for want of a service thread.  Nothing can be   *)
(* written to a closed socket.                                               *)
Closes(c) == owner'[c] = "nobody" /\ owner[c] # "nobody"

Deliver ==
    down' = [c \in Conns |->
                IF page[c] = "gone" THEN << >>
                ELSE IF owner[c] = "nobody" THEN down[c]
                ELSE down[c] \o Heard(out'[c]) \o IF Closes(c) THEN <<"EOF">> ELSE << >>]

(* A write to a dead client: the first one after the end of the stream gets  *)
(* a reset for an answer, soon or late; a reset makes one write fail; and    *)
(* the write after that kills the server, which neither ignores nor handles  *)
(* SIGPIPE.  u is what is left to read.                                      *)
Resets(u) ==
    LET hit     == {c \in Conns : page[c] = "gone" /\ u[c] # << >> /\ out'[c] # << >>}
        ended   == {c \in hit : Hangup(c) = "EOF"}
        twice   == {c \in hit : Len(out'[c]) > 1}
        fatal   == {c \in hit : Hangup(c) = "EPIPE"} \cup (twice \ ended)
    IN  \E R \in SUBSET ended :
           /\ up' = [c \in Conns |->
                        IF c \in R \cup (hit \ ended)
                        THEN [u[c] EXCEPT ![Len(u[c])] = "EPIPE"]
                        ELSE u[c]]
           /\ killed' \in BOOLEAN
           /\ fatal # {} => killed'
           /\ killed' => fatal \cup (twice \cap R) # {}

(* A read() takes the first k messages, or the end of the stream. *)
Reads(s, k) ==
    /\ k \in 1 .. IF Coalesce THEN Len(s) ELSE 1
    /\ \A j \in 1 .. k : s[j] \in Hangups => k = 1

Unread(s, k) == IF s[1] \in Hangups THEN s ELSE SubSeq(s, k + 1, Len(s))

-----------------------------------------------------------------------------
(* The room's steps. *)

(* poll() reports every socket on which something has arrived. *)
Knocking == {c \in Conns : page[c] \in {"asking", "gone"}
                              /\ typed[c] = "JOIN" /\ owner[c] = "service"}

Pending == {i \in DOMAIN fds : up[fds[i]] # << >>}
             \cup IF Knocking = {} THEN {} ELSE {0}

RoomPolls ==
    /\ \A c \in Conns : Len(down[c]) <= MaxDown
    /\ \/ Pending # {} /\ PollReturns(Pending)
       \/ Pending = {} /\ PollTimesOut
       \/ PollFails

RoomLoops ==
    /\ \/ NewTurn \/ AskSuzerain \/ RoomPolls
       \/ ScanEnds \/ ClockExpires \/ CloseRoom
    /\ Deliver /\ Resets(up)
    /\ UNCHANGED clientVars

(* The service thread of c has connected to the local socket of the room. *)
RoomAdmits(c) ==
    /\ c \in Knocking
    /\ Join(c)
    /\ typed' = [typed EXCEPT ![c] = "nothing"]
    /\ Deliver /\ Resets(up)
    /\ UNCHANGED <<page, turn_flag>>

(* S_USERINROOM: the prompt tries again from the homepage. *)
RoomRefuses(c) ==
    /\ c \in Knocking
    /\ JoinRefused(c)
    /\ typed' = [typed EXCEPT ![c] = "nothing"]
    /\ page' = [page EXCEPT ![c] = IF @ = "gone" THEN @ ELSE "home"]
    /\ UNCHANGED <<turn_flag, up, down, killed>>

(* poll() reports a reset as an error of the slot; one that comes later is   *)
(* only seen by read().                                                      *)
Handles(i, request) ==
    \/ request = "GUESS" /\ (GuessHits(i) \/ GuessMisses(i) \/ GuessCrashes(i))
    \/ request = "SELECT" /\ (SelectIgnored(i) \/ SelectMalformed(i) \/ SelectWord(i))
    \/ request = "EXIT" /\ ExitRoom(i)
    \/ request \in Hangups /\ Disconnect(i)

RoomHandles(i) ==
    LET c == fds[i] IN
    /\ Scanning(i) /\ up[c] # << >>
    /\ \/ Handles(i, up[c][1])
       \/ Hangup(c) \in {"RST", "EPIPE"} /\ SlotFails(i)
    /\ \E k \in 1 .. Len(up[c]) :
          /\ Reads(up[c], k)
          /\ Resets([up EXCEPT ![c] = Unread(@, k)])
    /\ Deliver
    /\ UNCHANGED clientVars

RoomStep ==
    /\ ~killed
    /\ \/ RoomLoops
       \/ \E c \in Conns : RoomAdmits(c) \/ RoomRefuses(c)
       \/ \E i \in DOMAIN fds : RoomHandles(i)

(* The service thread of a player the room has given back.  Only the exit    *)
(* request of a player that is still on the room's page is heeded: it is     *)
(* logged out.                                                               *)
ServiceReads(c) ==
    /\ owner[c] = "service" /\ up[c] # << >> /\ typed[c] # "JOIN" /\ ~killed
    /\ \E k \in 1 .. Len(up[c]) :
          /\ Reads(up[c], k)
          /\ up' = [up EXCEPT ![c] = IF Head(@) \in Hangups THEN << >> ELSE Unread(@, k)]
    /\ down' = [down EXCEPT ![c] = IF Head(up[c]) = "EXIT" THEN Append(@, "LOGINOK") ELSE @]
    /\ UNCHANGED <<vars, clientVars, killed>>

-----------------------------------------------------------------------------
(* The clients' steps. *)

(* C_JOINROOM; the service thread of the client does the rest. *)
AskToJoin(c) ==
    /\ page[c] = "new" \/ (page[c] = "home" /\ c \in Rejoiners)
    /\ owner[c] = "service" /\ pc # "closed"
    /\ page' = [page EXCEPT ![c] = "asking"]
    /\ typed' = [typed EXCEPT ![c] = "JOIN"]
    /\ UNCHANGED <<vars, turn_flag, up, down, killed>>

(* A line is typed; what it means depends on the flag when it is read. *)
Types(c, request) ==
    /\ page[c] = "room" /\ typed[c] = "nothing"
    /\ \/ request = "GUESS" /\ turn_flag[c] = "guess"
       \/ request = "SELECT" /\ turn_flag[c] = "choose"
       \/ request = "EXIT"
    /\ typed' = [typed EXCEPT ![c] = request]
    /\ page' = [page EXCEPT ![c] = IF request = "EXIT" THEN "leaving" ELSE @]
    /\ UNCHANGED <<vars, turn_flag, up, down, killed>>

(* Mutant: the flag receives the signal instead of being lowered. *)
ForwardsStoresSignal(c) ==
    /\ typed[c] \in {"GUESS", "SELECT", "EXIT"} /\ Len(up[c]) < MaxUp
    /\ up' = [up EXCEPT ![c] = Append(@, typed[c])]
    /\ turn_flag' = [turn_flag EXCEPT ![c] = typed[c]]
    /\ typed' = [typed EXCEPT ![c] = "nothing"]
    /\ UNCHANGED <<vars, page, down, killed>>

(* switchPrompt: the flag is lowered (to -1 on exit) and the request goes on. *)
Forwards(c) ==
    /\ typed[c] \in {"GUESS", "SELECT", "EXIT"} /\ Len(up[c]) < MaxUp
    /\ up' = [up EXCEPT ![c] = Append(@, typed[c])]
    /\ turn_flag' = [turn_flag EXCEPT ![c] = "wait"]
    /\ typed' = [typed EXCEPT ![c] = "nothing"]
    /\ UNCHANGED <<vars, page, down, killed>>

(* switchServer.  A prompt that waits for the keyboard in the room does not  *)
(* hear of the homepage: it is the exit key that brings it back.             *)
NextFlag(sig, flag) ==
    CASE sig = "YOURTURN" -> "guess"
      [] sig = "CHOOSEWORD" -> "choose"
      [] sig \in {"NOTYOURTURN", "TURNTIMEOUT"} -> "wait"
      [] OTHER -> flag

NextPage(sig, p) ==
    CASE sig = "ROOMOK" /\ p = "asking" -> "room"
      [] sig = "HOMEPAGEOK" /\ p = "leaving" -> "home"
      [] sig = "LOGINOK" /\ p = "leaving" -> "login"
      [] OTHER -> p

Obeys(c) ==
    /\ down[c] # << >> /\ down[c][1] # "EOF"
    /\ \E k \in 1 .. Len(down[c]) :
          /\ Reads(down[c], k)
          /\ down' = [down EXCEPT ![c] = Unread(@, k)]
    /\ turn_flag' = [turn_flag EXCEPT ![c] = NextFlag(down[c][1], @)]
    /\ page' = [page EXCEPT ![c] = NextPage(down[c][1], @)]
    /\ UNCHANGED <<vars, typed, up, killed>>

(* The server has closed the connection: the client ends. *)
HearsEnd(c) ==
    /\ down[c] # << >> /\ down[c][1] = "EOF"
    /\ page' = [page EXCEPT ![c] = "gone"]
    /\ turn_flag' = [turn_flag EXCEPT ![c] = "wait"]
    /\ typed' = [typed EXCEPT ![c] = "nothing"]
    /\ down' = [down EXCEPT ![c] = << >>] /\ up' = [up EXCEPT ![c] = << >>]
    /\ UNCHANGED <<vars, killed>>

Receives(c) == Obeys(c) \/ HearsEnd(c)

(* The client process ends (CTRL-C, or the terminal is closed).  Closing a   *)
(* socket with unread bytes resets the connection.                           *)
Quits(c) ==
    /\ c \in Quitters /\ page[c] \in {"asking", "room", "leaving"}
    /\ page' = [page EXCEPT ![c] = "gone"]
    /\ turn_flag' = [turn_flag EXCEPT ![c] = "wait"]
    /\ typed' = [typed EXCEPT ![c] = IF @ = "JOIN" THEN @ ELSE "nothing"]
    /\ down' = [down EXCEPT ![c] = << >>]
    /\ up' = [up EXCEPT ![c] = Append(@, IF down[c] = << >> THEN "EOF" ELSE "RST")]
    /\ UNCHANGED <<vars, killed>>

(* Between two polls the room reads and writes without waiting for anybody:  *)
(* what the clients do meanwhile can as well be done at the poll.            *)
AtPoll == pc \in {"poll", "closed", "crashed"}

ClientStep(c) ==
    /\ AtPoll /\ ~killed
    /\ \/ AskToJoin(c)
       \/ \E request \in {"GUESS", "SELECT", "EXIT"} : Types(c, request)
       \/ Forwards(c) \/ Receives(c)
       \/ Quits(c)

-----------------------------------------------------------------------------

GameInit ==
    /\ Init
    /\ page = [c \in Conns |-> "new"]
    /\ turn_flag = [c \in Conns |-> "wait"]
    /\ typed = [c \in Conns |-> "nothing"]
    /\ up = [c \in Conns |-> << >>] /\ down = [c \in Conns |-> << >>]
    /\ killed = FALSE

GameEnded ==
    /\ pc \in {"closed", "crashed"} \/ killed
    /\ UNCHANGED gameVars

GameNext ==
    \/ RoomStep
    \/ \E c \in Conns : ClientStep(c) \/ ServiceReads(c)
    \/ GameEnded

GameSpec == GameInit /\ [][GameNext]_gameVars

(* The threads of the server and of the clients are scheduled; nobody has to *)
(* type, to join or to quit.                                                 *)
FairGameSpec ==
    /\ GameSpec
    /\ WF_gameVars(RoomStep)
    /\ \A c \in Conns : /\ SF_gameVars(AtPoll /\ Forwards(c))
                        /\ SF_gameVars(AtPoll /\ Receives(c))
                        /\ WF_gameVars(ServiceReads(c))

-----------------------------------------------------------------------------
(* Properties. *)

(* The clients and the streams are in states the client program has. *)
GameTypeOK ==
    /\ page \in [Conns -> {"new", "home", "asking", "room", "leaving", "login", "gone"}]
    /\ turn_flag \in [Conns -> {"wait", "guess", "choose"}]
    /\ typed \in [Conns -> {"nothing", "JOIN", "GUESS", "SELECT", "EXIT"}]
    /\ up \in [Conns -> Seq({"GUESS", "SELECT", "EXIT"} \cup Hangups)]
    /\ down \in [Conns -> Seq(Heeded \cup {"OTHER", "EOF"})]
    /\ killed \in BOOLEAN

(* A client on the homepage is not a player of the room: its requests are    *)
(* for the service thread alone.  Nor does the room write to a player it has *)
(* let go: behind S_HOMEPAGEOK there is only the answer of the service       *)
(* thread.  The exception is the last player of a room: the pass of the loop *)
(* in which it leaves still looks at the clock, and suzerain and             *)
(* current_player still point to it.                                         *)
LateClock == {"TURNTIMEOUT", "YOURTURN"}

Emptied == close_room /\ fds = << >>

HomeIsOutside ==
    \A c \in Conns :
        /\ page[c] \in {"new", "home", "login"} /\ pc # "closed" => c \notin Polled
        /\ \A j, k \in DOMAIN down[c] :
              j < k /\ down[c][j] = "HOMEPAGEOK" =>
                 down[c][k] = "LOGINOK" \/ (Emptied /\ down[c][k] \in LateClock)

(* Whoever asks to leave the room is let go, unless the others never rest.   *)
Busy(c) == \E d \in Conns \ {c} :
              AskToJoin(d) \/ \E request \in {"GUESS", "SELECT", "EXIT"} : Types(d, request)

ExitHonoured ==
    \A c \in Conns : \/ []<><<Busy(c)>>_gameVars
                     \/ page[c] = "leaving" ~> (page[c] # "leaving" \/ pc = "crashed")

(* Whoever has the turn gets to guess, or loses the turn to the timeout:     *)
(* nobody is waited for in vain for ever.                                    *)
TurnNeverStuck ==
    \A c \in Conns :
        \/ []<><<Busy(c)>>_gameVars
        \/ (word_is_selected /\ current_player = c) ~>
               \/ turn_flag[c] = "guess"
               \/ ~word_is_selected \/ current_player # c
               \/ pc \in {"closed", "crashed"}

=============================================================================
