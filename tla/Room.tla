-------------------------------- MODULE Room --------------------------------
(***************************************************************************)
(* One room thread (thrRoom in Server/src/ThreadRoom.c): the poll loop that *)
(* owns the sockets of the players of one match, the circular list of       *)
(* player nodes of ListHandler.c, and the turn logic of the game.           *)
(*                                                                         *)
(* A connection stands for the socket descriptor of one client; the player  *)
(* node created for it is named by the same value, so a pointer to a player *)
(* node is a connection or NULL.  The environment is open: whatever the     *)
(* clients and the kernel may do, poll() reports it and the room handles    *)
(* it.  Module Game closes the room with the clients that really talk to it.*)
(***************************************************************************)
EXTENDS Naturals, Sequences

CONSTANTS
    Conns,      \* the connections (socket descriptors) that may enter the room
    Users,      \* the user names
    Username,   \* the user each connection logged in as
    NULL,       \* the null pointer
    WordLen     \* the length of the words to guess

ASSUME NullAssumption == NULL \notin Conns
ASSUME UsernameAssumption == Username \in [Conns -> Users]
ASSUME WordLenAssumption == WordLen \in Nat \ {0}

VARIABLES
    pc,               \* where thrRoom is in its nested loops
    head,             \* this_room->player_list
    nxt,              \* the next field of each player node, NULL when unlinked
    player_num,       \* this_room->player_num
    fds,              \* fds[1 .. nfds-1].fd: the polled players' sockets
    ready,            \* the slots of fds poll() reported, 0 the local socket
    suzerain, current_player,
    word_is_selected, word_is_sent, next_turn, close_room,
    current_unveil, selected_word_len,
    owner,            \* the thread that reads each socket
    out               \* what the last step wrote to each socket

listVars == <<head, nxt, player_num, fds>>
turnVars == <<suzerain, current_player, word_is_selected, word_is_sent>>
hintVars == <<current_unveil, selected_word_len>>
loopVars == <<pc, ready, next_turn, close_room>>
vars == <<listVars, turnVars, hintVars, loopVars, owner, out>>

-----------------------------------------------------------------------------
(* What the room writes. *)

Signals == {"ROOMOK", "PLAYERUPDATE", "CHOOSEWORD", "NEWGAME", "YOURTURN",
            "NOTYOURTURN", "TURNTIMEOUT", "NEWHINT", "MISSEDGUESS", "VICTORY",
            "DEFEAT", "NOPERMISSION", "HOMEPAGEOK"}

Silence == [c \in Conns |-> << >>]
Say(S, sig) == [c \in Conns |-> IF c \in S THEN <<sig>> ELSE << >>]
f ++ g == [c \in Conns |-> f[c] \o g[c]]

Polled == {fds[i] : i \in DOMAIN fds}

-----------------------------------------------------------------------------
(* The player list.  A node is linked when its next pointer is not NULL:     *)
(* createNewPlayerNode and removePlayerNode leave it NULL, linking sets it.  *)

Linked == {c \in Conns : nxt[c] # NULL}

getPlayer(c) == IF nxt[c] # NULL THEN c ELSE NULL

UserInRoom(c) == \E d \in Linked : Username[d] = Username[c]

Before(n) == CHOOSE p \in Linked : nxt[p] = n

(* Mutant: the new node is linked after the head instead of before it. *)
addAfterHead(c) ==
    /\ head' = IF head = NULL THEN c ELSE head
    /\ nxt' = IF head = NULL THEN [nxt EXCEPT ![c] = c]
              ELSE [nxt EXCEPT ![head] = c, ![c] = nxt[head]]

addPlayerToPlayerList(c) ==
    IF head = NULL
    THEN /\ head' = c
         /\ nxt' = [nxt EXCEPT ![c] = c]
    ELSE /\ head' = head
         /\ nxt' = [nxt EXCEPT ![Before(head)] = c, ![c] = head]

removePlayerNode(c) ==
    LET prev == Before(c) IN
    /\ head' = IF head # c THEN head ELSE IF nxt[c] = c THEN NULL ELSE nxt[c]
    /\ nxt' = [nxt EXCEPT ![prev] = nxt[c], ![c] = NULL]

(* Mutant: the shift starts one slot too far. *)
RemoveSlotAfter(i) ==
    fds' = [j \in 1 .. Len(fds) - 1 |-> IF j <= i THEN fds[j] ELSE fds[j + 1]]

(* The shift of the polled sockets over slot i. *)
RemoveSlot(i) ==
    fds' = [j \in 1 .. Len(fds) - 1 |-> IF j < i THEN fds[j] ELSE fds[j + 1]]

-----------------------------------------------------------------------------
(* Whose turn it is. *)

moveSuzerainTurn(s) == IF nxt[s] = s THEN NULL ELSE nxt[s]

PassesSuzerain(p, s) == nxt[p] = s

movePlayerTurn(p, s) == IF PassesSuzerain(p, s) THEN nxt[nxt[p]] ELSE nxt[p]

(* Mutant: no bound on the hints. *)
addHintUnbounded(hint) ==
    current_unveil' = IF hint THEN current_unveil + 1 ELSE current_unveil

addHint(hint) ==
    current_unveil' = IF hint /\ current_unveil + 1 < selected_word_len
                      THEN current_unveil + 1
                      ELSE current_unveil

SayHint(S, hint) == IF hint THEN Say(S, "NEWHINT") ELSE Silence

(* movePlayerTurn, addHint and the hint to every polled player. *)
AdvanceTurn ==
    LET hint == PassesSuzerain(current_player, suzerain) IN
    /\ current_player' = movePlayerTurn(current_player, suzerain)
    /\ addHint(hint)
    /\ UNCHANGED selected_word_len

(* Mutants: the turn is announced to nobody; to the player that just lost it. *)
AdvanceTurnSilent == SayHint(Polled, PassesSuzerain(current_player, suzerain))

AdvanceTurnSaysToOld ==
    SayHint(Polled, PassesSuzerain(current_player, suzerain))
        ++ Say({current_player}, "YOURTURN")

AdvanceTurnSays ==
    SayHint(Polled, PassesSuzerain(current_player, suzerain))
        ++ Say({movePlayerTurn(current_player, suzerain)}, "YOURTURN")

-----------------------------------------------------------------------------
(* Start of the thread.  current_unveil and selected_word_len are automatic  *)
(* variables nobody has assigned: they hold whatever was on the stack.       *)

Init ==
    /\ pc = "turn"
    /\ head = NULL /\ nxt = [c \in Conns |-> NULL] /\ player_num = 0
    /\ fds = << >> /\ ready = {}
    /\ suzerain = NULL /\ current_player = NULL
    /\ word_is_selected = FALSE /\ word_is_sent = FALSE
    /\ next_turn = FALSE /\ close_room = FALSE
    /\ current_unveil \in 0 .. WordLen
    /\ selected_word_len \in {0, WordLen}
    /\ owner = [c \in Conns |-> "service"]
    /\ out = Silence

(* Mutant: the word of the last turn stays selected. *)
NewTurnKeepsWord ==
    /\ pc = "turn" /\ ~close_room
    /\ pc' = "top"
    /\ next_turn' = FALSE /\ word_is_sent' = FALSE
    /\ out' = Say({current_player}, "NOTYOURTURN")
    /\ UNCHANGED <<listVars, hintVars, suzerain, current_player, ready,
                   word_is_selected, close_room, owner>>

(* while(!close_room) { ... : a new turn. *)
NewTurn ==
    /\ pc = "turn" /\ ~close_room
    /\ pc' = "top"
    /\ next_turn' = FALSE /\ word_is_selected' = FALSE /\ word_is_sent' = FALSE
    /\ out' = Say({current_player}, "NOTYOURTURN")
    /\ UNCHANGED <<listVars, hintVars, suzerain, current_player, ready,
                   close_room, owner>>

(* do { ... : ask the suzerain for the word, then poll. *)
MustAskSuzerain ==
    ~word_is_selected /\ suzerain # NULL /\ ~word_is_sent /\ player_num > 1

AskSuzerain ==
    /\ pc = "top"
    /\ pc' = "poll"
    /\ word_is_sent' = (word_is_sent \/ MustAskSuzerain)
    /\ out' = IF MustAskSuzerain THEN Say({suzerain}, "CHOOSEWORD") ELSE Silence
    /\ UNCHANGED <<listVars, hintVars, suzerain, current_player,
                   word_is_selected, ready, next_turn, close_room, owner>>

PollFails ==
    /\ pc = "poll"
    /\ pc' = "turn" /\ close_room' = TRUE
    /\ out' = Silence
    /\ UNCHANGED <<listVars, turnVars, hintVars, ready, next_turn, owner>>

(* The turn-timeout routine: the word was not chosen, a guess did not come,  *)
(* or there is nobody to wait for.                                           *)
SuzerainLate == ~word_is_selected /\ suzerain # NULL

SuzerainTimesOut ==
    /\ suzerain' = moveSuzerainTurn(suzerain)
    /\ out' = Say({suzerain}, "TURNTIMEOUT")
    /\ UNCHANGED <<current_player, word_is_selected, word_is_sent, hintVars>>

PlayerTimesOut ==
    /\ UNCHANGED <<suzerain, word_is_selected, word_is_sent>>
    /\ IF current_player # NULL
       THEN /\ AdvanceTurn
            /\ out' = Say({current_player}, "TURNTIMEOUT") ++ AdvanceTurnSays
       ELSE /\ out' = Silence
            /\ UNCHANGED <<current_player, hintVars>>

PollTimesOut ==
    /\ pc = "poll"
    /\ \/ SuzerainLate /\ SuzerainTimesOut /\ pc' = "turn"
       \/ ~SuzerainLate /\ PlayerTimesOut /\ pc' = "top"
    /\ UNCHANGED <<listVars, ready, next_turn, close_room, owner>>

PollReturns(R) ==
    /\ pc = "poll"
    /\ pc' = "scan" /\ ready' = R
    /\ out' = Silence
    /\ UNCHANGED <<listVars, turnVars, hintVars, next_turn, close_room, owner>>

-----------------------------------------------------------------------------
(* The scan of fds: ready slots in increasing order.  A handler that writes  *)
(* to every player does so with the scan's own index i, which then stands    *)
(* past the last slot: the events behind it wait for the next poll.          *)

Scanning(i) ==
    /\ pc = "scan" /\ i \in ready
    /\ \A k \in ready : i <= k

GoOn(i) == ready' = ready \ {i}
StopScan == ready' = {}

(* revents is not POLLIN, or accept() fails: the whole room is closed. *)
SlotFails(i) ==
    /\ Scanning(i)
    /\ StopScan
    /\ next_turn' = TRUE /\ close_room' = TRUE
    /\ out' = Silence
    /\ UNCHANGED <<pc, listVars, turnVars, hintVars, owner>>

(* A service thread connects to the local socket and passes on client c. *)
JoinRefused(c) ==
    /\ Scanning(0)
    /\ owner[c] = "service" /\ UserInRoom(c)
    /\ GoOn(0)
    /\ out' = Silence
    /\ UNCHANGED <<pc, listVars, turnVars, hintVars, next_turn, close_room,
                   owner>>

Join(c) ==
    /\ Scanning(0)
    /\ owner[c] = "service" /\ ~UserInRoom(c)
    /\ addPlayerToPlayerList(c)
    /\ fds' = Append(fds, c)
    /\ player_num' = player_num + 1
    /\ suzerain' = IF suzerain = NULL THEN c ELSE suzerain
    /\ word_is_selected' = (word_is_selected /\ suzerain # NULL)
    /\ current_player' = IF current_player = NULL /\ suzerain # NULL
                         THEN c ELSE current_player
    /\ owner' = [owner EXCEPT ![c] = "room"]
    /\ out' = Say({c}, "ROOMOK") ++ Say(Polled, "PLAYERUPDATE")
    /\ StopScan
    /\ UNCHANGED <<pc, word_is_sent, hintVars, next_turn, close_room>>

(* A request of the login or home pages, or an unknown one: not here. *)
OutOfPlace(i) ==
    /\ Scanning(i) /\ i # 0
    /\ GoOn(i)
    /\ out' = Say({fds[i]}, "NOPERMISSION")
    /\ UNCHANGED <<pc, listVars, turnVars, hintVars, next_turn, close_room,
                   owner>>

(* C_SELECTWORD: only the suzerain's is looked at. *)
SelectIgnored(i) ==
    /\ Scanning(i) /\ i # 0
    /\ suzerain # getPlayer(fds[i])
    /\ GoOn(i)
    /\ out' = Silence
    /\ UNCHANGED <<pc, listVars, turnVars, hintVars, next_turn, close_room,
                   owner>>

SelectMalformed(i) ==
    /\ Scanning(i) /\ i # 0
    /\ suzerain = getPlayer(fds[i])
    /\ word_is_selected' = FALSE /\ word_is_sent' = FALSE
    /\ GoOn(i)
    /\ out' = Silence
    /\ UNCHANGED <<pc, listVars, suzerain, current_player, hintVars, next_turn,
                   close_room, owner>>

SelectWord(i) ==
    /\ Scanning(i) /\ i # 0
    /\ suzerain = getPlayer(fds[i])
    /\ word_is_selected' = TRUE
    /\ selected_word_len' = WordLen
    /\ current_unveil' = IF WordLen > 1 THEN 1 ELSE 0
    /\ current_player' = nxt[suzerain]
    /\ out' = Say(Polled, "NEWGAME") ++ Say({nxt[suzerain]}, "YOURTURN")
    /\ GoOn(i)
    /\ UNCHANGED <<pc, listVars, suzerain, word_is_sent, next_turn, close_room,
                   owner>>

(* C_GUESSSKIP: a guess or a pass, whoever sends it and whenever.  It is     *)
(* compared with words[selected_word], be that the chosen word, the first of *)
(* the three drawn words or, after a malformed choice, what lies before      *)
(* them: it may hit or miss.                                                 *)
GuessHits(i) ==
    /\ Scanning(i) /\ i # 0 /\ current_player # NULL
    /\ suzerain' = getPlayer(fds[i])
    /\ next_turn' = TRUE
    /\ out' = Say({fds[i]}, "VICTORY") ++ Say(Polled \ {fds[i]}, "DEFEAT")
    /\ StopScan
    /\ UNCHANGED <<pc, listVars, current_player, word_is_selected, word_is_sent,
                   hintVars, close_room, owner>>

GuessMisses(i) ==
    /\ Scanning(i) /\ i # 0 /\ current_player # NULL
    /\ AdvanceTurn
    /\ out' = Say(Polled, "MISSEDGUESS") ++ AdvanceTurnSays
    /\ StopScan
    /\ UNCHANGED <<pc, listVars, suzerain, word_is_selected, word_is_sent,
                   next_turn, close_room, owner>>

(* Either way current_player is dereferenced. *)
GuessCrashes(i) ==
    /\ Scanning(i) /\ i # 0 /\ current_player = NULL
    /\ pc' = "crashed"
    /\ StopScan
    /\ out' = Silence
    /\ UNCHANGED <<listVars, turnVars, hintVars, next_turn, close_room, owner>>

-----------------------------------------------------------------------------
(* A player goes: C_EXITROOM, which first hands its socket to a new service  *)
(* thread, or end of file and read errors, which leave the socket to nobody. *)
(* pthread_create may fail: rebuildService then closes the socket.           *)

(* Mutant: the new service thread does not greet who comes from a room. *)
RebuildsMute(c, heir) == Silence

(* What a rebuilt service thread says first. *)
Rebuilds(c, heir) == IF heir = "service" THEN Say({c}, "HOMEPAGEOK") ELSE Silence

(* Mutant: the room its last player left goes on. *)
LeaveAloneGoesOn(i, heir) ==
    /\ Len(fds) = 1
    /\ next_turn' = TRUE
    /\ UNCHANGED <<head, nxt, player_num, turnVars, hintVars, close_room>>
    /\ out' = Rebuilds(fds[i], heir)

LeaveAlone(i, heir) ==      \* the last player: only its slot is removed
    /\ Len(fds) = 1
    /\ next_turn' = TRUE /\ close_room' = TRUE
    /\ UNCHANGED <<head, nxt, player_num, turnVars, hintVars>>
    /\ out' = Rebuilds(fds[i], heir)

NewSuzerain(player) == IF suzerain = player THEN moveSuzerainTurn(player)
                                            ELSE suzerain

(* Mutant: in a room of two the turn comes back to the player that leaves.   *)
TurnLeftKept(player, s) ==
    IF current_player = player THEN movePlayerTurn(player, s) ELSE current_player

(* The turn of the player that leaves passes on; in a room of two to nobody. *)
TurnLeft(player, s) ==
    LET q == movePlayerTurn(player, s)
    IN  IF current_player # player THEN current_player
        ELSE IF q = player THEN NULL ELSE q

LeaveOthers(i, heir) ==
    LET player == getPlayer(fds[i])
        s      == NewSuzerain(player)
        q      == movePlayerTurn(player, s)
        turn   == current_player = player
        hint   == turn /\ PassesSuzerain(player, s)
        rest   == Polled \ {fds[i]}
    IN  /\ Len(fds) > 1
        /\ next_turn' = (next_turn \/ Len(fds) = 2 \/ suzerain = player)
        /\ suzerain' = s
        /\ current_player' = TurnLeft(player, s)
        /\ addHint(hint)
        /\ removePlayerNode(player)
        /\ player_num' = player_num - 1
        /\ out' = Rebuilds(fds[i], heir)
                    ++ SayHint(rest, hint)
                    ++ Say(IF turn THEN {q} \ {player} ELSE {}, "YOURTURN")
                    ++ Say(rest, "PLAYERUPDATE")
        /\ UNCHANGED <<word_is_selected, word_is_sent, selected_word_len,
                       close_room>>

Leave(i, heir) ==
    /\ Scanning(i) /\ i # 0
    /\ owner' = [owner EXCEPT ![fds[i]] = heir]
    /\ RemoveSlot(i)
    /\ LeaveAlone(i, heir) \/ LeaveOthers(i, heir)
    /\ StopScan
    /\ UNCHANGED pc

ExitRoom(i) == \E heir \in {"service", "nobody"} : Leave(i, heir)
Disconnect(i) == Leave(i, "nobody")

-----------------------------------------------------------------------------
(* After the scan: the clock may tell that the turn has lasted too long. *)

ScanEnds ==
    /\ pc = "scan" /\ ready = {}
    /\ pc' = IF next_turn THEN "turn" ELSE "top"
    /\ out' = Silence
    /\ UNCHANGED <<listVars, turnVars, hintVars, ready, next_turn, close_room,
                   owner>>

ClockExpires ==
    /\ pc = "scan" /\ ready = {}
    /\ next_turn' = (next_turn \/ SuzerainLate)
    /\ pc' = IF next_turn' THEN "turn" ELSE "top"
    /\ \/ SuzerainLate /\ SuzerainTimesOut
       \/ ~SuzerainLate /\ PlayerTimesOut
    /\ UNCHANGED <<listVars, ready, close_room, owner>>

(* Mutant: the room ends without rebuilding the services of its players. *)
CloseRoomAbandons ==
    /\ pc = "turn" /\ close_room
    /\ pc' = "closed"
    /\ out' = Silence
    /\ UNCHANGED <<listVars, turnVars, hintVars, ready, next_turn, close_room,
                   owner>>

(* The closing of the room: a service thread for each player left, or the    *)
(* socket closed where none can be created; S are those who get one.         *)
CloseRoom ==
    /\ pc = "turn" /\ close_room
    /\ pc' = "closed"
    /\ \E S \in SUBSET Polled :
          /\ owner' = [c \in Conns |-> IF c \notin Polled THEN owner[c]
                                       ELSE IF c \in S THEN "service" ELSE "nobody"]
          /\ out' = Say(S, "HOMEPAGEOK")
    /\ UNCHANGED <<listVars, turnVars, hintVars, ready, next_turn, close_room>>

(* The thread has returned, or the process has died. *)
Ended ==
    /\ pc \in {"closed", "crashed"}
    /\ UNCHANGED vars

-----------------------------------------------------------------------------

PlayerEvent(i) ==
    \/ SlotFails(i)
    \/ OutOfPlace(i)
    \/ SelectIgnored(i) \/ SelectMalformed(i) \/ SelectWord(i)
    \/ GuessHits(i) \/ GuessMisses(i) \/ GuessCrashes(i)
    \/ ExitRoom(i) \/ Disconnect(i)

JoinEvent(c) == Join(c) \/ JoinRefused(c)

Poll ==
    \/ PollFails \/ PollTimesOut
    \/ \E R \in SUBSET (0 .. Len(fds)) : R # {} /\ PollReturns(R)

Next ==
    \/ NewTurn \/ AskSuzerain
    \/ Poll
    \/ \E i \in 0 .. Len(fds) : PlayerEvent(i)
    \/ \E c \in Conns : JoinEvent(c)
    \/ ScanEnds \/ ClockExpires
    \/ CloseRoom
    \/ Ended

Spec == Init /\ [][Next]_vars

(* The room is one thread, and the scheduler runs it. *)
FairSpec == Spec /\ WF_vars(Next)

-----------------------------------------------------------------------------
(* Properties. *)

Has(c, sig) == \E k \in DOMAIN out[c] : out[c][k] = sig

(* Every variable of thrRoom has its type. *)
TypeOK ==
    /\ pc \in {"turn", "top", "poll", "scan", "closed", "crashed"}
    /\ head \in Conns \cup {NULL}
    /\ nxt \in [Conns -> Conns \cup {NULL}]
    /\ player_num \in Nat
    /\ fds \in Seq(Conns)
    /\ ready \subseteq 0 .. Len(fds)
    /\ suzerain \in Conns \cup {NULL}
    /\ current_player \in Conns \cup {NULL}
    /\ word_is_selected \in BOOLEAN /\ word_is_sent \in BOOLEAN
    /\ next_turn \in BOOLEAN /\ close_room \in BOOLEAN
    /\ current_unveil \in 0 .. WordLen
    /\ selected_word_len \in {0, WordLen}
    /\ owner \in [Conns -> {"service", "room", "nobody"}]
    /\ out \in [Conns -> Seq(Signals)]

Succ(i) == IF i = Len(fds) THEN 1 ELSE i + 1

(* While the room runs, the circular list of player nodes, the array of      *)
(* polled sockets and player_num tell the same story: the nodes linked from  *)
(* player_list are the polled players, in the order of fds.                  *)
RingMatchesFds ==
    ~close_room =>
        /\ player_num = Len(fds)
        /\ head = IF fds = << >> THEN NULL ELSE fds[1]
        /\ Linked = Polled
        /\ \A i \in DOMAIN fds : nxt[fds[i]] = fds[Succ(i)]

(* suzerain and current_player never point to a node that was unlinked and   *)
(* freed, whoever leaves and whatever the timeouts do.                       *)
NoDanglingTurn == {suzerain, current_player} \subseteq Linked \cup {NULL}

(* Two players are never without a suzerain, so a match always has somebody  *)
(* who may choose the word.                                                  *)
MatchHasSuzerain == Len(fds) > 1 => suzerain # NULL

(* While a word is being guessed somebody holds the turn: a guess then finds *)
(* current_player, which its handler dereferences.                           *)
WordHasGuesser == word_is_selected /\ ~next_turn => current_player # NULL

(* The sockets the room reads are those it polls: nobody's socket is read by *)
(* the room and by a service thread, and a closed room keeps none.           *)
OneReader ==
    \A c \in Conns : owner[c] = "room" <=> (c \in Polled /\ pc # "closed")

(* Hints stop before the last hidden letter of the word is shown. *)
HintsLeaveALetter == word_is_selected => current_unveil < selected_word_len

(* A turn of guessing is never handed over silently: the player that becomes *)
(* current_player while there is a word is told by S_YOURTURN.               *)
HandoverAnnounced ==
    [][\A c \in Conns :
          /\ current_player # c /\ current_player' = c
          /\ word_is_selected'
          => Has(c, "YOURTURN")']_vars

(* The suzerain is replaced only by a step that ends the turn, so that the   *)
(* one who was asked for the word is the one whose choice is accepted.       *)
SuzerainKeptDuringTurn ==
    [][(suzerain # NULL /\ suzerain' # suzerain)
            => (next_turn' \/ pc' = "turn")]_vars

(* A room that closes, or that its last player has left, ends, and gives      *)
(* every player it still has back to a service thread, or closes its socket: *)
(* the room keeps no socket that nobody reads any more.                      *)
ClosingFreesPlayers ==
    (close_room \/ (head # NULL /\ fds = << >>))
        ~> (pc = "closed" /\ \A c \in Conns : owner[c] # "room")

-----------------------------------------------------------------------------
(* What the room promises: module Match, with the list of nodes, the polled  *)
(* sockets and the scan of the events left out.                              *)

Open(x, closed) == IF close_room THEN closed ELSE x

AMatch == INSTANCE Match WITH
    order  <- Open(fds, << >>),
    suz    <- Open(suzerain, NULL),
    turn   <- Open(current_player, NULL),
    picked <- Open(word_is_selected, FALSE),
    ended  <- Open(next_turn \/ pc = "turn", FALSE),
    over   <- close_room

(* The pointers into the circular list, the shift of the polled sockets and  *)
(* the flags of the nested loops together play a match: the turns go round   *)
(* in the order of arrival, the suzerain is passed over, and who leaves, is  *)
(* late or wins ends the round exactly when the match says so.               *)
ImplementsMatch == AMatch!MatchSpec

=============================================================================
