-------------------------------- MODULE Lobby --------------------------------
(***************************************************************************)
(* How players and rooms meet: the service threads (thrService, createNewRoom*)
(* and joinRoom), the list of rooms, and the local socket through which a    *)
(* service thread hands its client over to a room thread.                    *)
(*                                                                         *)
(* A room thread is created, puts its node at the head of the list, binds    *)
(* its local socket to a path named after its ID, plays (module Room), takes *)
(* its node off the list, and only then closes the socket and unlinks the    *)
(* path.  A joining service thread reads the list with no lock, connects to  *)
(* the path it found there, and waits for the room's answer.  The list's own *)
(* steps are atomic here: module RoomList looks inside them.                 *)
(***************************************************************************)
EXTENDS Naturals, Sequences, FiniteSets

CONSTANTS
    Services,   \* the clients, each served by a service thread
    Rooms,      \* bound: the room threads that are ever created
    Ids,        \* bound: the IDs a client may ask for
    MaxPlayers, \* MAXPLAYERS
    Backlog,    \* MAXLOCALCONNECTIONS: the queue of listen() holds one more
    NULL

ASSUME LobbyAssumption ==
    /\ NULL \notin Rooms
    /\ Ids \subseteq Nat \ {0}
    /\ MaxPlayers \in Nat \ {0}
    /\ Backlog \in Nat

VARIABLES
    room_list,   \* the rooms in the list, the head first
    id,          \* the ID of each room, 0 before it has one
    phase,       \* how far each room thread is
    player_num,  \* the player_num of each room
    file,        \* the room whose local socket each path is bound to
    queue,       \* connections a local socket has not accepted
    svc,         \* where each service thread is
    request,     \* the request each client awaits the answer of
    want,        \* room_ID of each service thread
    node,        \* joined_room, or the room the thread is in
    link,        \* the room a service thread is connected to
    killed       \* has SIGPIPE killed the server?

roomVars == <<room_list, id, phase, player_num>>
netVars == <<file, queue>>
svcVars == <<svc, request, want, node, link>>
vars == <<roomVars, netVars, svcVars, killed>>

-----------------------------------------------------------------------------
(* The list of rooms. *)

Listed == {room_list[k] : k \in DOMAIN room_list}

NextId == IF room_list = << >> THEN 1 ELSE id[Head(room_list)] + 1

HasId(i) == \E k \in DOMAIN room_list : id[room_list[k]] = i

Position(i) ==
    CHOOSE k \in DOMAIN room_list :
        /\ id[room_list[k]] = i
        /\ \A j \in DOMAIN room_list : j < k => id[room_list[j]] # i

getRoom(i) == IF HasId(i) THEN room_list[Position(i)] ELSE NULL

Without(k) ==
    [j \in 1 .. Len(room_list) - 1 |->
        IF j < k THEN room_list[j] ELSE room_list[j + 1]]

(* The path a socket is bound to, for as long as no room unlinks it. *)
BoundTo(i) == IF i \in DOMAIN file THEN file[i] ELSE NULL

Bind(i, r) == file' = [k \in DOMAIN file \cup {i} |-> IF k = i THEN r ELSE file[k]]
Unlink(i) == file' = [k \in DOMAIN file \ {i} |-> file[k]]

Inside(r) == {s \in Services : svc[s] = "inroom" /\ node[s] = r}

-----------------------------------------------------------------------------

Init ==
    /\ room_list = << >>
    /\ id = [r \in Rooms |-> 0] /\ player_num = [r \in Rooms |-> 0]
    /\ phase = [r \in Rooms |-> "unborn"]
    /\ file = << >> /\ queue = [r \in Rooms |-> << >>]
    /\ svc = [s \in Services |-> "home"]
    /\ request = [s \in Services |-> "none"]
    /\ want = [s \in Services |-> 0]
    /\ node = [s \in Services |-> NULL] /\ link = [s \in Services |-> NULL]
    /\ killed = FALSE

-----------------------------------------------------------------------------
(* The service threads. *)

Goto(s, there) == svc' = [svc EXCEPT ![s] = there]

(* C_CREATEROOM: createNewRoom starts a thread and waits for its flag, so    *)
(* that the thread may copy the arguments from this one's stack.             *)
CreateRoom(s) ==
    /\ svc[s] = "home" /\ request[s] = "none"
    /\ request' = [request EXCEPT ![s] = "create"]
    /\ Goto(s, "creating")
    /\ \E r \in Rooms :
          /\ phase[r] = "unborn"
          /\ phase' = [phase EXCEPT ![r] = "starting"]
          /\ node' = [node EXCEPT ![s] = r]
    /\ UNCHANGED <<room_list, id, player_num, netVars, want, link, killed>>

(* pthread_create fails: joinRoom looks for an ID no room has. *)
CreateFails(s) ==
    /\ svc[s] = "home" /\ request[s] = "none"
    /\ request' = [request EXCEPT ![s] = "create"]
    /\ Goto(s, "joining")
    /\ want' = [want EXCEPT ![s] = 0]
    /\ UNCHANGED <<roomVars, netVars, node, link, killed>>

(* C_JOINROOM. *)
JoinRoom(s) ==
    /\ svc[s] = "home" /\ request[s] = "none"
    /\ request' = [request EXCEPT ![s] = "join"]
    /\ Goto(s, "joining")
    /\ \E i \in Ids : want' = [want EXCEPT ![s] = i]
    /\ UNCHANGED <<roomVars, netVars, node, link, killed>>

(* Mutant: no request that fails is answered. *)
FailsSilently(s) ==
    /\ Goto(s, "home")
    /\ node' = [node EXCEPT ![s] = NULL] /\ link' = [link EXCEPT ![s] = NULL]
    /\ UNCHANGED <<roomVars, netVars, request, want, killed>>

(* Back to the homepage.  Only a join has an answer when it fails: the one   *)
(* of a creation is commented out.                                           *)
Declined(s) ==
    /\ Goto(s, "home")
    /\ request' = [request EXCEPT ![s] = IF @ = "join" THEN "none" ELSE @]
    /\ node' = [node EXCEPT ![s] = NULL] /\ link' = [link EXCEPT ![s] = NULL]

Fails(s) == Declined(s) /\ UNCHANGED <<roomVars, netVars, want, killed>>

(* S_ROOMNOTFOUND, S_FULLROOM: what the list says now. *)
IsFull(r) == player_num[r] >= MaxPlayers

Rejected(s) ==
    /\ svc[s] = "joining"
    /\ \/ getRoom(want[s]) = NULL
       \/ getRoom(want[s]) # NULL /\ IsFull(getRoom(want[s]))
    /\ Fails(s)

LooksUp(s) ==
    /\ svc[s] = "joining"
    /\ getRoom(want[s]) # NULL /\ ~IsFull(getRoom(want[s]))
    /\ node' = [node EXCEPT ![s] = getRoom(want[s])]
    /\ Goto(s, "connecting")
    /\ UNCHANGED <<roomVars, netVars, request, want, link, killed>>

(* connect() to the path read from joined_room, whatever is bound to it now. *)
ConnectFails(s) ==
    /\ svc[s] = "connecting" /\ BoundTo(want[s]) = NULL
    /\ Fails(s)

Connects(s) ==
    LET r == BoundTo(want[s]) IN
    /\ svc[s] = "connecting" /\ r # NULL
    /\ Len(queue[r]) <= Backlog
    /\ queue' = [queue EXCEPT ![r] = Append(@, s)]
    /\ link' = [link EXCEPT ![s] = r]
    /\ Goto(s, "connected")
    /\ UNCHANGED <<roomVars, file, request, want, node, killed>>

(* The player's name and socket go to the room.  When it has closed its      *)
(* local socket meanwhile, write() raises SIGPIPE.                           *)
Writes(s) ==
    /\ svc[s] = "connected"
    /\ IF phase[link[s]] = "ended"
       THEN killed' = TRUE /\ UNCHANGED svc
       ELSE Goto(s, "waiting") /\ UNCHANGED killed
    /\ UNCHANGED <<roomVars, netVars, request, want, node, link>>

(* read() reports the reset: S_UNKNOWNSIGNAL. *)
ReadsReset(s) ==
    /\ svc[s] = "waiting" /\ phase[link[s]] = "ended"
    /\ Fails(s)

-----------------------------------------------------------------------------
(* The room threads. *)

Become(r, there) == phase' = [phase EXCEPT ![r] = there]

(* createAndAddNewRoom. *)
AddsItself(r) ==
    /\ phase[r] = "starting"
    /\ Become(r, "listed")
    /\ id' = [id EXCEPT ![r] = NextId]
    /\ room_list' = <<r>> \o room_list
    /\ UNCHANGED <<player_num, netVars, svcVars, killed>>

(* localSocketInit, which frees the path of an older socket first; then the  *)
(* flag is set and the creator goes on to join.                              *)
Opens(r) ==
    /\ phase[r] = "listed"
    /\ Become(r, "open")
    /\ Bind(id[r], r)
    /\ \E s \in Services :
          /\ svc[s] = "creating" /\ node[s] = r
          /\ Goto(s, "joining")
          /\ want' = [want EXCEPT ![s] = id[r]]
          /\ node' = [node EXCEPT ![s] = NULL]
    /\ UNCHANGED <<room_list, id, player_num, queue, request, link, killed>>

(* accept() and the join routine, which does not look at MAXPLAYERS. *)
Accepts(r, s) ==
    /\ phase[r] = "open" /\ queue[r] # << >> /\ s = Head(queue[r])
    /\ svc[s] = "waiting"
    /\ queue' = [queue EXCEPT ![r] = Tail(@)]

Admits(r) ==
    \E s \in Services :
       /\ Accepts(r, s)
       /\ player_num' = [player_num EXCEPT ![r] = @ + 1]
       /\ Goto(s, "inroom")
       /\ request' = [request EXCEPT ![s] = "none"]
       /\ node' = [node EXCEPT ![s] = r] /\ link' = [link EXCEPT ![s] = NULL]
       /\ UNCHANGED <<room_list, id, phase, file, want, killed>>

(* S_USERINROOM: somebody in the room may have logged in with the same name. *)
Refuses(r) ==
    \E s \in Services :
       /\ Accepts(r, s) /\ Inside(r) # {}
       /\ Declined(s)
       /\ UNCHANGED <<roomVars, file, want, killed>>

(* rebuildService for the player s, whose socket is closed when no thread    *)
(* can be created for it.                                                    *)
Rebuilds(s) ==
    /\ Goto(s, "home") \/ Goto(s, "gone")
    /\ node' = [node EXCEPT ![s] = NULL]
    /\ UNCHANGED <<request, want, link>>

(* A player leaves: its socket is served by another thread, or is closed,    *)
(* before the room discounts it.                                             *)
LosesPlayer(r) ==
    /\ phase[r] = "open"
    /\ \E s \in Inside(r) : Rebuilds(s)
    /\ Become(r, "parting")
    /\ UNCHANGED <<room_list, id, player_num, netVars, killed>>

(* Mutant: the player that leaves is discounted twice. *)
DiscountsTwice(r) ==
    /\ phase[r] = "parting"
    /\ IF Inside(r) = {}
       THEN Become(r, "closing") /\ UNCHANGED player_num
       ELSE Become(r, "open") /\ player_num' = [player_num EXCEPT ![r] = @ - 2]
    /\ UNCHANGED <<room_list, id, netVars, svcVars, killed>>

(* The last one is not even discounted, and the room closes. *)
Discounts(r) ==
    /\ phase[r] = "parting"
    /\ IF Inside(r) = {}
       THEN Become(r, "closing") /\ UNCHANGED player_num
       ELSE Become(r, "open") /\ player_num' = [player_num EXCEPT ![r] = @ - 1]
    /\ UNCHANGED <<room_list, id, netVars, svcVars, killed>>

(* poll() or accept() fails: the room closes under its players. *)
Breaks(r) ==
    /\ phase[r] = "open"
    /\ Become(r, "closing")
    /\ UNCHANGED <<room_list, id, player_num, netVars, svcVars, killed>>

(* A room that closes hands its players back one by one. *)
HandsBack(r) ==
    /\ phase[r] = "closing"
    /\ \E s \in Inside(r) : Rebuilds(s)
    /\ UNCHANGED <<roomVars, netVars, killed>>

(* Mutants: the node goes before the players do; the head is removed. *)
RemovesItselfFirst(r) ==
    /\ phase[r] = "closing"
    /\ Become(r, "removed")
    /\ room_list' = IF HasId(id[r]) THEN Without(Position(id[r])) ELSE room_list
    /\ UNCHANGED <<id, player_num, netVars, svcVars, killed>>

RemovesHead(r) ==
    /\ phase[r] = "closing" /\ Inside(r) = {}
    /\ Become(r, "removed")
    /\ room_list' = Tail(room_list)
    /\ UNCHANGED <<id, player_num, netVars, svcVars, killed>>

(* removeAndDestroyRoomNode. *)
RemovesItself(r) ==
    /\ phase[r] = "closing" /\ Inside(r) = {}
    /\ Become(r, "removed")
    /\ room_list' = IF HasId(id[r]) THEN Without(Position(id[r])) ELSE room_list
    /\ UNCHANGED <<id, player_num, netVars, svcVars, killed>>

(* Mutants: the socket is closed only when nobody knocks any more; the path  *)
(* is left behind.                                                           *)
EndsWhenIdle(r) ==
    /\ phase[r] = "removed" /\ queue[r] = << >>
    /\ Become(r, "ended")
    /\ Unlink(id[r])
    /\ UNCHANGED <<room_list, id, player_num, queue, svcVars, killed>>

EndsOnDisk(r) ==
    /\ phase[r] = "removed"
    /\ Become(r, "ended")
    /\ queue' = [queue EXCEPT ![r] = << >>]
    /\ UNCHANGED <<room_list, id, player_num, file, svcVars, killed>>

(* deleteLocalSocket: the connections nobody has accepted are reset, and the *)
(* path goes, whoever is bound to it by now.  Between the two connect() is   *)
(* refused as it is without a path.                                          *)
Ends(r) ==
    /\ phase[r] = "removed"
    /\ Become(r, "ended")
    /\ queue' = [queue EXCEPT ![r] = << >>]
    /\ Unlink(id[r])
    /\ UNCHANGED <<room_list, id, player_num, svcVars, killed>>

-----------------------------------------------------------------------------

ServiceStep(s) ==
    \/ Rejected(s) \/ LooksUp(s)
    \/ ConnectFails(s) \/ Connects(s)
    \/ Writes(s) \/ ReadsReset(s)

RoomStep(r) ==
    \/ AddsItself(r) \/ Opens(r)
    \/ Admits(r) \/ Refuses(r) \/ Discounts(r)
    \/ HandsBack(r) \/ RemovesItself(r) \/ Ends(r)

Asks(s) == CreateRoom(s) \/ CreateFails(s) \/ JoinRoom(s)

(* The server is dead, or every client has gone or waits for an answer it    *)
(* will not get.                                                             *)
Rests ==
    /\ \/ killed
       \/ \A s \in Services : \/ svc[s] = "home" /\ request[s] = "create"
                             \/ svc[s] = "gone"
    /\ UNCHANGED vars

Next ==
    \/ /\ ~killed
       /\ \/ \E s \in Services : Asks(s) \/ ServiceStep(s)
          \/ \E r \in Rooms : RoomStep(r) \/ LosesPlayer(r) \/ Breaks(r)
    \/ Rests

Spec == Init /\ [][Next]_vars

(* The threads are scheduled.  Nobody has to ask, to leave, or to fail. *)
FairSpec ==
    /\ Spec
    /\ \A s \in Services : WF_vars(~killed /\ ServiceStep(s))
    /\ \A r \in Rooms : WF_vars(~killed /\ RoomStep(r))

-----------------------------------------------------------------------------
(* Properties. *)

(* The variables of the lobby have their types. *)
LobbyTypeOK ==
    /\ room_list \in Seq(Rooms)
    /\ id \in [Rooms -> Nat] /\ player_num \in [Rooms -> Nat]
    /\ phase \in [Rooms -> {"unborn", "starting", "listed", "open", "parting",
                            "closing", "removed", "ended"}]
    /\ DOMAIN file \subseteq Nat
    /\ \A i \in DOMAIN file : file[i] \in Rooms
    /\ queue \in [Rooms -> Seq(Services)]
    /\ svc \in [Services -> {"home", "creating", "joining", "connecting",
                             "connected", "waiting", "inroom", "gone"}]
    /\ request \in [Services -> {"none", "create", "join"}]
    /\ want \in [Services -> Nat]
    /\ node \in [Services -> Rooms \cup {NULL}]
    /\ link \in [Services -> Rooms \cup {NULL}]
    /\ killed \in BOOLEAN

(* IDs decrease along the list, so that an ID names one listed room only,    *)
(* although the IDs of rooms that have gone are used again.                  *)
IdsDescend ==
    \A j, k \in DOMAIN room_list :
        j < k => id[room_list[j]] > id[room_list[k]]

(* The rooms in the list are those that run: a room leaves the list neither  *)
(* before it closes nor together with another room of the same ID.           *)
ListedWhileAlive ==
    Listed = {r \in Rooms : phase[r] \in {"listed", "open", "parting", "closing"}}

(* A player is in a room that still serves it or is about to hand it back:   *)
(* no room takes its node and its socket away before.  And player_num, on    *)
(* which the next joiner relies, counts the players; while a player that has *)
(* another thread already is not discounted yet, it is one too many and      *)
(* never one too few.                                                        *)
PlayersAreServed ==
    /\ \A s \in Services :
          svc[s] = "inroom" => phase[node[s]] \in {"open", "parting", "closing"}
    /\ \A r \in Rooms :
          /\ phase[r] = "open" => player_num[r] = Cardinality(Inside(r))
          /\ phase[r] = "parting" => player_num[r] = Cardinality(Inside(r)) + 1

(* Behind a path there is a room that can still answer: joining the wrong    *)
(* room, or waiting at the socket of one that has ended, cannot happen.      *)
PathsLeadToTheirRoom ==
    \A i \in DOMAIN file :
        id[file[i]] = i /\ phase[file[i]] \in {"open", "parting", "closing", "removed"}

(* An open room can be reached at the path its node in the list names. *)
OpenRoomsReachable ==
    \A r \in Rooms : phase[r] \in {"open", "parting"} => BoundTo(id[r]) = r

(* Whoever asks to join a room is told how it went, whatever the rooms do in *)
(* the meantime, unless the server dies.                                     *)
JoinsAnswered ==
    \A s \in Services : request[s] = "join" ~> (request[s] = "none" \/ killed)

(* A room that closes gets rid of its node and of its path. *)
ClosedRoomsEnd ==
    \A r \in Rooms : phase[r] = "closing" ~> (phase[r] = "ended" \/ killed)

=============================================================================
