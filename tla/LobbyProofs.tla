----------------------------- MODULE LobbyProofs -----------------------------
(***************************************************************************)
(* Proofs about Lobby, for any number of clients and of rooms: IDs descend  *)
(* along the list of rooms, the list holds the rooms that run, and a path   *)
(* leads to a living room of its ID.  The first two need each other: a room *)
(* finds its own node by its ID, and an ID is new because the head of the   *)
(* list has the greatest one.                                               *)
(***************************************************************************)
EXTENDS Lobby, FiniteSetTheorems, TLAPS

Phases == {"unborn", "starting", "listed", "open", "parting", "closing", "removed",
           "ended"}

Alive == {"listed", "open", "parting", "closing"}

Bound == {"open", "parting", "closing", "removed"}

ListType ==
    /\ room_list \in Seq(Rooms)
    /\ id \in [Rooms -> Nat]
    /\ phase \in [Rooms -> Phases]
    /\ \A i \in DOMAIN file : file[i] \in Rooms

LobbyInv == ListType /\ IdsDescend /\ ListedWhileAlive /\ PathsLeadToTheirRoom

-----------------------------------------------------------------------------
(* The list. *)

(* An ID finds at most one node. *)
LEMMA IdNamesOneNode ==
  ASSUME ListType, IdsDescend,
         NEW j \in DOMAIN room_list, NEW k \in DOMAIN room_list,
         id[room_list[j]] = id[room_list[k]]
  PROVE  j = k
  <1>1. j \in Nat /\ k \in Nat
    BY DEF ListType
  <1>2. id[room_list[j]] \in Nat /\ id[room_list[k]] \in Nat
    BY DEF ListType
  <1> QED  BY <1>1, <1>2 DEF IdsDescend

LEMMA PositionOf ==
  ASSUME ListType, IdsDescend, NEW k \in DOMAIN room_list
  PROVE  HasId(id[room_list[k]]) /\ Position(id[room_list[k]]) = k
  <1>1. \A j \in DOMAIN room_list : id[room_list[j]] = id[room_list[k]] => j = k
    BY IdNamesOneNode
  <1>2. \A j \in DOMAIN room_list : j < k => j # k
    BY DEF ListType
  <1> QED  BY <1>1, <1>2 DEF Position, HasId

(* The ID of a new room is greater than those in the list. *)
LEMMA NextIdIsGreatest ==
  ASSUME ListType, IdsDescend
  PROVE  /\ NextId \in Nat
         /\ \A k \in DOMAIN room_list : NextId > id[room_list[k]]
  <1>1. CASE room_list = << >>
    BY <1>1 DEF NextId
  <1>2. CASE room_list # << >>
    <2>1. 1 \in DOMAIN room_list /\ Head(room_list) = room_list[1]
      BY <1>2 DEF ListType
    <2>2. id[room_list[1]] \in Nat /\ NextId = id[room_list[1]] + 1
      BY <1>2, <2>1 DEF ListType, NextId
    <2>3. ASSUME NEW k \in DOMAIN room_list
          PROVE  NextId > id[room_list[k]]
      <3>1. id[room_list[k]] \in Nat /\ k \in Nat /\ (k = 1 \/ 1 < k)
        BY DEF ListType
      <3>2. k = 1 \/ id[room_list[1]] > id[room_list[k]]
        BY <2>1, <3>1 DEF IdsDescend
      <3> QED  BY <2>2, <3>1, <3>2
    <2> QED  BY <2>2, <2>3
  <1> QED  BY <1>1, <1>2

(* Taking out the node at k leaves the others, in their order. *)
LEMMA WithoutNode ==
  ASSUME ListType, NEW k \in DOMAIN room_list
  PROVE  /\ Without(k) \in Seq(Rooms)
         /\ Len(Without(k)) = Len(room_list) - 1
         /\ \A j \in 1 .. Len(room_list) - 1 :
               /\ j < k => Without(k)[j] = room_list[j]
               /\ ~(j < k) => Without(k)[j] = room_list[j + 1]
         /\ {Without(k)[j] : j \in DOMAIN Without(k)}
               = {room_list[j] : j \in DOMAIN room_list \ {k}}
  <1> DEFINE L == room_list
  <1> DEFINE W == Without(k)
  <1>1. Len(L) \in Nat /\ DOMAIN L = 1 .. Len(L) /\ k \in 1 .. Len(L)
    BY DEF ListType
  <1>2. \A j \in 1 .. Len(L) - 1 : L[j] \in Rooms /\ L[j + 1] \in Rooms
    BY <1>1 DEF ListType
  <1>3. /\ W \in Seq(Rooms) /\ Len(W) = Len(L) - 1
        /\ DOMAIN W = 1 .. Len(L) - 1
    BY <1>1, <1>2 DEF Without
  <1>4. \A j \in 1 .. Len(L) - 1 :
           /\ j < k => W[j] = L[j]
           /\ ~(j < k) => W[j] = L[j + 1]
    BY DEF Without
  <1>5. \A j \in DOMAIN W : \E m \in DOMAIN L \ {k} : W[j] = L[m]
    <2> SUFFICES ASSUME NEW j \in 1 .. Len(L) - 1
                 PROVE  \E m \in DOMAIN L \ {k} : W[j] = L[m]
      BY <1>3
    <2>1. CASE j < k
      <3>1. j \in DOMAIN L \ {k}
        BY <1>1, <2>1
      <3> QED  BY <1>4, <2>1, <3>1
    <2>2. CASE ~(j < k)
      <3>1. j + 1 \in DOMAIN L \ {k}
        BY <1>1, <2>2
      <3> QED  BY <1>4, <2>2, <3>1
    <2> QED  BY <2>1, <2>2
  <1>6. \A m \in DOMAIN L \ {k} : \E j \in DOMAIN W : W[j] = L[m]
    <2> SUFFICES ASSUME NEW m \in 1 .. Len(L), m # k
                 PROVE  \E j \in 1 .. Len(L) - 1 : W[j] = L[m]
      BY <1>1, <1>3
    <2>1. CASE m < k
      <3>1. m \in 1 .. Len(L) - 1
        BY <1>1, <2>1
      <3> QED  BY <1>4, <2>1, <3>1
    <2>2. CASE ~(m < k)
      <3>1. m - 1 \in 1 .. Len(L) - 1 /\ ~(m - 1 < k) /\ (m - 1) + 1 = m
        BY <1>1, <2>2
      <3> QED  BY <1>4, <3>1
    <2> QED  BY <2>1, <2>2
  <1> QED  BY <1>3, <1>4, <1>5, <1>6

-----------------------------------------------------------------------------
(* The steps. *)

LEMMA InitInv == Init => LobbyInv
  BY DEF Init, LobbyInv, ListType, Phases, IdsDescend, ListedWhileAlive, Listed,
         PathsLeadToTheirRoom

(* Most steps change neither the list, the IDs, the phases nor the paths. *)
LEMMA UntouchedInv ==
  ASSUME LobbyInv, UNCHANGED <<room_list, id, phase, file>>
  PROVE  LobbyInv'
  BY DEF LobbyInv, ListType, IdsDescend, ListedWhileAlive, Listed,
         PathsLeadToTheirRoom

LEMMA ServiceInv ==
  ASSUME LobbyInv, NEW s \in Services, ServiceStep(s) \/ CreateFails(s) \/ JoinRoom(s)
  PROVE  LobbyInv'
  <1>1. UNCHANGED <<room_list, id, phase, file>>
    BY DEF ServiceStep, CreateFails, JoinRoom, Rejected, LooksUp, ConnectFails,
           Connects, Writes, ReadsReset, Fails, roomVars, netVars
  <1> QED  BY <1>1, UntouchedInv

(* A change of phase that neither enters nor leaves the list. *)
LEMMA BecomeInv ==
  ASSUME LobbyInv, NEW r \in Rooms, NEW there \in Phases, Become(r, there),
         UNCHANGED <<room_list, id, file>>,
         phase[r] \in Alive <=> there \in Alive,
         phase[r] \in Bound => there \in Bound
  PROVE  LobbyInv'
  <1>1. /\ phase' \in [Rooms -> Phases]
        /\ \A q \in Rooms : phase'[q] = IF q = r THEN there ELSE phase[q]
    BY DEF LobbyInv, ListType, Become
  <1>2. ListType' /\ IdsDescend'
    BY <1>1 DEF LobbyInv, ListType, IdsDescend
  <1>3. ListedWhileAlive'
    BY <1>1 DEF LobbyInv, ListedWhileAlive, Listed, Alive
  <1>4. PathsLeadToTheirRoom'
    BY <1>1 DEF LobbyInv, ListType, PathsLeadToTheirRoom, Bound
  <1> QED  BY <1>2, <1>3, <1>4 DEF LobbyInv

LEMMA CreateRoomInv ==
  ASSUME LobbyInv, NEW s \in Services, CreateRoom(s)
  PROVE  LobbyInv'
  <1>1. PICK r \in Rooms : phase[r] = "unborn" /\ Become(r, "starting")
    BY DEF CreateRoom, Become
  <1>2. UNCHANGED <<room_list, id, file>>
    BY DEF CreateRoom, netVars
  <1> QED  BY <1>1, <1>2, BecomeInv DEF Phases, Alive, Bound

LEMMA AddsItselfInv ==
  ASSUME LobbyInv, NEW r \in Rooms, AddsItself(r)
  PROVE  LobbyInv'
  <1> DEFINE L == room_list
  <1>1. /\ ListType /\ IdsDescend /\ ListedWhileAlive /\ PathsLeadToTheirRoom
        /\ phase[r] = "starting" /\ file' = file
    BY DEF LobbyInv, AddsItself, netVars
  <1>2. /\ phase' \in [Rooms -> Phases]
        /\ \A q \in Rooms : phase'[q] = IF q = r THEN "listed" ELSE phase[q]
    BY <1>1 DEF AddsItself, Become, ListType, Phases
  <1>3. NextId \in Nat /\ \A k \in DOMAIN L : NextId > id[L[k]]
    BY <1>1, NextIdIsGreatest
  <1>4. /\ id' \in [Rooms -> Nat]
        /\ \A q \in Rooms : id'[q] = IF q = r THEN NextId ELSE id[q]
    BY <1>1, <1>3 DEF AddsItself, ListType
  <1>5. r \notin Listed
    BY <1>1 DEF ListedWhileAlive
  <1>6. /\ Len(L) \in Nat /\ DOMAIN L = 1 .. Len(L)
        /\ \A k \in DOMAIN L : L[k] \in Rooms /\ L[k] # r
    BY <1>1, <1>5 DEF ListType, Listed
  <1>7. /\ L' \in Seq(Rooms) /\ DOMAIN L' = 1 .. Len(L) + 1
        /\ L'[1] = r /\ \A k \in 2 .. Len(L) + 1 : L'[k] = L[k - 1]
    BY <1>1, <1>6 DEF AddsItself, ListType
  <1>8. ListType'
    BY <1>1, <1>2, <1>4, <1>7 DEF ListType
  <1>9. IdsDescend'
    <2> SUFFICES ASSUME NEW j \in 1 .. Len(L) + 1, NEW k \in 1 .. Len(L) + 1, j < k
                 PROVE  id'[L'[j]] > id'[L'[k]]
      BY <1>7 DEF IdsDescend
    <2>1. k - 1 \in DOMAIN L /\ L'[k] = L[k - 1] /\ id'[L'[k]] = id[L[k - 1]]
      BY <1>4, <1>6, <1>7
    <2>2. CASE j = 1
      BY <1>3, <1>4, <1>7, <2>1, <2>2
    <2>3. CASE j # 1
      <3>1. /\ j - 1 \in DOMAIN L /\ j - 1 < k - 1
            /\ L'[j] = L[j - 1] /\ id'[L'[j]] = id[L[j - 1]]
        BY <1>4, <1>6, <1>7, <2>3
      <3> QED  BY <1>1, <2>1, <3>1 DEF IdsDescend
    <2> QED  BY <2>2, <2>3
  <1>10. ListedWhileAlive'
    <2>1. Listed' = Listed \cup {r}
      <3>1. \A k \in DOMAIN L' : L'[k] = r \/ \E m \in DOMAIN L : L'[k] = L[m]
        <4> SUFFICES ASSUME NEW k \in 1 .. Len(L) + 1
                     PROVE  L'[k] = r \/ \E m \in DOMAIN L : L'[k] = L[m]
          BY <1>7
        <4>1. k = 1 \/ (k \in 2 .. Len(L) + 1 /\ k - 1 \in DOMAIN L)
          BY <1>6
        <4> QED  BY <1>7, <4>1
      <3>2. \A m \in DOMAIN L : \E k \in DOMAIN L' : L'[k] = L[m]
        <4> SUFFICES ASSUME NEW m \in DOMAIN L
                     PROVE  \E k \in DOMAIN L' : L'[k] = L[m]
          OBVIOUS
        <4>1. m + 1 \in 2 .. Len(L) + 1 /\ m + 1 \in DOMAIN L' /\ (m + 1) - 1 = m
          BY <1>6, <1>7
        <4> QED  BY <1>7, <4>1
      <3>3. 1 \in DOMAIN L'
        BY <1>6, <1>7
      <3>4. /\ Listed = {L[m] : m \in DOMAIN L}
            /\ Listed' = {L'[k] : k \in DOMAIN L'}
        BY DEF Listed
      <3> HIDE DEF L
      <3> QED  BY <1>7, <3>1, <3>2, <3>3, <3>4
    <2> QED  BY <1>1, <1>2, <2>1 DEF ListedWhileAlive
  <1>11. PathsLeadToTheirRoom'
    <2> SUFFICES ASSUME NEW i \in DOMAIN file
                 PROVE  id'[file[i]] = i /\ phase'[file[i]] \in Bound
      BY <1>1 DEF PathsLeadToTheirRoom, Bound
    <2>1. file[i] \in Rooms /\ id[file[i]] = i /\ phase[file[i]] \in Bound
      BY <1>1 DEF ListType, PathsLeadToTheirRoom, Bound
    <2>2. file[i] # r
      BY <1>1, <2>1 DEF Bound
    <2> QED  BY <1>2, <1>4, <2>1, <2>2
  <1> QED  BY <1>8, <1>9, <1>10, <1>11 DEF LobbyInv

LEMMA OpensInv ==
  ASSUME LobbyInv, NEW r \in Rooms, Opens(r)
  PROVE  LobbyInv'
  <1>1. /\ ListType /\ IdsDescend /\ ListedWhileAlive /\ PathsLeadToTheirRoom
        /\ phase[r] = "listed" /\ UNCHANGED <<room_list, id>>
    BY DEF LobbyInv, Opens
  <1>2. /\ phase' \in [Rooms -> Phases]
        /\ \A q \in Rooms : phase'[q] = IF q = r THEN "open" ELSE phase[q]
    BY <1>1 DEF Opens, Become, ListType, Phases
  <1>3. /\ DOMAIN file' = DOMAIN file \cup {id[r]}
        /\ \A i \in DOMAIN file' : file'[i] = IF i = id[r] THEN r ELSE file[i]
    BY DEF Opens, Bind
  <1>4. ListType' /\ IdsDescend'
    BY <1>1, <1>2, <1>3 DEF ListType, IdsDescend
  <1>5. ListedWhileAlive'
    BY <1>1, <1>2 DEF ListedWhileAlive, Listed
  <1>6. PathsLeadToTheirRoom'
    BY <1>1, <1>2, <1>3 DEF PathsLeadToTheirRoom, ListType
  <1> QED  BY <1>4, <1>5, <1>6 DEF LobbyInv

(* The players come and go. *)
PlayersMove(r) ==
    Admits(r) \/ Refuses(r) \/ LosesPlayer(r) \/ Discounts(r) \/ Breaks(r) \/ HandsBack(r)

LEMMA PlayersMoveWhere ==
  ASSUME NEW r \in Rooms, PlayersMove(r)
  PROVE  /\ UNCHANGED <<room_list, id, file>>
         /\ \/ UNCHANGED phase
            \/ /\ phase[r] \in {"open", "parting"}
               /\ \E there \in {"open", "parting", "closing"} : Become(r, there)
  <1>1. CASE Admits(r) \/ Refuses(r)
    BY <1>1 DEF Admits, Refuses, roomVars
  <1>2. CASE LosesPlayer(r)
    BY <1>2 DEF LosesPlayer, netVars
  <1>3. CASE Discounts(r)
    BY <1>3 DEF Discounts, netVars
  <1>4. CASE Breaks(r)
    BY <1>4 DEF Breaks, netVars
  <1>5. CASE HandsBack(r)
    BY <1>5 DEF HandsBack, roomVars, netVars
  <1> QED  BY <1>1, <1>2, <1>3, <1>4, <1>5 DEF PlayersMove

LEMMA PlayersInv ==
  ASSUME LobbyInv, NEW r \in Rooms, PlayersMove(r)
  PROVE  LobbyInv'
  <1>1. UNCHANGED <<room_list, id, file>>
    BY PlayersMoveWhere
  <1>2. CASE UNCHANGED phase
    BY <1>1, <1>2, UntouchedInv
  <1>3. CASE ~UNCHANGED phase
    <2>1. phase[r] \in {"open", "parting"}
      BY <1>3, PlayersMoveWhere
    <2>2. PICK there \in {"open", "parting", "closing"} : Become(r, there)
      BY <1>3, PlayersMoveWhere
    <2> QED  BY <1>1, <2>1, <2>2, BecomeInv DEF Phases, Alive, Bound
  <1> QED  BY <1>2, <1>3

LEMMA RemovesItselfInv ==
  ASSUME LobbyInv, NEW r \in Rooms, RemovesItself(r)
  PROVE  LobbyInv'
  <1> DEFINE L == room_list
  <1>1. /\ ListType /\ IdsDescend /\ ListedWhileAlive /\ PathsLeadToTheirRoom
        /\ phase[r] = "closing" /\ UNCHANGED <<id, file>>
    BY DEF LobbyInv, RemovesItself, netVars
  <1>2. /\ phase' \in [Rooms -> Phases]
        /\ \A q \in Rooms : phase'[q] = IF q = r THEN "removed" ELSE phase[q]
    BY <1>1 DEF RemovesItself, Become, ListType, Phases
  <1>3. PICK k \in DOMAIN L : L[k] = r
    BY <1>1 DEF ListedWhileAlive, Listed
  <1>4. L' = Without(k)
    BY <1>1, <1>3, PositionOf DEF RemovesItself
  <1>5. /\ L' \in Seq(Rooms) /\ Len(L') = Len(L) - 1
        /\ \A j \in 1 .. Len(L) - 1 :
              /\ j < k => L'[j] = L[j]
              /\ ~(j < k) => L'[j] = L[j + 1]
        /\ {L'[j] : j \in DOMAIN L'} = {L[j] : j \in DOMAIN L \ {k}}
    BY <1>1, <1>3, <1>4, WithoutNode
  <1>6. ListType'
    BY <1>1, <1>2, <1>5 DEF ListType
  <1>7. IdsDescend'
    <2>1. Len(L) \in Nat /\ DOMAIN L = 1 .. Len(L) /\ DOMAIN L' = 1 .. Len(L) - 1
      BY <1>1, <1>5 DEF ListType
    <2> SUFFICES ASSUME NEW j \in 1 .. Len(L) - 1, NEW m \in 1 .. Len(L) - 1, j < m
                 PROVE  id[L'[j]] > id[L'[m]]
      BY <1>1, <2>1 DEF IdsDescend
    <2>2. PICK a \in DOMAIN L : L'[j] = L[a] /\ a = IF j < k THEN j ELSE j + 1
      BY <1>5, <2>1
    <2>3. PICK b \in DOMAIN L : L'[m] = L[b] /\ b = IF m < k THEN m ELSE m + 1
      BY <1>5, <2>1
    <2>4. a < b
      BY <2>1, <2>2, <2>3
    <2> QED  BY <1>1, <2>2, <2>3, <2>4 DEF IdsDescend
  <1>8. ListedWhileAlive'
    <2>1. \A j \in DOMAIN L : L[j] = r => j = k
      BY <1>1, <1>3, IdNamesOneNode
    <2>2. Listed' = Listed \ {r}
      BY <1>3, <1>5, <2>1 DEF Listed
    <2> QED  BY <1>1, <1>2, <2>2 DEF ListedWhileAlive
  <1>9. PathsLeadToTheirRoom'
    BY <1>1, <1>2 DEF PathsLeadToTheirRoom, ListType
  <1> QED  BY <1>6, <1>7, <1>8, <1>9 DEF LobbyInv

LEMMA EndsInv ==
  ASSUME LobbyInv, NEW r \in Rooms, Ends(r)
  PROVE  LobbyInv'
  <1>1. /\ ListType /\ IdsDescend /\ ListedWhileAlive /\ PathsLeadToTheirRoom
        /\ phase[r] = "removed" /\ UNCHANGED <<room_list, id>>
    BY DEF LobbyInv, Ends
  <1>2. /\ phase' \in [Rooms -> Phases]
        /\ \A q \in Rooms : phase'[q] = IF q = r THEN "ended" ELSE phase[q]
    BY <1>1 DEF Ends, Become, ListType, Phases
  <1>3. /\ DOMAIN file' = DOMAIN file \ {id[r]}
        /\ \A i \in DOMAIN file' : file'[i] = file[i]
    BY DEF Ends, Unlink
  <1>4. ListType' /\ IdsDescend'
    BY <1>1, <1>2, <1>3 DEF ListType, IdsDescend
  <1>5. ListedWhileAlive'
    BY <1>1, <1>2 DEF ListedWhileAlive, Listed
  <1>6. PathsLeadToTheirRoom'
    BY <1>1, <1>2, <1>3 DEF PathsLeadToTheirRoom, ListType
  <1> QED  BY <1>4, <1>5, <1>6 DEF LobbyInv

-----------------------------------------------------------------------------
(* The list and the paths keep the invariant whatever clients and rooms do. *)

THEOREM LobbyInvariant == Spec => []LobbyInv
  <1>1. ASSUME LobbyInv, [Next]_vars
        PROVE  LobbyInv'
    <2>1. ASSUME NEW s \in Services, Asks(s) \/ ServiceStep(s)
          PROVE  LobbyInv'
      BY <1>1, <2>1, CreateRoomInv, ServiceInv DEF Asks
    <2>2. ASSUME NEW r \in Rooms, RoomStep(r) \/ LosesPlayer(r) \/ Breaks(r)
          PROVE  LobbyInv'
      BY <1>1, <2>2, AddsItselfInv, OpensInv, PlayersInv, RemovesItselfInv, EndsInv
         DEF RoomStep, PlayersMove
    <2>3. CASE Rests \/ UNCHANGED vars
      <3>1. UNCHANGED <<room_list, id, phase, file>>
        BY <2>3 DEF Rests, vars, roomVars, netVars
      <3> QED  BY <1>1, <3>1, UntouchedInv
    <2> QED  BY <1>1, <2>1, <2>2, <2>3 DEF Next
  <1> QED  BY <1>1, InitInv, PTL DEF Spec

(* The IDs in the list descend, hence are unique (createNewRoomNode takes    *)
(* the head's plus one, whichever rooms have gone in between).               *)
THEOREM IdsAreUnique == Spec => []IdsDescend
  <1>1. LobbyInv => IdsDescend
    BY DEF LobbyInv
  <1> QED  BY <1>1, LobbyInvariant, PTL

(* A room is in the list from its creation to its closing: the removal by ID *)
(* takes out the room that asks for it and no other.                         *)
THEOREM ListHoldsTheLiving == Spec => []ListedWhileAlive
  <1>1. LobbyInv => ListedWhileAlive
    BY DEF LobbyInv
  <1> QED  BY <1>1, LobbyInvariant, PTL

(* A path that can be connected to leads to a room of its ID that has not    *)
(* ended, although paths are bound and unlinked by rooms that share an ID.   *)
THEOREM PathsLeadHome == Spec => []PathsLeadToTheirRoom
  <1>1. LobbyInv => PathsLeadToTheirRoom
    BY DEF LobbyInv
  <1> QED  BY <1>1, LobbyInvariant, PTL

-----------------------------------------------------------------------------
(* The players of a room. *)

Places == {"home", "creating", "joining", "connecting", "connected", "waiting", "inroom",
           "gone"}

ServiceType ==
    /\ player_num \in [Rooms -> Nat] /\ DOMAIN file \subseteq Nat
    /\ queue \in [Rooms -> Seq(Services)]
    /\ svc \in [Services -> Places]
    /\ request \in [Services -> {"none", "create", "join"}]
    /\ want \in [Services -> Nat]
    /\ node \in [Services -> Rooms \cup {NULL}]
    /\ link \in [Services -> Rooms \cup {NULL}]
    /\ killed \in BOOLEAN

Early == {"unborn", "starting", "listed"}

(* player_num counts a finite set of players, and starts from nothing. *)
Counting ==
    /\ \A s \in Services : svc[s] = "inroom" => node[s] \in Rooms
    /\ \A r \in Rooms : /\ IsFiniteSet(Inside(r))
                        /\ phase[r] \in Early => player_num[r] = 0

ServedInv == ServiceType /\ PlayersAreServed /\ Counting

LEMMA TypeParts == ListType /\ ServiceType => LobbyTypeOK
  BY DEF ListType, ServiceType, LobbyTypeOK, Phases, Places

(* Nobody comes into a room or leaves it. *)
SameCompany ==
    \A s \in Services :
        /\ svc'[s] = "inroom" <=> svc[s] = "inroom"
        /\ svc[s] = "inroom" => node'[s] = node[s]

LEMMA SameInside == SameCompany => \A r : Inside(r)' = Inside(r)
  BY DEF SameCompany, Inside

LEMMA OutsideStep ==
  ASSUME NEW s \in Services, svc \in [Services -> Places], svc[s] # "inroom",
         NEW there, there # "inroom", Goto(s, there),
         \A q \in Services \ {s} : node'[q] = node[q]
  PROVE  SameCompany
  BY DEF Goto, SameCompany

(* What a room that gains and loses nobody may do meanwhile: a room with     *)
(* players stays as it is.                                                   *)
Serving == {"open", "parting", "closing"}

RoomsQuiet ==
    \A r \in Rooms :
        \/ phase'[r] = phase[r]
        \/ /\ phase[r] \notin Serving \/ Inside(r) = {}
           /\ phase'[r] \notin {"open", "parting"}
           /\ phase'[r] \in Early => phase[r] \in Early

LEMMA ServedSame ==
  ASSUME ServedInv, ServiceType', SameCompany, UNCHANGED player_num, RoomsQuiet
  PROVE  ServedInv'
  <1>1. \A r : Inside(r)' = Inside(r)
    BY SameInside
  <1>2. ASSUME NEW s \in Services, svc'[s] = "inroom"
        PROVE  node'[s] \in Rooms /\ phase'[node'[s]] \in Serving
    <2>1. /\ svc[s] = "inroom" /\ node'[s] = node[s] /\ node[s] \in Rooms
          /\ phase[node[s]] \in Serving
      BY <1>2 DEF SameCompany, ServedInv, PlayersAreServed, Counting, Serving
    <2>2. s \in Inside(node[s])
      BY <2>1 DEF Inside
    <2> QED  BY <2>1, <2>2 DEF RoomsQuiet
  <1>3. PlayersAreServed'
    BY <1>1, <1>2 DEF ServedInv, PlayersAreServed, RoomsQuiet, Serving
  <1>4. Counting'
    BY <1>1, <1>2 DEF ServedInv, Counting, RoomsQuiet
  <1> QED  BY <1>3, <1>4 DEF ServedInv

LEMMA ListStill == UNCHANGED phase => RoomsQuiet
  BY DEF RoomsQuiet

LEMMA ServedInit == Init => ServedInv
  <1> SUFFICES ASSUME Init PROVE ServedInv
    OBVIOUS
  <1>1. DOMAIN file = {} /\ << >> \in Seq(Services)
    BY DEF Init
  <1>2. ServiceType
    BY <1>1 DEF Init, ServiceType, Places
  <1>3. \A r \in Rooms : Inside(r) = {}
    BY DEF Init, Inside
  <1>4. PlayersAreServed /\ Counting
    BY <1>3, FS_EmptySet DEF Init, PlayersAreServed, Counting
  <1> QED  BY <1>2, <1>4 DEF ServedInv

-----------------------------------------------------------------------------
(* The steps of a service thread leave every room its players. *)

LEMMA AsksServed ==
  ASSUME ListType, ServedInv, NEW s \in Services, Asks(s)
  PROVE  ServedInv'
  <1>1. /\ ServiceType /\ svc \in [Services -> Places] /\ svc[s] = "home"
        /\ UNCHANGED <<player_num, file, queue, link, killed>>
        /\ request' \in [Services -> {"none", "create", "join"}]
    BY DEF ServedInv, ServiceType, Asks, CreateRoom, CreateFails, JoinRoom, roomVars, netVars
  <1>2. CASE CreateRoom(s)
    <2>1. PICK r \in Rooms : /\ phase[r] = "unborn"
                             /\ phase' = [phase EXCEPT ![r] = "starting"]
                             /\ node' = [node EXCEPT ![s] = r]
      BY <1>2 DEF CreateRoom
    <2>2. Goto(s, "creating") /\ want' = want
      BY <1>2 DEF CreateRoom
    <2>3. ServiceType'
      BY <1>1, <2>1, <2>2 DEF ServiceType, Goto, Places
    <2>4. \A q \in Services \ {s} : node'[q] = node[q]
      BY <1>1, <2>1 DEF ServiceType
    <2>5. SameCompany
      BY <1>1, <2>2, <2>4, OutsideStep
    <2>6. \A q \in Rooms : phase'[q] = IF q = r THEN "starting" ELSE phase[q]
      BY <2>1 DEF ListType
    <2>7. RoomsQuiet
      BY <2>1, <2>6 DEF Early, Serving, RoomsQuiet
    <2> QED  BY <1>1, <2>3, <2>5, <2>7, ServedSame
  <1>3. CASE CreateFails(s) \/ JoinRoom(s)
    <2>1. Goto(s, "joining") /\ UNCHANGED <<phase, node>>
      BY <1>3 DEF CreateFails, JoinRoom, roomVars
    <2>2. want' \in [Services -> Nat]
      <3>1. \E i \in Nat : want' = [want EXCEPT ![s] = i]
        BY <1>3, LobbyAssumption DEF CreateFails, JoinRoom
      <3> QED  BY <1>1, <3>1 DEF ServiceType
    <2>3. ServiceType'
      BY <1>1, <2>1, <2>2 DEF ServiceType, Goto, Places
    <2>4. SameCompany
      BY <1>1, <2>1, OutsideStep
    <2> QED  BY <1>1, <2>1, <2>3, <2>4, ListStill, ServedSame
  <1> QED  BY <1>2, <1>3 DEF Asks

LEMMA GetRoomType ==
  ASSUME ListType, IdsDescend, NEW i
  PROVE  getRoom(i) \in Rooms \cup {NULL}
  <1>1. CASE HasId(i)
    <2>1. PICK k \in DOMAIN room_list : id[room_list[k]] = i
      BY <1>1 DEF HasId
    <2>2. Position(i) = k
      BY <2>1, PositionOf
    <2> QED  BY <1>1, <2>1, <2>2 DEF getRoom, ListType
  <1>2. CASE ~HasId(i)
    BY <1>2 DEF getRoom
  <1> QED  BY <1>1, <1>2

LEMMA ServiceServed ==
  ASSUME LobbyInv, ServedInv, NEW s \in Services, ServiceStep(s)
  PROVE  ServedInv'
  <1>1. /\ ListType /\ IdsDescend /\ ServiceType /\ svc \in [Services -> Places]
        /\ svc[s] \in {"joining", "connecting", "connected", "waiting"}
        /\ UNCHANGED <<roomVars, file>>
    BY DEF LobbyInv, ServedInv, ServiceType, ServiceStep, Rejected, LooksUp, ConnectFails, Connects,
           Writes, ReadsReset, Fails, netVars
  <1>2. CASE Rejected(s) \/ ConnectFails(s) \/ ReadsReset(s)
    <2>1. Fails(s)
      BY <1>2 DEF Rejected, ConnectFails, ReadsReset
    <2>2. Goto(s, "home") /\ UNCHANGED <<queue, want, killed>>
      BY <2>1 DEF Fails, Declined, netVars
    <2>3. /\ node' = [node EXCEPT ![s] = NULL] /\ link' = [link EXCEPT ![s] = NULL]
          /\ request' \in [Services -> {"none", "create", "join"}]
      BY <1>1, <2>1 DEF Fails, Declined, ServiceType
    <2>4. ServiceType' /\ \A q \in Services \ {s} : node'[q] = node[q]
      BY <1>1, <2>2, <2>3 DEF ServiceType, Goto, Places, roomVars
    <2>5. SameCompany
      BY <1>1, <2>2, <2>4, OutsideStep
    <2> QED  BY <1>1, <2>4, <2>5, ListStill, ServedSame DEF roomVars
  <1>3. CASE LooksUp(s)
    <2>1. /\ Goto(s, "connecting") /\ UNCHANGED <<queue, request, want, link, killed>>
          /\ node' = [node EXCEPT ![s] = getRoom(want[s])]
      BY <1>3 DEF LooksUp, netVars
    <2>2. getRoom(want[s]) \in Rooms \cup {NULL}
      BY <1>1, GetRoomType
    <2>3. ServiceType' /\ \A q \in Services \ {s} : node'[q] = node[q]
      BY <1>1, <2>1, <2>2 DEF ServiceType, Goto, Places, roomVars
    <2>4. SameCompany
      BY <1>1, <2>1, <2>3, OutsideStep
    <2> QED  BY <1>1, <2>3, <2>4, ListStill, ServedSame DEF roomVars
  <1>4. CASE Connects(s)
    <2> DEFINE r == BoundTo(want[s])
    <2>1. /\ Goto(s, "connected") /\ UNCHANGED <<request, want, node, killed>>
          /\ r # NULL /\ queue' = [queue EXCEPT ![r] = Append(@, s)]
          /\ link' = [link EXCEPT ![s] = r]
      BY <1>4 DEF Connects
    <2>2. r \in Rooms
      BY <1>1, <2>1 DEF BoundTo, ListType
    <2>3. queue' \in [Rooms -> Seq(Services)] /\ link' \in [Services -> Rooms \cup {NULL}]
      BY <1>1, <2>1, <2>2 DEF ServiceType
    <2>4. ServiceType'
      BY <1>1, <2>1, <2>3 DEF ServiceType, Goto, Places, roomVars
    <2>5. SameCompany
      BY <1>1, <2>1, OutsideStep
    <2> QED  BY <1>1, <2>4, <2>5, ListStill, ServedSame DEF roomVars
  <1>5. CASE Writes(s)
    <2>1. /\ UNCHANGED <<queue, request, want, node, link>> /\ killed' \in BOOLEAN
          /\ svc' = svc \/ Goto(s, "waiting")
      BY <1>1, <1>5 DEF Writes, netVars, ServiceType
    <2>2. ServiceType'
      BY <1>1, <2>1 DEF ServiceType, Goto, Places, roomVars
    <2>3. SameCompany
      <3>1. CASE svc' = svc
        BY <2>1, <3>1 DEF SameCompany
      <3>2. CASE Goto(s, "waiting")
        BY <1>1, <2>1, <3>2, OutsideStep
      <3> QED  BY <2>1, <3>1, <3>2
    <2> QED  BY <1>1, <2>2, <2>3, ListStill, ServedSame DEF roomVars
  <1> QED  BY <1>2, <1>3, <1>4, <1>5 DEF ServiceStep

-----------------------------------------------------------------------------
(* The steps of a room. *)

(* The list, the sockets and the exchange with the creator. *)
LEMMA OpeningServed ==
  ASSUME LobbyInv, ServedInv, NEW r \in Rooms, Opens(r)
  PROVE  ServedInv'
  <1>1. /\ ListType /\ ServiceType /\ svc \in [Services -> Places]
        /\ phase[r] = "listed" /\ UNCHANGED <<player_num, queue, request, link, killed>>
        /\ Bind(id[r], r) /\ id[r] \in Nat
    BY DEF LobbyInv, ServedInv, ServiceType, ListType, Opens
  <1>2. PICK s \in Services : /\ svc[s] = "creating" /\ Goto(s, "joining")
                              /\ want' = [want EXCEPT ![s] = id[r]]
                              /\ node' = [node EXCEPT ![s] = NULL]
    BY DEF Opens
  <1>3. ServiceType'
    <2>1. DOMAIN file' = DOMAIN file \cup {id[r]}
      BY <1>1 DEF Bind
    <2> QED  BY <1>1, <1>2, <2>1 DEF ServiceType, Goto, Places
  <1>4. SameCompany
    BY <1>1, <1>2, OutsideStep DEF ServiceType
  <1>5. \A q : Inside(q)' = Inside(q)
    BY <1>4, SameInside
  <1>6. \A q \in Rooms : phase'[q] = IF q = r THEN "open" ELSE phase[q]
    BY <1>1 DEF Opens, Become, ListType
  <1>7. Inside(r) = {} /\ player_num[r] = 0
    BY <1>1 DEF ServedInv, PlayersAreServed, Counting, Early, Inside
  <1>8. PlayersAreServed'
    <2>1. ASSUME NEW t \in Services, svc'[t] = "inroom"
          PROVE  phase'[node'[t]] \in {"open", "parting", "closing"}
      BY <1>4, <1>6, <2>1 DEF SameCompany, ServedInv, PlayersAreServed, Counting
    <2>2. ASSUME NEW q \in Rooms
          PROVE  /\ phase'[q] = "open" => player_num'[q] = Cardinality(Inside(q)')
                 /\ phase'[q] = "parting" => player_num'[q] = Cardinality(Inside(q)') + 1
      BY <1>1, <1>5, <1>6, <1>7, FS_EmptySet DEF ServedInv, PlayersAreServed
    <2> QED  BY <2>1, <2>2 DEF PlayersAreServed
  <1>9. Counting'
    BY <1>1, <1>4, <1>5, <1>6 DEF ServedInv, Counting, SameCompany, Early
  <1> QED  BY <1>3, <1>8, <1>9 DEF ServedInv

LEMMA ListingServed ==
  ASSUME LobbyInv, ServedInv, NEW r \in Rooms,
         AddsItself(r) \/ RemovesItself(r) \/ Ends(r)
  PROVE  ServedInv'
  <1>1. ServiceType /\ ListType /\ UNCHANGED <<player_num, svcVars, killed>>
    BY DEF LobbyInv, ServedInv, AddsItself, RemovesItself, Ends
  <1>2. ServiceType'
    <2>1. DOMAIN file' \subseteq DOMAIN file
      BY DEF AddsItself, RemovesItself, Ends, Unlink, netVars
    <2>2. queue' \in [Rooms -> Seq(Services)]
      <3>1. << >> \in Seq(Services)
        OBVIOUS
      <3> QED  BY <1>1, <3>1 DEF ServiceType, AddsItself, RemovesItself, Ends, netVars
    <2> QED  BY <1>1, <2>1, <2>2 DEF ServiceType, svcVars
  <1>3. SameCompany
    BY <1>1 DEF SameCompany, svcVars
  <1>4. RoomsQuiet
    BY <1>1 DEF AddsItself, RemovesItself, Ends, Become, ListType, Early, Serving, RoomsQuiet
  <1> QED  BY <1>1, <1>2, <1>3, <1>4, ServedSame

(* A player more. *)
LEMMA AdmitsServed ==
  ASSUME LobbyInv, ServedInv, NEW r \in Rooms, Admits(r)
  PROVE  ServedInv'
  <1>1. ServiceType /\ ListType /\ PlayersAreServed /\ Counting
    BY DEF LobbyInv, ServedInv
  <1>2. PICK s \in Services :
        /\ phase[r] = "open" /\ queue[r] # << >> /\ svc[s] = "waiting"
        /\ queue' = [queue EXCEPT ![r] = Tail(@)]
        /\ player_num' = [player_num EXCEPT ![r] = @ + 1]
        /\ svc' = [svc EXCEPT ![s] = "inroom"]
        /\ request' = [request EXCEPT ![s] = "none"]
        /\ node' = [node EXCEPT ![s] = r] /\ link' = [link EXCEPT ![s] = NULL]
        /\ UNCHANGED <<phase, file, want, killed>>
    BY DEF Admits, Accepts, Goto
  <1>3. queue[r] \in Seq(Services) /\ Tail(queue[r]) \in Seq(Services)
    BY <1>1, <1>2 DEF ServiceType
  <1>4. queue' \in [Rooms -> Seq(Services)] /\ player_num' \in [Rooms -> Nat]
    BY <1>1, <1>2, <1>3 DEF ServiceType
  <1>5. ServiceType'
    BY <1>1, <1>2, <1>3, <1>4 DEF ServiceType, Places
  <1>6. \A q \in Rooms : Inside(q)' = IF q = r THEN Inside(r) \cup {s} ELSE Inside(q)
    BY <1>1, <1>2, <1>3 DEF ServiceType, Inside
  <1>7. IsFiniteSet(Inside(r)) /\ s \notin Inside(r)
    BY <1>1, <1>2 DEF Counting, Inside
  <1>8. /\ IsFiniteSet(Inside(r) \cup {s})
        /\ Cardinality(Inside(r) \cup {s}) = Cardinality(Inside(r)) + 1
    BY <1>7, FS_AddElement
  <1>9. PlayersAreServed'
    <2>1. ASSUME NEW t \in Services, svc'[t] = "inroom"
          PROVE  phase'[node'[t]] \in {"open", "parting", "closing"}
      BY <1>1, <1>2, <1>3, <2>1 DEF ServiceType, PlayersAreServed
    <2>2. ASSUME NEW q \in Rooms
          PROVE  /\ phase'[q] = "open" => player_num'[q] = Cardinality(Inside(q)')
                 /\ phase'[q] = "parting" => player_num'[q] = Cardinality(Inside(q)') + 1
      BY <1>1, <1>2, <1>6, <1>8 DEF ServiceType, PlayersAreServed
    <2> QED  BY <2>1, <2>2 DEF PlayersAreServed
  <1>10. Counting'
    <2>1. \A t \in Services : svc'[t] = "inroom" => node'[t] \in Rooms
      BY <1>1, <1>2, <1>3 DEF ServiceType, Counting
    <2>2. \A q \in Rooms : IsFiniteSet(Inside(q)')
      BY <1>1, <1>6, <1>8 DEF Counting
    <2>3. \A q \in Rooms : phase'[q] \in Early => player_num'[q] = 0
      BY <1>1, <1>2 DEF ServiceType, Counting, Early
    <2> QED  BY <2>1, <2>2, <2>3 DEF Counting
  <1> QED  BY <1>5, <1>9, <1>10 DEF ServedInv

(* Somebody whose name is in the room already. *)
LEMMA RefusesServed ==
  ASSUME LobbyInv, ServedInv, NEW r \in Rooms, Refuses(r)
  PROVE  ServedInv'
  <1>1. ServiceType /\ svc \in [Services -> Places] /\ UNCHANGED <<roomVars, file, want, killed>>
    BY DEF LobbyInv, ServedInv, ServiceType, Refuses
  <1>2. PICK s \in Services : Accepts(r, s) /\ Declined(s)
    BY DEF Refuses
  <1>3. queue[r] \in Seq(Services) /\ queue[r] # << >> /\ Tail(queue[r]) \in Seq(Services)
    BY <1>1, <1>2 DEF ServiceType, Accepts
  <1>4. queue' \in [Rooms -> Seq(Services)]
    BY <1>1, <1>2, <1>3 DEF ServiceType, Accepts
  <1>5. ServiceType' /\ \A q \in Services \ {s} : node'[q] = node[q]
    BY <1>1, <1>2, <1>4 DEF ServiceType, Declined, Goto, Places, roomVars
  <1>6. SameCompany
    BY <1>1, <1>2, <1>5, OutsideStep DEF Accepts, Declined
  <1> QED  BY <1>1, <1>5, <1>6, ListStill, ServedSame DEF roomVars

(* One player of r is given another thread, or loses its connection. *)
LEMMA RebuildsType ==
  ASSUME ServiceType, Counting, NEW r, NEW s \in Inside(r), Rebuilds(s),
         UNCHANGED <<file, queue, killed, player_num>>
  PROVE  /\ ServiceType'
         /\ Inside(r)' = Inside(r) \ {s}
         /\ \A q : q # r => Inside(q)' = Inside(q)
         /\ \A t \in Services : svc'[t] = "inroom" =>
               t # s /\ svc[t] = "inroom" /\ node'[t] = node[t]
  BY DEF ServiceType, Rebuilds, Inside, Places, Goto

LEMMA OneLess ==
  ASSUME Counting, NEW r \in Rooms, NEW s \in Inside(r)
  PROVE  /\ IsFiniteSet(Inside(r) \ {s})
         /\ Cardinality(Inside(r)) \in Nat
         /\ Cardinality(Inside(r) \ {s}) = Cardinality(Inside(r)) - 1
  <1>1. IsFiniteSet(Inside(r))
    BY DEF Counting
  <1> QED  BY <1>1, FS_RemoveElement, FS_CardinalityType

(* A player has another thread, and is not discounted yet. *)
LEMMA LosesServed ==
  ASSUME LobbyInv, ServedInv, NEW r \in Rooms, LosesPlayer(r) \/ HandsBack(r)
  PROVE  ServedInv'
  <1>1. ServiceType /\ ListType /\ PlayersAreServed /\ Counting
    BY DEF LobbyInv, ServedInv
  <1>2. PICK s \in Inside(r) : Rebuilds(s)
    BY DEF LosesPlayer, HandsBack
  <1>3. UNCHANGED <<player_num, file, queue, killed>>
    BY DEF LosesPlayer, HandsBack, netVars, roomVars
  <1>4. /\ ServiceType' /\ Inside(r)' = Inside(r) \ {s}
        /\ \A q : q # r => Inside(q)' = Inside(q)
        /\ \A t \in Services : svc'[t] = "inroom" =>
              t # s /\ svc[t] = "inroom" /\ node'[t] = node[t]
    BY <1>1, <1>2, <1>3, RebuildsType
  <1>5. /\ IsFiniteSet(Inside(r) \ {s}) /\ Cardinality(Inside(r)) \in Nat
        /\ Cardinality(Inside(r) \ {s}) = Cardinality(Inside(r)) - 1
    BY <1>1, <1>2, OneLess
  <1>6. /\ phase[r] \in {"open", "closing"}
        /\ phase'[r] = IF phase[r] = "open" THEN "parting" ELSE "closing"
        /\ \A q \in Rooms \ {r} : phase'[q] = phase[q]
    BY <1>1 DEF LosesPlayer, HandsBack, Become, ListType, roomVars
  <1>7. PlayersAreServed'
    <2>1. ASSUME NEW t \in Services, svc'[t] = "inroom"
          PROVE  phase'[node'[t]] \in {"open", "parting", "closing"}
      BY <1>1, <1>4, <1>6, <2>1 DEF PlayersAreServed, Counting
    <2>2. ASSUME NEW q \in Rooms
          PROVE  /\ phase'[q] = "open" => player_num'[q] = Cardinality(Inside(q)')
                 /\ phase'[q] = "parting" => player_num'[q] = Cardinality(Inside(q)') + 1
      <3>1. CASE q = r
        BY <1>1, <1>3, <1>4, <1>5, <1>6, <3>1 DEF PlayersAreServed
      <3>2. CASE q # r
        BY <1>1, <1>3, <1>4, <1>6, <3>2 DEF PlayersAreServed
      <3> QED  BY <3>1, <3>2
    <2> QED  BY <2>1, <2>2 DEF PlayersAreServed
  <1>8. Counting'
    <2>1. \A t \in Services : svc'[t] = "inroom" => node'[t] \in Rooms
      BY <1>1, <1>4 DEF Counting
    <2>2. \A q \in Rooms : IsFiniteSet(Inside(q)')
      BY <1>1, <1>4, <1>5 DEF Counting
    <2>3. \A q \in Rooms : phase'[q] \in Early => player_num'[q] = 0
      BY <1>1, <1>3, <1>6 DEF Counting, Early
    <2> QED  BY <2>1, <2>2, <2>3 DEF Counting
  <1> QED  BY <1>4, <1>7, <1>8 DEF ServedInv

(* The room discounts who has left, or closes. *)
LEMMA DiscountsServed ==
  ASSUME LobbyInv, ServedInv, NEW r \in Rooms, Discounts(r) \/ Breaks(r)
  PROVE  ServedInv'
  <1>1. /\ ServiceType /\ ListType /\ PlayersAreServed /\ Counting
        /\ UNCHANGED <<file, queue, svc, request, want, node, link, killed>>
    BY DEF LobbyInv, ServedInv, Discounts, Breaks, netVars, svcVars
  <1>2. \A q : Inside(q)' = Inside(q)
    BY <1>1 DEF Inside
  <1>3. IsFiniteSet(Inside(r)) /\ Cardinality(Inside(r)) \in Nat
    BY <1>1, FS_CardinalityType DEF Counting
  <1>4. /\ phase[r] \in {"open", "parting"} /\ phase'[r] \in {"open", "closing"}
        /\ \A q \in Rooms \ {r} : phase'[q] = phase[q] /\ player_num'[q] = player_num[q]
    BY <1>1 DEF Discounts, Breaks, Become, ListType, ServiceType
  <1>5. player_num' \in [Rooms -> Nat]
        /\ (phase'[r] = "open" => player_num'[r] = Cardinality(Inside(r)))
    <2>1. CASE Breaks(r)
      BY <1>1, <2>1 DEF Breaks, Become, ListType, ServiceType
    <2>2. CASE Discounts(r) /\ Inside(r) = {}
      BY <1>1, <2>2 DEF Discounts, Become, ListType, ServiceType
    <2>3. CASE Discounts(r) /\ Inside(r) # {}
      <3>1. player_num[r] = Cardinality(Inside(r)) + 1
        BY <1>1, <2>3 DEF Discounts, PlayersAreServed
      <3>2. player_num' = [player_num EXCEPT ![r] = Cardinality(Inside(r))]
        BY <1>3, <2>3, <3>1 DEF Discounts
      <3> QED  BY <1>1, <1>3, <3>2 DEF ServiceType
    <2> QED  BY <2>1, <2>2, <2>3
  <1>6. PlayersAreServed'
    <2>1. ASSUME NEW t \in Services, svc'[t] = "inroom"
          PROVE  phase'[node'[t]] \in {"open", "parting", "closing"}
      BY <1>1, <1>4, <2>1 DEF PlayersAreServed, Counting
    <2>2. ASSUME NEW q \in Rooms
          PROVE  /\ phase'[q] = "open" => player_num'[q] = Cardinality(Inside(q)')
                 /\ phase'[q] = "parting" => player_num'[q] = Cardinality(Inside(q)') + 1
      BY <1>1, <1>2, <1>4, <1>5 DEF PlayersAreServed
    <2> QED  BY <2>1, <2>2 DEF PlayersAreServed
  <1>7. Counting'
    BY <1>1, <1>2, <1>4 DEF Counting, Early
  <1>8. ServiceType'
    BY <1>1, <1>5 DEF ServiceType
  <1> QED  BY <1>6, <1>7, <1>8 DEF ServedInv

-----------------------------------------------------------------------------

LEMMA ServedInvariant == Spec => [](LobbyInv /\ ServedInv)
  <1>1. ASSUME LobbyInv, ServedInv, [Next]_vars
        PROVE  ServedInv'
    <2>1. ASSUME NEW s \in Services, Asks(s) \/ ServiceStep(s)
          PROVE  ServedInv'
      BY <1>1, <2>1, AsksServed, ServiceServed DEF LobbyInv
    <2>2. ASSUME NEW r \in Rooms, RoomStep(r) \/ LosesPlayer(r) \/ Breaks(r)
          PROVE  ServedInv'
      BY <1>1, <2>2, OpeningServed, ListingServed, AdmitsServed, RefusesServed, LosesServed,
         DiscountsServed DEF RoomStep
    <2>3. CASE Rests \/ UNCHANGED vars
      <3>1. UNCHANGED vars
        BY <2>3 DEF Rests
      <3> QED  BY <1>1, <3>1 DEF vars, roomVars, netVars, svcVars, ServedInv, ServiceType,
                                 PlayersAreServed, Counting, Inside
    <2> QED  BY <1>1, <2>1, <2>2, <2>3 DEF Next
  <1> QED  BY <1>1, ServedInit, LobbyInvariant, PTL DEF Spec

(* Whoever is in a room is in one that runs or still hands its players back, *)
(* and player_num, which a joiner reads without a lock, is the number of     *)
(* players, or one more while the room has not discounted the player that    *)
(* leaves, however many clients come and go.                                 *)
THEOREM PlayersServed == Spec => []PlayersAreServed
  <1>1. ServedInv => PlayersAreServed
    BY DEF ServedInv
  <1> QED  BY <1>1, ServedInvariant, PTL

(* The variables of the lobby keep their types. *)
THEOREM LobbyTyped == Spec => []LobbyTypeOK
  <1>1. LobbyInv /\ ServedInv => LobbyTypeOK
    BY TypeParts DEF LobbyInv, ServedInv
  <1> QED  BY <1>1, ServedInvariant, PTL

-----------------------------------------------------------------------------
(* The list of rooms as the server expects it. *)

AList == INSTANCE AtomicList WITH list <- room_list

(* The removal by ID takes out the room that asks for it, and the IDs let a  *)
(* room enter once: to every client and room the list is an atomic one.      *)
THEOREM ListIsAtomic == Spec => AList!Spec
  <1>1. Init => AList!Init
    BY DEF Init, AList!Init
  <1>2. ASSUME LobbyInv, [Next]_vars
        PROVE  [AList!Next]_room_list
    <2>1. ASSUME NEW r \in Rooms, AddsItself(r)
          PROVE  AList!Next
      <3>1. r \notin Listed
        BY <1>2, <2>1 DEF LobbyInv, ListedWhileAlive, AddsItself
      <3>2. AList!Enters(r)
        BY <2>1, <3>1 DEF AddsItself, Listed, AList!Enters, AList!Members
      <3> QED  BY <3>2 DEF AList!Next
    <2>2. ASSUME NEW r \in Rooms, RemovesItself(r)
          PROVE  AList!Next
      <3>1. PICK k \in DOMAIN room_list : room_list[k] = r
        BY <1>2, <2>2 DEF LobbyInv, ListedWhileAlive, Listed, RemovesItself
      <3>2. room_list' = Without(k)
        BY <1>2, <2>2, <3>1, PositionOf DEF LobbyInv, RemovesItself
      <3>3. AList!Leaves(r)
        BY <3>1, <3>2 DEF Without, AList!Leaves
      <3> QED  BY <3>3 DEF AList!Next
    <2>3. CASE \E s \in Services : Asks(s) \/ ServiceStep(s)
      BY <2>3 DEF Asks, CreateRoom, CreateFails, JoinRoom, ServiceStep, Rejected, LooksUp,
                  ConnectFails, Connects, Writes, ReadsReset, Fails, roomVars
    <2>4. CASE \E r \in Rooms : Opens(r) \/ Ends(r) \/ PlayersMove(r)
      BY <2>4, PlayersMoveWhere DEF Opens, Ends
    <2>5. CASE Rests \/ UNCHANGED vars
      BY <2>5 DEF Rests, vars, roomVars
    <2> QED  BY <1>2, <2>1, <2>2, <2>3, <2>4, <2>5 DEF Next, RoomStep, PlayersMove
  <1> QED  BY <1>1, <1>2, LobbyInvariant, PTL DEF Spec, AList!Spec

=============================================================================
