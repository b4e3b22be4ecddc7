--------------------------- MODULE RoomListProofs ---------------------------
(***************************************************************************)
(* Proofs about the list of rooms, for any number of rooms and of service    *)
(* threads.                                                                  *)
(*                                                                         *)
(* However many rooms close at the same time, a thread holds the mutexes     *)
(* the place it is at asks for, and no other.                                *)
(*                                                                         *)
(* Until two rooms take their nodes out at once, the list is a chain of the   *)
(* rooms that run.  A room that goes by the list stands on a node of the chain before   *)
(* its own, and nobody else takes a node out; rooms that come meanwhile only *)
(* lengthen the chain at its head.  So the pointer surgery is what module    *)
(* AtomicList does in one step.  That a node of the chain is the only one    *)
(* linked to the next needs an induction along it, which is done over the    *)
(* set of the places at which two chains agree.                              *)
(***************************************************************************)
EXTENDS RoomList, SetInduction

RoomPlaces == {"idle", "create", "add", "added", "run", "remove", "removeHead",
               "walk", "unlink", "free", "done", "undefined"}

ServicePlaces == {"idle", "search", "joining", "list", "listed", "advance", "page",
                  "undefined"}

(* The places at which a thread is sure to look at a node. *)
OnANode == {"add", "remove", "removeHead", "walk", "unlink", "free",
            "joining", "listed", "advance", "page"}

Typed ==
    /\ head \in Rooms \cup {NULL}
    /\ next \in [Rooms -> Rooms \cup {NULL}]
    /\ mem \in [Rooms -> {"none", "used", "freed"}]
    /\ head_mutex \in Rooms \cup {NULL}
    /\ node_mutex \in [Rooms -> Threads \cup {NULL}]
    /\ tmp \in [Threads -> Rooms \cup {NULL}]
    /\ pc \in [Threads -> RoomPlaces \cup ServicePlaces]
    /\ \A r \in Rooms : pc[r] \in RoomPlaces
    /\ \A s \in Services : pc[s] \in ServicePlaces
    /\ \A t \in Threads : pc[t] \in OnANode => tmp[t] \in Rooms

Undefined == \A t \in Threads : pc[t] = "undefined"

-----------------------------------------------------------------------------
(* The mutexes. *)

WithHead == {"create", "add", "added", "remove", "removeHead"}

WithNode == {"add", "added", "removeHead", "walk", "unlink", "listed"}

HeadLock == \A r \in Rooms : head_mutex = r <=> pc[r] \in WithHead

NodeLocks ==
    \A n \in Rooms, t \in Threads :
        node_mutex[n] = t => pc[t] \in WithNode /\ tmp[t] = n

Locks == (\A t \in Threads : pc[t] # "undefined") /\ HeadLock /\ NodeLocks

LockInv == Typed /\ (Undefined \/ Locks)

LEMMA ThreadKinds ==
    /\ NULL \notin Rooms /\ NULL \notin Services /\ NULL \notin Threads
    /\ Rooms \subseteq Threads /\ Services \subseteq Threads
    /\ \A r \in Rooms : r \notin Services
  BY RoomListAssumption DEF Threads

LEMMA LockInit == Init => LockInv
  <1> SUFFICES ASSUME Init PROVE LockInv
    OBVIOUS
  <1>1. Typed
    BY DEF Init, Typed, RoomPlaces, ServicePlaces, OnANode, Threads
  <1>2. Locks
    BY ThreadKinds DEF Init, Locks, HeadLock, NodeLocks, WithHead
  <1> QED  BY <1>1, <1>2 DEF LockInv

(* A step of the room r takes and releases what its next place asks for.     *)
LEMMA RoomLocks ==
  ASSUME LockInv, NEW r \in Rooms, RoomStep(r)
  PROVE  LockInv'
  <1> USE ThreadKinds
  <1>1. Typed /\ Locks
    BY DEF LockInv, Undefined, RoomStep, CreateLocksHead, CreateLocksNode, CreateAdds,
           CreateUnlocks, RemoveLocksHead, RemoveLocksNode, RemoveHead, RemovePassesHead,
           RemoveWalks, RemoveFinds, RemoveUnlinks, RemoveFrees
  <1>2. CASE CreateLocksHead(r)
    BY <1>1, <1>2 DEF CreateLocksHead, Goto, LooksAt, LockInv, Typed, Locks, HeadLock, NodeLocks,
        WithHead, WithNode, OnANode, RoomPlaces, listVars
  <1>3. CASE CreateLocksNode(r)
    BY <1>1, <1>3 DEF CreateLocksNode, Goto, LooksAt, LockInv, Typed, Locks, HeadLock, NodeLocks,
        WithHead, WithNode, OnANode, RoomPlaces, listVars
  <1>4. CASE CreateAdds(r)
    BY <1>1, <1>4 DEF CreateAdds, Goto, LooksAt, LockInv, Typed, Locks, HeadLock, NodeLocks,
        WithHead, WithNode, OnANode, RoomPlaces, lockVars
  <1>5. CASE CreateUnlocks(r)
    BY <1>1, <1>5 DEF CreateUnlocks, Released, Goto, LooksAt, LockInv, Typed, Locks, HeadLock, NodeLocks,
        WithHead, WithNode, OnANode, RoomPlaces, listVars
  <1>6. CASE RemoveLocksHead(r)
    BY <1>1, <1>6 DEF RemoveLocksHead, Goto, LooksAt, LockInv, Typed, Locks, HeadLock, NodeLocks,
        WithHead, WithNode, OnANode, RoomPlaces, listVars
  <1>7. CASE RemoveLocksNode(r)
    BY <1>1, <1>7 DEF RemoveLocksNode, Goto, LooksAt, LockInv, Typed, Locks, HeadLock, NodeLocks,
        WithHead, WithNode, OnANode, RoomPlaces, listVars
  <1>8. CASE RemoveHead(r)
    BY <1>1, <1>8 DEF RemoveHead, Released, Goto, LooksAt, LockInv, Typed, Locks, HeadLock, NodeLocks,
        WithHead, WithNode, OnANode, RoomPlaces
  <1>9. CASE RemovePassesHead(r)
    BY <1>1, <1>9 DEF RemovePassesHead, Released, Goto, LooksAt, LockInv, Typed, Locks, HeadLock, NodeLocks,
        WithHead, WithNode, OnANode, RoomPlaces, listVars
  <1>10. CASE RemoveWalks(r)
    BY <1>1, <1>10 DEF RemoveWalks, WalkGoesOn, Released, Goto, LooksAt, LockInv, Typed, Locks, HeadLock, NodeLocks,
        WithHead, WithNode, OnANode, RoomPlaces, listVars
  <1>11. CASE RemoveFinds(r)
    BY <1>1, <1>11 DEF RemoveFinds, Goto, LooksAt, LockInv, Typed, Locks, HeadLock, NodeLocks,
        WithHead, WithNode, OnANode, RoomPlaces, listVars, lockVars
  <1>12. CASE RemoveUnlinks(r)
    BY <1>1, <1>12 DEF RemoveUnlinks, Released, Goto, LooksAt, LockInv, Typed, Locks, HeadLock, NodeLocks,
        WithHead, WithNode, OnANode, RoomPlaces
  <1>13. CASE RemoveFrees(r)
    BY <1>1, <1>13 DEF RemoveFrees, Goto, LooksAt, LockInv, Typed, Locks, HeadLock, NodeLocks,
        WithHead, WithNode, OnANode, RoomPlaces, lockVars
  <1> QED  BY <1>2, <1>3, <1>4, <1>5, <1>6, <1>7, <1>8, <1>9, <1>10, <1>11, <1>12, <1>13
           DEF RoomStep

(* And so does one of the service thread s. *)
LEMMA ServiceLocks ==
  ASSUME LockInv, NEW s \in Services, ServiceStep(s)
  PROVE  LockInv'
  <1> USE ThreadKinds
  <1>1. Typed /\ Locks
    BY DEF LockInv, Undefined, ServiceStep, StartsSearch, Searches, ReadsRoom, StartsListing, ListLocks, ListGivesUp, ListUnlocks, ListAdvances, ListTurnsPage
  <1>2. CASE StartsSearch(s)
    BY <1>1, <1>2 DEF StartsSearch, Goto, LooksAt, LockInv, Typed, Locks, HeadLock, NodeLocks,
        WithHead, WithNode, OnANode, ServicePlaces, listVars, lockVars
  <1>3. CASE Searches(s)
    BY <1>1, <1>3 DEF Searches, Goto, LooksAt, LockInv, Typed, Locks, HeadLock, NodeLocks,
        WithHead, WithNode, OnANode, ServicePlaces, listVars, lockVars
  <1>4. CASE ReadsRoom(s)
    BY <1>1, <1>4 DEF ReadsRoom, Goto, LooksAt, LockInv, Typed, Locks, HeadLock, NodeLocks,
        WithHead, WithNode, OnANode, ServicePlaces, listVars, lockVars
  <1>5. CASE StartsListing(s)
    BY <1>1, <1>5 DEF StartsListing, Goto, LooksAt, LockInv, Typed, Locks, HeadLock, NodeLocks,
        WithHead, WithNode, OnANode, ServicePlaces, listVars, lockVars
  <1>6. CASE ListLocks(s)
    BY <1>1, <1>6 DEF ListLocks, Goto, LooksAt, LockInv, Typed, Locks, HeadLock, NodeLocks,
        WithHead, WithNode, OnANode, ServicePlaces, listVars
  <1>7. CASE ListGivesUp(s)
    BY <1>1, <1>7 DEF ListGivesUp, Goto, LooksAt, LockInv, Typed, Locks, HeadLock, NodeLocks,
        WithHead, WithNode, OnANode, ServicePlaces, listVars, lockVars
  <1>8. CASE ListUnlocks(s)
    BY <1>1, <1>8 DEF ListUnlocks, Goto, LooksAt, LockInv, Typed, Locks, HeadLock, NodeLocks,
        WithHead, WithNode, OnANode, ServicePlaces, Released, listVars
  <1>9. CASE ListAdvances(s)
    BY <1>1, <1>9 DEF ListAdvances, Goto, LooksAt, LockInv, Typed, Locks, HeadLock, NodeLocks,
        WithHead, WithNode, OnANode, ServicePlaces, listVars, lockVars
  <1>10. CASE ListTurnsPage(s)
    BY <1>1, <1>10 DEF ListTurnsPage, Goto, LooksAt, LockInv, Typed, Locks, HeadLock, NodeLocks,
        WithHead, WithNode, OnANode, ServicePlaces, listVars, lockVars
  <1> QED  BY <1>2, <1>3, <1>4, <1>5, <1>6, <1>7, <1>8, <1>9, <1>10 DEF ServiceStep

(* A step of the program, whatever becomes of the history. *)
LEMMA StepSplits == [Next]_vars => ThreadStep \/ UNCHANGED threadVars
  BY DEF Next, vars

LEMMA LockNext == LockInv /\ [Next]_vars => LockInv'
  <1> SUFFICES ASSUME LockInv, ThreadStep \/ UNCHANGED threadVars PROVE LockInv'
    BY StepSplits
  <1>1. CASE \E r \in Rooms : RoomStep(r)
    BY <1>1, RoomLocks
  <1>2. CASE \E s \in Services : ServiceStep(s)
    BY <1>2, ServiceLocks
  <1>3. CASE \E t \in Threads : Faults(t)
    <2>1. UNCHANGED <<head, next, mem, head_mutex, node_mutex, tmp>>
      BY <1>3 DEF Faults, listVars, lockVars
    <2>2. pc' = [x \in Threads |-> "undefined"]
      BY <1>3 DEF Faults
    <2>3. Typed' /\ Undefined'
      BY <2>1, <2>2, ThreadKinds DEF LockInv, Typed, Undefined, RoomPlaces, ServicePlaces,
         OnANode
    <2> QED  BY <2>3 DEF LockInv
  <1>4. CASE UNCHANGED threadVars
    BY <1>4 DEF threadVars, LockInv, Typed, Undefined, Locks, HeadLock, NodeLocks
  <1> QED  BY <1>1, <1>2, <1>3, <1>4 DEF ThreadStep, Ended

LEMMA LocksHeld == Spec => []LockInv
  BY LockInit, LockNext, PTL DEF Spec

(* Nobody else is in between taking the mutex of the head pointer and         *)
(* releasing it: createAndAddNewRoom and the first part of                   *)
(* removeAndDestroyRoomNode exclude each other.                              *)
HeadIsExclusive ==
    \A r, q \in Rooms : pc[r] \in WithHead /\ pc[q] \in WithHead => r = q

(* createAndAddNewRoom and removeAndDestroyRoomNode change head_pointer, and  *)
(* a room adds its node, only where no other room does.                      *)
THEOREM OneRoomAtTheHead == Spec => []HeadIsExclusive
  <1>1. LockInv => HeadIsExclusive
    BY DEF LockInv, Undefined, Locks, HeadLock, HeadIsExclusive, WithHead, Threads
  <1> QED  BY <1>1, LocksHeld, PTL

(* Whatever way a thread leaves createAndAddNewRoom, removeAndDestroyRoomNode  *)
(* or getRoomList, it holds no mutex any more, however many rooms close at    *)
(* the same time.                                                            *)
THEOREM NoMutexIsLeftLocked == Spec => []NoMutexLeftLocked
  <1>1. LockInv => NoMutexLeftLocked
    BY ThreadKinds DEF LockInv, Typed, Undefined, Locks, HeadLock, NodeLocks,
       NoMutexLeftLocked, WithHead, WithNode, Threads
  <1> QED  BY <1>1, LocksHeld, PTL

-----------------------------------------------------------------------------
(* Chains. *)

(* There is one way to walk the list from h on. *)
LEMMA OneChain ==
  ASSUME NEW h, NEW nx, NEW c \in Seq(Rooms), NEW d \in Seq(Rooms),
         Links(c, h, nx), Links(d, h, nx)
  PROVE  c = d
  <1> DEFINE T == {k \in Nat : /\ k < Len(c) <=> k < Len(d)
                               /\ k < Len(c) => c[k + 1] = d[k + 1]}
  <1>1. 0 \in T
    BY RoomListAssumption DEF Links
  <1>2. ASSUME NEW k \in T PROVE k + 1 \in T
    <2>1. CASE k < Len(c)
      <3>1. k + 1 \in DOMAIN c /\ k + 1 \in DOMAIN d /\ c[k + 1] = d[k + 1]
        BY <2>1
      <3>2. nx[c[k + 1]] = IF k + 1 = Len(c) THEN NULL ELSE c[(k + 1) + 1]
        BY <3>1 DEF Links
      <3>3. nx[d[k + 1]] = IF k + 1 = Len(d) THEN NULL ELSE d[(k + 1) + 1]
        BY <3>1 DEF Links
      <3> QED  BY <2>1, <3>1, <3>2, <3>3, RoomListAssumption
    <2>2. CASE ~(k < Len(c))
      BY <2>2
    <2> QED  BY <2>1, <2>2
  <1>3. T = Nat
    <2> HIDE DEF T
    <2>1. T \in SUBSET Nat
      BY DEF T
    <2> QED  BY <2>1, <1>1, <1>2, NatInductionOverSet
  <1>4. \A k \in Nat : (k < Len(c) <=> k < Len(d)) /\ (k < Len(c) => c[k + 1] = d[k + 1])
    BY <1>3
  <1>5. Len(c) = Len(d)
    BY <1>4
  <1>6. \A j \in 1 .. Len(c) : c[j] = d[j]
    <2> TAKE j \in 1 .. Len(c)
    <2>1. j - 1 \in Nat /\ j - 1 < Len(c) /\ (j - 1) + 1 = j
      OBVIOUS
    <2> QED  BY <2>1, <1>4
  <1> QED  BY <1>5, <1>6

(* A chain is not longer than there are rooms: it is the one ChainFrom       *)
(* chooses.                                                                  *)
LEMMA ChainIs ==
  ASSUME NEW h, NEW nx, NEW c \in Seq(Rooms), Links(c, h, nx)
  PROVE  ChainFrom(h, nx) = c
  <1> DEFINE All == UNION {[1 .. n -> Rooms] : n \in 0 .. Cardinality(Rooms)}
  <1>1. c \in Injection(1 .. Len(c), Rooms)
    BY DEF Links, Injection, IsInjective
  <1>2. Len(c) \in 0 .. Cardinality(Rooms)
    <2>1. Cardinality(1 .. Len(c)) <= Cardinality(Rooms)
      BY <1>1, FS_Injection, RoomListAssumption
    <2>2. Cardinality(1 .. Len(c)) = Len(c)
      <3>1. Len(c) \in Nat /\ Len(c) \in Int /\ 1 \in Int
        OBVIOUS
      <3>2. Cardinality(1 .. Len(c)) = IF 1 > Len(c) THEN 0 ELSE Len(c) - 1 + 1
        BY <3>1, FS_Interval
      <3> QED  BY <3>1, <3>2
    <2>3. Cardinality(Rooms) \in Nat
      BY FS_CardinalityType, RoomListAssumption
    <2> QED  BY <2>1, <2>2, <2>3
  <1>3. c \in All
    BY <1>2
  <1>4. \A e \in All : e \in Seq(Rooms)
    BY FS_CardinalityType, RoomListAssumption
  <1>5. ChainFrom(h, nx) = CHOOSE e \in All : Links(e, h, nx)
    BY DEF ChainFrom
  <1> HIDE DEF All
  <1>6. ChainFrom(h, nx) \in All /\ Links(ChainFrom(h, nx), h, nx)
    BY <1>3, <1>5
  <1> QED  BY <1>4, <1>6, OneChain

(* addRoomToRoomList: a node of a new room in front of the list. *)
LEMMA InFront ==
  ASSUME NEW c \in Seq(Rooms), NEW r \in Rooms, NEW h, NEW nx \in [Rooms -> Rooms \cup {NULL}],
         h \in Rooms \cup {NULL}, Links(c, h, nx), \A k \in DOMAIN c : c[k] # r
  PROVE  /\ <<r>> \o c \in Seq(Rooms)
         /\ Links(<<r>> \o c, r, [nx EXCEPT ![r] = h])
  <1> DEFINE d == <<r>> \o c
             mx == [nx EXCEPT ![r] = h]
  <1>1. d \in Seq(Rooms) /\ Len(d) = Len(c) + 1 /\ d[1] = r
    OBVIOUS
  <1>2. \A j \in 1 .. Len(c) : d[j + 1] = c[j]
    OBVIOUS
  <1>3. \A j \in 2 .. Len(d) : j - 1 \in DOMAIN c /\ d[j] = c[j - 1]
    BY <1>1
  <1>4. mx[r] = h /\ \A q \in Rooms : q # r => mx[q] = nx[q]
    OBVIOUS
  <1> HIDE DEF d, mx
  <1>5. \A j, k \in DOMAIN d : d[j] = d[k] => j = k
    BY <1>1, <1>3 DEF Links
  <1>6. \A k \in DOMAIN d : mx[d[k]] = IF k = Len(d) THEN NULL ELSE d[k + 1]
    <2> TAKE k \in DOMAIN d
    <2>1. CASE k = 1
      BY <2>1, <1>1, <1>2, <1>4 DEF Links
    <2>2. CASE k # 1
      <3>1. k - 1 \in DOMAIN c /\ d[k] = c[k - 1] /\ d[k] # r /\ d[k] \in Rooms
        BY <2>2, <1>1, <1>3
      <3>2. nx[c[k - 1]] = IF k - 1 = Len(c) THEN NULL ELSE c[(k - 1) + 1]
        BY <3>1 DEF Links
      <3>3. k # Len(d) => d[k + 1] = c[k]
        BY <2>2, <1>1, <1>2
      <3> QED  BY <1>1, <1>4, <3>1, <3>2, <3>3
    <2> QED  BY <2>1, <2>2
  <1> QED  BY <1>1, <1>5, <1>6 DEF Links, d, mx

Without(c, k) == [j \in 1 .. Len(c) - 1 |-> IF j < k THEN c[j] ELSE c[j + 1]]

LEMMA WithoutIs ==
  ASSUME NEW c \in Seq(Rooms), NEW k \in DOMAIN c
  PROVE  /\ Without(c, k) \in Seq(Rooms)
         /\ Len(Without(c, k)) = Len(c) - 1
         /\ \A j \in DOMAIN Without(c, k) :
               Without(c, k)[j] = IF j < k THEN c[j] ELSE c[j + 1]
  BY DEF Without

(* A chain without the node at its head, which the next one becomes. *)
LEMMA WithoutFirst ==
  ASSUME NEW h, NEW nx, NEW c \in Seq(Rooms), Links(c, h, nx), 1 \in DOMAIN c
  PROVE  Links(Without(c, 1), nx[c[1]], nx)
  <1> DEFINE d == Without(c, 1)
  <1>1. d \in Seq(Rooms) /\ Len(d) = Len(c) - 1 /\ \A j \in DOMAIN d : d[j] = c[j + 1]
    BY WithoutIs
  <1>2. \A j \in DOMAIN d : j + 1 \in DOMAIN c
    BY <1>1
  <1> HIDE DEF d
  <1>3. \A j, k \in DOMAIN d : d[j] = d[k] => j = k
    BY <1>1, <1>2 DEF Links
  <1>4. nx[c[1]] = IF d = << >> THEN NULL ELSE d[1]
    BY <1>1 DEF Links
  <1>5. \A k \in DOMAIN d : nx[d[k]] = IF k = Len(d) THEN NULL ELSE d[k + 1]
    <2> TAKE k \in DOMAIN d
    <2>1. nx[c[k + 1]] = IF k + 1 = Len(c) THEN NULL ELSE c[(k + 1) + 1]
      BY <1>2 DEF Links
    <2>2. k # Len(d) => d[k + 1] = c[(k + 1) + 1]
      BY <1>1
    <2> QED  BY <2>1, <2>2, <1>1
  <1> QED  BY <1>3, <1>4, <1>5 DEF Links, d

(* A chain without a later node: the one before it is linked to the one      *)
(* after it.                                                                 *)
LEMMA WithoutLater ==
  ASSUME NEW h, NEW nx \in [Rooms -> Rooms \cup {NULL}], NEW c \in Seq(Rooms),
         Links(c, h, nx), NEW k \in DOMAIN c, k # 1
  PROVE  /\ k - 1 \in DOMAIN c
         /\ Links(Without(c, k), h, [nx EXCEPT ![c[k - 1]] = nx[c[k]]])
  <1> DEFINE d == Without(c, k)
             mx == [nx EXCEPT ![c[k - 1]] = nx[c[k]]]
  <1>1. /\ d \in Seq(Rooms) /\ Len(d) = Len(c) - 1
        /\ \A j \in DOMAIN d : d[j] = IF j < k THEN c[j] ELSE c[j + 1]
    BY WithoutIs
  <1>2. k - 1 \in DOMAIN c /\ k - 1 \in DOMAIN d /\ c[k - 1] \in Rooms
    BY <1>1
  <1>3. /\ mx[c[k - 1]] = nx[c[k]]
        /\ \A q \in Rooms : q # c[k - 1] => mx[q] = nx[q]
    BY <1>2
  <1> HIDE DEF d, mx
  <1>4. \A i, j \in DOMAIN d : d[i] = d[j] => i = j
    <2> TAKE i, j \in DOMAIN d
    <2>1. i \in DOMAIN c /\ j \in DOMAIN c /\ i + 1 \in DOMAIN c /\ j + 1 \in DOMAIN c
      BY <1>1
    <2> QED  BY <2>1, <1>1 DEF Links
  <1>5. h = IF d = << >> THEN NULL ELSE d[1]
    BY <1>1, <1>2 DEF Links
  <1>6. \A j \in DOMAIN d : mx[d[j]] = IF j = Len(d) THEN NULL ELSE d[j + 1]
    <2> TAKE j \in DOMAIN d
    <2>1. CASE j < k - 1
      <3>1. j \in DOMAIN c /\ d[j] = c[j] /\ j # Len(c) /\ j # Len(d) /\ d[j + 1] = c[j + 1]
        BY <2>1, <1>1, <1>2
      <3>2. c[j] # c[k - 1] /\ c[j] \in Rooms
        BY <2>1, <3>1, <1>2 DEF Links
      <3> QED  BY <3>1, <3>2, <1>3 DEF Links
    <2>2. CASE j = k - 1
      <3>1. nx[c[k]] = IF k = Len(c) THEN NULL ELSE c[k + 1]
        BY DEF Links
      <3>2. d[j] = c[k - 1] /\ (j = Len(d) <=> k = Len(c))
        BY <2>2, <1>1
      <3>3. j # Len(d) => d[j + 1] = c[k + 1]
        BY <2>2, <1>1
      <3> QED  BY <3>1, <3>2, <3>3, <1>3
    <2>3. CASE j > k - 1
      <3>1. j + 1 \in DOMAIN c /\ d[j] = c[j + 1] /\ (j = Len(d) <=> j + 1 = Len(c))
        BY <2>3, <1>1, <1>2
      <3>2. c[j + 1] # c[k - 1] /\ c[j + 1] \in Rooms
        <4>1. c[j + 1] = c[k - 1] => j + 1 = k - 1
          BY <3>1, <1>2 DEF Links
        <4>2. j + 1 # k - 1
          BY <2>3, <1>1
        <4> QED  BY <4>1, <4>2, <3>1
      <3>3. nx[c[j + 1]] = IF j + 1 = Len(c) THEN NULL ELSE c[(j + 1) + 1]
        BY <3>1 DEF Links
      <3>4. j # Len(d) => d[j + 1] = c[(j + 1) + 1]
        BY <2>3, <1>1
      <3> QED  BY <3>1, <3>2, <3>3, <3>4, <1>3
    <2> QED  BY <2>1, <2>2, <2>3, <1>1
  <1> QED  BY <1>2, <1>4, <1>5, <1>6 DEF Links, d, mx

-----------------------------------------------------------------------------
(* The list, until two rooms take their nodes out at once. *)

(* The nodes in the list are linked from the head on, and alive. *)
Linked ==
    /\ Chain \in Seq(Rooms) /\ Links(Chain, head, next)
    /\ \A r \in InChain : mem[r] = "used"

(* The places of a room whose node is in the list. *)
InList == {"added", "run", "remove", "removeHead", "walk", "unlink"}

Before(n, r) == \E j, k \in DOMAIN Chain : j < k /\ Chain[j] = n /\ Chain[k] = r

(* What each room knows of the list: the one at the head sees the head, the  *)
(* one that closes stands before its own node.                               *)
Shape ==
    /\ \A r \in Rooms : r \in InChain <=> pc[r] \in InList
    /\ \A r \in Rooms : mem[r] = IF pc[r] \in {"idle", "create", "add"} THEN "none"
                                 ELSE IF pc[r] = "done" THEN "freed" ELSE "used"
    /\ \A r \in Rooms : pc[r] \in {"create", "add", "remove", "removeHead"} => tmp[r] = head
    /\ \A r \in Rooms : pc[r] = "added" =>
          head = r /\ tmp[r] = next[r] /\ \A q \in Unlinking : tmp[q] # r
    /\ \A r \in Rooms : pc[r] = "walk" => Before(tmp[r], r)
    /\ \A r \in Rooms : pc[r] = "unlink" => tmp[r] \in InChain /\ next[tmp[r]] = r
    /\ \A r \in Rooms : pc[r] = "free" => tmp[r] = r
    /\ \A r, q \in Unlinking : r = q

ListShape == LockInv /\ Linked /\ (Undefined \/ Shape)

ListInv ==
    /\ LockInv /\ overlapped \in BOOLEAN
    /\ ~overlapped => ListShape

LEMMA NothingLinked == ASSUME NEW nx PROVE ChainFrom(NULL, nx) = << >>
  <1>1. << >> \in Seq(Rooms) /\ Links(<< >>, NULL, nx)
    BY DEF Links
  <1> QED  BY <1>1, ChainIs

LEMMA ListInit == Init => ListShape /\ Chain = << >>
  <1> SUFFICES ASSUME Init PROVE ListShape /\ Chain = << >>
    OBVIOUS
  <1>1. Chain = << >>
    BY NothingLinked DEF Init, Chain
  <1>2. InChain = {}
    BY <1>1 DEF InChain
  <1>3. Linked
    BY <1>1, <1>2 DEF Linked, Links, Init
  <1>4. Shape
    BY <1>2, ThreadKinds DEF Shape, Init, InList, Unlinking
  <1> QED  BY <1>1, <1>3, <1>4, LockInit DEF ListShape

(* A step that touches neither the head nor a next field. *)
LEMMA SameChain ==
  ASSUME head' = head, next' = next
  PROVE  /\ Chain' = Chain /\ InChain' = InChain
         /\ \A n, r : Before(n, r)' <=> Before(n, r)
  BY DEF Chain, InChain, Before

(* createAndAddNewRoom puts the node where the whole list is behind it. *)
LEMMA AddsToChain ==
  ASSUME Typed, Linked, NEW r \in Rooms, r \notin InChain, head' = r,
         next' = [next EXCEPT ![r] = head]
  PROVE  /\ Chain' = <<r>> \o Chain /\ Chain' \in Seq(Rooms) /\ Links(Chain, head, next)'
         /\ InChain' = InChain \cup {r}
         /\ \A n, q : Before(n, q) => Before(n, q)'
         /\ Atomic!Enters(r)
  <1> DEFINE c == Chain
  <1>1. c \in Seq(Rooms) /\ Links(c, head, next) /\ \A k \in DOMAIN c : c[k] # r
    BY DEF Linked, InChain
  <1>2. /\ <<r>> \o c \in Seq(Rooms)
        /\ Links(<<r>> \o c, head', next')
    BY <1>1, InFront DEF Typed
  <1>3. Chain' = <<r>> \o c
    BY <1>2, ChainIs DEF Chain
  <1> HIDE DEF c
  <1>4. /\ Len(<<r>> \o c) = Len(c) + 1 /\ (<<r>> \o c)[1] = r
        /\ \A j \in DOMAIN c : j + 1 \in DOMAIN (<<r>> \o c) /\ (<<r>> \o c)[j + 1] = c[j]
        /\ \A j \in DOMAIN (<<r>> \o c) :
              j # 1 => j - 1 \in DOMAIN c /\ (<<r>> \o c)[j] = c[j - 1]
        /\ 1 \in DOMAIN (<<r>> \o c)
    BY <1>1
  <1>5. InChain' = InChain \cup {r}
    <2>1. InChain' = {(<<r>> \o c)[k] : k \in DOMAIN (<<r>> \o c)}
      BY <1>3 DEF InChain
    <2>2. InChain = {c[k] : k \in DOMAIN c}
      BY DEF InChain, c
    <2> QED  BY <1>4, <2>1, <2>2
  <1>6. ASSUME NEW n, NEW q, Before(n, q) PROVE Before(n, q)'
    <2>1. PICK j, k \in DOMAIN c : j < k /\ c[j] = n /\ c[k] = q
      BY <1>6 DEF Before, c
    <2>2. j + 1 < k + 1
      BY <1>1, <2>1
    <2> QED  BY <1>3, <1>4, <2>1, <2>2 DEF Before
  <1>7. Atomic!Enters(r)
    BY <1>1, <1>3 DEF Atomic!Enters, Atomic!Members, c
  <1> QED  BY <1>2, <1>3, <1>5, <1>6, <1>7 DEF c

(* removeAndDestroyRoomNode takes out one node, wherever it is. *)
LEMMA TakenFromChain ==
  ASSUME Linked, NEW k \in DOMAIN Chain, Links(Without(Chain, k), head', next')
  PROVE  /\ Chain' \in Seq(Rooms) /\ Links(Chain, head, next)'
         /\ InChain' = InChain \ {Chain[k]}
         /\ Atomic!Leaves(Chain[k])
  <1> DEFINE c == Chain
             d == Without(c, k)
  <1>1. c \in Seq(Rooms) /\ k \in DOMAIN c /\ Links(c, head, next)
    BY DEF Linked
  <1>2. /\ d \in Seq(Rooms) /\ Len(d) = Len(c) - 1
        /\ \A j \in DOMAIN d : d[j] = IF j < k THEN c[j] ELSE c[j + 1]
    BY <1>1, WithoutIs
  <1>3. Chain' = d
    BY <1>2, ChainIs DEF Chain
  <1>4. Atomic!Leaves(Chain[k])
    BY <1>1, <1>3 DEF Atomic!Leaves, Without
  <1> HIDE DEF c, d
  <1>5. \A i, j \in DOMAIN c : c[i] = c[j] => i = j
    BY <1>1 DEF Links
  <1>6. {d[j] : j \in DOMAIN d} = {c[j] : j \in DOMAIN c} \ {c[k]}
    <2>1. ASSUME NEW j \in DOMAIN d PROVE d[j] \in {c[i] : i \in DOMAIN c} \ {c[k]}
      <3>1. j \in DOMAIN c /\ j + 1 \in DOMAIN c
        BY <1>1, <1>2
      <3> QED  BY <1>1, <1>2, <1>5, <3>1
    <2>2. ASSUME NEW i \in DOMAIN c, i # k PROVE \E j \in DOMAIN d : d[j] = c[i]
      <3>1. CASE i < k
        BY <1>1, <1>2, <3>1
      <3>2. CASE i > k
        <4>1. i - 1 \in DOMAIN d /\ ~(i - 1 < k) /\ (i - 1) + 1 = i
          BY <1>1, <1>2, <3>2
        <4> QED  BY <4>1, <1>2
      <3> QED  BY <3>1, <3>2, <2>2, <1>1
    <2> QED  BY <2>1, <2>2
  <1>7. InChain' = InChain \ {Chain[k]}
    BY <1>3, <1>6 DEF InChain, c
  <1> QED  BY <1>2, <1>3, <1>4, <1>7 DEF Linked, c, d


(* A room takes the mutex of the head pointer to close, and it is the only    *)
(* one taken out.                                                            *)
LEMMA FirstRemover ==
  ASSUME Typed, ~Overlap', NEW r \in Rooms, RemoveLocksHead(r), head # NULL
  PROVE  Unlinking = {}
  <1>1. pc' = [pc EXCEPT ![r] = "remove"] /\ pc[r] = "run"
    BY DEF RemoveLocksHead, Goto
  <1>2. r \in Unlinking' /\ \A q \in Unlinking : q \in Unlinking' /\ q # r
    BY <1>1, ThreadKinds DEF Unlinking, Typed
  <1> QED  BY <1>2 DEF Overlap

(* The whole step of a room is one change of the list, or none. *)
LEMMA RoomChain ==
  ASSUME ListShape, ~Overlap', NEW r \in Rooms, RoomStep(r)
  PROVE  Linked' /\ Shape' /\ [Atomic!Next]_Chain
  <1> USE ThreadKinds
  <1>1. Typed /\ Locks /\ Linked /\ Shape
    BY DEF ListShape, LockInv, Undefined, RoomStep, CreateLocksHead, CreateLocksNode, CreateAdds,
           CreateUnlocks, RemoveLocksHead, RemoveLocksNode, RemoveHead, RemovePassesHead,
           RemoveWalks, RemoveFinds, RemoveUnlinks, RemoveFrees
  <1>same. ASSUME head' = head, next' = next, mem' = mem
           PROVE  Linked' /\ [Atomic!Next]_Chain
    BY <1>1, <1>same, SameChain DEF Linked
  <1>place. r \in InChain => \E k \in DOMAIN Chain : Chain[k] = r
    BY DEF InChain
  <1>2. CASE CreateLocksHead(r)
    <2>1. head' = head /\ next' = next /\ mem' = mem
      BY <1>2 DEF CreateLocksHead, listVars
    <2>2. Shape'
      BY <1>1, <1>2, <2>1, SameChain DEF CreateLocksHead, listVars, Goto, LooksAt, Typed, Locks, HeadLock, WithHead, Shape, InList, Unlinking
    <2> QED  BY <1>same, <2>1, <2>2
  <1>3. CASE CreateLocksNode(r)
    <2>1. head' = head /\ next' = next /\ mem' = mem
      BY <1>3 DEF CreateLocksNode, listVars
    <2>2. Shape'
      BY <1>1, <1>3, <2>1, SameChain DEF CreateLocksNode, listVars, Goto, LooksAt, Typed, Locks, HeadLock, WithHead, Shape, InList, Unlinking
    <2> QED  BY <1>same, <2>1, <2>2
  <1>4. CASE CreateAdds(r)
    <2>1. /\ r \notin InChain /\ tmp[r] = head /\ head' = r /\ next' = [next EXCEPT ![r] = head]
          /\ mem' = [mem EXCEPT ![r] = "used"] /\ tmp' = tmp /\ pc' = [pc EXCEPT ![r] = "added"]
      BY <1>1, <1>4 DEF CreateAdds, Goto, Shape, InList
    <2>2. /\ Chain' \in Seq(Rooms) /\ Links(Chain, head, next)' /\ InChain' = InChain \cup {r}
          /\ \A n, q : Before(n, q) => Before(n, q)'
          /\ Atomic!Enters(r)
      BY <1>1, <2>1, AddsToChain
    <2>3. Linked'
      BY <1>1, <2>1, <2>2 DEF Linked, Typed
    <2>4. \A q \in Rooms : q # r => pc[q] \notin WithHead
      BY <1>1, <1>4 DEF Locks, HeadLock, CreateAdds, WithHead
    <2>5. \A n \in InChain : n # r /\ next'[n] = next[n]
      BY <1>1, <2>1 DEF Typed, InChain, Linked
    <2>7. \A q \in Unlinking : tmp[q] # r /\ q # r
      <3>1. \A q \in Unlinking : q # r /\ pc[q] \in {"walk", "unlink"}
        BY <1>4, <2>4 DEF CreateAdds, Unlinking, WithHead
      <3> QED  BY <1>1, <2>1, <3>1 DEF Shape, Before, InChain, Unlinking
    <2>6. Shape'
      BY <1>1, <1>4, <2>1, <2>2, <2>4, <2>5, <2>7 DEF CreateAdds, Typed, WithHead, Shape, InList, Unlinking
    <2> QED  BY <2>2, <2>3, <2>6 DEF Atomic!Next
  <1>5. CASE CreateUnlocks(r)
    <2>1. head' = head /\ next' = next /\ mem' = mem
      BY <1>5 DEF CreateUnlocks, listVars
    <2>2. Shape'
      BY <1>1, <1>5, <2>1, SameChain DEF CreateUnlocks, listVars, Goto, LooksAt, Typed, Locks, HeadLock, WithHead, Shape, InList, Unlinking
    <2> QED  BY <1>same, <2>1, <2>2
  <1>6. CASE RemoveLocksHead(r)
    <2>1. head' = head /\ next' = next /\ mem' = mem
      BY <1>6 DEF RemoveLocksHead, listVars
    <2>2. head # NULL
      BY <1>1, <1>6, <1>place DEF RemoveLocksHead, Shape, InList, Linked, Links
    <2>3. Shape'
      BY <1>1, <1>6, <2>1, <2>2, SameChain, FirstRemover DEF RemoveLocksHead, Goto, LooksAt, Typed, Locks, HeadLock, WithHead, Shape, InList, Unlinking
    <2> QED  BY <1>same, <2>1, <2>3
  <1>7. CASE RemoveLocksNode(r)
    <2>1. head' = head /\ next' = next /\ mem' = mem
      BY <1>7 DEF RemoveLocksNode, listVars
    <2>2. Shape'
      BY <1>1, <1>7, <2>1, SameChain DEF RemoveLocksNode, listVars, Goto, LooksAt, Typed, Locks, HeadLock, WithHead, Shape, InList, Unlinking
    <2> QED  BY <1>same, <2>1, <2>2
  <1>8. CASE RemoveHead(r)
    <2>1. r \in InChain /\ head = r /\ head' = next[r] /\ next' = next /\ mem' = mem
          /\ tmp' = tmp /\ pc' = [pc EXCEPT ![r] = "free"] /\ tmp[r] = r
      BY <1>1, <1>8 DEF RemoveHead, Goto, Shape, InList
    <2>2. 1 \in DOMAIN Chain /\ Chain[1] = r
      BY <1>1, <2>1, <1>place DEF Linked, Links
    <2>3. Links(Without(Chain, 1), head', next')
      BY <1>1, <2>1, <2>2, WithoutFirst DEF Linked
    <2>4. /\ Chain' \in Seq(Rooms) /\ Links(Chain, head, next)' /\ InChain' = InChain \ {r}
          /\ Atomic!Leaves(r)
      BY <1>1, <2>2, <2>3, TakenFromChain
    <2>5. Linked'
      BY <1>1, <2>1, <2>4 DEF Linked
    <2>6. \A q \in Rooms : q # r => pc[q] \notin WithHead /\ q \notin Unlinking
      BY <1>1, <1>8 DEF Locks, HeadLock, RemoveHead, WithHead, Shape, Unlinking
    <2>7. Shape'
      BY <1>1, <1>8, <2>1, <2>4, <2>6 DEF RemoveHead, Typed, WithHead, Shape, InList, Unlinking
    <2> QED  BY <2>4, <2>5, <2>7 DEF Atomic!Next
  <1>9. CASE RemovePassesHead(r)
    <2>1. head' = head /\ next' = next /\ mem' = mem
      BY <1>9 DEF RemovePassesHead, listVars
    <2>2. tmp[r] = head /\ head # r /\ r \in InChain
      BY <1>1, <1>9 DEF RemovePassesHead, Shape, InList
    <2>3. PICK k \in DOMAIN Chain : Chain[k] = r
      BY <2>2, <1>place
    <2>4. 1 \in DOMAIN Chain /\ Chain[1] = head /\ 1 < k
      BY <1>1, <2>2, <2>3 DEF Linked, Links
    <2>5. Before(tmp[r], r)
      BY <2>2, <2>3, <2>4 DEF Before
    <2>6. Shape'
      BY <1>1, <1>9, <2>1, <2>5, SameChain DEF RemovePassesHead, Goto, LooksAt, Typed, Locks, HeadLock, WithHead, Shape, InList, Unlinking
    <2> QED  BY <1>same, <2>1, <2>6
  <1>10. CASE RemoveWalks(r)
    <2>1. head' = head /\ next' = next /\ mem' = mem /\ pc' = pc
          /\ tmp' = [tmp EXCEPT ![r] = next[tmp[r]]] /\ next[tmp[r]] # r /\ pc[r] = "walk"
      BY <1>10 DEF RemoveWalks, WalkGoesOn, LooksAt, listVars
    <2>2. PICK j, k \in DOMAIN Chain : j < k /\ Chain[j] = tmp[r] /\ Chain[k] = r
      BY <1>1, <2>1 DEF Shape, Before
    <2>3. j + 1 \in DOMAIN Chain /\ Chain[j + 1] = next[tmp[r]] /\ j + 1 < k
      <3>1. j + 1 \in DOMAIN Chain /\ j # Len(Chain)
        BY <1>1, <2>2 DEF Linked
      <3>2. Chain[j + 1] = next[tmp[r]]
        BY <1>1, <2>2, <3>1 DEF Linked, Links
      <3>3. j + 1 # k
        BY <2>1, <2>2, <3>2
      <3> QED  BY <1>1, <2>2, <3>1, <3>2, <3>3 DEF Linked
    <2>4. Before(next[tmp[r]], r)
      BY <2>2, <2>3 DEF Before
    <2>6. next[tmp[r]] # head
      <3>1. 1 \in DOMAIN Chain /\ Chain[1] = head /\ j + 1 # 1
        BY <1>1, <2>2, <2>3 DEF Linked, Links
      <3> QED  BY <1>1, <2>3, <3>1 DEF Linked, Links
    <2>5. Shape'
      BY <1>1, <2>1, <2>4, <2>6, SameChain DEF Typed, Shape, InList, Unlinking
    <2> QED  BY <1>same, <2>1, <2>5
  <1>11. CASE RemoveFinds(r)
    <2>1. head' = head /\ next' = next /\ mem' = mem /\ pc[r] = "walk"
          /\ (next[tmp[r]] = NULL \/ next[tmp[r]] = r)
      BY <1>11 DEF RemoveFinds, WalkGoesOn, listVars
    <2>2. PICK j, k \in DOMAIN Chain : j < k /\ Chain[j] = tmp[r] /\ Chain[k] = r
      BY <1>1, <2>1 DEF Shape, Before
    <2>3. j + 1 \in DOMAIN Chain /\ j # Len(Chain)
      BY <1>1, <2>2 DEF Linked
    <2>4. next[tmp[r]] = Chain[j + 1] /\ Chain[j + 1] \in Rooms
      BY <1>1, <2>2, <2>3 DEF Linked, Links
    <2>5. next[tmp[r]] = r /\ tmp[r] \in InChain
      BY <2>1, <2>2, <2>4 DEF InChain
    <2>6. Shape'
      BY <1>1, <1>11, <2>1, <2>5, SameChain DEF RemoveFinds, lockVars, Goto, LooksAt, Typed, Locks, HeadLock, WithHead, Shape, InList, Unlinking
    <2> QED  BY <1>same, <2>1, <2>6
  <1>12. CASE RemoveUnlinks(r)
    <2>1. pc[r] = "unlink" /\ tmp[r] \in InChain /\ next[tmp[r]] = r
      BY <1>1, <1>12 DEF RemoveUnlinks, Shape
    <2>2. head' = head /\ mem' = mem /\ next' = [next EXCEPT ![tmp[r]] = next[r]]
          /\ tmp' = [tmp EXCEPT ![r] = r] /\ pc' = [pc EXCEPT ![r] = "free"]
      BY <1>12, <2>1 DEF RemoveUnlinks, Goto, LooksAt
    <2>3. PICK j \in DOMAIN Chain : Chain[j] = tmp[r]
      BY <2>1 DEF InChain
    <2>4. j + 1 \in DOMAIN Chain /\ Chain[j + 1] = r /\ j + 1 # 1 /\ (j + 1) - 1 = j
      BY <1>1, <2>1, <2>3 DEF Linked, Links
    <2>5. Links(Without(Chain, j + 1), head', next')
      BY <1>1, <2>2, <2>3, <2>4, WithoutLater DEF Linked, Typed
    <2>6. /\ Chain' \in Seq(Rooms) /\ Links(Chain, head, next)' /\ InChain' = InChain \ {r}
          /\ Atomic!Leaves(r)
      BY <1>1, <2>4, <2>5, TakenFromChain
    <2>7. Linked'
      BY <1>1, <2>2, <2>6 DEF Linked
    <2>8. \A q \in Rooms : q # r => q \notin Unlinking
      BY <1>1, <2>1 DEF Shape, Unlinking
    <2>9. Shape'
      BY <1>1, <2>1, <2>2, <2>6, <2>8 DEF Typed, Shape, InList, Unlinking
    <2> QED  BY <2>6, <2>7, <2>9 DEF Atomic!Next
  <1>13. CASE RemoveFrees(r)
    <2>1. head' = head /\ next' = next /\ mem' = [mem EXCEPT ![r] = "freed"] /\ pc[r] = "free"
          /\ tmp' = [tmp EXCEPT ![r] = NULL] /\ pc' = [pc EXCEPT ![r] = "done"]
      BY <1>1, <1>13 DEF RemoveFrees, Goto, LooksAt, Shape
    <2>2. r \notin InChain
      BY <1>1, <2>1 DEF Shape, InList
    <2>3. Linked' /\ Chain' = Chain
      BY <1>1, <2>1, <2>2, SameChain DEF Linked, Typed
    <2>4. Shape'
      BY <1>1, <2>1, SameChain DEF Typed, Shape, InList, Unlinking
    <2> QED  BY <2>3, <2>4
  <1> QED  BY <1>2, <1>3, <1>4, <1>5, <1>6, <1>7, <1>8, <1>9, <1>10, <1>11, <1>12, <1>13 DEF RoomStep


(* A service thread only looks at the list. *)
LEMMA ServiceChain ==
  ASSUME ListShape, NEW s \in Services, ServiceStep(s)
  PROVE  Linked' /\ (Undefined' \/ Shape') /\ Chain' = Chain
  <1> USE ThreadKinds
  <1>1. Typed /\ Locks /\ Linked /\ Shape
    BY DEF ListShape, LockInv, Undefined, ServiceStep, StartsSearch, Searches, ReadsRoom, StartsListing, ListLocks, ListGivesUp, ListUnlocks,
         ListAdvances, ListTurnsPage
  <1>2. head' = head /\ next' = next /\ mem' = mem
    BY DEF ServiceStep, StartsSearch, Searches, ReadsRoom, StartsListing, ListLocks, ListGivesUp, ListUnlocks,
         ListAdvances, ListTurnsPage, listVars
  <1>3. \A r \in Rooms : pc'[r] = pc[r] /\ tmp'[r] = tmp[r]
    BY <1>1 DEF Typed, Goto, LooksAt, ServiceStep,
         StartsSearch, Searches, ReadsRoom, StartsListing, ListLocks, ListGivesUp, ListUnlocks,
         ListAdvances, ListTurnsPage
  <1>4. Linked' /\ Chain' = Chain
    BY <1>1, <1>2, SameChain DEF Linked
  <1>5. Shape'
    BY <1>1, <1>2, <1>3, SameChain DEF Shape, Unlinking
  <1> QED  BY <1>4, <1>5

LEMMA ShapeNext ==
  ASSUME ListShape, ~Overlap', ThreadStep \/ UNCHANGED threadVars, LockInv'
  PROVE  ListShape' /\ [Atomic!Next]_Chain
  <1>1. CASE \E r \in Rooms : RoomStep(r)
    BY <1>1, RoomChain DEF ListShape
  <1>2. CASE \E s \in Services : ServiceStep(s)
    BY <1>2, ServiceChain DEF ListShape
  <1>3. CASE \E t \in Threads : Faults(t)
    <2>1. Undefined'
      BY <1>3 DEF Faults, Undefined
    <2>2. Linked' /\ Chain' = Chain
      BY <1>3, SameChain DEF Faults, listVars, ListShape, Linked
    <2> QED  BY <2>1, <2>2 DEF ListShape
  <1>4. CASE UNCHANGED threadVars
    <2>1. Linked' /\ Chain' = Chain
      BY <1>4, SameChain DEF threadVars, ListShape, Linked
    <2>2. Undefined' \/ Shape'
      BY <1>4, SameChain DEF threadVars, ListShape, Undefined, Shape, Unlinking
    <2> QED  BY <2>1, <2>2 DEF ListShape
  <1> QED  BY <1>1, <1>2, <1>3, <1>4 DEF ThreadStep, Ended

LEMMA ListNext ==
  ListInv /\ [Next]_vars => ListInv' /\ [overlapped' \/ Atomic!Next \/ UNCHANGED Chain]_vars
  <1> SUFFICES ASSUME ListInv, [Next]_vars
               PROVE  ListInv' /\ (overlapped' \/ Atomic!Next \/ UNCHANGED Chain)
    OBVIOUS
  <1>1. LockInv'
    BY LockNext DEF ListInv
  <1>2. CASE UNCHANGED vars
    <2>1. Chain' = Chain
      BY <1>2, SameChain DEF vars, threadVars
    <2>2. ListShape => ListShape'
      <3>1. Linked => Linked'
        BY <1>2, SameChain DEF vars, threadVars, Linked
      <3>2. Undefined \/ Shape => Undefined' \/ Shape'
        BY <1>2, SameChain DEF vars, threadVars, Undefined, Shape, Unlinking
      <3> QED  BY <1>1, <3>1, <3>2 DEF ListShape
    <2> QED  BY <1>1, <1>2, <2>1, <2>2 DEF ListInv, vars
  <1>3. CASE Next
    <2>1. ThreadStep /\ overlapped' = (overlapped \/ Overlap')
      BY <1>3 DEF Next
    <2>2. overlapped' \in BOOLEAN
      BY <2>1 DEF ListInv, Overlap
    <2>3. ~overlapped' => ListShape /\ ~Overlap'
      BY <2>1 DEF ListInv
    <2>4. ~overlapped' => ListShape' /\ [Atomic!Next]_Chain
      BY <1>1, <2>1, <2>3, ShapeNext
    <2> QED  BY <1>1, <2>2, <2>4 DEF ListInv
  <1> QED  BY <1>2, <1>3

LEMMA ListHolds == Spec => []ListInv
  <1>1. Init => ListInv
    BY ListInit, LockInit DEF ListInv, Init
  <1>2. ListInv /\ [Next]_vars => ListInv'
    BY ListNext
  <1> QED  BY <1>1, <1>2, PTL DEF Spec

(* The pointers that the rooms change the list through point to nodes,        *)
(* however many rooms run removeAndDestroyRoomNode at once; and until two do, *)
(* no freed node can be reached from head_pointer and every running room can  *)
(* be, for any number of rooms and of service threads, even after a service   *)
(* thread has used a freed node.                                             *)
THEOREM ListTyped == Spec => []RoomListTypeOK
  <1>1. ListInv => RoomListTypeOK
    BY ThreadKinds DEF ListInv, ListShape, LockInv, Typed, Undefined, Linked, Shape,
       RoomListTypeOK, OnANode, InList
  <1> QED  BY <1>1, ListHolds, PTL

(* Until two rooms run removeAndDestroyRoomNode at once, the list is one      *)
(* whose operations are atomic: createAndAddNewRoom puts one node in front,   *)
(* removeAndDestroyRoomNode takes one out, and nothing else is ever lost or   *)
(* comes back.                                                               *)
THEOREM ListIsAtomic == Spec => ImplementsAtomicList
  <1>1. Init => Atomic!Init
    BY ListInit DEF Atomic!Init
  <1>2. ListInv /\ [Next]_vars => [overlapped' \/ Atomic!Next \/ UNCHANGED Chain]_vars
    BY ListNext
  <1> QED  BY <1>1, <1>2, ListHolds, PTL DEF Spec, ImplementsAtomicList


(* The next step of a room uses no freed node. *)
RoomsUseLiveNodes == ~overlapped => \A r \in Rooms : Uses(Touched(r))

(* Until two rooms run removeAndDestroyRoomNode at once, neither it nor       *)
(* createAndAddNewRoom uses a freed node: what a service thread reads without *)
(* the mutexes (getRoom, getRoomList) is the only use after a free.          *)
THEOREM RoomsUseNoFreedNode == Spec => []RoomsUseLiveNodes
  <1>1. ASSUME ListShape, NEW r \in Rooms PROVE Uses(Touched(r))
    <2> DEFINE n == tmp[r]
               Alive == InChain \cup {NULL}
    <2>1. \A q \in Alive : ~Freed(q)
      BY <1>1, ThreadKinds DEF ListShape, Linked, Freed
    <2>2. head \in Alive
      BY <1>1 DEF ListShape, Linked, Links, InChain
    <2>3. \A q \in InChain : next[q] \in Alive
      BY <1>1 DEF ListShape, Linked, Links, InChain
    <2>4. CASE Undefined
      BY <2>4, ThreadKinds DEF Undefined, Touched, Uses
    <2>5. CASE Shape
      <3> USE ThreadKinds
      <3>1. InChain \subseteq Rooms
        BY <1>1 DEF ListShape, Linked, InChain
      <3>2. pc[r] \in {"create", "remove", "removeHead"} => n \in Alive
        BY <2>2, <2>5 DEF Shape
      <3>3. pc[r] \in {"remove", "removeHead"} => n \in InChain
        BY <1>1, <3>2 DEF ListShape, LockInv, Typed, OnANode
      <3>4. pc[r] \in {"walk", "unlink"} => n \in InChain
        BY <2>5 DEF Shape, Before, InChain
      <3>5. pc[r] = "free" => ~Freed(n)
        BY <2>5 DEF Shape, Freed
      <3>11. pc[r] = "added" => n \in Alive
        BY <2>3, <2>5 DEF Shape, InList
      <3>6. pc[r] \in RoomPlaces
        BY <1>1 DEF ListShape, LockInv, Typed
      <3>7. CASE pc[r] \in {"create", "added", "remove", "free"}
        BY <3>7, <3>2, <3>5, <3>11, <2>1 DEF Touched, Uses
      <3>8. CASE pc[r] \in {"removeHead", "unlink"}
        BY <3>8, <3>1, <3>3, <3>4, <2>1, <2>3 DEF Touched, Uses
      <3>9. CASE pc[r] = "walk"
        BY <3>9, <3>1, <3>4, <2>1, <2>3 DEF Touched, Uses
      <3>10. CASE pc[r] \in {"idle", "add", "run", "done", "undefined"}
        BY <3>10 DEF Touched, Uses
      <3> QED  BY <3>6, <3>7, <3>8, <3>9, <3>10 DEF RoomPlaces
    <2> QED  BY <1>1, <2>4, <2>5 DEF ListShape
  <1>2. ListInv => RoomsUseLiveNodes
    BY <1>1 DEF RoomsUseLiveNodes, ListInv
  <1> QED  BY <1>2, ListHolds, PTL

=============================================================================
