------------------------------ MODULE RoomList ------------------------------
(***************************************************************************)
(* The list of rooms of ListHandler.c, one access at a time: the nodes, the  *)
(* mutex of the head pointer, the mutex in each node, and the threads that   *)
(* use them.  A room thread adds its node (createAndAddNewRoom) and later     *)
(* removes and frees it (removeAndDestroyRoomNode); a service thread walks    *)
(* the list to find a room (getRoom) or to print it (getRoomList).            *)
(*                                                                         *)
(* A node is named by the room thread it belongs to, and so is its ID, which *)
(* is unique in the list (module Lobby).  Whatever a thread does with a freed *)
(* node is undefined: the model records it and goes no further.               *)
(*                                                                         *)
(* Nothing keeps two rooms from removing themselves at once, and the pointer  *)
(* surgery is only right for one at a time: its mutexes are unlocked where    *)
(* they should be locked.  The history variable overlapped tells the          *)
(* behaviours in which that has happened from those in which it has not yet. *)
(***************************************************************************)
EXTENDS Naturals, Sequences, FiniteSets

CONSTANTS
    Rooms,         \* bound: the room threads of one run of the server, and their nodes
    Services,      \* the service threads
    NULL

ASSUME RoomListAssumption ==
    /\ IsFiniteSet(Rooms) /\ NULL \notin Rooms \cup Services
    /\ Rooms \cap Services = {}

VARIABLES
    head,       \* *head_pointer
    next,       \* the next field of each node
    mem,        \* the memory of each node
    head_mutex, \* roomhead_pointer_mutex: the thread that holds it
    node_mutex, \* roomnode_mutex of each node
    pc,         \* where each thread is
    tmp,        \* the node each thread looks at
    overlapped  \* history: two rooms have been taking their nodes out at once

threadVars == <<head, next, mem, head_mutex, node_mutex, pc, tmp>>
vars == <<threadVars, overlapped>>
listVars == <<head, next, mem>>
lockVars == <<head_mutex, node_mutex>>

Threads == Rooms \cup Services

-----------------------------------------------------------------------------
(* Steps of a thread. *)

Goto(t, there) == pc' = [pc EXCEPT ![t] = there]
LooksAt(t, n) == tmp' = [tmp EXCEPT ![t] = n]

(* Unlocking releases the mutex, whoever holds it and if anybody does: the   *)
(* mutexes are of the default type.                                          *)
Released(locks, N) == [n \in Rooms |-> IF n \in N THEN NULL ELSE locks[n]]

Freed(n) == n \in Rooms /\ mem[n] = "freed"

(* A step of t that reads or writes the nodes N; the rest of the step is     *)
(* what it does when they are all alive.                                     *)
Uses(N) == \A n \in N : ~Freed(n)

-----------------------------------------------------------------------------

Init ==
    /\ head = NULL
    /\ next = [r \in Rooms |-> NULL]
    /\ mem = [r \in Rooms |-> "none"]
    /\ head_mutex = NULL /\ node_mutex = [r \in Rooms |-> NULL]
    /\ pc = [t \in Threads |-> "idle"]
    /\ tmp = [t \in Threads |-> NULL]
    /\ overlapped = FALSE

-----------------------------------------------------------------------------
(* createAndAddNewRoom. *)

(* Mutant: the mutex of the head pointer is not taken. *)
CreateTakesNoLock(r) ==
    /\ pc[r] = "idle" /\ mem[r] = "none"
    /\ Goto(r, "create") /\ LooksAt(r, head)
    /\ UNCHANGED <<listVars, lockVars>>

CreateLocksHead(r) ==
    /\ pc[r] = "idle" /\ mem[r] = "none"
    /\ head_mutex = NULL /\ head_mutex' = r
    /\ Goto(r, "create") /\ LooksAt(r, head)
    /\ UNCHANGED <<listVars, node_mutex>>

CreateLocksNode(r) ==
    /\ pc[r] = "create" /\ tmp[r] # NULL
    /\ Uses({tmp[r]}) /\ node_mutex[tmp[r]] = NULL
    /\ node_mutex' = [node_mutex EXCEPT ![tmp[r]] = r]
    /\ Goto(r, "add")
    /\ UNCHANGED <<listVars, head_mutex, tmp>>

(* createNewRoomNode, addRoomToRoomList. *)
CreateAdds(r) ==
    /\ pc[r] = "add" \/ (pc[r] = "create" /\ tmp[r] = NULL)
    /\ mem' = [mem EXCEPT ![r] = "used"]
    /\ next' = [next EXCEPT ![r] = tmp[r]]
    /\ head' = r
    /\ Goto(r, "added")
    /\ UNCHANGED <<lockVars, tmp>>

(* Mutant: what is unlocked is the new head, not the old one. *)
CreateUnlocksNew(r) ==
    /\ pc[r] = "added"
    /\ head_mutex' = NULL
    /\ node_mutex' = Released(node_mutex, {head})
    /\ Goto(r, "run") /\ LooksAt(r, NULL)
    /\ UNCHANGED listVars

CreateUnlocks(r) ==
    /\ pc[r] = "added" /\ Uses({tmp[r]})
    /\ head_mutex' = NULL
    /\ node_mutex' = Released(node_mutex, {tmp[r]})
    /\ Goto(r, "run") /\ LooksAt(r, NULL)
    /\ UNCHANGED listVars

-----------------------------------------------------------------------------
(* removeAndDestroyRoomNode, called by the room thread on its own ID. *)

RemoveLocksHead(r) ==
    /\ pc[r] = "run" /\ head_mutex = NULL
    /\ IF head = NULL
       THEN Goto(r, "done") /\ UNCHANGED <<head_mutex, tmp>>
       ELSE Goto(r, "remove") /\ head_mutex' = r /\ LooksAt(r, head)
    /\ UNCHANGED <<listVars, node_mutex>>

RemoveLocksNode(r) ==
    /\ pc[r] = "remove"
    /\ Uses({tmp[r]}) /\ node_mutex[tmp[r]] = NULL
    /\ node_mutex' = [node_mutex EXCEPT ![tmp[r]] = r]
    /\ Goto(r, "removeHead")
    /\ UNCHANGED <<listVars, head_mutex, tmp>>

RemoveHead(r) ==
    /\ pc[r] = "removeHead" /\ tmp[r] = r /\ Uses({r})
    /\ head' = next[r]
    /\ node_mutex' = Released(node_mutex, {r})
    /\ head_mutex' = NULL
    /\ Goto(r, "free")
    /\ UNCHANGED <<next, mem, tmp>>

(* The mutex of the second node is unlocked where it should be locked. *)
RemovePassesHead(r) ==
    LET n == tmp[r] IN
    /\ pc[r] = "removeHead" /\ n # r
    /\ Uses({n, next[n]})
    /\ head_mutex' = NULL
    /\ node_mutex' = Released(node_mutex, {next[n]})
    /\ Goto(r, "walk")
    /\ UNCHANGED <<listVars, tmp>>

(* while (tmp->next != NULL && tmp->next->id != target_id) *)
WalkGoesOn(n, r) == next[n] # NULL /\ next[n] # r

RemoveWalks(r) ==
    LET n == tmp[r] IN
    /\ pc[r] = "walk" /\ Uses({n, next[n]}) /\ WalkGoesOn(n, r)
    /\ Uses({next[next[n]]})
    /\ node_mutex' = Released(node_mutex, {next[next[n]], n})
    /\ LooksAt(r, next[n])
    /\ UNCHANGED <<listVars, head_mutex, pc>>

RemoveFinds(r) ==
    LET n == tmp[r] IN
    /\ pc[r] = "walk" /\ Uses({n, next[n]}) /\ ~WalkGoesOn(n, r)
    /\ Goto(r, "unlink")
    /\ UNCHANGED <<listVars, lockVars, tmp>>

(* Mutant: the nodes behind are forgotten. *)
RemoveCutsOff(r) ==
    LET n == tmp[r] IN
    /\ pc[r] = "unlink" /\ Uses({n, next[n]}) /\ next[n] # NULL
    /\ node_mutex' = Released(node_mutex, {n, next[n]})
    /\ LooksAt(r, next[n])
    /\ Goto(r, "free") /\ next' = [next EXCEPT ![n] = NULL]
    /\ UNCHANGED <<head, mem, head_mutex>>

(* tmp->next = tmp->next->next, whatever tmp->next is by now.  A room that    *)
(* is not in the list any more finds nothing to unlink.                       *)
RemoveUnlinks(r) ==
    LET n == tmp[r] IN
    /\ pc[r] = "unlink" /\ Uses({n, next[n]})
    /\ node_mutex' = Released(node_mutex, {n, next[n]})
    /\ LooksAt(r, next[n])
    /\ IF next[n] = NULL
       THEN Goto(r, "done") /\ UNCHANGED next
       ELSE Goto(r, "free") /\ next' = [next EXCEPT ![n] = next[next[n]]]
    /\ UNCHANGED <<head, mem, head_mutex>>

RemoveFrees(r) ==
    /\ pc[r] = "free" /\ Uses({tmp[r]})
    /\ mem' = [mem EXCEPT ![tmp[r]] = "freed"]
    /\ Goto(r, "done") /\ LooksAt(r, NULL)
    /\ UNCHANGED <<head, next, lockVars>>

-----------------------------------------------------------------------------
(* getRoom: no mutex; what it finds is used by joinRoom for as long as it    *)
(* likes.  getRoomList: each node is locked while its players are counted,   *)
(* but unlocked before its next field is read.                               *)

StartsSearch(s) ==
    /\ pc[s] = "idle"
    /\ Goto(s, "search") /\ LooksAt(s, head)
    /\ UNCHANGED <<listVars, lockVars>>

Searches(s) ==
    /\ pc[s] = "search"
    /\ IF tmp[s] = NULL THEN Goto(s, "idle") /\ UNCHANGED tmp
       ELSE /\ Uses({tmp[s]})
            /\ \/ Goto(s, "joining") /\ UNCHANGED tmp
               \/ LooksAt(s, next[tmp[s]]) /\ UNCHANGED pc
    /\ UNCHANGED <<listVars, lockVars>>

ReadsRoom(s) ==
    /\ pc[s] = "joining" /\ Uses({tmp[s]})
    /\ Goto(s, "idle") /\ LooksAt(s, NULL)
    /\ UNCHANGED <<listVars, lockVars>>

StartsListing(s) ==
    /\ pc[s] = "idle" /\ head # NULL
    /\ Goto(s, "list") /\ LooksAt(s, head)
    /\ UNCHANGED <<listVars, lockVars>>

(* lockRoomNode: pthread_mutex_trylock, again and again, but not for ever. *)
ListLocks(s) ==
    /\ pc[s] = "list" /\ tmp[s] # NULL /\ Uses({tmp[s]})
    /\ node_mutex[tmp[s]] = NULL
    /\ node_mutex' = [node_mutex EXCEPT ![tmp[s]] = s]
    /\ Goto(s, "listed")
    /\ UNCHANGED <<listVars, head_mutex, tmp>>

ListGivesUp(s) ==
    /\ pc[s] = "list" /\ tmp[s] # NULL /\ Uses({tmp[s]})
    /\ node_mutex[tmp[s]] # NULL
    /\ Goto(s, "idle") /\ LooksAt(s, NULL)
    /\ UNCHANGED <<listVars, lockVars>>

(* A page ends where the list ends or where the buffer is full. *)
ListUnlocks(s) ==
    /\ pc[s] = "listed" /\ Uses({tmp[s]})
    /\ node_mutex' = Released(node_mutex, {tmp[s]})
    /\ \/ next[tmp[s]] # NULL /\ Goto(s, "advance")
       \/ Goto(s, "page")
    /\ UNCHANGED <<listVars, head_mutex, tmp>>

(* tmp = tmp->next, which is locked next even if it has become NULL. *)
ListAdvances(s) ==
    /\ pc[s] = "advance" /\ Uses({tmp[s]})
    /\ Goto(s, "list") /\ LooksAt(s, next[tmp[s]])
    /\ UNCHANGED <<listVars, lockVars>>

ListTurnsPage(s) ==
    /\ pc[s] = "page" /\ Uses({tmp[s]})
    /\ Goto(s, IF next[tmp[s]] = NULL THEN "idle" ELSE "list")
    /\ LooksAt(s, next[tmp[s]])
    /\ UNCHANGED <<listVars, lockVars>>

-----------------------------------------------------------------------------
(* The nodes the next step of t touches. *)
Touched(t) ==
    LET n == tmp[t]
        m == IF n \in Rooms THEN next[n] ELSE NULL
        k == IF m \in Rooms /\ ~Freed(m) THEN next[m] ELSE NULL
    IN  CASE pc[t] \in {"create", "added", "remove", "free", "search", "joining",
                        "list", "listed", "advance", "page"} -> {n}
          [] pc[t] = "removeHead" -> IF n = t THEN {n} ELSE {n, m}
          [] pc[t] = "walk" -> IF Freed(n) \/ Freed(m) \/ ~WalkGoesOn(n, t)
                               THEN {n, m} ELSE {n, m, k}
          [] pc[t] = "unlink" -> {n, m}
          [] OTHER -> {}

(* A thread uses a node that has been freed, or one that is not there:       *)
(* anything may happen.                                                      *)
Faults(t) ==
    /\ ~Uses(Touched(t)) \/ (pc[t] = "list" /\ tmp[t] = NULL)
    /\ pc' = [x \in Threads |-> "undefined"]
    /\ UNCHANGED <<listVars, lockVars, tmp>>

RoomStep(r) ==
    \/ CreateLocksHead(r) \/ CreateLocksNode(r) \/ CreateAdds(r) \/ CreateUnlocks(r)
    \/ RemoveLocksHead(r) \/ RemoveLocksNode(r) \/ RemoveHead(r) \/ RemovePassesHead(r)
    \/ RemoveWalks(r) \/ RemoveFinds(r) \/ RemoveUnlinks(r) \/ RemoveFrees(r)

ServiceStep(s) ==
    \/ StartsSearch(s) \/ Searches(s) \/ ReadsRoom(s)
    \/ StartsListing(s) \/ ListLocks(s) \/ ListGivesUp(s) \/ ListUnlocks(s)
    \/ ListAdvances(s) \/ ListTurnsPage(s)

(* Every room has closed, or a freed node has been used. *)
Ended ==
    /\ \A r \in Rooms : pc[r] \in {"done", "undefined"}
    /\ UNCHANGED threadVars

ThreadStep ==
    \/ \E r \in Rooms : RoomStep(r)
    \/ \E s \in Services : ServiceStep(s)
    \/ \E t \in Threads : Faults(t)
    \/ Ended

(* The rooms that are taking their own nodes out of the list. *)
Unlinking == {r \in Rooms : pc[r] \in {"remove", "removeHead", "walk", "unlink"}}

Overlap == \E r, q \in Unlinking : r # q

Next == ThreadStep /\ overlapped' = (overlapped \/ Overlap')

Spec == Init /\ [][Next]_vars

(* The threads are scheduled and a mutex is granted to one that waits for it *)
(* again and again; no room has to close.                                    *)
FairSpec ==
    /\ Spec
    /\ \A r \in Rooms :
          /\ WF_threadVars(pc[r] \notin {"idle", "run"} /\ (RoomStep(r) \/ Faults(r)))
          /\ SF_threadVars(CreateLocksHead(r))
          /\ SF_threadVars(CreateLocksNode(r))
    /\ \A s \in Services : WF_threadVars(pc[s] # "idle" /\ (ServiceStep(s) \/ Faults(s)))

-----------------------------------------------------------------------------
(* The list as it can be walked from the head: the nodes c are linked from h *)
(* on by the fields nx, each one once.                                       *)
Links(c, h, nx) ==
    /\ \A j, k \in DOMAIN c : c[j] = c[k] => j = k
    /\ h = IF c = << >> THEN NULL ELSE c[1]
    /\ \A k \in DOMAIN c : nx[c[k]] = IF k = Len(c) THEN NULL ELSE c[k + 1]

ChainFrom(h, nx) ==
    CHOOSE c \in UNION {[1 .. n -> Rooms] : n \in 0 .. Cardinality(Rooms)} :
        Links(c, h, nx)

Chain == ChainFrom(head, next)

InChain == LET c == Chain IN {c[k] : k \in DOMAIN c}

Atomic == INSTANCE AtomicList WITH list <- Chain

-----------------------------------------------------------------------------
(* Properties. *)

(* The variables of the list have their types: however many rooms close at   *)
(* once, a room that changes the list through a pointer has one that points   *)
(* to a node.  Until two rooms take their nodes out at once the heap has its *)
(* shape too: no freed node can be reached from head_pointer, and every room  *)
(* that runs can be.                                                         *)
RoomListTypeOK ==
    /\ head \in Rooms \cup {NULL}
    /\ next \in [Rooms -> Rooms \cup {NULL}]
    /\ mem \in [Rooms -> {"none", "used", "freed"}]
    /\ head_mutex \in Rooms \cup {NULL}
    /\ node_mutex \in [Rooms -> Threads \cup {NULL}]
    /\ tmp \in [Threads -> Rooms \cup {NULL}]
    /\ \A r \in Rooms : pc[r] \in {"add", "walk", "unlink", "free"} => tmp[r] \in Rooms
    /\ overlapped \in BOOLEAN
    /\ ~overlapped =>
          /\ \A r \in InChain : mem[r] = "used"
          /\ \A r \in Rooms : pc[r] = "run" => r \in InChain

(* Until two rooms take their nodes out at once, the list implements one      *)
(* whose operations are atomic: nodes enter at the head and leave one by one, *)
(* and none is lost or comes back, whatever rooms are created and whatever    *)
(* services read meanwhile.  After that nothing is promised, and the code     *)
(* keeps nothing of it: two neighbours that leave together leave a freed      *)
(* node behind.                                                              *)
ImplementsAtomicList ==
    Atomic!Init /\ [][overlapped' \/ Atomic!Next \/ UNCHANGED Chain]_vars

(* No thread uses a node that has been freed. *)
NoUseAfterFree == \A t \in Threads : pc[t] # "undefined"

(* A thread that has done its work holds no mutex, so that nobody waits for  *)
(* one in vain.                                                              *)
NoMutexLeftLocked ==
    \A t \in Threads : pc[t] \in {"idle", "run", "done"} =>
        head_mutex # t /\ \A n \in Rooms : node_mutex[n] # t

(* A room that starts gets into the list, whoever comes and goes meanwhile.  *)
CreationsComplete ==
    \A r \in Rooms : pc[r] = "create" ~> pc[r] \in {"run", "undefined"}

=============================================================================
