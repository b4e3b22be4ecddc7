----------------------------- MODULE RoomProofs -----------------------------
(***************************************************************************)
(* Proofs about Room, for any connections, any user names and any word       *)
(* length: its invariants, what one step may do to the suzerain and to the   *)
(* turn, and that every step is one of a match.                              *)
(*                                                                         *)
(* The invariants are proved together, from the inductive invariant IInv.   *)
(* Its heart is ListInv: the list of player nodes is a ring that follows    *)
(* fds.  The one exception is the last player's leaving, which takes its    *)
(* slot out of fds and leaves its node in the list (the closing of the room *)
(* frees nothing of it), hence the disjunct LoneNode.                       *)
(*                                                                         *)
(* What the handlers make of the circular list, of the polled sockets and of *)
(* the flags is what module Match does to the order of arrival, or nothing:  *)
(* the next node of a player is the player that came after it; and no event  *)
(* is handled between the end of a round and the next one, or after the room *)
(* has begun to close.                                                       *)
(***************************************************************************)
EXTENDS Room, TLAPS

FdsDistinct == \A i, j \in DOMAIN fds : fds[i] = fds[j] => i = j

RingOfFds ==
    /\ player_num = Len(fds)
    /\ head = IF fds = << >> THEN NULL ELSE fds[1]
    /\ Linked = Polled
    /\ \A i \in DOMAIN fds : nxt[fds[i]] = fds[Succ(i)]

LoneNode ==
    /\ close_room /\ fds = << >>
    /\ head \in Conns /\ Linked = {head} /\ nxt[head] = head

ListInv == FdsDistinct /\ (RingOfFds \/ LoneNode)

(* When the flags of the two loops may be up. *)
LoopInv ==
    /\ ready # {} => pc \in {"scan", "crashed"}
    /\ pc \in {"top", "poll"} \/ ready # {} => ~next_turn /\ ~close_room
    /\ pc = "scan" /\ close_room => next_turn
    /\ pc = "closed" => close_room

TurnInv == NoDanglingTurn /\ MatchHasSuzerain /\ WordHasGuesser

IInv == TypeOK /\ ListInv /\ LoopInv /\ TurnInv /\ OneReader

-----------------------------------------------------------------------------
(* What the room writes is a sequence of signals for each connection. *)

Outputs == [Conns -> Seq(Signals)]

LEMMA SilenceType == Silence \in Outputs
  BY DEF Silence, Outputs

LEMMA SayType == ASSUME NEW S, NEW sig \in Signals
                 PROVE  Say(S, sig) \in Outputs
  BY DEF Say, Outputs

(* What a rebuilt service thread says, or nothing. *)
LEMMA RebuildsType == ASSUME NEW c, NEW heir PROVE Rebuilds(c, heir) \in Outputs
  BY SayType, SilenceType DEF Rebuilds, Signals

LEMMA JoinType == ASSUME NEW f \in Outputs, NEW g \in Outputs
                  PROVE  f ++ g \in Outputs
  <1>1. \A c \in Conns : f[c] \o g[c] \in Seq(Signals)
    BY DEF Outputs
  <1> QED  BY <1>1 DEF ++, Outputs

-----------------------------------------------------------------------------
(* The ring. *)

LEMMA PolledType == ASSUME fds \in Seq(Conns)
                    PROVE  /\ Polled \subseteq Conns
                           /\ \A i \in DOMAIN fds : fds[i] \in Polled
  BY DEF Polled

(* The node before the i-th one is the one polled just before it. *)
Pred(i) == IF i = 1 THEN Len(fds) ELSE i - 1

LEMMA BeforeSlot ==
  ASSUME TypeOK, FdsDistinct, RingOfFds, NEW i \in DOMAIN fds
  PROVE  /\ Pred(i) \in DOMAIN fds
         /\ Before(fds[i]) = fds[Pred(i)]
  <1>1. Len(fds) \in Nat /\ DOMAIN fds = 1 .. Len(fds)
    BY DEF TypeOK
  <1>2. Pred(i) \in DOMAIN fds /\ Succ(Pred(i)) = i
    BY <1>1 DEF Pred, Succ
  <1>3. fds[Pred(i)] \in Linked /\ nxt[fds[Pred(i)]] = fds[i]
    BY <1>2 DEF RingOfFds, Polled
  <1>4. ASSUME NEW p \in Linked, nxt[p] = fds[i]
        PROVE  p = fds[Pred(i)]
    <2>1. PICK j \in DOMAIN fds : p = fds[j]
      BY DEF RingOfFds, Polled
    <2>2. Succ(j) \in DOMAIN fds /\ fds[Succ(j)] = fds[i]
      BY <1>1, <1>4, <2>1 DEF RingOfFds, Succ
    <2>3. Succ(j) = i
      BY <2>2 DEF FdsDistinct
    <2>4. j = Pred(i)
      BY <1>1, <2>3 DEF Succ, Pred
    <2> QED  BY <2>1, <2>4
  <1> QED  BY <1>2, <1>3, <1>4 DEF Before

(* Appending a new connection to the list and to fds keeps the ring. *)
LEMMA AddKeepsRing ==
  ASSUME TypeOK, FdsDistinct, RingOfFds,
         NEW c \in Conns, c \notin Polled,
         addPlayerToPlayerList(c),
         fds' = Append(fds, c), player_num' = player_num + 1
  PROVE  FdsDistinct' /\ RingOfFds'
  <1>1. Len(fds) \in Nat /\ DOMAIN fds = 1 .. Len(fds)
    BY DEF TypeOK
  <1>2. /\ Len(fds') = Len(fds) + 1 /\ DOMAIN fds' = 1 .. Len(fds) + 1
        /\ \A i \in DOMAIN fds : fds'[i] = fds[i]
        /\ fds'[Len(fds) + 1] = c
    BY DEF TypeOK
  <1>3. \A i \in DOMAIN fds : fds[i] \in Conns /\ fds[i] # c /\ fds[i] # NULL
    BY NullAssumption DEF Polled, TypeOK
  <1>4. FdsDistinct'
    BY <1>1, <1>2, <1>3 DEF FdsDistinct
  <1>5. Polled' = Polled \cup {c}
    BY <1>1, <1>2 DEF Polled
  <1>6. player_num' = Len(fds')
    BY <1>2 DEF RingOfFds
  <1>7. CASE fds = << >>
    <2>1. Len(fds) = 0 /\ head = NULL /\ Linked = {}
      BY <1>7 DEF RingOfFds, Polled
    <2>2. head' = c /\ nxt' = [nxt EXCEPT ![c] = c]
      BY <2>1 DEF addPlayerToPlayerList
    <2>3. Linked' = {c}
      BY <2>1, <2>2, NullAssumption DEF Linked, TypeOK
    <2>4. \A i \in DOMAIN fds' : nxt'[fds'[i]] = fds'[Succ(i)']
      BY <1>2, <2>1, <2>2 DEF Succ, TypeOK
    <2>5. fds' # << >> /\ fds'[1] = c
      BY <1>2, <2>1
    <2>6. Polled = {}
      BY <1>7 DEF Polled
    <2> QED  BY <1>4, <1>5, <1>6, <2>2, <2>3, <2>4, <2>5, <2>6 DEF RingOfFds
  <1>8. CASE fds # << >>
    <2>1. Len(fds) >= 1 /\ 1 \in DOMAIN fds /\ head = fds[1] /\ head # NULL
      <3>1. Len(fds) # 0
        BY <1>8 DEF TypeOK
      <3>2. Len(fds) >= 1 /\ 1 \in DOMAIN fds
        BY <1>1, <3>1
      <3> QED  BY <1>3, <1>8, <3>2 DEF RingOfFds
    <2>2. Before(head) = fds[Len(fds)]
      <3>1. Pred(1) = Len(fds)
        BY DEF Pred
      <3>2. Before(fds[1]) = fds[Pred(1)]
        BY <2>1, BeforeSlot
      <3> QED  BY <2>1, <3>1, <3>2
    <2>3. head' = head /\ nxt' = [nxt EXCEPT ![fds[Len(fds)]] = c, ![c] = head]
      BY <2>1, <2>2 DEF addPlayerToPlayerList
    <2>4. /\ Len(fds) \in DOMAIN fds /\ fds[Len(fds)] \in Conns \ {c}
          /\ head \in Conns
      BY <1>1, <1>3, <2>1
    <2>5. /\ nxt'[c] = head /\ nxt'[fds[Len(fds)]] = c
          /\ \A d \in Conns : d # c /\ d # fds[Len(fds)] => nxt'[d] = nxt[d]
      BY <2>3, <2>4 DEF TypeOK
    <2>6. Linked' = Linked \cup {c}
      <3>1. c # NULL /\ head # NULL /\ fds[Len(fds)] \in Linked
        BY <2>4, NullAssumption DEF RingOfFds, Polled
      <3> QED  BY <2>4, <2>5, <3>1 DEF Linked
    <2>7. ASSUME NEW i \in DOMAIN fds'
          PROVE  nxt'[fds'[i]] = fds'[Succ(i)']
      <3>1. Succ(i)' = IF i = Len(fds) + 1 THEN 1 ELSE i + 1
        BY <1>2 DEF Succ
      <3>2. CASE i = Len(fds) + 1
        BY <1>1, <1>2, <2>1, <2>5, <3>1, <3>2
      <3>3. CASE i = Len(fds)
        <4>1. fds'[i] = fds[Len(fds)] /\ i # Len(fds) + 1
          BY <1>1, <1>2, <2>4, <3>3
        <4> QED  BY <1>2, <2>5, <3>1, <3>3, <4>1
      <3>4. CASE i < Len(fds)
        <4>1. /\ i \in DOMAIN fds /\ i + 1 \in DOMAIN fds
              /\ i # Len(fds) /\ i # Len(fds) + 1
          BY <1>1, <1>2, <3>4
        <4>2. fds[i] # fds[Len(fds)]
          BY <2>4, <4>1 DEF FdsDistinct
        <4>3. nxt[fds[i]] = fds[i + 1]
          BY <4>1 DEF RingOfFds, Succ
        <4>4. nxt'[fds[i]] = nxt[fds[i]]
          BY <1>3, <2>5, <4>1, <4>2
        <4> QED  BY <1>2, <3>1, <4>1, <4>3, <4>4
      <3>5. i \in 1 .. Len(fds) + 1
        BY <1>2, <2>7
      <3>6. i = Len(fds) + 1 \/ i = Len(fds) \/ i < Len(fds)
        BY <1>1, <3>5
      <3> QED  BY <3>2, <3>3, <3>4, <3>6
    <2>8. fds' # << >> /\ fds'[1] = head
      BY <1>1, <1>2, <2>1
    <2> QED  BY <1>4, <1>5, <1>6, <2>1, <2>3, <2>6, <2>7, <2>8 DEF RingOfFds
  <1> QED  BY <1>7, <1>8

(* The arithmetic of the shift: slot j of the shorter array was slot         *)
(* Old(j, i) of the longer one.                                              *)
Old(j, i) == IF j < i THEN j ELSE j + 1
CyclicNext(j, n) == IF j = n THEN 1 ELSE j + 1

LEMMA CyclicNextType ==
  ASSUME NEW n \in Nat, NEW j \in 1 .. n
  PROVE  CyclicNext(j, n) \in 1 .. n
  <1>1. CASE j = n  BY <1>1 DEF CyclicNext
  <1>2. CASE j # n  BY <1>2 DEF CyclicNext
  <1> QED  BY <1>1, <1>2

LEMMA ShiftAtGap ==
  ASSUME NEW n \in Nat, n > 1, NEW i \in 1 .. n, NEW j \in 1 .. n - 1,
         Old(j, i) = IF i = 1 THEN n ELSE i - 1
  PROVE  Old(CyclicNext(j, n - 1), i) = CyclicNext(i, n)
  <1>1. CASE j < i  BY <1>1 DEF Old, CyclicNext
  <1>2. CASE ~(j < i)  BY <1>2 DEF Old, CyclicNext
  <1> QED  BY <1>1, <1>2

LEMMA ShiftElsewhere ==
  ASSUME NEW n \in Nat, n > 1, NEW i \in 1 .. n, NEW j \in 1 .. n - 1,
         Old(j, i) # IF i = 1 THEN n ELSE i - 1
  PROVE  Old(CyclicNext(j, n - 1), i) = CyclicNext(Old(j, i), n)
  <1>1. CASE j < i  BY <1>1 DEF Old, CyclicNext
  <1>2. CASE ~(j < i)  BY <1>2 DEF Old, CyclicNext
  <1> QED  BY <1>1, <1>2

(* Taking a player out of the list and its slot out of fds keeps the ring.   *)
LEMMA RemoveKeepsRing ==
  ASSUME TypeOK, FdsDistinct, RingOfFds,
         NEW i \in DOMAIN fds, Len(fds) > 1,
         removePlayerNode(fds[i]), RemoveSlot(i), player_num' = player_num - 1
  PROVE  /\ FdsDistinct' /\ RingOfFds'
         /\ Polled' = Polled \ {fds[i]}
         /\ fds' \in Seq(Conns) /\ Len(fds') = Len(fds) - 1
  <1> DEFINE n == Len(fds)
  <1>1. n \in Nat /\ n > 1 /\ DOMAIN fds = 1 .. n /\ i \in 1 .. n
    BY DEF TypeOK
  <1>2. /\ fds' \in Seq(Conns) /\ Len(fds') = n - 1 /\ DOMAIN fds' = 1 .. n - 1
        /\ \A j \in 1 .. n - 1 : fds'[j] = fds[Old(j, i)]
    <2>1. \A j \in 1 .. n - 1 : fds[IF j < i THEN j ELSE j + 1] \in Conns
      BY <1>1 DEF TypeOK
    <2>2. fds' = [j \in 1 .. n - 1 |-> fds[Old(j, i)]]
      BY <1>1 DEF RemoveSlot, Old
    <2> QED  BY <1>1, <2>1, <2>2 DEF Old
  <1>3. \A j \in 1 .. n - 1 : Old(j, i) \in 1 .. n /\ Old(j, i) # i
    BY <1>1 DEF Old
  <1>4. \A j, k \in 1 .. n - 1 : Old(j, i) = Old(k, i) => j = k
    BY <1>1 DEF Old
  <1>5. FdsDistinct'
    BY <1>1, <1>2, <1>3, <1>4 DEF FdsDistinct
  <1>6. \A k \in 1 .. n : k # i => \E j \in 1 .. n - 1 : Old(j, i) = k
    <2> SUFFICES ASSUME NEW k \in 1 .. n, k # i
                 PROVE  \E j \in 1 .. n - 1 : Old(j, i) = k
      OBVIOUS
    <2>1. CASE k < i
      <3>1. k \in 1 .. n - 1 /\ Old(k, i) = k
        BY <1>1, <2>1 DEF Old
      <3> QED  BY <3>1
    <2>2. CASE k > i
      <3>1. k - 1 \in 1 .. n - 1 /\ Old(k - 1, i) = k
        BY <1>1, <2>2 DEF Old
      <3> QED  BY <3>1
    <2> QED  BY <1>1, <2>1, <2>2
  <1>7. Polled' = Polled \ {fds[i]}
    <2>1. ASSUME NEW c \in Polled' PROVE c \in Polled \ {fds[i]}
      <3>1. PICK j \in 1 .. n - 1 : c = fds[Old(j, i)]
        BY <1>2 DEF Polled
      <3> QED  BY <1>1, <1>3, <3>1 DEF Polled, FdsDistinct
    <2>2. ASSUME NEW c \in Polled \ {fds[i]} PROVE c \in Polled'
      <3>1. PICK k \in 1 .. n : c = fds[k] /\ k # i
        BY <1>1 DEF Polled
      <3>2. PICK j \in 1 .. n - 1 : Old(j, i) = k
        BY <1>6, <3>1
      <3> QED  BY <1>2, <3>1, <3>2 DEF Polled
    <2> QED  BY <2>1, <2>2
  <1> DEFINE p == fds[Pred(i)]
  <1>8. /\ Pred(i) \in 1 .. n /\ Pred(i) # i
        /\ Before(fds[i]) = p /\ p # fds[i]
    <2>1. Pred(i) \in DOMAIN fds /\ Before(fds[i]) = p
      BY BeforeSlot
    <2>2. Pred(i) # i
      BY <1>1 DEF Pred
    <2> QED  BY <1>1, <2>1, <2>2 DEF FdsDistinct
  <1>9. \A k \in 1 .. n : fds[k] \in Conns /\ fds[k] # NULL
    BY <1>1, NullAssumption DEF TypeOK
  <1>10. Succ(i) \in 1 .. n /\ Succ(i) # i /\ nxt[fds[i]] = fds[Succ(i)]
    BY <1>1 DEF Succ, RingOfFds
  <1>11. nxt' = [nxt EXCEPT ![p] = fds[Succ(i)], ![fds[i]] = NULL]
    BY <1>8, <1>10 DEF removePlayerNode
  <1>12. Linked' = Linked \ {fds[i]}
    BY <1>1, <1>8, <1>9, <1>10, <1>11 DEF Linked, TypeOK, RingOfFds, Polled
  <1>13. head' = fds'[1] /\ fds' # << >>
    <2>1. nxt[fds[i]] # fds[i]
      BY <1>1, <1>10 DEF FdsDistinct
    <2>2. CASE i = 1
      <3>1. head = fds[i] /\ fds'[1] = fds[2] /\ Succ(i) = 2
        BY <1>1, <1>2, <2>2 DEF RingOfFds, Succ, Old
      <3> QED  BY <1>1, <1>2, <1>10, <2>1, <3>1 DEF removePlayerNode
    <2>3. CASE i # 1
      <3>1. head = fds[1] /\ head # fds[i] /\ fds'[1] = fds[1]
        BY <1>1, <1>2, <2>3 DEF RingOfFds, FdsDistinct, Old
      <3> QED  BY <1>1, <1>2, <3>1 DEF removePlayerNode
    <2> QED  BY <2>2, <2>3
  <1>14. ASSUME NEW j \in 1 .. n - 1
         PROVE  nxt'[fds'[j]] = fds'[Succ(j)']
    <2> DEFINE s == CyclicNext(j, n - 1)
    <2>1. fds'[j] = fds[Old(j, i)] /\ Old(j, i) \in 1 .. n /\ Old(j, i) # i
      BY <1>2, <1>3
    <2>2. fds[Old(j, i)] # fds[i]
      BY <1>1, <2>1 DEF FdsDistinct
    <2>3. Succ(j)' = s
      BY <1>2 DEF Succ, CyclicNext
    <2>4. s \in 1 .. n - 1
      <3>1. n - 1 \in Nat
        BY <1>1
      <3> QED  BY <1>14, <3>1, CyclicNextType
    <2>5. fds'[s] = fds[Old(s, i)]
      BY <1>2, <2>4
    <2>6. CASE Old(j, i) = Pred(i)
      <3>1. nxt'[fds'[j]] = fds[Succ(i)]
        BY <1>9, <1>11, <2>1, <2>2, <2>6 DEF TypeOK
      <3>2. Old(s, i) = Succ(i)
        BY <1>1, <1>14, <2>6, ShiftAtGap DEF Pred, Succ, CyclicNext
      <3> HIDE DEF s
      <3> QED  BY <2>3, <2>5, <3>1, <3>2
    <2>7. CASE Old(j, i) # Pred(i)
      <3>1. fds[Old(j, i)] # p
        BY <1>1, <1>8, <2>1, <2>7 DEF FdsDistinct
      <3>2. nxt'[fds'[j]] = nxt[fds[Old(j, i)]]
        BY <1>9, <1>11, <2>1, <2>2, <3>1 DEF TypeOK
      <3>3. nxt[fds[Old(j, i)]] = fds[Succ(Old(j, i))]
        BY <1>1, <2>1 DEF RingOfFds
      <3>4. Old(s, i) = Succ(Old(j, i))
        BY <1>1, <1>14, <2>1, <2>7, ShiftElsewhere DEF Pred, Succ, CyclicNext
      <3> HIDE DEF s
      <3> QED  BY <2>3, <2>5, <3>2, <3>3, <3>4
    <2> QED  BY <2>6, <2>7
  <1>15. player_num' = Len(fds')
    BY <1>1, <1>2 DEF RingOfFds
  <1>16. RingOfFds'
    BY <1>2, <1>7, <1>12, <1>13, <1>14, <1>15 DEF RingOfFds
  <1> QED  BY <1>2, <1>5, <1>7, <1>16

-----------------------------------------------------------------------------
(* The turn. *)

LEMMA NextLinked ==
  ASSUME TypeOK, ListInv, NEW c \in Linked
  PROVE  nxt[c] \in Linked /\ nxt[c] \in Conns
  <1>1. CASE RingOfFds
    <2>1. PICK i \in DOMAIN fds : c = fds[i]
      BY <1>1 DEF RingOfFds, Polled
    <2>2. Succ(i) \in DOMAIN fds
      BY DEF TypeOK, Succ
    <2>3. nxt[c] = fds[Succ(i)]
      BY <1>1, <2>1 DEF RingOfFds
    <2> QED  BY <1>1, <2>2, <2>3 DEF RingOfFds, Polled, Linked
  <1>2. CASE LoneNode
    BY <1>2 DEF LoneNode, Linked
  <1> QED  BY <1>1, <1>2 DEF ListInv

LEMMA NextOfMany ==
  ASSUME TypeOK, FdsDistinct, RingOfFds, Len(fds) > 1, NEW c \in Linked
  PROVE  nxt[c] # c
  <1>1. PICK i \in DOMAIN fds : c = fds[i]
    BY DEF RingOfFds, Polled
  <1>2. Succ(i) \in DOMAIN fds /\ Succ(i) # i /\ nxt[c] = fds[Succ(i)]
    BY <1>1 DEF TypeOK, Succ, RingOfFds
  <1> QED  BY <1>1, <1>2 DEF FdsDistinct

(* moveSuzerainTurn and movePlayerTurn stay in the list. *)
LEMMA MovesLinked ==
  ASSUME TypeOK, ListInv, NEW c \in Linked, NEW s
  PROVE  /\ moveSuzerainTurn(c) \in Linked \cup {NULL}
         /\ movePlayerTurn(c, s) \in Linked
  BY NextLinked DEF moveSuzerainTurn, movePlayerTurn

(* A suzerain that times out among several players passes on the role. *)
LEMMA SuzerainMovesOn ==
  ASSUME TypeOK, ListInv, Len(fds) > 1, NEW c \in Linked
  PROVE  moveSuzerainTurn(c) # NULL
  <1>1. RingOfFds /\ FdsDistinct
    BY DEF ListInv, LoneNode
  <1> QED  BY <1>1, NextOfMany, NextLinked, NullAssumption DEF moveSuzerainTurn

LEMMA AddHintType == ASSUME TypeOK, NEW hint, addHint(hint)
                     PROVE  current_unveil' \in 0 .. WordLen
  BY WordLenAssumption DEF addHint, TypeOK

LEMMA InitIInv == Init => IInv
  <1> SUFFICES ASSUME Init PROVE IInv
    OBVIOUS
  <1> USE DEF Init
  <1>1. TypeOK
    <2>1. out \in [Conns -> Seq(Signals)]
      BY SilenceType DEF Outputs
    <2>2. fds \in Seq(Conns) /\ ready \subseteq 0 .. Len(fds)
      OBVIOUS
    <2>3. nxt \in [Conns -> Conns \cup {NULL}]
      OBVIOUS
    <2>4. owner \in [Conns -> {"service", "room", "nobody"}]
      OBVIOUS
    <2> QED  BY <2>1, <2>2, <2>3, <2>4 DEF TypeOK
  <1>2. ListInv
    BY DEF ListInv, FdsDistinct, RingOfFds, Linked, Polled
  <1>3. LoopInv
    BY DEF LoopInv
  <1>4. TurnInv
    BY DEF TurnInv, NoDanglingTurn, MatchHasSuzerain, WordHasGuesser
  <1>5. OneReader
    <2>1. Polled = {}
      BY DEF Polled
    <2> QED  BY <2>1 DEF OneReader
  <1> QED  BY <1>1, <1>2, <1>3, <1>4, <1>5 DEF IInv

(* Steps that leave the list, the turn holders and the owners alone. *)
Quiet == UNCHANGED <<listVars, hintVars, suzerain, current_player, owner>>

LEMMA QuietInv ==
  ASSUME ListInv, TurnInv, OneReader, Quiet,
         close_room => close_room',
         word_is_selected' /\ ~next_turn' => word_is_selected /\ ~next_turn,
         pc' = "closed" <=> pc = "closed"
  PROVE  ListInv' /\ TurnInv' /\ OneReader'
  <1> USE DEF Quiet, listVars
  <1>1. ListInv'
    BY DEF ListInv, FdsDistinct, RingOfFds, LoneNode, Linked, Polled, Succ
  <1>2. TurnInv'
    BY DEF TurnInv, NoDanglingTurn, MatchHasSuzerain, WordHasGuesser, Linked
  <1>3. OneReader'
    BY DEF OneReader, Polled
  <1> QED  BY <1>1, <1>2, <1>3

LEMMA ScanFacts ==
  ASSUME IInv, NEW i, Scanning(i)
  PROVE  /\ ~next_turn /\ ~close_room /\ pc = "scan"
         /\ FdsDistinct /\ RingOfFds
         /\ i # 0 => i \in DOMAIN fds /\ fds[i] \in Conns /\ fds[i] \in Linked
  <1>1. ~next_turn /\ ~close_room /\ pc = "scan" /\ FdsDistinct /\ RingOfFds
    BY DEF Scanning, IInv, LoopInv, ListInv, LoneNode
  <1>2. i # 0 => i \in DOMAIN fds
    BY DEF Scanning, IInv, TypeOK
  <1> QED  BY <1>1, <1>2 DEF IInv, TypeOK, RingOfFds, Polled

LEMMA NewTurnInv == IInv /\ NewTurn => IInv'
  <1> SUFFICES ASSUME IInv, NewTurn PROVE IInv'
    OBVIOUS
  <1> USE DEF IInv
  <1>1. Say({current_player}, "NOTYOURTURN") \in Outputs
    BY SayType DEF Signals
  <1>2. TypeOK'
    BY <1>1 DEF NewTurn, TypeOK, Outputs, listVars, hintVars
  <1>3. LoopInv'
    BY DEF NewTurn, LoopInv
  <1>4. ListInv' /\ TurnInv' /\ OneReader'
    BY QuietInv DEF NewTurn, Quiet
  <1> QED  BY <1>2, <1>3, <1>4

LEMMA AskSuzerainInv == IInv /\ AskSuzerain => IInv'
  <1> SUFFICES ASSUME IInv, AskSuzerain PROVE IInv'
    OBVIOUS
  <1> USE DEF IInv
  <1>1. Say({suzerain}, "CHOOSEWORD") \in Outputs
    BY SayType DEF Signals
  <1>2. TypeOK'
    BY <1>1, SilenceType DEF AskSuzerain, MustAskSuzerain, TypeOK, Outputs,
                             listVars, hintVars
  <1>3. LoopInv'
    BY DEF AskSuzerain, LoopInv
  <1>4. ListInv' /\ TurnInv' /\ OneReader'
    BY QuietInv DEF AskSuzerain, Quiet
  <1> QED  BY <1>2, <1>3, <1>4

LEMMA PollFailsInv == IInv /\ PollFails => IInv'
  <1> SUFFICES ASSUME IInv, PollFails PROVE IInv'
    OBVIOUS
  <1> USE DEF IInv
  <1>1. TypeOK'
    BY SilenceType DEF PollFails, TypeOK, Outputs, listVars, turnVars, hintVars
  <1>2. LoopInv'
    BY DEF PollFails, LoopInv
  <1>3. ListInv' /\ TurnInv' /\ OneReader'
    BY QuietInv DEF PollFails, Quiet, turnVars
  <1> QED  BY <1>1, <1>2, <1>3

LEMMA PollReturnsInv ==
  ASSUME IInv, NEW R \in SUBSET (0 .. Len(fds)), PollReturns(R)
  PROVE  IInv'
  <1> USE DEF IInv
  <1>1. TypeOK'
    BY SilenceType DEF PollReturns, TypeOK, Outputs, listVars, turnVars, hintVars
  <1>2. LoopInv'
    BY DEF PollReturns, LoopInv
  <1>3. ListInv' /\ TurnInv' /\ OneReader'
    BY QuietInv DEF PollReturns, Quiet, turnVars
  <1> QED  BY <1>1, <1>2, <1>3

LEMMA SlotFailsInv == ASSUME IInv, NEW i, SlotFails(i) PROVE IInv'
  <1> USE DEF IInv
  <1>1. TypeOK'
    BY SilenceType DEF SlotFails, StopScan, TypeOK, Outputs, listVars, turnVars,
                       hintVars
  <1>2. LoopInv'
    BY DEF SlotFails, Scanning, StopScan, LoopInv
  <1>3. ListInv' /\ TurnInv' /\ OneReader'
    BY QuietInv DEF SlotFails, Quiet, turnVars
  <1> QED  BY <1>1, <1>2, <1>3

(* The handlers that answer, or ignore, one event and go on with the scan.   *)
LEMMA GoOnInv ==
  ASSUME IInv, NEW i, Scanning(i), GoOn(i), out' \in Outputs,
         UNCHANGED <<pc, listVars, hintVars, suzerain, current_player,
                     next_turn, close_room, owner>>,
         word_is_selected' \in BOOLEAN, word_is_selected' => word_is_selected,
         word_is_sent' \in BOOLEAN
  PROVE  IInv'
  <1> USE DEF IInv
  <1>1. TypeOK'
    BY DEF GoOn, TypeOK, Outputs, listVars, hintVars
  <1>2. LoopInv'
    BY DEF GoOn, Scanning, LoopInv
  <1>3. ListInv' /\ TurnInv' /\ OneReader'
    BY QuietInv DEF Quiet
  <1> QED  BY <1>1, <1>2, <1>3

LEMMA JoinRefusedInv == ASSUME IInv, NEW c, JoinRefused(c) PROVE IInv'
  BY GoOnInv, SilenceType DEF JoinRefused, turnVars, IInv, TypeOK

LEMMA OutOfPlaceInv == ASSUME IInv, NEW i, OutOfPlace(i) PROVE IInv'
  <1>1. Say({fds[i]}, "NOPERMISSION") \in Outputs
    BY SayType DEF Signals
  <1> QED  BY <1>1, GoOnInv DEF OutOfPlace, turnVars, IInv, TypeOK

LEMMA SelectIgnoredInv == ASSUME IInv, NEW i, SelectIgnored(i) PROVE IInv'
  BY GoOnInv, SilenceType DEF SelectIgnored, turnVars, IInv, TypeOK

LEMMA SelectMalformedInv == ASSUME IInv, NEW i, SelectMalformed(i) PROVE IInv'
  BY GoOnInv, SilenceType DEF SelectMalformed, IInv, TypeOK

LEMMA GuessCrashesInv == ASSUME IInv, NEW i, GuessCrashes(i) PROVE IInv'
  <1> USE DEF IInv
  <1>1. TypeOK'
    BY SilenceType DEF GuessCrashes, StopScan, TypeOK, Outputs, listVars,
                       turnVars, hintVars
  <1>2. LoopInv'
    BY DEF GuessCrashes, Scanning, StopScan, LoopInv
  <1>3. ListInv' /\ TurnInv' /\ OneReader'
    BY QuietInv DEF GuessCrashes, Scanning, Quiet, turnVars
  <1> QED  BY <1>1, <1>2, <1>3

LEMMA ScanEndsInv == IInv /\ ScanEnds => IInv'
  <1> SUFFICES ASSUME IInv, ScanEnds PROVE IInv'
    OBVIOUS
  <1> USE DEF IInv
  <1>1. TypeOK'
    BY SilenceType DEF ScanEnds, TypeOK, Outputs, listVars, turnVars, hintVars
  <1>2. LoopInv'
    BY DEF ScanEnds, LoopInv
  <1>3. ListInv' /\ TurnInv' /\ OneReader'
    BY QuietInv DEF ScanEnds, Quiet, turnVars
  <1> QED  BY <1>1, <1>2, <1>3

LEMMA CloseRoomInv == IInv /\ CloseRoom => IInv'
  <1> SUFFICES ASSUME IInv, CloseRoom PROVE IInv'
    OBVIOUS
  <1> USE DEF IInv, CloseRoom, listVars, turnVars, hintVars
  <1>1. \A S \in SUBSET Polled : Say(S, "HOMEPAGEOK") \in Outputs
    BY SayType DEF Signals
  <1>2. TypeOK'
    BY <1>1 DEF TypeOK, Outputs
  <1>3. LoopInv'
    BY DEF LoopInv
  <1>4. ListInv'
    BY DEF ListInv, FdsDistinct, RingOfFds, LoneNode, Linked, Polled, Succ
  <1>5. TurnInv'
    BY DEF TurnInv, NoDanglingTurn, MatchHasSuzerain, WordHasGuesser, Linked
  <1>6. OneReader'
    BY DEF OneReader, TypeOK
  <1> QED  BY <1>2, <1>3, <1>4, <1>5, <1>6

(* The handlers that move the turn and leave the list alone. *)
LEMMA ListKept ==
  ASSUME ListInv, OneReader, UNCHANGED <<listVars, owner>>,
         close_room => close_room', pc' = "closed" <=> pc = "closed"
  PROVE  ListInv' /\ OneReader' /\ Linked' = Linked /\ Len(fds') = Len(fds)
  <1> USE DEF listVars
  <1>1. ListInv'
    BY DEF ListInv, FdsDistinct, RingOfFds, LoneNode, Linked, Polled, Succ
  <1>2. OneReader'
    BY DEF OneReader, Polled
  <1> QED  BY <1>1, <1>2 DEF Linked

LEMMA SelectWordInv == ASSUME IInv, NEW i, SelectWord(i) PROVE IInv'
  <1> USE DEF IInv
  <1>1. /\ ~next_turn /\ ~close_room /\ i \in DOMAIN fds
        /\ fds[i] \in Linked
    BY ScanFacts DEF SelectWord
  <1>2. suzerain = fds[i] /\ nxt[suzerain] \in Linked /\ nxt[suzerain] \in Conns
    BY <1>1, NextLinked DEF SelectWord, getPlayer, Linked
  <1>3. Say(Polled, "NEWGAME") ++ Say({nxt[suzerain]}, "YOURTURN") \in Outputs
    BY SayType, JoinType DEF Signals
  <1>4. TypeOK'
    <2>1. (IF WordLen > 1 THEN 1 ELSE 0) \in 0 .. WordLen
      BY WordLenAssumption
    <2> QED  BY <1>2, <1>3, <2>1 DEF SelectWord, GoOn, TypeOK, Outputs, listVars
  <1>5. LoopInv'
    BY DEF SelectWord, Scanning, GoOn, LoopInv
  <1>6. ListInv' /\ OneReader' /\ Linked' = Linked /\ Len(fds') = Len(fds)
    BY ListKept DEF SelectWord
  <1>7. TurnInv'
    BY <1>2, <1>6, NullAssumption DEF SelectWord, TurnInv, NoDanglingTurn,
       MatchHasSuzerain, WordHasGuesser
  <1> QED  BY <1>4, <1>5, <1>6, <1>7

LEMMA GuessHitsInv == ASSUME IInv, NEW i, GuessHits(i) PROVE IInv'
  <1> USE DEF IInv
  <1>1. /\ ~next_turn /\ ~close_room /\ i \in DOMAIN fds
        /\ fds[i] \in Linked /\ fds[i] \in Conns
    BY ScanFacts DEF GuessHits
  <1>2. suzerain' = fds[i]
    BY <1>1 DEF GuessHits, getPlayer, Linked
  <1>3. Say({fds[i]}, "VICTORY") ++ Say(Polled \ {fds[i]}, "DEFEAT") \in Outputs
    BY SayType, JoinType DEF Signals
  <1>4. TypeOK'
    BY <1>1, <1>2, <1>3 DEF GuessHits, StopScan, TypeOK, Outputs, listVars, hintVars
  <1>5. LoopInv'
    BY DEF GuessHits, Scanning, StopScan, LoopInv
  <1>6. ListInv' /\ OneReader' /\ Linked' = Linked /\ Len(fds') = Len(fds)
    BY ListKept DEF GuessHits
  <1>7. TurnInv'
    BY <1>1, <1>2, <1>6, NullAssumption DEF GuessHits, TurnInv, NoDanglingTurn,
       MatchHasSuzerain, WordHasGuesser
  <1> QED  BY <1>4, <1>5, <1>6, <1>7

(* Moving the turn on: the next player is in the list. *)
LEMMA AdvanceTurnFacts ==
  ASSUME TypeOK, ListInv, NoDanglingTurn, current_player # NULL, AdvanceTurn
  PROVE  /\ current_player' \in Linked /\ current_player' \in Conns
         /\ current_unveil' \in 0 .. WordLen
         /\ selected_word_len' = selected_word_len
         /\ AdvanceTurnSays \in Outputs
  <1>1. current_player' \in Linked
    BY MovesLinked DEF AdvanceTurn, NoDanglingTurn
  <1>2. current_unveil' \in 0 .. WordLen
    BY AddHintType DEF AdvanceTurn
  <1>3. \A S, h : SayHint(S, h) \in Outputs
    <2> SUFFICES ASSUME NEW S, NEW h PROVE SayHint(S, h) \in Outputs
      OBVIOUS
    <2>1. Say(S, "NEWHINT") \in Outputs
      BY SayType DEF Signals
    <2> QED  BY <2>1, SilenceType DEF SayHint
  <1>4. AdvanceTurnSays \in Outputs
    BY <1>3, SayType, JoinType DEF AdvanceTurnSays, Signals
  <1> QED  BY <1>1, <1>2, <1>4 DEF AdvanceTurn, Linked

LEMMA GuessMissesInv == ASSUME IInv, NEW i, GuessMisses(i) PROVE IInv'
  <1> USE DEF IInv
  <1>1. ~next_turn /\ ~close_room
    BY ScanFacts DEF GuessMisses
  <1>2. /\ current_player' \in Linked /\ current_player' \in Conns
        /\ current_unveil' \in 0 .. WordLen
        /\ selected_word_len' = selected_word_len
        /\ AdvanceTurnSays \in Outputs
    BY AdvanceTurnFacts DEF GuessMisses, TurnInv
  <1>3. out' \in Outputs
    BY <1>2, SayType, JoinType DEF GuessMisses, Signals
  <1>4. TypeOK'
    BY <1>2, <1>3 DEF GuessMisses, StopScan, TypeOK, Outputs, listVars
  <1>5. LoopInv'
    BY DEF GuessMisses, Scanning, StopScan, LoopInv
  <1>6. ListInv' /\ OneReader' /\ Linked' = Linked /\ Len(fds') = Len(fds)
    BY ListKept DEF GuessMisses
  <1>7. TurnInv'
    BY <1>2, <1>6, NullAssumption DEF GuessMisses, TurnInv, NoDanglingTurn,
       MatchHasSuzerain, WordHasGuesser
  <1> QED  BY <1>4, <1>5, <1>6, <1>7

(* The timeout routines, of poll() and of the clock. *)
LEMMA TimeoutFacts ==
  ASSUME TypeOK, ListInv, TurnInv, UNCHANGED listVars,
         \/ SuzerainLate /\ SuzerainTimesOut
         \/ ~SuzerainLate /\ PlayerTimesOut
  PROVE  /\ {suzerain', current_player'} \subseteq Linked \cup {NULL}
         /\ Len(fds) > 1 => suzerain' # NULL
         /\ current_player # NULL => current_player' # NULL
         /\ UNCHANGED <<word_is_selected, word_is_sent, selected_word_len>>
         /\ current_unveil' \in 0 .. WordLen
         /\ out' \in Outputs
  <1>1. CASE SuzerainLate /\ SuzerainTimesOut
    <2>1. suzerain \in Linked
      BY <1>1 DEF SuzerainLate, TurnInv, NoDanglingTurn
    <2>2. Say({suzerain}, "TURNTIMEOUT") \in Outputs
      BY SayType DEF Signals
    <2>3. suzerain' \in Linked \cup {NULL} /\ (Len(fds) > 1 => suzerain' # NULL)
      BY <1>1, <2>1, MovesLinked, SuzerainMovesOn DEF SuzerainTimesOut
    <2> QED  BY <1>1, <2>2, <2>3
             DEF SuzerainTimesOut, TurnInv, NoDanglingTurn, TypeOK, hintVars
  <1>2. CASE ~SuzerainLate /\ PlayerTimesOut /\ current_player # NULL
    <2>1. /\ current_player' \in Linked /\ current_player' \in Conns
          /\ current_unveil' \in 0 .. WordLen
          /\ selected_word_len' = selected_word_len
          /\ AdvanceTurnSays \in Outputs
      BY <1>2, AdvanceTurnFacts DEF PlayerTimesOut, TurnInv
    <2>2. out' \in Outputs
      BY <1>2, <2>1, SayType, JoinType DEF PlayerTimesOut, Signals
    <2> QED  BY <1>2, <2>1, <2>2, NullAssumption
             DEF PlayerTimesOut, TurnInv, NoDanglingTurn, MatchHasSuzerain
  <1>3. CASE ~SuzerainLate /\ PlayerTimesOut /\ current_player = NULL
    BY <1>3, SilenceType
    DEF PlayerTimesOut, TurnInv, NoDanglingTurn, MatchHasSuzerain, TypeOK, hintVars
  <1> QED  BY <1>1, <1>2, <1>3

LEMMA PollTimesOutInv == IInv /\ PollTimesOut => IInv'
  <1> SUFFICES ASSUME IInv, PollTimesOut PROVE IInv'
    OBVIOUS
  <1> USE DEF IInv
  <1>1. /\ {suzerain', current_player'} \subseteq Linked \cup {NULL}
        /\ Len(fds) > 1 => suzerain' # NULL
        /\ current_player # NULL => current_player' # NULL
        /\ UNCHANGED <<word_is_selected, word_is_sent, selected_word_len>>
        /\ current_unveil' \in 0 .. WordLen
        /\ out' \in Outputs
    BY TimeoutFacts DEF PollTimesOut
  <1>2. TypeOK'
    BY <1>1 DEF PollTimesOut, TypeOK, Outputs, listVars, Linked
  <1>3. LoopInv'
    BY DEF PollTimesOut, LoopInv
  <1>4. ListInv' /\ OneReader' /\ Linked' = Linked /\ Len(fds') = Len(fds)
    BY ListKept DEF PollTimesOut
  <1>5. TurnInv'
    BY <1>1, <1>4 DEF PollTimesOut, TurnInv, NoDanglingTurn, MatchHasSuzerain,
                      WordHasGuesser
  <1> QED  BY <1>2, <1>3, <1>4, <1>5

LEMMA ClockExpiresInv == IInv /\ ClockExpires => IInv'
  <1> SUFFICES ASSUME IInv, ClockExpires PROVE IInv'
    OBVIOUS
  <1> USE DEF IInv
  <1>1. /\ {suzerain', current_player'} \subseteq Linked \cup {NULL}
        /\ Len(fds) > 1 => suzerain' # NULL
        /\ current_player # NULL => current_player' # NULL
        /\ UNCHANGED <<word_is_selected, word_is_sent, selected_word_len>>
        /\ current_unveil' \in 0 .. WordLen
        /\ out' \in Outputs
    BY TimeoutFacts DEF ClockExpires
  <1>2. next_turn' \in BOOLEAN /\ (next_turn => next_turn')
    BY DEF ClockExpires, SuzerainLate, TypeOK
  <1>3. TypeOK'
    BY <1>1, <1>2 DEF ClockExpires, TypeOK, Outputs, listVars, Linked
  <1>4. LoopInv'
    BY <1>2 DEF ClockExpires, LoopInv
  <1>5. ListInv' /\ OneReader' /\ Linked' = Linked /\ Len(fds') = Len(fds)
    BY ListKept DEF ClockExpires
  <1>6. TurnInv'
    BY <1>1, <1>2, <1>5 DEF TurnInv, NoDanglingTurn, MatchHasSuzerain,
                            WordHasGuesser
  <1> QED  BY <1>3, <1>4, <1>5, <1>6

-----------------------------------------------------------------------------
(* Coming and going. *)

LEMMA JoinInv == ASSUME IInv, NEW c \in Conns, Join(c) PROVE IInv'
  <1> USE DEF IInv
  <1>1. ~next_turn /\ ~close_room /\ pc = "scan" /\ FdsDistinct /\ RingOfFds
    BY ScanFacts DEF Join
  <1>2. c \notin Polled /\ c # NULL
    BY <1>1, NullAssumption DEF Join, OneReader
  <1>3. FdsDistinct' /\ RingOfFds'
    BY <1>1, <1>2, AddKeepsRing DEF Join
  <1>4. Len(fds) \in Nat /\ Len(fds') = Len(fds) + 1 /\ fds' \in Seq(Conns)
    BY DEF Join, TypeOK
  <1>5. Polled' = Polled \cup {c}
    <2>1. \A i \in 1 .. Len(fds) : fds'[i] = fds[i]
      BY DEF Join, TypeOK
    <2>2. fds'[Len(fds) + 1] = c /\ DOMAIN fds' = 1 .. Len(fds) + 1
      BY DEF Join, TypeOK
    <2>3. DOMAIN fds = 1 .. Len(fds)
      BY DEF TypeOK
    <2>4. Polled \cup {c} \subseteq Polled'
      BY <1>4, <2>1, <2>2, <2>3 DEF Polled
    <2>5. ASSUME NEW j \in DOMAIN fds' PROVE fds'[j] \in Polled \cup {c}
      <3>1. j \in 1 .. Len(fds) \/ j = Len(fds) + 1
        BY <1>4, <2>2, <2>5
      <3> QED  BY <2>1, <2>2, <2>3, <3>1 DEF Polled
    <2> QED  BY <2>4, <2>5 DEF Polled
  <1>6. head' \in Conns \cup {NULL} /\ nxt' \in [Conns -> Conns \cup {NULL}]
    BY DEF Join, addPlayerToPlayerList, TypeOK
  <1>7. Say({c}, "ROOMOK") ++ Say(Polled, "PLAYERUPDATE") \in Outputs
    BY SayType, JoinType DEF Signals
  <1>8. TypeOK'
    <2>1. player_num' \in Nat /\ ready' \subseteq 0 .. Len(fds')
      BY DEF Join, StopScan, TypeOK
    <2>2. suzerain' \in Conns \cup {NULL} /\ current_player' \in Conns \cup {NULL}
      BY DEF Join, TypeOK
    <2>3. owner' \in [Conns -> {"service", "room", "nobody"}]
      BY DEF Join, TypeOK
    <2>4. word_is_selected' \in BOOLEAN
      BY DEF Join, TypeOK
    <2> QED  BY <1>4, <1>6, <1>7, <2>1, <2>2, <2>3, <2>4
             DEF Join, TypeOK, Outputs, hintVars
  <1>9. LoopInv'
    BY <1>1 DEF Join, StopScan, LoopInv
  <1>10. OneReader'
    BY <1>1, <1>5 DEF Join, OneReader, TypeOK
  <1>11. TurnInv'
    <2>1. Linked \cup {c} = Linked'
      BY <1>1, <1>3, <1>5 DEF RingOfFds
    <2>2. NoDanglingTurn'
      BY <2>1 DEF Join, TurnInv, NoDanglingTurn
    <2>3. suzerain' # NULL
      BY <1>2 DEF Join
    <2>4. WordHasGuesser'
      BY <1>1, <1>2 DEF Join, TurnInv, WordHasGuesser
    <2> QED  BY <2>2, <2>3, <2>4 DEF TurnInv, MatchHasSuzerain
  <1> QED  BY <1>3, <1>8, <1>9, <1>10, <1>11 DEF ListInv

LEMMA LeaveAloneInv ==
  ASSUME IInv, NEW i \in DOMAIN fds, NEW heir \in {"service", "nobody"},
         Scanning(i), LeaveAlone(i, heir), RemoveSlot(i), StopScan,
         owner' = [owner EXCEPT ![fds[i]] = heir], UNCHANGED pc
  PROVE  IInv'
  <1> USE DEF IInv
  <1>1. /\ ~next_turn /\ ~close_room /\ pc = "scan" /\ RingOfFds
        /\ i = 1 /\ Len(fds) = 1 /\ DOMAIN fds = {1} /\ fds[1] \in Conns
    BY ScanFacts DEF LeaveAlone, TypeOK, Scanning
  <1>2. fds' = << >> /\ Polled = {fds[1]} /\ Polled' = {}
    BY <1>1 DEF RemoveSlot, Polled
  <1>3. head = fds[1] /\ Linked = {fds[1]} /\ nxt[head] = head
    BY <1>1, <1>2 DEF RingOfFds, Succ
  <1>4. out' \in Outputs
    BY RebuildsType DEF LeaveAlone
  <1>5. TypeOK'
    <2>1. fds' \in Seq(Conns) /\ ready' \subseteq 0 .. Len(fds')
      BY <1>2 DEF StopScan
    <2>2. owner' \in [Conns -> {"service", "room", "nobody"}]
      BY DEF TypeOK
    <2> QED  BY <1>1, <1>4, <2>1, <2>2
             DEF TypeOK, LeaveAlone, Outputs, turnVars, hintVars
  <1>6. ListInv'
    BY <1>1, <1>2, <1>3 DEF ListInv, FdsDistinct, LoneNode, LeaveAlone, Linked
  <1>7. LoopInv'
    BY <1>1 DEF LoopInv, LeaveAlone, StopScan
  <1>8. TurnInv'
    BY <1>2 DEF TurnInv, NoDanglingTurn, MatchHasSuzerain, WordHasGuesser,
                LeaveAlone, Linked, turnVars
  <1>9. OneReader'
    BY <1>1, <1>2 DEF OneReader, TypeOK
  <1> QED  BY <1>5, <1>6, <1>7, <1>8, <1>9

LEMMA ThreeOrMore == \A n \in Nat : n > 1 /\ n # 2 => n > 2
  OBVIOUS

LEMMA LeaveOthersInv ==
  ASSUME IInv, NEW i \in DOMAIN fds, NEW heir \in {"service", "nobody"},
         Scanning(i), LeaveOthers(i, heir), RemoveSlot(i), StopScan,
         owner' = [owner EXCEPT ![fds[i]] = heir], UNCHANGED pc
  PROVE  IInv'
  <1> DEFINE p == fds[i]
             s == NewSuzerain(p)
             q == movePlayerTurn(p, s)
  <1> USE DEF IInv
  <1>1. /\ ~next_turn /\ ~close_room /\ pc = "scan" /\ FdsDistinct /\ RingOfFds
        /\ p \in Conns /\ p \in Linked /\ p # NULL
    BY ScanFacts, NullAssumption DEF Scanning, TypeOK
  <1>2. getPlayer(p) = p
    BY <1>1 DEF getPlayer, Linked
  <1>3. /\ Len(fds) > 1
        /\ next_turn' = (next_turn \/ Len(fds) = 2 \/ suzerain = p)
        /\ suzerain' = s
        /\ current_player' = IF current_player # p THEN current_player
                             ELSE IF q = p THEN NULL ELSE q
        /\ addHint(current_player = p /\ PassesSuzerain(p, s))
        /\ removePlayerNode(p)
        /\ player_num' = player_num - 1
        /\ UNCHANGED <<word_is_selected, word_is_sent, selected_word_len,
                       close_room>>
    BY <1>2 DEF LeaveOthers, TurnLeft
  <1>4. /\ FdsDistinct' /\ RingOfFds'
        /\ Polled' = Polled \ {p}
        /\ fds' \in Seq(Conns) /\ Len(fds') = Len(fds) - 1
    BY <1>1, <1>3, RemoveKeepsRing
  <1>5. Linked' = Linked \ {p}
    BY <1>1, <1>4 DEF RingOfFds
  <1>6. s \in Linked \ {p} /\ s # NULL
    <2>1. suzerain \in Linked
      BY <1>3 DEF TurnInv, NoDanglingTurn, MatchHasSuzerain
    <2>2. CASE suzerain = p
      <3>1. moveSuzerainTurn(p) = nxt[p] /\ nxt[p] \in Linked \ {p}
        BY <1>1, <1>3, NextOfMany, NextLinked DEF moveSuzerainTurn
      <3> QED  BY <2>2, <3>1, NullAssumption DEF NewSuzerain, Linked
    <2>3. CASE suzerain # p
      BY <2>1, <2>3, NullAssumption DEF NewSuzerain, Linked
    <2> QED  BY <2>2, <2>3
  <1>7. q \in Linked
    BY <1>1, MovesLinked
  <1>8. /\ current_player' \in Linked' \cup {NULL}
        /\ current_player # NULL /\ Len(fds) > 2 => current_player' # NULL
    <2>1. CASE current_player # p
      BY <1>3, <1>5, <2>1 DEF TurnInv, NoDanglingTurn
    <2>2. CASE current_player = p
      <3>1. current_player' \in Linked' \cup {NULL}
        BY <1>3, <1>5, <1>7, <2>2
      <3>2. ASSUME Len(fds) > 2 PROVE q # p
        <4>1. PICK k \in DOMAIN fds : nxt[p] = fds[k] /\ k = Succ(i)
          BY <1>1, <3>2 DEF RingOfFds, Succ, TypeOK
        <4>2. nxt[nxt[p]] = fds[Succ(k)] /\ Succ(k) \in DOMAIN fds
          <5>1. Succ(k) \in DOMAIN fds
            BY DEF Succ, TypeOK
          <5> QED  BY <1>1, <4>1, <5>1 DEF RingOfFds
        <4>3. Succ(i) # i /\ Succ(k) # i
          BY <3>2, <4>1 DEF Succ, TypeOK
        <4> QED  BY <1>1, <4>1, <4>2, <4>3 DEF movePlayerTurn, FdsDistinct
      <3>3. Len(fds) > 2 => current_player' # NULL
        BY <1>3, <1>7, <2>2, <3>2, NullAssumption DEF Linked
      <3> QED  BY <3>1, <3>3
    <2> QED  BY <2>1, <2>2
  <1>9. TurnInv'
    <2>1. NoDanglingTurn'
      BY <1>3, <1>5, <1>6, <1>8 DEF NoDanglingTurn
    <2>2. MatchHasSuzerain'
      BY <1>3, <1>6 DEF MatchHasSuzerain
    <2>3. WordHasGuesser'
      <3>1. ~next_turn' => Len(fds) > 2
        <4> SUFFICES ASSUME ~next_turn' PROVE Len(fds) > 2
          OBVIOUS
        <4>1. Len(fds) # 2
          BY <1>3
        <4>2. Len(fds) \in Nat /\ Len(fds) > 1
          BY <1>3 DEF TypeOK
        <4> QED  BY <4>1, <4>2, ThreeOrMore
      <3>2. word_is_selected' => current_player # NULL
        BY <1>1, <1>3 DEF TurnInv, WordHasGuesser
      <3> QED  BY <1>8, <3>1, <3>2 DEF WordHasGuesser
    <2> QED  BY <2>1, <2>2, <2>3 DEF TurnInv
  <1>10. LoopInv'
    BY <1>1, <1>3 DEF LoopInv, StopScan
  <1>11. OneReader'
    BY <1>1, <1>4 DEF OneReader, TypeOK
  <1>12. out' \in Outputs
    <2>1. \A S, sig \in Signals : Say(S, sig) \in Outputs
      BY SayType
    <2>2. SayHint(Polled \ {fds[i]}, current_player = getPlayer(fds[i])
                    /\ PassesSuzerain(getPlayer(fds[i]), NewSuzerain(getPlayer(fds[i]))))
            \in Outputs
      BY SayType, SilenceType DEF SayHint, Signals
    <2>3. Rebuilds(fds[i], heir) \in Outputs
      BY RebuildsType
    <2> QED  BY <2>2, <2>3, SayType, JoinType DEF LeaveOthers, Signals
  <1>13. TypeOK'
    <2>1. player_num' \in Nat
      BY <1>1, <1>3 DEF TypeOK, RingOfFds
    <2>2. nxt' \in [Conns -> Conns \cup {NULL}] /\ head' \in Conns \cup {NULL}
      BY <1>1, <1>3 DEF removePlayerNode, TypeOK
    <2>3. current_unveil' \in 0 .. WordLen
      BY <1>3, AddHintType
    <2>4. /\ suzerain' \in Conns \cup {NULL} /\ current_player' \in Conns \cup {NULL}
          /\ next_turn' \in BOOLEAN
      BY <1>3, <1>5, <1>6, <1>8 DEF Linked, TypeOK
    <2>5. ready' \subseteq 0 .. Len(fds')
      BY DEF StopScan
    <2>6. owner' \in [Conns -> {"service", "room", "nobody"}]
      BY <1>1 DEF TypeOK
    <2> QED  BY <1>1, <1>3, <1>4, <1>12, <2>1, <2>2, <2>3, <2>4, <2>5, <2>6
             DEF TypeOK, Outputs
  <1> QED  BY <1>4, <1>9, <1>10, <1>11, <1>13 DEF ListInv

LEMMA LeaveInv ==
  ASSUME IInv, NEW i, NEW heir \in {"service", "nobody"}, Leave(i, heir)
  PROVE  IInv'
  <1>1. i \in DOMAIN fds
    BY ScanFacts DEF Leave
  <1> QED  BY <1>1, LeaveAloneInv, LeaveOthersInv DEF Leave

-----------------------------------------------------------------------------

LEMMA StutterInv == IInv /\ UNCHANGED vars => IInv'
  <1> SUFFICES ASSUME IInv, UNCHANGED vars PROVE IInv'
    OBVIOUS
  <1> USE DEF IInv, vars, listVars, turnVars, hintVars, loopVars
  <1>1. TypeOK'
    BY DEF TypeOK
  <1>2. LoopInv'
    BY DEF LoopInv
  <1>3. ListInv' /\ TurnInv' /\ OneReader'
    BY QuietInv DEF Quiet
  <1> QED  BY <1>1, <1>2, <1>3

LEMMA PlayerEventInv == ASSUME IInv, NEW i, PlayerEvent(i) PROVE IInv'
  <1>1. CASE SlotFails(i)        BY <1>1, SlotFailsInv
  <1>2. CASE OutOfPlace(i)       BY <1>2, OutOfPlaceInv
  <1>3. CASE SelectIgnored(i)    BY <1>3, SelectIgnoredInv
  <1>4. CASE SelectMalformed(i)  BY <1>4, SelectMalformedInv
  <1>5. CASE SelectWord(i)       BY <1>5, SelectWordInv
  <1>6. CASE GuessHits(i)        BY <1>6, GuessHitsInv
  <1>7. CASE GuessMisses(i)      BY <1>7, GuessMissesInv
  <1>8. CASE GuessCrashes(i)     BY <1>8, GuessCrashesInv
  <1>9. CASE ExitRoom(i)
    <2>1. PICK heir \in {"service", "nobody"} : Leave(i, heir)
      BY <1>9 DEF ExitRoom
    <2> QED  BY <2>1, LeaveInv
  <1>10. CASE Disconnect(i)      BY <1>10, LeaveInv DEF Disconnect
  <1> QED  BY <1>1, <1>2, <1>3, <1>4, <1>5, <1>6, <1>7, <1>8, <1>9, <1>10
           DEF PlayerEvent

LEMMA NextInv == IInv /\ [Next]_vars => IInv'
  <1> SUFFICES ASSUME IInv, [Next]_vars PROVE IInv'
    OBVIOUS
  <1>1. CASE NewTurn       BY <1>1, NewTurnInv
  <1>2. CASE AskSuzerain   BY <1>2, AskSuzerainInv
  <1>3. CASE Poll
    BY <1>3, PollFailsInv, PollTimesOutInv, PollReturnsInv DEF Poll
  <1>4. ASSUME NEW i \in 0 .. Len(fds), PlayerEvent(i) PROVE IInv'
    BY <1>4, PlayerEventInv
  <1>5. ASSUME NEW c \in Conns, JoinEvent(c) PROVE IInv'
    BY <1>5, JoinInv, JoinRefusedInv DEF JoinEvent
  <1>6. CASE ScanEnds      BY <1>6, ScanEndsInv
  <1>7. CASE ClockExpires  BY <1>7, ClockExpiresInv
  <1>8. CASE CloseRoom     BY <1>8, CloseRoomInv
  <1>9. CASE Ended         BY <1>9, StutterInv DEF Ended
  <1>10. CASE UNCHANGED vars  BY <1>10, StutterInv
  <1> QED  BY <1>1, <1>2, <1>3, <1>4, <1>5, <1>6, <1>7, <1>8, <1>9, <1>10
           DEF Next

-----------------------------------------------------------------------------
(* The hints: addHint stops one short of the length of the selected word. *)

LEMMA AddHintLeavesALetter ==
  ASSUME TypeOK, HintsLeaveALetter, NEW hint, addHint(hint),
         selected_word_len' = selected_word_len,
         word_is_selected' => word_is_selected
  PROVE  HintsLeaveALetter'
  BY WordLenAssumption DEF addHint, HintsLeaveALetter, TypeOK

LEMMA HintsKept ==
  ASSUME HintsLeaveALetter, UNCHANGED hintVars, word_is_selected' => word_is_selected
  PROVE  HintsLeaveALetter'
  BY DEF HintsLeaveALetter, hintVars

LEMMA PlayerTimesOutHints ==
  ASSUME TypeOK, HintsLeaveALetter,
         \/ SuzerainLate /\ SuzerainTimesOut
         \/ ~SuzerainLate /\ PlayerTimesOut
  PROVE  HintsLeaveALetter'
  <1>1. CASE SuzerainLate /\ SuzerainTimesOut
    BY <1>1, HintsKept DEF SuzerainTimesOut
  <1>2. CASE ~SuzerainLate /\ PlayerTimesOut
    BY <1>2, HintsKept, AddHintLeavesALetter DEF PlayerTimesOut, AdvanceTurn
  <1> QED  BY <1>1, <1>2

LEMMA PlayerEventHints ==
  ASSUME TypeOK, HintsLeaveALetter, NEW i, PlayerEvent(i)
  PROVE  HintsLeaveALetter'
  <1> USE DEF turnVars
  <1>1. CASE SlotFails(i)        BY <1>1, HintsKept DEF SlotFails
  <1>2. CASE OutOfPlace(i)       BY <1>2, HintsKept DEF OutOfPlace
  <1>3. CASE SelectIgnored(i)    BY <1>3, HintsKept DEF SelectIgnored
  <1>4. CASE SelectMalformed(i)  BY <1>4, HintsKept DEF SelectMalformed
  <1>5. CASE SelectWord(i)
    BY <1>5, WordLenAssumption DEF SelectWord, HintsLeaveALetter
  <1>6. CASE GuessHits(i)        BY <1>6, HintsKept DEF GuessHits
  <1>7. CASE GuessMisses(i)
    BY <1>7, AddHintLeavesALetter DEF GuessMisses, AdvanceTurn
  <1>8. CASE GuessCrashes(i)     BY <1>8, HintsKept DEF GuessCrashes
  <1>9. ASSUME NEW heir, Leave(i, heir) PROVE HintsLeaveALetter'
    <2>1. CASE LeaveAlone(i, heir)
      BY <2>1, HintsKept DEF LeaveAlone
    <2>2. CASE LeaveOthers(i, heir)
      BY <2>2, AddHintLeavesALetter DEF LeaveOthers
    <2> QED  BY <1>9, <2>1, <2>2 DEF Leave
  <1> QED  BY <1>1, <1>2, <1>3, <1>4, <1>5, <1>6, <1>7, <1>8, <1>9
           DEF PlayerEvent, ExitRoom, Disconnect

LEMMA NextHints == TypeOK /\ HintsLeaveALetter /\ [Next]_vars => HintsLeaveALetter'
  <1> SUFFICES ASSUME TypeOK, HintsLeaveALetter, [Next]_vars
               PROVE  HintsLeaveALetter'
    OBVIOUS
  <1> USE DEF turnVars
  <1>1. CASE NewTurn       BY <1>1, HintsKept DEF NewTurn
  <1>2. CASE AskSuzerain   BY <1>2, HintsKept DEF AskSuzerain
  <1>3. CASE Poll
    BY <1>3, HintsKept, PlayerTimesOutHints
    DEF Poll, PollFails, PollTimesOut, PollReturns
  <1>4. ASSUME NEW i, PlayerEvent(i) PROVE HintsLeaveALetter'
    BY <1>4, PlayerEventHints
  <1>5. ASSUME NEW c, JoinEvent(c) PROVE HintsLeaveALetter'
    <2>1. CASE Join(c)
      <3>1. UNCHANGED hintVars
        BY <2>1 DEF Join
      <3>2. word_is_selected' = (word_is_selected /\ suzerain # NULL)
        BY <2>1 DEF Join
      <3>3. word_is_selected' => word_is_selected
        BY <3>2
      <3> QED  BY <3>1, <3>3, HintsKept
    <2>2. CASE JoinRefused(c)
      BY <2>2, HintsKept DEF JoinRefused
    <2> QED  BY <1>5, <2>1, <2>2 DEF JoinEvent
  <1>6. CASE ScanEnds      BY <1>6, HintsKept DEF ScanEnds
  <1>7. CASE ClockExpires  BY <1>7, PlayerTimesOutHints DEF ClockExpires
  <1>8. CASE CloseRoom     BY <1>8, HintsKept DEF CloseRoom
  <1>9. CASE UNCHANGED vars  BY <1>9, HintsKept DEF vars
  <1> QED  BY <1>1, <1>2, <1>3, <1>4, <1>5, <1>6, <1>7, <1>8, <1>9 DEF Next, Ended

-----------------------------------------------------------------------------
(* IInv is an invariant of the room. *)
THEOREM InductiveInvariant == Spec => []IInv
  BY InitIInv, NextInv, PTL DEF Spec

(* Every variable of thrRoom keeps its type: in particular no signal but     *)
(* those of the protocol is written and every hint counter stays in bounds.  *)
THEOREM TypeCorrect == Spec => []TypeOK
  <1>1. IInv => TypeOK
    BY DEF IInv
  <1> QED  BY <1>1, InductiveInvariant, PTL

(* The circular list of player nodes and the polled sockets agree as long as *)
(* the room runs, whatever the order in which players join and leave.        *)
THEOREM ListFollowsFds == Spec => []RingMatchesFds
  <1>1. IInv => RingMatchesFds
    BY DEF IInv, ListInv, LoneNode, RingOfFds, RingMatchesFds
  <1> QED  BY <1>1, InductiveInvariant, PTL

(* suzerain and current_player never dangle: every write to their sockets    *)
(* and every read of their next pointer is of a node still in the list.      *)
THEOREM TurnHoldersInList == Spec => []NoDanglingTurn
  <1>1. IInv => NoDanglingTurn
    BY DEF IInv, TurnInv
  <1> QED  BY <1>1, InductiveInvariant, PTL

(* Two players or more always have a suzerain. *)
THEOREM SuzerainOfMatch == Spec => []MatchHasSuzerain
  <1>1. IInv => MatchHasSuzerain
    BY DEF IInv, TurnInv
  <1> QED  BY <1>1, InductiveInvariant, PTL

(* While a word is in play current_player is not NULL, so the guess handler, *)
(* which dereferences it unchecked, is safe for as long as that is so.       *)
THEOREM GuesserOfWord == Spec => []WordHasGuesser
  <1>1. IInv => WordHasGuesser
    BY DEF IInv, TurnInv
  <1> QED  BY <1>1, InductiveInvariant, PTL

(* A socket has the room for reader exactly while the room polls it. *)
THEOREM SocketOwnership == Spec => []OneReader
  <1>1. IInv => OneReader
    BY DEF IInv
  <1> QED  BY <1>1, InductiveInvariant, PTL

(* However long the guessing lasts and whoever leaves meanwhile, the hints   *)
(* never spell the whole word of any length.                                 *)
THEOREM HintsKeepASecret == Spec => []HintsLeaveALetter
  <1>1. Init => HintsLeaveALetter
    BY DEF Init, HintsLeaveALetter
  <1> QED  BY <1>1, NextHints, TypeCorrect, PTL DEF Spec

-----------------------------------------------------------------------------
(* The suzerain. *)

SuzerainKept ==
    (suzerain # NULL /\ suzerain' # suzerain) => (next_turn' \/ pc' = "turn")

(* A departure replaces the suzerain only if it is the suzerain that leaves. *)
LEMMA LeaveKeepsSuzerain ==
  ASSUME IInv, NEW i, NEW heir, Leave(i, heir)
  PROVE  SuzerainKept
  <1>1. CASE LeaveAlone(i, heir)
    BY <1>1 DEF LeaveAlone, SuzerainKept, turnVars
  <1>2. CASE LeaveOthers(i, heir)
    BY <1>2 DEF LeaveOthers, NewSuzerain, SuzerainKept
  <1> QED  BY <1>1, <1>2 DEF Leave

LEMMA PlayerEventKeepsSuzerain ==
  ASSUME IInv, NEW i, PlayerEvent(i)
  PROVE  SuzerainKept
  <1>1. CASE SlotFails(i) \/ OutOfPlace(i) \/ SelectIgnored(i) \/ SelectMalformed(i)
    BY <1>1 DEF SlotFails, OutOfPlace, SelectIgnored, SelectMalformed, SuzerainKept,
                turnVars
  <1>2. CASE SelectWord(i)
    BY <1>2 DEF SelectWord, SuzerainKept
  <1>3. CASE GuessHits(i)
    BY <1>3 DEF GuessHits, SuzerainKept
  <1>4. CASE GuessMisses(i)
    BY <1>4 DEF GuessMisses, SuzerainKept
  <1>5. CASE GuessCrashes(i)
    BY <1>5 DEF GuessCrashes, SuzerainKept, turnVars
  <1>6. CASE ExitRoom(i)
    BY <1>6, LeaveKeepsSuzerain DEF ExitRoom
  <1>7. CASE Disconnect(i)
    BY <1>7, LeaveKeepsSuzerain DEF Disconnect
  <1> QED  BY <1>1, <1>2, <1>3, <1>4, <1>5, <1>6, <1>7 DEF PlayerEvent

LEMMA StepKeepsSuzerain == IInv /\ [Next]_vars => SuzerainKept
  <1> SUFFICES ASSUME IInv, [Next]_vars PROVE SuzerainKept
    OBVIOUS
  <1>1. CASE NewTurn \/ AskSuzerain \/ ScanEnds \/ CloseRoom
    BY <1>1 DEF NewTurn, AskSuzerain, ScanEnds, CloseRoom, SuzerainKept, turnVars
  <1>2. CASE Poll
    <2>1. CASE PollFails
      BY <2>1 DEF PollFails, SuzerainKept
    <2>2. CASE PollTimesOut
      BY <2>2 DEF PollTimesOut, PlayerTimesOut, SuzerainKept
    <2>3. ASSUME NEW R, PollReturns(R) PROVE SuzerainKept
      BY <2>3 DEF PollReturns, SuzerainKept, turnVars
    <2> QED  BY <1>2, <2>1, <2>2, <2>3 DEF Poll
  <1>3. ASSUME NEW i \in 0 .. Len(fds), PlayerEvent(i) PROVE SuzerainKept
    BY <1>3, PlayerEventKeepsSuzerain
  <1>4. ASSUME NEW c \in Conns, JoinEvent(c) PROVE SuzerainKept
    BY <1>4 DEF JoinEvent, Join, JoinRefused, SuzerainKept, turnVars
  <1>5. CASE ClockExpires
    BY <1>5 DEF ClockExpires, PlayerTimesOut, SuzerainKept
  <1>6. CASE Ended \/ UNCHANGED vars
    BY <1>6 DEF Ended, vars, turnVars, SuzerainKept
  <1> QED  BY <1>1, <1>2, <1>3, <1>4, <1>5, <1>6 DEF Next

(* The suzerain who was asked for the word is the one whose choice counts:   *)
(* only the end of the turn puts another in its place, in rooms of any size. *)
THEOREM SuzerainOutlastsTurn == Spec => SuzerainKeptDuringTurn
  <1>1. IInv /\ [Next]_vars => [SuzerainKept]_vars
    BY StepKeepsSuzerain
  <1> QED  BY <1>1, InductiveInvariant, PTL DEF Spec, SuzerainKeptDuringTurn, SuzerainKept

-----------------------------------------------------------------------------
(* The turn. *)

(* sig is among what the output o holds for c. *)
Spoken(o, c, sig) == \E k \in DOMAIN o[c] : o[c][k] = sig

LEMMA SpokenSay ==
  ASSUME NEW S, NEW c \in Conns, c \in S, NEW sig
  PROVE  Spoken(Say(S, sig), c, sig)
  <1>1. Say(S, sig)[c] = <<sig>>
    BY DEF Say
  <1>2. 1 \in DOMAIN Say(S, sig)[c] /\ Say(S, sig)[c][1] = sig
    BY <1>1
  <1> QED  BY <1>2 DEF Spoken

LEMMA ConcatElements ==
  ASSUME NEW s \in Seq(Signals), NEW t \in Seq(Signals)
  PROVE  /\ \A k \in DOMAIN s : k \in DOMAIN (s \o t) /\ (s \o t)[k] = s[k]
         /\ \A k \in DOMAIN t : /\ Len(s) + k \in DOMAIN (s \o t)
                               /\ (s \o t)[Len(s) + k] = t[k]
  <1>1. DOMAIN s = 1 .. Len(s) /\ DOMAIN t = 1 .. Len(t)
        /\ Len(s) \in Nat /\ Len(t) \in Nat
    OBVIOUS
  <1>2. \A k \in 1 .. Len(s) + Len(t) :
          (s \o t)[k] = IF k <= Len(s) THEN s[k] ELSE t[k - Len(s)]
    OBVIOUS
  <1>3. DOMAIN (s \o t) = 1 .. Len(s) + Len(t)
    OBVIOUS
  <1>4. \A k \in 1 .. Len(t) : /\ Len(s) + k \in 1 .. Len(s) + Len(t)
                               /\ ~(Len(s) + k <= Len(s)) /\ (Len(s) + k) - Len(s) = k
    BY <1>1
  <1>5. \A k \in 1 .. Len(s) : k \in 1 .. Len(s) + Len(t) /\ k <= Len(s)
    BY <1>1
  <1> QED  BY <1>1, <1>2, <1>3, <1>4, <1>5

LEMMA SpokenLeft ==
  ASSUME NEW f \in Outputs, NEW g \in Outputs, NEW c \in Conns, NEW sig, Spoken(f, c, sig)
  PROVE  Spoken(f ++ g, c, sig)
  <1>1. PICK k \in DOMAIN f[c] : f[c][k] = sig
    BY DEF Spoken
  <1>2. /\ f[c] \in Seq(Signals) /\ g[c] \in Seq(Signals)
        /\ (f ++ g)[c] = f[c] \o g[c]
    BY DEF Outputs, ++
  <1>3. k \in DOMAIN (f[c] \o g[c]) /\ (f[c] \o g[c])[k] = f[c][k]
    BY <1>1, <1>2, ConcatElements
  <1>4. k \in DOMAIN (f ++ g)[c] /\ (f ++ g)[c][k] = sig
    BY <1>1, <1>2, <1>3
  <1> QED  BY <1>4 DEF Spoken

LEMMA SpokenRight ==
  ASSUME NEW f \in Outputs, NEW g \in Outputs, NEW c \in Conns, NEW sig, Spoken(g, c, sig)
  PROVE  Spoken(f ++ g, c, sig)
  <1>1. PICK k \in DOMAIN g[c] : g[c][k] = sig
    BY DEF Spoken
  <1>2. /\ f[c] \in Seq(Signals) /\ g[c] \in Seq(Signals)
        /\ (f ++ g)[c] = f[c] \o g[c]
    BY DEF Outputs, ++
  <1>3. /\ Len(f[c]) + k \in DOMAIN (f[c] \o g[c])
        /\ (f[c] \o g[c])[Len(f[c]) + k] = g[c][k]
    BY <1>1, <1>2, ConcatElements
  <1>4. /\ Len(f[c]) + k \in DOMAIN (f ++ g)[c]
        /\ (f ++ g)[c][Len(f[c]) + k] = sig
    BY <1>1, <1>2, <1>3
  <1> QED  BY <1>4 DEF Spoken

LEMMA SayHintType == ASSUME NEW S, NEW hint PROVE SayHint(S, hint) \in Outputs
  <1>1. Say(S, "NEWHINT") \in Outputs
    BY SayType DEF Signals
  <1> QED  BY <1>1, SilenceType DEF SayHint

(* Who gets the turn of a hidden word in a step is told so by the step. *)
TurnTold(c) ==
    (current_player # c /\ current_player' = c /\ word_is_selected')
        => Spoken(out', c, "YOURTURN")

(* The rotation of the turn, whatever is written before it. *)
LEMMA AdvanceTells ==
  ASSUME NEW f \in Outputs, NEW c \in Conns, AdvanceTurn, current_player' = c,
         out' = f ++ AdvanceTurnSays
  PROVE  Spoken(out', c, "YOURTURN")
  <1> DEFINE hint == SayHint(Polled, PassesSuzerain(current_player, suzerain))
             turn == Say({movePlayerTurn(current_player, suzerain)}, "YOURTURN")
  <1>1. hint \in Outputs /\ turn \in Outputs
    BY SayHintType, SayType DEF Signals
  <1>2. Spoken(turn, c, "YOURTURN")
    BY SpokenSay DEF AdvanceTurn
  <1>3. AdvanceTurnSays = hint ++ turn
    BY DEF AdvanceTurnSays
  <1> HIDE DEF hint, turn
  <1>4. Spoken(AdvanceTurnSays, c, "YOURTURN") /\ AdvanceTurnSays \in Outputs
    BY <1>1, <1>2, <1>3, SpokenRight, JoinType
  <1> QED  BY <1>4, SpokenRight

LEMMA TimeoutTells == ASSUME PlayerTimesOut, NEW c \in Conns PROVE TurnTold(c)
  <1>1. CASE current_player # NULL
    <2>1. Say({current_player}, "TURNTIMEOUT") \in Outputs
      BY SayType DEF Signals
    <2>2. AdvanceTurn /\ out' = Say({current_player}, "TURNTIMEOUT") ++ AdvanceTurnSays
      BY <1>1 DEF PlayerTimesOut
    <2> QED  BY <2>1, <2>2, AdvanceTells DEF TurnTold
  <1>2. CASE current_player = NULL
    BY <1>2 DEF PlayerTimesOut, TurnTold
  <1> QED  BY <1>1, <1>2

LEMMA GuessMissesTells == ASSUME NEW i, GuessMisses(i), NEW c \in Conns PROVE TurnTold(c)
  <1>1. Say(Polled, "MISSEDGUESS") \in Outputs
    BY SayType DEF Signals
  <1>2. AdvanceTurn /\ out' = Say(Polled, "MISSEDGUESS") ++ AdvanceTurnSays
    BY DEF GuessMisses
  <1> QED  BY <1>1, <1>2, AdvanceTells DEF TurnTold

LEMMA SelectWordTells == ASSUME NEW i, SelectWord(i), NEW c \in Conns PROVE TurnTold(c)
  <1>1. SUFFICES ASSUME current_player' = c PROVE Spoken(out', c, "YOURTURN")
    BY DEF TurnTold
  <1>2. /\ Say(Polled, "NEWGAME") \in Outputs
        /\ Say({nxt[suzerain]}, "YOURTURN") \in Outputs
    BY SayType DEF Signals
  <1>3. Spoken(Say({nxt[suzerain]}, "YOURTURN"), c, "YOURTURN")
    BY <1>1, SpokenSay DEF SelectWord
  <1>4. out' = Say(Polled, "NEWGAME") ++ Say({nxt[suzerain]}, "YOURTURN")
    BY DEF SelectWord
  <1> QED  BY <1>2, <1>3, <1>4, SpokenRight

(* Nobody is given the turn of a hidden word by coming in: somebody has it.  *)
LEMMA JoinTells ==
  ASSUME IInv, NEW d \in Conns, Join(d), NEW c \in Conns
  PROVE  TurnTold(c)
  <1>1. ~next_turn
    BY ScanFacts DEF Join
  <1>2. word_is_selected => current_player # NULL
    BY <1>1 DEF IInv, TurnInv, WordHasGuesser
  <1> QED  BY <1>2 DEF Join, TurnTold

LEMMA LeaveTells ==
  ASSUME IInv, NEW i, NEW heir, Leave(i, heir), NEW c \in Conns
  PROVE  TurnTold(c)
  <1>1. CASE LeaveAlone(i, heir)
    BY <1>1 DEF LeaveAlone, TurnTold, turnVars
  <1>2. CASE LeaveOthers(i, heir)
    <2> DEFINE player == getPlayer(fds[i])
               s      == NewSuzerain(player)
               q      == movePlayerTurn(player, s)
               turn   == current_player = player
               rest   == Polled \ {fds[i]}
               bye    == Rebuilds(fds[i], heir)
               hint   == SayHint(rest, turn /\ PassesSuzerain(player, s))
               told   == Say(IF turn THEN {q} \ {player} ELSE {}, "YOURTURN")
               news   == Say(rest, "PLAYERUPDATE")
    <2>1. SUFFICES ASSUME current_player # c, current_player' = c
                   PROVE  Spoken(out', c, "YOURTURN")
      BY DEF TurnTold
    <2>2. /\ current_player' = TurnLeft(player, s)
          /\ out' = ((bye ++ hint) ++ told) ++ news
      BY <1>2 DEF LeaveOthers
    <2>3. bye \in Outputs /\ hint \in Outputs /\ told \in Outputs /\ news \in Outputs
      BY RebuildsType, SayType, SilenceType, SayHintType DEF Signals
    <2>4. c # NULL
      BY NullAssumption
    <2>5. c \in IF turn THEN {q} \ {player} ELSE {}
      BY <2>1, <2>2, <2>4 DEF TurnLeft
    <2>6. Spoken(told, c, "YOURTURN")
      BY <2>5, SpokenSay
    <2> HIDE DEF bye, hint, told, news
    <2>7. Spoken((bye ++ hint) ++ told, c, "YOURTURN")
      BY <2>3, <2>6, JoinType, SpokenRight
    <2>8. (bye ++ hint) ++ told \in Outputs
      BY <2>3, JoinType
    <2> QED  BY <2>2, <2>3, <2>7, <2>8, SpokenLeft
  <1> QED  BY <1>1, <1>2 DEF Leave

LEMMA PlayerEventTells ==
  ASSUME IInv, NEW i, PlayerEvent(i), NEW c \in Conns
  PROVE  TurnTold(c)
  <1>1. CASE SlotFails(i) \/ OutOfPlace(i) \/ SelectIgnored(i) \/ SelectMalformed(i)
    BY <1>1 DEF SlotFails, OutOfPlace, SelectIgnored, SelectMalformed, TurnTold, turnVars
  <1>2. CASE SelectWord(i)
    BY <1>2, SelectWordTells
  <1>3. CASE GuessHits(i) \/ GuessCrashes(i)
    BY <1>3 DEF GuessHits, GuessCrashes, TurnTold, turnVars
  <1>4. CASE GuessMisses(i)
    BY <1>4, GuessMissesTells
  <1>5. CASE ExitRoom(i)
    BY <1>5, LeaveTells DEF ExitRoom
  <1>6. CASE Disconnect(i)
    BY <1>6, LeaveTells DEF Disconnect
  <1> QED  BY <1>1, <1>2, <1>3, <1>4, <1>5, <1>6 DEF PlayerEvent

LEMMA StepTells == ASSUME IInv, [Next]_vars, NEW c \in Conns PROVE TurnTold(c)
  <1>1. CASE NewTurn \/ AskSuzerain \/ ScanEnds \/ CloseRoom
    BY <1>1 DEF NewTurn, AskSuzerain, ScanEnds, CloseRoom, TurnTold, turnVars
  <1>2. CASE Poll
    <2>1. CASE PollFails
      BY <2>1 DEF PollFails, TurnTold, turnVars
    <2>2. CASE PollTimesOut
      BY <2>2, TimeoutTells DEF PollTimesOut, SuzerainTimesOut, TurnTold
    <2>3. ASSUME NEW R, PollReturns(R) PROVE TurnTold(c)
      BY <2>3 DEF PollReturns, TurnTold, turnVars
    <2> QED  BY <1>2, <2>1, <2>2, <2>3 DEF Poll
  <1>3. ASSUME NEW i \in 0 .. Len(fds), PlayerEvent(i) PROVE TurnTold(c)
    BY <1>3, PlayerEventTells
  <1>4. ASSUME NEW d \in Conns, JoinEvent(d) PROVE TurnTold(c)
    <2>1. CASE Join(d)
      BY <2>1, JoinTells
    <2>2. CASE JoinRefused(d)
      BY <2>2 DEF JoinRefused, TurnTold, turnVars
    <2> QED  BY <1>4, <2>1, <2>2 DEF JoinEvent
  <1>5. CASE ClockExpires
    BY <1>5, TimeoutTells DEF ClockExpires, SuzerainTimesOut, TurnTold
  <1>6. CASE Ended \/ UNCHANGED vars
    BY <1>6 DEF Ended, vars, turnVars, TurnTold
  <1> QED  BY <1>1, <1>2, <1>3, <1>4, <1>5, <1>6 DEF Next

(* Whoever receives the turn of a hidden word, by a word just chosen, a miss, *)
(* a timeout or a departure, is told by S_YOURTURN in the same step.         *)
THEOREM TurnIsAnnounced == Spec => HandoverAnnounced
  <1>1. IInv /\ [Next]_vars =>
          [\A c \in Conns : (/\ current_player # c /\ current_player' = c
                             /\ word_is_selected') => Has(c, "YOURTURN")']_vars
    BY StepTells DEF TurnTold, Spoken, Has
  <1> QED  BY <1>1, InductiveInvariant, PTL DEF Spec, HandoverAnnounced

-----------------------------------------------------------------------------
(* A room implements a match. *)

AStep == [AMatch!MatchNext]_<<Open(fds, << >>), Open(suzerain, NULL),
            Open(current_player, NULL), Open(word_is_selected, FALSE),
            Open(next_turn \/ pc = "turn", FALSE), close_room>>

-----------------------------------------------------------------------------
(* The next node in the list is the next in the order of arrival. *)
LEMMA NextIsNext ==
  ASSUME IInv, ~close_room, NEW i \in DOMAIN fds
  PROVE  /\ fds[i] \in AMatch!Players
         /\ AMatch!Place(fds[i]) = i
         /\ AMatch!NextTo(fds[i]) = nxt[fds[i]]
  <1>1. Open(fds, << >>) = fds
    BY DEF Open
  <1>2. \A k \in DOMAIN fds : fds[k] = fds[i] => k = i
    BY DEF IInv, ListInv, FdsDistinct
  <1>3. AMatch!Place(fds[i]) = i
    BY <1>1, <1>2 DEF AMatch!Place
  <1>4. AMatch!Follower(i) = Succ(i)
    BY <1>1 DEF AMatch!Follower, Succ
  <1>5. nxt[fds[i]] = fds[Succ(i)]
    BY DEF IInv, ListInv, RingOfFds, LoneNode
  <1> QED  BY <1>1, <1>3, <1>4, <1>5 DEF AMatch!NextTo, AMatch!Players

LEMMA NextOfPlayer ==
  ASSUME IInv, ~close_room, NEW c \in Linked
  PROVE  /\ c \in AMatch!Players
         /\ AMatch!NextTo(c) = nxt[c]
         /\ c \in Conns /\ c # NULL
  <1>1. PICK i \in DOMAIN fds : c = fds[i]
    BY DEF IInv, ListInv, RingOfFds, LoneNode, Polled
  <1> QED  BY <1>1, NextIsNext, NullAssumption DEF Linked

(* A player is alone exactly when its node follows itself. *)
LEMMA AloneIsOwnNext ==
  ASSUME IInv, ~close_room, NEW c \in Linked
  PROVE  nxt[c] = c <=> Len(fds) = 1
  <1>1. PICK i \in DOMAIN fds : c = fds[i]
    BY DEF IInv, ListInv, RingOfFds, LoneNode, Polled
  <1>2. nxt[fds[i]] = fds[Succ(i)] /\ DOMAIN fds = 1 .. Len(fds) /\ Len(fds) \in Nat
    BY DEF IInv, TypeOK, ListInv, RingOfFds, LoneNode
  <1>3. Succ(i) \in DOMAIN fds /\ (Succ(i) = i <=> Len(fds) = 1)
    BY <1>2 DEF Succ
  <1> QED  BY <1>1, <1>2, <1>3 DEF IInv, ListInv, FdsDistinct

LEMMA HoldersLinked ==
  ASSUME IInv
  PROVE  /\ suzerain # NULL => suzerain \in Linked
         /\ current_player # NULL => current_player \in Linked
  BY DEF IInv, TurnInv, NoDanglingTurn

(* An event is handled only while the match is played. *)
LEMMA EventWhilePlaying ==
  ASSUME IInv, NEW i, Scanning(i)
  PROVE  ~close_room /\ ~next_turn /\ pc = "scan" /\ AMatch!Playing
  BY DEF IInv, LoopInv, Scanning, AMatch!Playing, Open

LEMMA PlayerOfSlot ==
  ASSUME IInv, NEW i, Scanning(i), i # 0
  PROVE  /\ i \in DOMAIN fds /\ fds[i] \in Linked /\ getPlayer(fds[i]) = fds[i]
         /\ fds[i] \in Conns /\ fds[i] # NULL
  <1>1. i \in DOMAIN fds
    BY DEF Scanning, IInv, TypeOK
  <1>2. fds[i] \in Linked
    BY <1>1, EventWhilePlaying DEF IInv, ListInv, RingOfFds, LoneNode, Polled
  <1> QED  BY <1>1, <1>2, NullAssumption DEF Linked, getPlayer

-----------------------------------------------------------------------------
(* The steps that are steps of the match. *)

LEMMA NothingHappens ==
  ASSUME UNCHANGED <<fds, suzerain, current_player, word_is_selected, close_room>>,
         close_room \/ (next_turn' \/ pc' = "turn") = (next_turn \/ pc = "turn")
  PROVE  AStep
  BY DEF AStep, Open

LEMMA ClosesMatch ==
  ASSUME ~close_room, close_room' = TRUE
  PROVE  AStep
  BY DEF AStep, Open, AMatch!MatchNext, AMatch!CloseMatch

LEMMA NewTurnMatches == ASSUME NewTurn PROVE AStep
  <1>1. AMatch!StartRound
    BY DEF NewTurn, AMatch!StartRound, Open, listVars
  <1> QED  BY <1>1 DEF AStep, AMatch!MatchNext

LEMMA JoinMatches == ASSUME IInv, NEW c \in Conns, Join(c) PROVE AStep
  <1>1. ~close_room /\ ~next_turn /\ pc = "scan" /\ AMatch!Playing
    BY EventWhilePlaying DEF Join
  <1>2. c \notin Polled
    BY <1>1 DEF Join, UserInRoom, IInv, ListInv, RingOfFds, LoneNode
  <1>3. c \notin AMatch!Players
    BY <1>1, <1>2 DEF AMatch!Players, Open, Polled
  <1>4. ~close_room' /\ ~next_turn' /\ pc' = "scan"
    BY <1>1 DEF Join
  <1>5. AMatch!Enter(c)
    BY <1>1, <1>3, <1>4 DEF Join, AMatch!Enter, Open
  <1> QED  BY <1>5 DEF AStep, AMatch!MatchNext

LEMMA SelectWordMatches == ASSUME IInv, NEW i, SelectWord(i) PROVE AStep
  <1>1. ~close_room /\ ~next_turn /\ pc = "scan" /\ AMatch!Playing
    BY EventWhilePlaying DEF SelectWord
  <1>2. suzerain = fds[i] /\ fds[i] \in Linked /\ suzerain # NULL
    BY PlayerOfSlot DEF SelectWord
  <1>3. AMatch!NextTo(suzerain) = nxt[suzerain]
    BY <1>1, <1>2, NextOfPlayer
  <1>4. AMatch!Choose
    BY <1>1, <1>2, <1>3 DEF SelectWord, listVars, AMatch!Choose, Open
  <1> QED  BY <1>4 DEF AStep, AMatch!MatchNext

LEMMA SelectMalformedMatches == ASSUME IInv, NEW i, SelectMalformed(i) PROVE AStep
  <1>1. ~close_room /\ ~next_turn /\ pc = "scan" /\ AMatch!Playing
    BY EventWhilePlaying DEF SelectMalformed
  <1>2. suzerain # NULL
    BY PlayerOfSlot DEF SelectMalformed
  <1>3. AMatch!ChooseAgain
    BY <1>1, <1>2 DEF SelectMalformed, listVars, AMatch!ChooseAgain, Open
  <1> QED  BY <1>3 DEF AStep, AMatch!MatchNext

LEMMA GuessHitsMatches == ASSUME IInv, NEW i, GuessHits(i) PROVE AStep
  <1>1. ~close_room /\ ~next_turn /\ pc = "scan" /\ AMatch!Playing
    BY EventWhilePlaying DEF GuessHits
  <1>2. getPlayer(fds[i]) = fds[i] /\ fds[i] \in Linked /\ fds[i] \in Conns
    BY PlayerOfSlot DEF GuessHits
  <1>3. fds[i] \in AMatch!Players
    BY <1>1, <1>2, NextOfPlayer
  <1>4. AMatch!Win(fds[i])
    BY <1>1, <1>2, <1>3 DEF GuessHits, listVars, AMatch!Win, Open
  <1> QED  BY <1>2, <1>4 DEF AStep, AMatch!MatchNext

(* movePlayerTurn is After. *)
LEMMA AdvanceIsAfter ==
  ASSUME IInv, ~close_room, current_player # NULL
  PROVE  movePlayerTurn(current_player, suzerain)
            = AMatch!After(current_player, suzerain)
  <1>1. current_player \in Linked
    BY HoldersLinked
  <1>2. AMatch!NextTo(current_player) = nxt[current_player]
    BY <1>1, NextOfPlayer
  <1>3. nxt[current_player] = suzerain
            => AMatch!NextTo(suzerain) = nxt[nxt[current_player]]
    <2>1. nxt[current_player] \in Linked
      BY <1>1, NextLinked DEF IInv
    <2> QED  BY <2>1, NextOfPlayer
  <1> QED  BY <1>2, <1>3 DEF movePlayerTurn, PassesSuzerain, AMatch!After

LEMMA GuessMissesMatches == ASSUME IInv, NEW i, GuessMisses(i) PROVE AStep
  <1>1. ~close_room /\ ~next_turn /\ pc = "scan" /\ AMatch!Playing
    BY EventWhilePlaying DEF GuessMisses
  <1>2. current_player # NULL
        /\ current_player' = AMatch!After(current_player, suzerain)
    BY <1>1, AdvanceIsAfter DEF GuessMisses, AdvanceTurn
  <1>3. Open(suzerain, NULL) = suzerain /\ Open(current_player, NULL) = current_player
    BY <1>1 DEF Open
  <1>4. AMatch!Miss
    BY <1>1, <1>2, <1>3 DEF GuessMisses, listVars, AMatch!Miss, Open
  <1> QED  BY <1>4 DEF AStep, AMatch!MatchNext

(* The two routines of the timeout. *)
LEMMA ChoiceExpiresMatches ==
  ASSUME IInv, SuzerainLate, SuzerainTimesOut, ~close_room, close_room' = close_room,
         fds' = fds, next_turn' \/ pc' = "turn"
  PROVE  AStep
  <1>1. suzerain # NULL /\ suzerain \in Linked /\ ~word_is_selected
    BY HoldersLinked DEF SuzerainLate
  <1>2. AMatch!NextTo(suzerain) = nxt[suzerain] /\ (nxt[suzerain] = suzerain <=> Len(fds) = 1)
    BY <1>1, NextOfPlayer, AloneIsOwnNext
  <1>3. AMatch!Heir(suzerain) = moveSuzerainTurn(suzerain)
    BY <1>2 DEF AMatch!Heir, moveSuzerainTurn, Open
  <1>4. AMatch!ChoiceExpires
    BY <1>1, <1>3 DEF SuzerainTimesOut, AMatch!ChoiceExpires, Open
  <1> QED  BY <1>4 DEF AStep, AMatch!MatchNext

LEMMA TurnExpiresMatches ==
  ASSUME IInv, ~SuzerainLate, PlayerTimesOut, ~close_room,
         close_room' = close_room, fds' = fds,
         (next_turn' \/ pc' = "turn") = (next_turn \/ pc = "turn")
  PROVE  AStep
  <1>1. CASE current_player = NULL
    <2>1. UNCHANGED <<fds, suzerain, current_player, word_is_selected, close_room>>
      BY <1>1 DEF PlayerTimesOut, IInv, TypeOK
    <2> QED  BY <2>1, NothingHappens
  <1>2. CASE current_player # NULL
    <2>1. current_player' = AMatch!After(current_player, suzerain)
      BY <1>2, AdvanceIsAfter DEF PlayerTimesOut, AdvanceTurn
    <2>2. word_is_selected \/ suzerain = NULL
      BY DEF SuzerainLate
    <2>3. Open(suzerain, NULL) = suzerain /\ Open(current_player, NULL) = current_player
      BY DEF Open
    <2>4. AMatch!TurnExpires
      BY <1>2, <2>1, <2>2, <2>3 DEF PlayerTimesOut, AMatch!TurnExpires, Open
    <2> QED  BY <2>4 DEF AStep, AMatch!MatchNext
  <1> QED  BY <1>1, <1>2

LEMMA MoreThanOne == \A n \in Nat : n > 1 => n # 1
  OBVIOUS

(* A player that leaves others behind. *)
LEMMA LeaveMatches == ASSUME IInv, NEW i, NEW heir, i # 0, Leave(i, heir) PROVE AStep
  <1>1. ~close_room /\ ~next_turn /\ pc = "scan" /\ AMatch!Playing
    BY EventWhilePlaying DEF Leave
  <1>2. CASE LeaveAlone(i, heir)
    BY <1>1, <1>2, ClosesMatch DEF LeaveAlone
  <1>3. CASE LeaveOthers(i, heir)
    <2> DEFINE c == fds[i]
    <2>1. i \in DOMAIN fds /\ c \in Linked /\ getPlayer(c) = c /\ c \in Conns /\ c # NULL
      BY PlayerOfSlot DEF Leave
    <2>2. c \in AMatch!Players /\ AMatch!Place(c) = i /\ AMatch!NextTo(c) = nxt[c]
      BY <1>1, <2>1, NextIsNext
    <2>3. Len(fds) > 1 /\ nxt[c] # c
      <3>1. Len(fds) > 1 /\ Len(fds) \in Nat
        BY <1>3 DEF LeaveOthers, IInv, TypeOK
      <3>2. Len(fds) # 1
        BY <3>1, MoreThanOne
      <3>3. nxt[c] = c => Len(fds) = 1
        BY <1>1, <2>1, AloneIsOwnNext
      <3> QED  BY <3>1, <3>2, <3>3
    <2>4. NewSuzerain(c) = AMatch!SuzWithout(c)
      BY <1>1, <2>2, <2>3 DEF NewSuzerain, moveSuzerainTurn, AMatch!SuzWithout, Open
    <2>5. movePlayerTurn(c, NewSuzerain(c)) = AMatch!After(c, NewSuzerain(c))
      <3>1. nxt[c] \in Linked
        BY <2>1, NextLinked DEF IInv
      <3>2. AMatch!NextTo(nxt[c]) = nxt[nxt[c]]
        BY <1>1, <3>1, NextOfPlayer
      <3> QED  BY <2>2, <3>2 DEF movePlayerTurn, PassesSuzerain, AMatch!After
    <2>6. TurnLeft(c, NewSuzerain(c)) = AMatch!TurnWithout(c)
      BY <1>1, <2>4, <2>5 DEF TurnLeft, AMatch!TurnWithout, Open
    <2>7. /\ suzerain' = AMatch!SuzWithout(c) /\ current_player' = AMatch!TurnWithout(c)
          /\ next_turn' = (Len(fds) = 2 \/ suzerain = c)
          /\ word_is_selected' = word_is_selected /\ close_room' = close_room
          /\ pc' = pc
      BY <1>1, <1>3, <2>1, <2>4, <2>6 DEF LeaveOthers, Leave
    <2>8. Open(fds, << >>)' = AMatch!Without(c)
      BY <1>1, <2>2, <2>7 DEF Leave, RemoveSlot, AMatch!Without, Open
    <2>9. AMatch!Part(c)
      BY <1>1, <2>2, <2>3, <2>7, <2>8 DEF AMatch!Part, Open
    <2> QED  BY <2>1, <2>9 DEF AStep, AMatch!MatchNext
  <1> QED  BY <1>2, <1>3 DEF Leave

-----------------------------------------------------------------------------
LEMMA PlayerEventMatches == ASSUME IInv, NEW i, PlayerEvent(i) PROVE AStep
  <1>1. CASE SlotFails(i)
    BY <1>1, EventWhilePlaying, ClosesMatch DEF SlotFails
  <1>2. CASE OutOfPlace(i)
    BY <1>2, NothingHappens DEF OutOfPlace, listVars, turnVars
  <1>3. CASE SelectIgnored(i)
    BY <1>3, NothingHappens DEF SelectIgnored, listVars, turnVars
  <1>4. CASE SelectMalformed(i)
    BY <1>4, SelectMalformedMatches
  <1>5. CASE SelectWord(i)
    BY <1>5, SelectWordMatches
  <1>6. CASE GuessHits(i)
    BY <1>6, GuessHitsMatches
  <1>7. CASE GuessMisses(i)
    BY <1>7, GuessMissesMatches
  <1>8. CASE GuessCrashes(i)
    <2>1. pc = "scan"
      BY <1>8, EventWhilePlaying DEF GuessCrashes
    <2> QED  BY <1>8, <2>1, NothingHappens DEF GuessCrashes, listVars, turnVars
  <1>9. CASE ExitRoom(i) \/ Disconnect(i)
    BY <1>9, LeaveMatches DEF ExitRoom, Disconnect, Leave
  <1> QED  BY <1>1, <1>2, <1>3, <1>4, <1>5, <1>6, <1>7, <1>8, <1>9 DEF PlayerEvent

LEMMA StepMatches == IInv /\ [Next]_vars => AStep
  <1> SUFFICES ASSUME IInv, [Next]_vars PROVE AStep
    OBVIOUS
  <1>1. CASE NewTurn
    BY <1>1, NewTurnMatches
  <1>2. CASE AskSuzerain
    BY <1>2, NothingHappens DEF AskSuzerain, listVars
  <1>3. CASE PollFails
    BY <1>3, ClosesMatch DEF PollFails, IInv, LoopInv
  <1>4. CASE PollTimesOut
    <2>1. ~close_room /\ ~next_turn /\ pc = "poll" /\ close_room' = close_room
          /\ ~next_turn' /\ fds' = fds
      BY <1>4 DEF PollTimesOut, IInv, LoopInv, listVars
    <2>2. CASE SuzerainLate /\ SuzerainTimesOut /\ pc' = "turn"
      BY <2>1, <2>2, ChoiceExpiresMatches
    <2>3. CASE ~SuzerainLate /\ PlayerTimesOut /\ pc' = "top"
      BY <2>1, <2>3, TurnExpiresMatches
    <2> QED  BY <1>4, <2>2, <2>3 DEF PollTimesOut
  <1>5. ASSUME NEW R, PollReturns(R) PROVE AStep
    BY <1>5, NothingHappens DEF PollReturns, listVars, turnVars
  <1>6. ASSUME NEW i, PlayerEvent(i) PROVE AStep
    BY <1>6, PlayerEventMatches
  <1>7. ASSUME NEW c \in Conns, Join(c) PROVE AStep
    BY <1>7, JoinMatches
  <1>8. ASSUME NEW c \in Conns, JoinRefused(c) PROVE AStep
    BY <1>8, NothingHappens DEF JoinRefused, listVars, turnVars
  <1>9. CASE ScanEnds
    BY <1>9, NothingHappens DEF ScanEnds, listVars, turnVars
  <1>10. CASE ClockExpires
    <2>1. pc = "scan" /\ fds' = fds /\ close_room' = close_room
          /\ (next_turn' \/ pc' = "turn") = next_turn'
      BY <1>10 DEF ClockExpires, listVars
    <2>2. CASE close_room
      BY <2>1, <2>2 DEF AStep, Open
    <2>3. CASE ~close_room /\ SuzerainLate /\ SuzerainTimesOut
      BY <1>10, <2>1, <2>3, ChoiceExpiresMatches DEF ClockExpires
    <2>4. CASE ~close_room /\ ~SuzerainLate /\ PlayerTimesOut
      <3>1. next_turn' = next_turn
        BY <1>10, <2>4 DEF ClockExpires, IInv, TypeOK
      <3> QED  BY <2>1, <2>4, <3>1, TurnExpiresMatches
    <2> QED  BY <1>10, <2>2, <2>3, <2>4 DEF ClockExpires
  <1>11. CASE CloseRoom
    BY <1>11, NothingHappens DEF CloseRoom, listVars, turnVars
  <1>12. CASE Ended \/ UNCHANGED vars
    BY <1>12, NothingHappens DEF Ended, vars, listVars, turnVars, loopVars
  <1> QED  BY <1>1, <1>2, <1>3, <1>4, <1>5, <1>6, <1>7, <1>8, <1>9, <1>10, <1>11, <1>12
           DEF Next, Poll, JoinEvent

LEMMA InitMatches == Init => AMatch!MatchInit
  BY DEF Init, AMatch!MatchInit, Open

(* ThreadRoom.c:87-499.  A room, with its list of nodes, its array of sockets  *)
(* and its nested loops, plays a match in the order of arrival, whoever its    *)
(* players are and whatever they and the kernel do.                            *)
THEOREM RoomImplementsMatch == Spec => ImplementsMatch
  <1>1. IInv /\ [Next]_vars => [AMatch!MatchNext]_(AMatch!matchVars)
    BY StepMatches DEF AStep, AMatch!matchVars
  <1> QED  BY <1>1, InitMatches, InductiveInvariant, PTL
           DEF Spec, ImplementsMatch, AMatch!MatchSpec
=============================================================================
