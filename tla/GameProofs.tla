----------------------------- MODULE GameProofs -----------------------------
(***************************************************************************)
(* A game is a match of module Room with its players around it: whatever the *)
(* clients and the streams do, the room takes steps of Room, so that every   *)
(* theorem of RoomProofs is one of a game (GameIsARoom).                     *)
(*                                                                         *)
(* What the clients are told is right because of where each of them stands   *)
(* (PhaseInv): outside of the room, asking to join, inside, let go or        *)
(* dropped but not yet aware of it, or gone.  A phase binds the two ends of the connection:  *)
(* who owns the socket, the page of the prompt, what is typed and not yet    *)
(* forwarded, and what is in flight in each direction.  The room's steps     *)
(* move a client from phase to phase through the messages they write, which  *)
(* is what the lemmas about out, Heard and Unread are for.                   *)
(***************************************************************************)
EXTENDS Game, RoomProofs

-----------------------------------------------------------------------------
(* The room of a game is a room. *)

LEMMA RoomStepIsNext == ASSUME IInv, RoomStep PROVE [Next]_vars
  <1>1. ASSUME NEW i, Scanning(i) PROVE i \in 0 .. Len(fds)
    BY <1>1 DEF Scanning, IInv, TypeOK
  <1>2. CASE RoomLoops
    <2>1. CASE NewTurn \/ AskSuzerain \/ ScanEnds \/ ClockExpires \/ CloseRoom
      BY <2>1 DEF Next
    <2>2. CASE RoomPolls
      <3>1. Pending \in SUBSET (0 .. Len(fds))
        BY DEF Pending, IInv, TypeOK
      <3> QED  BY <2>2, <3>1 DEF RoomPolls, Next, Poll
    <2> QED  BY <1>2, <2>1, <2>2 DEF RoomLoops
  <1>3. CASE \E c \in Conns : RoomAdmits(c) \/ RoomRefuses(c)
    BY <1>3 DEF RoomAdmits, RoomRefuses, Next, JoinEvent
  <1>4. CASE \E i \in DOMAIN fds : RoomHandles(i)
    BY <1>4, <1>1 DEF RoomHandles, Handles, Next, PlayerEvent
  <1> QED  BY <1>2, <1>3, <1>4 DEF RoomStep

LEMMA GameStepIsNext == IInv /\ [GameNext]_gameVars => [Next]_vars
  <1> SUFFICES ASSUME IInv, [GameNext]_gameVars PROVE [Next]_vars
    OBVIOUS
  <1>1. CASE RoomStep
    BY <1>1, RoomStepIsNext
  <1>2. ASSUME NEW c \in Conns, ClientStep(c) PROVE UNCHANGED vars
    BY <1>2 DEF ClientStep, AskToJoin, Types, Forwards, Receives, Obeys, HearsEnd, Quits
  <1>3. ASSUME NEW c \in Conns, ServiceReads(c) PROVE UNCHANGED vars
    BY <1>3 DEF ServiceReads
  <1> QED  BY <1>1, <1>2, <1>3 DEF GameNext, GameEnded, gameVars

(* Whatever the clients, their threads and the streams do, thrRoom does only *)
(* what module Room lets it do: every theorem about Room holds in a game.    *)
THEOREM GameIsARoom == GameSpec => Spec
  <1>1. GameInit => Init /\ IInv
    BY InitIInv DEF GameInit
  <1>2. IInv /\ [GameNext]_gameVars => IInv' /\ [Next]_vars
    BY GameStepIsNext, NextInv
  <1> QED  BY <1>1, <1>2, PTL DEF GameSpec, Spec

-----------------------------------------------------------------------------
(* The signals as the client makes them out. *)

Wire == Heeded \cup {"OTHER", "EOF"}

(* As many as were written, each itself or one of those not heeded. *)
LEMMA HeardIs ==
  ASSUME NEW s \in Seq(Signals)
  PROVE  /\ Heard(s) \in Seq(Wire) /\ Len(Heard(s)) = Len(s)
         /\ \A k \in DOMAIN Heard(s) : /\ k \in DOMAIN s
                                       /\ Heard(s)[k] = IF s[k] \in Heeded THEN s[k] ELSE "OTHER"
  <1>1. DOMAIN s = 1 .. Len(s) /\ Len(s) \in Nat
    OBVIOUS
  <1>2. \A k \in 1 .. Len(s) : (IF s[k] \in Heeded THEN s[k] ELSE "OTHER") \in Wire
    BY DEF Wire
  <1>3. Heard(s) = [k \in 1 .. Len(s) |-> IF s[k] \in Heeded THEN s[k] ELSE "OTHER"]
    BY <1>1 DEF Heard
  <1> HIDE DEF Heard
  <1>4. Heard(s) \in [1 .. Len(s) -> Wire]
    BY <1>2, <1>3
  <1>5. Heard(s) \in Seq(Wire) /\ Len(Heard(s)) = Len(s) /\ DOMAIN Heard(s) = 1 .. Len(s)
    BY <1>1, <1>4
  <1> QED  BY <1>1, <1>3, <1>5

-----------------------------------------------------------------------------
(* What the room writes: only to the players it polls, and never that they   *)
(* are let go, but to the one that is.                                       *)

Staying == Signals \ {"HOMEPAGEOK"}

Tells(S) == {o \in [Conns -> Seq(Staying)] : \A c \in Conns : c \notin S => o[c] = << >>}

LEMMA TellsNobody == ASSUME NEW S PROVE Silence \in Tells(S)
  BY DEF Tells, Silence

LEMMA TellsSay ==
  ASSUME NEW S, NEW R, \A c \in Conns : c \in R => c \in S, NEW sig \in Staying
  PROVE  Say(R, sig) \in Tells(S)
  <1>1. << >> \in Seq(Staying) /\ <<sig>> \in Seq(Staying)
    OBVIOUS
  <1>2. \A c \in Conns : Say(R, sig)[c] = IF c \in R THEN <<sig>> ELSE << >>
    BY DEF Say
  <1>3. Say(R, sig) \in [Conns -> Seq(Staying)]
    BY <1>1 DEF Say
  <1> QED  BY <1>2, <1>3 DEF Tells

LEMMA EmptyConcat == ASSUME NEW S, NEW s \in Seq(S) PROVE s \o << >> = s /\ << >> \o s = s
  OBVIOUS

LEMMA TellsBoth ==
  ASSUME NEW S, NEW f \in Tells(S), NEW g \in Tells(S)
  PROVE  f ++ g \in Tells(S)
  <1>1. \A c \in Conns : f[c] \in Seq(Staying) /\ g[c] \in Seq(Staying)
    BY DEF Tells
  <1>2. \A c \in Conns : f[c] \o g[c] \in Seq(Staying)
    <2> TAKE c \in Conns
    <2>1. f[c] \in Seq(Staying) /\ g[c] \in Seq(Staying)
      BY <1>1
    <2> QED  BY <2>1
  <1>3. \A c \in Conns : c \notin S => f[c] \o g[c] = << >>
    BY DEF Tells
  <1> QED  BY <1>2, <1>3 DEF ++, Tells

LEMMA TellsHint ==
  ASSUME NEW S, NEW R, \A c \in Conns : c \in R => c \in S, NEW hint
  PROVE  SayHint(R, hint) \in Tells(S)
  BY TellsNobody, TellsSay DEF SayHint, Staying, Signals

(* The holders of the turn are polled, but in a room its last player left.   *)
LEMMA HoldersPolled ==
  ASSUME IInv, ~Emptied
  PROVE  /\ Linked = Polled
         /\ \A c \in Conns : c \in {suzerain} \/ c \in {current_player} => c \in Polled
  <1>1. Linked = Polled
    BY DEF IInv, ListInv, RingOfFds, LoneNode, Emptied
  <1> QED  BY <1>1, HoldersLinked, NullAssumption

LEMMA AdvanceTellsPolled ==
  ASSUME IInv, ~Emptied, current_player # NULL
  PROVE  AdvanceTurnSays \in Tells(Polled)
  <1>1. movePlayerTurn(current_player, suzerain) \in Polled
    BY HoldersPolled, HoldersLinked, MovesLinked DEF IInv
  <1>2. SayHint(Polled, PassesSuzerain(current_player, suzerain)) \in Tells(Polled)
    BY TellsHint
  <1>3. Say({movePlayerTurn(current_player, suzerain)}, "YOURTURN") \in Tells(Polled)
    BY <1>1, TellsSay DEF Staying, Signals
  <1> QED  BY <1>2, <1>3, TellsBoth DEF AdvanceTurnSays

LEMMA TimeoutTellsPolled ==
  ASSUME IInv, ~Emptied, SuzerainTimesOut \/ PlayerTimesOut
  PROVE  out' \in Tells(Polled)
  <1>1. Say({suzerain}, "TURNTIMEOUT") \in Tells(Polled)
        /\ Say({current_player}, "TURNTIMEOUT") \in Tells(Polled)
    BY HoldersPolled, TellsSay DEF Staying, Signals
  <1>2. current_player # NULL =>
          Say({current_player}, "TURNTIMEOUT") ++ AdvanceTurnSays \in Tells(Polled)
    BY <1>1, AdvanceTellsPolled, TellsBoth
  <1>3. CASE SuzerainTimesOut
    BY <1>1, <1>3 DEF SuzerainTimesOut
  <1>4. CASE PlayerTimesOut
    BY <1>2, <1>4, TellsNobody DEF PlayerTimesOut
  <1> QED  BY <1>3, <1>4

(* The steps at which nobody comes or goes. *)
Stays == owner' = owner /\ pc' # "closed" /\ out' \in Tells(Polled)

LEMMA LoopStays ==
  ASSUME IInv, \/ NewTurn \/ AskSuzerain \/ RoomPolls \/ ScanEnds
               \/ ClockExpires /\ ~Emptied
  PROVE  Stays
  <1> USE DEF Stays
  <1>1. pc \in {"top", "poll"} => ~close_room
    BY DEF IInv, LoopInv
  <1>2. CASE NewTurn
    <2>1. Say({current_player}, "NOTYOURTURN") \in Tells(Polled)
      BY <1>2, HoldersPolled, TellsSay DEF NewTurn, Staying, Signals, Emptied
    <2> QED  BY <1>2, <2>1 DEF NewTurn
  <1>3. CASE AskSuzerain
    <2>1. Say({suzerain}, "CHOOSEWORD") \in Tells(Polled)
      BY <1>1, <1>3, HoldersPolled, TellsSay DEF AskSuzerain, Staying, Signals, Emptied
    <2> QED  BY <1>3, <2>1, TellsNobody DEF AskSuzerain
  <1>4. CASE RoomPolls /\ PollTimesOut
    <2>1. ~Emptied
      BY <1>1, <1>4 DEF PollTimesOut, Emptied
    <2> QED  BY <1>4, <2>1, TimeoutTellsPolled DEF PollTimesOut
  <1>5. CASE ScanEnds
    BY <1>5, TellsNobody DEF ScanEnds
  <1>6. CASE RoomPolls /\ PollReturns(Pending)
    BY <1>6, TellsNobody DEF PollReturns
  <1>7. CASE RoomPolls /\ PollFails
    BY <1>7, TellsNobody DEF PollFails
  <1>8. CASE ClockExpires /\ ~Emptied
    BY <1>8, TimeoutTellsPolled DEF ClockExpires
  <1> QED  BY <1>2, <1>3, <1>4, <1>5, <1>6, <1>7, <1>8 DEF RoomPolls

(* In a room its last player left, the clock has nobody else to write to. *)
LEMMA LateClockSays ==
  ASSUME IInv, Emptied, ClockExpires
  PROVE  \A c \in Conns :
           /\ c \notin Linked => out'[c] = << >>
           /\ out'[c] \in Seq(LateClock)
  <1>1. /\ suzerain \in Linked \cup {NULL} /\ current_player \in Linked \cup {NULL}
        /\ Polled = {}
    BY HoldersLinked DEF Emptied, Polled
  <1> SUFFICES ASSUME NEW c \in Conns
               PROVE  (c \notin Linked => out'[c] = << >>) /\ out'[c] \in Seq(LateClock)
    OBVIOUS
  <1>2. << >> \in Seq(LateClock) /\ <<"TURNTIMEOUT">> \in Seq(LateClock)
        /\ <<"YOURTURN">> \in Seq(LateClock)
    BY DEF LateClock
  <1>3. CASE SuzerainTimesOut \/ (PlayerTimesOut /\ current_player = NULL)
    BY <1>1, <1>2, <1>3, NullAssumption DEF SuzerainTimesOut, PlayerTimesOut, Say, Silence
  <1>4. CASE PlayerTimesOut /\ current_player # NULL
    <2> DEFINE q == movePlayerTurn(current_player, suzerain)
               late == Say({current_player}, "TURNTIMEOUT")
               hint == SayHint(Polled, PassesSuzerain(current_player, suzerain))
               turn == Say({q}, "YOURTURN")
    <2>1. q \in Linked /\ current_player \in Linked
      BY <1>1, <1>4, MovesLinked DEF IInv
    <2>2. out' = late ++ (hint ++ turn)
      BY <1>4 DEF PlayerTimesOut, AdvanceTurnSays
    <2>3. /\ late[c] = IF c = current_player THEN <<"TURNTIMEOUT">> ELSE << >>
          /\ turn[c] = IF c = q THEN <<"YOURTURN">> ELSE << >>
      BY DEF Say
    <2>4. hint[c] = << >>
      BY <1>1 DEF SayHint, Say, Silence
    <2> HIDE DEF late, hint, turn, q
    <2>5. out'[c] = late[c] \o (hint[c] \o turn[c])
      BY <2>2 DEF ++
    <2>6. turn[c] \in Seq(LateClock) /\ late[c] \in Seq(LateClock)
      BY <1>2, <2>3
    <2>7. out'[c] = late[c] \o turn[c]
      BY <2>4, <2>5, <2>6, EmptyConcat
    <2>8. c \notin Linked => late[c] = << >> /\ turn[c] = << >>
      BY <2>1, <2>3
    <2> QED  BY <2>6, <2>7, <2>8, EmptyConcat
  <1> QED  BY <1>3, <1>4 DEF ClockExpires

LEMMA EventStays ==
  ASSUME IInv, NEW i,
         \/ SlotFails(i) \/ SelectIgnored(i) \/ SelectMalformed(i) \/ SelectWord(i)
         \/ GuessHits(i) \/ GuessMisses(i) \/ GuessCrashes(i)
  PROVE  Stays
  <1> USE DEF Stays
  <1>1. Scanning(i) /\ pc = "scan" /\ ~close_room
    BY ScanFacts DEF SlotFails, SelectIgnored, SelectMalformed, SelectWord, GuessHits,
       GuessMisses, GuessCrashes
  <1>2. CASE SlotFails(i) \/ SelectIgnored(i) \/ SelectMalformed(i) \/ GuessCrashes(i)
    BY <1>1, <1>2, TellsNobody DEF SlotFails, SelectIgnored, SelectMalformed, GuessCrashes
  <1>3. CASE SelectWord(i)
    <2>1. fds[i] \in Linked /\ suzerain = fds[i] /\ suzerain # NULL
      BY <1>3, PlayerOfSlot DEF SelectWord
    <2>2. nxt[suzerain] \in Polled
      BY <1>1, <2>1, NextLinked, HoldersPolled DEF IInv, Emptied
    <2>3. Say(Polled, "NEWGAME") \in Tells(Polled)
          /\ Say({nxt[suzerain]}, "YOURTURN") \in Tells(Polled)
      BY <2>2, TellsSay DEF Staying, Signals
    <2> QED  BY <1>1, <1>3, <2>3, TellsBoth DEF SelectWord
  <1>4. CASE GuessHits(i)
    <2>1. fds[i] \in Polled
      BY <1>4, PlayerOfSlot DEF GuessHits, Polled
    <2>2. Say({fds[i]}, "VICTORY") \in Tells(Polled)
          /\ Say(Polled \ {fds[i]}, "DEFEAT") \in Tells(Polled)
      BY <2>1, TellsSay DEF Staying, Signals
    <2> QED  BY <1>1, <1>4, <2>2, TellsBoth DEF GuessHits
  <1>5. CASE GuessMisses(i)
    <2>1. Say(Polled, "MISSEDGUESS") \in Tells(Polled)
      BY TellsSay DEF Staying, Signals
    <2> QED  BY <1>1, <1>5, <2>1, AdvanceTellsPolled, TellsBoth DEF GuessMisses, Emptied
  <1> QED  BY <1>2, <1>3, <1>4, <1>5

(* A player goes: it is told so if it asked to, and nothing else. *)
LEMMA GoesTold ==
  ASSUME IInv, NEW i, NEW heir, Leave(i, heir)
  PROVE  /\ i \in DOMAIN fds /\ fds[i] \in Conns /\ owner[fds[i]] = "room"
         /\ owner' = [owner EXCEPT ![fds[i]] = heir] /\ pc' # "closed"
         /\ out'[fds[i]] = IF heir = "service" THEN <<"HOMEPAGEOK">> ELSE << >>
         /\ \A d \in Conns \ {fds[i]} : /\ out'[d] \in Seq(Staying)
                                        /\ d \notin Polled => out'[d] = << >>
  <1> DEFINE c == fds[i]
             bye == Rebuilds(c, heir)
             rest == Polled \ {c}
             s == NewSuzerain(c)
             q == movePlayerTurn(c, s)
             turn == current_player = c
             hint == turn /\ PassesSuzerain(c, s)
             told == Say(IF turn THEN {q} \ {c} ELSE {}, "YOURTURN")
             upd == Say(rest, "PLAYERUPDATE")
  <1>1. /\ i \in DOMAIN fds /\ c \in Linked /\ getPlayer(c) = c /\ c \in Conns
        /\ pc = "scan" /\ ~close_room
    BY PlayerOfSlot, ScanFacts DEF Leave
  <1>2. Linked = Polled /\ c \in Polled
    BY <1>1, HoldersPolled DEF Emptied
  <1>3. owner[c] = "room" /\ owner' = [owner EXCEPT ![c] = heir] /\ pc' # "closed"
    BY <1>1, <1>2 DEF IInv, OneReader, Leave
  <1>4. /\ bye[c] = IF heir = "service" THEN <<"HOMEPAGEOK">> ELSE << >>
        /\ \A d \in Conns \ {c} : bye[d] = << >>
    BY <1>1 DEF Rebuilds, Say, Silence
  <1>5. CASE LeaveAlone(i, heir)
    <2>1. out' = bye
      BY <1>5 DEF LeaveAlone
    <2>2. << >> \in Seq(Staying)
      OBVIOUS
    <2> HIDE DEF bye
    <2> QED  BY <1>1, <1>3, <1>4, <2>1, <2>2
  <1>6. CASE LeaveOthers(i, heir)
    <2>1. out' = bye ++ SayHint(rest, hint) ++ told ++ upd
      BY <1>1, <1>6 DEF LeaveOthers
    <2>2. q \in Polled
      BY <1>1, <1>2, MovesLinked DEF IInv
    <2>3. SayHint(rest, hint) \in Tells(rest)
      BY TellsHint
    <2>4. told \in Tells(rest)
      BY <2>2, TellsSay DEF Staying, Signals
    <2>5. upd \in Tells(rest)
      BY TellsSay DEF Staying, Signals
    <2> HIDE DEF bye, told, upd, rest, hint
    <2>6. \A d \in Conns : out'[d] = ((bye[d] \o SayHint(rest, hint)[d]) \o told[d]) \o upd[d]
      BY <2>1 DEF ++
    <2>7. SayHint(rest, hint)[c] = << >> /\ told[c] = << >> /\ upd[c] = << >>
      BY <1>1, <2>3, <2>4, <2>5 DEF Tells, rest
    <2>8. out'[c] = bye[c]
      <3>1. bye[c] \in Seq(Signals)
        BY <1>4 DEF Signals
      <3>2. bye[c] \o << >> = bye[c]
        BY <3>1, EmptyConcat
      <3>3. out'[c] = ((bye[c] \o << >>) \o << >>) \o << >>
        BY <1>1, <2>6, <2>7
      <3> QED  BY <3>2, <3>3
    <2>9. ASSUME NEW d \in Conns \ {c}
          PROVE  out'[d] \in Seq(Staying) /\ (d \notin Polled => out'[d] = << >>)
      <3>1. /\ bye[d] = << >> /\ SayHint(rest, hint)[d] \in Seq(Staying)
            /\ told[d] \in Seq(Staying) /\ upd[d] \in Seq(Staying)
        BY <1>4, <2>3, <2>4, <2>5 DEF Tells
      <3>2. d \notin Polled => /\ SayHint(rest, hint)[d] = << >>
                               /\ told[d] = << >> /\ upd[d] = << >>
        BY <2>3, <2>4, <2>5 DEF Tells, rest
      <3>3. out'[d] = (SayHint(rest, hint)[d] \o told[d]) \o upd[d]
        BY <2>6, <3>1, EmptyConcat
      <3>4. SayHint(rest, hint)[d] \o told[d] \in Seq(Staying)
        BY <3>1
      <3>5. out'[d] \in Seq(Staying)
        BY <3>1, <3>3, <3>4
      <3>6. d \notin Polled => out'[d] = << >>
        BY <3>1, <3>2, <3>3, EmptyConcat
      <3> QED  BY <3>5, <3>6
    <2> QED  BY <1>1, <1>3, <1>4, <2>8, <2>9
  <1> QED  BY <1>5, <1>6 DEF Leave


LEMMA JoinTellsPolled ==
  ASSUME NEW c \in Conns, Join(c)
  PROVE  out' \in Tells(Polled \cup {c})
  <1>1. /\ Say({c}, "ROOMOK") \in Tells(Polled \cup {c})
        /\ Say(Polled, "PLAYERUPDATE") \in Tells(Polled \cup {c})
    BY TellsSay DEF Staying, Signals
  <1> QED  BY <1>1, TellsBoth DEF Join

-----------------------------------------------------------------------------
(* The streams. *)

Requests == {"GUESS", "SELECT", "EXIT"} \cup Hangups

LEMMA ResetsKeep ==
  ASSUME NEW u \in [Conns -> Seq(Requests)], Resets(u)
  PROVE  /\ up' \in [Conns -> Seq(Requests)] /\ killed' \in BOOLEAN
         /\ \A c \in Conns : page[c] # "gone" => up'[c] = u[c]
  <1>1. PICK R \in SUBSET Conns :
          /\ \A c \in R : page[c] = "gone" /\ u[c] # << >>
          /\ up' = [c \in Conns |->
                     IF c \in R THEN [u[c] EXCEPT ![Len(u[c])] = "EPIPE"] ELSE u[c]]
          /\ killed' \in BOOLEAN
    <2> DEFINE hit == {c \in Conns : page[c] = "gone" /\ u[c] # << >> /\ out'[c] # << >>}
               ended == {c \in hit : Hangup(c) = "EOF"}
    <2>1. PICK Q \in SUBSET ended :
            /\ up' = [c \in Conns |->
                       IF c \in Q \cup (hit \ ended)
                       THEN [u[c] EXCEPT ![Len(u[c])] = "EPIPE"] ELSE u[c]]
            /\ killed' \in BOOLEAN
      BY DEF Resets
    <2> DEFINE R == Q \cup (hit \ ended)
    <2>2. R \in SUBSET Conns /\ \A c \in R : page[c] = "gone" /\ u[c] # << >>
      OBVIOUS
    <2> QED  BY <2>1, <2>2
  <1>2. ASSUME NEW c \in R PROVE [u[c] EXCEPT ![Len(u[c])] = "EPIPE"] \in Seq(Requests)
    <2>1. u[c] \in Seq(Requests) /\ u[c] # << >> /\ "EPIPE" \in Requests
      BY <1>1 DEF Requests, Hangups
    <2>2. Len(u[c]) \in 1 .. Len(u[c])
      BY <2>1
    <2> HIDE DEF Requests
    <2> QED  BY <2>1, <2>2
  <1> QED  BY <1>1, <1>2

LEMMA DeliverKeeps ==
  ASSUME IInv', down \in [Conns -> Seq(Wire)], Deliver
  PROVE  /\ down' \in [Conns -> Seq(Wire)]
         /\ \A c \in Conns :
               down'[c] = IF page[c] = "gone" THEN << >>
                          ELSE IF owner[c] = "nobody" THEN down[c]
                          ELSE IF Closes(c) THEN (down[c] \o Heard(out'[c])) \o <<"EOF">>
                          ELSE down[c] \o Heard(out'[c])
  <1>1. \A c \in Conns : out'[c] \in Seq(Signals)
    BY DEF IInv, TypeOK
  <1> DEFINE new(c) == IF page[c] = "gone" THEN << >>
                       ELSE IF owner[c] = "nobody" THEN down[c]
                       ELSE IF Closes(c) THEN (down[c] \o Heard(out'[c])) \o <<"EOF">>
                       ELSE down[c] \o Heard(out'[c])
  <1>2. ASSUME NEW c \in Conns
        PROVE  /\ new(c) \in Seq(Wire)
               /\ (down[c] \o Heard(out'[c])) \o << >> = down[c] \o Heard(out'[c])
    <2>1. Heard(out'[c]) \in Seq(Wire) /\ down[c] \in Seq(Wire)
      BY <1>1, HeardIs
    <2>2. down[c] \o Heard(out'[c]) \in Seq(Wire)
      BY <2>1
    <2>3. "EOF" \in Wire
      BY DEF Wire
    <2> HIDE DEF Wire
    <2>4. (down[c] \o Heard(out'[c])) \o <<"EOF">> \in Seq(Wire) /\ << >> \in Seq(Wire)
      BY <2>2, <2>3
    <2> QED  BY <2>1, <2>2, <2>4, EmptyConcat
  <1>3. down' = [c \in Conns |-> new(c)]
    BY <1>2 DEF Deliver
  <1> HIDE DEF new
  <1>4. down' \in [Conns -> Seq(Wire)] /\ \A c \in Conns : down'[c] = new(c)
    BY <1>2, <1>3
  <1> QED  BY <1>4 DEF new

(* Whoever keeps its reader hears what is written to it, or nothing more. *)
LEMMA DeliverSame ==
  ASSUME IInv', down \in [Conns -> Seq(Wire)], Deliver, NEW c \in Conns,
         page[c] # "gone", owner'[c] = owner[c]
  PROVE  down'[c] = IF owner[c] = "nobody" THEN down[c] ELSE down[c] \o Heard(out'[c])
  BY DeliverKeeps DEF Closes

LEMMA UnreadIs ==
  ASSUME NEW S, NEW s \in Seq(S), NEW k \in 1 .. Len(s)
  PROVE  /\ Unread(s, k) \in Seq(S)
         /\ s[1] \notin Hangups =>
              /\ Len(Unread(s, k)) = Len(s) - k
              /\ \A j \in DOMAIN Unread(s, k) :
                    k + j \in DOMAIN s /\ Unread(s, k)[j] = s[k + j]
  BY DEF Unread

LEMMA GameTypes == IInv /\ GameTypeOK /\ [GameNext]_gameVars => GameTypeOK'
  <1> SUFFICES ASSUME IInv, GameTypeOK, [GameNext]_gameVars PROVE GameTypeOK'
    OBVIOUS
  <1> USE DEF GameTypeOK
  <1>1. IInv'
    BY GameStepIsNext, NextInv
  <1>2. up \in [Conns -> Seq(Requests)] /\ down \in [Conns -> Seq(Wire)]
    BY DEF Requests, Wire
  <1>3. ASSUME NEW u \in [Conns -> Seq(Requests)], Resets(u), Deliver
        PROVE  /\ up' \in [Conns -> Seq({"GUESS", "SELECT", "EXIT"} \cup Hangups)]
               /\ down' \in [Conns -> Seq(Wire)] /\ killed' \in BOOLEAN
    BY <1>1, <1>2, <1>3, ResetsKeep, DeliverKeeps DEF Requests
  <1>4. CASE RoomLoops
    BY <1>2, <1>3, <1>4 DEF RoomLoops, clientVars, Wire
  <1>5. ASSUME NEW c \in Conns, RoomAdmits(c) PROVE GameTypeOK'
    BY <1>2, <1>3, <1>5 DEF RoomAdmits, Wire
  <1>6. ASSUME NEW c \in Conns, RoomRefuses(c) PROVE GameTypeOK'
    BY <1>6 DEF RoomRefuses
  <1>7. ASSUME NEW i \in DOMAIN fds, RoomHandles(i) PROVE GameTypeOK'
    <2>1. fds[i] \in Conns
      BY DEF IInv, TypeOK
    <2>2. PICK k \in 1 .. Len(up[fds[i]]) : Resets([up EXCEPT ![fds[i]] = Unread(@, k)])
      BY <1>7 DEF RoomHandles
    <2>3. Unread(up[fds[i]], k) \in Seq(Requests)
      BY <1>2, <2>1, UnreadIs
    <2>4. [up EXCEPT ![fds[i]] = Unread(@, k)] \in [Conns -> Seq(Requests)]
      BY <1>2, <2>1, <2>3
    <2> QED  BY <1>3, <1>7, <2>2, <2>4 DEF RoomHandles, clientVars, Wire
  <1>8. ASSUME NEW c \in Conns, ServiceReads(c) PROVE GameTypeOK'
    <2>1. PICK k \in 1 .. Len(up[c]) :
            up' = [up EXCEPT ![c] = IF Head(@) \in Hangups THEN << >> ELSE Unread(@, k)]
      BY <1>8 DEF ServiceReads
    <2>2. Unread(up[c], k) \in Seq(Requests) /\ << >> \in Seq(Requests)
      <3>1. up[c] \in Seq(Requests)
        BY <1>2
      <3> QED  BY <3>1, UnreadIs
    <2>3. up' \in [Conns -> Seq(Requests)]
      BY <1>2, <2>1, <2>2
    <2>4. Append(down[c], "LOGINOK") \in Seq(Wire)
      BY DEF Heeded, Wire
    <2>5. down' \in [Conns -> Seq(Wire)]
      BY <1>2, <1>8, <2>4 DEF ServiceReads
    <2> QED  BY <1>8, <2>3, <2>5 DEF ServiceReads, clientVars, Requests, Wire
  <1>9. ASSUME NEW c \in Conns, ClientStep(c) PROVE GameTypeOK'
    <2>1. CASE AskToJoin(c)
      BY <2>1 DEF AskToJoin
    <2>2. CASE \E request \in {"GUESS", "SELECT", "EXIT"} : Types(c, request)
      BY <2>2 DEF Types
    <2>3. CASE Forwards(c)
      <3>1. Append(up[c], typed[c]) \in Seq({"GUESS", "SELECT", "EXIT"} \cup Hangups)
        BY <2>3 DEF Forwards
      <3> QED  BY <2>3, <3>1 DEF Forwards
    <2>4. CASE Obeys(c)
      <3>1. PICK k \in 1 .. Len(down[c]) : down' = [down EXCEPT ![c] = Unread(@, k)]
        BY <2>4 DEF Obeys
      <3>2. Unread(down[c], k) \in Seq(Wire)
        BY <1>2, UnreadIs
      <3>3. NextFlag(down[c][1], turn_flag[c]) \in {"wait", "guess", "choose"}
        BY DEF NextFlag
      <3>4. NextPage(down[c][1], page[c]) \in {"new", "home", "asking", "room", "leaving", "login", "gone"}
        BY DEF NextPage
      <3>5. down' \in [Conns -> Seq(Wire)]
        BY <1>2, <3>1, <3>2
      <3> QED  BY <2>4, <3>3, <3>4, <3>5 DEF Obeys, Wire
    <2>6. CASE HearsEnd(c)
      <3>1. << >> \in Seq(Wire) /\ << >> \in Seq(Requests)
        OBVIOUS
      <3> QED  BY <2>6, <3>1 DEF HearsEnd, Wire, Requests
    <2>5. CASE Quits(c)
      <3>1. /\ Append(up[c], "EOF") \in Seq({"GUESS", "SELECT", "EXIT"} \cup Hangups)
            /\ Append(up[c], "RST") \in Seq({"GUESS", "SELECT", "EXIT"} \cup Hangups)
            /\ << >> \in Seq(Wire)
        BY DEF Hangups
      <3> QED  BY <2>5, <3>1 DEF Quits, Wire
    <2> QED  BY <1>9, <2>1, <2>2, <2>3, <2>4, <2>5, <2>6 DEF ClientStep, Receives
  <1>10. CASE UNCHANGED gameVars
    BY <1>10 DEF gameVars, clientVars
  <1> QED  BY <1>4, <1>5, <1>6, <1>7, <1>8, <1>9, <1>10 DEF GameNext, RoomStep, GameEnded


-----------------------------------------------------------------------------
(* Where a client is with respect to a room that has not closed. *)

Contains(s, x) == \E k \in DOMAIN s : s[k] = x

OnlyLast(s, x) == \A k \in DOMAIN s : s[k] = x => k = Len(s)

(* Terminated: what it is still told, nobody hears. *)
Gone(c) == page[c] = "gone" /\ \A k \in DOMAIN down[c] : down[c][k] = "LOGINOK"

NoTraffic(c) == up[c] = << >> /\ down[c] = << >>

Outside(c) ==
    owner[c] = "service" /\ page[c] \in {"new", "home"} /\ typed[c] = "nothing" /\ NoTraffic(c)

Asking(c) ==
    owner[c] = "service" /\ page[c] = "asking" /\ typed[c] = "JOIN" /\ NoTraffic(c)

(* A player asks to leave once, and then says no more. *)
Inside(c) ==
    /\ owner[c] = "room" /\ page[c] \in {"asking", "room", "leaving"}
    /\ ~Contains(down[c], "HOMEPAGEOK") /\ ~Contains(down[c], "LOGINOK")
    /\ \A k \in DOMAIN up[c] : up[c][k] \notin Hangups
    /\ page[c] = "asking" => typed[c] = "nothing" /\ up[c] = << >>
    /\ page[c] = "room" =>
          typed[c] \in {"nothing", "GUESS", "SELECT"} /\ ~Contains(up[c], "EXIT")
    /\ page[c] = "leaving" =>
          \/ typed[c] = "EXIT" /\ ~Contains(up[c], "EXIT")
          \/ typed[c] = "nothing" /\ OnlyLast(up[c], "EXIT")

(* Behind the goodbye of the room is only the answer of the service thread,  *)
(* but for the clock of a room its last player left.                         *)
GoodbyeLast(c) ==
    \A j, k \in DOMAIN down[c] :
        j < k /\ down[c][j] = "HOMEPAGEOK" =>
            down[c][k] = "LOGINOK" \/ (Emptied /\ down[c][k] \in LateClock)

(* The answer to that is the last it hears from the room. *)
LetGo(c) ==
    /\ owner[c] = "service" /\ page[c] = "leaving" /\ typed[c] = "nothing"
    /\ up[c] = << >> /\ ~Contains(down[c], "LOGINOK") /\ GoodbyeLast(c)

(* No service thread could be created for it: its socket is closed.          *)
Dropped(c) ==
    /\ owner[c] = "nobody" /\ page[c] = "leaving" /\ typed[c] = "nothing"
    /\ up[c] = << >>
    /\ ~Contains(down[c], "HOMEPAGEOK") /\ ~Contains(down[c], "LOGINOK")

InPhase(c) ==
    Gone(c) \/ Outside(c) \/ Asking(c) \/ Inside(c) \/ LetGo(c) \/ Dropped(c)

PhaseInv ==
    \A c \in Conns : IF pc # "closed" THEN InPhase(c) ELSE GoodbyeLast(c)

(* A room its last player left is not far from its end, and that player      *)
(* does not know yet that it has left.                                       *)
EmptyInv ==
    Emptied /\ pc # "closed" =>
        /\ pc \in {"scan", "turn"}
        /\ \A c \in Linked : page[c] \in {"leaving", "gone"}

GameInv == IInv /\ GameTypeOK /\ PhaseInv /\ EmptyInv

LEMMA NothingSaid == Heard(<< >>) = << >>
  <1>1. << >> \in Seq(Signals) /\ Len(<< >>) = 0
    OBVIOUS
  <1>2. Heard(<< >>) \in Seq(Wire) /\ Len(Heard(<< >>)) = 0
    BY <1>1, HeardIs
  <1> QED  BY <1>2

(* The elements of what is appended to a stream. *)
LEMMA AppendedIs ==
  ASSUME NEW S, NEW s \in Seq(S), NEW t \in Seq(S), NEW k \in DOMAIN (s \o t)
  PROVE  \/ k \in DOMAIN s /\ (s \o t)[k] = s[k]
         \/ k - Len(s) \in DOMAIN t /\ (s \o t)[k] = t[k - Len(s)]
  OBVIOUS

LEMMA AppendedContains ==
  ASSUME NEW S, NEW s \in Seq(S), NEW t \in Seq(S), NEW x,
         ~Contains(s, x), ~Contains(t, x)
  PROVE  ~Contains(s \o t, x)
  BY AppendedIs DEF Contains

(* What comes last is followed by nothing. *)
LEMMA LastGoodbye ==
  ASSUME NEW c \in Conns, down[c] \in Seq(Wire), OnlyLast(down[c], "HOMEPAGEOK")
  PROVE  GoodbyeLast(c)
  BY DEF OnlyLast, GoodbyeLast

(* What reaches a client that stays where it is: no goodbye, and nothing to   *)
(* one that is not polled.                                                   *)
LEMMA DeliveredIs ==
  ASSUME IInv', GameTypeOK, Deliver, NEW c \in Conns, page[c] # "gone",
         owner'[c] = "nobody" => owner[c] = "nobody",
         out'[c] \in Seq(Staying)
  PROVE  /\ \A k \in DOMAIN down'[c] :
               \/ k \in DOMAIN down[c] /\ down'[c][k] = down[c][k]
               \/ down'[c][k] \notin {"HOMEPAGEOK", "LOGINOK"}
         /\ out'[c] = << >> \/ owner[c] = "nobody" => down'[c] = down[c]
  <1>1. out'[c] \in Seq(Signals) /\ down[c] \in Seq(Wire) /\ down \in [Conns -> Seq(Wire)]
    BY DEF IInv, TypeOK, GameTypeOK, Wire
  <1>2. down'[c] = IF owner[c] = "nobody" THEN down[c] ELSE down[c] \o Heard(out'[c])
    BY <1>1, DeliverKeeps DEF Closes
  <1>3. /\ Heard(out'[c]) \in Seq(Wire)
        /\ \A k \in DOMAIN Heard(out'[c]) :
              /\ k \in DOMAIN out'[c]
              /\ Heard(out'[c])[k] = out'[c][k] \/ Heard(out'[c])[k] = "OTHER"
    BY <1>1, HeardIs
  <1>4. \A k \in DOMAIN Heard(out'[c]) : Heard(out'[c])[k] \notin {"HOMEPAGEOK", "LOGINOK"}
    <2>1. \A j \in DOMAIN out'[c] : out'[c][j] \in Staying
      OBVIOUS
    <2> QED  BY <1>3, <2>1 DEF Staying, Signals
  <1>5. out'[c] = << >> => down'[c] = down[c]
    BY <1>1, <1>2, NothingSaid, EmptyConcat
  <1> QED  BY <1>1, <1>2, <1>3, <1>4, <1>5, AppendedIs

(* A step of the room that neither takes in nor lets go the client c. *)
LEMMA OtherPhase ==
  ASSUME IInv, IInv', GameTypeOK, GameTypeOK', NEW c \in Conns, InPhase(c), pc # "closed",
         Deliver, owner'[c] = owner[c], page'[c] = page[c], typed'[c] = typed[c],
         out'[c] \in Seq(Staying), c \notin Polled => out'[c] = << >>,
         Emptied => Emptied',
         \/ page[c] = "gone" \/ up'[c] = up[c]
         \/ owner[c] = "room" /\ \E k \in 1 .. Len(up[c]) : up'[c] = Unread(up[c], k)
  PROVE  InPhase(c)'
  <1>1. CASE page[c] = "gone"
    <2>1. down'[c] = << >>
      BY <1>1 DEF Deliver
    <2> QED  BY <1>1, <2>1 DEF InPhase, Gone
  <1>2. CASE page[c] # "gone" /\ owner[c] # "room"
    <2>2. out'[c] = << >>
      BY <1>2 DEF IInv, OneReader
    <2>1. down'[c] = down[c]
      BY <1>2, <2>2, DeliveredIs
    <2> QED  BY <1>2, <2>1 DEF InPhase, Gone, Outside, Asking, Inside, LetGo, Dropped, NoTraffic,
                               Contains, GoodbyeLast
  <1>3. CASE page[c] # "gone" /\ owner[c] = "room"
    <2>1. Inside(c)
      BY <1>3 DEF InPhase, Gone, Outside, Asking, LetGo, Dropped
    <2>2. ~Contains(down'[c], "HOMEPAGEOK") /\ ~Contains(down'[c], "LOGINOK")
      BY <1>3, <2>1, DeliveredIs DEF Inside, Contains
    <2>3. CASE up'[c] = up[c]
      BY <2>1, <2>2, <2>3 DEF InPhase, Inside, Contains, OnlyLast
    <2>4. CASE \E k \in 1 .. Len(up[c]) : up'[c] = Unread(up[c], k)
      <3>1. PICK k \in 1 .. Len(up[c]) : up'[c] = Unread(up[c], k)
        BY <2>4
      <3>2. up[c] \in Seq(Requests) /\ 1 \in DOMAIN up[c] /\ up[c][1] \notin Hangups
            /\ up'[c] \in Seq(Requests)
        BY <2>1 DEF Inside, GameTypeOK, Requests
      <3>3. /\ Len(up'[c]) = Len(up[c]) - k
            /\ \A j \in DOMAIN up'[c] : k + j \in DOMAIN up[c] /\ up'[c][j] = up[c][k + j]
        <4>1. /\ Len(Unread(up[c], k)) = Len(up[c]) - k
              /\ \A j \in DOMAIN Unread(up[c], k) :
                    k + j \in DOMAIN up[c] /\ Unread(up[c], k)[j] = up[c][k + j]
          BY <3>2, UnreadIs
        <4> QED  BY <3>1, <4>1
      <3>4. \A j \in DOMAIN up'[c] : k + j = Len(up[c]) => j = Len(up'[c])
        BY <3>2, <3>3
      <3>5. page[c] # "asking"
        BY <2>1, <3>2 DEF Inside
      <3> QED  BY <2>1, <2>2, <3>3, <3>4, <3>5 DEF InPhase, Inside, Contains, OnlyLast
    <2> QED  BY <1>3, <2>3, <2>4
  <1> QED  BY <1>2, <1>1, <1>3


(* A new player: what it hears first is the room. *)
LEMMA AdmitsPhase ==
  ASSUME IInv, IInv', GameTypeOK, GameTypeOK', PhaseInv, pc # "closed",
         NEW d \in Conns, RoomAdmits(d), NEW c \in Conns
  PROVE  InPhase(c)'
  <1>1. /\ d \in Knocking /\ Join(d) /\ Deliver /\ Resets(up) /\ page' = page
        /\ typed' = [typed EXCEPT ![d] = "nothing"] /\ owner' = [owner EXCEPT ![d] = "room"]
    BY DEF RoomAdmits, Join
  <1>9. (Emptied => Emptied') /\ owner[d] = "service"
    <2>1. ~close_room
      BY <1>1, ScanFacts DEF Join
    <2> QED  BY <1>1, <2>1 DEF Join, Emptied
  <1>2. up \in [Conns -> Seq(Requests)]
    BY DEF GameTypeOK, Requests
  <1>3. page[c] # "gone" => up'[c] = up[c]
    BY <1>1, <1>2, ResetsKeep
  <1>4. out'[c] \in Seq(Staying) /\ (c \notin Polled /\ c # d => out'[c] = << >>)
    BY <1>1, JoinTellsPolled DEF Tells
  <1>5. InPhase(c)
    BY DEF PhaseInv
  <1>6. CASE c # d
    <2>1. owner'[c] = owner[c] /\ typed'[c] = typed[c] /\ page'[c] = page[c]
      BY <1>1, <1>6 DEF IInv, TypeOK, GameTypeOK
    <2> QED  BY <1>1, <1>3, <1>4, <1>5, <1>6, <1>9, <2>1, OtherPhase
  <1>7. CASE c = d /\ page[c] = "gone"
    <2>1. down'[c] = << >>
      BY <1>1, <1>7 DEF Deliver
    <2> QED  BY <1>1, <1>7, <2>1 DEF InPhase, Gone
  <1>8. CASE c = d /\ page[c] # "gone"
    <2>1. Asking(c)
      BY <1>1, <1>5, <1>8 DEF Knocking, InPhase, Gone, Outside, Asking, Inside, LetGo, Dropped
    <2>4. owner'[c] = "room"
      BY <1>1, <1>8 DEF IInv, TypeOK
    <2>2. ~Contains(down'[c], "HOMEPAGEOK") /\ ~Contains(down'[c], "LOGINOK")
      BY <1>1, <1>4, <1>8, <1>9, <2>1, <2>4, DeliveredIs DEF Asking, NoTraffic, Contains
    <2>3. owner'[c] = "room" /\ typed'[c] = "nothing"
      BY <1>1, <1>8 DEF IInv, TypeOK, GameTypeOK
    <2> QED  BY <1>1, <1>3, <1>8, <2>1, <2>2, <2>3 DEF InPhase, Inside, Asking, NoTraffic, Contains
  <1> QED  BY <1>6, <1>7, <1>8

LEMMA RefusesPhase ==
  ASSUME IInv, GameTypeOK, PhaseInv, pc # "closed",
         NEW d \in Conns, RoomRefuses(d), NEW c \in Conns
  PROVE  InPhase(c)'
  <1>1. /\ d \in Knocking /\ owner' = owner /\ up' = up /\ down' = down
        /\ typed' = [typed EXCEPT ![d] = "nothing"]
        /\ page' = [page EXCEPT ![d] = IF @ = "gone" THEN @ ELSE "home"]
    BY DEF RoomRefuses, JoinRefused
  <1>5. Emptied' = Emptied
    BY DEF RoomRefuses, JoinRefused, listVars, Emptied
  <1>2. InPhase(c)
    BY DEF PhaseInv
  <1>3. CASE c = d /\ page[c] # "gone"
    <2>1. Asking(c)
      BY <1>1, <1>2, <1>3 DEF Knocking, InPhase, Gone, Outside, Asking, Inside, LetGo, Dropped
    <2> QED  BY <1>1, <1>3, <2>1 DEF GameTypeOK, InPhase, Outside, Asking, NoTraffic
  <1>4. CASE ~(c = d /\ page[c] # "gone")
    <2>1. page'[c] = page[c] /\ (typed'[c] = typed[c] \/ page[c] = "gone")
      BY <1>1, <1>4 DEF GameTypeOK
    <2> QED  BY <1>1, <1>2, <1>5, <2>1 DEF InPhase, Gone, Outside, Asking, Inside, LetGo, Dropped,
                                     NoTraffic, Contains, OnlyLast, GoodbyeLast
  <1> QED  BY <1>3, <1>4

(* The room takes a request of a player, or notices that it is gone. *)
LEMMA HandlesPhase ==
  ASSUME IInv, IInv', GameTypeOK, GameTypeOK', PhaseInv, pc # "closed",
         NEW i \in DOMAIN fds, RoomHandles(i), NEW c \in Conns
  PROVE  /\ InPhase(c)' /\ pc' # "closed"
         /\ Emptied' => Linked' \subseteq {fds[i]} /\ owner'[fds[i]] # "room"
  <1> DEFINE d == fds[i]
  <1>1. /\ Scanning(i) /\ up[d] # << >> /\ Deliver /\ page' = page /\ typed' = typed
        /\ d \in Conns /\ i # 0
    BY DEF RoomHandles, clientVars, IInv, TypeOK
  <1>2. up \in [Conns -> Seq(Requests)]
    BY DEF GameTypeOK, Requests
  <1>3. PICK k \in 1 .. Len(up[d]) : Resets([up EXCEPT ![d] = Unread(@, k)])
    BY DEF RoomHandles
  <1>4. Unread(up[d], k) \in Seq(Requests)
    <2>1. up[d] \in Seq(Requests)
      BY <1>1, <1>2
    <2> QED  BY <2>1, UnreadIs
  <1>5. page[c] # "gone" => up'[c] = IF c = d THEN Unread(up[d], k) ELSE up[c]
    <2>1. [up EXCEPT ![d] = Unread(@, k)] \in [Conns -> Seq(Requests)]
      BY <1>1, <1>2, <1>4
    <2> QED  BY <1>1, <1>2, <1>3, <2>1, ResetsKeep
  <1>6. InPhase(c)
    BY DEF PhaseInv
  <1>7. owner[d] = "room"
    BY <1>1 DEF IInv, OneReader, Polled
  <1>12. ~close_room /\ Linked = Polled /\ (Emptied => Emptied')
    <2>1. ~close_room
      BY <1>1, ScanFacts
    <2> QED  BY <2>1, HoldersPolled DEF Emptied
  <1>8. CASE Stays /\ fds' = fds
    <2>1. owner'[c] = owner[c] /\ out'[c] \in Seq(Staying) /\ (c \notin Polled => out'[c] = << >>)
      BY <1>8 DEF Stays, Tells
    <2>2. InPhase(c)'
      BY <1>1, <1>5, <1>6, <1>7, <1>12, <2>1, OtherPhase
    <2>3. ~Emptied'
      BY <1>8 DEF Emptied, IInv, TypeOK
    <2> QED  BY <1>8, <2>2, <2>3 DEF Stays
  <1>9. ASSUME NEW heir, Leave(i, heir),
               \/ heir \in {"service", "nobody"} /\ up[d][1] = "EXIT"
               \/ heir = "nobody" /\ up[d][1] \in Hangups
        PROVE  /\ InPhase(c)' /\ pc' # "closed"
               /\ Emptied' => Linked' \subseteq {fds[i]} /\ owner'[fds[i]] # "room"
    <2>1. /\ owner' = [owner EXCEPT ![d] = heir] /\ pc' # "closed"
          /\ out'[d] = IF heir = "service" THEN <<"HOMEPAGEOK">> ELSE << >>
          /\ \A e \in Conns \ {d} : /\ out'[e] \in Seq(Staying)
                                    /\ e \notin Polled => out'[e] = << >>
      BY <1>9, GoesTold
    <2>5. Emptied' => Linked' \subseteq {fds[i]}
      <3>1. LeaveOthers(i, heir) => ~Emptied'
        BY <1>12 DEF LeaveOthers, Emptied
      <3>2. LeaveAlone(i, heir) => Linked' = Linked /\ Len(fds) = 1
        BY DEF LeaveAlone, Linked
      <3>3. Len(fds) = 1 => Polled = {fds[i]}
        BY DEF Polled, IInv, TypeOK
      <3> QED  BY <1>9, <1>12, <3>1, <3>2, <3>3 DEF Leave
    <2>6. owner'[d] # "room"
      <3>1. heir # "room"
        BY <1>9
      <3> QED  BY <1>1, <2>1, <3>1 DEF IInv, TypeOK
    <2>2. CASE c # d
      <3>1. owner'[c] = owner[c] /\ out'[c] \in Seq(Staying) /\ (c \notin Polled => out'[c] = << >>)
        BY <2>1, <2>2 DEF IInv, TypeOK
      <3>2. InPhase(c)'
        BY <1>1, <1>5, <1>6, <1>12, <2>2, <3>1, OtherPhase
      <3> QED  BY <2>1, <2>5, <2>6, <3>2
    <2>3. CASE c = d /\ page[c] = "gone"
      <3>1. down'[c] = << >>
        BY <1>1, <2>3 DEF Deliver
      <3> QED  BY <1>1, <2>1, <2>3, <2>5, <2>6, <3>1 DEF InPhase, Gone
    <2>4. CASE c = d /\ page[c] # "gone"
      <3>1. Inside(c)
        BY <1>6, <1>7, <2>4 DEF InPhase, Gone, Outside, Asking, LetGo, Dropped
      <3>2. up[c] \in Seq(Requests) /\ 1 \in DOMAIN up[c] /\ up[c][1] \notin Hangups
        BY <1>1, <1>2, <2>4, <3>1 DEF Inside
      <3>3. heir \in {"service", "nobody"} /\ up[c][1] = "EXIT"
        BY <1>9, <2>4, <3>2
      <3>4. page[c] = "leaving" /\ typed[c] = "nothing" /\ Len(up[c]) = 1
        <4>1. Contains(up[c], "EXIT") /\ up[c] # << >>
          BY <3>2, <3>3 DEF Contains
        <4>2. page[c] = "leaving" /\ typed[c] = "nothing" /\ OnlyLast(up[c], "EXIT")
          BY <3>1, <4>1 DEF Inside
        <4> QED  BY <3>2, <3>3, <4>2 DEF OnlyLast
      <3>5. up'[c] = << >>
        <4>1. k \in 1 .. Len(up[c]) /\ up'[c] = Unread(up[c], k)
          BY <1>5, <2>4
        <4>2. Unread(up[c], k) \in Seq(Requests) /\ Len(Unread(up[c], k)) = Len(up[c]) - k
          BY <3>2, <4>1, UnreadIs
        <4>3. Len(Unread(up[c], k)) = 0
          BY <3>4, <4>1, <4>2
        <4> QED  BY <4>1, <4>2, <4>3
      <3>6. /\ out'[c] = IF heir = "service" THEN <<"HOMEPAGEOK">> ELSE << >>
            /\ owner'[c] = heir /\ owner[c] = "room"
        BY <1>7, <2>1, <2>4 DEF IInv, TypeOK
      <3> DEFINE o == down[c]
                 h == Heard(out'[c])
      <3>7. /\ o \in Seq(Wire) /\ ~Contains(o, "HOMEPAGEOK") /\ ~Contains(o, "LOGINOK")
            /\ down \in [Conns -> Seq(Wire)]
        BY <3>1 DEF GameTypeOK, Inside, Wire
      <3>8. CASE heir = "service"
        <4>1. out'[c] = <<"HOMEPAGEOK">> /\ owner'[c] = "service"
          BY <3>6, <3>8
        <4>2. down'[c] = o \o h
          BY <1>1, <2>4, <3>6, <3>7, <4>1, DeliverKeeps DEF Closes
        <4>3. h \in Seq(Wire) /\ Len(h) = 1 /\ h[1] = "HOMEPAGEOK"
          <5>1. out'[c] \in Seq(Signals) /\ Len(out'[c]) = 1 /\ out'[c][1] = "HOMEPAGEOK"
            BY <4>1 DEF Signals
          <5>2. 1 \in DOMAIN h
            BY <5>1, HeardIs
          <5> QED  BY <5>1, <5>2, HeardIs DEF Heeded
        <4> HIDE DEF o, h
        <4>4. ASSUME NEW j \in DOMAIN (o \o h)
              PROVE  (o \o h)[j] # "LOGINOK" /\ ((o \o h)[j] = "HOMEPAGEOK" => j = Len(o \o h))
          <5>4. o \in Seq(Wire) /\ h \in Seq(Wire)
            BY <3>7, <4>3
          <5>5. Len(o \o h) = Len(o) + Len(h) /\ Len(o) \in Nat
            BY <5>4
          <5>1. Len(o \o h) = Len(o) + 1 /\ Len(o) \in Nat
            BY <4>3, <5>5
          <5>2. CASE j \in DOMAIN o /\ (o \o h)[j] = o[j]
            BY <3>7, <5>2 DEF Contains
          <5>3. CASE j - Len(o) \in DOMAIN h /\ (o \o h)[j] = h[j - Len(o)]
            <6>1. j \in Nat /\ j - Len(o) = 1
              BY <3>7, <4>3, <5>1, <5>3
            <6> QED  BY <4>3, <5>1, <5>3, <6>1
          <5> QED  BY <3>7, <4>3, <5>2, <5>3, AppendedIs
        <4>5. ~Contains(down'[c], "LOGINOK") /\ OnlyLast(down'[c], "HOMEPAGEOK")
          BY <4>2, <4>4 DEF Contains, OnlyLast
        <4>6. GoodbyeLast(c)'
          <5>1. down'[c] \in Seq(Wire)
            BY <3>7, <4>2, <4>3
          <5> QED  BY <4>5, <5>1 DEF OnlyLast, GoodbyeLast
        <4> QED  BY <1>1, <2>1, <2>5, <2>6, <3>4, <3>5, <4>1, <4>5, <4>6 DEF InPhase, LetGo
      <3>9. CASE heir = "nobody"
        <4>1. out'[c] = << >> /\ owner'[c] = "nobody"
          BY <3>6, <3>9
        <4>2. down'[c] = (o \o h) \o <<"EOF">> /\ h = << >>
          BY <1>1, <2>4, <3>6, <3>7, <4>1, NothingSaid, DeliverKeeps DEF Closes
        <4>3. down'[c] = o \o <<"EOF">>
          BY <3>7, <4>2, EmptyConcat
        <4>4. /\ <<"EOF">> \in Seq(Wire)
              /\ ~Contains(<<"EOF">>, "HOMEPAGEOK") /\ ~Contains(<<"EOF">>, "LOGINOK")
          BY DEF Contains, Wire
        <4> HIDE DEF o, h
        <4>5. ~Contains(down'[c], "HOMEPAGEOK") /\ ~Contains(down'[c], "LOGINOK")
          BY <3>7, <4>3, <4>4, AppendedContains
        <4> QED  BY <1>1, <2>1, <2>5, <2>6, <3>4, <3>5, <4>1, <4>5 DEF InPhase, Dropped
      <3> QED  BY <3>3, <3>8, <3>9
    <2> QED  BY <2>2, <2>3, <2>4
  <1>10. CASE SlotFails(i)
    BY <1>8, <1>10, EventStays DEF SlotFails, listVars
  <1>11. CASE Handles(i, up[d][1])
    <2>1. CASE \/ SelectIgnored(i) \/ SelectMalformed(i) \/ SelectWord(i)
               \/ GuessHits(i) \/ GuessMisses(i) \/ GuessCrashes(i)
      <3>1. fds' = fds
        BY <2>1 DEF SelectIgnored, SelectMalformed, SelectWord, GuessHits, GuessMisses,
                    GuessCrashes, listVars
      <3> QED  BY <1>8, <2>1, <3>1, EventStays
    <2>2. CASE up[d][1] = "EXIT" /\ ExitRoom(i)
      BY <1>9, <2>2 DEF ExitRoom
    <2>3. CASE up[d][1] \in Hangups /\ Disconnect(i)
      BY <1>9, <2>3 DEF Disconnect
    <2> QED  BY <1>11, <2>1, <2>2, <2>3 DEF Handles
  <1> QED  BY <1>10, <1>11 DEF RoomHandles


(* The room closes: the players it still has are told last of all. *)
LEMMA ClosesPhase ==
  ASSUME IInv, IInv', GameTypeOK, GameTypeOK', PhaseInv, CloseRoom, Deliver, NEW c \in Conns
  PROVE  pc' = "closed" /\ GoodbyeLast(c)'
  <1>1. PICK S \in SUBSET Polled :
          /\ owner' = [d \in Conns |-> IF d \notin Polled THEN owner[d]
                                       ELSE IF d \in S THEN "service" ELSE "nobody"]
          /\ out' = Say(S, "HOMEPAGEOK")
    BY DEF CloseRoom
  <1>2. /\ pc # "closed" /\ pc' = "closed" /\ Emptied' = Emptied
        /\ out'[c] = IF c \in S THEN <<"HOMEPAGEOK">> ELSE << >>
        /\ owner'[c] = IF c \notin Polled THEN owner[c] ELSE IF c \in S THEN "service" ELSE "nobody"
    BY <1>1 DEF CloseRoom, Say, Emptied, listVars
  <1>3. InPhase(c)
    BY <1>2 DEF PhaseInv
  <1>4. CASE page[c] = "gone"
    <2>1. down'[c] = << >>
      BY <1>4 DEF Deliver
    <2> QED  BY <1>2, <2>1 DEF GoodbyeLast
  <1> DEFINE o == down[c]
             h == Heard(out'[c])
  <1>5. o \in Seq(Wire) /\ down \in [Conns -> Seq(Wire)]
    BY DEF GameTypeOK, Wire
  <1>6. CASE page[c] # "gone" /\ c \notin Polled
    <2>1. down'[c] = down[c]
      <3>1. out'[c] = << >> /\ owner'[c] = owner[c]
        BY <1>1, <1>2, <1>6
      <3> QED  BY <1>5, <1>6, <3>1, DeliverSame, NothingSaid, EmptyConcat
    <2>2. GoodbyeLast(c)
      BY <1>3, <1>6 DEF GoodbyeLast, InPhase, Gone, Outside, Asking, Inside, LetGo, Dropped,
                        NoTraffic, Contains
    <2> QED  BY <1>2, <2>1, <2>2 DEF GoodbyeLast
  <1>7. CASE page[c] # "gone" /\ c \in Polled
    <2>1. owner[c] = "room"
      BY <1>2, <1>7 DEF IInv, OneReader
    <2>2. ~Contains(o, "HOMEPAGEOK")
      BY <1>3, <1>7, <2>1 DEF InPhase, Gone, Outside, Asking, LetGo, Dropped, Inside
    <2>3. OnlyLast(down'[c], "HOMEPAGEOK") /\ down'[c] \in Seq(Wire)
      <3>1. CASE c \in S
        <4>1. down'[c] = o \o h
          BY <1>2, <1>5, <1>7, <2>1, <3>1, DeliverKeeps DEF Closes
        <4>2. h \in Seq(Wire) /\ Len(h) = 1
          <5>1. out'[c] \in Seq(Signals) /\ Len(out'[c]) = 1
            BY <1>2, <3>1 DEF Signals
          <5> QED  BY <5>1, HeardIs
        <4> HIDE DEF o, h
        <4>5. o \in Seq(Wire) /\ h \in Seq(Wire)
          BY <1>5, <4>2
        <4>3. Len(o \o h) = Len(o) + Len(h) /\ Len(o) \in Nat /\ o \o h \in Seq(Wire)
          BY <4>5
        <4>4. ASSUME NEW k \in DOMAIN (o \o h), (o \o h)[k] = "HOMEPAGEOK"
              PROVE  k = Len(o \o h)
          <5>1. CASE k \in DOMAIN o /\ (o \o h)[k] = o[k]
            BY <2>2, <4>4, <5>1 DEF Contains
          <5>2. CASE k - Len(o) \in DOMAIN h
            <6>1. k \in Nat /\ k - Len(o) \in 1 .. 1
              BY <4>2, <4>3, <5>2
            <6> QED  BY <4>2, <4>3, <6>1
          <5> QED  BY <1>5, <4>2, <5>1, <5>2, AppendedIs
        <4> QED  BY <4>1, <4>3, <4>4 DEF OnlyLast
      <3>2. CASE c \notin S
        <4>1. down'[c] = (o \o h) \o <<"EOF">> /\ h = << >>
          BY <1>2, <1>5, <1>7, <2>1, <3>2, NothingSaid, DeliverKeeps DEF Closes
        <4>2. down'[c] = o \o <<"EOF">>
          BY <1>5, <4>1, EmptyConcat
        <4>3. <<"EOF">> \in Seq(Wire) /\ ~Contains(<<"EOF">>, "HOMEPAGEOK")
          BY DEF Contains, Wire
        <4> HIDE DEF o, h
        <4>5. o \in Seq(Wire) /\ <<"EOF">> \in Seq(Wire)
          BY <1>5, <4>3
        <4>6. o \o <<"EOF">> \in Seq(Wire)
          BY <4>5
        <4>4. ~Contains(o \o <<"EOF">>, "HOMEPAGEOK")
          BY <2>2, <4>3, <4>5, AppendedContains
        <4> QED  BY <4>2, <4>4, <4>6 DEF Contains, OnlyLast
      <3> QED  BY <3>1, <3>2
    <2> QED  BY <1>2, <2>3 DEF OnlyLast, GoodbyeLast
  <1> QED  BY <1>2, <1>4, <1>6, <1>7

(* The clock of a room its last player left speaks to that player alone. *)
LEMMA LatePhase ==
  ASSUME IInv, IInv', GameTypeOK, GameTypeOK', PhaseInv, EmptyInv, Emptied,
         ClockExpires, Deliver, Resets(up), page' = page, typed' = typed, NEW c \in Conns
  PROVE  InPhase(c)'
  <1>1. pc = "scan" /\ owner' = owner /\ Emptied'
    BY DEF ClockExpires, listVars, Emptied
  <1>2. up \in [Conns -> Seq(Requests)] /\ down \in [Conns -> Seq(Wire)]
    BY DEF GameTypeOK, Requests, Wire
  <1>3. page[c] # "gone" => up'[c] = up[c]
    BY <1>2, ResetsKeep
  <1>4. InPhase(c)
    BY <1>1 DEF PhaseInv
  <1>5. out'[c] \in Seq(LateClock) /\ (c \notin Linked => out'[c] = << >>)
    BY LateClockSays
  <1>6. CASE c \notin Linked
    <2>1. out'[c] = << >> /\ out'[c] \in Seq(Staying)
      BY <1>5, <1>6
    <2> QED  BY <1>1, <1>3, <1>4, <2>1, OtherPhase
  <1>7. CASE page[c] = "gone"
    <2>1. down'[c] = << >>
      BY <1>7 DEF Deliver
    <2> QED  BY <1>7, <2>1 DEF InPhase, Gone
  <1>8. CASE c \in Linked /\ page[c] # "gone"
    <2>1. page[c] = "leaving" /\ owner[c] # "room"
      BY <1>1, <1>8 DEF EmptyInv, IInv, OneReader, Polled, Emptied
    <2>2. LetGo(c) \/ Dropped(c)
      BY <1>4, <2>1 DEF InPhase, Gone, Outside, Asking, Inside
    <2>3. CASE Dropped(c)
      <3>1. down'[c] = down[c]
        BY <1>1, <1>2, <1>8, <2>3, DeliverSame DEF Dropped
      <3> QED  BY <1>1, <1>3, <1>8, <2>3, <3>1 DEF InPhase, Dropped, Contains
    <2>4. CASE LetGo(c)
      <3> DEFINE o == down[c]
                 h == Heard(out'[c])
      <3>1. down'[c] = o \o h
        BY <1>1, <1>2, <1>8, <2>4, DeliverSame DEF LetGo
      <3>2. out'[c] \in Seq(Signals) /\ \A k \in DOMAIN out'[c] : out'[c][k] \in LateClock
        BY <1>5 DEF LateClock, Signals
      <3>3. h \in Seq(Wire) /\ \A k \in DOMAIN h : h[k] \in LateClock
        BY <3>2, HeardIs DEF LateClock, Heeded
      <3>4. o \in Seq(Wire) /\ ~Contains(o, "LOGINOK")
        BY <1>2, <2>4 DEF LetGo
      <3>5. \A j, k \in DOMAIN o : j < k /\ o[j] = "HOMEPAGEOK" => o[k] \in LateClock
        <4>1. \A k \in DOMAIN o : o[k] # "LOGINOK"
          BY <3>4 DEF Contains
        <4> QED  BY <2>4, <4>1 DEF LetGo, GoodbyeLast
      <3> HIDE DEF o, h
      <3>6. ~Contains(o \o h, "LOGINOK")
        <4>1. ~Contains(h, "LOGINOK")
          BY <3>3 DEF Contains, LateClock
        <4> QED  BY <3>3, <3>4, <4>1, AppendedContains
      <3>7. ASSUME NEW j \in DOMAIN (o \o h), NEW k \in DOMAIN (o \o h), j < k,
                   (o \o h)[j] = "HOMEPAGEOK"
            PROVE  (o \o h)[k] \in LateClock
        <4>1. CASE k - Len(o) \in DOMAIN h /\ (o \o h)[k] = h[k - Len(o)]
          BY <3>3, <4>1
        <4>2. CASE k \in DOMAIN o /\ (o \o h)[k] = o[k]
          <5>1. j \in DOMAIN o
            BY <3>3, <3>4, <3>7, <4>2
          <5>2. (o \o h)[j] = o[j]
            BY <3>3, <3>4, <5>1
          <5> QED  BY <3>5, <3>7, <4>2, <5>1, <5>2
        <4> QED  BY <3>3, <3>4, <4>1, <4>2, AppendedIs
      <3>8. GoodbyeLast(c)'
        BY <1>1, <3>1, <3>7 DEF GoodbyeLast
      <3> QED  BY <1>1, <1>3, <1>8, <2>4, <3>1, <3>6, <3>8 DEF InPhase, LetGo
    <2> QED  BY <2>2, <2>3, <2>4
  <1> QED  BY <1>6, <1>7, <1>8

LEMMA RoomPhases ==
  ASSUME IInv, IInv', GameTypeOK, GameTypeOK', PhaseInv, EmptyInv, RoomStep
  PROVE  PhaseInv'
  <1>1. CASE RoomLoops /\ CloseRoom
    BY <1>1, ClosesPhase DEF RoomLoops, PhaseInv
  <1>6. CASE RoomLoops /\ ClockExpires /\ Emptied
    <2>1. /\ Deliver /\ Resets(up) /\ page' = page /\ typed' = typed
          /\ pc' # "closed"
      BY <1>6 DEF RoomLoops, clientVars, ClockExpires
    <2> QED  BY <1>6, <2>1, LatePhase DEF PhaseInv
  <1>2. ASSUME RoomLoops,
               NewTurn \/ AskSuzerain \/ RoomPolls \/ ScanEnds \/ (ClockExpires /\ ~Emptied)
        PROVE  PhaseInv'
    <2>1. /\ Stays /\ Deliver /\ Resets(up) /\ page' = page /\ typed' = typed /\ pc # "closed"
      BY <1>2, LoopStays DEF RoomLoops, clientVars, NewTurn, AskSuzerain, RoomPolls, ScanEnds,
         PollReturns, PollTimesOut, PollFails, ClockExpires
    <2>3. Emptied => Emptied'
      BY <1>2 DEF NewTurn, AskSuzerain, RoomPolls, ScanEnds, PollReturns, PollTimesOut,
         PollFails, ClockExpires, listVars, Emptied
    <2>2. ASSUME NEW c \in Conns PROVE InPhase(c)'
      <3>1. up \in [Conns -> Seq(Requests)]
        BY DEF GameTypeOK, Requests
      <3>2. page[c] # "gone" => up'[c] = up[c]
        BY <2>1, <3>1, ResetsKeep
      <3>3. /\ owner'[c] = owner[c] /\ out'[c] \in Seq(Staying)
            /\ c \notin Polled => out'[c] = << >>
        BY <2>1 DEF Stays, Tells
      <3>4. InPhase(c)
        BY <2>1 DEF PhaseInv
      <3> QED  BY <2>1, <2>3, <3>2, <3>3, <3>4, OtherPhase
    <2> QED  BY <2>1, <2>2 DEF PhaseInv, Stays
  <1>3. ASSUME NEW d \in Conns, RoomAdmits(d) PROVE PhaseInv'
    <2>1. pc # "closed" /\ pc' # "closed"
      BY <1>3 DEF RoomAdmits, Join, Scanning
    <2> QED  BY <1>3, <2>1, AdmitsPhase DEF PhaseInv
  <1>4. ASSUME NEW d \in Conns, RoomRefuses(d) PROVE PhaseInv'
    <2>1. pc # "closed" /\ pc' # "closed"
      BY <1>4 DEF RoomRefuses, JoinRefused, Scanning
    <2> QED  BY <1>4, <2>1, RefusesPhase DEF PhaseInv
  <1>5. ASSUME NEW i \in DOMAIN fds, RoomHandles(i) PROVE PhaseInv'
    <2>1. pc # "closed"
      BY <1>5 DEF RoomHandles, Scanning
    <2> QED  BY <1>5, <2>1, HandlesPhase DEF PhaseInv
  <1>7. CASE RoomLoops
    <2>1. \/ NewTurn \/ AskSuzerain \/ RoomPolls \/ ScanEnds \/ ClockExpires \/ CloseRoom
      BY <1>7 DEF RoomLoops
    <2> QED  BY <1>1, <1>2, <1>6, <1>7, <2>1
  <1> QED  BY <1>3, <1>4, <1>5, <1>7 DEF RoomStep

(* How a room becomes empty, and what it can still do. *)
LEMMA RoomEmpties ==
  ASSUME IInv, IInv', GameTypeOK, GameTypeOK', PhaseInv, EmptyInv, RoomStep
  PROVE  EmptyInv'
  <1> SUFFICES ASSUME Emptied', pc' # "closed"
               PROVE  /\ pc' \in {"scan", "turn"}
                      /\ \A c \in Linked' : page'[c] \in {"leaving", "gone"}
    BY DEF EmptyInv
  <1>1. /\ pc \in {"top", "poll"} => ~close_room
        /\ pc = "scan" /\ close_room => next_turn
    BY DEF IInv, LoopInv
  <1>2. CASE RoomLoops
    <2>1. page' = page
      BY <1>2 DEF RoomLoops, clientVars
    <2>2. CASE RoomPolls /\ PollFails
      <3>1. Linked = {} /\ Linked' = Linked /\ pc' = "turn"
        <4>1. ~close_room /\ fds = << >> /\ Linked' = Linked
          BY <1>1, <2>2 DEF PollFails, listVars, Emptied, Linked
        <4>2. Polled = {}
          BY <4>1 DEF Polled
        <4> QED  BY <2>2, <4>1, <4>2, HoldersPolled DEF Emptied, PollFails
      <3> QED  BY <3>1
    <2>3. CASE ScanEnds \/ ClockExpires
      <3>1. Emptied /\ pc = "scan" /\ close_room /\ Linked' = Linked
        BY <2>3 DEF ScanEnds, ClockExpires, listVars, Emptied, Linked
      <3>2. pc' = "turn"
        BY <1>1, <2>3, <3>1 DEF ScanEnds, ClockExpires
      <3> QED  BY <2>1, <3>1, <3>2 DEF EmptyInv
    <2>4. CASE NewTurn \/ AskSuzerain \/ (RoomPolls /\ (PollReturns(Pending) \/ PollTimesOut))
      BY <1>1, <2>4 DEF NewTurn, AskSuzerain, PollReturns, PollTimesOut, Emptied
    <2>5. CASE CloseRoom
      BY <2>5 DEF CloseRoom
    <2> QED  BY <1>2, <2>2, <2>3, <2>4, <2>5 DEF RoomLoops, RoomPolls
  <1>3. CASE \E d \in Conns : RoomAdmits(d) \/ RoomRefuses(d)
    BY <1>3, ScanFacts DEF RoomAdmits, RoomRefuses, Join, JoinRefused, Emptied
  <1>4. ASSUME NEW i \in DOMAIN fds, RoomHandles(i)
        PROVE  /\ pc' \in {"scan", "turn"}
               /\ \A c \in Linked' : page'[c] \in {"leaving", "gone"}
    <2>8. PICK d \in Conns : d = fds[i]
      BY DEF IInv, TypeOK
    <2>1. /\ Scanning(i) /\ pc = "scan" /\ page' = page /\ typed' = typed
          /\ owner[d] = "room"
      BY <1>4, <2>8 DEF RoomHandles, Scanning, clientVars, IInv, TypeOK, OneReader, Polled
    <2>6. pc # "closed"
      BY <2>1
    <2>7. InPhase(d)'
      BY <1>4, <2>1, <2>6, HandlesPhase
    <2>2. Linked' \subseteq {d} /\ owner'[d] # "room"
      BY <1>4, <2>1, <2>6, <2>8, HandlesPhase
    <2>3. InPhase(d)
      BY <2>1 DEF PhaseInv
    <2>4. page'[d] \in {"leaving", "gone"}
      BY <2>1, <2>2, <2>3, <2>7 DEF InPhase, Gone, Outside, Asking, Inside, LetGo, Dropped
    <2>5. pc' = "scan"
      <3>1. CASE GuessCrashes(i)
        <4>1. fds' = fds /\ fds # << >>
          BY <3>1 DEF GuessCrashes, listVars, IInv, TypeOK
        <4> QED  BY <4>1 DEF Emptied
      <3>2. CASE ~GuessCrashes(i)
        BY <1>4, <2>1, <3>2 DEF RoomHandles, Handles, GuessHits, GuessMisses, SelectIgnored,
           SelectMalformed, SelectWord, ExitRoom, Disconnect, Leave, SlotFails
      <3> QED  BY <3>1, <3>2
    <2> QED  BY <2>2, <2>4, <2>5
  <1> QED  BY <1>2, <1>3, <1>4 DEF RoomStep

(* A read of the client or of the service thread leaves a rest of the stream. *)
LEMMA RestIs ==
  ASSUME NEW S, NEW s \in Seq(S), NEW k \in 1 .. Len(s), s[1] \notin Hangups
  PROVE  /\ \A x : Contains(Unread(s, k), x) => Contains(s, x)
         /\ \A x : OnlyLast(s, x) => OnlyLast(Unread(s, k), x)
         /\ \A x : OnlyLast(s, x) /\ s[1] = x => Unread(s, k) = << >>
  <1> DEFINE r == Unread(s, k)
  <1>1. /\ r \in Seq(S) /\ Len(r) = Len(s) - k
        /\ \A j \in DOMAIN r : k + j \in DOMAIN s /\ r[j] = s[k + j]
    BY UnreadIs
  <1> HIDE DEF r
  <1>2. \A x : Contains(r, x) => Contains(s, x)
    BY <1>1 DEF Contains
  <1>3. \A j \in DOMAIN r : k + j = Len(s) => j = Len(r)
    BY <1>1
  <1>4. \A x : OnlyLast(s, x) => OnlyLast(r, x)
    BY <1>1, <1>3 DEF OnlyLast
  <1>5. ASSUME NEW x, OnlyLast(s, x), s[1] = x PROVE r = << >>
    <2>1. 1 \in DOMAIN s
      OBVIOUS
    <2>2. Len(s) = 1
      BY <1>5, <2>1 DEF OnlyLast
    <2> QED  BY <1>1, <2>2
  <1> QED  BY <1>2, <1>4, <1>5 DEF r

LEMMA ServicePhases ==
  ASSUME GameTypeOK, PhaseInv, NEW d \in Conns, ServiceReads(d)
  PROVE  PhaseInv'
  <1> SUFFICES ASSUME NEW c \in Conns
               PROVE  IF pc # "closed" THEN InPhase(c)' ELSE GoodbyeLast(c)'
    BY DEF PhaseInv, ServiceReads, vars, loopVars
  <1>1. /\ owner' = owner /\ page' = page /\ typed' = typed /\ pc' = pc
        /\ owner[d] = "service" /\ up[d] # << >>
        /\ down' = [down EXCEPT ![d] = IF Head(up[d]) = "EXIT" THEN Append(@, "LOGINOK") ELSE @]
        /\ \A e \in Conns \ {d} : up'[e] = up[e]
    BY DEF ServiceReads, vars, loopVars, clientVars, GameTypeOK
  <1>4. Emptied' = Emptied
    BY DEF ServiceReads, vars, listVars, loopVars, Emptied
  <1>2. CASE c # d
    <2>1. up'[c] = up[c] /\ down'[c] = down[c]
      BY <1>1, <1>2 DEF GameTypeOK
    <2> QED  BY <1>1, <1>4, <2>1 DEF PhaseInv, InPhase, Gone, Outside, Asking, Inside, LetGo,
                                     Dropped, NoTraffic, Contains, OnlyLast, GoodbyeLast
  <1>3. CASE c = d
    <2>1. down'[c] = down[c] \/ down'[c] = Append(down[c], "LOGINOK")
      BY <1>1, <1>3 DEF GameTypeOK
    <2>2. down[c] \in Seq(Wire)
      BY DEF GameTypeOK, Wire
    <2>3. \A k \in DOMAIN down'[c] :
            down'[c][k] = "LOGINOK" \/ (k \in DOMAIN down[c] /\ down'[c][k] = down[c][k])
      <3>1. "LOGINOK" \in Wire
        BY DEF Heeded, Wire
      <3> QED  BY <2>1, <2>2, <3>1
    <2>4. CASE pc # "closed"
      <3>1. Gone(c)
        BY <1>1, <1>3, <2>4 DEF PhaseInv, InPhase, Outside, Asking, Inside, LetGo, Dropped, NoTraffic
      <3> QED  BY <1>1, <2>3, <2>4, <3>1 DEF InPhase, Gone
    <2>5. CASE pc = "closed"
      <3>1. GoodbyeLast(c)
        BY <2>5 DEF PhaseInv
      <3>2. ASSUME NEW j \in DOMAIN down'[c], NEW k \in DOMAIN down'[c], j < k,
                   down'[c][j] = "HOMEPAGEOK"
            PROVE  down'[c][k] = "LOGINOK" \/ (Emptied' /\ down'[c][k] \in LateClock)
        <4>1. j \in DOMAIN down[c] /\ down[c][j] = "HOMEPAGEOK"
          BY <2>3, <3>2
        <4> QED  BY <1>4, <2>3, <3>1, <3>2, <4>1 DEF GoodbyeLast
      <3> QED  BY <2>5, <3>2 DEF GoodbyeLast
    <2> QED  BY <2>4, <2>5
  <1> QED  BY <1>2, <1>3


LEMMA ClientPhases ==
  ASSUME GameTypeOK, PhaseInv, EmptyInv, NEW d \in Conns, ClientStep(d)
  PROVE  PhaseInv'
  <1>1. UNCHANGED vars
    BY DEF ClientStep, AskToJoin, Types, Forwards, Receives, Obeys, HearsEnd, Quits
  <1> SUFFICES ASSUME NEW c \in Conns
               PROVE  IF pc # "closed" THEN InPhase(c)' ELSE GoodbyeLast(c)'
    BY <1>1 DEF PhaseInv, vars, loopVars
  <1>2. owner' = owner /\ pc' = pc /\ Emptied' = Emptied
    BY <1>1 DEF vars, listVars, loopVars, Emptied
  <1>9. pc # "closed" => ~Emptied
    BY DEF ClientStep, AtPoll, EmptyInv
  <1>3. CASE c # d
    <2>1. page'[c] = page[c] /\ typed'[c] = typed[c] /\ up'[c] = up[c] /\ down'[c] = down[c]
      BY <1>3 DEF ClientStep, AskToJoin, Types, Forwards, Receives, Obeys, HearsEnd, Quits, GameTypeOK
    <2> QED  BY <1>2, <2>1 DEF PhaseInv, InPhase, Gone, Outside, Asking, Inside, LetGo,
                               Dropped, NoTraffic, Contains, OnlyLast, GoodbyeLast
  <1>4. CASE c = d /\ (AskToJoin(d) \/ \E request \in {"GUESS", "SELECT", "EXIT"} : Types(d, request))
    <2>1. down'[c] = down[c] /\ up'[c] = up[c]
      BY <1>4 DEF AskToJoin, Types
    <2>2. CASE pc = "closed"
      BY <1>2, <2>1, <2>2 DEF PhaseInv, GoodbyeLast
    <2>3. CASE pc # "closed" /\ AskToJoin(d)
      <3>1. page[c] \in {"new", "home"} /\ page'[c] = "asking" /\ typed'[c] = "JOIN"
        BY <1>4, <2>3 DEF AskToJoin, GameTypeOK
      <3>2. Outside(c)
        BY <2>3, <3>1 DEF PhaseInv, InPhase, Gone, Asking, Inside, LetGo, Dropped
      <3> QED  BY <1>2, <2>1, <2>3, <3>1, <3>2 DEF InPhase, Outside, Asking, NoTraffic
    <2>4. ASSUME NEW request \in {"GUESS", "SELECT", "EXIT"}, Types(d, request), pc # "closed"
          PROVE  InPhase(c)'
      <3>1. /\ page[c] = "room" /\ typed'[c] = request
            /\ page'[c] = IF request = "EXIT" THEN "leaving" ELSE "room"
        BY <1>4, <2>4 DEF Types, GameTypeOK
      <3>2. Inside(c)
        BY <2>4, <3>1 DEF PhaseInv, InPhase, Gone, Outside, Asking, LetGo, Dropped
      <3> QED  BY <1>2, <2>1, <3>1, <3>2 DEF InPhase, Inside, Contains
    <2> QED  BY <1>4, <2>2, <2>3, <2>4
  <1>5. CASE c = d /\ Forwards(d)
    <2>1. /\ typed[c] \in {"GUESS", "SELECT", "EXIT"} /\ typed'[c] = "nothing"
          /\ up'[c] = Append(up[c], typed[c]) /\ down'[c] = down[c] /\ page'[c] = page[c]
      BY <1>5 DEF Forwards, GameTypeOK
    <2>2. CASE pc = "closed"
      BY <1>2, <2>1, <2>2 DEF PhaseInv, GoodbyeLast
    <2>3. CASE pc # "closed" /\ page[c] = "gone"
      BY <2>1, <2>3 DEF PhaseInv, InPhase, Gone, Outside, Asking, Inside, LetGo, Dropped
    <2>4. CASE pc # "closed" /\ page[c] # "gone"
      <3>1. Inside(c) /\ page[c] # "asking"
        BY <2>1, <2>4 DEF PhaseInv, InPhase, Gone, Outside, Asking, Inside, LetGo, Dropped
      <3>2. up[c] \in Seq(Requests) /\ typed[c] \in Requests /\ typed[c] \notin Hangups
        BY <2>1 DEF GameTypeOK, Requests, Hangups
      <3>3. /\ Len(up'[c]) = Len(up[c]) + 1 /\ up'[c] \in Seq(Requests)
            /\ \A k \in DOMAIN up'[c] : \/ k \in DOMAIN up[c] /\ up'[c][k] = up[c][k]
                                        \/ k = Len(up'[c]) /\ up'[c][k] = typed[c]
        <4> HIDE DEF Requests
        <4> QED  BY <2>1, <3>2
      <3>4. \A k \in DOMAIN up'[c] : up'[c][k] \notin Hangups
        BY <3>1, <3>2, <3>3 DEF Inside
      <3>5. page[c] = "room" => ~Contains(up'[c], "EXIT")
        BY <2>1, <3>1, <3>3 DEF Inside, Contains
      <3>6. page[c] = "leaving" => OnlyLast(up'[c], "EXIT")
        BY <2>1, <3>1, <3>3 DEF Inside, Contains, OnlyLast
      <3>7. Inside(c)'
        BY <1>2, <2>1, <2>4, <3>1, <3>4, <3>5, <3>6 DEF Inside
      <3> QED  BY <1>2, <2>4, <3>7 DEF InPhase
    <2> QED  BY <1>2, <2>2, <2>3, <2>4
  <1>6. CASE c = d /\ Obeys(d)
    <2>1. PICK k \in 1 .. Len(down[c]) : down'[c] = Unread(down[c], k)
      BY <1>6 DEF Obeys, GameTypeOK
    <2>2. /\ down[c] # << >> /\ typed'[c] = typed[c] /\ up'[c] = up[c]
          /\ page'[c] = NextPage(down[c][1], page[c])
      BY <1>6 DEF Obeys, GameTypeOK
    <2>3. down[c] \in Seq(Wire) /\ 1 \in DOMAIN down[c]
      BY <2>2 DEF GameTypeOK, Wire
    <2>4. down[c][1] \notin Hangups
      <3>1. down[c][1] # "EOF" /\ down[c][1] \in Wire
        BY <1>6, <2>3 DEF Obeys
      <3> QED  BY <3>1 DEF Wire, Heeded, Hangups
    <2>5. /\ \A x : Contains(down'[c], x) => Contains(down[c], x)
          /\ \A x : OnlyLast(down[c], x) => OnlyLast(down'[c], x)
          /\ \A x : OnlyLast(down[c], x) /\ down[c][1] = x => down'[c] = << >>
      BY <2>1, <2>3, <2>4, RestIs
    <2>6. /\ Len(down'[c]) = Len(down[c]) - k /\ down'[c] \in Seq(Wire)
          /\ \A j \in DOMAIN down'[c] : k + j \in DOMAIN down[c] /\ down'[c][j] = down[c][k + j]
      <3>1. /\ Len(Unread(down[c], k)) = Len(down[c]) - k /\ Unread(down[c], k) \in Seq(Wire)
            /\ \A j \in DOMAIN Unread(down[c], k) :
                  k + j \in DOMAIN down[c] /\ Unread(down[c], k)[j] = down[c][k + j]
        BY <2>3, <2>4, UnreadIs
      <3> QED  BY <2>1, <3>1
    <2>7. CASE pc = "closed"
      <3>1. \A i, j \in DOMAIN down'[c] : i < j => k + i < k + j
        BY <2>6
      <3> QED  BY <1>2, <2>6, <2>7, <3>1 DEF PhaseInv, GoodbyeLast
    <2>8. CASE pc # "closed"
      <3>1. InPhase(c)
        BY <2>8 DEF PhaseInv
      <3>2. CASE Gone(c)
        BY <1>2, <2>2, <2>6, <2>8, <3>2 DEF InPhase, Gone, NextPage
      <3>3. CASE Inside(c)
        <4>1. Contains(down[c], down[c][1])
          BY <2>3 DEF Contains
        <4>2. down[c][1] \notin {"HOMEPAGEOK", "LOGINOK"}
          BY <3>3, <4>1 DEF Inside
        <4>3. page'[c] = page[c] \/ (page[c] = "asking" /\ page'[c] = "room")
          BY <2>2, <4>2 DEF NextPage
        <4>4. ~Contains(down'[c], "HOMEPAGEOK") /\ ~Contains(down'[c], "LOGINOK")
          BY <2>5, <3>3 DEF Inside
        <4> QED  BY <1>2, <2>2, <2>8, <3>3, <4>3, <4>4 DEF InPhase, Inside, Contains
      <3>4. CASE LetGo(c)
        <4>1. OnlyLast(down[c], "HOMEPAGEOK")
          <5> SUFFICES ASSUME NEW j \in DOMAIN down[c], down[c][j] = "HOMEPAGEOK", j # Len(down[c])
                       PROVE  FALSE
            BY DEF OnlyLast
          <5>1. j < Len(down[c]) /\ Len(down[c]) \in DOMAIN down[c]
            BY <2>3
          <5> QED  BY <1>9, <2>8, <3>4, <5>1 DEF LetGo, GoodbyeLast, Contains
        <4>4. /\ ~Contains(down'[c], "LOGINOK") /\ OnlyLast(down'[c], "HOMEPAGEOK")
              /\ GoodbyeLast(c)'
          <5>1. ~Contains(down'[c], "LOGINOK") /\ OnlyLast(down'[c], "HOMEPAGEOK")
            BY <2>5, <3>4, <4>1 DEF LetGo
          <5> QED  BY <2>6, <5>1 DEF OnlyLast, GoodbyeLast
        <4>2. CASE down[c][1] = "HOMEPAGEOK"
          <5>1. down'[c] = << >> /\ page'[c] = "home"
            BY <2>2, <2>5, <3>4, <4>1, <4>2 DEF LetGo, NextPage
          <5> QED  BY <1>2, <2>2, <2>8, <3>4, <5>1 DEF InPhase, Outside, LetGo, NoTraffic
        <4>3. CASE down[c][1] # "HOMEPAGEOK"
          <5>1. down[c][1] # "LOGINOK"
            BY <2>3, <3>4 DEF LetGo, Contains
          <5>2. page'[c] = "leaving"
            BY <2>2, <3>4, <4>3, <5>1 DEF LetGo, NextPage
          <5> QED  BY <1>2, <2>2, <2>8, <3>4, <4>4, <5>2 DEF InPhase, LetGo
        <4> QED  BY <4>2, <4>3
      <3>5. CASE Dropped(c)
        <4>1. Contains(down[c], down[c][1])
          BY <2>3 DEF Contains
        <4>2. down[c][1] \notin {"HOMEPAGEOK", "LOGINOK"}
          BY <3>5, <4>1 DEF Dropped
        <4>3. page'[c] = "leaving"
          BY <2>2, <3>5, <4>2 DEF Dropped, NextPage
        <4>4. ~Contains(down'[c], "HOMEPAGEOK") /\ ~Contains(down'[c], "LOGINOK")
          BY <2>5, <3>5 DEF Dropped
        <4> QED  BY <1>2, <2>2, <2>8, <3>5, <4>3, <4>4 DEF InPhase, Dropped
      <3> QED  BY <2>2, <3>1, <3>2, <3>3, <3>4, <3>5 DEF InPhase, Outside, Asking, NoTraffic
    <2> QED  BY <2>7, <2>8
  <1>8. CASE c = d /\ HearsEnd(d)
    <2>1. page'[c] = "gone" /\ down'[c] = << >>
      BY <1>8 DEF HearsEnd, GameTypeOK
    <2> QED  BY <2>1 DEF InPhase, Gone, GoodbyeLast
  <1>7. CASE c = d /\ Quits(d)
    <2>1. page'[c] = "gone" /\ down'[c] = << >>
      BY <1>7 DEF Quits, GameTypeOK
    <2> QED  BY <2>1 DEF InPhase, Gone, GoodbyeLast
  <1> QED  BY <1>3, <1>4, <1>5, <1>6, <1>7, <1>8 DEF ClientStep, Receives

(* The clients leave the room as it is. *)
LEMMA QuietEmpties ==
  ASSUME EmptyInv, UNCHANGED vars, page' = page \/ AtPoll
  PROVE  EmptyInv'
  <1>1. pc' = pc /\ Emptied' = Emptied /\ Linked' = Linked
    BY DEF vars, listVars, loopVars, Emptied, Linked
  <1> QED  BY <1>1 DEF EmptyInv, AtPoll

LEMMA PhaseInit == GameInit => PhaseInv /\ EmptyInv
  BY DEF GameInit, Init, PhaseInv, InPhase, Outside, NoTraffic, EmptyInv, Emptied

LEMMA GameInitTypes == GameInit => GameTypeOK
  <1>1. << >> \in Seq({"GUESS", "SELECT", "EXIT"} \cup Hangups) /\ << >> \in Seq(Heeded \cup {"OTHER", "EOF"})
    OBVIOUS
  <1> QED  BY <1>1 DEF GameInit, GameTypeOK

LEMMA GameNextInv == GameInv /\ [GameNext]_gameVars => GameInv'
  <1> SUFFICES ASSUME GameInv, [GameNext]_gameVars PROVE GameInv'
    OBVIOUS
  <1> USE DEF GameInv
  <1>1. IInv' /\ GameTypeOK'
    BY GameStepIsNext, NextInv, GameTypes
  <1>2. CASE RoomStep
    BY <1>1, <1>2, RoomPhases, RoomEmpties
  <1>3. ASSUME NEW c \in Conns, ClientStep(c) PROVE PhaseInv' /\ EmptyInv'
    <2>1. UNCHANGED vars /\ AtPoll
      BY <1>3 DEF ClientStep, AskToJoin, Types, Forwards, Receives, Obeys, HearsEnd, Quits
    <2> QED  BY <1>3, <2>1, ClientPhases, QuietEmpties
  <1>4. ASSUME NEW c \in Conns, ServiceReads(c) PROVE PhaseInv' /\ EmptyInv'
    <2>1. UNCHANGED vars /\ page' = page
      BY <1>4 DEF ServiceReads, clientVars
    <2> QED  BY <1>4, <2>1, ServicePhases, QuietEmpties
  <1>5. CASE UNCHANGED gameVars
    <2>1. /\ pc' = pc /\ owner' = owner /\ page' = page /\ typed' = typed
          /\ up' = up /\ down' = down /\ Emptied' = Emptied /\ UNCHANGED vars
      BY <1>5 DEF gameVars, clientVars, vars, listVars, loopVars, Emptied
    <2>2. EmptyInv'
      BY <2>1, QuietEmpties
    <2> QED  BY <1>1, <2>1, <2>2 DEF PhaseInv, InPhase, Gone, Outside, Asking, Inside, LetGo,
                                     Dropped, NoTraffic, Contains, OnlyLast, GoodbyeLast
  <1> QED  BY <1>1, <1>2, <1>3, <1>4, <1>5 DEF GameNext, GameEnded

LEMMA GameHolds == GameSpec => []GameInv
  <1>1. GameInit => GameInv
    BY InitIInv, PhaseInit, GameInitTypes DEF GameInit, GameInv
  <1> QED  BY <1>1, GameNextInv, PTL DEF GameSpec

(* The prompt threads, the flags, the requests and the signals are those of  *)
(* the client program, however many clients play, quit and come back and     *)
(* however much a read() takes.                                              *)
THEOREM GameTyped == GameSpec => []GameTypeOK
  <1>1. GameInv => GameTypeOK
    BY DEF GameInv
  <1> QED  BY <1>1, GameHolds, PTL

(* A client whose prompt is on the homepage (thrPrompt) is no player: the    *)
(* service thread is the only one that reads its requests.  And the room     *)
(* (thrRoom) has nothing more to say to whom it has let go, but what the     *)
(* clock of a room without players says to the last of them.                 *)
THEOREM HomeOutsideTheRoom == GameSpec => []HomeIsOutside
  <1>1. ASSUME GameInv, NEW c \in Conns
        PROVE  /\ page[c] \in {"new", "home", "login"} /\ pc # "closed" => c \notin Polled
               /\ GoodbyeLast(c)
    <2>1. InPhase(c) => GoodbyeLast(c)
      BY <1>1 DEF GameInv, GameTypeOK, InPhase, Gone, Outside, Asking, Inside, LetGo, Dropped,
                  NoTraffic, Contains, OnlyLast, GoodbyeLast
    <2>2. page[c] \in {"new", "home", "login"} /\ InPhase(c) => owner[c] = "service"
      BY DEF InPhase, Gone, Outside, Asking, Inside, LetGo, Dropped
    <2> QED  BY <1>1, <2>1, <2>2 DEF GameInv, PhaseInv, IInv, OneReader
  <1>2. GameInv => HomeIsOutside
    BY <1>1 DEF HomeIsOutside, GoodbyeLast
  <1> QED  BY <1>2, GameHolds, PTL

=============================================================================
