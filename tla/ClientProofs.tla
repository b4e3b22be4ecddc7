----------------------------- MODULE ClientProofs -----------------------------
(***************************************************************************)
(* The two threads of a client and the server it talks to, for any number of *)
(* requests and signals on their way.  The argument is a token: in a session *)
(* that nothing has disturbed, either the user is at the keyboard of the     *)
(* page the server serves, or exactly one thing is on its way that will put  *)
(* him there: his request, the server's answer, or main's order to the       *)
(* prompt.  Guesses and choices of a word are the exception: the room page   *)
(* does not wait for an answer to them.  In a session that something has     *)
(* disturbed the token may be lost; what is left is the last page on its way *)
(* to the user, which is the one the server serves.                          *)
(***************************************************************************)
EXTENDS Client, TLAPS

LOCAL INSTANCE SequenceTheorems

AtWork == mpc \in {"poll", "scan"}

-----------------------------------------------------------------------------
(* Who holds prompt->mutex. *)
MutexInv ==
    /\ ppc = "typing" => mutex = "prompt"
    /\ mpc \in {"push", "cancel", "unlock"} => mutex = "main"

(* No element of the sequence s is in T. *)
Without(s, T) == \A i \in 1 .. Len(s) : s[i] \notin T

(* What main has been told, and has told the prompt, while it still polls. *)
FarewellInv ==
    AtWork =>
        /\ Without(toMain, {"GARBAGE"}) /\ Without(toPrompt, {"ABRUPT"})
        /\ ppc = "final" /\ farewell = "GARBAGE" => prompt_sd = "closed"
        /\ ~cancel

ThreadInv == ClientTypeOK /\ MutexInv /\ FarewellInv

-----------------------------------------------------------------------------
(* The token. *)
Async == {"GUESSSKIP", "SELECTWORD"}

AnswerSignals == {"LOGINOK", "HOMEPAGEOK", "ROOMOK", "LISTOK", "REFUSED"}

(* What the user may ask of the page, with the server's page. *)
Asking(where) ==
    CASE where = "nobody" -> {"CONNECTION", "RETRY"}
      [] where = "login" -> LoginRequests \cup {"RETRY"}
      [] where = "home" -> HomeRequests \cup {"RETRY"}
      [] where = "room" -> {"EXITROOM"}
      [] OTHER -> {}

OneOf(s, T, i) == i \in 1 .. Len(s) /\ \A j \in 1 .. Len(s) : s[j] \in T <=> j = i

(* The sequence s ends with x and before it has guesses and choices only. *)
EndsWith(s, x) ==
    /\ Len(s) > 0 /\ s[Len(s)] = x
    /\ \A i \in 1 .. Len(s) - 1 : s[i] \in Async

Guesses(s) == s \in Seq(Async) /\ (serves # "room" => s = << >>)

Waiting == Without(toPrompt, Modes \ {"DISCONNECT"})

PageFits == page = PageOf(serves)

ModeFits(m) == (IF m = "RETRY" THEN page ELSE m) = PageOf(serves)

AtKeyboard ==
    /\ ppc \in {"lock", "typing", "line"} /\ PageFits
    /\ Guesses(toMain) /\ Guesses(up)
    /\ Without(down, AnswerSignals) /\ Waiting

AskedMain ==
    /\ ppc = "read" /\ PageFits
    /\ \E x \in Asking(serves) : EndsWith(toMain, x)
    /\ serves # "room" => Len(toMain) = 1
    /\ Guesses(up)
    /\ Without(down, AnswerSignals) /\ Waiting

AskedServer ==
    /\ ppc = "read" /\ PageFits /\ toMain = << >>
    /\ \E x \in Asking(serves) \cap Requests : EndsWith(up, x)
    /\ serves # "room" => Len(up) = 1
    /\ Without(down, AnswerSignals) /\ Waiting

Answered ==
    /\ ppc = "read" /\ toMain = << >> /\ up = << >> /\ Waiting
    /\ \/ serves = "new" /\ down = << >>
       \/ \E i \in 1 .. Len(down) :
             OneOf(down, AnswerSignals, i) /\ ModeFits(NewMode(down[i]))

Told ==
    /\ ppc \in {"first", "read"} /\ toMain = << >> /\ up = << >>
    /\ Without(down, AnswerSignals)
    /\ \E i \in 1 .. Len(toPrompt) :
          /\ OneOf(toPrompt, Modes \ {"DISCONNECT"}, i)
          /\ ModeFits(toPrompt[i])

InSession ==
    /\ prompt_sd = "open"
    /\ AtKeyboard \/ AskedMain \/ AskedServer \/ Answered \/ Told

Leaving ==
    /\ ppc \in {"final", "sleep", "ended", "cancelled"}
    /\ toMain \in Seq(Farewells) /\ up = << >>

SessionInv ==
    smooth /\ AtWork =>
        /\ Without(down, {"COMMERROR", "EOF", "RST"})
        /\ InSession \/ Leaving

CInv == ThreadInv /\ SessionInv /\ RequestsFitPage

-----------------------------------------------------------------------------
(* Sequences. *)

(* What is left of a sequence when its first k elements were taken. *)
LEMMA Arithmetic ==
    ASSUME NEW n \in Nat, NEW k \in 1 .. n
    PROVE  /\ n - (k + 1) + 1 = n - k /\ n - k \in Nat
           /\ ~(k + 1 <= n) => n - k = 0
           /\ \A i \in 1 .. n - k : (k + 1) + i - 1 = i + k /\ i + k \in 1 .. n
<1> QED  OBVIOUS

LEMMA RestOfSeq ==
    ASSUME NEW S, NEW s \in Seq(S), NEW k \in 1 .. Len(s)
    PROVE  /\ SubSeq(s, k + 1, Len(s)) \in Seq(S)
           /\ Len(SubSeq(s, k + 1, Len(s))) = Len(s) - k
           /\ \A i \in 1 .. Len(s) - k : SubSeq(s, k + 1, Len(s))[i] = s[i + k]
<1> DEFINE t == SubSeq(s, k + 1, Len(s))
           n == Len(s)
<1>1. n \in Nat /\ s \in [1 .. n -> S]
    BY LenProperties
<1>2. \A i \in k + 1 .. n : s[i] \in S
    BY <1>1
<1>3. /\ t \in Seq(S)
      /\ Len(t) = IF k + 1 <= n THEN n - (k + 1) + 1 ELSE 0
      /\ \A i \in 1 .. n - (k + 1) + 1 : t[i] = s[(k + 1) + i - 1]
    BY <1>1, <1>2, SubSeqProperties
<1> HIDE DEF t, n
<1>4. k \in 1 .. n
    BY DEF n
<1>5. Len(t) = n - k /\ \A i \in 1 .. n - k : t[i] = s[i + k]
    BY <1>1, <1>3, <1>4, Arithmetic
<1> QED  BY <1>3, <1>5 DEF t, n

LEMMA WithoutRest ==
    ASSUME NEW S, NEW s \in Seq(S), NEW k \in 1 .. Len(s), NEW T, Without(s, T)
    PROVE  Without(SubSeq(s, k + 1, Len(s)), T)
<1> DEFINE t == SubSeq(s, k + 1, Len(s))
           n == Len(s)
<1>1. t \in Seq(S) /\ Len(t) = n - k /\ \A i \in 1 .. n - k : t[i] = s[i + k]
    BY RestOfSeq
<1>2. n \in Nat /\ k \in 1 .. n /\ \A i \in 1 .. n : s[i] \notin T
    BY LenProperties DEF Without
<1> HIDE DEF t, n
<1>3. \A i \in 1 .. n - k : t[i] \notin T
    BY <1>1, <1>2, Arithmetic
<1>4. Without(t, T)
    BY <1>1, <1>3 DEF Without
<1> QED  BY <1>4 DEF t, n

LEMMA WithoutAppend ==
    ASSUME NEW S, NEW s \in Seq(S), NEW x, NEW T, Without(s, T), x \notin T
    PROVE  Without(Append(s, x), T)
<1>1. /\ Len(Append(s, x)) = Len(s) + 1 /\ Len(s) \in Nat
      /\ \A i \in 1 .. Len(s) : Append(s, x)[i] = s[i]
      /\ Append(s, x)[Len(s) + 1] = x
    BY AppendProperties, LenProperties
<1>2. \A i \in 1 .. Len(s) + 1 : i \in 1 .. Len(s) \/ i = Len(s) + 1
    BY <1>1
<1> QED  BY <1>1, <1>2 DEF Without

LEMMA TakenBounds ==
    ASSUME NEW S, NEW s \in Seq(S), s # << >>, NEW k \in Taken(s)
    PROVE  k \in 1 .. Len(s)
<1>1. Len(s) \in Nat /\ Len(s) > 0
    BY EmptySeq, LenProperties
<1> QED  BY <1>1 DEF Taken

LEMMA UnreadTyped ==
    ASSUME NEW S, NEW s \in Seq(S), s # << >>, NEW k \in Taken(s)
    PROVE  Unread(s, k) \in Seq(S)
<1> QED  BY RestOfSeq, TakenBounds DEF Unread

-----------------------------------------------------------------------------
(* Types.  ClientTypeOK in three parts. *)
MainTyped ==
    /\ mpc \in {"poll", "scan", "closing", "push", "cancel", "unlock", "restart",
               "exited", "killed"}
    /\ ready \subseteq {"prompt", "server"} /\ bad \subseteq {"prompt", "server"}
    /\ {end_poll_loop, end_main_loop} \subseteq BOOLEAN
    /\ turn_flag \in {"wait", "guess", "choose", "off"}
    /\ prompt_sd \in {"open", "closed"}

PromptTyped ==
    /\ cancel \in BOOLEAN
    /\ ppc \in {"first", "read", "lock", "typing", "line", "final", "sleep", "ended",
               "cancelled"}
    /\ page \in Pages /\ farewell \in Farewells
    /\ mutex \in {"none", "main", "prompt"}

Messages == Requests \cup Farewells \cup {"CONNECTION", "RETRY"}

WiresTyped ==
    /\ toPrompt \in Seq(Modes)
    /\ toMain \in Seq(Messages)
    /\ serves \in {"nobody", "new", "login", "home", "room", "gone"}
    /\ up \in Seq(Requests \cup Farewells) /\ down \in Seq(Signals)
    /\ smooth \in BOOLEAN

LEMMA TypeParts == ClientTypeOK <=> MainTyped /\ PromptTyped /\ WiresTyped
<1> QED  BY DEF ClientTypeOK, MainTyped, PromptTyped, WiresTyped, Messages

LEMMA FreshWires ==
    /\ <<"CONNECTION">> \in Seq(Modes) /\ << >> \in Seq(Modes)
    /\ << >> \in Seq(Messages) /\ << >> \in Seq(Signals) /\ <<"RST">> \in Seq(Signals)
    /\ << >> \in Seq(Requests \cup Farewells)
<1>1. "CONNECTION" \in Modes /\ "RST" \in Signals
    BY DEF Modes, Pages, Signals
<1> QED  BY <1>1

LEMMA TypePartsNext == MainTyped' /\ PromptTyped' /\ WiresTyped' => ClientTypeOK'
<1> QED  BY DEF ClientTypeOK, MainTyped, PromptTyped, WiresTyped, Messages

LEMMA HandledTyped ==
    ASSUME MainTyped, NEW fd, NEW end \in {0, 1, 2}, Handled(fd, end)
    PROVE  /\ mpc' \in {"scan", "closing", "poll"}
           /\ ready' \subseteq {"prompt", "server"} /\ bad' \subseteq {"prompt", "server"}
           /\ {end_poll_loop', end_main_loop'} \subseteq BOOLEAN
<1> QED  BY DEF MainTyped, Handled

LEMMA TellPromptTyped ==
    ASSUME ClientTypeOK, NEW fd, NEW m \in Modes, NEW end \in {0, 1, 2},
           TellPrompt(fd, m, end)
    PROVE  /\ mpc' \in {"scan", "closing", "poll", "killed"}
           /\ ready' \subseteq {"prompt", "server"} /\ bad' \subseteq {"prompt", "server"}
           /\ {end_poll_loop', end_main_loop'} \subseteq BOOLEAN
           /\ toPrompt' \in Seq(Modes)
<1>1. MainTyped /\ toPrompt \in Seq(Modes) /\ Append(toPrompt, m) \in Seq(Modes)
    BY TypeParts DEF WiresTyped
<1>2. CASE prompt_sd = "open" /\ PromptGone
    BY <1>1, <1>2 DEF TellPrompt, Dies, MainTyped
<1>3. CASE ~(prompt_sd = "open" /\ PromptGone)
    BY <1>1, <1>3, HandledTyped DEF TellPrompt
<1> QED  BY <1>2, <1>3

LEMMA ForwardTyped ==
    ASSUME ClientTypeOK, NEW r \in Requests \cup Farewells, Forward(r)
    PROVE  /\ mpc' \in {"scan", "closing", "poll", "killed"}
           /\ ready' \subseteq {"prompt", "server"} /\ bad' \subseteq {"prompt", "server"}
           /\ {end_poll_loop', end_main_loop'} \subseteq BOOLEAN
           /\ up' \in Seq(Requests \cup Farewells) /\ down' \in Seq(Signals)
<1>1. /\ MainTyped /\ up \in Seq(Requests \cup Farewells) /\ down \in Seq(Signals)
      /\ Append(up, r) \in Seq(Requests \cup Farewells)
      /\ <<"RST">> \in Seq(Signals)
    BY TypeParts DEF WiresTyped, Signals
<1>2. CASE down = <<"RST">> /\ Dies
    BY <1>1, <1>2 DEF Forward, Dies, MainTyped
<1>3. CASE Handled("prompt", 0)
    BY <1>1, <1>3, HandledTyped DEF Forward
<1> QED  BY <1>2, <1>3 DEF Forward

LEMMA PromptSpeaksTyped == ClientTypeOK /\ PromptSpeaks => ClientTypeOK'
<1> SUFFICES ASSUME ClientTypeOK, PromptSpeaks PROVE ClientTypeOK'
    OBVIOUS
<1> DEFINE r == Head(toMain)
<1>1. MainTyped /\ PromptTyped /\ WiresTyped
    BY TypeParts
<1>2. r \in Messages
    BY <1>1 DEF PromptSpeaks, WiresTyped
<1>3. PromptTyped'
    BY <1>1 DEF PromptSpeaks, PromptTyped, promptVars
<1>4. toMain' \in Seq(Messages) /\ smooth' \in BOOLEAN
    BY <1>1, UnreadTyped DEF PromptSpeaks, WiresTyped
<1> HIDE DEF r
<1>5. switchPrompt(r)
    BY DEF PromptSpeaks, r
<1>6. CASE /\ TellPrompt("prompt", "RETRY", 0)
           /\ UNCHANGED <<turn_flag, prompt_sd, serves, up, down>>
    BY <1>1, <1>3, <1>4, <1>6, TellPromptTyped, TypePartsNext DEF MainTyped, WiresTyped, Modes
<1>7. CASE /\ TellPrompt("prompt", "CONNECTION", 0)
           /\ UNCHANGED <<turn_flag, prompt_sd, serves, up, down>>
    BY <1>1, <1>3, <1>4, <1>7, TellPromptTyped, TypePartsNext DEF MainTyped, WiresTyped, Modes, Pages
<1>8. CASE /\ prompt_sd' = "closed"
           /\ Handled("prompt", IF r = "CLOSEAPP" THEN 2 ELSE 1)
           /\ UNCHANGED <<turn_flag, toPrompt, serves, up, down>>
    BY <1>1, <1>3, <1>4, <1>8, HandledTyped, TypePartsNext DEF MainTyped, WiresTyped
<1>9. CASE /\ Handled("prompt", 0)
           /\ serves' = "new" /\ up' = << >> /\ down' = << >>
           /\ UNCHANGED <<turn_flag, prompt_sd, toPrompt>>
    BY <1>1, <1>3, <1>4, <1>9, HandledTyped, TypePartsNext DEF MainTyped, WiresTyped
<1>10. CASE /\ r \in Requests \cup {"GARBAGE"}
            /\ Forward(r)
            /\ turn_flag' = CASE r = "EXITROOM" -> "off"
                              [] r \in {"GUESSSKIP", "SELECTWORD"} -> "wait"
                              [] OTHER -> turn_flag
            /\ UNCHANGED <<prompt_sd, toPrompt, serves>>
  <2>1. r \in Requests \cup Farewells
      BY <1>10 DEF Farewells
  <2> QED  BY <1>1, <1>3, <1>4, <1>10, <2>1, ForwardTyped, TypePartsNext DEF MainTyped, WiresTyped
<1> QED  BY <1>5, <1>6, <1>7, <1>8, <1>9, <1>10 DEF switchPrompt

LEMMA ServerSpeaksTyped == ClientTypeOK /\ ServerSpeaks => ClientTypeOK'
<1> SUFFICES ASSUME ClientTypeOK, ServerSpeaks PROVE ClientTypeOK'
    OBVIOUS
<1> DEFINE sig == Head(down)
<1>1. MainTyped /\ PromptTyped /\ WiresTyped
    BY TypeParts
<1>2. sig \in Signals
    BY <1>1 DEF ServerSpeaks, WiresTyped
<1>3. PromptTyped'
    BY <1>1 DEF ServerSpeaks, PromptTyped, promptVars
<1>4. /\ toMain' \in Seq(Messages) /\ down' \in Seq(Signals) /\ smooth' \in BOOLEAN
      /\ prompt_sd' = prompt_sd /\ serves' = serves /\ up' = up
    BY <1>1, UnreadTyped DEF ServerSpeaks, WiresTyped
<1> HIDE DEF sig
<1>5. switchServer(sig)
    BY DEF ServerSpeaks, sig
<1>6. turn_flag' \in {"wait", "guess", "choose", "off"}
    BY <1>1, <1>5 DEF switchServer, NewFlag, MainTyped
<1>7. /\ mpc' \in {"scan", "closing", "poll", "killed"}
      /\ ready' \subseteq {"prompt", "server"} /\ bad' \subseteq {"prompt", "server"}
      /\ {end_poll_loop', end_main_loop'} \subseteq BOOLEAN
      /\ toPrompt' \in Seq(Modes)
  <2>1. CASE Dies /\ UNCHANGED toPrompt
      BY <1>1, <2>1 DEF Dies, MainTyped, WiresTyped
  <2>2. CASE \E end \in {0, 2} : Handled("server", end) /\ UNCHANGED toPrompt
      BY <1>1, <2>2, HandledTyped DEF WiresTyped
  <2>3. CASE \E m \in Modes, end \in {0, 1} : TellPrompt("server", m, end)
      BY <2>3, TellPromptTyped
  <2>4. "DISCONNECT" \in Modes /\ NewMode("EOF") \in Modes
      BY DEF Modes, NewMode
  <2>5. sig \notin TurnSignals \cup {"LISTMORE", "COMMERROR", "RST"} => NewMode(sig) \in Modes
      BY <1>2 DEF Signals, Modes, Pages, NewMode
  <2>6. CASE sig \in {"COMMERROR", "RST"}
      BY <1>5, <2>1, <2>2, <2>3, <2>4, <2>6 DEF switchServer, UnknownSignal
  <2>7. CASE sig \in TurnSignals \cup {"LISTMORE"}
      BY <1>5, <2>2, <2>7 DEF switchServer, TurnSignals
  <2>8. CASE sig \notin TurnSignals \cup {"LISTMORE", "COMMERROR", "RST"}
      BY <1>5, <2>3, <2>5, <2>8 DEF switchServer
  <2> QED  BY <2>6, <2>7, <2>8
<1> QED  BY <1>1, <1>3, <1>4, <1>6, <1>7, TypePartsNext DEF MainTyped, WiresTyped

-----------------------------------------------------------------------------
(* The steps of main between and after the polls. *)
LEMMA MainTypes ==
    ASSUME ClientTypeOK,
           \/ PollReturns \/ PollFails \/ PollTimesOut
           \/ \E fd \in {"prompt", "server"} : SlotFails(fd)
           \/ LockForClosing \/ deleteLocalSocket \/ CancelPrompt \/ UnlockAfterClosing
           \/ Restart
    PROVE  ClientTypeOK'
<1>1. MainTyped /\ PromptTyped /\ WiresTyped
    BY TypeParts
<1>2. CASE PollReturns
  <2>1. MainTyped'
      BY <1>1, <1>2 DEF PollReturns, Reported, Broken, MainTyped
  <2>2. PromptTyped' /\ WiresTyped'
      BY <1>1, <1>2 DEF PollReturns, PromptTyped, WiresTyped, promptVars, serverVars
  <2> QED  BY <2>1, <2>2, TypePartsNext
<1>3. CASE PollFails
  <2>1. MainTyped'
      BY <1>1, <1>3 DEF PollFails, MainTyped
  <2>2. PromptTyped' /\ WiresTyped'
      BY <1>1, <1>3 DEF PollFails, PromptTyped, WiresTyped, promptVars, serverVars
  <2> QED  BY <2>1, <2>2, TypePartsNext
<1>4. CASE PollTimesOut
    BY <1>1, <1>4, TypePartsNext
    DEF PollTimesOut, MainTyped, PromptTyped, WiresTyped, mainVars, promptVars, serverVars, Modes
<1>5. CASE \E fd \in {"prompt", "server"} : SlotFails(fd)
    BY <1>1, <1>5, TypePartsNext
    DEF SlotFails, MainTyped, PromptTyped, WiresTyped, promptVars, serverVars
<1>6. CASE LockForClosing
    BY <1>1, <1>6, TypePartsNext
    DEF LockForClosing, Closing, MainTyped, PromptTyped, WiresTyped, promptVars, serverVars
<1>7. CASE deleteLocalSocket
    BY <1>1, <1>7, TypePartsNext
    DEF deleteLocalSocket, Closing, MainTyped, PromptTyped, WiresTyped, promptVars, serverVars
<1>8. CASE CancelPrompt
    BY <1>1, <1>8, TypePartsNext
    DEF CancelPrompt, Closing, MainTyped, PromptTyped, WiresTyped, serverVars
<1>9. CASE UnlockAfterClosing
    BY <1>1, <1>9, TypePartsNext
    DEF UnlockAfterClosing, Closing, MainTyped, PromptTyped, WiresTyped, promptVars, serverVars
<1>10. CASE Restart
  <2>1. WiresTyped'
    <3>1. /\ serves' = "nobody" /\ up' = << >> /\ down' = << >> /\ smooth' = TRUE
          /\ \/ toPrompt' = <<"CONNECTION">> /\ toMain' = << >>
             \/ toPrompt' = toPrompt /\ toMain' = toMain
        BY <1>10 DEF Restart, FreshPrompt
    <3> QED  BY <1>1, <3>1, FreshWires DEF WiresTyped
  <2>2. PromptTyped'
      BY <1>1, <1>10 DEF Restart, FreshPrompt, PromptTyped, Pages, Farewells, promptVars
  <2>3. MainTyped'
      BY <1>1, <1>10 DEF Restart, FreshMain, MainTyped
  <2> QED  BY <2>1, <2>2, <2>3, TypePartsNext
<1> QED  BY <1>2, <1>3, <1>4, <1>5, <1>6, <1>7, <1>8, <1>9, <1>10

LEMMA WriteTyped ==
    ASSUME ClientTypeOK, NEW r \in Messages, writeToMain(r), UNCHANGED mainVarsButPc
    PROVE  MainTyped' /\ toMain' \in Seq(Messages)
<1>1. MainTyped /\ WiresTyped
    BY TypeParts
<1>2. toMain' \in Seq(Messages)
    BY <1>1 DEF writeToMain, WiresTyped
<1> QED  BY <1>1, <1>2 DEF writeToMain, MainTyped, mainVarsButPc

LEMMA AsksTyped ==
    ASSUME ClientTypeOK, NEW r \in Messages, NEW next \in {"read", "lock"},
           Asks(r, next), toPrompt' \in Seq(Modes)
    PROVE  ClientTypeOK'
<1>1. MainTyped /\ PromptTyped /\ WiresTyped
    BY TypeParts
<1>2. MainTyped' /\ toMain' \in Seq(Messages)
    BY WriteTyped DEF Asks
<1> QED  BY <1>1, <1>2, TypePartsNext DEF Asks, PromptTyped, WiresTyped, serverVars

LEMMA LeavesTyped ==
    ASSUME ClientTypeOK, NEW f \in Farewells, Leaves(f)
    PROVE  ClientTypeOK'
<1>1. MainTyped /\ PromptTyped /\ WiresTyped
    BY TypeParts
<1> QED  BY <1>1, TypePartsNext
         DEF Leaves, MainTyped, PromptTyped, WiresTyped, mainVars, serverVars

LEMMA PromptTypes == ClientTypeOK /\ Prompt => ClientTypeOK'
<1> SUFFICES ASSUME ClientTypeOK, Prompt PROVE ClientTypeOK'
    OBVIOUS
<1>1. MainTyped /\ PromptTyped /\ WiresTyped
    BY TypeParts
<1>2. CASE ReadsMode
  <2>1. toPrompt' \in Seq(Modes) /\ smooth' \in BOOLEAN
      BY <1>1, <1>2, RestOfSeq, TakenBounds DEF ReadsMode, WiresTyped
  <2>2. PromptTyped'
      BY <1>1, <1>2 DEF ReadsMode, PromptTyped
  <2> QED  BY <1>1, <1>2, <2>1, <2>2, TypePartsNext
           DEF ReadsMode, MainTyped, WiresTyped, mainVars
<1>3. CASE LocksInput
    BY <1>1, <1>3, TypePartsNext
    DEF LocksInput, MainTyped, PromptTyped, WiresTyped, mainVars, serverVars
<1>4. CASE UserTypes
    BY <1>1, <1>4, TypePartsNext
    DEF UserTypes, MainTyped, PromptTyped, WiresTyped, mainVars, serverVars
<1>5. CASE NeedsMore
    BY <1>1, <1>5, TypePartsNext
    DEF NeedsMore, MainTyped, PromptTyped, WiresTyped, mainVars, serverVars
<1>6. toPrompt \in Seq(Modes) /\ << >> \in Seq(Modes)
    BY <1>1 DEF WiresTyped
<1>7. CASE promptConnection
    BY <1>6, <1>7, AsksTyped, LeavesTyped DEF promptConnection, Messages, Farewells
<1>8. CASE promptLogin
    BY <1>6, <1>8, AsksTyped, LeavesTyped DEF promptLogin, Messages, Farewells, Requests
<1>9. CASE promptHomepage
    BY <1>6, <1>9, AsksTyped DEF promptHomepage, Messages, Requests
<1>10. CASE promptRoom
    BY <1>6, <1>10, AsksTyped DEF promptRoom, Messages, Requests, RoomRequests
<1>11. CASE SaysFarewell
  <2>1. farewell \in Messages
      BY <1>1 DEF PromptTyped, Messages
  <2>2. MainTyped' /\ toMain' \in Seq(Messages)
      BY <1>11, <2>1, WriteTyped DEF SaysFarewell
  <2> QED  BY <1>1, <1>11, <2>2, TypePartsNext DEF SaysFarewell, PromptTyped, WiresTyped, serverVars
<1>12. CASE PromptEnds
    BY <1>1, <1>12, TypePartsNext
    DEF PromptEnds, MainTyped, PromptTyped, WiresTyped, mainVars, serverVars
<1>13. CASE PromptDies
  <2>1. PromptTyped'
      BY <1>1, <1>13 DEF PromptDies, PromptTyped
  <2>2. MainTyped' /\ WiresTyped'
      BY <1>1, <1>13 DEF PromptDies, MainTyped, WiresTyped, mainVars, serverVars
  <2> QED  BY <2>1, <2>2, TypePartsNext
<1> QED  BY <1>2, <1>3, <1>4, <1>5, <1>7, <1>8, <1>9, <1>10, <1>11, <1>12, <1>13 DEF Prompt

(* What the server replies are pages and signals. *)
LEMMA RepliesTyped ==
    ASSUME NEW where, where \in {"login", "home", "room"}, NEW r,
           NEW a \in Replies(where, r)
    PROVE  a[1] \in {"login", "home", "room"} /\ a[2] \in Seq(Signals)
<1>1. {"LOGINOK", "HOMEPAGEOK", "ROOMOK", "LISTOK", "LISTMORE", "REFUSED"} \subseteq Signals
    BY DEF Signals
<1>2. {<< >>, <<"LOGINOK">>, <<"HOMEPAGEOK">>, <<"ROOMOK">>, <<"LISTOK">>, <<"REFUSED">>}
        \subseteq Seq(Signals)
    BY <1>1
<1>3. <<"LISTMORE", "LISTOK">> \in Seq(Signals)
    BY <1>1
<1>4. CASE where = "login"
    BY <1>2, <1>4 DEF Replies
<1>5. CASE where = "home"
  <2>0. {"CREATEROOM", "JOINROOM", "LISTROOM"} \cap Farewells = {}
      BY DEF Farewells
  <2>1. CASE r = "CREATEROOM"
    <3>1. a \in {<<"room", <<"ROOMOK">> >>, <<"home", << >> >>}
        BY <1>5, <2>1 DEF Replies
    <3>2. a[1] \in {"room", "home"} /\ a[2] \in {<<"ROOMOK">>, << >>}
        BY <3>1
    <3> QED  BY <1>2, <3>2
  <2>2. CASE r = "JOINROOM"
    <3>1. a \in {<<"room", <<"ROOMOK">> >>, <<"home", <<"REFUSED">> >>}
        BY <1>5, <2>0, <2>2 DEF Replies
    <3> QED  BY <1>2, <3>1
  <2>3. CASE r = "LISTROOM"
    <3>1. a \in {<<"home", <<"LISTOK">> >>, <<"home", <<"LISTMORE", "LISTOK">> >>,
                 <<"home", <<"REFUSED">> >>}
        BY <1>5, <2>0, <2>3 DEF Replies
    <3>2. a[1] = "home" /\ a[2] \in {<<"LISTOK">>, <<"LISTMORE", "LISTOK">>, <<"REFUSED">>}
        BY <3>1
    <3> QED  BY <1>2, <1>3, <3>2
  <2>4. CASE r \notin {"CREATEROOM", "JOINROOM", "LISTROOM"}
    <3>1. a \in {<<"login", <<"LOGINOK">> >>, <<"home", << >> >>, <<"home", <<"REFUSED">> >>}
        BY <1>5, <2>4 DEF Replies
    <3>2. a[1] \in {"login", "home"} /\ a[2] \in {<<"LOGINOK">>, << >>, <<"REFUSED">>}
        BY <3>1
    <3> QED  BY <1>2, <3>2
  <2> QED  BY <2>1, <2>2, <2>3, <2>4
<1>6. CASE where = "room"
  <2>1. a \in {<<"home", <<"HOMEPAGEOK">> >>, <<"room", << >> >>, <<"room", <<"REFUSED">> >>}
      BY <1>6 DEF Replies
  <2>2. a[1] \in {"home", "room"} /\ a[2] \in {<<"HOMEPAGEOK">>, << >>, <<"REFUSED">>}
      BY <2>1
  <2> QED  BY <1>2, <2>2
<1> QED  BY <1>4, <1>5, <1>6

LEMMA ServerTypes == ClientTypeOK /\ Server => ClientTypeOK'
<1> SUFFICES ASSUME ClientTypeOK, Server PROVE ClientTypeOK'
    OBVIOUS
<1>1. MainTyped /\ PromptTyped /\ WiresTyped
    BY TypeParts
<1>2. MainTyped' /\ PromptTyped' /\ toPrompt' \in Seq(Modes) /\ toMain' \in Seq(Messages)
  <2>1. UNCHANGED <<mainVars, promptVars, mutex, toPrompt, toMain>>
      BY DEF Server, Greets, Answers, RoomSpeaks, RoomCloses, MessageIsCut, ServerGoes, ServerRuns
  <2> QED  BY <1>1, <2>1 DEF MainTyped, PromptTyped, WiresTyped, mainVars, promptVars
<1>3. \A sig \in Signals : Append(down, sig) \in Seq(Signals)
    BY <1>1 DEF WiresTyped
<1>4. CASE Greets
    BY <1>1, <1>2, <1>3, <1>4, TypePartsNext DEF Greets, WiresTyped, Signals
<1>5. CASE Answers
  <2>1. PICK a \in Replies(serves, Head(up)) :
            /\ serves' = a[1] /\ down' = down \o a[2]
            /\ smooth' \in BOOLEAN
            /\ \E k \in Taken(up) : up' = SubSeq(up, k + 1, Len(up))
      BY <1>1, <1>5 DEF Answers, WiresTyped
  <2>2. a[1] \in {"login", "home", "room"} /\ a[2] \in Seq(Signals)
      BY <1>5, <2>1, RepliesTyped DEF Answers, ServerRuns
  <2>3. down' \in Seq(Signals) /\ smooth' \in BOOLEAN
      BY <1>1, <2>1, <2>2 DEF WiresTyped
  <2>4. up' \in Seq(Requests \cup Farewells)
      BY <1>1, <1>5, <2>1, RestOfSeq, TakenBounds DEF Answers, WiresTyped
  <2> QED  BY <1>2, <2>1, <2>2, <2>3, <2>4, TypePartsNext DEF WiresTyped
<1>6. CASE RoomSpeaks
    BY <1>1, <1>2, <1>3, <1>6, TypePartsNext DEF RoomSpeaks, WiresTyped, Signals
<1>7. CASE RoomCloses
    BY <1>1, <1>2, <1>3, <1>7, TypePartsNext DEF RoomCloses, WiresTyped, Signals
<1>8. CASE MessageIsCut
    BY <1>1, <1>2, <1>3, <1>8, TypePartsNext DEF MessageIsCut, WiresTyped, Signals
<1>9. CASE ServerGoes
  <2>1. <<"RST">> \in Seq(Signals) /\ Append(down, "EOF") \in Seq(Signals)
      BY <1>3 DEF Signals
  <2>2. down' \in Seq(Signals) /\ up' \in Seq(Requests \cup Farewells)
      BY <1>9, <2>1, FreshWires DEF ServerGoes
  <2> QED  BY <1>1, <1>2, <1>9, <2>2, TypePartsNext DEF ServerGoes, WiresTyped
<1> QED  BY <1>4, <1>5, <1>6, <1>7, <1>8, <1>9 DEF Server

LEMMA TypeStep == ClientTypeOK /\ [Next]_vars => ClientTypeOK'
<1>1. ClientTypeOK /\ UNCHANGED vars => ClientTypeOK'
    BY DEF ClientTypeOK, vars, mainVars, promptVars, serverVars
<1> QED  BY <1>1, MainTypes, PromptTypes, ServerTypes, PromptSpeaksTyped, ServerSpeaksTyped
         DEF Next, Main

LEMMA TypeInit == Init => ClientTypeOK
<1> QED  BY FreshWires DEF Init, ClientTypeOK, Pages, Farewells, Messages

(* Every variable of the client, of its wires and of its server keeps its     *)
(* type, for any number of messages on their way.                             *)
THEOREM ClientTyped == Spec => []ClientTypeOK
<1> QED  BY TypeInit, TypeStep, PTL DEF Spec

-----------------------------------------------------------------------------
(* A handler leaves main polling, scanning, closing or dead, and the threads' *)
(* mutex alone.                                                               *)
LEMMA HandlerPc ==
    ASSUME PromptSpeaks \/ ServerSpeaks
    PROVE  mpc' \in {"scan", "closing", "poll", "killed"} /\ UNCHANGED <<promptVars, mutex>>
<1>1. CASE PromptSpeaks
  <2>1. switchPrompt(Head(toMain)) /\ UNCHANGED <<promptVars, mutex>>
      BY <1>1 DEF PromptSpeaks
  <2>2. \A fd, m, end : TellPrompt(fd, m, end) => mpc' \in {"scan", "closing", "poll", "killed"}
      BY DEF TellPrompt, Handled, Dies
  <2>3. \A m : Forward(m) => mpc' \in {"scan", "closing", "poll", "killed"}
      BY DEF Forward, Handled, Dies
  <2>4. \A fd, end : Handled(fd, end) => mpc' \in {"scan", "closing", "poll"}
      BY DEF Handled
  <2> QED  BY <2>1, <2>2, <2>3, <2>4 DEF switchPrompt
<1>2. CASE ServerSpeaks
  <2>1. PICK sig : switchServer(sig)
      BY <1>2 DEF ServerSpeaks
  <2>2. UNCHANGED <<promptVars, mutex>>
      BY <1>2 DEF ServerSpeaks
  <2>3. CASE Dies
      BY <2>2, <2>3 DEF Dies
  <2>4. CASE \E fd, m, end : TellPrompt(fd, m, end)
      BY <2>2, <2>4 DEF TellPrompt, Handled, Dies
  <2>5. CASE \E fd, end : Handled(fd, end)
      BY <2>2, <2>5 DEF Handled
  <2>6. CASE sig \in {"COMMERROR", "RST"}
      BY <2>1, <2>3, <2>4, <2>5, <2>6 DEF switchServer, UnknownSignal
  <2>7. CASE sig \notin {"COMMERROR", "RST"}
      BY <2>1, <2>4, <2>5, <2>7 DEF switchServer
  <2> QED  BY <2>6, <2>7
<1> QED  BY <1>1, <1>2

(* What the server does touches neither thread of the client. *)
LEMMA ServerFrame ==
    Server => /\ mpc \in {"poll", "scan"}
              /\ UNCHANGED <<mainVars, promptVars, mutex, toPrompt, toMain>>
<1> QED  BY DEF Server, Greets, Answers, RoomSpeaks, RoomCloses, MessageIsCut, ServerGoes,
                ServerRuns

LEMMA MutexStep == MutexInv /\ [Next]_vars => MutexInv'
<1> SUFFICES ASSUME MutexInv, [Next]_vars PROVE MutexInv'
    OBVIOUS
<1> USE DEF MutexInv
<1>1. CASE UNCHANGED vars
    BY <1>1 DEF vars, mainVars, promptVars
<1>2. CASE PromptSpeaks \/ ServerSpeaks
    BY <1>2, HandlerPc DEF promptVars
<1>3. CASE Server
    BY <1>3, ServerFrame DEF mainVars, promptVars
<1>4. CASE PollReturns \/ PollFails \/ PollTimesOut \/ (\E fd \in {"prompt", "server"} : SlotFails(fd))
    BY <1>4 DEF PollReturns, PollFails, PollTimesOut, SlotFails, mainVars, promptVars
<1>5. CASE LockForClosing
    BY <1>5 DEF LockForClosing, Closing, promptVars
<1>6. CASE deleteLocalSocket \/ CancelPrompt
    BY <1>6 DEF deleteLocalSocket, CancelPrompt, Closing, promptVars
<1>7. CASE UnlockAfterClosing
    BY <1>7 DEF UnlockAfterClosing, Closing, promptVars
<1>8. CASE Restart
    BY <1>8 DEF Restart, FreshPrompt, PromptGone, promptVars
<1>9. CASE ReadsMode
    BY <1>9 DEF ReadsMode, mainVars
<1>10. CASE LocksInput \/ UserTypes \/ NeedsMore \/ PromptEnds \/ PromptDies
    BY <1>10 DEF LocksInput, UserTypes, NeedsMore, PromptEnds, PromptDies, PromptRuns, PromptAt,
                 mainVars
<1>11. CASE promptConnection \/ promptLogin \/ promptHomepage \/ promptRoom
  <2>1. \A r : \A next \in {"read", "lock"} : Asks(r, next) => MutexInv'
      BY DEF Asks, writeToMain
  <2>2. \A f : Leaves(f) => MutexInv'
      BY DEF Leaves, mainVars
  <2> QED  BY <1>11, <2>1, <2>2 DEF promptConnection, promptLogin, promptHomepage, promptRoom
<1>12. CASE SaysFarewell
    BY <1>12 DEF SaysFarewell, writeToMain
<1> QED  BY <1>1, <1>2, <1>3, <1>4, <1>5, <1>6, <1>7, <1>8, <1>9, <1>10, <1>11, <1>12
         DEF Next, Main, Prompt

(* MainClient.c:203-226.  Main never cancels the prompt thread, nor closes the *)
(* socket to it, while the user is in the middle of a line: it has the mutex   *)
(* that the prompt holds meanwhile.                                            *)
THEOREM TypingIsSpared == Spec => CancelSparesTyping
<1>1. Init => MutexInv
    BY DEF Init, MutexInv
<1>2. MutexInv /\ [Next]_vars =>
        [(cancel' /\ ~cancel) \/ deleteLocalSocket => ppc # "typing"]_vars
  <2> SUFFICES ASSUME MutexInv, Next, (cancel' /\ ~cancel) \/ deleteLocalSocket
               PROVE  ppc # "typing"
      OBVIOUS
  <2>1. CASE mpc \in {"push", "cancel", "unlock"}
      BY <2>1 DEF MutexInv
  <2>2. ~deleteLocalSocket => CancelPrompt
    <3>1. PromptSpeaks \/ ServerSpeaks => cancel' = cancel
        BY HandlerPc DEF promptVars
    <3>2. Server => cancel' = cancel
        BY ServerFrame DEF promptVars
    <3>3. Prompt => cancel' = cancel \/ ~cancel'
        BY DEF Prompt, ReadsMode, LocksInput, UserTypes, NeedsMore, promptConnection, promptLogin,
               promptHomepage, promptRoom, Asks, Leaves, SaysFarewell, PromptEnds, PromptDies
    <3>4. PollReturns \/ PollFails \/ PollTimesOut
            \/ (\E fd \in {"prompt", "server"} : SlotFails(fd))
            \/ LockForClosing \/ UnlockAfterClosing => cancel' = cancel
        BY DEF PollReturns, PollFails, PollTimesOut, SlotFails, LockForClosing,
               UnlockAfterClosing, promptVars
    <3>5. Restart => cancel' = cancel \/ ~cancel'
        BY DEF Restart, FreshPrompt, promptVars
    <3> QED  BY <3>1, <3>2, <3>3, <3>4, <3>5 DEF Next, Main
  <2> QED  BY <2>1, <2>2 DEF deleteLocalSocket, CancelPrompt, Closing
<1> QED  BY <1>1, <1>2, MutexStep, PTL DEF Spec, CancelSparesTyping

-----------------------------------------------------------------------------
(* What main polls, and what the prompt says, while main is at work. *)

LEMMA PromptSpeaksFarewell ==
    ASSUME ClientTypeOK, FarewellInv, PromptSpeaks PROVE FarewellInv'
<1> SUFFICES ASSUME AtWork' PROVE FarewellInv'
    BY DEF FarewellInv
<1>1. /\ toMain \in Seq(Messages) /\ toPrompt \in Seq(Modes)
      /\ toMain # << >> /\ AtWork /\ UNCHANGED promptVars
    BY DEF PromptSpeaks, Next_fd, AtWork, ClientTypeOK, Messages
<1>2. Without(toMain', {"GARBAGE"})
  <2>1. Without(toMain, {"GARBAGE"})
      BY <1>1 DEF FarewellInv
  <2>2. PICK k \in Taken(toMain) : toMain' = Unread(toMain, k)
      BY DEF PromptSpeaks
  <2>3. k \in 1 .. Len(toMain)
      BY <1>1, <2>2, TakenBounds
  <2> QED  BY <1>1, <2>1, <2>2, <2>3, WithoutRest DEF Unread
<1>3. toPrompt' \in {toPrompt, Append(toPrompt, "RETRY"), Append(toPrompt, "CONNECTION")}
  <2>1. PICK r : switchPrompt(r)
      BY DEF PromptSpeaks
  <2>2. \A fd, m, end : TellPrompt(fd, m, end) => toPrompt' \in {toPrompt, Append(toPrompt, m)}
      BY DEF TellPrompt
  <2> QED  BY <2>1, <2>2 DEF switchPrompt
<1>4. Without(toPrompt', {"ABRUPT"})
  <2>1. Without(toPrompt, {"ABRUPT"})
      BY <1>1 DEF FarewellInv
  <2>2. \A x : x # "ABRUPT" => Without(Append(toPrompt, x), {"ABRUPT"})
      BY <1>1, <2>1, WithoutAppend
  <2> QED  BY <1>3, <2>1, <2>2
<1>5. prompt_sd' \in {prompt_sd, "closed"}
  <2>1. PICK r : switchPrompt(r)
      BY DEF PromptSpeaks
  <2> QED  BY <2>1 DEF switchPrompt
<1> QED  BY <1>1, <1>2, <1>4, <1>5 DEF FarewellInv, promptVars

LEMMA ServerSpeaksFarewell ==
    ASSUME ClientTypeOK, FarewellInv, ServerSpeaks PROVE FarewellInv'
<1> SUFFICES ASSUME AtWork' PROVE FarewellInv'
    BY DEF FarewellInv
<1>1. /\ toPrompt \in Seq(Modes) /\ AtWork
      /\ UNCHANGED <<toMain, prompt_sd, ppc, farewell, cancel>>
    BY DEF ServerSpeaks, Next_fd, AtWork, ClientTypeOK, promptVars
<1>2. Handled("server", 1) => ~AtWork'
  <2>1. ready \ {"server"} = {}
      BY DEF ServerSpeaks, Next_fd, ClientTypeOK
  <2> QED  BY <2>1 DEF Handled, AtWork
<1>3. \E m : m # "ABRUPT" /\ toPrompt' \in {toPrompt, Append(toPrompt, m)}
  <2>1. PICK sig \in Signals : switchServer(sig)
      BY DEF ServerSpeaks, ClientTypeOK
  <2>2. \A fd, m, end : TellPrompt(fd, m, end) =>
            toPrompt' \in {toPrompt, Append(toPrompt, m)} /\ (Handled(fd, end) \/ ~AtWork')
      BY DEF TellPrompt, Dies, AtWork
  <2>3. \A m : ~TellPrompt("server", m, 1)
      BY <1>2, <2>2
  <2>4. CASE sig = "COMMERROR"
    <3>1. "DISCONNECT" # "ABRUPT"
        OBVIOUS
    <3>2. UNCHANGED toPrompt \/ TellPrompt("server", "DISCONNECT", 0)
        BY <2>1, <2>4 DEF switchServer, UnknownSignal
    <3>3. toPrompt' \in {toPrompt, Append(toPrompt, "DISCONNECT")}
        BY <2>2, <3>2
    <3> QED  BY <3>1, <3>3
  <2>5. CASE sig = "RST"
    <3>1. ~TellPrompt("server", NewMode("EOF"), 1)
        BY <2>3
    <3> QED  BY <2>1, <2>5, <3>1 DEF switchServer
  <2>6. CASE sig = "EOF"
    <3>1. ~TellPrompt("server", NewMode(sig), 1)
        BY <2>3
    <3> QED  BY <2>1, <2>6, <3>1 DEF switchServer
  <2>7. CASE sig \in TurnSignals \cup {"LISTMORE"}
      BY <2>1, <2>7 DEF switchServer, TurnSignals
  <2>8. CASE sig \in {"LOGINOK", "HOMEPAGEOK", "ROOMOK", "LISTOK", "REFUSED"}
    <3>1. TellPrompt("server", NewMode(sig), 0)
        BY <2>1, <2>8 DEF switchServer, TurnSignals
    <3>2. NewMode(sig) # "ABRUPT"
        BY <2>8 DEF NewMode
    <3> QED  BY <2>2, <3>1, <3>2
  <2> QED  BY <2>4, <2>5, <2>6, <2>7, <2>8 DEF Signals
<1>4. Without(toPrompt', {"ABRUPT"})
  <2>1. Without(toPrompt, {"ABRUPT"})
      BY <1>1 DEF FarewellInv
  <2>2. PICK m : m # "ABRUPT" /\ toPrompt' \in {toPrompt, Append(toPrompt, m)}
      BY <1>3
  <2>3. Without(Append(toPrompt, m), {"ABRUPT"})
      BY <1>1, <2>1, <2>2, WithoutAppend
  <2> QED  BY <2>1, <2>2, <2>3
<1> QED  BY <1>1, <1>4 DEF FarewellInv

LEMMA PromptFarewell == ClientTypeOK /\ FarewellInv /\ Prompt => FarewellInv'
<1> SUFFICES ASSUME ClientTypeOK, FarewellInv, Prompt, AtWork' PROVE FarewellInv'
    BY DEF FarewellInv
<1>0. /\ toMain \in Seq(Messages) /\ toPrompt \in Seq(Modes) /\ farewell \in Farewells
    BY DEF ClientTypeOK, Messages
<1>1. AtWork /\ ~cancel
  <2>1. mpc' = mpc \/ mpc' = "killed"
      BY DEF Prompt, ReadsMode, LocksInput, UserTypes, NeedsMore, promptConnection, promptLogin,
             promptHomepage, promptRoom, Asks, writeToMain, Leaves, SaysFarewell, PromptEnds,
             PromptDies, mainVars
  <2> QED  BY <2>1 DEF AtWork, FarewellInv
<1>2. /\ Without(toMain, {"GARBAGE"}) /\ Without(toPrompt, {"ABRUPT"})
      /\ ppc = "final" /\ farewell = "GARBAGE" => prompt_sd = "closed"
    BY <1>1 DEF FarewellInv
<1>3. CASE ReadsMode
  <2>1. /\ UNCHANGED <<toMain, prompt_sd, farewell, cancel>>
        /\ \/ toPrompt = << >> /\ prompt_sd = "closed" /\ toPrompt' = << >>
           \/ /\ toPrompt # << >>
              /\ ppc' = IF Head(toPrompt) = "DISCONNECT" THEN "read"
                        ELSE IF Head(toPrompt) = "ABRUPT" THEN "final" ELSE "lock"
              /\ \E k \in Taken(toPrompt) : toPrompt' = SubSeq(toPrompt, k + 1, Len(toPrompt))
      BY <1>3 DEF ReadsMode, mainVars
  <2>2. CASE toPrompt = << >>
      BY <1>1, <1>2, <2>1, <2>2 DEF FarewellInv
  <2>3. CASE toPrompt # << >>
    <3>1. Head(toPrompt) # "ABRUPT"
      <4>1. Len(toPrompt) \in Nat \ {0} /\ Head(toPrompt) = toPrompt[1]
          BY <1>0, <2>3, EmptySeq
      <4> QED  BY <1>2, <4>1 DEF Without
    <3>2. PICK k \in Taken(toPrompt) : toPrompt' = SubSeq(toPrompt, k + 1, Len(toPrompt))
        BY <2>1, <2>3
    <3>3. k \in 1 .. Len(toPrompt)
        BY <1>0, <2>3, <3>2, TakenBounds
    <3>4. Without(toPrompt', {"ABRUPT"})
        BY <1>0, <1>2, <3>2, <3>3, WithoutRest
    <3> QED  BY <1>1, <1>2, <2>1, <2>3, <3>1, <3>4 DEF FarewellInv
  <2> QED  BY <2>2, <2>3
<1>4. CASE LocksInput \/ UserTypes \/ NeedsMore \/ PromptEnds \/ PromptDies
  <2>1. /\ ppc' # "final" /\ UNCHANGED <<toMain, toPrompt>> /\ cancel' \in {cancel, FALSE}
      BY <1>4 DEF LocksInput, UserTypes, NeedsMore, PromptEnds, PromptDies
  <2> QED  BY <1>1, <1>2, <2>1 DEF FarewellInv
<1>5. \A x : x # "GARBAGE" => Without(Append(toMain, x), {"GARBAGE"})
    BY <1>0, <1>2, WithoutAppend
<1>6. ASSUME NEW r, r # "GARBAGE", NEW next \in {"read", "lock"}, Asks(r, next),
             toPrompt' \in {toPrompt, << >>}
      PROVE  FarewellInv'
  <2>1. ppc' # "final" /\ ~cancel' /\ toMain' \in {toMain, Append(toMain, r)}
      BY <1>1, <1>6 DEF Asks, writeToMain
  <2>2. Without(toPrompt', {"ABRUPT"})
    <3>1. Without(<< >>, {"ABRUPT"})
        BY DEF Without
    <3> QED  BY <1>2, <1>6, <3>1
  <2>3. Without(toMain', {"GARBAGE"})
      BY <1>2, <1>5, <1>6, <2>1
  <2> QED  BY <2>1, <2>2, <2>3 DEF FarewellInv
<1>7. ASSUME NEW f, f # "GARBAGE", Leaves(f) PROVE FarewellInv'
    BY <1>1, <1>2, <1>7 DEF Leaves, FarewellInv
<1>8. CASE promptConnection \/ promptLogin
    BY <1>6, <1>7, <1>8 DEF promptConnection, promptLogin, LoginRequests
<1>9. CASE promptHomepage \/ promptRoom
    BY <1>6, <1>9 DEF promptHomepage, promptRoom, HomeRequests
<1>10. CASE SaysFarewell
  <2>1. /\ ppc = "final" /\ ppc' = "sleep" /\ UNCHANGED <<toPrompt, cancel>>
        /\ writeToMain(farewell)
      BY <1>10 DEF SaysFarewell, PromptRuns, PromptAt
  <2>2. prompt_sd # "closed" /\ toMain' = Append(toMain, farewell)
      BY <2>1 DEF writeToMain, AtWork
  <2>3. Without(toMain', {"GARBAGE"})
      BY <1>2, <1>5, <2>1, <2>2
  <2> QED  BY <1>1, <1>2, <2>1, <2>3 DEF FarewellInv
<1> QED  BY <1>3, <1>4, <1>8, <1>9, <1>10 DEF Prompt

LEMMA FarewellStep == ClientTypeOK /\ FarewellInv /\ [Next]_vars => FarewellInv'
<1> SUFFICES ASSUME ClientTypeOK, FarewellInv, [Next]_vars, AtWork' PROVE FarewellInv'
    BY DEF FarewellInv
<1>1. CASE UNCHANGED vars
    BY <1>1 DEF vars, mainVars, promptVars, serverVars, FarewellInv, AtWork
<1>2. CASE PromptSpeaks \/ ServerSpeaks
    BY <1>2, PromptSpeaksFarewell, ServerSpeaksFarewell
<1>3. CASE Prompt
    BY <1>3, PromptFarewell
<1>4. CASE Server
    BY <1>4, ServerFrame DEF mainVars, promptVars, FarewellInv, AtWork
<1>5. CASE PollReturns
    BY <1>5 DEF PollReturns, promptVars, FarewellInv, AtWork
<1>6. CASE PollTimesOut
  <2>1. Without(toPrompt, {"ABRUPT"}) /\ toPrompt \in Seq(Modes)
      BY <1>6 DEF PollTimesOut, FarewellInv, AtWork, ClientTypeOK
  <2>2. Without(Append(toPrompt, "DISCONNECT"), {"ABRUPT"})
      BY <2>1, WithoutAppend
  <2> QED  BY <1>6, <2>2 DEF PollTimesOut, mainVars, promptVars, FarewellInv, AtWork
<1>7. CASE Restart
  <2>1. Without(<< >>, {"GARBAGE"}) /\ Without(<<"CONNECTION">>, {"ABRUPT"})
      BY DEF Without
  <2> QED  BY <1>7, <2>1 DEF Restart, FreshPrompt, FarewellInv, AtWork
<1>8. CASE \/ PollFails \/ LockForClosing \/ deleteLocalSocket \/ CancelPrompt
           \/ UnlockAfterClosing \/ \E fd \in {"prompt", "server"} : SlotFails(fd)
    BY <1>8 DEF PollFails, LockForClosing, deleteLocalSocket, CancelPrompt, UnlockAfterClosing,
                SlotFails, Closing, AtWork
<1> QED  BY <1>1, <1>2, <1>3, <1>4, <1>5, <1>6, <1>7, <1>8 DEF Next, Main

LEMMA FarewellInit == Init => FarewellInv
<1>1. Without(<< >>, {"GARBAGE"}) /\ Without(<<"CONNECTION">>, {"ABRUPT"})
    BY DEF Without
<1> QED  BY <1>1 DEF Init, FarewellInv

(* Prompt.c:177.  Main never reads a farewell that the prompt thread has not   *)
(* set: the two ways to its end without one, a session that broke off and a    *)
(* socket main has closed, come when main polls no longer or kill the write.   *)
THEOREM GarbageStaysUnread == Spec => []GarbageIsNeverRead
<1>1. FarewellInv => GarbageIsNeverRead
    BY DEF FarewellInv, AtWork, Without, GarbageIsNeverRead
<1> QED  BY <1>1, TypeInit, TypeStep, FarewellInit, FarewellStep, PTL DEF Spec

-----------------------------------------------------------------------------
(* The token, step by step.                                                   *)

(* What is left when one element was taken. *)
Rest(s) == SubSeq(s, 1 + 1, Len(s))

LEMMA RestFacts ==
    ASSUME NEW S, NEW s \in Seq(S), s # << >>
    PROVE  /\ Len(s) \in Nat \ {0} /\ Head(s) = s[1] /\ Head(s) \in S
           /\ Rest(s) \in Seq(S) /\ Len(Rest(s)) = Len(s) - 1
           /\ \A i \in 1 .. Len(s) - 1 : Rest(s)[i] = s[i + 1]
           /\ \A T : Without(s, T) => s[1] \notin T /\ Without(Rest(s), T)
<1>1. Len(s) \in Nat \ {0} /\ Head(s) = s[1] /\ Head(s) \in S
    BY EmptySeq
<1>2. 1 \in 1 .. Len(s)
    BY <1>1
<1>3. \A T : Without(s, T) => Without(Rest(s), T)
    BY <1>2, WithoutRest DEF Rest
<1>4. /\ Rest(s) \in Seq(S) /\ Len(Rest(s)) = Len(s) - 1
      /\ \A i \in 1 .. Len(s) - 1 : Rest(s)[i] = s[i + 1]
    BY <1>2, RestOfSeq DEF Rest
<1>5. \A T : Without(s, T) => s[1] \notin T
    BY <1>2 DEF Without
<1> QED  BY <1>1, <1>3, <1>4, <1>5

LEMMA EmptyLength ==
    ASSUME NEW S, NEW s \in Seq(S)
    PROVE  Len(s) = 0 <=> s = << >>
<1> QED  BY EmptySeq

LEMMA AppendFacts ==
    ASSUME NEW S, NEW s \in Seq(S), NEW x \in S
    PROVE  /\ Append(s, x) \in Seq(S) /\ Len(s) \in Nat /\ Len(Append(s, x)) = Len(s) + 1
           /\ \A i \in 1 .. Len(s) : Append(s, x)[i] = s[i]
           /\ Append(s, x)[Len(s) + 1] = x
           /\ \A T : Without(s, T) /\ x \notin T => Without(Append(s, x), T)
           /\ \A T : Without(s, T) /\ x \in T => OneOf(Append(s, x), T, Len(s) + 1)
           /\ \A T, i : OneOf(s, T, i) /\ x \notin T => OneOf(Append(s, x), T, i)
<1>1. /\ Append(s, x) \in Seq(S) /\ Len(s) \in Nat /\ Len(Append(s, x)) = Len(s) + 1
      /\ \A i \in 1 .. Len(s) : Append(s, x)[i] = s[i]
      /\ Append(s, x)[Len(s) + 1] = x
    BY AppendProperties, LenProperties
<1>2. \A i \in 1 .. Len(s) + 1 : i \in 1 .. Len(s) \/ i = Len(s) + 1
    BY <1>1
<1>3. Len(s) + 1 \in 1 .. Len(s) + 1 /\ 1 .. Len(s) \subseteq 1 .. Len(s) + 1
      /\ Len(s) + 1 \notin 1 .. Len(s)
    BY <1>1
<1> QED  BY <1>1, <1>2, <1>3 DEF Without, OneOf

LEMMA OneOfRest ==
    ASSUME NEW S, NEW s \in Seq(S), s # << >>, NEW T, NEW i, OneOf(s, T, i)
    PROVE  /\ s[1] \in T => i = 1 /\ Without(Rest(s), T)
           /\ s[1] \notin T => /\ OneOf(Rest(s), T, i - 1) /\ Rest(s)[i - 1] = s[i]
                              /\ i - 1 \in 1 .. Len(Rest(s))
<1>1. /\ Len(s) \in Nat \ {0} /\ Len(Rest(s)) = Len(s) - 1
      /\ \A j \in 1 .. Len(s) - 1 : Rest(s)[j] = s[j + 1]
    BY RestFacts
<1>2. i \in 1 .. Len(s) /\ \A j \in 1 .. Len(s) : s[j] \in T <=> j = i
    BY DEF OneOf
<1>3. \A j \in 1 .. Len(s) - 1 : j + 1 \in 1 .. Len(s) /\ (j + 1 = i <=> j = i - 1)
    BY <1>1, <1>2
<1>4. 1 \in 1 .. Len(s) /\ (i # 1 => i - 1 \in 1 .. Len(s) - 1 /\ (i - 1) + 1 = i)
    BY <1>1, <1>2
<1>5. \A j \in 1 .. Len(s) - 1 : Rest(s)[j] \in T <=> j = i - 1
    BY <1>1, <1>2, <1>3
<1>6. s[1] \in T => i = 1
    BY <1>2, <1>4
<1>7. i = 1 => \A j \in 1 .. Len(s) - 1 : j # i - 1
    OBVIOUS
<1> QED  BY <1>1, <1>2, <1>4, <1>5, <1>6, <1>7 DEF OneOf, Without

(* A request at the end of guesses. *)
LEMMA EndsWithAppend ==
    ASSUME NEW s \in Seq(Async), NEW x
    PROVE  EndsWith(Append(s, x), x) /\ Len(Append(s, x)) = Len(s) + 1
<1>1. s \in Seq(Async \cup {x}) /\ x \in Async \cup {x}
    OBVIOUS
<1>2. /\ Len(s) \in Nat /\ Len(Append(s, x)) = Len(s) + 1
      /\ \A i \in 1 .. Len(s) : Append(s, x)[i] = s[i]
      /\ Append(s, x)[Len(s) + 1] = x
    BY <1>1, AppendFacts
<1>3. \A i \in 1 .. Len(s) : s[i] \in Async
    BY LenProperties
<1>4. (Len(s) + 1) - 1 = Len(s) /\ Len(s) + 1 > 0
    BY <1>2
<1> QED  BY <1>2, <1>3, <1>4 DEF EndsWith

LEMMA EndsWithRest ==
    ASSUME NEW S, NEW s \in Seq(S), NEW x, EndsWith(s, x)
    PROVE  /\ s # << >>
           /\ Len(s) = 1 => Head(s) = x /\ Rest(s) = << >>
           /\ Len(s) # 1 => Head(s) \in Async /\ EndsWith(Rest(s), x)
<1>1. /\ Len(s) > 0 /\ s[Len(s)] = x /\ \A i \in 1 .. Len(s) - 1 : s[i] \in Async
    BY DEF EndsWith
<1>2. s # << >>
    BY <1>1, EmptySeq
<1>3. /\ Len(s) \in Nat \ {0} /\ Head(s) = s[1] /\ Rest(s) \in Seq(S)
      /\ Len(Rest(s)) = Len(s) - 1
      /\ \A i \in 1 .. Len(s) - 1 : Rest(s)[i] = s[i + 1]
    BY <1>2, RestFacts
<1>4. CASE Len(s) = 1
    BY <1>1, <1>2, <1>3, <1>4, EmptyLength
<1>5. CASE Len(s) # 1
  <2>1. /\ 1 \in 1 .. Len(s) - 1 /\ Len(s) - 1 > 0
        /\ Len(s) - 1 \in 1 .. Len(s) - 1 /\ (Len(s) - 1) + 1 = Len(s)
        /\ \A i \in 1 .. (Len(s) - 1) - 1 : i \in 1 .. Len(s) - 1 /\ i + 1 \in 1 .. Len(s) - 1
      BY <1>3, <1>5
  <2>2. Head(s) \in Async
      BY <1>1, <1>3, <2>1
  <2>3. Rest(s)[Len(s) - 1] = x
      BY <1>1, <1>3, <2>1
  <2>4. \A i \in 1 .. (Len(s) - 1) - 1 : Rest(s)[i] \in Async
      BY <1>1, <1>3, <2>1
  <2> QED  BY <1>2, <1>3, <1>5, <2>1, <2>2, <2>3, <2>4 DEF EndsWith
<1> QED  BY <1>4, <1>5

LEMMA WireFacts ==
    ASSUME ClientTypeOK
    PROVE  /\ toMain \in Seq(Messages) /\ toPrompt \in Seq(Modes)
           /\ up \in Seq(Requests \cup Farewells) /\ down \in Seq(Signals)
           /\ page \in Pages /\ smooth \in BOOLEAN
<1> QED  BY DEF ClientTypeOK, Messages

LEMMA PageIs ==
    ASSUME ClientTypeOK, PageFits
    PROVE  /\ serves \in {"nobody", "login", "home", "room"}
           /\ page = "CONNECTION" => serves = "nobody"
           /\ page = "LOGIN" => serves = "login"
           /\ page = "CREATEROOM" => serves = "home"
           /\ page = "GUESSSKIP" => serves = "room"
<1> QED  BY DEF ClientTypeOK, PageFits, PageOf, Pages

LEMMA NoGuesses ==
    ASSUME NEW s \in Seq(Async)
    PROVE  s # << >> => Head(s) \in Async /\ Rest(s) \in Seq(Async)
<1> QED  BY RestFacts

(* main has taken the first of several requests, or the only one. *)
LEMMA RequestTaken ==
    ASSUME ClientTypeOK, PromptSpeaks, smooth'
    PROVE  /\ smooth /\ toMain # << >> /\ switchPrompt(Head(toMain))
           /\ toMain' = Rest(toMain) /\ AtWork
           /\ UNCHANGED <<ppc, page, farewell>>
<1>1. PICK k \in Taken(toMain) : toMain' = Unread(toMain, k) /\ smooth' = (smooth /\ k = 1)
    BY DEF PromptSpeaks
<1>2. smooth /\ k = 1
    BY <1>1, WireFacts
<1>3. toMain # << >> /\ switchPrompt(Head(toMain)) /\ AtWork
      /\ UNCHANGED <<ppc, page, farewell>>
    BY DEF PromptSpeaks, Next_fd, AtWork, promptVars
<1>4. Head(toMain) \in Messages
    BY <1>3, WireFacts, RestFacts
<1>5. Head(toMain) \notin {"EOF", "RST"}
    BY <1>4 DEF Messages, Requests, LoginRequests, HomeRequests, RoomRequests, Farewells
<1> QED  BY <1>1, <1>2, <1>3, <1>5 DEF Unread, Rest

(* A request is forwarded: nothing has happened to the connection. *)
LEMMA Forwarded ==
    ASSUME NEW r, Forward(r), serves # "gone", ClientTypeOK,
           Without(down, {"COMMERROR", "EOF", "RST"})
    PROVE  up' = Append(up, r) /\ down' = down
<1>1. down # <<"RST">>
  <2>1. ASSUME down = <<"RST">> PROVE FALSE
    <3>1. Len(down) = 1 /\ down[1] = "RST"
        BY <2>1
    <3> QED  BY <3>1 DEF Without
  <2> QED  BY <2>1
<1> QED  BY <1>1 DEF Forward

LEMMA AsyncForwarded ==
    ASSUME NEW r \in Async, switchPrompt(r), serves = "room", ClientTypeOK,
           Without(down, {"COMMERROR", "EOF", "RST"})
    PROVE  up' = Append(up, r) /\ UNCHANGED <<down, toPrompt, prompt_sd, serves>>
<1>1. r \notin {"RETRY", "CONNECTION", "DISCONNECT", "CLOSEAPP"} \cup LoginRequests
    BY DEF Async, LoginRequests
<1>2. Forward(r) /\ UNCHANGED <<prompt_sd, toPrompt, serves>>
    BY <1>1 DEF switchPrompt
<1> QED  BY <1>2, Forwarded

LEMMA PromptSpeaksAtKeyboard ==
    ASSUME ThreadInv, AtKeyboard, prompt_sd = "open", PromptSpeaks, smooth',
           Without(down, {"COMMERROR", "EOF", "RST"})
    PROVE  InSession' /\ down' = down
<1>1. /\ smooth /\ toMain # << >> /\ switchPrompt(Head(toMain))
      /\ toMain' = Rest(toMain) /\ UNCHANGED <<ppc, page>>
    BY RequestTaken DEF ThreadInv
<1>2. /\ toMain \in Seq(Async) /\ serves = "room" /\ up \in Seq(Async)
    BY <1>1 DEF AtKeyboard, Guesses
<1>3. Head(toMain) \in Async /\ Rest(toMain) \in Seq(Async)
    BY <1>1, <1>2, NoGuesses
<1>4. up' = Append(up, Head(toMain)) /\ UNCHANGED <<down, toPrompt, prompt_sd, serves>>
    BY <1>1, <1>2, <1>3, AsyncForwarded DEF ThreadInv
<1>5. Guesses(toMain)' /\ Guesses(up)'
    BY <1>1, <1>2, <1>3, <1>4, AppendFacts DEF Guesses
<1>6. AtKeyboard'
    BY <1>1, <1>4, <1>5 DEF AtKeyboard, PageFits, PageOf, Waiting
<1> QED  BY <1>4, <1>6 DEF InSession

(* main answers the prompt itself. *)
LEMMA PromptTold ==
    ASSUME ThreadInv, ppc' = "read", toMain' = << >>, up' = << >>, down' = down,
           Without(down, AnswerSignals), Waiting, prompt_sd' = "open",
           UNCHANGED <<page, serves>>, PageFits,
           NEW m \in {"RETRY", "CONNECTION"}, m = "CONNECTION" => serves = "nobody",
           toPrompt' = Append(toPrompt, m)
    PROVE  InSession'
<1>1. m \in Modes /\ m \in Modes \ {"DISCONNECT"} /\ toPrompt \in Seq(Modes)
    BY WireFacts DEF ThreadInv, Modes, Pages
<1>2. /\ OneOf(toPrompt', Modes \ {"DISCONNECT"}, Len(toPrompt) + 1)
      /\ toPrompt'[Len(toPrompt) + 1] = m
    BY <1>1, AppendFacts DEF Waiting
<1>3. Len(toPrompt) + 1 \in 1 .. Len(toPrompt')
    BY <1>2 DEF OneOf
<1>4. ModeFits(m)'
    BY DEF ModeFits, PageFits, PageOf
<1>5. Told'
    BY <1>2, <1>3, <1>4 DEF Told, ModeFits, PageOf
<1> QED  BY <1>5 DEF InSession

LEMMA PromptSpeaksAsked ==
    ASSUME ThreadInv, AskedMain, prompt_sd = "open", PromptSpeaks, smooth', AtWork',
           Without(down, {"COMMERROR", "EOF", "RST"})
    PROVE  InSession' /\ down' \in {down, << >>}
<1>1. /\ smooth /\ toMain # << >> /\ switchPrompt(Head(toMain)) /\ toMain' = Rest(toMain)
      /\ ppc = "read" /\ ppc' = "read" /\ page' = page
    BY RequestTaken DEF ThreadInv, AskedMain
<1>2. /\ PageFits /\ Guesses(up) /\ Without(down, AnswerSignals) /\ Waiting
      /\ ClientTypeOK /\ toMain \in Seq(Messages) /\ serves # "gone"
    BY WireFacts, PageIs DEF AskedMain, ThreadInv
<1>3. PICK x \in Asking(serves) : EndsWith(toMain, x)
    BY DEF AskedMain
<1>4. CASE Len(toMain) # 1
  <2>1. /\ serves = "room" /\ Head(toMain) \in Async /\ EndsWith(Rest(toMain), x)
      BY <1>2, <1>3, <1>4, EndsWithRest DEF AskedMain
  <2>2. up' = Append(up, Head(toMain)) /\ UNCHANGED <<down, toPrompt, prompt_sd, serves>>
      BY <1>1, <1>2, <2>1, AsyncForwarded
  <2>3. Guesses(up)'
      BY <1>2, <2>1, <2>2, AppendFacts DEF Guesses
  <2>4. AskedMain'
      BY <1>1, <1>2, <1>3, <2>1, <2>2, <2>3 DEF AskedMain, PageFits, PageOf, Waiting
  <2> QED  BY <2>2, <2>4 DEF InSession
<1>5. CASE Len(toMain) = 1
  <2>1. Head(toMain) = x /\ toMain' = << >> /\ switchPrompt(x)
      BY <1>1, <1>2, <1>3, <1>5, EndsWithRest
  <2>2. ~PromptGone /\ (serves # "room" => up = << >>) /\ up \in Seq(Async)
      BY <1>1, <1>2 DEF PromptGone, Guesses
  <2>3. \A m : TellPrompt("prompt", m, 0) => toPrompt' = Append(toPrompt, m)
      BY <2>2 DEF TellPrompt
  <2>4. x \in Requests \cup {"CONNECTION", "RETRY"} /\ (x = "CONNECTION" => serves = "nobody")
        /\ (x = "RETRY" => serves # "room")
        /\ (x \in LoginRequests => serves # "room")
      BY <1>3 DEF Asking, Requests, LoginRequests, HomeRequests, RoomRequests
  <2>5. CASE /\ x \in {"RETRY", "CONNECTION"} \cup LoginRequests
             /\ TellPrompt("prompt", "RETRY", 0)
             /\ UNCHANGED <<turn_flag, prompt_sd, serves, up, down>>
      BY <1>1, <1>2, <2>1, <2>2, <2>3, <2>4, <2>5, PromptTold
  <2>6. CASE /\ x = "CONNECTION"
             /\ TellPrompt("prompt", "CONNECTION", 0)
             /\ UNCHANGED <<turn_flag, prompt_sd, serves, up, down>>
      BY <1>1, <1>2, <2>1, <2>2, <2>3, <2>4, <2>6, PromptTold
  <2>7. CASE /\ x = "CONNECTION"
             /\ Handled("prompt", 0)
             /\ serves' = "new" /\ up' = << >> /\ down' = << >>
             /\ UNCHANGED <<turn_flag, prompt_sd, toPrompt>>
    <3>1. Answered'
        BY <1>1, <1>2, <2>1, <2>7 DEF Answered, Waiting
    <3> QED  BY <2>7, <3>1 DEF InSession
  <2>8. CASE /\ x \in Requests \cup {"GARBAGE"}
             /\ Forward(x)
             /\ UNCHANGED <<prompt_sd, toPrompt, serves>>
    <3>1. up' = Append(up, x) /\ down' = down
        BY <1>2, <2>8, Forwarded
    <3>2. EndsWith(up', x) /\ Len(up') = Len(up) + 1 /\ (serves # "room" => Len(up') = 1)
      <4>1. EndsWith(up', x) /\ Len(up') = Len(up) + 1
          BY <2>2, <3>1, EndsWithAppend
      <4>2. up = << >> => Len(up) + 1 = 1
          OBVIOUS
      <4> QED  BY <2>2, <4>1, <4>2
    <3>3. x \in Asking(serves) \cap Requests
        BY <1>3, <2>4, <2>8 DEF Requests, LoginRequests, HomeRequests, RoomRequests
    <3>4. AskedServer'
        BY <1>1, <1>2, <2>1, <2>8, <3>1, <3>2, <3>3
        DEF AskedServer, PageFits, PageOf, Waiting, Asking
    <3> QED  BY <2>8, <3>1, <3>4 DEF InSession
  <2>9. x \notin {"DISCONNECT", "CLOSEAPP"}
      BY <2>4 DEF Requests, LoginRequests, HomeRequests, RoomRequests
  <2> QED  BY <2>1, <2>5, <2>6, <2>7, <2>8, <2>9 DEF switchPrompt
<1> QED  BY <1>4, <1>5

LEMMA PromptSpeaksLeaving ==
    ASSUME ThreadInv, Leaving, PromptSpeaks, smooth'
    PROVE  Leaving' /\ down' = down
<1>1. /\ smooth /\ toMain # << >> /\ switchPrompt(Head(toMain)) /\ toMain' = Rest(toMain)
      /\ ppc' = ppc /\ AtWork
    BY RequestTaken DEF ThreadInv
<1>2. toMain \in Seq(Farewells) /\ up = << >> /\ Without(toMain, {"GARBAGE"})
    BY <1>1 DEF Leaving, ThreadInv, FarewellInv
<1>3. Head(toMain) \in Farewells \ {"GARBAGE"} /\ Rest(toMain) \in Seq(Farewells)
    BY <1>1, <1>2, RestFacts
<1>4. PICK r \in {"DISCONNECT", "CLOSEAPP"} : switchPrompt(r)
    BY <1>1, <1>3 DEF Farewells
<1>5. UNCHANGED <<up, down>>
    BY <1>4 DEF switchPrompt, Requests, LoginRequests, HomeRequests, RoomRequests
<1> QED  BY <1>1, <1>2, <1>3, <1>5 DEF Leaving

LEMMA PromptSpeaksSession ==
    ASSUME ThreadInv, SessionInv, PromptSpeaks, smooth', AtWork'
    PROVE  SessionInv'
<1>1. AtWork /\ smooth /\ toMain # << >>
    BY RequestTaken DEF ThreadInv
<1>2. Without(down, {"COMMERROR", "EOF", "RST"}) /\ (InSession \/ Leaving)
    BY <1>1 DEF SessionInv
<1>3. Without(<< >>, {"COMMERROR", "EOF", "RST"})
    BY DEF Without
<1>4. CASE InSession
  <2>1. AtKeyboard \/ AskedMain
      BY <1>1, <1>4 DEF InSession, AskedServer, Answered, Told
  <2>2. InSession' /\ down' \in {down, << >>}
      BY <1>2, <1>4, <2>1, PromptSpeaksAtKeyboard, PromptSpeaksAsked DEF InSession
  <2> QED  BY <1>2, <1>3, <2>2 DEF SessionInv
<1>5. CASE Leaving
    BY <1>2, <1>5, PromptSpeaksLeaving DEF SessionInv
<1> QED  BY <1>2, <1>4, <1>5

(* The client reads one signal of the server. *)
LEMMA SignalTaken ==
    ASSUME ThreadInv, SessionInv, ServerSpeaks, smooth'
    PROVE  /\ smooth /\ AtWork /\ down # << >> /\ Head(down) = down[1]
           /\ Head(down) \in AnswerSignals \cup TurnSignals \cup {"LISTMORE"}
           /\ switchServer(Head(down)) /\ down' = Rest(down)
           /\ UNCHANGED <<prompt_sd, ppc, page, toMain, serves, up>>
<1>1. PICK k \in Taken(down) : down' = Unread(down, k) /\ smooth' = (smooth /\ k = 1)
    BY DEF ServerSpeaks
<1>2. smooth /\ k = 1
    BY <1>1, WireFacts DEF ThreadInv
<1>3. /\ down # << >> /\ switchServer(Head(down)) /\ AtWork
      /\ UNCHANGED <<prompt_sd, ppc, page, toMain, serves, up>>
    BY DEF ServerSpeaks, Next_fd, AtWork, promptVars
<1>4. /\ Head(down) = down[1] /\ Head(down) \in Signals
      /\ down[1] \notin {"COMMERROR", "EOF", "RST"}
    BY <1>2, <1>3, WireFacts, RestFacts DEF ThreadInv, SessionInv
<1> QED  BY <1>1, <1>2, <1>3, <1>4 DEF Unread, Rest, Signals, AnswerSignals, TurnSignals

LEMMA ServerSpeaksSession ==
    ASSUME ThreadInv, SessionInv, ServerSpeaks, smooth', AtWork'
    PROVE  SessionInv'
<1> DEFINE sig == Head(down)
<1>1. /\ smooth /\ AtWork /\ down # << >> /\ sig = down[1]
      /\ sig \in AnswerSignals \cup TurnSignals \cup {"LISTMORE"}
      /\ switchServer(sig) /\ down' = Rest(down)
      /\ UNCHANGED <<prompt_sd, ppc, page, toMain, serves, up>>
    BY SignalTaken
<1>2. /\ Without(down, {"COMMERROR", "EOF", "RST"}) /\ (InSession \/ Leaving)
      /\ down \in Seq(Signals) /\ toPrompt \in Seq(Modes)
    BY <1>1, WireFacts DEF SessionInv, ThreadInv
<1>3. \A T : Without(down, T) => down[1] \notin T /\ Without(down', T)
    BY <1>1, <1>2, RestFacts
<1> HIDE DEF sig
<1>4. CASE Leaving
    BY <1>1, <1>2, <1>3, <1>4 DEF Leaving, SessionInv
<1>5. CASE InSession /\ sig \notin AnswerSignals
  <2>1. UNCHANGED toPrompt
      BY <1>1, <1>5 DEF switchServer, TurnSignals
  <2>2. AtKeyboard => AtKeyboard'
      BY <1>1, <1>3, <2>1 DEF AtKeyboard, PageFits, PageOf, Guesses, Waiting
  <2>3. AskedMain => AskedMain'
      BY <1>1, <1>3, <2>1 DEF AskedMain, PageFits, PageOf, Guesses, Waiting
  <2>4. AskedServer => AskedServer'
      BY <1>1, <1>3, <2>1 DEF AskedServer, PageFits, PageOf, Waiting
  <2>5. ASSUME Answered PROVE Answered'
    <3>1. PICK i \in 1 .. Len(down) :
              OneOf(down, AnswerSignals, i) /\ ModeFits(NewMode(down[i]))
        BY <1>1, <2>5 DEF Answered
    <3>2. /\ OneOf(down', AnswerSignals, i - 1) /\ down'[i - 1] = down[i]
          /\ i - 1 \in 1 .. Len(down')
        BY <1>1, <1>2, <1>5, <3>1, OneOfRest
    <3>3. ModeFits(NewMode(down[i - 1]))'
        BY <1>1, <3>1, <3>2 DEF ModeFits, PageOf, NewMode
    <3> QED  BY <1>1, <2>1, <2>5, <3>2, <3>3 DEF Answered, Waiting
  <2>6. Told => Told'
      BY <1>1, <1>3, <2>1 DEF Told, ModeFits, PageOf
  <2>7. InSession'
      BY <1>1, <1>5, <2>2, <2>3, <2>4, <2>5, <2>6 DEF InSession
  <2> QED  BY <1>2, <1>3, <2>7 DEF SessionInv
<1>6. CASE InSession /\ sig \in AnswerSignals
  <2>1. Answered /\ prompt_sd = "open"
    <3>1. ~Without(down, AnswerSignals)
        BY <1>1, <1>3, <1>6
    <3> QED  BY <1>6, <3>1 DEF InSession, AtKeyboard, AskedMain, AskedServer, Told
  <2>2. PICK i \in 1 .. Len(down) :
            OneOf(down, AnswerSignals, i) /\ ModeFits(NewMode(down[i]))
      BY <1>1, <2>1 DEF Answered
  <2>3. Without(down', AnswerSignals) /\ ModeFits(NewMode(sig))
      BY <1>1, <1>2, <1>6, <2>2, OneOfRest
  <2>4. NewMode(sig) \in Modes /\ NewMode(sig) \in Modes \ {"DISCONNECT"}
      BY <1>6 DEF NewMode, AnswerSignals, Modes, Pages
  <2>5. TellPrompt("server", NewMode(sig), 0)
      BY <1>1, <1>6 DEF switchServer, AnswerSignals, TurnSignals
  <2>6. toPrompt' = Append(toPrompt, NewMode(sig))
      BY <2>1, <2>5 DEF TellPrompt, Answered, PromptGone
  <2>7. /\ OneOf(toPrompt', Modes \ {"DISCONNECT"}, Len(toPrompt) + 1)
        /\ toPrompt'[Len(toPrompt) + 1] = NewMode(sig)
      BY <1>2, <2>1, <2>4, <2>6, AppendFacts DEF Answered, Waiting
  <2>8. Len(toPrompt) + 1 \in 1 .. Len(toPrompt')
      BY <2>7 DEF OneOf
  <2>9. Told'
      BY <1>1, <2>1, <2>3, <2>7, <2>8 DEF Told, Answered, ModeFits, PageOf
  <2> QED  BY <1>1, <1>2, <1>3, <2>1, <2>9 DEF SessionInv, InSession
<1> QED  BY <1>2, <1>4, <1>5, <1>6

LEMMA ReadsModeSession ==
    ASSUME ThreadInv, SessionInv, ReadsMode, smooth', AtWork
    PROVE  SessionInv'
<1>1. /\ ppc \in {"first", "read"} /\ smooth
      /\ UNCHANGED <<prompt_sd, toMain, serves, up, down>>
      /\ toPrompt \in Seq(Modes) /\ Without(toPrompt, {"ABRUPT"})
    BY WireFacts DEF ReadsMode, mainVars, ThreadInv, FarewellInv
<1>2. /\ Without(down, {"COMMERROR", "EOF", "RST"}) /\ InSession /\ prompt_sd = "open"
    BY <1>1 DEF SessionInv, Leaving, InSession
<1>3. toPrompt # << >>
    BY <1>2 DEF ReadsMode
<1> DEFINE m == Head(toPrompt)
<1>4. /\ m = toPrompt[1] /\ m \in Modes /\ m # "ABRUPT" /\ toPrompt' = Rest(toPrompt)
      /\ page' = (IF m \in Pages THEN m ELSE page)
      /\ ppc' = IF m = "DISCONNECT" THEN "read" ELSE "lock"
  <2>1. m = toPrompt[1] /\ m \in Modes /\ m # "ABRUPT"
      BY <1>1, <1>3, RestFacts
  <2>2. PICK k \in Taken(toPrompt) :
            toPrompt' = SubSeq(toPrompt, k + 1, Len(toPrompt)) /\ smooth' = (smooth /\ k = 1)
      BY <1>3 DEF ReadsMode
  <2>3. k = 1
      BY <1>1, <2>2
  <2> QED  BY <1>3, <2>1, <2>2, <2>3 DEF ReadsMode, Rest
<1> HIDE DEF m
<1>5. \A T : Without(toPrompt, T) => toPrompt[1] \notin T /\ Without(toPrompt', T)
    BY <1>1, <1>3, <1>4, RestFacts
<1>6. CASE Told
  <2>1. PICK i \in 1 .. Len(toPrompt) :
            OneOf(toPrompt, Modes \ {"DISCONNECT"}, i) /\ ModeFits(toPrompt[i])
      BY <1>6 DEF Told
  <2>2. CASE m = "DISCONNECT"
    <3>1. page' = page /\ ppc' = "read"
        BY <1>4, <2>2 DEF Pages
    <3>2. /\ OneOf(toPrompt', Modes \ {"DISCONNECT"}, i - 1) /\ toPrompt'[i - 1] = toPrompt[i]
          /\ i - 1 \in 1 .. Len(toPrompt')
        BY <1>1, <1>3, <1>4, <2>1, <2>2, OneOfRest
    <3>3. Told'
        BY <1>1, <1>6, <2>1, <3>1, <3>2 DEF Told, ModeFits, PageOf
    <3> QED  BY <1>1, <1>2, <3>3 DEF SessionInv, InSession
  <2>3. CASE m # "DISCONNECT"
    <3>1. i = 1 /\ Waiting'
        BY <1>1, <1>3, <1>4, <2>1, <2>3, OneOfRest DEF Waiting
    <3>2. PageFits'
        BY <1>1, <1>4, <2>1, <2>3, <3>1 DEF PageFits, ModeFits, PageOf, Modes, Pages
    <3>3. AtKeyboard'
        BY <1>1, <1>4, <1>6, <2>3, <3>1, <3>2 DEF AtKeyboard, Told, Guesses
    <3> QED  BY <1>1, <1>2, <3>3 DEF SessionInv, InSession
  <2> QED  BY <2>2, <2>3
<1>7. CASE AskedMain \/ AskedServer \/ Answered
  <2>1. Waiting
      BY <1>7 DEF AskedMain, AskedServer, Answered
  <2>2. m = "DISCONNECT" /\ Waiting'
      BY <1>4, <1>5, <2>1 DEF Waiting
  <2>3. page' = page /\ ppc' = "read"
      BY <1>4, <2>2 DEF Pages
  <2>4. AskedMain => AskedMain'
      BY <1>1, <2>2, <2>3 DEF AskedMain, PageFits, PageOf, Guesses
  <2>5. AskedServer => AskedServer'
      BY <1>1, <2>2, <2>3 DEF AskedServer, PageFits, PageOf
  <2>6. Answered => Answered'
      BY <1>1, <2>2, <2>3 DEF Answered, ModeFits, PageOf
  <2> QED  BY <1>1, <1>2, <1>7, <2>4, <2>5, <2>6 DEF SessionInv, InSession
<1> QED  BY <1>1, <1>2, <1>6, <1>7 DEF InSession, AtKeyboard

(* The user asks for something, guesses, or leaves. *)
LEMMA AsksSession ==
    ASSUME ThreadInv, SessionInv, smooth, AtWork, NEW r, NEW next \in {"read", "lock"},
           Asks(r, next)
    PROVE  /\ AtKeyboard /\ prompt_sd = "open" /\ toMain' = Append(toMain, r) /\ ppc' = next
           /\ Without(down, {"COMMERROR", "EOF", "RST"})
           /\ UNCHANGED <<page, prompt_sd, serves, up, down, smooth>>
<1>1. /\ ppc = "line" /\ writeToMain(r) /\ ppc' = next
      /\ UNCHANGED <<page, prompt_sd, serves, up, down, smooth>>
    BY DEF Asks, PromptRuns, PromptAt, mainVarsButPc, serverVars
<1>2. AtKeyboard /\ prompt_sd = "open" /\ Without(down, {"COMMERROR", "EOF", "RST"})
    BY <1>1 DEF SessionInv, InSession, Leaving, AskedMain, AskedServer, Answered, Told
<1> QED  BY <1>1, <1>2 DEF writeToMain

LEMMA RequestSession ==
    ASSUME ThreadInv, SessionInv, smooth, AtWork, NEW r \in Asking(serves), Asks(r, "read"),
           toPrompt' \in {toPrompt, << >>}
    PROVE  SessionInv'
<1>1. /\ AtKeyboard /\ prompt_sd = "open" /\ toMain' = Append(toMain, r) /\ ppc' = "read"
      /\ Without(down, {"COMMERROR", "EOF", "RST"})
      /\ UNCHANGED <<page, prompt_sd, serves, up, down, smooth>>
    BY AsksSession
<1>2. EndsWith(toMain', r) /\ (serves # "room" => Len(toMain') = 1)
  <2>1. EndsWith(toMain', r) /\ Len(toMain') = Len(toMain) + 1
      BY <1>1, EndsWithAppend DEF AtKeyboard, Guesses
  <2>2. toMain = << >> => Len(toMain) + 1 = 1
      OBVIOUS
  <2> QED  BY <1>1, <2>1, <2>2 DEF AtKeyboard, Guesses
<1>3. Waiting'
  <2>1. Without(<< >>, Modes \ {"DISCONNECT"})
      BY DEF Without
  <2> QED  BY <1>1, <2>1 DEF AtKeyboard, Waiting
<1>4. AskedMain'
    BY <1>1, <1>2, <1>3 DEF AskedMain, AtKeyboard, PageFits, PageOf, Asking, Guesses
<1> QED  BY <1>1, <1>4 DEF SessionInv, InSession

LEMMA GuessSession ==
    ASSUME ThreadInv, SessionInv, smooth, AtWork, page = "GUESSSKIP", NEW r \in Async,
           Asks(r, "lock"), UNCHANGED toPrompt
    PROVE  SessionInv'
<1>1. /\ AtKeyboard /\ prompt_sd = "open" /\ toMain' = Append(toMain, r) /\ ppc' = "lock"
      /\ Without(down, {"COMMERROR", "EOF", "RST"})
      /\ UNCHANGED <<page, prompt_sd, serves, up, down, smooth>>
    BY AsksSession
<1>2. serves = "room"
    BY <1>1, PageIs DEF AtKeyboard, ThreadInv
<1>3. Guesses(toMain)'
    BY <1>1, <1>2, AppendFacts DEF AtKeyboard, Guesses
<1>4. AtKeyboard'
    BY <1>1, <1>3 DEF AtKeyboard, PageFits, PageOf, Guesses, Waiting
<1> QED  BY <1>1, <1>4 DEF SessionInv, InSession

LEMMA LeavesSession ==
    ASSUME ThreadInv, SessionInv, smooth, AtWork, page \in {"CONNECTION", "LOGIN"}, NEW f,
           Leaves(f)
    PROVE  SessionInv'
<1>1. /\ ppc = "line" /\ ppc' = "final" /\ UNCHANGED <<toMain, up, down, serves>>
    BY DEF Leaves, PromptRuns, PromptAt, serverVars
<1>2. AtKeyboard /\ Without(down, {"COMMERROR", "EOF", "RST"})
    BY <1>1 DEF SessionInv, InSession, Leaving, AskedMain, AskedServer, Answered, Told
<1>3. serves # "room"
    BY <1>2 DEF AtKeyboard, PageFits, PageOf
<1>4. toMain = << >> /\ up = << >> /\ << >> \in Seq(Farewells)
    BY <1>2, <1>3 DEF AtKeyboard, Guesses
<1> QED  BY <1>1, <1>2, <1>4 DEF SessionInv, Leaving

LEMMA PromptSession ==
    ASSUME ThreadInv, SessionInv, Prompt, smooth', AtWork'
    PROVE  SessionInv'
<1>1. AtWork /\ smooth /\ ~cancel
  <2>1. mpc' = mpc \/ mpc' = "killed"
      BY DEF Prompt, ReadsMode, LocksInput, UserTypes, NeedsMore, promptConnection, promptLogin,
             promptHomepage, promptRoom, Asks, writeToMain, Leaves, SaysFarewell, PromptEnds,
             PromptDies, mainVars
  <2>2. ~ReadsMode => smooth' = smooth
      BY DEF Prompt, LocksInput, UserTypes, NeedsMore, promptConnection, promptLogin,
             promptHomepage, promptRoom, Asks, Leaves, SaysFarewell, PromptEnds,
             PromptDies, serverVars
  <2>3. ReadsMode => smooth
      BY WireFacts DEF ReadsMode, ThreadInv
  <2> QED  BY <2>1, <2>2, <2>3 DEF AtWork, ThreadInv, FarewellInv
<1>2. CASE ReadsMode
    BY <1>1, <1>2, ReadsModeSession
<1>3. CASE LocksInput \/ UserTypes \/ NeedsMore
  <2>1. /\ ppc \in {"lock", "typing", "line"} /\ ppc' \in {"lock", "typing", "line"}
        /\ UNCHANGED <<prompt_sd, page, toPrompt, toMain, serves, up, down>>
      BY <1>3 DEF LocksInput, UserTypes, NeedsMore, PromptRuns, PromptAt, mainVars, serverVars
  <2>2. AtKeyboard /\ prompt_sd = "open" /\ Without(down, {"COMMERROR", "EOF", "RST"})
      BY <1>1, <2>1 DEF SessionInv, InSession, Leaving, AskedMain, AskedServer, Answered, Told
  <2>3. AtKeyboard'
      BY <2>1, <2>2 DEF AtKeyboard, PageFits, PageOf, Guesses, Waiting
  <2> QED  BY <2>1, <2>2, <2>3 DEF SessionInv, InSession
<1>4. (PageFits /\ ClientTypeOK) \/ ppc # "line"
    BY <1>1 DEF SessionInv, InSession, Leaving, AskedMain, AskedServer, Answered, Told, AtKeyboard,
                ThreadInv
<1>5. PromptRuns("line") => PageFits /\ ClientTypeOK
    BY <1>4 DEF PromptRuns, PromptAt
<1>6. CASE promptConnection
  <2>1. serves = "nobody" \/ \A r, next : ~Asks(r, next)
      BY <1>5, <1>6, PageIs DEF promptConnection, Asks
  <2> QED  BY <1>1, <1>6, <2>1, RequestSession, LeavesSession DEF promptConnection, Asking
<1>7. CASE promptLogin
  <2>1. serves = "login" \/ \A r, next : ~Asks(r, next)
      BY <1>5, <1>7, PageIs DEF promptLogin, Asks
  <2> QED  BY <1>1, <1>7, <2>1, RequestSession, LeavesSession DEF promptLogin, Asking
<1>8. CASE promptHomepage
  <2>1. serves = "home"
      BY <1>5, <1>8, PageIs DEF promptHomepage, Asks
  <2> QED  BY <1>1, <1>8, <2>1, RequestSession DEF promptHomepage, Asking
<1>9. CASE promptRoom
  <2>1. serves = "room" /\ page = "GUESSSKIP"
      BY <1>5, <1>9, PageIs DEF promptRoom, Asks
  <2> QED  BY <1>1, <1>9, <2>1, RequestSession, GuessSession DEF promptRoom, Asking, Async
<1>10. CASE SaysFarewell
  <2>1. /\ ppc = "final" /\ ppc' = "sleep" /\ writeToMain(farewell)
        /\ UNCHANGED <<up, down>>
      BY <1>10 DEF SaysFarewell, PromptRuns, PromptAt, serverVars
  <2>2. Leaving /\ Without(down, {"COMMERROR", "EOF", "RST"}) /\ farewell \in Farewells
      BY <1>1, <2>1 DEF SessionInv, InSession, AtKeyboard, AskedMain, AskedServer, Answered, Told,
                        ThreadInv, ClientTypeOK
  <2>3. toMain' \in Seq(Farewells)
      BY <2>1, <2>2 DEF writeToMain, Leaving
  <2> QED  BY <2>1, <2>2, <2>3 DEF SessionInv, Leaving
<1>11. CASE PromptEnds
  <2>1. /\ ppc = "sleep" /\ ppc' = "ended" /\ UNCHANGED <<toMain, up, down>>
      BY <1>11 DEF PromptEnds, PromptRuns, PromptAt, serverVars
  <2>2. Leaving /\ Without(down, {"COMMERROR", "EOF", "RST"})
      BY <1>1, <2>1 DEF SessionInv, InSession, AtKeyboard, AskedMain, AskedServer, Answered, Told
  <2> QED  BY <2>1, <2>2 DEF SessionInv, Leaving
<1>12. ~PromptDies
    BY <1>1 DEF PromptDies
<1> QED  BY <1>2, <1>3, <1>6, <1>7, <1>8, <1>9, <1>10, <1>11, <1>12 DEF Prompt

(* The server's answer to a request leads the prompt to the page it then       *)
(* serves.                                                                     *)
LEMMA RepliesFit ==
    ASSUME ClientTypeOK, PageFits, NEW r, r \in Asking(serves) \cap Requests,
           NEW a \in Replies(serves, r), a[2] = << >> => serves = "room"
    PROVE  \E sig \in AnswerSignals :
             /\ a[2] \in {<<sig>>, <<"LISTMORE", sig>>}
             /\ (IF NewMode(sig) = "RETRY" THEN page ELSE NewMode(sig)) = PageOf(a[1])
<1>0. {"LOGINOK", "HOMEPAGEOK", "ROOMOK", "LISTOK", "REFUSED"} \subseteq AnswerSignals
    BY DEF AnswerSignals
<1>1. serves \in {"nobody", "login", "home", "room"}
    BY PageIs
<1>2. page = PageOf(serves)
    BY DEF PageFits
<1>3. CASE serves = "nobody"
    BY <1>3 DEF Asking, Requests, LoginRequests, HomeRequests, RoomRequests
<1>4. CASE serves = "login"
  <2>1. a \in {<<"home", <<"HOMEPAGEOK">> >>, <<"login", <<"REFUSED">> >>,
               <<"login", <<"LOGINOK">> >>}
      BY <1>4 DEF Asking, LoginRequests, Requests, HomeRequests, RoomRequests, Replies
  <2>2. CASE a = <<"home", <<"HOMEPAGEOK">> >>
    <3>1. "HOMEPAGEOK" \in AnswerSignals
        BY <1>0
    <3> QED  BY <3>1, <2>2 DEF NewMode, PageOf
  <2>3. CASE a = <<"login", <<"REFUSED">> >>
    <3>1. "REFUSED" \in AnswerSignals
        BY <1>0
    <3> QED  BY <3>1, <1>2, <1>4, <2>3 DEF NewMode
  <2>4. CASE a = <<"login", <<"LOGINOK">> >>
    <3>1. "LOGINOK" \in AnswerSignals
        BY <1>0
    <3> QED  BY <3>1, <2>4 DEF NewMode, PageOf
  <2> QED  BY <2>1, <2>2, <2>3, <2>4
<1>5. CASE serves = "home"
  <2>1. a \in {<<"room", <<"ROOMOK">> >>, <<"home", << >> >>, <<"home", <<"REFUSED">> >>,
               <<"home", <<"LISTOK">> >>, <<"home", <<"LISTMORE", "LISTOK">> >>,
               <<"login", <<"LOGINOK">> >>}
    <3>1. r \in {"LOGOUT", "CREATEROOM", "JOINROOM", "LISTROOM"}
        BY <1>5 DEF Asking, HomeRequests, Requests, LoginRequests, RoomRequests
    <3> QED  BY <1>5, <3>1 DEF Replies
  <2>2. CASE a = <<"room", <<"ROOMOK">> >>
    <3>1. "ROOMOK" \in AnswerSignals
        BY <1>0
    <3> QED  BY <3>1, <2>2 DEF NewMode, PageOf
  <2>3. CASE a = <<"home", <<"REFUSED">> >>
    <3>1. "REFUSED" \in AnswerSignals
        BY <1>0
    <3> QED  BY <3>1, <1>2, <1>5, <2>3 DEF NewMode
  <2>4. CASE a = <<"home", <<"LISTOK">> >> \/ a = <<"home", <<"LISTMORE", "LISTOK">> >>
    <3>1. "LISTOK" \in AnswerSignals
        BY <1>0
    <3> QED  BY <3>1, <1>2, <1>5, <2>4 DEF NewMode
  <2>5. CASE a = <<"login", <<"LOGINOK">> >>
    <3>1. "LOGINOK" \in AnswerSignals
        BY <1>0
    <3> QED  BY <3>1, <2>5 DEF NewMode, PageOf
  <2>6. a # <<"home", << >> >>
      BY <1>5
  <2> QED  BY <2>1, <2>2, <2>3, <2>4, <2>5, <2>6
<1>6. CASE serves = "room"
  <2>1. a = <<"home", <<"HOMEPAGEOK">> >>
      BY <1>6 DEF Asking, Replies
  <2>2. "HOMEPAGEOK" \in AnswerSignals
      BY <1>0
  <2> QED  BY <2>1, <2>2 DEF NewMode, PageOf
<1> QED  BY <1>1, <1>3, <1>4, <1>5, <1>6

(* An answer is written behind signals that are none. *)
LEMMA AnswerWritten ==
    ASSUME ClientTypeOK, Without(down, AnswerSignals),
           Without(down, {"COMMERROR", "EOF", "RST"}), NEW sig \in AnswerSignals, NEW t,
           t \in {<<sig>>, <<"LISTMORE", sig>>}
    PROVE  \E i \in 1 .. Len(down \o t) :
             /\ OneOf(down \o t, AnswerSignals, i) /\ (down \o t)[i] = sig
             /\ Without(down \o t, {"COMMERROR", "EOF", "RST"})
<1>1. down \in Seq(Signals) /\ sig \in Signals /\ "LISTMORE" \in Signals
    BY WireFacts DEF AnswerSignals, Signals
<1>2. sig \notin {"COMMERROR", "EOF", "RST"} /\ "LISTMORE" \notin AnswerSignals
    BY DEF AnswerSignals
<1> DEFINE d == Append(down, "LISTMORE")
<1>3. CASE t = <<sig>>
  <2>1. down \o t = Append(down, sig)
      BY <1>1, <1>3
  <2>2. /\ OneOf(Append(down, sig), AnswerSignals, Len(down) + 1)
        /\ Append(down, sig)[Len(down) + 1] = sig
        /\ Without(Append(down, sig), {"COMMERROR", "EOF", "RST"})
      BY <1>1, <1>2, AppendFacts
  <2> QED  BY <2>1, <2>2 DEF OneOf
<1>4. CASE t = <<"LISTMORE", sig>>
  <2>1. down \o t = Append(d, sig)
      BY <1>1, <1>4
  <2>2. /\ d \in Seq(Signals) /\ Without(d, AnswerSignals)
        /\ Without(d, {"COMMERROR", "EOF", "RST"})
    <3>1. "LISTMORE" \notin {"COMMERROR", "EOF", "RST"}
        OBVIOUS
    <3> QED  BY <1>1, <1>2, <3>1, AppendFacts
  <2> HIDE DEF d
  <2>3. /\ OneOf(Append(d, sig), AnswerSignals, Len(d) + 1)
        /\ Append(d, sig)[Len(d) + 1] = sig
        /\ Without(Append(d, sig), {"COMMERROR", "EOF", "RST"})
      BY <1>1, <1>2, <2>2, AppendFacts
  <2> QED  BY <2>1, <2>3 DEF OneOf
<1> QED  BY <1>3, <1>4

LEMMA AnswersSession ==
    ASSUME ThreadInv, SessionInv, Answers, smooth'
    PROVE  SessionInv'
<1>1. /\ AtWork /\ up # << >>
      /\ UNCHANGED <<prompt_sd, ppc, page, toPrompt, toMain>>
    BY DEF Answers, ServerRuns, AtWork, mainVars, promptVars
<1>2. PICK a \in Replies(serves, Head(up)), k \in Taken(up) :
          /\ serves' = a[1] /\ down' = down \o a[2]
          /\ up' = SubSeq(up, k + 1, Len(up))
          /\ smooth' = (smooth /\ k = 1 /\ (a[2] = << >> => serves = "room"))
    BY DEF Answers
<1>3. /\ smooth /\ (a[2] = << >> => serves = "room")
      /\ ClientTypeOK /\ down \in Seq(Signals) /\ up \in Seq(Requests \cup Farewells)
      /\ up' = Rest(up)
  <2>1. /\ smooth /\ (a[2] = << >> => serves = "room")
        /\ ClientTypeOK /\ down \in Seq(Signals) /\ up \in Seq(Requests \cup Farewells)
      BY <1>2, WireFacts DEF ThreadInv
  <2>2. k = 1
      BY <1>2
  <2> QED  BY <1>2, <2>1, <2>2 DEF Rest
<1>4. Without(down, {"COMMERROR", "EOF", "RST"}) /\ InSession /\ prompt_sd = "open"
    BY <1>1, <1>3 DEF SessionInv, Leaving, InSession
<1>5. CASE serves = "room" /\ Head(up) \in Async
  <2>1. serves' = "room" /\ down' = down
    <3>1. a = <<"room", << >> >>
        BY <1>5 DEF Replies, Async
    <3> QED  BY <1>2, <1>3, <3>1
  <2>2. CASE (AtKeyboard \/ AskedMain) /\ up \in Seq(Async)
    <3>1. Guesses(up)'
        BY <1>1, <1>3, <2>1, <2>2, NoGuesses DEF Guesses
    <3>2. AtKeyboard => AtKeyboard'
        BY <1>1, <1>5, <2>1, <3>1 DEF AtKeyboard, PageFits, PageOf, Guesses, Waiting
    <3>3. AskedMain => AskedMain'
        BY <1>1, <1>5, <2>1, <3>1 DEF AskedMain, PageFits, PageOf, Asking, Waiting
    <3> QED  BY <1>1, <1>4, <2>1, <2>2, <3>2, <3>3 DEF SessionInv, InSession
  <2>3. CASE AskedServer
    <3>1. PICK x \in Asking(serves) \cap Requests : EndsWith(up, x)
        BY <2>3 DEF AskedServer
    <3>2. x \notin Async
        BY <1>5, <3>1 DEF Asking, Async
    <3>3. EndsWith(Rest(up), x)
        BY <1>3, <1>5, <3>1, <3>2, EndsWithRest
    <3>4. AskedServer'
        BY <1>1, <1>3, <1>5, <2>1, <2>3, <3>1, <3>3 DEF AskedServer, PageFits, PageOf, Asking, Waiting
    <3> QED  BY <1>1, <1>4, <2>1, <3>4 DEF SessionInv, InSession
  <2> QED  BY <1>1, <1>4, <2>2, <2>3 DEF InSession, AtKeyboard, AskedMain, Answered, Told, Guesses
<1>6. CASE ~(serves = "room" /\ Head(up) \in Async)
  <2>1. AskedServer
    <3>1. ASSUME Guesses(up) PROVE FALSE
        BY <1>1, <1>6, <3>1, NoGuesses DEF Guesses
    <3> QED  BY <1>1, <1>4, <3>1 DEF InSession, AtKeyboard, AskedMain, Answered, Told
  <2>2. PICK x \in Asking(serves) \cap Requests : EndsWith(up, x)
      BY <2>1 DEF AskedServer
  <2>3. Head(up) = x /\ up' = << >>
      BY <1>3, <1>6, <2>1, <2>2, EndsWithRest DEF AskedServer
  <2>4. /\ ppc = "read" /\ PageFits /\ toMain = << >>
        /\ Without(down, AnswerSignals) /\ Waiting
      BY <2>1 DEF AskedServer
  <2>5. PICK sig \in AnswerSignals :
            /\ a[2] \in {<<sig>>, <<"LISTMORE", sig>>}
            /\ (IF NewMode(sig) = "RETRY" THEN page ELSE NewMode(sig)) = PageOf(a[1])
      BY <1>2, <1>3, <2>2, <2>3, <2>4, RepliesFit
  <2>6. PICK i \in 1 .. Len(down') :
            /\ OneOf(down', AnswerSignals, i) /\ down'[i] = sig
            /\ Without(down', {"COMMERROR", "EOF", "RST"})
      BY <1>2, <1>3, <1>4, <2>4, <2>5, AnswerWritten
  <2>7. ModeFits(NewMode(down[i]))'
      BY <1>1, <1>2, <2>5, <2>6 DEF ModeFits, PageOf, NewMode
  <2>8. Answered'
      BY <1>1, <2>3, <2>4, <2>6, <2>7 DEF Answered, Waiting
  <2> QED  BY <1>1, <1>4, <2>6, <2>8 DEF SessionInv, InSession
<1> QED  BY <1>5, <1>6

LEMMA ServerSession ==
    ASSUME ThreadInv, SessionInv, Server, smooth'
    PROVE  SessionInv'
<1>1. /\ AtWork /\ UNCHANGED <<prompt_sd, ppc, page, toPrompt, toMain>>
    BY ServerFrame DEF AtWork, mainVars, promptVars
<1>2. /\ ClientTypeOK /\ down \in Seq(Signals) /\ toPrompt \in Seq(Modes) /\ page \in Pages
    BY WireFacts DEF ThreadInv
<1>3. CASE Answers
    BY <1>3, AnswersSession
<1>4. CASE Greets
  <2>1. /\ serves = "new" /\ serves' = "login" /\ down' = Append(down, "LOGINOK")
        /\ UNCHANGED <<up, smooth>>
      BY <1>4 DEF Greets, ServerRuns
  <2>2. Without(down, {"COMMERROR", "EOF", "RST"}) /\ (InSession \/ Leaving)
      BY <1>1, <2>1 DEF SessionInv
  <2>3. Without(down', {"COMMERROR", "EOF", "RST"})
      BY <1>2, <2>1, <2>2, AppendFacts DEF Signals
  <2>4. CASE Leaving
      BY <1>1, <2>1, <2>3, <2>4 DEF Leaving, SessionInv
  <2>5. CASE InSession
    <3>1. "none" \notin Pages \cup Modes
        BY DEF Pages, Modes
    <3>2. ~PageFits
        BY <1>2, <2>1, <3>1 DEF PageFits, PageOf
    <3>3. ~Told
        BY <1>2, <2>1, <3>1 DEF Told, ModeFits, PageOf
    <3>4. \A i : OneOf(down, AnswerSignals, i) => ~ModeFits(NewMode(down[i]))
      <4>1. ASSUME NEW i, OneOf(down, AnswerSignals, i), ModeFits(NewMode(down[i])) PROVE FALSE
        <5>1. down[i] \in AnswerSignals
            BY <4>1 DEF OneOf
        <5>2. NewMode(down[i]) \in Pages \cup {"RETRY"}
            BY <5>1 DEF NewMode, AnswerSignals, Pages
        <5> QED  BY <1>2, <2>1, <3>1, <4>1, <5>2 DEF ModeFits, PageOf, Pages
      <4> QED  BY <4>1
    <3>5. Answered /\ down = << >> /\ prompt_sd = "open"
        BY <2>5, <3>2, <3>3, <3>4 DEF InSession, AtKeyboard, AskedMain, AskedServer, Answered
    <3>6. down' = <<"LOGINOK">>
        BY <2>1, <3>5
    <3>7. /\ Len(down') = 1 /\ down'[1] = "LOGINOK"
          /\ OneOf(down', AnswerSignals, 1)
        BY <3>6 DEF OneOf, AnswerSignals
    <3>8. ModeFits(NewMode(down[1]))'
        BY <2>1, <3>7 DEF ModeFits, PageOf, NewMode
    <3>9. Answered'
        BY <1>1, <2>1, <3>5, <3>7, <3>8 DEF Answered, Waiting
    <3> QED  BY <1>1, <2>3, <3>5, <3>9 DEF SessionInv, InSession
  <2> QED  BY <2>2, <2>4, <2>5
<1>5. CASE RoomSpeaks
  <2>1. PICK sig \in TurnSignals : down' = Append(down, sig)
      BY <1>5 DEF RoomSpeaks
  <2>2. /\ serves = "room" /\ UNCHANGED <<serves, up, smooth>>
        /\ Without(down, {"COMMERROR", "EOF", "RST"}) /\ (InSession \/ Leaving)
      BY <1>1, <1>5 DEF RoomSpeaks, ServerRuns, SessionInv
  <2>3. sig \in Signals /\ sig \notin AnswerSignals /\ sig \notin {"COMMERROR", "EOF", "RST"}
      BY DEF TurnSignals, Signals, AnswerSignals
  <2>4. /\ Without(down', {"COMMERROR", "EOF", "RST"})
        /\ Without(down, AnswerSignals) => Without(down', AnswerSignals)
        /\ \A i : OneOf(down, AnswerSignals, i) => OneOf(down', AnswerSignals, i)
        /\ \A i \in 1 .. Len(down) : down'[i] = down[i] /\ i \in 1 .. Len(down')
      BY <1>2, <2>1, <2>2, <2>3, AppendFacts
  <2>5. AtKeyboard => AtKeyboard'
      BY <1>1, <2>2, <2>4 DEF AtKeyboard, PageFits, PageOf, Guesses, Waiting
  <2>6. AskedMain => AskedMain'
      BY <1>1, <2>2, <2>4 DEF AskedMain, PageFits, PageOf, Guesses, Waiting
  <2>7. AskedServer => AskedServer'
      BY <1>1, <2>2, <2>4 DEF AskedServer, PageFits, PageOf, Waiting
  <2>8. ASSUME Answered PROVE Answered'
    <3>1. PICK i \in 1 .. Len(down) :
              OneOf(down, AnswerSignals, i) /\ ModeFits(NewMode(down[i]))
        BY <2>2, <2>8 DEF Answered
    <3>2. ModeFits(NewMode(down[i]))'
        BY <1>1, <2>2, <2>4, <3>1 DEF ModeFits, PageOf, NewMode
    <3> QED  BY <1>1, <2>2, <2>4, <2>8, <3>1, <3>2 DEF Answered, Waiting
  <2>9. Told => Told'
      BY <1>1, <2>2, <2>4 DEF Told, ModeFits, PageOf
  <2>10. Leaving => Leaving'
      BY <1>1, <2>2 DEF Leaving
  <2> QED  BY <1>1, <2>2, <2>4, <2>5, <2>6, <2>7, <2>8, <2>9, <2>10 DEF SessionInv, InSession
<1>6. ~RoomCloses /\ ~MessageIsCut /\ ~ServerGoes
    BY DEF RoomCloses, MessageIsCut, ServerGoes
<1> QED  BY <1>3, <1>4, <1>5, <1>6 DEF Server

(* What a step leaves as it is. *)
LEMMA SessionSame ==
    ASSUME SessionInv, smooth, AtWork,
           UNCHANGED <<prompt_sd, ppc, page, toPrompt, toMain, serves, up, down>>
    PROVE  SessionInv'
<1>1. Without(down, {"COMMERROR", "EOF", "RST"}) /\ (InSession \/ Leaving)
    BY DEF SessionInv
<1>2. AtKeyboard => AtKeyboard'
    BY DEF AtKeyboard, PageFits, PageOf, Guesses, Waiting
<1>3. AskedMain => AskedMain'
    BY DEF AskedMain, PageFits, PageOf, Guesses, Waiting, Asking
<1>4. AskedServer => AskedServer'
    BY DEF AskedServer, PageFits, PageOf, Waiting, Asking
<1>5. Answered => Answered'
    BY DEF Answered, ModeFits, PageOf, NewMode, Waiting
<1>6. Told => Told'
    BY DEF Told, ModeFits, PageOf
<1>7. Leaving => Leaving'
    BY DEF Leaving
<1> QED  BY <1>1, <1>2, <1>3, <1>4, <1>5, <1>6, <1>7 DEF SessionInv, InSession

(* The S_DISCONNECT of a poll that timed out asks nothing of the prompt. *)
LEMMA PollTimesOutSession ==
    ASSUME ThreadInv, SessionInv, PollTimesOut, smooth
    PROVE  SessionInv'
<1>1. /\ AtWork /\ toPrompt' = Append(toPrompt, "DISCONNECT")
      /\ UNCHANGED <<prompt_sd, ppc, page, toMain, serves, up, down>>
    BY DEF PollTimesOut, AtWork, mainVars, promptVars, serverVars
<1>2. /\ Without(down, {"COMMERROR", "EOF", "RST"}) /\ (InSession \/ Leaving)
      /\ toPrompt \in Seq(Modes) /\ "DISCONNECT" \in Modes
    BY <1>1, WireFacts DEF SessionInv, ThreadInv, Modes
<1>3. "DISCONNECT" \notin Modes \ {"DISCONNECT"}
    OBVIOUS
<1>4. /\ Waiting => Waiting'
      /\ \A i : OneOf(toPrompt, Modes \ {"DISCONNECT"}, i)
                  => OneOf(toPrompt', Modes \ {"DISCONNECT"}, i)
      /\ \A i \in 1 .. Len(toPrompt) : toPrompt'[i] = toPrompt[i]
    BY <1>1, <1>2, <1>3, AppendFacts DEF Waiting
<1>5. AtKeyboard => AtKeyboard'
    BY <1>1, <1>4 DEF AtKeyboard, PageFits, PageOf, Guesses
<1>6. AskedMain => AskedMain'
    BY <1>1, <1>4 DEF AskedMain, PageFits, PageOf, Guesses, Asking
<1>7. AskedServer => AskedServer'
    BY <1>1, <1>4 DEF AskedServer, PageFits, PageOf, Asking
<1>8. Answered => Answered'
    BY <1>1, <1>4 DEF Answered, ModeFits, PageOf, NewMode
<1>9. ASSUME Told PROVE Told'
  <2>1. PICK i \in 1 .. Len(toPrompt) :
            OneOf(toPrompt, Modes \ {"DISCONNECT"}, i) /\ ModeFits(toPrompt[i])
      BY <1>9 DEF Told
  <2>2. /\ OneOf(toPrompt', Modes \ {"DISCONNECT"}, i) /\ toPrompt'[i] = toPrompt[i]
        /\ i \in 1 .. Len(toPrompt')
      BY <1>4, <2>1 DEF OneOf
  <2>3. ModeFits(toPrompt[i])'
      BY <1>1, <2>1, <2>2 DEF ModeFits, PageOf
  <2> QED  BY <1>1, <1>9, <2>2, <2>3 DEF Told
<1>10. Leaving => Leaving'
    BY <1>1 DEF Leaving
<1> QED  BY <1>1, <1>2, <1>5, <1>6, <1>7, <1>8, <1>9, <1>10 DEF SessionInv, InSession

(* A new session: the prompt is told to serve the connection page. *)
Fresh ==
    /\ ppc = "first" /\ page = "CONNECTION" /\ prompt_sd = "open"
    /\ toPrompt = <<"CONNECTION">> /\ toMain = << >>
    /\ serves = "nobody" /\ up = << >> /\ down = << >>

LEMMA FreshSession == Fresh => SessionInv
<1> SUFFICES ASSUME Fresh PROVE SessionInv
    OBVIOUS
<1> USE DEF Fresh
<1>1. Len(toPrompt) = 1 /\ toPrompt[1] = "CONNECTION"
    OBVIOUS
<1>2. OneOf(toPrompt, Modes \ {"DISCONNECT"}, 1) /\ 1 \in 1 .. Len(toPrompt)
    BY <1>1 DEF OneOf, Modes, Pages
<1>3. ModeFits(toPrompt[1])
    BY <1>1 DEF ModeFits, PageOf
<1>4. \A T : Without(down, T)
    BY DEF Without
<1>5. Told
    BY <1>2, <1>3, <1>4 DEF Told
<1> QED  BY <1>4, <1>5 DEF SessionInv, InSession

LEMMA RestartSession ==
    ASSUME Restart, AtWork'
    PROVE  SessionInv'
<1>1. Fresh'
    BY DEF Restart, FreshMain, FreshPrompt, AtWork, Fresh
<1>2. (Fresh => SessionInv)'
    BY FreshSession, PTL
<1> QED  BY <1>1, <1>2

(* A disturbed session stays one until the application starts again. *)
LEMMA SmoothStays ==
    ASSUME ClientTypeOK, Next, smooth', ~Restart
    PROVE  smooth
<1>1. CASE PromptSpeaks \/ ServerSpeaks \/ ReadsMode
    BY <1>1, WireFacts DEF PromptSpeaks, ServerSpeaks, ReadsMode, serverVars
<1>2. CASE Main /\ ~(PromptSpeaks \/ ServerSpeaks)
    BY <1>2 DEF Main, PollReturns, PollFails, PollTimesOut, SlotFails, LockForClosing,
                deleteLocalSocket, CancelPrompt, UnlockAfterClosing, serverVars
<1>3. CASE Prompt /\ ~ReadsMode
    BY <1>3 DEF Prompt, LocksInput, UserTypes, NeedsMore, promptConnection, promptLogin,
                promptHomepage, promptRoom, Asks, Leaves, SaysFarewell, PromptEnds,
                PromptDies, serverVars
<1>4. CASE Server
    BY <1>4, WireFacts DEF Server, Greets, Answers, RoomSpeaks, RoomCloses, MessageIsCut, ServerGoes
<1> QED  BY <1>1, <1>2, <1>3, <1>4 DEF Next

LEMMA SessionStep == ThreadInv /\ SessionInv /\ [Next]_vars => SessionInv'
<1> SUFFICES ASSUME ThreadInv, SessionInv, [Next]_vars, smooth', AtWork' PROVE SessionInv'
    BY DEF SessionInv
<1>1. CASE UNCHANGED vars
  <2>1. /\ smooth /\ AtWork
        /\ UNCHANGED <<prompt_sd, ppc, page, toPrompt, toMain, serves, up, down>>
      BY <1>1 DEF vars, mainVars, promptVars, serverVars, AtWork
  <2> QED  BY <2>1, SessionSame
<1>2. CASE Restart
    BY <1>2, RestartSession
<1>3. CASE PromptSpeaks
    BY <1>3, PromptSpeaksSession
<1>4. CASE ServerSpeaks
    BY <1>4, ServerSpeaksSession
<1>5. CASE Prompt
    BY <1>5, PromptSession
<1>6. CASE Server
    BY <1>6, ServerSession
<1>7. CASE PollReturns
  <2>1. /\ smooth /\ AtWork
        /\ UNCHANGED <<prompt_sd, ppc, page, toPrompt, toMain, serves, up, down>>
      BY <1>7 DEF PollReturns, promptVars, serverVars, AtWork
  <2> QED  BY <2>1, SessionSame
<1>8. CASE PollTimesOut
  <2>1. smooth
      BY <1>8 DEF PollTimesOut, serverVars
  <2> QED  BY <1>8, <2>1, PollTimesOutSession
<1>9. ~PollFails /\ ~LockForClosing /\ ~deleteLocalSocket /\ ~CancelPrompt
      /\ ~UnlockAfterClosing /\ \A fd : ~SlotFails(fd)
    BY DEF PollFails, LockForClosing, deleteLocalSocket, CancelPrompt, UnlockAfterClosing,
           SlotFails, Closing, AtWork
<1> QED  BY <1>1, <1>2, <1>3, <1>4, <1>5, <1>6, <1>7, <1>8, <1>9 DEF Next, Main

(* The requests that the token allows on their way are those of the page. *)
LEMMA SessionRequestsFit ==
    ASSUME ThreadInv, SessionInv, AtWork
    PROVE  RequestsFitPage
<1> SUFFICES ASSUME smooth PROVE RequestsFitPage
    BY DEF RequestsFitPage
<1>1. ClientTypeOK /\ up \in Seq(Requests \cup Farewells) /\ (InSession \/ Leaving)
    BY WireFacts DEF SessionInv, ThreadInv
<1>2. ASSUME up = << >> PROVE RequestsFitPage
    BY <1>2 DEF RequestsFitPage
<1>3. ASSUME Guesses(up), up # << >> PROVE RequestsFitPage
  <2>1. serves = "room" /\ \A i \in 1 .. Len(up) : up[i] \in Async
      BY <1>3 DEF Guesses
  <2> QED  BY <2>1 DEF RequestsFitPage, Async, RoomRequests
<1>4. ASSUME AskedServer PROVE RequestsFitPage
  <2>1. PICK x \in Asking(serves) \cap Requests : EndsWith(up, x)
      BY <1>4 DEF AskedServer
  <2>2. /\ up[Len(up)] = x /\ \A i \in 1 .. Len(up) - 1 : up[i] \in Async
        /\ serves # "room" => Len(up) = 1
        /\ serves \in {"nobody", "login", "home", "room"}
      BY <1>1, <1>4, <2>1, PageIs DEF AskedServer, EndsWith
  <2>3. Len(up) \in Nat /\ \A i \in 1 .. Len(up) : i = Len(up) \/ i \in 1 .. Len(up) - 1
      BY <1>1
  <2>4. Len(up) = 1 => \A i \in 1 .. Len(up) : i = Len(up)
      OBVIOUS
  <2>5. /\ serves # "nobody"
        /\ serves = "login" => x \in LoginRequests
        /\ serves = "home" => x \in HomeRequests
        /\ serves = "room" => x \in RoomRequests
      BY <2>1 DEF Asking, Requests, LoginRequests, HomeRequests, RoomRequests
  <2>6. CASE serves = "room"
    <3>1. \A i \in 1 .. Len(up) : up[i] \in RoomRequests
        BY <2>2, <2>3, <2>5, <2>6 DEF RoomRequests, Async
    <3> QED  BY <2>6, <3>1 DEF RequestsFitPage
  <2>7. CASE serves # "room"
    <3>1. \A i \in 1 .. Len(up) : up[i] = x
        BY <2>2, <2>4, <2>7
    <3> QED  BY <2>2, <2>5, <2>7, <3>1 DEF RequestsFitPage
  <2> QED  BY <2>6, <2>7
<1> QED  BY <1>1, <1>2, <1>3, <1>4 DEF InSession, AtKeyboard, AskedMain, Answered, Told, Leaving

(* Once main has left its poll loop nothing more is asked of the server. *)
LEMMA RequestsStay ==
    ASSUME ClientTypeOK, Next, ~AtWork'
    PROVE  UNCHANGED <<up, serves>> \/ up' = << >>
<1>1. CASE PromptSpeaks
  <2>1. Handled("prompt", 0) => AtWork'
      BY DEF Handled, AtWork
  <2>2. \A m : Forward(m) => up' = up
      BY <2>1 DEF Forward
  <2>3. switchPrompt(Head(toMain))
      BY <1>1 DEF PromptSpeaks
  <2> QED  BY <2>1, <2>2, <2>3 DEF switchPrompt
<1>2. CASE Restart
    BY <1>2 DEF Restart
<1>3. CASE Main /\ ~PromptSpeaks /\ ~Restart
    BY <1>3 DEF Main, ServerSpeaks, PollReturns, PollFails, PollTimesOut, SlotFails, LockForClosing,
                deleteLocalSocket, CancelPrompt, UnlockAfterClosing, serverVars
<1>4. CASE Prompt
    BY <1>4 DEF Prompt, ReadsMode, LocksInput, UserTypes, NeedsMore, promptConnection, promptLogin,
                promptHomepage, promptRoom, Asks, Leaves, SaysFarewell, PromptEnds,
                PromptDies, serverVars
<1>5. ~Server
    BY ServerFrame DEF AtWork, mainVars
<1> QED  BY <1>1, <1>2, <1>3, <1>4, <1>5 DEF Next

LEMMA ThreadStep == ThreadInv /\ [Next]_vars => ThreadInv'
<1> QED  BY TypeStep, MutexStep, FarewellStep DEF ThreadInv

LEMMA CStep == CInv /\ [Next]_vars => CInv'
<1> SUFFICES ASSUME CInv, [Next]_vars PROVE CInv'
    OBVIOUS
<1>1. ThreadInv' /\ SessionInv'
    BY ThreadStep, SessionStep DEF CInv
<1>2. CASE AtWork'
  <2>1. (ThreadInv /\ SessionInv /\ AtWork => RequestsFitPage)'
      BY SessionRequestsFit, PTL
  <2> QED  BY <1>1, <1>2, <2>1 DEF CInv
<1>3. CASE ~AtWork' /\ Next
  <2>1. UNCHANGED <<up, serves>> \/ up' = << >>
      BY <1>3, RequestsStay DEF CInv, ThreadInv
  <2>2. up' = << >> => RequestsFitPage'
      BY DEF RequestsFitPage
  <2>3. smooth' /\ ~Restart => smooth
      BY <1>3, SmoothStays DEF CInv, ThreadInv
  <2>4. Restart => up' = << >>
      BY DEF Restart
  <2>5. UNCHANGED <<up, serves>> /\ (smooth' => smooth) => RequestsFitPage'
      BY DEF RequestsFitPage, CInv
  <2>6. RequestsFitPage'
      BY <2>1, <2>2, <2>3, <2>4, <2>5 DEF RequestsFitPage
  <2> QED  BY <1>1, <2>6 DEF CInv
<1>4. CASE UNCHANGED vars
    BY <1>1, <1>4 DEF CInv, RequestsFitPage, vars, serverVars
<1> QED  BY <1>2, <1>3, <1>4

LEMMA CInit == Init => CInv
<1> SUFFICES ASSUME Init PROVE CInv
    OBVIOUS
<1>1. ThreadInv
    BY TypeInit, FarewellInit DEF ThreadInv, MutexInv, Init
<1>2. SessionInv
    BY FreshSession DEF Init, Fresh
<1>3. RequestsFitPage
    BY DEF Init, RequestsFitPage
<1> QED  BY <1>1, <1>2, <1>3 DEF CInv

(* PollSwitches.c:563-590, ThreadService.c.  Whatever answers and turns cross *)
(* it, a request on its way to the server is one of the page the server then  *)
(* serves, in every session that nothing has disturbed.                       *)
THEOREM RequestsFit == Spec => []RequestsFitPage
<1>1. CInv => RequestsFitPage
    BY DEF CInv
<1> QED  BY <1>1, CInit, CStep, PTL DEF Spec

(* Prompt.c:140.  The prompt thread never blocks in its read for a mode that  *)
(* nobody will send: with nothing on its way, it is at the keyboard or        *)
(* leaving.                                                                   *)
THEOREM PromptGetsAnswers == Spec => []PromptIsAnswered
<1>1. CInv => PromptIsAnswered
  <2> SUFFICES ASSUME CInv, smooth, Quiet, serves \notin {"new", "gone"}, ppc = "read" PROVE FALSE
      BY DEF PromptIsAnswered
  <2>1. /\ AtWork /\ toPrompt = << >> /\ toMain = << >> /\ up = << >> /\ down = << >>
      BY DEF Quiet, AtWork
  <2>2. InSession
      BY <2>1 DEF CInv, SessionInv, Leaving
  <2>3. Len(<< >>) = 0 /\ ~(\E i \in 1 .. 0 : TRUE)
      OBVIOUS
  <2>4. ~AtKeyboard /\ ~Told /\ ~Answered
      BY <2>1, <2>3 DEF AtKeyboard, Told, Answered
  <2>5. ~AskedMain /\ ~AskedServer
      BY <2>1, <2>3 DEF AskedMain, AskedServer, EndsWith
  <2> QED  BY <2>2, <2>4, <2>5 DEF InSession
<1> QED  BY <1>1, CInit, CStep, PTL DEF Spec

-----------------------------------------------------------------------------
(* The page of a disturbed session.  Nothing promises the user an answer any  *)
(* more, but the last page that is on its way to him is the one the server    *)
(* serves; or, when a read has swallowed it, the prompt waits for good.       *)
Saying == {"sleep", "ended", "cancelled"}
Last == {"final"} \cup Saying

(* Nobody has left before the prompt has said so. *)
SaidInv ==
    (\E i \in 1 .. Len(toMain) : toMain[i] \in Farewells) \/ prompt_sd = "closed"
        => ppc \in Saying

Orders == {"CONNECTION", "RETRY"}

AtMostOne(s, T) == \A i, j \in 1 .. Len(s) : s[i] \in T /\ s[j] \in T => i = j

(* Before the connection. *)
Alone ==
    /\ up = << >> /\ down = << >> /\ page = "CONNECTION"
    /\ Without(toPrompt, Pages \ {"CONNECTION"})
    /\ \/ ppc \in {"lock", "typing", "line"} /\ toMain = << >> /\ Without(toPrompt, Orders)
       \/ ppc \in {"first", "read"} /\ toMain = << >> /\ AtMostOne(toPrompt, Orders)
       \/ /\ ppc = "read" /\ toMain \in {<<"CONNECTION">>, <<"RETRY">>}
          /\ Without(toPrompt, Orders)
       \/ ppc \in Last /\ toMain \in Seq(Farewells)

(* After it, the connection page is never served again. *)
NotBack ==
    /\ Without(toMain, {"CONNECTION"}) /\ Without(toPrompt, {"CONNECTION"})
    /\ page = "CONNECTION" =>
          /\ up = << >> /\ toMain \in Seq(Farewells) /\ ppc \in {"read"} \cup Last
          /\ Without(toPrompt, {"RETRY"}) /\ Without(down, {"REFUSED", "LISTOK"})

(* The server has not spoken yet. *)
Untold == page = "CONNECTION" /\ Without(toPrompt, Pages) /\ down = << >>

(* The last element of s that is in T is x. *)
LastIs(s, T, x) ==
    /\ x \in T
    /\ \E i \in 1 .. Len(s) : s[i] = x /\ \A j \in 1 .. Len(s) : j > i => s[j] \notin T

Announcing == {"LOGINOK", "HOMEPAGEOK", "ROOMOK"}

SignalOf(where) ==
    CASE where = "login" -> "LOGINOK" [] where = "home" -> "HOMEPAGEOK"
      [] where = "room" -> "ROOMOK" [] OTHER -> "none"

Announced ==
    \/ LastIs(down, Announcing, SignalOf(serves))
    \/ /\ Without(down, Announcing)
       /\ \/ LastIs(toPrompt, Pages, PageOf(serves))
          \/ Without(toPrompt, Pages) /\ page \in {PageOf(serves), "GUESSSKIP"}

Stuck ==
    /\ ppc = "read" /\ toMain = << >> /\ Waiting /\ Without(down, AnswerSignals)
    /\ up \in Seq(Async) /\ (serves # "room" => up = << >>)

Served == {"login", "home", "room"}

PlaceInv ==
    /\ SaidInv
    /\ serves = "nobody" => Alone
    /\ serves # "nobody" => NotBack
    /\ serves = "new" => Untold
    /\ serves \in Served => Announced \/ Stuck \/ ppc \in Last

PageInv == AtWork => PlaceInv

-----------------------------------------------------------------------------
(* How the last element of a set, or the only one, fares in a wire.           *)
LEMMA LastIsAppend ==
    ASSUME NEW S, NEW s \in Seq(S), NEW T, NEW x, NEW y \in S
    PROVE  /\ y \notin T /\ LastIs(s, T, x) => LastIs(Append(s, y), T, x)
           /\ y \in T => LastIs(Append(s, y), T, y)
<1>1. /\ Len(s) \in Nat /\ Len(Append(s, y)) = Len(s) + 1
      /\ \A i \in 1 .. Len(s) : Append(s, y)[i] = s[i]
      /\ Append(s, y)[Len(s) + 1] = y
    BY AppendFacts
<1>2. \A j \in 1 .. Len(s) + 1 : j \in 1 .. Len(s) \/ j = Len(s) + 1
    BY <1>1
<1>3. ASSUME y \notin T, LastIs(s, T, x) PROVE LastIs(Append(s, y), T, x)
  <2>1. PICK i \in 1 .. Len(s) :
            s[i] = x /\ \A j \in 1 .. Len(s) : j > i => s[j] \notin T
      BY <1>3 DEF LastIs
  <2>2. i \in 1 .. Len(s) + 1 /\ Append(s, y)[i] = x
      BY <1>1, <2>1
  <2>3. \A j \in 1 .. Len(s) + 1 : j > i => Append(s, y)[j] \notin T
      BY <1>1, <1>2, <1>3, <2>1
  <2> QED  BY <1>1, <1>3, <2>2, <2>3 DEF LastIs
<1>4. ASSUME y \in T PROVE LastIs(Append(s, y), T, y)
  <2>1. Len(s) + 1 \in 1 .. Len(s) + 1
        /\ \A j \in 1 .. Len(s) + 1 : ~(j > Len(s) + 1)
      BY <1>1
  <2> QED  BY <1>1, <1>4, <2>1 DEF LastIs
<1> QED  BY <1>3, <1>4

(* x is among the first k elements of s, and is not the first. *)
Swallowed(s, k, x) == \E i \in 2 .. Len(s) : i <= k /\ s[i] = x

(* One read takes k elements: the last of T is kept, or it was the first, or  *)
(* it was swallowed with others.                                              *)
LEMMA LastIsRest ==
    ASSUME NEW S, NEW s \in Seq(S), NEW T, NEW x, LastIs(s, T, x), NEW k \in 1 .. Len(s),
           NEW t, t = SubSeq(s, k + 1, Len(s))
    PROVE  LastIs(t, T, x) \/ (Without(t, T) /\ (s[1] = x \/ Swallowed(s, k, x)))
<1> DEFINE n == Len(s)
<1>1. n \in Nat /\ Len(t) = n - k /\ \A i \in 1 .. n - k : t[i] = s[i + k]
    BY RestOfSeq, LenProperties
<1>2. PICK i \in 1 .. n : s[i] = x /\ \A j \in 1 .. n : j > i => s[j] \notin T
    BY DEF LastIs
<1>3. x \in T /\ k \in 1 .. n
    BY DEF LastIs
<1> HIDE DEF n
<1>4. CASE i > k
  <2>1. i - k \in 1 .. n - k /\ (i - k) + k = i
      BY <1>1, <1>2, <1>3, <1>4
  <2>2. t[i - k] = x
      BY <1>1, <1>2, <2>1
  <2>3. \A j \in 1 .. n - k : j > i - k => j + k \in 1 .. n /\ j + k > i
      BY <1>1, <1>2, <1>3
  <2>4. \A j \in 1 .. n - k : j > i - k => t[j] \notin T
      BY <1>1, <1>2, <2>3
  <2> QED  BY <1>1, <1>3, <2>1, <2>2, <2>4 DEF LastIs
<1>5. CASE i <= k
  <2>1. \A j \in 1 .. n - k : j + k \in 1 .. n /\ j + k > i
      BY <1>1, <1>2, <1>3, <1>5
  <2>2. Without(t, T)
    <3>1. \A j \in 1 .. n - k : t[j] \notin T
        BY <1>1, <1>2, <2>1
    <3> QED  BY <1>1, <3>1 DEF Without
  <2>3. i = 1 \/ i \in 2 .. n
      BY <1>1, <1>2
  <2> QED  BY <1>2, <1>5, <2>2, <2>3 DEF n, Swallowed
<1> QED  BY <1>1, <1>2, <1>3, <1>4, <1>5

(* If the only element of T was swallowed, none is left and none was read.    *)
LEMMA OneOfSwallowed ==
    ASSUME NEW S, NEW s \in Seq(S), NEW T, NEW i \in 2 .. Len(s), s[i] \in T,
           NEW j, OneOf(s, T, j), NEW k \in 1 .. Len(s), i <= k,
           NEW t, t = SubSeq(s, k + 1, Len(s))
    PROVE  s[1] \notin T /\ Without(t, T)
<1>1. Len(s) \in Nat /\ Len(t) = Len(s) - k /\ \A l \in 1 .. Len(s) - k : t[l] = s[l + k]
    BY RestOfSeq, LenProperties
<1>2. /\ 1 \in 1 .. Len(s) /\ i \in 1 .. Len(s) /\ 1 # i
      /\ \A l \in 1 .. Len(s) - k : l + k \in 1 .. Len(s) /\ l + k # i
    BY <1>1
<1>3. \A l \in 1 .. Len(s) : s[l] \in T <=> l = i
    BY <1>2 DEF OneOf
<1>4. \A l \in 1 .. Len(s) - k : t[l] \notin T
    BY <1>1, <1>2, <1>3
<1> QED  BY <1>1, <1>2, <1>3, <1>4 DEF Without

(* Where there is at most one of T, the first of them is the last.            *)
LEMMA AtMostOneFacts ==
    ASSUME NEW S, NEW s \in Seq(S), NEW T
    PROVE  /\ Without(s, T) => AtMostOne(s, T)
           /\ \A y \in S : Without(s, T) \/ (AtMostOne(s, T) /\ y \notin T)
                            => AtMostOne(Append(s, y), T)
           /\ \A k \in 1 .. Len(s) : AtMostOne(s, T) =>
                 /\ AtMostOne(SubSeq(s, k + 1, Len(s)), T)
                 /\ s[1] \in T => Without(SubSeq(s, k + 1, Len(s)), T)
<1>1. Without(s, T) => AtMostOne(s, T)
    BY DEF Without, AtMostOne
<1>2. ASSUME NEW y \in S, Without(s, T) \/ (AtMostOne(s, T) /\ y \notin T)
      PROVE  AtMostOne(Append(s, y), T)
  <2>1. /\ Len(s) \in Nat /\ Len(Append(s, y)) = Len(s) + 1
        /\ \A i \in 1 .. Len(s) : Append(s, y)[i] = s[i]
        /\ Append(s, y)[Len(s) + 1] = y
      BY AppendFacts
  <2>2. \A j \in 1 .. Len(s) + 1 : j \in 1 .. Len(s) \/ j = Len(s) + 1
      BY <2>1
  <2>3. CASE Without(s, T)
    <3>1. \A j \in 1 .. Len(s) + 1 : Append(s, y)[j] \in T => j = Len(s) + 1
        BY <2>1, <2>2, <2>3 DEF Without
    <3> QED  BY <2>1, <3>1 DEF AtMostOne
  <2>4. CASE AtMostOne(s, T) /\ y \notin T
    <3>1. \A j \in 1 .. Len(s) + 1 : Append(s, y)[j] \in T => j \in 1 .. Len(s) /\ s[j] \in T
        BY <2>1, <2>2, <2>4
    <3> QED  BY <2>1, <2>4, <3>1 DEF AtMostOne
  <2> QED  BY <1>2, <2>3, <2>4
<1>3. ASSUME NEW k \in 1 .. Len(s), AtMostOne(s, T)
      PROVE  /\ AtMostOne(SubSeq(s, k + 1, Len(s)), T)
             /\ s[1] \in T => Without(SubSeq(s, k + 1, Len(s)), T)
  <2> DEFINE t == SubSeq(s, k + 1, Len(s))
  <2>1. Len(s) \in Nat /\ Len(t) = Len(s) - k /\ \A i \in 1 .. Len(s) - k : t[i] = s[i + k]
      BY RestOfSeq, LenProperties
  <2>2. \A i \in 1 .. Len(s) - k : i + k \in 1 .. Len(s) /\ 1 \in 1 .. Len(s) /\ i + k # 1
      BY <2>1
  <2> HIDE DEF t
  <2>3. \A i, j \in 1 .. Len(s) - k : t[i] \in T /\ t[j] \in T => i + k = j + k
      BY <1>3, <2>1, <2>2 DEF AtMostOne
  <2>4. \A i, j \in 1 .. Len(s) - k : i + k = j + k => i = j
      BY <2>1
  <2>5. AtMostOne(t, T)
      BY <2>1, <2>3, <2>4 DEF AtMostOne
  <2>6. ASSUME s[1] \in T PROVE Without(t, T)
    <3>1. \A i \in 1 .. Len(s) - k : t[i] \notin T
        BY <1>3, <2>1, <2>2, <2>6 DEF AtMostOne
    <3> QED  BY <2>1, <3>1 DEF Without
  <2> QED  BY <2>5, <2>6 DEF t
<1> QED  BY <1>1, <1>2, <1>3

-----------------------------------------------------------------------------
(* The page, step by step. *)
LEMMA PlaceFacts ==
    ASSUME ClientTypeOK, SaidInv, ppc \notin Saying
    PROVE  prompt_sd = "open" /\ Without(toMain, Farewells)
<1> QED  BY DEF ClientTypeOK, SaidInv, Without

LEMMA SaidStep ==
    ASSUME ThreadInv, SaidInv, AtWork, AtWork', Next, ~Restart
    PROVE  SaidInv'
<1>1. ClientTypeOK /\ toMain \in Seq(Messages) /\ ~cancel
    BY WireFacts DEF ThreadInv, FarewellInv
<1>2. CASE PromptSpeaks
  <2>1. /\ toMain # << >> /\ switchPrompt(Head(toMain)) /\ ppc' = ppc
        /\ \E k \in Taken(toMain) : toMain' = Unread(toMain, k)
      BY <1>2 DEF PromptSpeaks, promptVars
  <2>2. Head(toMain) = toMain[1] /\ 1 \in 1 .. Len(toMain)
      BY <1>1, <2>1, RestFacts
  <2>3. prompt_sd' = prompt_sd \/ toMain[1] \in Farewells
      BY <2>1, <2>2 DEF switchPrompt, Farewells
  <2>4. Without(toMain, Farewells) => Without(toMain', Farewells)
      BY <1>1, <2>1, TakenBounds, WithoutRest DEF Unread
  <2> QED  BY <2>1, <2>2, <2>3, <2>4 DEF SaidInv, Without
<1>3. CASE ServerSpeaks \/ Server
    BY <1>3, ServerFrame DEF ServerSpeaks, mainVars, promptVars, SaidInv
<1>4. CASE ReadsMode
    BY <1>4 DEF ReadsMode, mainVars, SaidInv, Saying
<1>5. CASE LocksInput \/ UserTypes \/ NeedsMore \/ PromptEnds
    BY <1>5 DEF LocksInput, UserTypes, NeedsMore, PromptEnds, PromptAt, PromptRuns, mainVars,
                SaidInv, Saying
<1>6. ~PromptDies
    BY <1>1 DEF PromptDies
<1>7. ASSUME NEW r \in Messages \ Farewells, NEW next, Asks(r, next) PROVE SaidInv'
  <2>1. /\ ppc = "line" /\ prompt_sd' = prompt_sd /\ toMain' \in {toMain, Append(toMain, r)}
      BY <1>7 DEF Asks, writeToMain, PromptRuns, PromptAt, mainVarsButPc
  <2>2. prompt_sd = "open" /\ Without(toMain, Farewells)
      BY <1>1, <2>1, PlaceFacts DEF Saying
  <2>3. Without(toMain', Farewells)
      BY <1>1, <1>7, <2>1, <2>2, WithoutAppend
  <2> QED  BY <2>1, <2>2, <2>3 DEF SaidInv, Without
<1>8. ASSUME NEW f, Leaves(f) PROVE SaidInv'
    BY <1>8 DEF Leaves, PromptRuns, PromptAt, mainVars, SaidInv, Saying
<1>9. Requests \cup {"CONNECTION", "RETRY"} \subseteq Messages \ Farewells
    BY DEF Messages, Requests, LoginRequests, HomeRequests, RoomRequests, Farewells
<1>10. CASE promptConnection \/ promptLogin
    BY <1>7, <1>8, <1>9, <1>10 DEF promptConnection, promptLogin, Requests
<1>11. CASE promptHomepage \/ promptRoom
    BY <1>7, <1>9, <1>11 DEF promptHomepage, promptRoom, Requests, RoomRequests
<1>12. CASE SaysFarewell
    BY <1>12 DEF SaysFarewell, SaidInv, Saying
<1>13. CASE PollReturns \/ PollTimesOut
    BY <1>13 DEF PollReturns, PollTimesOut, mainVars, promptVars, SaidInv
<1>14. ~PollFails /\ ~LockForClosing /\ ~deleteLocalSocket /\ ~CancelPrompt
       /\ ~UnlockAfterClosing /\ \A fd : ~SlotFails(fd)
    BY DEF PollFails, LockForClosing, deleteLocalSocket, CancelPrompt, UnlockAfterClosing,
           SlotFails, Closing, AtWork
<1> QED  BY <1>2, <1>3, <1>4, <1>5, <1>6, <1>10, <1>11, <1>12, <1>13, <1>14
         DEF Next, Main, Prompt
(* main takes k requests of the prompt and serves the first, h. *)
ServesRequest(k, h) ==
    /\ AtWork /\ toMain # << >> /\ h = toMain[1]
    /\ toMain' = SubSeq(toMain, k + 1, Len(toMain))
    /\ UNCHANGED <<ppc, page>>
    /\ \/ /\ h \in {"DISCONNECT", "CLOSEAPP"}
          /\ UNCHANGED <<toPrompt, serves, up, down>>
       \/ /\ h = "CONNECTION" /\ serves' = "new" /\ up' = << >> /\ down' = << >>
          /\ UNCHANGED toPrompt
       \/ /\ h \in {"RETRY", "CONNECTION"} \cup LoginRequests
          /\ toPrompt' \in {toPrompt, Append(toPrompt, "RETRY")}
          /\ UNCHANGED <<serves, up, down>>
       \/ /\ h = "CONNECTION"
          /\ toPrompt' \in {toPrompt, Append(toPrompt, "CONNECTION")}
          /\ UNCHANGED <<serves, up, down>>
       \/ /\ h \in Requests
          /\ down' = down \/ serves = "gone"
          /\ UNCHANGED <<toPrompt, serves>>

(* main serves one request. *)
LEMMA RequestServed ==
    ASSUME ThreadInv, PromptSpeaks
    PROVE  \E k \in 1 .. Len(toMain), h \in Messages \ {"GARBAGE"} : ServesRequest(k, h)
<1> USE DEF ServesRequest
<1> DEFINE h == Head(toMain)
<1>1. /\ AtWork /\ toMain # << >> /\ switchPrompt(h) /\ UNCHANGED <<ppc, page>>
      /\ toMain \in Seq(Messages) /\ Without(toMain, {"GARBAGE"})
    BY WireFacts DEF PromptSpeaks, Next_fd, AtWork, promptVars, ThreadInv, FarewellInv
<1>2. h = toMain[1] /\ h \in Messages \ {"GARBAGE"}
    BY <1>1, RestFacts
<1>3. PICK k \in Taken(toMain) : toMain' = Unread(toMain, k)
    BY DEF PromptSpeaks
<1>4. h \notin {"EOF", "RST"}
    BY <1>2 DEF Messages, Requests, LoginRequests, HomeRequests, RoomRequests, Farewells
<1>5. k \in 1 .. Len(toMain) /\ toMain' = SubSeq(toMain, k + 1, Len(toMain))
    BY <1>1, <1>3, <1>4, TakenBounds DEF Unread
<1> HIDE DEF h
<1>6. \A m : TellPrompt("prompt", m, 0) => toPrompt' \in {toPrompt, Append(toPrompt, m)}
    BY DEF TellPrompt
<1>7. Forward(h) => down' = down \/ serves = "gone"
    BY DEF Forward
<1> QED  BY <1>1, <1>2, <1>5, <1>6, <1>7 DEF switchPrompt

LEMMA PromptSpeaksPlace ==
    ASSUME ThreadInv, PlaceInv, PromptSpeaks, SaidInv'
    PROVE  PlaceInv'
<1> USE DEF ServesRequest
<1>1. PICK k \in 1 .. Len(toMain), h \in Messages \ {"GARBAGE"} : ServesRequest(k, h)
    BY RequestServed
<1>2. /\ ClientTypeOK /\ toMain \in Seq(Messages) /\ toPrompt \in Seq(Modes)
      /\ 1 \in 1 .. Len(toMain)
    BY <1>1, WireFacts, RestFacts DEF ThreadInv
<1>3. /\ \A S : toMain \in Seq(S) => toMain' \in Seq(S)
      /\ \A T : Without(toMain, T) => Without(toMain', T) /\ h \notin T
    BY <1>1, <1>2, RestOfSeq, WithoutRest DEF Without
<1>4. \A T : Without(<< >>, T)
    BY DEF Without
<1>5. "RETRY" \in Modes \ Pages /\ "CONNECTION" \in Modes /\ "CONNECTION" \in Pages
    BY DEF Modes, Pages
<1>6. CASE serves = "nobody"
  <2>1. Alone
      BY <1>6 DEF PlaceInv
  <2>2. CASE ppc = "read" /\ toMain \in {<<"CONNECTION">>, <<"RETRY">>}
    <3>1. /\ up = << >> /\ down = << >> /\ page = "CONNECTION"
          /\ Without(toPrompt, Pages \ {"CONNECTION"}) /\ Without(toPrompt, Orders)
        BY <2>1, <2>2 DEF Alone, Last, Saying
    <3>2. h \in {"CONNECTION", "RETRY"} /\ Len(toMain') = 0
      <4>1. Len(toMain) = 1
          BY <2>2
      <4> QED  BY <1>1, <1>2, <2>2, <4>1, RestOfSeq
    <3>3. toMain' = << >>
        BY <1>2, <1>3, <3>2, EmptyLength
    <3>4. CASE serves' = "new" /\ up' = << >> /\ down' = << >> /\ UNCHANGED toPrompt
      <4>1. Without(toPrompt', Pages) /\ Without(toPrompt', {"CONNECTION"})
            /\ Without(toPrompt', {"RETRY"})
          BY <3>1, <3>4 DEF Without, Orders
      <4>2. Untold'
          BY <1>1, <3>1, <3>4, <4>1 DEF Untold
      <4>3. toMain' \in Seq(Farewells) /\ Without(toMain', {"CONNECTION"})
          BY <1>4, <3>3
      <4>4. NotBack'
          BY <1>1, <1>4, <2>2, <3>4, <4>1, <4>3 DEF NotBack
      <4> QED  BY <3>4, <4>2, <4>4 DEF PlaceInv, Served
    <3>5. CASE UNCHANGED <<serves, up, down>>
      <4>1. \A m \in Orders : /\ AtMostOne(Append(toPrompt, m), Orders)
                              /\ Without(Append(toPrompt, m), Pages \ {"CONNECTION"})
        <5>1. \A m \in Orders : m \in Modes /\ m \notin Pages \ {"CONNECTION"}
            BY DEF Orders, Modes, Pages
        <5> QED  BY <1>2, <3>1, <5>1, AtMostOneFacts, WithoutAppend
      <4>2. AtMostOne(toPrompt, Orders)
          BY <1>2, <3>1, AtMostOneFacts
      <4>3. toPrompt' \in {toPrompt} \cup {Append(toPrompt, m) : m \in Orders}
          BY <1>1, <3>2 DEF Orders, Requests, LoginRequests, HomeRequests, RoomRequests
      <4>4. AtMostOne(toPrompt', Orders) /\ Without(toPrompt', Pages \ {"CONNECTION"})
          BY <3>1, <4>1, <4>2, <4>3
      <4>5. Alone'
          BY <1>1, <2>2, <3>1, <3>3, <3>5, <4>4 DEF Alone
      <4> QED  BY <1>6, <3>5, <4>5 DEF PlaceInv, Served
    <3> QED  BY <1>1, <3>2, <3>4, <3>5 DEF Requests, LoginRequests, HomeRequests, RoomRequests
  <2>3. CASE ppc \in Last /\ toMain \in Seq(Farewells)
    <3>1. h \in {"DISCONNECT", "CLOSEAPP"} /\ toMain' \in Seq(Farewells)
        BY <1>1, <1>2, <1>3, <2>3 DEF Farewells
    <3>2. UNCHANGED <<toPrompt, serves, up, down>>
        BY <1>1, <3>1 DEF Requests, LoginRequests, HomeRequests, RoomRequests
    <3>3. Alone'
        BY <1>1, <2>1, <2>3, <3>1, <3>2 DEF Alone
    <3> QED  BY <1>6, <3>2, <3>3 DEF PlaceInv, Served
  <2> QED  BY <1>1, <2>1, <2>2, <2>3 DEF Alone
<1>7. CASE serves # "nobody"
  <2>1. NotBack /\ h # "CONNECTION" /\ Without(toMain', {"CONNECTION"})
      BY <1>3, <1>7 DEF PlaceInv, NotBack
  <2>2. /\ UNCHANGED serves
        /\ down' = down \/ serves = "gone"
        /\ toPrompt' \in {toPrompt, Append(toPrompt, "RETRY")}
      BY <1>1, <2>1
  <2>3. \A T : Without(toPrompt, T) /\ "RETRY" \notin T => Without(toPrompt', T)
      BY <1>2, <2>2, WithoutAppend
  <2>4. ASSUME page = "CONNECTION"
        PROVE  toMain' \in Seq(Farewells) /\ UNCHANGED <<toPrompt, up, down>>
    <3>1. toMain \in Seq(Farewells)
        BY <2>1, <2>4 DEF NotBack
    <3>2. h \in {"DISCONNECT", "CLOSEAPP"}
        BY <1>1, <1>2, <3>1 DEF Farewells
    <3> QED  BY <1>1, <1>3, <3>1, <3>2 DEF Requests, LoginRequests, HomeRequests, RoomRequests
  <2>5. NotBack'
    <3>1. "RETRY" \notin {"CONNECTION"}
        OBVIOUS
    <3>2. Without(toPrompt', {"CONNECTION"})
        BY <2>1, <2>3, <3>1 DEF NotBack
    <3> QED  BY <1>1, <2>1, <2>4, <3>2 DEF NotBack
  <2>6. serves = "new" => Untold'
      BY <1>1, <2>4 DEF PlaceInv, Untold
  <2>7. Announced /\ serves \in Served => Announced'
    <3>1. LastIs(toPrompt, Pages, PageOf(serves)) => LastIs(toPrompt', Pages, PageOf(serves))
        BY <1>2, <1>5, <2>2, LastIsAppend
    <3>2. Without(toPrompt, Pages) => Without(toPrompt', Pages)
        BY <1>5, <2>3
    <3> QED  BY <1>1, <2>2, <3>1, <3>2 DEF Announced, Served, PageOf, SignalOf
  <2>8. ~Stuck
      BY <1>1 DEF Stuck
  <2>9. serves \in Served => Announced \/ ppc \in Last
      BY <2>8 DEF PlaceInv
  <2>10. ppc' = ppc /\ serves' = serves
      BY <1>1, <2>2
  <2> QED  BY <1>7, <2>5, <2>6, <2>7, <2>9, <2>10 DEF PlaceInv
<1> QED  BY <1>6, <1>7

(* main takes k signals of the server and serves the first, sig. *)
ServesSignal(k, sig) ==
    /\ AtWork /\ down # << >> /\ sig = down[1] /\ (k = 1 \/ smooth)
    /\ down' = SubSeq(down, k + 1, Len(down))
    /\ UNCHANGED <<ppc, page, toMain, serves, up>>
    /\ \/ /\ sig \in AnswerSignals
          /\ toPrompt' \in {toPrompt, Append(toPrompt, NewMode(sig))}
          /\ ppc \in {"first", "read", "lock", "typing", "line"} /\ prompt_sd = "open"
               => toPrompt' = Append(toPrompt, NewMode(sig))
       \/ /\ sig \notin AnswerSignals
          /\ toPrompt' \in {toPrompt, Append(toPrompt, "DISCONNECT")}

(* main serves one signal; a lost connection would end its loop. *)
LEMMA SignalServed ==
    ASSUME ThreadInv, ServerSpeaks, AtWork'
    PROVE  \E k \in 1 .. Len(down), sig \in Signals \ {"EOF", "RST"} : ServesSignal(k, sig)
<1> USE DEF ServesSignal
<1> DEFINE sig == Head(down)
<1>1. /\ AtWork /\ down # << >> /\ switchServer(sig) /\ down \in Seq(Signals)
      /\ UNCHANGED <<ppc, page, toMain, serves, up>> /\ smooth \in BOOLEAN
    BY WireFacts DEF ServerSpeaks, Next_fd, AtWork, promptVars, ThreadInv
<1>2. sig = down[1] /\ sig \in Signals
    BY <1>1, RestFacts
<1>3. PICK k \in Taken(down) : down' = Unread(down, k)
    BY DEF ServerSpeaks
<1>4. k \in 1 .. Len(down) /\ (k = 1 \/ smooth)
    BY <1>1, <1>3, TakenBounds DEF Taken
<1>5. Unread(down, k) = (IF sig \in {"EOF", "RST"} THEN down ELSE SubSeq(down, k + 1, Len(down)))
    BY DEF Unread
<1>6. \A end \in {1, 2} : ~Handled("server", end)
  <2>1. ready \ {"server"} = {}
      BY DEF ServerSpeaks, Next_fd, ThreadInv, ClientTypeOK
  <2> QED  BY <2>1 DEF Handled, AtWork
<1> HIDE DEF sig
<1>7. \A m, end : TellPrompt("server", m, end) =>
          /\ Handled("server", end) /\ toPrompt' \in {toPrompt, Append(toPrompt, m)}
          /\ prompt_sd = "open" => toPrompt' = Append(toPrompt, m)
    BY DEF TellPrompt, Dies, AtWork
<1>8. sig \notin {"EOF", "RST"}
  <2>1. \A m : ~TellPrompt("server", m, 1)
      BY <1>6, <1>7
  <2>2. ASSUME sig = "RST" PROVE FALSE
    <3>1. Handled("server", 2) \/ TellPrompt("server", NewMode("EOF"), 1)
        BY <1>1, <2>2 DEF switchServer, TurnSignals
    <3> QED  BY <1>6, <2>1, <3>1
  <2>3. ASSUME sig = "EOF" PROVE FALSE
    <3>1. TellPrompt("server", NewMode(sig), 1)
        BY <1>1, <2>3 DEF switchServer, TurnSignals
    <3> QED  BY <2>1, <3>1
  <2> QED  BY <1>6, <2>1, <2>2, <2>3
<1>9. CASE sig \in AnswerSignals
  <2>1. TellPrompt("server", NewMode(sig), 0)
      BY <1>1, <1>9 DEF switchServer, AnswerSignals, TurnSignals
  <2> QED  BY <1>1, <1>2, <1>3, <1>4, <1>5, <1>7, <1>8, <1>9, <2>1
<1>10. CASE sig \notin AnswerSignals
  <2>1. CASE sig = "COMMERROR"
    <3>1. UNCHANGED toPrompt \/ TellPrompt("server", "DISCONNECT", 0)
        BY <1>1, <2>1 DEF switchServer, UnknownSignal
    <3>2. toPrompt' \in {toPrompt, Append(toPrompt, "DISCONNECT")}
        BY <1>7, <3>1
    <3> QED  BY <1>1, <1>2, <1>3, <1>4, <1>5, <1>8, <1>10, <3>2
  <2>2. CASE sig # "COMMERROR"
    <3>1. sig \in TurnSignals \cup {"LISTMORE"}
        BY <1>2, <1>8, <1>10, <2>2 DEF Signals, AnswerSignals
    <3>2. UNCHANGED toPrompt
        BY <1>1, <3>1 DEF switchServer, TurnSignals
    <3> QED  BY <1>1, <1>2, <1>3, <1>4, <1>5, <1>8, <1>10, <3>2
  <2> QED  BY <2>1, <2>2
<1> QED  BY <1>9, <1>10

LEMMA ServerSpeaksPlace ==
    ASSUME ThreadInv, SessionInv, PlaceInv, ServerSpeaks, AtWork', SaidInv'
    PROVE  PlaceInv'
<1> USE DEF ServesSignal
<1>1. PICK k \in 1 .. Len(down), sig \in Signals \ {"EOF", "RST"} : ServesSignal(k, sig)
    BY SignalServed
<1>2. /\ ClientTypeOK /\ down \in Seq(Signals) /\ toPrompt \in Seq(Modes)
      /\ 1 \in 1 .. Len(down)
    BY <1>1, WireFacts, RestFacts DEF ThreadInv
<1>3. \A T : Without(down, T) => Without(down', T) /\ sig \notin T
    BY <1>1, <1>2, WithoutRest DEF Without
<1>4. serves \notin {"nobody", "new"} /\ NotBack
    BY <1>1 DEF PlaceInv, Alone, Untold
<1>5. PICK m \in Modes \ {"CONNECTION"} :
             /\ toPrompt' \in {toPrompt, Append(toPrompt, m)}
             /\ sig \in AnswerSignals => m = NewMode(sig)
             /\ sig \notin AnswerSignals => m = "DISCONNECT"
  <2>1. "DISCONNECT" \in Modes \ {"CONNECTION"}
      BY DEF Modes
  <2>2. sig \in AnswerSignals => NewMode(sig) \in Modes \ {"CONNECTION"}
      BY DEF NewMode, AnswerSignals, Modes, Pages
  <2> QED  BY <1>1, <2>1, <2>2
<1>6. \A T : Without(toPrompt, T) /\ m \notin T => Without(toPrompt', T)
    BY <1>2, <1>5, WithoutAppend
<1>7. NotBack'
  <2>1. Without(toPrompt', {"CONNECTION"})
      BY <1>4, <1>5, <1>6 DEF NotBack
  <2>2. ASSUME page = "CONNECTION" PROVE Without(toPrompt', {"RETRY"})
    <3>1. sig \notin {"REFUSED", "LISTOK"}
        BY <1>3, <1>4, <2>2 DEF NotBack
    <3>2. m # "RETRY"
        BY <1>5, <3>1 DEF NewMode, AnswerSignals
    <3> QED  BY <1>4, <1>6, <2>2, <3>2 DEF NotBack
  <2> QED  BY <1>1, <1>3, <1>4, <2>1, <2>2 DEF NotBack
<1>8. ASSUME serves \in Served, ppc \notin Last PROVE Announced' \/ Stuck'
  <2> DEFINE x == SignalOf(serves)
  <2>1. /\ x \in Announcing /\ NewMode(x) = PageOf(serves) /\ PageOf(serves) \in Pages
      BY <1>8 DEF Served, SignalOf, Announcing, NewMode, PageOf, Pages
  <2>2. Announcing \subseteq AnswerSignals
      BY DEF Announcing, AnswerSignals
  <2>3. /\ prompt_sd = "open" /\ ppc \in {"first", "read", "lock", "typing", "line"}
      BY <1>2, <1>8, PlaceFacts DEF PlaceInv, Last, Saying, ClientTypeOK
  <2>4. UNCHANGED <<serves, page, ppc, toMain, up>>
      BY <1>1
  <2> HIDE DEF x
  <2>5. CASE LastIs(down, Announcing, x)
    <3>1. CASE LastIs(down', Announcing, x)
        BY <2>4, <3>1 DEF Announced, x, SignalOf
    <3>2. CASE Without(down', Announcing) /\ down[1] = x
      <4>1. toPrompt' = Append(toPrompt, PageOf(serves)) /\ PageOf(serves) \in Modes
          BY <1>1, <2>1, <2>2, <2>3, <3>2 DEF Modes
      <4>2. LastIs(toPrompt', Pages, PageOf(serves))
          BY <1>2, <2>1, <4>1, LastIsAppend
      <4> QED  BY <2>4, <3>2, <4>2 DEF Announced, PageOf
    <3>3. ASSUME Swallowed(down, k, x) PROVE Stuck'
      <4>1. PICK i \in 2 .. Len(down) : i <= k /\ down[i] = x
          BY <3>3 DEF Swallowed
      <4>2. smooth /\ InSession
        <5>1. k # 1
            BY <1>2, <4>1
        <5> QED  BY <1>1, <1>8, <5>1 DEF SessionInv, Leaving, Last, Saying
      <4>3. ~Without(down, AnswerSignals)
        <5>1. i \in 1 .. Len(down)
            BY <4>1
        <5> QED  BY <2>1, <2>2, <4>1, <5>1 DEF Without
      <4>4. Answered
          BY <4>2, <4>3 DEF InSession, AtKeyboard, AskedMain, AskedServer, Told
      <4>5. PICK j \in 1 .. Len(down) : OneOf(down, AnswerSignals, j)
          BY <1>4, <4>4 DEF Answered
      <4>6. sig \notin AnswerSignals /\ Without(down', AnswerSignals)
          BY <1>1, <1>2, <2>1, <2>2, <4>1, <4>5, OneOfSwallowed
      <4>7. Waiting'
          BY <1>5, <1>6, <4>4, <4>6 DEF Answered, Waiting
      <4> QED  BY <2>4, <4>4, <4>6, <4>7 DEF Stuck, Answered
    <3>4. \/ LastIs(down', Announcing, x)
          \/ Without(down', Announcing) /\ (down[1] = x \/ Swallowed(down, k, x))
      <4>1. down' = SubSeq(down, k + 1, Len(down))
          BY <1>1
      <4> QED  BY <1>2, <2>5, <4>1, LastIsRest
    <3> QED  BY <3>1, <3>2, <3>3, <3>4
  <2>6. CASE Without(down, Announcing) /\ Announced
    <3>1. Without(down', Announcing) /\ m \notin Pages
      <4>1. sig \notin Announcing
          BY <1>3, <2>6
      <4> QED  BY <1>3, <1>5, <2>6, <4>1 DEF Announcing, AnswerSignals, NewMode, Pages
    <3>2. Without(toPrompt, Pages) => Without(toPrompt', Pages)
        BY <1>6, <3>1
    <3>3. LastIs(toPrompt, Pages, PageOf(serves)) => LastIs(toPrompt', Pages, PageOf(serves))
        BY <1>2, <1>5, <3>1, LastIsAppend
    <3>4. ~LastIs(down, Announcing, x)
        BY <2>6 DEF LastIs, Without
    <3> QED  BY <2>4, <2>6, <3>1, <3>2, <3>3, <3>4 DEF Announced, x, PageOf
  <2>7. CASE Stuck
    <3>1. sig \notin AnswerSignals /\ Without(down', AnswerSignals)
        BY <1>3, <2>7 DEF Stuck
    <3>2. Waiting'
        BY <1>5, <1>6, <2>7, <3>1 DEF Stuck, Waiting
    <3> QED  BY <2>4, <2>7, <3>1, <3>2 DEF Stuck
  <2> QED  BY <1>8, <2>5, <2>6, <2>7 DEF PlaceInv, Announced, x
<1>9. ppc' = ppc /\ serves' = serves
    BY <1>1
<1> QED  BY <1>4, <1>7, <1>8, <1>9 DEF PlaceInv

(* The prompt takes k modes and follows the first, m. *)
FollowsMode(k, m) ==
    /\ m = toPrompt[1] /\ (k = 1 \/ smooth)
    /\ toPrompt' = SubSeq(toPrompt, k + 1, Len(toPrompt))
    /\ ppc \in {"first", "read"} /\ ppc' = (IF m = "DISCONNECT" THEN "read" ELSE "lock")
    /\ page' = (IF m \in Pages THEN m ELSE page)
    /\ UNCHANGED <<toMain, serves, up, down>>

(* The prompt reads the next mode, or swallows several. *)
LEMMA ModeRead ==
    ASSUME ThreadInv, SaidInv, ReadsMode, AtWork
    PROVE  \E k \in 1 .. Len(toPrompt), m \in Modes \ {"ABRUPT"} : FollowsMode(k, m)
<1> USE DEF FollowsMode
<1>1. /\ ppc \in {"first", "read"} /\ UNCHANGED <<toMain, serves, up, down>>
      /\ ClientTypeOK /\ toPrompt \in Seq(Modes) /\ Without(toPrompt, {"ABRUPT"})
      /\ smooth \in BOOLEAN
    BY WireFacts DEF ReadsMode, ThreadInv, FarewellInv
<1>2. prompt_sd = "open"
    BY <1>1, PlaceFacts DEF Saying
<1>3. toPrompt # << >>
    BY <1>2 DEF ReadsMode
<1> DEFINE m == Head(toPrompt)
<1>4. m = toPrompt[1] /\ m \in Modes \ {"ABRUPT"}
    BY <1>1, <1>3, RestFacts
<1>5. PICK k \in Taken(toPrompt) : toPrompt' = SubSeq(toPrompt, k + 1, Len(toPrompt))
    BY <1>3 DEF ReadsMode
<1>6. k \in 1 .. Len(toPrompt) /\ (k = 1 \/ smooth)
    BY <1>1, <1>3, <1>5, TakenBounds DEF Taken
<1>7. /\ page' = (IF m \in Pages THEN m ELSE page)
      /\ ppc' = (IF m = "DISCONNECT" THEN "read" ELSE IF m = "ABRUPT" THEN "final" ELSE "lock")
    BY <1>3 DEF ReadsMode
<1> HIDE DEF m
<1> QED  BY <1>1, <1>4, <1>5, <1>6, <1>7

LEMMA ReadsModePlace ==
    ASSUME ThreadInv, SessionInv, PlaceInv, ReadsMode, AtWork, SaidInv'
    PROVE  PlaceInv'
<1> USE DEF FollowsMode
<1>1. PICK k \in 1 .. Len(toPrompt), m \in Modes \ {"ABRUPT"} : FollowsMode(k, m)
    BY ModeRead DEF PlaceInv
<1>2. /\ ClientTypeOK /\ toPrompt \in Seq(Modes) /\ page \in Pages
      /\ 1 \in 1 .. Len(toPrompt) /\ ppc \notin Last
    BY <1>1, WireFacts, LenProperties DEF ThreadInv, Last, Saying
<1>3. \A T : Without(toPrompt, T) => Without(toPrompt', T) /\ m \notin T
    BY <1>1, <1>2, WithoutRest DEF Without
<1>4. CASE serves = "nobody"
  <2>1. /\ up = << >> /\ down = << >> /\ page = "CONNECTION"
        /\ Without(toPrompt, Pages \ {"CONNECTION"})
        /\ \/ toMain = << >> /\ AtMostOne(toPrompt, Orders)
           \/ /\ ppc = "read" /\ toMain \in {<<"CONNECTION">>, <<"RETRY">>}
              /\ Without(toPrompt, Orders)
      BY <1>1, <1>2, <1>4 DEF PlaceInv, Alone
  <2>2. page' = "CONNECTION" /\ Without(toPrompt', Pages \ {"CONNECTION"})
        /\ m \in Orders \cup {"DISCONNECT"}
      BY <1>1, <1>3, <2>1 DEF Modes, Orders
  <2>3. CASE toMain = << >> /\ AtMostOne(toPrompt, Orders)
    <3>1. AtMostOne(toPrompt', Orders) /\ (m \in Orders => Without(toPrompt', Orders))
        BY <1>1, <1>2, <2>3, AtMostOneFacts
    <3>2. Alone'
        BY <1>1, <2>1, <2>2, <2>3, <3>1 DEF Alone
    <3> QED  BY <1>1, <1>4, <3>2 DEF PlaceInv, Served
  <2>4. CASE toMain \in {<<"CONNECTION">>, <<"RETRY">>} /\ Without(toPrompt, Orders)
    <3>1. m = "DISCONNECT" /\ Without(toPrompt', Orders)
        BY <1>3, <2>2, <2>4
    <3>2. Alone'
        BY <1>1, <2>1, <2>2, <2>4, <3>1 DEF Alone
    <3> QED  BY <1>1, <1>4, <3>2 DEF PlaceInv, Served
  <2> QED  BY <2>1, <2>3, <2>4
<1>5. CASE serves # "nobody"
  <2>1. NotBack /\ m # "CONNECTION"
      BY <1>3, <1>5 DEF PlaceInv, NotBack
  <2>2. ASSUME page' = "CONNECTION" PROVE page = "CONNECTION" /\ ppc' = "read"
    <3>1. page = "CONNECTION" /\ m \notin Pages
        BY <1>1, <2>1, <2>2
    <3>2. m # "RETRY"
        BY <1>3, <2>1, <3>1 DEF NotBack
    <3> QED  BY <1>1, <3>1, <3>2 DEF Modes
  <2>3. NotBack'
      BY <1>1, <1>3, <2>1, <2>2 DEF NotBack
  <2>4. serves = "new" => Untold'
      BY <1>1, <1>3 DEF PlaceInv, Untold
  <2>5. ASSUME serves \in Served PROVE Announced' \/ Stuck'
    <3> DEFINE p == PageOf(serves)
    <3>1. p \in Pages /\ PageOf(serves)' = p
        BY <1>1, <2>5 DEF Served, PageOf, Pages
    <3>2. UNCHANGED <<serves, toMain, up, down>>
        BY <1>1
    <3> HIDE DEF p
    <3>3. CASE LastIs(down, Announcing, SignalOf(serves))
        BY <3>2, <3>3 DEF Announced, SignalOf
    <3>4. CASE Without(down, Announcing) /\ LastIs(toPrompt, Pages, p)
      <4>1. \/ LastIs(toPrompt', Pages, p)
            \/ Without(toPrompt', Pages) /\ (toPrompt[1] = p \/ Swallowed(toPrompt, k, p))
        <5>1. toPrompt' = SubSeq(toPrompt, k + 1, Len(toPrompt))
            BY <1>1
        <5> QED  BY <1>2, <3>4, <5>1, LastIsRest
      <4>2. CASE LastIs(toPrompt', Pages, p)
          BY <3>1, <3>2, <3>4, <4>2 DEF Announced
      <4>3. CASE Without(toPrompt', Pages) /\ toPrompt[1] = p
        <5>1. page' = p
            BY <1>1, <3>1, <4>3
        <5> QED  BY <3>1, <3>2, <3>4, <4>3, <5>1 DEF Announced
      <4>4. ASSUME Swallowed(toPrompt, k, p) PROVE Stuck'
        <5>1. PICK i \in 2 .. Len(toPrompt) : i <= k /\ toPrompt[i] = p
            BY <4>4 DEF Swallowed
        <5>2. smooth /\ InSession
          <6>1. k # 1
              BY <1>2, <5>1
          <6> QED  BY <1>1, <1>2, <6>1 DEF SessionInv, Leaving, Last, Saying
        <5>3. p \in Modes \ {"DISCONNECT"} /\ ~Waiting
          <6>1. p \in Modes \ {"DISCONNECT"} /\ i \in 1 .. Len(toPrompt)
              BY <3>1, <5>1 DEF Modes, Pages
          <6> QED  BY <5>1, <6>1 DEF Waiting, Without
        <5>4. Told
            BY <5>2, <5>3 DEF InSession, AtKeyboard, AskedMain, AskedServer, Answered
        <5>5. PICK j \in 1 .. Len(toPrompt) : OneOf(toPrompt, Modes \ {"DISCONNECT"}, j)
            BY <5>4 DEF Told
        <5>6. m \notin Modes \ {"DISCONNECT"} /\ Waiting'
          <6>1. toPrompt' = SubSeq(toPrompt, k + 1, Len(toPrompt)) /\ m = toPrompt[1]
              BY <1>1
          <6> QED  BY <1>2, <5>1, <5>3, <5>5, <6>1, OneOfSwallowed DEF Waiting
        <5>7. ppc' = "read"
            BY <1>1, <5>6
        <5>8. << >> \in Seq(Async)
            OBVIOUS
        <5> QED  BY <3>2, <5>4, <5>6, <5>7, <5>8 DEF Stuck, Told
      <4> QED  BY <4>1, <4>2, <4>3, <4>4
    <3>5. CASE Without(down, Announcing) /\ Without(toPrompt, Pages) /\ page \in {p, "GUESSSKIP"}
      <4>1. page' = page /\ Without(toPrompt', Pages)
          BY <1>1, <1>3, <3>5
      <4> QED  BY <3>1, <3>2, <3>5, <4>1 DEF Announced
    <3>6. CASE Stuck
      <4>1. m = "DISCONNECT" /\ Waiting'
          BY <1>3, <3>6 DEF Stuck, Waiting
      <4>2. ppc' = "read"
          BY <1>1, <4>1
      <4> QED  BY <3>2, <3>6, <4>1, <4>2 DEF Stuck
    <3> QED  BY <1>2, <2>5, <3>3, <3>4, <3>5, <3>6 DEF PlaceInv, Announced, p
  <2>6. serves' = serves
      BY <1>1
  <2> QED  BY <1>5, <2>3, <2>4, <2>5, <2>6 DEF PlaceInv
<1> QED  BY <1>4, <1>5

(* The user is still at the keyboard, or the prompt is on its way out. *)
LEMMA KeyboardPlace ==
    ASSUME PlaceInv, SaidInv', {ppc, ppc'} \subseteq {"lock", "typing", "line"},
           UNCHANGED <<page, toPrompt, toMain, serves, up, down>>
    PROVE  PlaceInv'
<1>1. Alone => Alone'
    BY DEF Alone, Last, Saying
<1>2. NotBack => NotBack'
    BY DEF NotBack, Last, Saying
<1>3. Announced => Announced'
    BY DEF Announced, SignalOf, PageOf
<1>4. ~Stuck /\ ppc \notin Last
    BY DEF Stuck, Last, Saying
<1> QED  BY <1>1, <1>2, <1>3, <1>4 DEF PlaceInv, Untold, Served

LEMMA LeavingPlace ==
    ASSUME PlaceInv, SaidInv', ppc' \in Last,
           \/ ppc = "line" /\ toMain' = toMain
           \/ /\ ppc \in Last
              /\ toMain' = toMain \/ \E f \in Farewells : toMain' = Append(toMain, f),
           ClientTypeOK, UNCHANGED <<page, toPrompt, serves, up, down>>
    PROVE  PlaceInv'
<1>1. ASSUME toMain \in Seq(Farewells) PROVE toMain' \in Seq(Farewells)
    BY <1>1
<1>2. ASSUME Alone PROVE Alone'
  <2>1. << >> \in Seq(Farewells)
      OBVIOUS
  <2>2. toMain' \in Seq(Farewells)
      BY <1>1, <1>2, <2>1 DEF Alone, Last, Saying
  <2> QED  BY <1>2, <2>2 DEF Alone
<1>3. ASSUME NotBack PROVE NotBack'
  <2>1. \A f \in Farewells : f \notin {"CONNECTION"}
      BY DEF Farewells
  <2>2. toMain \in Seq(Messages)
      BY WireFacts
  <2>3. Without(toMain', {"CONNECTION"})
      BY <1>3, <2>1, <2>2, WithoutAppend DEF NotBack
  <2>4. page = "CONNECTION" => toMain' \in Seq(Farewells)
      BY <1>1, <1>3 DEF NotBack
  <2> QED  BY <1>3, <2>3, <2>4 DEF NotBack
<1> QED  BY <1>2, <1>3 DEF PlaceInv, Untold, Served

(* The user asks for something. *)
LEMMA AskingPlace ==
    ASSUME ThreadInv, PlaceInv, AtWork', SaidInv', NEW r \in Messages, NEW next,
           Asks(r, next),
           page = "CONNECTION" =>
               r \in Orders /\ next = "read" /\ UNCHANGED toPrompt,
           page # "CONNECTION" => r # "CONNECTION",
           toPrompt' = toPrompt \/ (toPrompt' = << >> /\ page = "GUESSSKIP")
    PROVE  PlaceInv'
<1>1. /\ ppc = "line" /\ ppc' = next /\ UNCHANGED <<page, serves, up, down>>
      /\ writeToMain(r)
    BY DEF Asks, PromptRuns, PromptAt, serverVars
<1>2. toMain' = Append(toMain, r) /\ toMain \in Seq(Messages)
    BY <1>1, WireFacts DEF writeToMain, AtWork, ThreadInv
<1>3. ppc \notin Last /\ ~Stuck
    BY <1>1 DEF Stuck, Last, Saying
<1>4. CASE serves = "nobody"
  <2>1. /\ up = << >> /\ down = << >> /\ page = "CONNECTION" /\ toMain = << >>
        /\ Without(toPrompt, Pages \ {"CONNECTION"}) /\ Without(toPrompt, Orders)
      BY <1>1, <1>3, <1>4 DEF PlaceInv, Alone
  <2>2. toMain' \in {<<"CONNECTION">>, <<"RETRY">>}
      BY <1>2, <2>1 DEF Orders
  <2>3. Alone'
      BY <1>1, <2>1, <2>2 DEF Alone
  <2> QED  BY <1>1, <1>4, <2>3 DEF PlaceInv, Served
<1>5. CASE serves # "nobody"
  <2>1. NotBack /\ page # "CONNECTION" /\ serves # "new"
      BY <1>1, <1>3, <1>5 DEF PlaceInv, NotBack, Untold
  <2>2. \A T : Without(toPrompt, T) => Without(toPrompt', T)
      BY DEF Without
  <2>3. NotBack'
    <3>1. Without(toMain', {"CONNECTION"})
        BY <1>2, <2>1, WithoutAppend DEF NotBack
    <3> QED  BY <1>1, <2>1, <2>2, <3>1 DEF NotBack
  <2>4. ASSUME Announced PROVE Announced'
    <3>1. CASE LastIs(down, Announcing, SignalOf(serves)) \/ UNCHANGED toPrompt
        BY <1>1, <2>4, <3>1 DEF Announced, SignalOf, PageOf
    <3>2. CASE /\ Without(down, Announcing)
               /\ toPrompt' = << >> /\ page = "GUESSSKIP"
      <4>1. Without(toPrompt', Pages)
          BY <3>2 DEF Without
      <4> QED  BY <1>1, <3>2, <4>1 DEF Announced
    <3> QED  BY <2>4, <3>1, <3>2 DEF Announced
  <2> QED  BY <1>1, <1>3, <1>5, <2>1, <2>3, <2>4 DEF PlaceInv, Served
<1> QED  BY <1>4, <1>5

LEMMA PromptPlace ==
    ASSUME ThreadInv, SessionInv, PlaceInv, Prompt, AtWork, AtWork', SaidInv'
    PROVE  PlaceInv'
<1>1. ClientTypeOK /\ ~cancel /\ farewell \in Farewells
    BY DEF ThreadInv, FarewellInv, ClientTypeOK
<1>2. CASE ReadsMode
    BY <1>2, ReadsModePlace
<1>3. CASE LocksInput \/ UserTypes \/ NeedsMore
    BY <1>3, KeyboardPlace
    DEF LocksInput, UserTypes, NeedsMore, PromptAt, PromptRuns, serverVars
<1>4. ASSUME NEW f, Leaves(f) PROVE PlaceInv'
    BY <1>1, <1>4, LeavingPlace DEF Leaves, PromptAt, PromptRuns, serverVars, Last
<1>5. CASE promptConnection
    BY <1>4, <1>5, AskingPlace DEF promptConnection, Orders, Messages
<1>6. Requests \cup {"RETRY"} \subseteq Messages \ {"CONNECTION"}
    BY DEF Messages, Requests, LoginRequests, HomeRequests, RoomRequests
<1>7. CASE promptLogin
    BY <1>4, <1>6, <1>7, AskingPlace DEF promptLogin, Requests
<1>8. CASE promptHomepage
    BY <1>6, <1>8, AskingPlace DEF promptHomepage, Requests
<1>9. CASE promptRoom
    BY <1>6, <1>9, AskingPlace DEF promptRoom, Requests, RoomRequests
<1>10. CASE SaysFarewell \/ PromptEnds
  <2>1. /\ {ppc, ppc'} \subseteq Last /\ UNCHANGED <<page, toPrompt, serves, up, down>>
        /\ toMain' = toMain \/ \E f \in Farewells : toMain' = Append(toMain, f)
      BY <1>1, <1>10 DEF SaysFarewell, PromptEnds, PromptAt, PromptRuns, writeToMain, serverVars,
                         Last, Saying
  <2> QED  BY <1>1, <2>1, LeavingPlace
<1>11. ~PromptDies
    BY <1>1 DEF PromptDies
<1> QED  BY <1>2, <1>3, <1>5, <1>7, <1>8, <1>9, <1>10, <1>11 DEF Prompt

(* An answer keeps the user on his page, or announces the page he goes to.    *)
LEMMA RepliesAnnounce ==
    ASSUME NEW where \in Served, NEW r, NEW a \in Replies(where, r)
    PROVE  /\ a[1] \in Served
           /\ \/ /\ a[1] = where
                 /\ a[2] \in {<< >>, <<"REFUSED">>, <<"LISTOK">>, <<"LISTMORE", "LISTOK">>}
              \/ a[2] = <<SignalOf(a[1])>>
           /\ where = "room" /\ r \in Async => a[1] = where /\ a[2] = << >>
<1>1. where \in {"login", "home", "room"}
    BY DEF Served
<1>2. ASSUME a = <<where, << >> >> \/ a = <<where, <<"REFUSED">> >>
             \/ a = <<where, <<"LISTOK">> >> \/ a = <<where, <<"LISTMORE", "LISTOK">> >>
      PROVE  /\ a[1] = where
             /\ a[2] \in {<< >>, <<"REFUSED">>, <<"LISTOK">>, <<"LISTMORE", "LISTOK">>}
    BY <1>2
<1>3. ASSUME a = <<"login", <<"LOGINOK">> >> \/ a = <<"home", <<"HOMEPAGEOK">> >>
             \/ a = <<"room", <<"ROOMOK">> >>
      PROVE  a[1] \in Served /\ a[2] = <<SignalOf(a[1])>>
    BY <1>3 DEF Served, SignalOf
<1>4. CASE where = "login"
  <2>1. a \in {<<"home", <<"HOMEPAGEOK">> >>, <<"login", <<"REFUSED">> >>,
               <<"login", <<"LOGINOK">> >>}
      BY <1>4 DEF Replies
  <2> QED  BY <1>2, <1>3, <1>4, <2>1
<1>5. CASE where = "home"
  <2>1. a \in {<<"room", <<"ROOMOK">> >>, <<"home", << >> >>, <<"home", <<"REFUSED">> >>,
               <<"home", <<"LISTOK">> >>, <<"home", <<"LISTMORE", "LISTOK">> >>,
               <<"login", <<"LOGINOK">> >>}
    <3>1. CASE r = "CREATEROOM"
        BY <1>5, <3>1 DEF Replies
    <3>2. CASE r \in {"JOINROOM", "LISTROOM"}
        BY <1>5, <3>2 DEF Replies
    <3>3. CASE r \notin {"CREATEROOM", "JOINROOM", "LISTROOM"}
        BY <1>5, <3>3 DEF Replies
    <3> QED  BY <3>1, <3>2, <3>3
  <2> QED  BY <1>1, <1>2, <1>3, <1>5, <2>1
<1>6. CASE where = "room"
  <2>1. a \in {<<"home", <<"HOMEPAGEOK">> >>, <<"room", << >> >>, <<"room", <<"REFUSED">> >>}
      BY <1>6 DEF Replies
  <2>2. r \in Async => a = <<"room", << >> >>
      BY <1>6 DEF Replies, Async
  <2> QED  BY <1>1, <1>2, <1>3, <1>6, <2>1, <2>2
<1> QED  BY <1>1, <1>4, <1>5, <1>6

(* The server has sent one more signal. *)
LEMMA SignalSent ==
    ASSUME ClientTypeOK, NotBack, serves' \in Served, ppc \notin Last => Announced \/ Stuck,
           NEW y \in Signals \ {"REFUSED", "LISTOK"}, down' = Append(down, y),
           \/ y = SignalOf(serves')
           \/ y \notin AnswerSignals /\ serves' = serves,
           UNCHANGED <<ppc, page, toPrompt, toMain, up>>, SaidInv'
    PROVE  PlaceInv'
<1>1. down \in Seq(Signals)
    BY WireFacts
<1>2. \A T : Without(down, T) /\ y \notin T => Without(down', T)
    BY <1>1, WithoutAppend
<1>3. NotBack'
    BY <1>2 DEF NotBack
<1>4. CASE y = SignalOf(serves')
  <2>1. y \in Announcing
      BY <1>4 DEF SignalOf, Served, Announcing
  <2>2. LastIs(down', Announcing, SignalOf(serves'))
      BY <1>1, <1>4, <2>1, LastIsAppend
  <2> QED  BY <1>3, <2>2 DEF PlaceInv, Announced, SignalOf, Served
<1>5. CASE y \notin AnswerSignals /\ serves' = serves
  <2>1. y \notin Announcing
      BY <1>5 DEF Announcing, AnswerSignals
  <2>2. LastIs(down, Announcing, SignalOf(serves)) => LastIs(down', Announcing, SignalOf(serves))
      BY <1>1, <2>1, LastIsAppend
  <2>3. Announced => Announced'
      BY <1>2, <1>5, <2>1, <2>2 DEF Announced, SignalOf, PageOf
  <2>4. Stuck => Stuck'
      BY <1>2, <1>5 DEF Stuck, Waiting
  <2> QED  BY <1>3, <2>3, <2>4 DEF PlaceInv, Served
<1> QED  BY <1>4, <1>5

LEMMA AnswersPlace ==
    ASSUME ThreadInv, PlaceInv, Answers, SaidInv'
    PROVE  PlaceInv'
<1>1. /\ serves \in Served /\ up # << >>
      /\ UNCHANGED <<ppc, page, toPrompt, toMain>>
    BY DEF Answers, ServerRuns, Served, promptVars
<1>2. PICK a \in Replies(serves, Head(up)), k \in Taken(up) :
          serves' = a[1] /\ down' = down \o a[2] /\ up' = SubSeq(up, k + 1, Len(up))
    BY DEF Answers
<1>3. /\ ClientTypeOK /\ down \in Seq(Signals) /\ up \in Seq(Requests \cup Farewells)
    BY WireFacts DEF ThreadInv
<1>4. /\ serves' \in Served
      /\ \/ /\ serves' = serves
            /\ a[2] \in {<< >>, <<"REFUSED">>, <<"LISTOK">>, <<"LISTMORE", "LISTOK">>}
         \/ a[2] = <<SignalOf(serves')>>
      /\ serves = "room" /\ Head(up) \in Async => serves' = serves /\ a[2] = << >>
    BY <1>1, <1>2, RepliesAnnounce
<1>5. NotBack /\ page # "CONNECTION"
    BY <1>1 DEF PlaceInv, NotBack, Served
<1>6. NotBack'
    BY <1>1, <1>5 DEF NotBack
<1>7. CASE a[2] = <<SignalOf(serves')>>
  <2>1. SignalOf(serves') \in Signals /\ SignalOf(serves') \in Announcing
      BY <1>4 DEF Served, SignalOf, Signals, Announcing
  <2>2. down' = Append(down, SignalOf(serves'))
      BY <1>2, <1>3, <1>7, <2>1
  <2>3. LastIs(down', Announcing, SignalOf(serves'))
      BY <1>3, <2>1, <2>2, LastIsAppend
  <2> QED  BY <1>4, <1>6, <2>3 DEF PlaceInv, Announced, SignalOf, Served
<1>8. CASE /\ serves' = serves
           /\ a[2] \in {<< >>, <<"REFUSED">>, <<"LISTOK">>, <<"LISTMORE", "LISTOK">>}
  <2>1. \/ down' = down
        \/ \E y \in {"REFUSED", "LISTOK"} : down' = Append(down, y)
        \/ down' = Append(Append(down, "LISTMORE"), "LISTOK")
    <3>1. {"REFUSED", "LISTOK", "LISTMORE"} \subseteq Signals
        BY DEF Signals
    <3>2. /\ down \o << >> = down
          /\ \A y \in {"REFUSED", "LISTOK"} : down \o <<y>> = Append(down, y)
        BY <1>3, <3>1
    <3>3. down \o <<"LISTMORE", "LISTOK">> = Append(Append(down, "LISTMORE"), "LISTOK")
        BY <1>3, <3>1
    <3> QED  BY <1>2, <1>8, <3>2, <3>3
  <2>2. ASSUME NEW d \in Seq(Signals), NEW y \in {"REFUSED", "LISTOK", "LISTMORE"}
        PROVE  /\ Append(d, y) \in Seq(Signals)
               /\ Without(d, Announcing) => Without(Append(d, y), Announcing)
               /\ \A x : LastIs(d, Announcing, x) => LastIs(Append(d, y), Announcing, x)
    <3>1. y \in Signals /\ y \notin Announcing
        BY DEF Signals, Announcing
    <3> QED  BY <3>1, LastIsAppend, WithoutAppend
  <2>3. /\ Without(down, Announcing) => Without(down', Announcing)
        /\ \A x : LastIs(down, Announcing, x) => LastIs(down', Announcing, x)
      BY <1>3, <2>1, <2>2
  <2>4. Announced => Announced'
      BY <1>1, <1>8, <2>3 DEF Announced, SignalOf, PageOf
  <2>5. ASSUME Stuck PROVE Stuck'
    <3>1. serves = "room" /\ up \in Seq(Async)
        BY <1>1, <2>5 DEF Stuck
    <3>2. Head(up) \in Async /\ up' \in Seq(Async)
        BY <1>1, <1>2, <3>1, RestFacts, RestOfSeq, TakenBounds
    <3>3. down' = down
        BY <1>2, <1>3, <1>4, <3>1, <3>2
    <3> QED  BY <1>1, <1>8, <2>5, <3>1, <3>2, <3>3 DEF Stuck, Waiting
  <2> QED  BY <1>1, <1>6, <1>8, <2>4, <2>5 DEF PlaceInv, Served
<1> QED  BY <1>4, <1>7, <1>8

LEMMA ServerPlace ==
    ASSUME ThreadInv, PlaceInv, Server, SaidInv'
    PROVE  PlaceInv'
<1>1. /\ ClientTypeOK /\ down \in Seq(Signals) /\ UNCHANGED <<ppc, page, toPrompt, toMain>>
    BY ServerFrame, WireFacts DEF promptVars, ThreadInv
<1>2. CASE Answers
    BY <1>2, AnswersPlace
<1>3. CASE Greets
  <2>1. /\ serves = "new" /\ serves' = "login" /\ down' = Append(down, "LOGINOK")
        /\ up' = up
      BY <1>3 DEF Greets, ServerRuns
  <2>2. Untold /\ NotBack
      BY <2>1 DEF PlaceInv
  <2>3. NotBack'
    <3>1. \A T : Without(down, T) /\ "LOGINOK" \notin T => Without(down', T)
        BY <1>1, <2>1, WithoutAppend
    <3> QED  BY <1>1, <2>1, <2>2, <3>1 DEF NotBack
  <2>4. LastIs(down', Announcing, "LOGINOK")
    <3>1. "LOGINOK" \in Signals /\ "LOGINOK" \in Announcing
        BY DEF Signals, Announcing
    <3> QED  BY <1>1, <2>1, <3>1, LastIsAppend
  <2> QED  BY <2>1, <2>3, <2>4 DEF PlaceInv, Announced, SignalOf
<1>4. CASE RoomSpeaks
  <2>1. PICK y \in TurnSignals : down' = Append(down, y)
      BY <1>4 DEF RoomSpeaks
  <2>2. serves = "room" /\ serves' = serves /\ up' = up
      BY <1>4 DEF RoomSpeaks, ServerRuns
  <2>3. y \in Signals \ {"REFUSED", "LISTOK"} /\ y \notin AnswerSignals
      BY DEF TurnSignals, Signals, AnswerSignals
  <2> QED  BY <1>1, <2>1, <2>2, <2>3, SignalSent DEF PlaceInv, Served
<1>5. CASE RoomCloses
  <2>1. /\ serves = "room" /\ serves' = "home" /\ down' = Append(down, "HOMEPAGEOK") /\ up' = up
      BY <1>5 DEF RoomCloses, ServerRuns
  <2>2. "HOMEPAGEOK" \in Signals \ {"REFUSED", "LISTOK"} /\ SignalOf(serves') = "HOMEPAGEOK"
      BY <2>1 DEF Signals, SignalOf
  <2> QED  BY <1>1, <2>1, <2>2, SignalSent DEF PlaceInv, Served
<1>6. CASE MessageIsCut
  <2>1. /\ serves \in Served /\ serves' = serves /\ down' = Append(down, "COMMERROR") /\ up' = up
      BY <1>6 DEF MessageIsCut, ServerRuns, Served
  <2>2. "COMMERROR" \in Signals \ {"REFUSED", "LISTOK"} /\ "COMMERROR" \notin AnswerSignals
      BY DEF Signals, AnswerSignals
  <2>3. serves # "nobody"
      BY <2>1 DEF Served
  <2> QED  BY <1>1, <2>1, <2>2, <2>3, SignalSent DEF PlaceInv
<1>7. CASE ServerGoes
  <2>1. /\ serves # "nobody" /\ serves' = "gone" /\ up' = << >>
        /\ down' \in {Append(down, "EOF"), <<"RST">>}
      BY <1>7 DEF ServerGoes, ServerRuns
  <2>2. NotBack
      BY <2>1 DEF PlaceInv
  <2>3. Without(down, {"REFUSED", "LISTOK"}) => Without(down', {"REFUSED", "LISTOK"})
    <3>1. Without(<<"RST">>, {"REFUSED", "LISTOK"})
        BY DEF Without
    <3>2. "EOF" \notin {"REFUSED", "LISTOK"}
        OBVIOUS
    <3> QED  BY <1>1, <2>1, <3>1, <3>2, WithoutAppend
  <2>4. NotBack'
      BY <1>1, <2>1, <2>2, <2>3 DEF NotBack
  <2> QED  BY <2>1, <2>4 DEF PlaceInv, Served
<1> QED  BY <1>2, <1>3, <1>4, <1>5, <1>6, <1>7 DEF Server

LEMMA PlaceSame ==
    ASSUME PlaceInv, SaidInv', ClientTypeOK,
           UNCHANGED <<ppc, page, toMain, serves, up, down>>,
           toPrompt' = toPrompt \/ toPrompt' = Append(toPrompt, "DISCONNECT")
    PROVE  PlaceInv'
<1>1. toPrompt \in Seq(Modes) /\ "DISCONNECT" \in Modes /\ "DISCONNECT" \notin Pages \cup Orders
    BY WireFacts DEF Modes, Pages, Orders
<1>2. /\ \A T : Without(toPrompt, T) /\ "DISCONNECT" \notin T => Without(toPrompt', T)
      /\ \A x : LastIs(toPrompt, Pages, x) => LastIs(toPrompt', Pages, x)
      /\ AtMostOne(toPrompt, Orders) => AtMostOne(toPrompt', Orders)
  <2>1. \A T : Without(toPrompt, T) /\ "DISCONNECT" \notin T => Without(toPrompt', T)
      BY <1>1, WithoutAppend
  <2>2. \A x : LastIs(toPrompt, Pages, x) => LastIs(toPrompt', Pages, x)
      BY <1>1, LastIsAppend
  <2>3. AtMostOne(toPrompt, Orders) => AtMostOne(Append(toPrompt, "DISCONNECT"), Orders)
      BY <1>1, AtMostOneFacts
  <2> QED  BY <2>1, <2>2, <2>3
<1>3. Alone => Alone'
    BY <1>1, <1>2 DEF Alone
<1>4. NotBack => NotBack'
    BY <1>1, <1>2 DEF NotBack
<1>5. Untold => Untold'
    BY <1>1, <1>2 DEF Untold
<1>6. Announced => Announced'
    BY <1>1, <1>2 DEF Announced, PageOf, SignalOf
<1>7. Stuck => Stuck'
    BY <1>2 DEF Stuck, Waiting
<1> QED  BY <1>3, <1>4, <1>5, <1>6, <1>7 DEF PlaceInv, Served

LEMMA FreshPlace == Fresh => PlaceInv
<1> SUFFICES ASSUME Fresh PROVE PlaceInv
    OBVIOUS
<1> USE DEF Fresh
<1>1. /\ Len(toMain) = 0 /\ Len(toPrompt) = 1 /\ toPrompt[1] = "CONNECTION"
    OBVIOUS
<1>2. SaidInv
    BY <1>1 DEF SaidInv
<1>3. Without(toPrompt, Pages \ {"CONNECTION"}) /\ AtMostOne(toPrompt, Orders)
    BY <1>1 DEF Without, AtMostOne
<1>4. Alone
    BY <1>3 DEF Alone
<1> QED  BY <1>2, <1>4 DEF PlaceInv, Served

LEMMA PageStep == ThreadInv /\ SessionInv /\ PageInv /\ [Next]_vars => PageInv'
<1> SUFFICES ASSUME ThreadInv, SessionInv, PageInv, [Next]_vars, AtWork' PROVE PlaceInv'
    BY DEF PageInv
<1>1. CASE Restart
  <2>1. Fresh'
      BY <1>1 DEF Restart, FreshMain, FreshPrompt, AtWork, Fresh
  <2>2. (Fresh => PlaceInv)'
      BY FreshPlace, PTL
  <2> QED  BY <2>1, <2>2
<1>2. CASE Next /\ ~Restart
  <2>1. ~PollFails /\ ~LockForClosing /\ ~deleteLocalSocket /\ ~CancelPrompt
        /\ ~UnlockAfterClosing /\ \A fd : ~SlotFails(fd)
      BY DEF PollFails, LockForClosing, deleteLocalSocket, CancelPrompt, UnlockAfterClosing,
             SlotFails, Closing, AtWork
  <2>2. AtWork
    <3>1. CASE PromptSpeaks \/ ServerSpeaks \/ PollReturns \/ PollTimesOut
        BY <3>1 DEF PromptSpeaks, ServerSpeaks, PollReturns, PollTimesOut, Next_fd, AtWork
    <3>2. CASE Server
        BY <3>2, ServerFrame DEF AtWork
    <3>3. CASE Prompt
      <4>1. mpc' = mpc \/ mpc' = "killed"
          BY <3>3 DEF Prompt, ReadsMode, LocksInput, UserTypes, NeedsMore, promptConnection,
                 promptLogin, promptHomepage, promptRoom, Asks, writeToMain, Leaves, SaysFarewell,
                 PromptEnds, PromptDies, mainVars
      <4> QED  BY <4>1 DEF AtWork
    <3> QED  BY <1>2, <2>1, <3>1, <3>2, <3>3 DEF Next, Main
  <2>3. PlaceInv /\ SaidInv'
      BY <1>2, <2>2, SaidStep DEF PageInv, PlaceInv
  <2>4. CASE PollReturns \/ PollTimesOut
      BY <2>3, <2>4, PlaceSame
      DEF PollReturns, PollTimesOut, promptVars, serverVars, ThreadInv
  <2> QED  BY <1>2, <2>1, <2>2, <2>3, <2>4, PromptSpeaksPlace, ServerSpeaksPlace, PromptPlace,
              ServerPlace DEF Next, Main
<1>3. CASE UNCHANGED vars
  <2>1. /\ AtWork /\ prompt_sd' = prompt_sd
        /\ UNCHANGED <<ppc, page, toPrompt, toMain, serves, up, down>>
      BY <1>3 DEF vars, mainVars, promptVars, serverVars, AtWork
  <2>2. PlaceInv /\ SaidInv'
      BY <2>1 DEF PageInv, PlaceInv, SaidInv
  <2> QED  BY <2>1, <2>2, PlaceSame DEF ThreadInv
<1> QED  BY <1>1, <1>2, <1>3

LEMMA PageInit == Init => PageInv
<1> QED  BY FreshPlace DEF Init, Fresh, PageInv

LEMMA PlaceInStep ==
    ASSUME CInv, PageInv PROVE InStep
<1> SUFFICES ASSUME Quiet, ppc = "typing", serves # "gone"
             PROVE  page = PageOf(serves) \/ (~smooth /\ page = "GUESSSKIP")
    BY DEF InStep
<1>1. /\ AtWork /\ toPrompt = << >> /\ toMain = << >> /\ up = << >> /\ down = << >>
    BY DEF Quiet, AtWork
<1>2. CASE smooth
    BY <1>1, <1>2 DEF CInv, SessionInv, InSession, AtKeyboard, AskedMain, AskedServer, Answered,
                      Told, Leaving, PageFits
<1>3. CASE ~smooth
  <2>1. PlaceInv /\ ppc \notin {"read"} \cup Last
      BY <1>1 DEF PageInv, Last, Saying
  <2>2. CASE serves = "nobody"
      BY <2>1, <2>2 DEF PlaceInv, Alone, PageOf
  <2>3. CASE serves = "new"
      BY <2>1, <2>3 DEF PlaceInv, NotBack, Untold
  <2>4. CASE serves \in Served
    <3>1. Announced
        BY <2>1, <2>4 DEF PlaceInv, Stuck
    <3>2. \A T, x : ~LastIs(<< >>, T, x)
        BY DEF LastIs
    <3> QED  BY <1>1, <1>3, <3>1, <3>2 DEF Announced
  <2> QED  BY <2>2, <2>3, <2>4 DEF CInv, ThreadInv, ClientTypeOK, Served
<1> QED  BY <1>2, <1>3 DEF CInv, ThreadInv, ClientTypeOK

(* Prompt.c, PollSwitches.c:563-590.  When nothing is on its way and the user *)
(* is at the keyboard, the page he has in front of him is the page the server *)
(* serves to him, also after one disturbance in the session (Taken bounds     *)
(* them so): a read that swallowed a mode or a signal, a message that was     *)
(* cut, an answer that never came, a room that closed.  Only the page of a    *)
(* room may outlive its room.                                                 *)
THEOREM PagesInStep == Spec => []InStep
<1>1. CInv /\ PageInv /\ [Next]_vars => CInv' /\ PageInv'
    BY CStep, PageStep DEF CInv
<1>2. CInv /\ PageInv => InStep
    BY PlaceInStep
<1> QED  BY <1>1, <1>2, CInit, PageInit, PTL DEF Spec

=============================================================================
