------------------------------- MODULE Client -------------------------------
(***************************************************************************)
(* The client program.  The main thread (MainClient.c, PollSwitches.c) polls *)
(* two sockets: a local one to the prompt thread and the TCP connection to   *)
(* the server.  The prompt thread (Prompt.c) serves one page at a time, as   *)
(* the main thread tells it: it reads lines from the keyboard, holding       *)
(* prompt->mutex while it does, and writes the user's request to the main    *)
(* thread, which forwards it.  When a session ends the main thread cancels   *)
(* the prompt thread and starts the application again.                       *)
(*                                                                         *)
(* The server is what ThreadService.c and ThreadRoom.c are for one client:   *)
(* a login page, a homepage, a room.  Answers that refuse a request, and     *)
(* that the client treats alike (C_RETRY), are one signal, REFUSED.          *)
(***************************************************************************)
EXTENDS Naturals, Sequences

CONSTANTS
    Coalesce,    \* may one read() take several messages?
    RoomsClose,  \* may a room close while the player is in it?
    Idle,        \* may 15 minutes pass with nothing to poll?
    Fails,       \* may the server go or not answer, a poll() fail, a message be cut?
    MaxAhead,    \* bound: requests the user has typed and no thread has served
    MaxDown      \* bound: signals and modes on their way to the client and its prompt

ASSUME ClientAssumption ==
    /\ {Coalesce, RoomsClose, Idle, Fails} \subseteq BOOLEAN
    /\ MaxAhead \in Nat \ {0} /\ MaxDown \in Nat \ {0}

VARIABLES
    mpc,            \* where main() is
    ready, bad,     \* the sockets poll() reported; with something but POLLIN
    end_poll_loop, end_main_loop,
    turn_flag,      \* room->turn_flag, read by the prompt thread
    prompt_sd,      \* main's end of the local socket: "open" or "closed"
    ppc,            \* where thrPrompt is
    page,           \* last_mode, the page the prompt serves
    farewell,       \* signal_num of thrPrompt, what it will say last
    cancel,         \* is a pthread_cancel pending?
    mutex,          \* who holds prompt->mutex
    toPrompt,       \* modes written by main, not read yet
    toMain,         \* requests written by the prompt, not read yet
    serves,         \* the page the server serves to this client
    up, down,       \* the two directions of the connection
    smooth          \* history: in this session nothing was lost or cut, no request
                    \* left unanswered, and no room put the player out by itself

mainVars == <<mpc, ready, bad, end_poll_loop, end_main_loop, turn_flag, prompt_sd>>
promptVars == <<ppc, page, farewell, cancel>>
serverVars == <<serves, up, down, smooth>>
vars == <<mainVars, promptVars, mutex, toPrompt, toMain, serverVars>>

-----------------------------------------------------------------------------
(* Signals, grouped by what the client does with them. *)

Pages == {"CONNECTION", "LOGIN", "CREATEROOM", "GUESSSKIP"}

Modes == Pages \cup {"RETRY", "DISCONNECT", "ABRUPT"}

LoginRequests == {"LOGIN", "SIGNIN"}
HomeRequests == {"LOGOUT", "CREATEROOM", "JOINROOM", "LISTROOM"}
RoomRequests == {"GUESSSKIP", "SELECTWORD", "EXITROOM"}
Requests == LoginRequests \cup HomeRequests \cup RoomRequests

Farewells == {"CLOSEAPP", "DISCONNECT", "GARBAGE"}

TurnSignals == {"YOURTURN", "CHOOSEWORD", "NOTYOURTURN"}

Signals == {"LOGINOK", "HOMEPAGEOK", "ROOMOK", "LISTOK", "LISTMORE", "REFUSED",
            "COMMERROR", "EOF", "RST"} \cup TurnSignals

(* A read() takes the first k messages and readFromServer keeps the first.   *)
(* Bound: a session has one disturbance, that is one read of several messages,*)
(* cut message, unanswered request or room that closes.                      *)
Taken(s) == 1 .. IF Coalesce /\ smooth THEN Len(s) ELSE 1

Unread(s, k) == IF Head(s) \in {"EOF", "RST"} THEN s ELSE SubSeq(s, k + 1, Len(s))

-----------------------------------------------------------------------------
(* Start and restart of the application: fresh structures, a new prompt      *)
(* thread, which is told to serve the connection page.                       *)

FreshMain ==
    /\ ready' = {} /\ bad' = {}
    /\ end_poll_loop' = FALSE /\ end_main_loop' = FALSE
    /\ turn_flag' = "wait" /\ prompt_sd' = "open"

FreshPrompt ==
    /\ ppc' = "first" /\ page' = "CONNECTION" /\ farewell' = "GARBAGE"
    /\ cancel' = FALSE
    /\ toPrompt' = <<"CONNECTION">> /\ toMain' = << >>

Init ==
    /\ mpc = "poll" /\ ready = {} /\ bad = {}
    /\ end_poll_loop = FALSE /\ end_main_loop = FALSE
    /\ turn_flag = "wait" /\ prompt_sd = "open"
    /\ ppc = "first" /\ page = "CONNECTION" /\ farewell = "GARBAGE"
    /\ cancel = FALSE /\ mutex = "none"
    /\ toPrompt = <<"CONNECTION">> /\ toMain = << >>
    /\ serves = "nobody" /\ up = << >> /\ down = << >> /\ smooth = TRUE

-----------------------------------------------------------------------------
(* main(): the poll loop. *)

PromptGone == ppc \in {"ended", "cancelled"}

(* Mutant: a socket that is closed is no longer polled. *)
ReportedOpen ==
    (IF toMain # << >> /\ prompt_sd = "open" THEN {"prompt"} ELSE {})
      \cup (IF down # << >> THEN {"server"} ELSE {})

Reported ==
    (IF toMain # << >> \/ PromptGone \/ prompt_sd = "closed" THEN {"prompt"} ELSE {})
      \cup (IF down # << >> THEN {"server"} ELSE {})

Broken ==
    (IF PromptGone \/ prompt_sd = "closed" THEN {"prompt"} ELSE {})
      \cup (IF down = <<"RST">> THEN {"server"} ELSE {})

PollReturns ==
    /\ mpc = "poll" /\ Reported # {}
    /\ mpc' = "scan" /\ ready' = Reported /\ bad' = Broken
    /\ end_poll_loop' = FALSE
    /\ UNCHANGED <<end_main_loop, turn_flag, prompt_sd, promptVars, mutex,
                   toPrompt, toMain, serverVars>>

PollFails ==
    /\ mpc = "poll" /\ Fails
    /\ mpc' = "closing" /\ end_poll_loop' = FALSE
    /\ UNCHANGED <<ready, bad, end_main_loop, turn_flag, prompt_sd, promptVars,
                   mutex, toPrompt, toMain, serverVars>>

(* switchServer(S_DISCONNECT): its result, 1, is dropped. *)
PollTimesOut ==
    /\ mpc = "poll" /\ Reported = {} /\ Idle
    /\ Len(toPrompt) < MaxDown
    /\ toPrompt' = Append(toPrompt, "DISCONNECT")
    /\ UNCHANGED <<mainVars, promptVars, mutex, toMain, serverVars>>

(* The end of the handler of fd, which returned end: every handler writes    *)
(* over end_poll_loop, also over a 1 the socket before has left there.       *)
Handled(fd, end) ==
    /\ ready' = ready \ {fd}
    /\ bad' = bad
    /\ end_poll_loop' = (end # 0)
    /\ end_main_loop' = (end_main_loop \/ end = 2)
    /\ mpc' = IF ready' # {} THEN "scan" ELSE IF end # 0 THEN "closing" ELSE "poll"

(* A write to a socket whose other end is closed kills the process, which    *)
(* does not handle SIGPIPE; one to a descriptor main has closed only fails.  *)
Dies == mpc' = "killed" /\ UNCHANGED <<ready, bad, end_poll_loop, end_main_loop>>

TellPrompt(fd, mode, end) ==
    IF prompt_sd = "open" /\ PromptGone
    THEN Dies /\ UNCHANGED toPrompt
    ELSE /\ Handled(fd, end)
         /\ toPrompt' = IF prompt_sd = "open" THEN Append(toPrompt, mode)
                                              ELSE toPrompt

(* A write to a server that has gone is answered by a reset. *)
Forward(request) ==
    IF down = <<"RST">>
    THEN (Dies \/ Handled("prompt", 0)) /\ UNCHANGED <<up, down>>
    ELSE /\ Handled("prompt", 0)
         /\ up' = IF serves = "gone" THEN up ELSE Append(up, request)
         /\ down' = IF serves = "gone" THEN <<"RST">> ELSE down

(* The scan reaches a socket after the one before it. *)
Next_fd(fd) == mpc = "scan" /\ fd \in ready /\ (fd = "server" => "prompt" \notin ready)

SlotFails(fd) ==
    /\ Next_fd(fd) /\ fd \in bad
    /\ mpc' = "closing" /\ end_poll_loop' = TRUE
    /\ ready' = {} /\ bad' = {}
    /\ UNCHANGED <<end_main_loop, turn_flag, prompt_sd, promptVars, mutex,
                   toPrompt, toMain, serverVars>>

(* switchPrompt: one disjunct for each group of its cases. *)
switchPrompt(request) ==
    \/ /\ request \in {"RETRY", "CONNECTION"} \cup LoginRequests  \* or a parser's error
       /\ TellPrompt("prompt", "RETRY", 0)
       /\ UNCHANGED <<turn_flag, prompt_sd, serves, up, down>>
    \/ /\ request \in {"DISCONNECT", "CLOSEAPP"}
       /\ prompt_sd' = "closed"
       /\ Handled("prompt", IF request = "CLOSEAPP" THEN 2 ELSE 1)
       /\ UNCHANGED <<turn_flag, toPrompt, serves, up, down>>
    \/ /\ request = "CONNECTION"                                  \* socketInit fails
       /\ TellPrompt("prompt", "CONNECTION", 0)
       /\ UNCHANGED <<turn_flag, prompt_sd, serves, up, down>>
    \/ /\ request = "CONNECTION"
       /\ Handled("prompt", 0)
       /\ serves' = "new" /\ up' = << >> /\ down' = << >>
       /\ UNCHANGED <<turn_flag, prompt_sd, toPrompt>>
    \/ /\ request \in Requests \cup {"GARBAGE"}
       /\ Forward(request)
       /\ turn_flag' = CASE request = "EXITROOM" -> "off"
                         [] request \in {"GUESSSKIP", "SELECTWORD"} -> "wait"
                         [] OTHER -> turn_flag
       /\ UNCHANGED <<prompt_sd, toPrompt, serves>>

PromptSpeaks ==
    /\ Next_fd("prompt") /\ "prompt" \notin bad /\ toMain # << >>
    /\ switchPrompt(Head(toMain))
    /\ \E k \in Taken(toMain) :
          toMain' = Unread(toMain, k) /\ smooth' = (smooth /\ k = 1)
    /\ UNCHANGED <<promptVars, mutex>>

(* Mutants: the mode of another page is sent. *)
NewModeSignin(sig) ==
    CASE sig = "LOGINOK" -> "SIGNIN"
      [] sig = "HOMEPAGEOK" -> "CREATEROOM"
      [] sig = "ROOMOK" -> "GUESSSKIP"
      [] sig \in {"REFUSED", "LISTOK"} -> "RETRY"
      [] sig = "EOF" -> "ABRUPT"

NewModeLogin(sig) ==
    CASE sig \in {"LOGINOK", "HOMEPAGEOK"} -> "LOGIN"
      [] sig = "ROOMOK" -> "GUESSSKIP"
      [] sig \in {"REFUSED", "LISTOK"} -> "RETRY"
      [] sig = "EOF" -> "ABRUPT"

(* switchServer. *)
NewMode(sig) ==
    CASE sig = "LOGINOK" -> "LOGIN"
      [] sig = "HOMEPAGEOK" -> "CREATEROOM"
      [] sig = "ROOMOK" -> "GUESSSKIP"
      [] sig \in {"REFUSED", "LISTOK"} -> "RETRY"
      [] sig = "EOF" -> "ABRUPT"

NewFlag(sig) ==
    CASE sig = "YOURTURN" -> "guess"
      [] sig = "CHOOSEWORD" -> "choose"
      [] sig = "NOTYOURTURN" -> "wait"
      [] OTHER -> turn_flag

(* An unknown signal: switchServer calls itself with a string literal, which *)
(* the case of S_DISCONNECT then writes to.                                  *)
UnknownSignal ==
    \/ Dies /\ UNCHANGED toPrompt
    \/ TellPrompt("server", "DISCONNECT", 0)

(* Mutants: a refusal is only shown, as the messages of a match are; the loss *)
(* of the server does not end the poll loop.                                  *)
switchServerSilent(sig) ==
    /\ turn_flag' = NewFlag(sig)
    /\ IF sig \in TurnSignals \cup {"LISTMORE", "REFUSED"}
       THEN Handled("server", 0) /\ UNCHANGED toPrompt
       ELSE IF sig = "COMMERROR" THEN UnknownSignal
       ELSE IF sig = "RST" THEN Handled("server", 2) /\ UNCHANGED toPrompt
       ELSE TellPrompt("server", NewMode(sig), IF sig = "EOF" THEN 1 ELSE 0)

switchServerGoesOn(sig) ==
    /\ turn_flag' = NewFlag(sig)
    /\ IF sig \in TurnSignals \cup {"LISTMORE"}
       THEN Handled("server", 0) /\ UNCHANGED toPrompt
       ELSE IF sig = "COMMERROR" THEN UnknownSignal
       ELSE IF sig = "RST" THEN Handled("server", 2) /\ UNCHANGED toPrompt
       ELSE TellPrompt("server", NewMode(sig), 0)

switchServer(sig) ==
    /\ turn_flag' = NewFlag(sig)
    /\ CASE sig = "COMMERROR" -> UnknownSignal
         [] sig = "RST" -> \/ Handled("server", 2) /\ UNCHANGED toPrompt
                           \/ TellPrompt("server", NewMode("EOF"), 1)
         [] sig = "EOF" -> TellPrompt("server", NewMode(sig), 1)
         [] sig \in TurnSignals \cup {"LISTMORE"} ->
                Handled("server", 0) /\ UNCHANGED toPrompt
         [] OTHER -> TellPrompt("server", NewMode(sig), 0)

ServerSpeaks ==
    /\ Next_fd("server") /\ "server" \notin bad /\ down # << >>
    /\ switchServer(Head(down))
    /\ \E k \in Taken(down) :
          /\ Head(down) \notin {"EOF", "RST"} =>
                \A j \in 1 .. k : down[j] \notin {"EOF", "RST"}
          /\ down' = Unread(down, k) /\ smooth' = (smooth /\ k = 1)
    /\ UNCHANGED <<prompt_sd, promptVars, mutex, toMain, serves, up>>

-----------------------------------------------------------------------------
(* main(): the closing loop.  kill(prompt->id, 0) is given a pthread_t, which *)
(* is no process, so that errno is ESRCH and the prompt is always pushed.     *)

Closing(from, to) == mpc = from /\ mpc' = to

(* Mutant: main does not look whether the user is typing. *)
ClosesAtOnce ==
    /\ Closing("closing", "push") /\ UNCHANGED mutex
    /\ UNCHANGED <<ready, bad, end_poll_loop, end_main_loop, turn_flag, prompt_sd,
                   promptVars, toPrompt, toMain, serverVars>>

LockForClosing ==
    /\ Closing("closing", "push") /\ mutex = "none" /\ mutex' = "main"
    /\ UNCHANGED <<ready, bad, end_poll_loop, end_main_loop, turn_flag, prompt_sd,
                   promptVars, toPrompt, toMain, serverVars>>

deleteLocalSocket ==
    /\ Closing("push", "cancel") /\ prompt_sd' = "closed"
    /\ UNCHANGED <<ready, bad, end_poll_loop, end_main_loop, turn_flag, promptVars,
                   mutex, toPrompt, toMain, serverVars>>

(* Mutant: the prompt is left to end by itself. *)
TrustsPrompt ==
    /\ Closing("cancel", "unlock") /\ UNCHANGED cancel
    /\ UNCHANGED <<ready, bad, end_poll_loop, end_main_loop, turn_flag, prompt_sd,
                   ppc, page, farewell, mutex, toPrompt, toMain, serverVars>>

CancelPrompt ==
    /\ Closing("cancel", "unlock") /\ cancel' = ~PromptGone
    /\ UNCHANGED <<ready, bad, end_poll_loop, end_main_loop, turn_flag, prompt_sd,
                   ppc, page, farewell, mutex, toPrompt, toMain, serverVars>>

UnlockAfterClosing ==
    /\ Closing("unlock", "restart") /\ mutex' = "none"
    /\ UNCHANGED <<ready, bad, end_poll_loop, end_main_loop, turn_flag, prompt_sd,
                   promptVars, toPrompt, toMain, serverVars>>

(* Main sleeps before it closes the sockets: time enough for the prompt to    *)
(* reach a cancellation point.  What it held then stays held.                 *)
Restart ==
    /\ mpc = "restart" /\ PromptGone
    /\ serves' = "nobody" /\ up' = << >> /\ down' = << >> /\ smooth' = TRUE
    /\ UNCHANGED mutex
    /\ \/ ~end_main_loop /\ mpc' = "poll" /\ FreshMain /\ FreshPrompt
       \/ /\ end_main_loop /\ mpc' = "exited" /\ prompt_sd' = "closed"
          /\ UNCHANGED <<ready, bad, end_poll_loop, end_main_loop, turn_flag,
                         promptVars, toPrompt, toMain>>

-----------------------------------------------------------------------------
(* thrPrompt.  Every step but the one that takes the mutex goes through a     *)
(* cancellation point (a read, a write, a usleep, a printf).                  *)

PromptAt(where) == mpc \notin {"exited", "killed"} /\ ppc = where

PromptRuns(where) == PromptAt(where) /\ ~cancel

mainVarsButPc == <<ready, bad, end_poll_loop, end_main_loop, turn_flag, prompt_sd>>

(* A request to the main thread, which may have closed its end.               *)
writeToMain(request) ==
    /\ mpc' = IF prompt_sd = "closed" THEN "killed" ELSE mpc
    /\ toMain' = IF prompt_sd = "closed" THEN toMain ELSE Append(toMain, request)

(* prompt_mode = readFromServer(...) and the case of the switch it leads to.  *)
(* S_DISCONNECT only sets prompt_mode to 0 and the next read overwrites it.   *)
ReadsMode ==
    /\ ppc \in {"first", "read"} /\ PromptRuns(ppc)
    /\ \/ /\ toPrompt # << >>
          /\ \E k \in Taken(toPrompt) :
                toPrompt' = SubSeq(toPrompt, k + 1, Len(toPrompt)) /\ smooth' = (smooth /\ k = 1)
          /\ LET m == Head(toPrompt) IN
             /\ page' = IF m \in Pages THEN m ELSE page
             /\ ppc' = IF m = "DISCONNECT" THEN "read"
                       ELSE IF m = "ABRUPT" THEN "final" ELSE "lock"
       \/ /\ toPrompt = << >> /\ prompt_sd = "closed" /\ ppc' = "final"
          /\ UNCHANGED <<page, toPrompt, smooth>>
    /\ UNCHANGED <<mainVars, farewell, cancel, mutex, toMain, serves, up, down>>

(* promptString: the line is read under the mutex.                            *)
LocksInput ==
    /\ PromptAt("lock") /\ mutex = "none"
    /\ mutex' = "prompt" /\ ppc' = "typing"
    /\ UNCHANGED <<mainVars, page, farewell, cancel, toPrompt, toMain, serverVars>>

UserTypes ==
    /\ PromptRuns("typing") /\ Len(toMain) + Len(up) < MaxAhead
    /\ mutex' = "none" /\ ppc' = "line"
    /\ UNCHANGED <<mainVars, page, farewell, cancel, toPrompt, toMain, serverVars>>

(* The page needs another line: a field, a confirmation, a wrong choice.      *)
NeedsMore ==
    /\ PromptRuns("line") /\ ppc' = "lock"
    /\ UNCHANGED <<mainVars, page, farewell, cancel, mutex, toPrompt, toMain, serverVars>>

Asks(request, next) ==
    /\ PromptRuns("line") /\ ppc' = next /\ writeToMain(request)
    /\ UNCHANGED <<mainVarsButPc, page, farewell, cancel, mutex, serverVars>>

Leaves(signal) ==
    /\ PromptRuns("line") /\ ppc' = "final" /\ farewell' = signal
    /\ UNCHANGED <<mainVars, page, cancel, mutex, toPrompt, toMain, serverVars>>

promptConnection ==
    /\ page = "CONNECTION"
    /\ \/ Leaves("CLOSEAPP")
       \/ \E r \in {"CONNECTION", "RETRY"} : Asks(r, "read") /\ UNCHANGED toPrompt

promptLogin ==
    /\ page = "LOGIN"
    /\ \/ \E f \in {"DISCONNECT", "CLOSEAPP"} : Leaves(f)
       \/ \E r \in LoginRequests \cup {"RETRY"} : Asks(r, "read") /\ UNCHANGED toPrompt

promptHomepage ==
    /\ page = "CREATEROOM"
    /\ \E r \in HomeRequests \cup {"RETRY"} : Asks(r, "read") /\ UNCHANGED toPrompt

(* Mutant: after C_EXITROOM the page goes on, as after a guess. *)
promptRoomStays ==
    /\ page = "GUESSSKIP"
    /\ \/ Asks("EXITROOM", "lock") /\ toPrompt' = << >>
       \/ turn_flag = "guess" /\ Asks("GUESSSKIP", "lock") /\ UNCHANGED toPrompt
       \/ turn_flag = "choose" /\ Asks("SELECTWORD", "lock") /\ UNCHANGED toPrompt

(* The room page reads no mode until the user leaves the room, and then first *)
(* drops every mode that has come in meanwhile.                               *)
promptRoom ==
    /\ page = "GUESSSKIP"
    /\ \/ Asks("EXITROOM", "read") /\ toPrompt' = << >>
       \/ turn_flag = "guess" /\ Asks("GUESSSKIP", "lock") /\ UNCHANGED toPrompt
       \/ turn_flag = "choose" /\ Asks("SELECTWORD", "lock") /\ UNCHANGED toPrompt

SaysFarewell ==
    /\ PromptRuns("final") /\ ppc' = "sleep" /\ writeToMain(farewell)
    /\ UNCHANGED <<mainVarsButPc, page, farewell, cancel, mutex, toPrompt, serverVars>>

PromptEnds ==
    /\ PromptRuns("sleep") /\ ppc' = "ended"
    /\ UNCHANGED <<mainVars, page, farewell, cancel, mutex, toPrompt, toMain, serverVars>>

PromptDies ==
    /\ mpc \notin {"exited", "killed"} /\ cancel /\ ~PromptGone
    /\ ppc' = "cancelled" /\ cancel' = FALSE
    /\ UNCHANGED <<mainVars, page, farewell, mutex, toPrompt, toMain, serverVars>>

-----------------------------------------------------------------------------
(* The server: thrService and thrRoom, for this client.                       *)

(* What it sends once main is closing is never read, and is left out.         *)
ServerRuns(where) ==
    /\ mpc \in {"poll", "scan"}
    /\ serves \in where /\ Len(down) + Len(toPrompt) < MaxDown
    /\ UNCHANGED <<mainVars, promptVars, mutex, toPrompt, toMain>>

Greets ==
    /\ ServerRuns({"new"}) /\ serves' = "login"
    /\ down' = Append(down, "LOGINOK") /\ UNCHANGED <<up, smooth>>

(* What the server may do of a request: the page it serves next, its answers. *)
Replies(where, r) ==
    CASE where = "login" /\ r = "LOGIN" ->
            {<<"home", <<"HOMEPAGEOK">> >>, <<"login", <<"REFUSED">> >>}
      [] where = "login" /\ r = "SIGNIN" ->
            {<<"login", <<"LOGINOK">> >>, <<"login", <<"REFUSED">> >>}
      [] where = "home" /\ r = "CREATEROOM" ->
            {<<"room", <<"ROOMOK">> >>} \cup IF Fails /\ smooth THEN {<<"home", << >> >>} ELSE {}
      [] where = "home" /\ r = "JOINROOM" ->
            {<<"room", <<"ROOMOK">> >>, <<"home", <<"REFUSED">> >>}
      [] where = "home" /\ r = "LISTROOM" ->
            {<<"home", <<"LISTOK">> >>, <<"home", <<"LISTMORE", "LISTOK">> >>,
             <<"home", <<"REFUSED">> >>}
      [] where = "home" /\ r \in {"LOGOUT", "EXITROOM"} -> {<<"login", <<"LOGINOK">> >>}
      [] where = "home" /\ r \in Farewells -> {<<"home", << >> >>}
      [] where = "room" /\ r = "EXITROOM" -> {<<"home", <<"HOMEPAGEOK">> >>}
      [] where = "room" /\ r \in {"GUESSSKIP", "SELECTWORD"} -> {<<"room", << >> >>}
      [] OTHER -> {<<where, <<"REFUSED">> >>}

(* readFromClient, too, keeps the first message of a read().                  *)
Answers ==
    /\ ServerRuns({"login", "home", "room"}) /\ up # << >>
    /\ \E a \in Replies(serves, Head(up)), k \in Taken(up) :
          /\ serves' = a[1] /\ down' = down \o a[2]
          /\ up' = SubSeq(up, k + 1, Len(up))
          /\ smooth' = (smooth /\ k = 1 /\ (a[2] = << >> => serves = "room"))

(* The turns of a match, as the client sees them.                             *)
RoomSpeaks ==
    /\ ServerRuns({"room"}) /\ \E sig \in TurnSignals : down' = Append(down, sig)
    /\ UNCHANGED <<serves, up, smooth>>

RoomCloses ==
    /\ RoomsClose /\ smooth /\ ServerRuns({"room"}) /\ serves' = "home"
    /\ down' = Append(down, "HOMEPAGEOK") /\ smooth' = FALSE /\ UNCHANGED up

MessageIsCut ==
    /\ Fails /\ smooth /\ ServerRuns({"login", "home", "room"})
    /\ down' = Append(down, "COMMERROR") /\ smooth' = FALSE /\ UNCHANGED <<serves, up>>

ServerGoes ==
    /\ Fails /\ ServerRuns({"new", "login", "home", "room"})
    /\ serves' = "gone" /\ up' = << >>
    /\ down' \in {Append(down, "EOF"), <<"RST">>} /\ smooth' = FALSE

-----------------------------------------------------------------------------
Main ==
    \/ PollReturns \/ PollFails \/ PollTimesOut
    \/ \E fd \in {"prompt", "server"} : SlotFails(fd)
    \/ PromptSpeaks \/ ServerSpeaks
    \/ LockForClosing \/ deleteLocalSocket \/ CancelPrompt \/ UnlockAfterClosing
    \/ Restart

Prompt ==
    \/ ReadsMode \/ LocksInput \/ UserTypes \/ NeedsMore
    \/ promptConnection \/ promptLogin \/ promptHomepage \/ promptRoom
    \/ SaysFarewell \/ PromptEnds \/ PromptDies

Server == Greets \/ Answers \/ RoomSpeaks \/ RoomCloses \/ MessageIsCut \/ ServerGoes

Next == Main \/ Prompt \/ Server

Spec == Init /\ [][Next]_vars

(* Threads run.  The closing loop tries the mutex every 30 ms and the prompt  *)
(* sleeps as long between two lines, so that main gets it in the end.         *)
FairSpec ==
    /\ Spec
    /\ WF_vars(PollReturns \/ (\E fd \in {"prompt", "server"} : SlotFails(fd))
                \/ PromptSpeaks \/ ServerSpeaks \/ deleteLocalSocket
                \/ CancelPrompt \/ UnlockAfterClosing \/ Restart)
    /\ SF_vars(LockForClosing)
    /\ WF_vars(ReadsMode \/ SaysFarewell \/ PromptEnds \/ PromptDies)

-----------------------------------------------------------------------------
(* Properties *)

ClientTypeOK ==
    /\ mpc \in {"poll", "scan", "closing", "push", "cancel", "unlock", "restart",
               "exited", "killed"}
    /\ ready \subseteq {"prompt", "server"} /\ bad \subseteq {"prompt", "server"}
    /\ {end_poll_loop, end_main_loop, cancel, smooth} \subseteq BOOLEAN
    /\ turn_flag \in {"wait", "guess", "choose", "off"}
    /\ prompt_sd \in {"open", "closed"}
    /\ ppc \in {"first", "read", "lock", "typing", "line", "final", "sleep", "ended",
               "cancelled"}
    /\ page \in Pages /\ farewell \in Farewells
    /\ mutex \in {"none", "main", "prompt"}
    /\ toPrompt \in Seq(Modes)
    /\ toMain \in Seq(Requests \cup Farewells \cup {"CONNECTION", "RETRY"})
    /\ serves \in {"nobody", "new", "login", "home", "room", "gone"}
    /\ up \in Seq(Requests \cup Farewells) /\ down \in Seq(Signals)

PageOf(where) ==
    CASE where = "nobody" -> "CONNECTION" [] where = "login" -> "LOGIN"
      [] where = "home" -> "CREATEROOM" [] where = "room" -> "GUESSSKIP"
      [] OTHER -> "none"

Quiet == mpc = "poll" /\ toPrompt = << >> /\ toMain = << >> /\ up = << >> /\ down = << >>

(* When nothing is on its way and the user is at the keyboard, the page he    *)
(* has in front of him is the page the server serves to him (Prompt.c,        *)
(* PollSwitches.c), whichever one disturbance it has had.  Only the room page *)
(* may outlive its room, since the user leaves it only by asking for it.      *)
InStep ==
    Quiet /\ ppc = "typing" /\ serves # "gone" =>
        page = PageOf(serves) \/ (~smooth /\ page = "GUESSSKIP")

(* Every request on its way to the server is one of the page the server       *)
(* serves, however answers and turns cross it.                                *)
RequestsFitPage ==
    smooth => \A i \in 1 .. Len(up) :
        up[i] \in CASE serves = "login" -> LoginRequests
                    [] serves = "home" -> HomeRequests
                    [] serves = "room" -> RoomRequests
                    [] OTHER -> {}

(* The prompt is never left to wait for an answer that nobody owes it: with   *)
(* nothing on its way, it has the user's line or waits for one.               *)
PromptIsAnswered ==
    smooth /\ Quiet /\ serves \notin {"new", "gone"} => ppc # "read"

(* thrPrompt says what signal_num holds, which only a farewell has set        *)
(* (Prompt.c:177): main never acts on it when nothing has.                    *)
GarbageIsNeverRead ==
    mpc \in {"poll", "scan"} => \A i \in 1 .. Len(toMain) : toMain[i] # "GARBAGE"

(* "Si controlla prima che l'utente sia consapevole": the prompt is never     *)
(* cancelled, nor its socket closed by the closing loop, in the middle of a   *)
(* line.                                                                      *)
CancelSparesTyping ==
    [][ (cancel' /\ ~cancel) \/ deleteLocalSocket => ppc # "typing" ]_vars

Over == mpc \in {"exited", "killed"}

(* The prompt was cancelled between taking the mutex and giving it back: no   *)
(* prompt of this process will read a line again.                             *)
Orphaned == mutex = "prompt" /\ ppc # "typing"

(* A user who leaves, from the connection or the login page, gets out: the    *)
(* session ends, also when the server speaks at the same time and its handler *)
(* writes 0 over the end_poll_loop that the farewell had set.                 *)
EndsWhenAsked == farewell # "GARBAGE" ~> (farewell = "GARBAGE" \/ Over)

(* When the server goes, the client ends the session, if the user finishes    *)
(* the line he is typing.                                                     *)
LossEndsSession ==
    []<>(ppc # "typing") => (serves = "gone" ~> (serves # "gone" \/ Over \/ Orphaned))

(* MainClient.c:162, "Nessuna risposta dal server o dall'utente. Riavvio.":   *)
(* when the poll times out while the prompt waits for the server's answer,    *)
(* the S_DISCONNECT it is sent ends the session.                              *)
TimeoutRestarts ==
    (ppc = "read" /\ \E i \in 1 .. Len(toPrompt) : toPrompt[i] = "DISCONNECT")
        ~> mpc \notin {"poll", "scan"}
=============================================================================
