------------------------------ MODULE Accounts ------------------------------
(***************************************************************************)
(* Registration and login: the service threads (thrService, the login page), *)
(* signin and login of LogicSigninLogin.c, and the one MySQL connection they *)
(* share under db_mutex (selectQuery, insertQuery of MySqlUtil.c).           *)
(*                                                                         *)
(* The database is a function from the registered names to their passwords:  *)
(* username is the primary key of Profile, and its collation ignores case    *)
(* and accents, while strcmp compares the passwords.  A query may fail; a    *)
(* failed INSERT may have been carried out.                                  *)
(*                                                                         *)
(* sprintf puts what the client typed between quotes and changes nothing in   *)
(* it, and no parser refuses a quote or a backslash, so that a name such as  *)
(* d'Arco does not reach the database as it is: the statement is another one, *)
(* or none.  The model does not parse it: such a SELECT may fail or find      *)
(* anything, and such an INSERT may leave any table behind.  The history      *)
(* variable intact tells whether every INSERT so far was of a plain row.      *)
(*                                                                         *)
(* The signals a service answers with are left out, and with them the         *)
(* requests that loginParser or the login page refuses, which change nothing. *)
(***************************************************************************)
EXTENDS Naturals

CONSTANTS
    Services,   \* the service threads, one per connected client
    Users,      \* what they type as a username: <<the name as the database
                \* compares it, one of the ways to write it>>
    Passwords,  \* the passwords they type
    Quoted,     \* those of both in which there is a quote or a backslash
    MaxErrors,  \* bound: failures of the database
    NULL

Name(u) == u[1]
Names == {Name(u) : u \in Users}

Requests == [kind : {"C_LOGIN", "C_SIGNIN"}, user : Users, password : Passwords]

ASSUME AccountsAssumption ==
    /\ NULL \notin Services \cup Users
    /\ NULL \notin Requests
    /\ Quoted \subseteq Users \cup Passwords
    /\ MaxErrors \in Nat

VARIABLES
    profile,   \* the table Profile
    db_mutex,  \* the service that holds it
    result,    \* the service whose result set is open on the connection
    errors,    \* failures of the database so far
    pc,        \* where each service is
    page,      \* the loop a service is in; "room": its player is in a room
    request,   \* the credentials a service works on, or that let its player in
    username,  \* username of each service
    intact     \* history: every INSERT so far has been of a plain row

vars == <<profile, db_mutex, result, errors, pc, page, request, username, intact>>
dbVars == <<profile, db_mutex, result, errors, intact>>
pageVars == <<page, request, username>>

Goto(s, there) == pc' = [pc EXCEPT ![s] = there]

(* A table with one more row. *)
Row(n, p) == [x \in DOMAIN profile \cup {n} |-> IF x = n THEN p ELSE profile[x]]

Tables == UNION {[N -> Passwords] : N \in SUBSET Names}

(* A request whose strings reach the database as they are.  A SELECT is made  *)
(* of the name alone.                                                        *)
Plain(r) == r.user \notin Quoted /\ (r.kind = "C_SIGNIN" => r.password \notin Quoted)

-----------------------------------------------------------------------------

Init ==
    /\ profile = [n \in {} |-> NULL]
    /\ db_mutex = NULL /\ result = NULL /\ errors = 0
    /\ pc = [s \in Services |-> "read"]
    /\ page = [s \in Services |-> "closed"]
    /\ request = [s \in Services |-> NULL]
    /\ username = [s \in Services |-> NULL]
    /\ intact = TRUE

(* acceptLoop starts a service for a new client. *)
Accepts(s) ==
    /\ page[s] = "closed"
    /\ page' = [page EXCEPT ![s] = "login"]
    /\ UNCHANGED <<dbVars, pc, request, username>>

(* The client has gone, or asks to go, or reading from it fails. *)
Disconnects(s) ==
    /\ pc[s] = "read" /\ page[s] \in {"login", "home"}
    /\ page' = [page EXCEPT ![s] = "closed"]
    /\ request' = [request EXCEPT ![s] = NULL]
    /\ username' = [username EXCEPT ![s] = NULL]
    /\ UNCHANGED <<dbVars, pc>>

(* loginParser copies the name before the query is made. *)
Submits(s, r) ==
    /\ pc[s] = "read" /\ page[s] = "login"
    /\ request' = [request EXCEPT ![s] = r]
    /\ username' = [username EXCEPT ![s] = r.user]
    /\ Goto(s, "lock")
    /\ UNCHANGED <<dbVars, page>>

-----------------------------------------------------------------------------
(* selectQuery and insertQuery. *)

LocksDb(s) ==
    /\ pc[s] = "lock" /\ db_mutex = NULL
    /\ db_mutex' = s
    /\ Goto(s, IF request[s].kind = "C_LOGIN" THEN "select" ELSE "insert")
    /\ UNCHANGED <<profile, result, errors, intact, pageVars>>

(* Mutant: the mutex protects the query only, not what it returns. *)
SelectUnlocksEarly(s) ==
    /\ pc[s] = "select"
    /\ result' = s /\ db_mutex' = NULL
    /\ Goto(s, "fetch")
    /\ UNCHANGED <<profile, errors, intact, pageVars>>

SelectStarts(s) ==
    /\ pc[s] = "select"
    /\ result' = s
    /\ Goto(s, "fetch")
    /\ UNCHANGED <<profile, db_mutex, errors, intact, pageVars>>

(* mysql_query, mysql_use_result or mysql_fetch_lengths fails, or what was    *)
(* sent is not a statement: selectQuery returns without unlocking.           *)
SelectFails(s) ==
    /\ pc[s] \in {"select", "fetch"}
    /\ \/ errors < MaxErrors /\ errors' = errors + 1
       \/ ~Plain(request[s]) /\ UNCHANGED errors
    /\ Goto(s, "no")
    /\ UNCHANGED <<profile, db_mutex, result, intact, pageVars>>

Matches(r) == Name(r.user) \in DOMAIN profile /\ profile[Name(r.user)] = r.password

(* Mutant: a row is enough, whatever its password. *)
SelectTrusts(s) ==
    /\ pc[s] = "fetch"
    /\ result' = NULL /\ db_mutex' = NULL
    /\ Goto(s, IF Name(request[s].user) \in DOMAIN profile THEN "yes" ELSE "no")
    /\ UNCHANGED <<profile, errors, intact, pageVars>>

(* Whether a row with the password has come. *)
Found(r) == IF Plain(r) THEN {Matches(r)} ELSE BOOLEAN

(* An error of mysql_fetch_row looks like the end of the rows: if it comes    *)
(* before the row that matches, there is none.                               *)
SelectFetches(s) ==
    /\ pc[s] = "fetch"
    /\ result' = NULL /\ db_mutex' = NULL
    /\ \/ \E found \in Found(request[s]) : Goto(s, IF found THEN "yes" ELSE "no")
          /\ UNCHANGED errors
       \/ Goto(s, "no") /\ errors < MaxErrors /\ errors' = errors + 1
    /\ UNCHANGED <<profile, intact, pageVars>>

(* Mutant: a duplicate key is no error. *)
InsertForgives(s) ==
    LET r == request[s] IN
    /\ pc[s] = "insert"
    /\ Goto(s, "yes") /\ db_mutex' = NULL
    /\ profile' = IF Name(r.user) \in DOMAIN profile THEN profile
                  ELSE Row(Name(r.user), r.password)
    /\ UNCHANGED <<result, errors, intact, pageVars>>

InsertRow(s) ==
    LET r == request[s] IN
    /\ pc[s] = "insert" /\ Plain(r)
    /\ IF Name(r.user) \in DOMAIN profile
       THEN Goto(s, "no") /\ UNCHANGED profile
       ELSE Goto(s, "yes") /\ profile' = Row(Name(r.user), r.password)
    /\ db_mutex' = NULL
    /\ UNCHANGED <<result, errors, intact, pageVars>>

InsertFails(s) ==
    LET r == request[s] IN
    /\ pc[s] = "insert" /\ Plain(r) /\ errors < MaxErrors
    /\ errors' = errors + 1
    /\ \/ UNCHANGED profile
       \/ Name(r.user) \notin DOMAIN profile /\ profile' = Row(Name(r.user), r.password)
    /\ db_mutex' = NULL
    /\ Goto(s, "no")
    /\ UNCHANGED <<result, intact, pageVars>>

(* What is carried out is not the INSERT of a row, or nothing is.            *)
InsertOther(s) ==
    /\ pc[s] = "insert" /\ ~Plain(request[s])
    /\ profile' \in Tables /\ intact' = FALSE
    /\ db_mutex' = NULL
    /\ \E there \in {"yes", "no"} : Goto(s, there)
    /\ UNCHANGED <<result, errors, pageVars>>

-----------------------------------------------------------------------------
(* login and signin answer; a login that succeeds opens the homepage.        *)

(* Mutant: the break after a login is missing, and signin is called next. *)
LogsInFallsThrough(s) ==
    /\ pc[s] = "yes" /\ request[s].kind = "C_LOGIN"
    /\ page' = [page EXCEPT ![s] = "home"]
    /\ request' = [request EXCEPT ![s].kind = "C_SIGNIN"]
    /\ Goto(s, "lock")
    /\ UNCHANGED <<dbVars, username>>

LogsIn(s) ==
    /\ pc[s] = "yes" /\ request[s].kind = "C_LOGIN"
    /\ page' = [page EXCEPT ![s] = "home"]
    /\ Goto(s, "read")
    /\ UNCHANGED <<dbVars, request, username>>

SignsIn(s) ==
    /\ pc[s] = "yes" /\ request[s].kind = "C_SIGNIN"
    /\ request' = [request EXCEPT ![s] = NULL]
    /\ Goto(s, "read")
    /\ UNCHANGED <<dbVars, page, username>>

(* Mutant: a query that finds nothing is made again. *)
DeniesNever(s) ==
    /\ pc[s] = "no"
    /\ Goto(s, "lock")
    /\ UNCHANGED <<dbVars, pageVars>>

Denies(s) ==
    /\ pc[s] = "no"
    /\ request' = [request EXCEPT ![s] = NULL]
    /\ username' = [username EXCEPT ![s] = NULL]
    /\ Goto(s, "read")
    /\ UNCHANGED <<dbVars, page>>

(* C_LOGOUT, and C_EXITROOM outside of a room. *)
LogsOut(s) ==
    /\ pc[s] = "read" /\ page[s] = "home"
    /\ request' = [request EXCEPT ![s] = NULL]
    /\ username' = [username EXCEPT ![s] = NULL]
    /\ page' = [page EXCEPT ![s] = "login"]
    /\ UNCHANGED <<dbVars, pc>>

(* The service ends when its player enters a room, and rebuildService starts *)
(* another one, under the same name, when the player comes back.             *)
EntersRoom(s) ==
    /\ pc[s] = "read" /\ page[s] = "home"
    /\ page' = [page EXCEPT ![s] = "room"]
    /\ UNCHANGED <<dbVars, pc, request, username>>

Returns(s) ==
    /\ page[s] = "room"
    /\ page' = [page EXCEPT ![s] = "home"]
    /\ UNCHANGED <<dbVars, pc, request, username>>

-----------------------------------------------------------------------------

(* What a service does of its own accord once it has read a request. *)
Works(s) ==
    \/ LocksDb(s) \/ SelectStarts(s) \/ SelectFetches(s) \/ SelectFails(s)
    \/ InsertRow(s) \/ InsertFails(s) \/ InsertOther(s) \/ LogsIn(s) \/ SignsIn(s) \/ Denies(s)

Next ==
    \E s \in Services :
        \/ Accepts(s) \/ Disconnects(s)
        \/ \E r \in Requests : Submits(s, r)
        \/ Works(s)
        \/ LogsOut(s) \/ EntersRoom(s) \/ Returns(s)

Spec == Init /\ [][Next]_vars

(* The threads are scheduled, and a mutex that is released again and again   *)
(* is granted to each thread that waits for it.  No client has to ask.       *)
FairSpec ==
    /\ Spec
    /\ \A s \in Services : WF_vars(Works(s)) /\ SF_vars(LocksDb(s))

-----------------------------------------------------------------------------
(* Properties. *)

(* The variables have their types, and a service that works on a request has *)
(* read one.                                                                 *)
AccountsTypeOK ==
    /\ DOMAIN profile \subseteq Names
    /\ \A n \in DOMAIN profile : profile[n] \in Passwords
    /\ db_mutex \in Services \cup {NULL} /\ result \in Services \cup {NULL}
    /\ errors \in 0 .. MaxErrors /\ intact \in BOOLEAN
    /\ pc \in [Services -> {"read", "lock", "select", "fetch", "insert", "yes", "no"}]
    /\ page \in [Services -> {"closed", "login", "home", "room"}]
    /\ request \in [Services -> Requests \cup {NULL}]
    /\ username \in [Services -> Users \cup {NULL}]
    /\ \A s \in Services : pc[s] # "read" => page[s] = "login" /\ request[s] # NULL

(* No query is sent while the result of another one is being read: MySQL     *)
(* refuses commands out of that order.                                       *)
ResultsNotMixed == \A s \in Services : pc[s] = "fetch" => result = s

(* Whoever is on the homepage or in a room bears the name he logged in with, *)
(* and still does when he comes back; and he has logged in with the password *)
(* of that account, if the SELECT was of a plain name and no INSERT has been  *)
(* of anything but a plain row.  Of a name with a quote in it the code        *)
(* promises nothing.                                                         *)
HomeIsAuthenticated ==
    \A s \in Services : page[s] \in {"home", "room"} =>
        /\ username[s] = request[s].user
        /\ intact /\ Plain(request[s]) => Matches(request[s])

(* A name, once registered, keeps its password: two registrations of one     *)
(* name never both take effect, while no INSERT has been of anything but a   *)
(* plain row.                                                                *)
NamesAreKept ==
    [][intact' => \A n \in DOMAIN profile : n \in DOMAIN profile' /\ profile'[n] = profile[n]]_vars

(* Whoever is told that he is registered owns the name he asked for, also    *)
(* when somebody else asks for it at the same time, while no INSERT has been *)
(* of anything but a plain row.                                              *)
RegisteredOwnName ==
    \A s \in Services :
        pc[s] = "yes" /\ intact /\ Plain(request[s]) => Matches(request[s])

(* The thread that has locked db_mutex has left the query with it. *)
MutexAbandoned ==
    db_mutex # NULL /\ pc[db_mutex] \notin {"select", "fetch", "insert"}

(* Every login and every registration is answered, unless a SELECT fails     *)
(* first, which one of a name with a quote in it does by itself: waiting for  *)
(* the database in turn starves nobody.                                      *)
AnsweredUnlessAbandoned ==
    \A s \in Services : pc[s] = "lock" ~> (pc[s] = "read" \/ MutexAbandoned)

=============================================================================
