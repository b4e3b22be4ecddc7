--------------------------- MODULE AccountsProofs ---------------------------
(***************************************************************************)
(* Proofs about Accounts, for any services, names, passwords and failures.   *)
(* Behind what the homepage promises stands the mutex: whoever works on the  *)
(* connection holds it, so a result is read by the one who asked for it; and *)
(* the primary key: no row that a service has matched changes afterwards,    *)
(* while every INSERT is of a plain row.                                     *)
(***************************************************************************)
EXTENDS Accounts, TLAPS

(* Whoever works on the connection holds its mutex. *)
WorkersHoldMutex ==
    \A s \in Services : pc[s] \in {"select", "fetch", "insert"} => db_mutex = s

(* A service that works on a request bears the name it was given. *)
NameOfRequest ==
    \A s \in Services :
        pc[s] \in {"lock", "select", "fetch", "insert", "yes"} =>
            username[s] = request[s].user

IInv ==
    /\ AccountsTypeOK
    /\ WorkersHoldMutex
    /\ ResultsNotMixed
    /\ NameOfRequest
    /\ RegisteredOwnName
    /\ HomeIsAuthenticated

(* A new row leaves the others as they are, and the table typed. *)
LEMMA RowKeeps ==
    ASSUME NEW n \in Names, NEW p \in Passwords,
           DOMAIN profile \subseteq Names,
           \A x \in DOMAIN profile : profile[x] \in Passwords,
           n \notin DOMAIN profile, profile' = Row(n, p)
    PROVE  /\ DOMAIN profile' \subseteq Names
           /\ \A x \in DOMAIN profile' : profile'[x] \in Passwords
           /\ \A x \in DOMAIN profile : x \in DOMAIN profile' /\ profile'[x] = profile[x]
           /\ n \in DOMAIN profile' /\ profile'[n] = p
  BY DEF Row

(* Initially nobody works and nobody is inside. *)
LEMMA InitIInv == Init => IInv
  BY AccountsAssumption
  DEF Init, IInv, AccountsTypeOK, WorkersHoldMutex, ResultsNotMixed, NameOfRequest,
      RegisteredOwnName, HomeIsAuthenticated, Matches, Plain

(* What the table holds of a service s stays true when rows are kept. *)
LEMMA MatchesKept ==
    ASSUME NEW r, Matches(r),
           \A x \in DOMAIN profile : x \in DOMAIN profile' /\ profile'[x] = profile[x]
    PROVE  Name(r.user) \in DOMAIN profile' /\ profile'[Name(r.user)] = r.password
  BY DEF Matches

(* The steps of a client and of the threads that leave the table alone. *)
LEMMA QuietSteps ==
    ASSUME IInv, NEW s \in Services, UNCHANGED profile,
           \/ Accepts(s) \/ Disconnects(s) \/ (\E r \in Requests : Submits(s, r))
           \/ LocksDb(s) \/ SelectStarts(s) \/ SelectFetches(s)
           \/ SelectFails(s) \/ LogsIn(s) \/ SignsIn(s) \/ Denies(s)
           \/ LogsOut(s) \/ EntersRoom(s) \/ Returns(s)
    PROVE  IInv'
  <1> USE DEF IInv, AccountsTypeOK, WorkersHoldMutex, ResultsNotMixed, NameOfRequest,
              RegisteredOwnName, HomeIsAuthenticated, dbVars, pageVars, Goto, Matches, Plain
  <1>1. CASE Accepts(s)  BY <1>1 DEF Accepts
  <1>2. CASE Disconnects(s)  BY <1>2 DEF Disconnects
  <1>3. CASE \E r \in Requests : Submits(s, r)
    <2>1. PICK r \in Requests : Submits(s, r)  BY <1>3
    <2>2. r \in Requests /\ r.user \in Users  BY DEF Requests
    <2> HIDE DEF Requests
    <2>3. /\ pc[s] = "read" /\ page[s] = "login"
          /\ pc' = [pc EXCEPT ![s] = "lock"]
          /\ request' = [request EXCEPT ![s] = r]
          /\ username' = [username EXCEPT ![s] = r.user]
          /\ UNCHANGED <<profile, db_mutex, result, errors, intact, page>>
      BY <2>1 DEF Submits
    <2>4. AccountsTypeOK'  BY <2>2, <2>3, AccountsAssumption
    <2>5. WorkersHoldMutex' /\ ResultsNotMixed' /\ NameOfRequest'  BY <2>2, <2>3
    <2>6. RegisteredOwnName' /\ HomeIsAuthenticated'  BY <2>2, <2>3
    <2> QED  BY <2>4, <2>5, <2>6
  <1>5. CASE LocksDb(s)  BY <1>5, AccountsAssumption DEF LocksDb
  <1>6. CASE SelectStarts(s)  BY <1>6 DEF SelectStarts
  <1>7. CASE SelectFetches(s)
    <2> HIDE DEF Matches, Plain
    <2>1. /\ pc[s] = "fetch" /\ result' = NULL /\ db_mutex' = NULL
          /\ UNCHANGED <<profile, intact, page, request, username>>
          /\ errors' = errors \/ (errors < MaxErrors /\ errors' = errors + 1)
          /\ \E there \in {"yes", "no"} : pc' = [pc EXCEPT ![s] = there]
      BY <1>7 DEF SelectFetches
    <2>2. pc'[s] = "yes" /\ Plain(request[s]) => Matches(request[s])
      BY <1>7 DEF SelectFetches, Found
    <2>3. errors' \in 0 .. MaxErrors
      BY <2>1, AccountsAssumption
    <2>4. AccountsTypeOK'  BY <2>1, <2>3
    <2>5. WorkersHoldMutex' /\ ResultsNotMixed' /\ NameOfRequest'  BY <2>1
    <2>6. RegisteredOwnName' /\ HomeIsAuthenticated'
      BY <2>1, <2>2 DEF Plain, Matches
    <2> QED  BY <2>4, <2>5, <2>6
  <1>8. CASE SelectFails(s)  BY <1>8, AccountsAssumption DEF SelectFails
  <1>9. CASE LogsIn(s)  BY <1>9 DEF LogsIn
  <1>10. CASE SignsIn(s)  BY <1>10 DEF SignsIn
  <1>11. CASE Denies(s)  BY <1>11 DEF Denies
  <1>12. CASE LogsOut(s)  BY <1>12 DEF LogsOut
  <1>13. CASE EntersRoom(s)  BY <1>13 DEF EntersRoom
  <1>14. CASE Returns(s)  BY <1>14 DEF Returns
  <1> QED  BY <1>1, <1>2, <1>3, <1>5, <1>6, <1>7, <1>8, <1>9, <1>10, <1>11,
              <1>12, <1>13, <1>14

(* The steps that may register a name. *)
LEMMA InsertSteps ==
    ASSUME IInv, NEW s \in Services, InsertRow(s) \/ InsertFails(s) \/ InsertOther(s)
    PROVE  /\ IInv'
           /\ intact' => \A n \in DOMAIN profile : n \in DOMAIN profile' /\ profile'[n] = profile[n]
  <1> DEFINE r == request[s]
  <1>1. /\ pc[s] = "insert" /\ r \in Requests /\ Name(r.user) \in Names
        /\ r.password \in Passwords
    BY DEF InsertRow, InsertFails, InsertOther, IInv, AccountsTypeOK, Requests, Names, Name
  <1>2. intact' =>
           /\ intact
           /\ \/ UNCHANGED profile
              \/ Name(r.user) \notin DOMAIN profile /\ profile' = Row(Name(r.user), r.password)
    BY DEF InsertRow, InsertFails, InsertOther
  <1>3. intact' =>
           /\ DOMAIN profile' \subseteq Names
           /\ \A x \in DOMAIN profile' : profile'[x] \in Passwords
           /\ \A x \in DOMAIN profile : x \in DOMAIN profile' /\ profile'[x] = profile[x]
    BY <1>1, <1>2, RowKeeps DEF IInv, AccountsTypeOK
  <1>4. intact' /\ pc'[s] = "yes" =>
            Name(r.user) \in DOMAIN profile' /\ profile'[Name(r.user)] = r.password
    BY <1>1, <1>2, RowKeeps DEF InsertRow, InsertFails, InsertOther, IInv, AccountsTypeOK, Goto
  <1>5. intact' => \A q : Matches(q) =>
            Name(q.user) \in DOMAIN profile' /\ profile'[Name(q.user)] = q.password
    BY <1>3, MatchesKept
  <1>6. /\ UNCHANGED <<result, page, request, username>>
        /\ db_mutex' = NULL /\ db_mutex = s
        /\ errors' \in 0 .. MaxErrors /\ intact' \in BOOLEAN
        /\ \E there \in {"yes", "no"} : pc' = [pc EXCEPT ![s] = there]
    <2> USE DEF IInv, AccountsTypeOK, WorkersHoldMutex, pageVars, Goto
    <2>1. CASE InsertRow(s)  BY <1>1, <2>1 DEF InsertRow
    <2>2. CASE InsertFails(s)  BY <1>1, <2>2, AccountsAssumption DEF InsertFails
    <2>3. CASE InsertOther(s)  BY <1>1, <2>3 DEF InsertOther
    <2> QED  BY <2>1, <2>2, <2>3
  <1>7. ~intact' =>
           /\ DOMAIN profile' \subseteq Names
           /\ \A x \in DOMAIN profile' : profile'[x] \in Passwords
    <2>1. \A T \in Tables : DOMAIN T \subseteq Names /\ \A x \in DOMAIN T : T[x] \in Passwords
      BY DEF Tables
    <2>2. CASE InsertOther(s)  BY <2>1, <2>2 DEF InsertOther
    <2>3. CASE InsertRow(s) \/ InsertFails(s)
      BY <1>1, <2>3, RowKeeps DEF InsertRow, InsertFails, IInv, AccountsTypeOK
    <2> QED  BY <2>2, <2>3
  <1>8. AccountsTypeOK'
    BY <1>1, <1>3, <1>6, <1>7 DEF IInv, AccountsTypeOK
  <1>9. WorkersHoldMutex' /\ ResultsNotMixed' /\ NameOfRequest'
    BY <1>1, <1>6
    DEF IInv, AccountsTypeOK, WorkersHoldMutex, ResultsNotMixed, NameOfRequest
  <1>10. RegisteredOwnName'
    <2> SUFFICES ASSUME NEW t \in Services, pc'[t] = "yes", intact', Plain(request[t])'
                 PROVE  Matches(request[t])'
      BY DEF RegisteredOwnName
    <2>1. CASE t = s  BY <2>1, <1>4, <1>6 DEF Matches
    <2>2. CASE t # s
      <3>1. Matches(request[t])
        BY <2>2, <1>2, <1>6 DEF IInv, AccountsTypeOK, RegisteredOwnName, Plain
      <3> QED  BY <3>1, <1>5, <1>6 DEF Matches
    <2> QED  BY <2>1, <2>2
  <1>11. HomeIsAuthenticated'
    <2> SUFFICES ASSUME NEW t \in Services, page[t] \in {"home", "room"}
                 PROVE  /\ username[t] = request[t].user
                        /\ intact' /\ Plain(request[t])' => Matches(request[t])'
      BY <1>6 DEF HomeIsAuthenticated
    <2>1. username[t] = request[t].user /\ (intact /\ Plain(request[t]) => Matches(request[t]))
      BY DEF IInv, HomeIsAuthenticated
    <2> QED  BY <2>1, <1>2, <1>5, <1>6 DEF Matches, Plain
  <1> QED  BY <1>3, <1>8, <1>9, <1>10, <1>11 DEF IInv

(* A step that is not an insertion leaves the table alone. *)
LEMMA StepSplits ==
    ASSUME NEW s \in Services,
           \/ Accepts(s) \/ Disconnects(s) \/ (\E r \in Requests : Submits(s, r))
           \/ Works(s) \/ LogsOut(s) \/ EntersRoom(s) \/ Returns(s),
           ~(InsertRow(s) \/ InsertFails(s) \/ InsertOther(s))
    PROVE  UNCHANGED profile
  BY DEF Works, Accepts, Disconnects, Submits, LocksDb, SelectStarts,
         SelectFetches, SelectFails, LogsIn, SignsIn, Denies, LogsOut, EntersRoom,
         Returns, dbVars, pageVars

(* Every step preserves the invariant and keeps the registered names. *)
LEMMA StepIInv ==
    ASSUME IInv, [Next]_vars
    PROVE  /\ IInv'
           /\ intact' => \A n \in DOMAIN profile : n \in DOMAIN profile' /\ profile'[n] = profile[n]
  <1>1. CASE UNCHANGED vars
    BY <1>1
    DEF vars, IInv, AccountsTypeOK, WorkersHoldMutex, ResultsNotMixed, NameOfRequest,
        RegisteredOwnName, HomeIsAuthenticated, Matches, Plain
  <1>2. CASE Next
    <2>1. PICK s \in Services :
            \/ Accepts(s) \/ Disconnects(s) \/ (\E r \in Requests : Submits(s, r))
            \/ Works(s) \/ LogsOut(s) \/ EntersRoom(s) \/ Returns(s)
      BY <1>2 DEF Next
    <2>2. CASE InsertRow(s) \/ InsertFails(s) \/ InsertOther(s)  BY <2>2, InsertSteps
    <2>3. CASE ~(InsertRow(s) \/ InsertFails(s) \/ InsertOther(s))
      <3>1. UNCHANGED profile  BY <2>1, <2>3, StepSplits
      <3>2. IInv'  BY <3>1, <2>1, <2>3, QuietSteps DEF Works
      <3> QED  BY <3>1, <3>2
    <2> QED  BY <2>2, <2>3
  <1> QED  BY <1>1, <1>2

(* The inductive invariant holds. *)
THEOREM AccountsInvariant == Spec => []IInv
  BY InitIInv, StepIInv, PTL DEF Spec

(* Every variable of Accounts keeps its type. *)
THEOREM AccountsTyped == Spec => []AccountsTypeOK
  BY AccountsInvariant, PTL DEF IInv

(* A result set is read by the service that asked for it, with no query of   *)
(* another service in between.                                               *)
THEOREM ResultsKeptApart == Spec => []ResultsNotMixed
  BY AccountsInvariant, PTL DEF IInv

(* Whoever is on the homepage or in a room bears the name he logged in with,  *)
(* and has given the password of that account if the name is a plain one and *)
(* every INSERT so far has been of a plain row.                              *)
THEOREM OnlyTheRegisteredEnter == Spec => []HomeIsAuthenticated
  BY AccountsInvariant, PTL DEF IInv

(* A registration that is confirmed is the one in the table, while every      *)
(* INSERT has been of a plain row.                                           *)
THEOREM RegistrationIsExclusive == Spec => []RegisteredOwnName
  BY AccountsInvariant, PTL DEF IInv

(* No registered name is lost or gets another password, while every INSERT    *)
(* has been of a plain row.                                                  *)
THEOREM NamesNeverChange == Spec => NamesAreKept
  BY AccountsInvariant, StepIInv, PTL DEF Spec, NamesAreKept

=============================================================================
