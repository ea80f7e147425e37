-------------------------- MODULE AccountsProofs --------------------------
(***************************************************************************)
(* One user a name, and no token outlives its account, for any number of   *)
(* requests, names and passwords and any lifetime of a token.              *)
(***************************************************************************)
EXTENDS Accounts, TLAPS

USE ClockAssumption, FaultsAssumption, NoTokenAssumption

\* Accounts are only added, by a registration at its commit, or deactivated.
Keeps ==
    \A n \in Names, p \in Passwords : HasAccount(n, p) => HasAccount(n, p)'

-----------------------------------------------------------------------------
(***************************************************************************)
(* Types.                                                                  *)
(***************************************************************************)
LEMMA InitTypeOK == Init => TypeOK
  BY DEF Init, TypeOK, Shape, Request

\* The requests that only move on: no account changes, and the request does not.
LEMMA MoveType ==
  ASSUME TypeOK, NEW r \in Reqs,
         FindName(r) \/ RefreshUser(r) \/ FindLogin(r) \/ FindUser(r) \/ Act(r) \/ DbFails(r)
  PROVE  TypeOK'
  <1>0. pc[r] = "register_refresh" /\ Settle(r) => created' \in [Names -> SUBSET Passwords]
    <2> SUFFICES ASSUME pc[r] = "register_refresh", Settle(r)
                 PROVE  created' \in [Names -> SUBSET Passwords]
      OBVIOUS
    <2>1. req[r] \in [op : {"register"}, name : Names, password : Passwords]
      BY DEF TypeOK, Shape, Request
    <2> QED
      BY <2>1 DEF Settle, TypeOK
  <1>1. CASE FindName(r)
    BY <1>1 DEF FindName, TypeOK, Shape, Goto, Answer, tables, HasAccount
  <1>2. CASE RefreshUser(r)
    <2>1. created' \in [Names -> SUBSET Passwords]
      BY <1>0, <1>2 DEF RefreshUser
    <2> QED
      BY <1>2, <2>1 DEF RefreshUser, TypeOK, Shape, Answer, tables, HasAccount
  <1>3. CASE FindLogin(r)
    <2>1. tokens' \subseteq Token
      BY <1>3 DEF FindLogin, TypeOK, Token, User, Matching, Account, tables
    <2> QED
      BY <1>3, <2>1 DEF FindLogin, TypeOK, Shape, Answer, tables, HasAccount
  <1>4. CASE FindUser(r)
    BY <1>4 DEF FindUser, TypeOK, Shape, Goto, Answer, tables, HasAccount
  <1>5. CASE Act(r)
    BY <1>5 DEF Act, TypeOK, Shape, Answer, tables, HasAccount
  <1>6. CASE DbFails(r)
    <2>1. created' \in [Names -> SUBSET Passwords]
      BY <1>0, <1>6 DEF DbFails, TypeOK
    <2> QED
      BY <1>6, <2>1 DEF DbFails, TypeOK, Shape, Answer, tables, HasAccount
  <1> QED
    BY <1>1, <1>2, <1>3, <1>4, <1>5, <1>6

LEMMA StartType ==
  ASSUME TypeOK, NEW r \in Reqs,
         StartRegister(r) \/ StartLogin(r) \/ StartCall(r) \/ Deliver(r)
  PROVE  TypeOK'
  <1>1. CASE StartRegister(r)
    BY <1>1 DEF StartRegister, TypeOK, Shape, Goto, tables, HasAccount, Request
  <1>2. CASE StartLogin(r)
    BY <1>2 DEF StartLogin, TypeOK, Shape, Goto, tables, HasAccount, Request
  <1>3. CASE StartCall(r)
    <2>1. PICK t \in tokens \cup {NoToken} :
            /\ req' = [req EXCEPT ![r] = [op |-> "call", token |-> t]]
            /\ IF Decodes(t) THEN Goto(r, "call_find") ELSE Answer(r, "unauthorized")
      BY <1>3 DEF StartCall
    <2>2. t \in Token \cup {NoToken} /\ (Decodes(t) => t \in Token)
      BY DEF TypeOK, Decodes
    <2>3. [op |-> "call", token |-> t] \in Request
      BY <2>2 DEF Request
    <2> QED
      BY <1>3, <2>1, <2>2, <2>3 DEF StartCall, TypeOK, Shape, Goto, Answer, tables, HasAccount
  <1>4. CASE Deliver(r)
    BY <1>4 DEF Deliver, TypeOK, Shape, tables, HasAccount, Request
  <1> QED
    BY <1>1, <1>2, <1>3, <1>4

LEMMA InsertType ==
  ASSUME TypeOK, NEW r \in Reqs, InsertUser(r)
  PROVE  TypeOK' /\ Keeps
  <1>1. req[r] \in [op : {"register"}, name : Names, password : Passwords]
    BY DEF InsertUser, TypeOK, Shape, Request
  <1>2. CASE UNCHANGED tables
    BY <1>2 DEF InsertUser, OnViolation, TypeOK, Shape, Answer, tables, HasAccount, Keeps, Goto
  <1>3. CASE ~Violates(req[r].name)
    <2> DEFINE u == [id |-> lastUser + 1, name |-> req[r].name,
                     password |-> req[r].password, is_active |-> TRUE]
    <2>1. users' = users \cup {u} /\ lastUser' = lastUser + 1 /\ Goto(r, "register_refresh")
      BY <1>3 DEF InsertUser
    <2>2. u \in User /\ u.name = req[r].name /\ u.password = req[r].password
      BY <1>1 DEF TypeOK, User
    <2> HIDE DEF u
    <2>3. Keeps
      BY <2>1 DEF Keeps, HasAccount
    <2>4. HasAccount(req[r].name, req[r].password)'
      BY <2>1, <2>2 DEF HasAccount, InsertUser
    <2>5. \A q \in Reqs : Shape(q)'
      <3> SUFFICES ASSUME NEW q \in Reqs PROVE Shape(q)'
        OBVIOUS
      <3>1. req' = req
        BY DEF InsertUser
      <3>2. CASE q = r
        BY <1>1, <2>1, <2>4, <3>1, <3>2 DEF Shape, Goto, TypeOK
      <3>3. CASE q # r
        <4>1. pc'[q] = pc[q] /\ Shape(q)
          BY <2>1, <3>3 DEF Goto, TypeOK
        <4>2. pc[q] = "register_refresh" => HasAccount(req[q].name, req[q].password)'
          BY <2>1, <3>1, <4>1 DEF Shape, HasAccount
        <4> QED
          BY <3>1, <4>1, <4>2 DEF Shape
      <3> QED
        BY <3>2, <3>3
    <2>6. users' \subseteq User /\ lastUser' \in Nat
      BY <2>1, <2>2 DEF TypeOK
    <2>7. /\ pc' = [pc EXCEPT ![r] = "register_refresh"]
          /\ UNCHANGED <<status, tokens, now, req, created, barred>>
      BY <2>1 DEF Goto, InsertUser
    <2>8. TypeOK'
      BY <2>5, <2>6, <2>7 DEF TypeOK
    <2> QED
      BY <2>3, <2>8
  <1> QED
    BY <1>2, <1>3 DEF InsertUser

LEMMA DeactivateType ==
  ASSUME TypeOK, Deactivate
  PROVE  TypeOK' /\ Keeps
  <1>1. PICK u \in users :
          users' = (users \ {u}) \cup {[u EXCEPT !.is_active = FALSE]}
    BY DEF Deactivate
  <1>2. /\ [u EXCEPT !.is_active = FALSE] \in User
        /\ [u EXCEPT !.is_active = FALSE].name = u.name
        /\ [u EXCEPT !.is_active = FALSE].password = u.password
    BY DEF TypeOK, User
  <1>3. \A n, p : HasAccount(n, p) => HasAccount(n, p)'
    BY <1>1, <1>2 DEF HasAccount
  <1>4. \A q \in Reqs : Shape(q)'
    BY <1>3 DEF Deactivate, TypeOK, Shape
  <1> QED
    BY <1>1, <1>2, <1>3, <1>4 DEF Deactivate, TypeOK, Keeps

LEMMA TypeOKInductive == TypeOK /\ [Next]_vars => TypeOK'
  <1> SUFFICES ASSUME TypeOK, [Next]_vars PROVE TypeOK'
    OBVIOUS
  <1>1. CASE Tick
    BY <1>1 DEF Tick, TypeOK, Shape, tables, HasAccount
  <1>2. CASE UNCHANGED vars
    BY <1>2 DEF vars, TypeOK, Shape, HasAccount
  <1> QED
    BY <1>1, <1>2, MoveType, StartType, InsertType, DeactivateType DEF Next

\* Every state is well typed, and a registration that has committed has its
\* account (register).
THEOREM TypeCorrect == Spec => []TypeOK
  BY InitTypeOK, TypeOKInductive, PTL DEF Spec

-----------------------------------------------------------------------------
(***************************************************************************)
(* The strengthening: an account that was promised stays, and a barred     *)
(* call that waits for its user waits for one that has been deactivated.   *)
(***************************************************************************)
Promised == \A n \in Names, p \in Passwords : p \in created[n] => HasAccount(n, p)

BarredAt(r) ==
    /\ pc[r] \in {"call_find", "done"}
    /\ pc[r] = "call_find" => \E u \in Account(req[r].token.sub) : ~u.is_active

Inv == TypeOK /\ OneUserPerName /\ Promised /\ \A r \in barred : BarredAt(r)

LEMMA InitInv == Init => Inv
  BY InitTypeOK DEF Init, Inv, OneUserPerName, Promised

\* A request that finds its user, or is answered, or leaves.
LEMMA QuietStep ==
  ASSUME Inv, NEW r \in Reqs,
         \/ FindName(r) \/ FindLogin(r) \/ FindUser(r) \/ Act(r)
         \/ DbFails(r) /\ UNCHANGED created
         \/ StartRegister(r) \/ StartLogin(r) \/ Deliver(r)
  PROVE  Inv'
  <1>1. TypeOK'
    BY MoveType, StartType DEF Inv
  <1>2. UNCHANGED <<users, created>>
    BY DEF FindName, FindLogin, FindUser, Act, DbFails, StartRegister, StartLogin, Deliver,
           tables
  <1>3. OneUserPerName' /\ Promised'
    BY <1>2 DEF Inv, OneUserPerName, Promised, HasAccount
  <1>4. ASSUME NEW q \in barred', q # r PROVE BarredAt(q)'
    <2>1. q \in barred /\ pc'[q] = pc[q] /\ req'[q] = req[q]
      BY <1>4 DEF FindName, FindLogin, FindUser, Act, DbFails, StartRegister, StartLogin,
                  Deliver, Goto, Answer, Inv, TypeOK
    <2> QED
      BY <1>2, <2>1 DEF Inv, BarredAt, Account
  <1>5. ASSUME r \in barred' PROVE BarredAt(r)'
    <2>1. r \in barred /\ BarredAt(r)
      BY <1>5 DEF FindName, FindLogin, FindUser, Act, DbFails, StartRegister, StartLogin,
                  Deliver, Inv
    <2>2. CASE FindUser(r)
      <3>1. \A u \in Account(req[r].token.sub) : ~u.is_active
        <4>1. PICK v \in Account(req[r].token.sub) : ~v.is_active
          BY <2>1, <2>2 DEF FindUser, BarredAt
        <4> QED
          BY <4>1 DEF Account, Inv, OneUserPerName
      <3>2. pc'[r] = "done"
        BY <2>2, <3>1 DEF FindUser, Admits, Goto, Answer, Inv, TypeOK
      <3> QED
        BY <3>2 DEF BarredAt
    <2>3. CASE DbFails(r)
      BY <2>3 DEF DbFails, Answer, BarredAt, Inv, TypeOK
    <2>4. ~FindName(r) /\ ~FindLogin(r) /\ ~Act(r) /\ ~StartRegister(r) /\ ~StartLogin(r)
      BY <2>1 DEF FindName, FindLogin, Act, StartRegister, StartLogin, BarredAt
    <2>5. ~Deliver(r)
      BY <1>5 DEF Deliver
    <2> QED
      BY <2>2, <2>3, <2>4, <2>5
  <1> QED
    BY <1>1, <1>3, <1>4, <1>5 DEF Inv

LEMMA CallStep ==
  ASSUME Inv, NEW r \in Reqs, StartCall(r)
  PROVE  Inv'
  <1>1. TypeOK'
    BY StartType DEF Inv
  <1>2. PICK t \in tokens \cup {NoToken} :
          /\ req' = [req EXCEPT ![r] = [op |-> "call", token |-> t]]
          /\ barred' = IF Good(t) THEN barred ELSE barred \cup {r}
          /\ IF Decodes(t) THEN Goto(r, "call_find") ELSE Answer(r, "unauthorized")
    BY DEF StartCall
  <1>3. UNCHANGED <<users, created>> /\ pc[r] = "idle"
    BY DEF StartCall, tables
  <1>4. OneUserPerName' /\ Promised'
    BY <1>3 DEF Inv, OneUserPerName, Promised, HasAccount
  <1>5. r \notin barred
    BY <1>3 DEF Inv, BarredAt
  <1>6. ASSUME NEW q \in barred', q # r PROVE BarredAt(q)'
    <2>1. q \in barred /\ pc'[q] = pc[q] /\ req'[q] = req[q]
      BY <1>2, <1>6 DEF Goto, Answer, Inv, TypeOK
    <2> QED
      BY <1>3, <2>1 DEF Inv, BarredAt, Account
  <1>7. ASSUME r \in barred' PROVE BarredAt(r)'
    <2>1. ~Good(t)
      BY <1>2, <1>5, <1>7
    <2>2. req'[r].token = t
      BY <1>2 DEF Inv, TypeOK
    <2>3. CASE Decodes(t)
      <3>1. t.exp \in Nat /\ now \in Nat
        BY <2>3 DEF Decodes, Inv, TypeOK, Token
      <3>2. \E u \in Account(t.sub) : ~u.is_active
        BY <2>1, <2>3, <3>1 DEF Good, Decodes
      <3> QED
        BY <1>2, <1>3, <2>2, <2>3, <3>2 DEF BarredAt, Goto, Account, Inv, TypeOK
    <2>4. CASE ~Decodes(t)
      BY <1>2, <2>4 DEF BarredAt, Answer, Inv, TypeOK
    <2> QED
      BY <2>3, <2>4
  <1> QED
    BY <1>1, <1>4, <1>6, <1>7 DEF Inv

\* register: the index lets in a name that is not there, and nothing else.
LEMMA RegisterStep ==
  ASSUME Inv, NEW r \in Reqs,
         \/ InsertUser(r) \/ RefreshUser(r)
         \/ DbFails(r) /\ pc[r] = "register_refresh"
  PROVE  Inv'
  <1>1. TypeOK'
    BY InsertType, MoveType DEF Inv
  <1>2. OneUserPerName'
    <2>1. CASE UNCHANGED users
      BY <2>1 DEF Inv, OneUserPerName
    <2>2. CASE InsertUser(r) /\ ~Violates(req[r].name)
      <3> DEFINE u == [id |-> lastUser + 1, name |-> req[r].name,
                       password |-> req[r].password, is_active |-> TRUE]
      <3>1. users' = users \cup {u} /\ u.name = req[r].name
        BY <2>2 DEF InsertUser
      <3> HIDE DEF u
      <3>2. \A v \in users : v.name # u.name
        BY <2>2, <3>1 DEF Violates, Account
      <3> QED
        BY <3>1, <3>2 DEF Inv, OneUserPerName
    <2> QED
      BY <2>1, <2>2 DEF InsertUser, RefreshUser, DbFails, tables
  <1>3. Promised'
    <2>1. CASE InsertUser(r)
      BY <2>1, InsertType DEF Inv, Promised, Keeps, InsertUser
    <2>2. CASE pc[r] = "register_refresh" /\ Settle(r) /\ UNCHANGED users
      <3>1. req[r].name \in Names /\ HasAccount(req[r].name, req[r].password)
        BY <2>2 DEF Inv, TypeOK, Shape, Request
      <3>2. users' = users
        BY <2>2
      <3>3. \A n \in Names, p \in Passwords :
              p \in created'[n] =>
                p \in created[n] \/ (n = req[r].name /\ p = req[r].password)
        BY <2>2, <3>1 DEF Settle, Inv, TypeOK
      <3> QED
        BY <3>1, <3>2, <3>3 DEF Inv, Promised, HasAccount
    <2> QED
      BY <2>1, <2>2 DEF RefreshUser, DbFails, tables
  <1>4. ASSUME NEW q \in barred' PROVE BarredAt(q)'
    <2>1. q \in barred /\ BarredAt(q) /\ q # r
      BY <1>4 DEF InsertUser, RefreshUser, DbFails, Inv, BarredAt
    <2>2. pc'[q] = pc[q] /\ req' = req /\ users \subseteq users'
      BY <2>1 DEF InsertUser, RefreshUser, DbFails, OnViolation, Goto, Answer, Inv, TypeOK, tables
    <2> QED
      BY <2>1, <2>2 DEF BarredAt, Account
  <1> QED
    BY <1>1, <1>2, <1>3, <1>4 DEF Inv

LEMMA DeactivateStep ==
  ASSUME Inv, Deactivate
  PROVE  Inv'
  <1>1. PICK u \in users :
          users' = (users \ {u}) \cup {[u EXCEPT !.is_active = FALSE]}
    BY DEF Deactivate
  <1> DEFINE d == [u EXCEPT !.is_active = FALSE]
  <1>2. d.name = u.name /\ ~d.is_active
    BY DEF Inv, TypeOK, User
  <1> HIDE DEF d
  <1>3. users' = (users \ {u}) \cup {d}
    BY <1>1 DEF d
  <1>4. OneUserPerName'
    BY <1>2, <1>3 DEF Inv, OneUserPerName
  <1>5. TypeOK' /\ Promised'
    BY DeactivateType DEF Inv, Promised, Keeps, Deactivate
  <1>6. ASSUME NEW q \in barred' PROVE BarredAt(q)'
    BY <1>2, <1>3, <1>6 DEF Deactivate, Inv, BarredAt, Account
  <1> QED
    BY <1>4, <1>5, <1>6 DEF Inv

LEMMA InvInductive == Inv /\ [Next]_vars => Inv'
  <1> SUFFICES ASSUME Inv, [Next]_vars PROVE Inv'
    OBVIOUS
  <1>1. TypeOK'
    BY TypeOKInductive DEF Inv
  <1>2. CASE Tick
    BY <1>1, <1>2 DEF Tick, Inv, OneUserPerName, Promised, HasAccount, BarredAt, Account,
                      tables
  <1>3. CASE UNCHANGED vars
    BY <1>1, <1>3 DEF vars, Inv, OneUserPerName, Promised, HasAccount, BarredAt, Account
  <1>4. ASSUME NEW r \in Reqs, DbFails(r) PROVE Inv'
    <2>1. pc[r] = "register_refresh" \/ UNCHANGED created
      BY <1>4 DEF DbFails
    <2>2. CASE pc[r] = "register_refresh"
      BY <1>4, <2>2, RegisterStep
    <2>3. CASE UNCHANGED created
      BY <1>4, <2>3, QuietStep
    <2> QED
      BY <2>1, <2>2, <2>3
  <1>5. ASSUME NEW r \in Reqs, FindName(r) \/ FindLogin(r) \/ FindUser(r) \/ Act(r)
                               \/ StartRegister(r) \/ StartLogin(r) \/ Deliver(r)
        PROVE  Inv'
    BY <1>5, QuietStep
  <1>6. ASSUME NEW r \in Reqs, InsertUser(r) \/ RefreshUser(r) PROVE Inv'
    BY <1>6, RegisterStep
  <1> QED
    BY <1>2, <1>3, <1>4, <1>5, <1>6, CallStep, DeactivateStep DEF Next

-----------------------------------------------------------------------------
\* However many registrations race, the table has one user of a name: the
\* unique index of User.username decides, not the check in register.
THEOREM UniqueUser == Spec => []OneUserPerName
  <1>1. Inv => OneUserPerName
    BY DEF Inv
  <1> QED
    BY <1>1, InitInv, InvInductive, PTL DEF Spec

\* A registration that was answered 201, or 500 by a refresh that failed after
\* its commit, owns the name's only user (register).
THEOREM WinnersOwnTheirName == Spec => []CreatedCanLogin
  <1>1. Inv => CreatedCanLogin
    BY DEF Inv, Promised, HasAccount, OneUserPerName, CreatedCanLogin, Account
  <1> QED
    BY <1>1, InitInv, InvInductive, PTL DEF Spec

\* A token that has run out, or whose account was deactivated, before a request
\* came does not get it carried out (decode_access_token, get_current_user).
THEOREM BarredStayOut == Spec => []BarredNeverActs
  <1>1. Inv => BarredNeverActs
    BY DEF Inv, BarredAt, BarredNeverActs
  <1> QED
    BY <1>1, InitInv, InvInductive, PTL DEF Spec
=============================================================================
