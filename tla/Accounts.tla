----------------------------- MODULE Accounts -----------------------------
(***************************************************************************)
(* Accounts: register and login (app/routers/auth_router.py), and the      *)
(* current user every protected request is resolved to from its token      *)
(* (app/auth/dependencies.py, app/auth/jwt.py).                            *)
(*                                                                         *)
(* A step runs from one await to the next: the hash of a password and the  *)
(* decoding of a token are synchronous and belong to the step around them. *)
(* Tokens are kept by the clients and nothing revokes them.  No code of    *)
(* the program deactivates an account; an operator of the database does.   *)
(***************************************************************************)
EXTENDS Integers

CONSTANTS
    Reqs,       \* coroutine slots
    Names,      \* usernames
    Passwords,
    Life,       \* access_token_expire_minutes
    MaxTime,    \* bound: the clock
    Faults,     \* the faults of the environment: "database"
    NoToken     \* a token that does not decode, or none

ASSUME ClockAssumption == Life \in Nat /\ MaxTime \in Nat
ASSUME FaultsAssumption == Faults \subseteq {"database"}

User == [id : Nat, name : Names, password : Passwords, is_active : BOOLEAN]
Token == [sub : Names, exp : Nat]

ASSUME NoTokenAssumption == NoToken \notin Token

VARIABLES
    users,     \* the table
    lastUser,  \* the largest id handed out
    tokens,    \* the tokens the clients hold
    now,       \* the clock
    pc,        \* where each request stands
    req,       \* the request of each slot
    status,    \* the outcome of an answered request
    created,   \* history: name -> passwords of the registrations that have committed
               \* and are answered, 201 or, when the refresh failed, 500
    barred     \* history: calls that came with a token that was no good

vars == <<users, lastUser, tokens, now, pc, req, status, created, barred>>
-----------------------------------------------------------------------------
\* SELECT ... WHERE username == n.
Account(n) == {u \in users : u.name = n}

\* Mutants: the column has no unique index; the violation is swallowed.
NoIndex(n) == FALSE
SwallowsViolation(r) ==
    pc' = [pc EXCEPT ![r] = "register_refresh"] /\ UNCHANGED status

\* The unique index refuses an INSERT of the name n.
Violates(n) == Account(n) # {}

Goto(r, l) == pc' = [pc EXCEPT ![r] = l] /\ UNCHANGED status
Answer(r, s) ==
    /\ pc' = [pc EXCEPT ![r] = "done"]
    /\ status' = [status EXCEPT ![r] = s]

\* The IntegrityError of a commit is caught by nobody: 500.
OnViolation(r) == Answer(r, "error")

\* Mutant: any user passes.
AdmitsAll(u) == TRUE

\* is_active, asked at login and of the current user.
Admits(u) == u.is_active

\* Mutant: the expiry is not looked at.
DecodesStale(t) == t # NoToken

\* decode_access_token: the signature and the expiry, to the very second.
Decodes(t) == t # NoToken /\ now <= t.exp

Init ==
    /\ users = {} /\ lastUser = 0 /\ tokens = {} /\ now = 0
    /\ pc = [r \in Reqs |-> "idle"]
    /\ req = [r \in Reqs |-> [op |-> "none"]]
    /\ status = [r \in Reqs |-> "none"]
    /\ created = [n \in Names |-> {}]
    /\ barred = {}

tables == <<users, lastUser>>

(***************************************************************************)
(* register                                                                *)
(***************************************************************************)
StartRegister(r) ==
    /\ pc[r] = "idle"
    /\ \E n \in Names, p \in Passwords :
         req' = [req EXCEPT ![r] = [op |-> "register", name |-> n, password |-> p]]
    /\ Goto(r, "register_find")
    /\ UNCHANGED <<tables, tokens, now, created, barred>>

\* The name is looked up: 409 when it is there.
FindName(r) ==
    /\ pc[r] = "register_find"
    /\ IF Account(req[r].name) # {} THEN Answer(r, "conflict")
       ELSE Goto(r, "register_commit")
    /\ UNCHANGED <<tables, tokens, now, req, created, barred>>

\* The INSERT and its COMMIT, or the violation of the index.
InsertUser(r) ==
    LET n == req[r].name
    IN  /\ pc[r] = "register_commit"
        /\ \/ /\ Violates(n)
              /\ OnViolation(r)
              /\ UNCHANGED tables
           \/ /\ ~Violates(n)
              /\ lastUser' = lastUser + 1
              /\ users' = users \cup {[id |-> lastUser', name |-> n,
                                       password |-> req[r].password,
                                       is_active |-> TRUE]}
              /\ Goto(r, "register_refresh")
        /\ UNCHANGED <<tokens, now, req, created, barred>>

\* The registration of r is over, and its account is in the table.
Settle(r) == created' = [created EXCEPT ![req[r].name] = @ \cup {req[r].password}]

\* The refresh reads the user back, and the answer is 201.
RefreshUser(r) ==
    /\ pc[r] = "register_refresh"
    /\ Answer(r, "created")
    /\ Settle(r)
    /\ UNCHANGED <<tables, tokens, now, req, barred>>

(***************************************************************************)
(* login                                                                   *)
(***************************************************************************)
StartLogin(r) ==
    /\ pc[r] = "idle"
    /\ \E n \in Names, p \in Passwords :
         req' = [req EXCEPT ![r] = [op |-> "login", name |-> n, password |-> p]]
    /\ Goto(r, "login_find")
    /\ UNCHANGED <<tables, tokens, now, created, barred>>

\* The users that the name and the password of a request match.
Matching(r) == {u \in Account(req[r].name) : u.password = req[r].password}

\* No such user or not its password: 401; not active: 403; else a token.
FindLogin(r) ==
    /\ pc[r] = "login_find"
    /\ \/ /\ Matching(r) = {}
          /\ Answer(r, "unauthorized") /\ UNCHANGED tokens
       \/ \E u \in Matching(r) :
            IF Admits(u)
            THEN /\ tokens' = tokens \cup {[sub |-> u.name, exp |-> now + Life]}
                 /\ Answer(r, "ok")
            ELSE Answer(r, "forbidden") /\ UNCHANGED tokens
    /\ UNCHANGED <<tables, now, req, created, barred>>

(***************************************************************************)
(* A protected request: get_me, and create, update and delete of a post.   *)
(***************************************************************************)
\* The token is of a login that has not run out, of an account that is active.
Good(t) ==
    t # NoToken /\ t.exp >= now /\ \A u \in Account(t.sub) : u.is_active

\* get_current_user decodes the token before its first await: 401 or on.
StartCall(r) ==
    /\ pc[r] = "idle"
    /\ \E t \in tokens \cup {NoToken} :
         /\ req' = [req EXCEPT ![r] = [op |-> "call", token |-> t]]
         /\ barred' = IF Good(t) THEN barred ELSE barred \cup {r}
         /\ IF Decodes(t) THEN Goto(r, "call_find") ELSE Answer(r, "unauthorized")
    /\ UNCHANGED <<tables, tokens, now, created>>

\* The user the token names: 401 when there is none, 403 when it is not active.
FindUser(r) ==
    LET account == Account(req[r].token.sub)
    IN  /\ pc[r] = "call_find"
        /\ \/ account = {} /\ Answer(r, "unauthorized")
           \/ \E u \in account :
                IF Admits(u) THEN Goto(r, "act") ELSE Answer(r, "forbidden")
        /\ UNCHANGED <<tables, tokens, now, req, created, barred>>

\* The handler runs (PostService has its steps).
Act(r) ==
    /\ pc[r] = "act"
    /\ Answer(r, "ok")
    /\ UNCHANGED <<tables, tokens, now, req, created, barred>>
-----------------------------------------------------------------------------
\* A statement or a commit raises: 500, also of the refresh after a commit.
DbFails(r) ==
    /\ "database" \in Faults
    /\ pc[r] \in {"register_find", "register_commit", "register_refresh",
                  "login_find", "call_find", "act"}
    /\ Answer(r, "error")
    /\ IF pc[r] = "register_refresh" THEN Settle(r) ELSE UNCHANGED created
    /\ UNCHANGED <<tables, tokens, now, req, barred>>

Deliver(r) ==
    /\ pc[r] = "done"
    /\ pc' = [pc EXCEPT ![r] = "idle"]
    /\ req' = [req EXCEPT ![r] = [op |-> "none"]]
    /\ status' = [status EXCEPT ![r] = "none"]
    /\ barred' = barred \ {r}
    /\ UNCHANGED <<tables, tokens, now, created>>

\* An operator deactivates an account in the database.
Deactivate ==
    /\ \E u \in users :
         u.is_active /\ users' = (users \ {u}) \cup {[u EXCEPT !.is_active = FALSE]}
    /\ UNCHANGED <<lastUser, tokens, now, pc, req, status, created, barred>>

Tick ==
    /\ now < MaxTime
    /\ now' = now + 1
    /\ UNCHANGED <<tables, tokens, pc, req, status, created, barred>>

Next ==
    \/ \E r \in Reqs :
         \/ StartRegister(r) \/ FindName(r) \/ InsertUser(r) \/ RefreshUser(r)
         \/ StartLogin(r) \/ FindLogin(r)
         \/ StartCall(r) \/ FindUser(r) \/ Act(r)
         \/ DbFails(r) \/ Deliver(r)
    \/ Deactivate
    \/ Tick

Spec == Init /\ [][Next]_vars
-----------------------------------------------------------------------------
(***************************************************************************)
(* Properties.                                                             *)
(***************************************************************************)
Request ==
    [op : {"none"}]
        \cup [op : {"register", "login"}, name : Names, password : Passwords]
        \cup [op : {"call"}, token : Token \cup {NoToken}]

\* The account of name n with password p is there.
HasAccount(n, p) == \E u \in users : u.name = n /\ u.password = p

\* What the await a request stands at says of the request and of the table.
Shape(r) ==
    /\ pc[r] \in {"register_find", "register_commit", "register_refresh"} =>
         req[r].op = "register"
    /\ pc[r] = "register_refresh" => HasAccount(req[r].name, req[r].password)
    /\ pc[r] = "login_find" => req[r].op = "login"
    /\ pc[r] \in {"call_find", "act"} => req[r].op = "call" /\ req[r].token \in Token

\* Every variable has the values the code gives it, and a registration at its
\* refresh reads a user that is there and has its password.
TypeOK ==
    /\ users \subseteq User /\ lastUser \in Nat
    /\ tokens \subseteq Token /\ now \in Nat
    /\ pc \in [Reqs -> {"idle", "register_find", "register_commit",
                        "register_refresh", "login_find", "call_find", "act", "done"}]
    /\ req \in [Reqs -> Request]
    /\ status \in [Reqs -> {"none", "created", "conflict", "ok", "unauthorized",
                            "forbidden", "error"}]
    /\ created \in [Names -> SUBSET Passwords]
    /\ barred \subseteq Reqs
    /\ \A r \in Reqs : Shape(r)

\* However many registrations of a name have passed the check before any of
\* them commits, the table gets one user of that name.
OneUserPerName == \A u, v \in users : u.name = v.name => u = v

\* Who was answered 201 has the account: its password is the one of the name's
\* only user, also when a rival registered the same name at the same time.  So
\* has who was answered 500 because the refresh failed after the commit: the
\* retry gets a 409, but the login works.
CreatedCanLogin ==
    \A n \in Names, p \in Passwords :
        p \in created[n] => Account(n) # {} /\ \A u \in Account(n) : u.password = p

\* A request whose token had run out, or whose account was deactivated, before
\* it came is never carried out, whenever that token was issued.
BarredNeverActs == \A r \in barred : pc[r] # "act"
=============================================================================
