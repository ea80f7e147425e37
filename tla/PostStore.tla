----------------------------- MODULE PostStore -----------------------------
(***************************************************************************)
(* What the post service promises its clients, without a cache, a session  *)
(* or an await: a table that one create, patch or delete changes at a time *)
(* and answers that show what the table has been.                          *)
(*                                                                         *)
(* A read answered at once may show any past of the table, since an entry  *)
(* of the cache lives on after a commit; one that takes its time shows the *)
(* table as it was at some moment since the request arrived.  Neither ever *)
(* shows a post that was not there with just these columns, nor a page put *)
(* together from two tables; only the total of a page may come from another*)
(* moment than its rows.  A 404 tells of the table as it is.  A write      *)
(* takes effect once and all at once, before it is answered with success.  *)
(***************************************************************************)
EXTENDS Integers, FiniteSets

CONSTANTS
    Reqs,      \* the clients
    Ids,       \* the ids of posts
    Rows,      \* what a post may hold
    Asked,     \* what a client may ask: op, id, fields given, stamp of the write
    NoRow,     \* there is no such post
    NoRequest  \* nothing is asked

VARIABLES
    posts,   \* the table: id -> row or NoRow
    past,    \* the tables there have been, the present one among them
    since,   \* of them, those since each open request arrived
    asked,   \* what each client has asked
    phase,   \* of a request: idle, open, committed, answered
    answer   \* what each client is answered

vars == <<posts, past, since, asked, phase, answer>>
-----------------------------------------------------------------------------
NoAnswer == [status |-> "none", body |-> NoRow]

\* A post that the write of stamp s has created.
Fresh(s) == [born |-> s, title |-> s, content |-> s]

\* The row a PATCH leaves: the columns it gives, and the others as they are.
Merged(a, row) ==
    [row EXCEPT !.title = IF "title" \in a.fields THEN a.stamp ELSE @,
                !.content = IF "content" \in a.fields THEN a.stamp ELSE @]

\* What post i is in the tables T, how many posts they have, the pages of them.
Versions(i, T) == {t[i] : t \in T} \ {NoRow}
Totals(T) == {Cardinality({i \in Ids : t[i] # NoRow}) : t \in T}
Pages(T) == [rows : T, total : Totals(T)]

\* The bodies of a successful answer to a, from the tables T.
Bodies(a, T) ==
    CASE a.op = "list" -> Pages(T)
      [] a.op \in {"get", "update"} -> Versions(a.id, T)
      [] a.op = "create" -> {Fresh(a.stamp)}
      [] OTHER -> {NoRow}

\* The tables that a leaves.
Effects(a) ==
    CASE a.op = "create" -> {[posts EXCEPT ![i] = Fresh(a.stamp)] :
                                i \in {j \in Ids : posts[j] = NoRow}}
      [] a.op = "update" /\ a.fields = {} -> {posts}
      [] a.op = "update" /\ a.fields # {} /\ posts[a.id] # NoRow ->
            {[posts EXCEPT ![a.id] = Merged(a, posts[a.id])]}
      [] a.op = "delete" -> {[posts EXCEPT ![a.id] = NoRow]}
      [] OTHER -> {}

Init ==
    /\ posts \in [Ids -> Rows \cup {NoRow}]
    /\ past = {posts}
    /\ since = [r \in Reqs |-> {}]
    /\ asked = [r \in Reqs |-> NoRequest]
    /\ phase = [r \in Reqs |-> "idle"]
    /\ answer = [r \in Reqs |-> NoAnswer]

\* Every step is seen: the table it leaves is one more of those there have been.
Observe ==
    /\ past' = past \cup {posts'}
    /\ since' = [r \in Reqs |->
                   IF phase'[r] \notin {"open", "committed"} THEN {}
                   ELSE IF phase[r] = "idle" THEN {posts'}
                   ELSE since[r] \cup {posts'}]

\* The request of r is answered.
Reply(r, s, b) ==
    /\ phase' = [phase EXCEPT ![r] = "answered"]
    /\ answer' = [answer EXCEPT ![r] = [status |-> s, body |-> b]]
    /\ UNCHANGED posts

\* A request arrives.
Ask(r) ==
    /\ phase[r] = "idle"
    /\ \E a \in Asked : asked' = [asked EXCEPT ![r] = a]
    /\ phase' = [phase EXCEPT ![r] = "open"]
    /\ UNCHANGED <<posts, answer>>

\* A write takes effect.
Commit(r) ==
    /\ phase[r] = "open"
    /\ posts' \in Effects(asked[r])
    /\ phase' = [phase EXCEPT ![r] = "committed"]
    /\ UNCHANGED <<asked, answer>>

\* A read is answered at once.
Serve(r) ==
    /\ phase[r] = "idle"
    /\ \E a \in Asked :
         /\ a.op \in {"list", "get"}
         /\ asked' = [asked EXCEPT ![r] = a]
         /\ \E b \in Bodies(a, past) : Reply(r, "ok", b)

\* A read is answered after a while, a write after it took effect.
Succeed(r) ==
    /\ \/ phase[r] = "open" /\ asked[r].op \in {"list", "get"}
       \/ phase[r] = "committed"
    /\ \E b \in Bodies(asked[r], since[r]) : Reply(r, "ok", b)
    /\ UNCHANGED asked

\* There is no such post now.
NotFound(r) ==
    /\ phase[r] = "open" /\ asked[r].op \in {"get", "update", "delete"}
    /\ posts[asked[r].id] = NoRow
    /\ Reply(r, "not_found", NoRow)
    /\ UNCHANGED asked

\* Something failed, before a write took effect or after.
Fail(r) ==
    /\ phase[r] \in {"open", "committed"}
    /\ Reply(r, "error", NoRow)
    /\ UNCHANGED asked

\* The answer is out.
Deliver(r) ==
    /\ phase[r] = "answered"
    /\ asked' = [asked EXCEPT ![r] = NoRequest]
    /\ phase' = [phase EXCEPT ![r] = "idle"]
    /\ answer' = [answer EXCEPT ![r] = NoAnswer]
    /\ UNCHANGED posts

\* The service restarts, and every request in flight is forgotten.
Restart ==
    /\ asked' = [r \in Reqs |-> NoRequest]
    /\ phase' = [r \in Reqs |-> "idle"]
    /\ answer' = [r \in Reqs |-> NoAnswer]
    /\ UNCHANGED posts

Next ==
    /\ \/ \E r \in Reqs : \/ Ask(r) \/ Commit(r) \/ Serve(r) \/ Succeed(r)
                          \/ NotFound(r) \/ Fail(r) \/ Deliver(r)
       \/ Restart
    /\ Observe

Spec == Init /\ [][Next]_vars
=============================================================================
