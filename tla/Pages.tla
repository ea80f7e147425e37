------------------------------- MODULE Pages -------------------------------
(***************************************************************************)
(* The pages of the list: clients that walk GET /api/posts/?skip=&limit=   *)
(* from page to page while posts are created and deleted                   *)
(* (post_repository.find_all behind cacheable in post_service.get_posts).  *)
(*                                                                         *)
(* The rows are ordered by created_at alone, which counts seconds: posts   *)
(* of one second come in any order, another one for every query.  Each     *)
(* page has a key of its own in Redis; a writer evicts them all, unless    *)
(* Redis fails it or the process dies first.  (Titles and totals are in    *)
(* PostService.)                                                           *)
(***************************************************************************)
EXTENDS Integers, FiniteSets, SequencesExt

CONSTANTS
    Clients,    \* those who walk through the list
    Limit,      \* the posts of a page
    MaxPosts,   \* bound: posts, those there at the start included
    MaxWrites,  \* bound: creates and deletes in a behaviour
    MaxSecond,  \* bound: the seconds of created_at
    Faults,     \* the faults of the environment: "redis", "database", "crash"
    Absent      \* there is no such key in Redis

ASSUME PagesAssumption ==
    Limit \in Nat \ {0} /\ MaxPosts \in Nat /\ MaxWrites \in Nat /\ MaxSecond \in Nat
ASSUME FaultsAssumption == Faults \subseteq {"redis", "database", "crash"}

VARIABLES
    tables,   \* history: the tables there have been; the last is the table
    cache,    \* Redis: offset -> page or Absent
    pc,       \* where the request of each client stands
    page,     \* the page each request has read
    shown,    \* the pages of each client's walk
    due,      \* writers that have committed and not yet evicted
    quiet     \* history: walks during which no writer was at work

vars == <<tables, cache, pc, page, shown, due, quiet>>
-----------------------------------------------------------------------------
Posts == 1..MaxPosts
Offsets == {Limit * k : k \in 0..MaxPosts}

\* A table maps the posts that are there to the second of their created_at.
Table == Last(tables)
Live == DOMAIN Table

\* Mutant: ORDER BY is forgotten.
AnyOrder(t) == SetToSeqs(DOMAIN t)

\* ORDER BY created_at DESC: what the database may make of it.
Orders(t) ==
    {s \in SetToSeqs(DOMAIN t) : \A i, j \in DOMAIN s : i < j => t[s[i]] >= t[s[j]]}

\* Mutant: LIMIT is forgotten.
Unlimited(s, skip) == SubSeq(s, skip + 1, Len(s))

\* OFFSET skip LIMIT limit.
Slice(s, skip) == SubSeq(s, skip + 1, IF skip + Limit < Len(s) THEN skip + Limit ELSE Len(s))

\* Mutant: only the key of the first page is deleted.
EvictsFirstPage(k) == k = 0

\* KEYS posts:* matches the key of every page.
Evicts(k) == TRUE

\* A page that was just cut from the table: no commit has overtaken it (late),
\* and no eviction that was due for it was lost (spared).
Fetched(rows) == [rows |-> rows, asOf |-> Len(tables), late |-> FALSE, spared |-> FALSE]
NoPage == [rows |-> << >>, asOf |-> 0, late |-> FALSE, spared |-> FALSE]

\* What an eviction that never comes leaves in Redis: pages of older tables.
Spared(k) ==
    IF cache[k] # Absent /\ cache[k].asOf < Len(tables)
    THEN [cache[k] EXCEPT !.spared = TRUE] ELSE cache[k]

\* The page a client asks for next: it goes on until a page is not full.
Skip(c) == Limit * Len(shown[c])
Finished(c) == shown[c] # << >> /\ Len(Last(shown[c]).rows) < Limit

Init ==
    /\ \E n \in 0..MaxPosts : \E t \in [1..n -> 0..MaxSecond] : tables = <<t>>
    /\ cache = [k \in Offsets |-> Absent]
    /\ pc = [c \in Clients |-> "idle"]
    /\ page = [c \in Clients |-> NoPage]
    /\ shown = [c \in Clients |-> << >>]
    /\ due = 0
    /\ quiet = Clients

Goto(c, l) == pc' = [pc EXCEPT ![c] = l]
Show(c, p) == shown' = [shown EXCEPT ![c] = Append(@, p)]

(***************************************************************************)
(* get_posts.                                                              *)
(***************************************************************************)
\* The key of the page is there: the entry is the answer.
Hit(c) ==
    /\ pc[c] = "idle" /\ ~Finished(c) /\ cache[Skip(c)] # Absent
    /\ Show(c, cache[Skip(c)])
    /\ UNCHANGED <<tables, cache, pc, page, due, quiet>>

Miss(c) ==
    /\ pc[c] = "idle" /\ ~Finished(c) /\ cache[Skip(c)] = Absent
    /\ Goto(c, "query")
    /\ UNCHANGED <<tables, cache, page, shown, due, quiet>>

\* The GET raises RedisError: the database is asked around the cache.
CacheDown(c) ==
    /\ pc[c] = "idle" /\ ~Finished(c) /\ "redis" \in Faults
    /\ Goto(c, "query_direct")
    /\ UNCHANGED <<tables, cache, page, shown, due, quiet>>

\* find_all: one statement, on one table; around the cache it is the answer.
Query(c) ==
    /\ \E s \in Orders(Table) :
         LET p == Fetched(Slice(s, Skip(c)))
         IN  \/ /\ pc[c] = "query"
                /\ page' = [page EXCEPT ![c] = p] /\ Goto(c, "store")
                /\ UNCHANGED shown
             \/ /\ pc[c] = "query_direct"
                /\ Show(c, p) /\ Goto(c, "idle")
                /\ UNCHANGED page
    /\ UNCHANGED <<tables, cache, due, quiet>>

\* What c stores; the table may have changed since its query.
Stored(c) == [page[c] EXCEPT !.late = page[c].asOf < Len(tables)]

\* SETEX and the answer.
Store(c) ==
    /\ pc[c] = "store"
    /\ cache' = [cache EXCEPT ![Skip(c)] = Stored(c)]
    /\ Show(c, Stored(c))
    /\ Goto(c, "idle")
    /\ page' = [page EXCEPT ![c] = NoPage]
    /\ UNCHANGED <<tables, due, quiet>>

\* SETEX raises RedisError, applied or not: once more, around the cache.
StoreFails(c) ==
    /\ pc[c] = "store" /\ "redis" \in Faults
    /\ cache' \in {cache, [cache EXCEPT ![Skip(c)] = Stored(c)]}
    /\ Goto(c, "query_direct")
    /\ page' = [page EXCEPT ![c] = NoPage]
    /\ UNCHANGED <<tables, shown, due, quiet>>

\* The query raises: the answer is 500, and the client asks again.
QueryFails(c) ==
    /\ pc[c] \in {"query", "query_direct"} /\ "database" \in Faults
    /\ Goto(c, "idle")
    /\ UNCHANGED <<tables, cache, page, shown, due, quiet>>

\* A client starts over once it has seen the last page.
Restart(c) ==
    /\ pc[c] = "idle" /\ Finished(c)
    /\ shown' = [shown EXCEPT ![c] = << >>]
    /\ quiet' = IF due = 0 THEN quiet \cup {c} ELSE quiet \ {c}
    /\ UNCHANGED <<tables, cache, pc, page, due>>

(***************************************************************************)
(* create_post and delete_post: a commit, and later the eviction.          *)
(***************************************************************************)
Commit(t) ==
    /\ Len(tables) <= MaxWrites
    /\ tables' = Append(tables, t)
    /\ due' = due + 1
    /\ quiet' = {}
    /\ UNCHANGED <<cache, pc, page, shown>>

\* The posts there have been: a new one takes the next id of the sequence and
\* the second of CURRENT_TIMESTAMP.  On PostgreSQL that is when the transaction
\* began, at the lookup of the user, so it may lie before that of a post which
\* was committed earlier.
Ever == UNION {DOMAIN tables[n] : n \in DOMAIN tables}
Now == 0..MaxSecond

Create ==
    \E i \in Posts \ Ever, s \in Now :
        /\ i - 1 \in Ever \cup {0}
        /\ Commit([j \in Live \cup {i} |-> IF j = i THEN s ELSE Table[j]])

Delete == \E i \in Live : Commit([j \in Live \ {i} |-> Table[j]])

Evict ==
    /\ due > 0
    /\ cache' = [k \in Offsets |-> IF Evicts(k) THEN Absent ELSE cache[k]]
    /\ due' = due - 1
    /\ UNCHANGED <<tables, pc, page, shown, quiet>>

\* KEYS or DEL raises RedisError, which is swallowed.
EvictFails ==
    /\ due > 0 /\ "redis" \in Faults
    /\ cache' = [k \in Offsets |-> Spared(k)]
    /\ due' = due - 1
    /\ UNCHANGED <<tables, pc, page, shown, quiet>>

\* The process dies and starts again: the requests and the evictions that were
\* due are gone, the pages in Redis and those a client has seen are not.
Crash ==
    /\ "crash" \in Faults
    /\ due > 0 \/ \E c \in Clients : pc[c] # "idle"
    /\ cache' = [k \in Offsets |-> IF due > 0 THEN Spared(k) ELSE cache[k]]
    /\ due' = 0
    /\ pc' = [c \in Clients |-> "idle"]
    /\ page' = [c \in Clients |-> NoPage]
    /\ UNCHANGED <<tables, shown, quiet>>

\* The time to live of a page ends, each on its own.
Expire(k) ==
    /\ cache[k] # Absent
    /\ cache' = [cache EXCEPT ![k] = Absent]
    /\ UNCHANGED <<tables, pc, page, shown, due, quiet>>

Next ==
    \/ \E c \in Clients :
         \/ Hit(c) \/ Miss(c) \/ CacheDown(c) \/ Query(c) \/ Store(c) \/ Restart(c)
         \/ StoreFails(c) \/ QueryFails(c)
    \/ Create \/ Delete \/ Evict \/ EvictFails \/ Crash
    \/ \E k \in Offsets : Expire(k)

Spec == Init /\ [][Next]_vars
-----------------------------------------------------------------------------
(***************************************************************************)
(* Properties.                                                             *)
(***************************************************************************)
Page == [rows : Seq(Posts), asOf : Nat, late : BOOLEAN, spared : BOOLEAN]

\* Every variable has the values the code gives it.
TypeOK ==
    /\ \A n \in DOMAIN tables :
         DOMAIN tables[n] \subseteq Posts /\ \A i \in DOMAIN tables[n] : tables[n][i] \in 0..MaxSecond
    /\ due \in 0..MaxWrites /\ quiet \subseteq Clients
    /\ \A k \in Offsets : cache[k] # Absent => cache[k] \in Page /\ Len(cache[k].rows) <= Limit
    /\ pc \in [Clients -> {"idle", "query", "query_direct", "store"}]
    /\ page \in [Clients -> Page] /\ shown \in [Clients -> Seq(Page)]

\* How often the walk of c has shown the post i, and the tables it was cut from.
Times(c, i) ==
    Cardinality({q \in (DOMAIN shown[c]) \X (1..Limit) :
                   q[2] <= Len(shown[c][q[1]].rows) /\ shown[c][q[1]].rows[q[2]] = i})
Cut(c) == {tables[shown[c][n].asOf] : n \in DOMAIN shown[c]}

\* Another post of the same second was there.
Tied(c, i) == \E t \in Cut(c) : i \in DOMAIN t /\ \E j \in DOMAIN t \ {i} : t[j] = t[i]

\* Between two pages of the walk, in the order they were cut from the table,
\* the write w (a step from one table to the next) was committed.
Grows(n) == DOMAIN tables[n] \subseteq DOMAIN tables[n + 1]
Between(p, q, grew) == \E n \in p.asOf..(q.asOf - 1) : Grows(n) = grew

\* The walk has pages m before n with such a write between, n the younger one
\* (in order), or n the older one: an entry that outlived the page before it.
Moved(c, grew) ==
    \E m, n \in DOMAIN shown[c] : m < n /\ Between(shown[c][m], shown[c][n], grew)
Outlived(c, grew) ==
    \E m, n \in DOMAIN shown[c] : m < n /\ Between(shown[c][n], shown[c][m], grew)

\* A walk misses a post that was there all along only when posts of one second
\* changed places, when a delete moved the rest up between two pages, or when a
\* later page was an older one from Redis and a create lies between the two.
MissedExplained ==
    \A c \in Clients : Finished(c) =>
        \A i \in Posts :
            (\A t \in Cut(c) : i \in DOMAIN t) /\ Times(c, i) = 0 =>
                Tied(c, i) \/ Moved(c, FALSE) \/ Outlived(c, TRUE)

\* A walk shows a post twice only when posts of one second changed places, when
\* a create moved the rest down between two pages, or when a later page was an
\* older one from Redis and a delete lies between the two.
TwiceExplained ==
    \A c \in Clients, i \in Posts :
        Times(c, i) > 1 => Tied(c, i) \/ Moved(c, TRUE) \/ Outlived(c, FALSE)

\* A walk beside which no writer was at work, neither before its commit nor
\* before its eviction, shows every post of the table once and nothing else,
\* whatever faults hit it, unless two posts share a second, or a page of it was
\* stored after a commit had overtaken its query, or was left in Redis by an
\* eviction lost to a RedisError or a crash: there is no other way for a page of
\* another table to be there.
QuietWalkIsExact ==
    \A c \in quiet :
        Finished(c) /\ (\A n \in DOMAIN shown[c] : ~shown[c][n].late /\ ~shown[c][n].spared) =>
            \A i \in Posts :
                Tied(c, i) \/ Times(c, i) = IF i \in Live THEN 1 ELSE 0
=============================================================================
