---------------------------- MODULE PostService ----------------------------
(***************************************************************************)
(* The post service of the board: list, read, create, patch and delete     *)
(* posts in a SQL table, with a Redis cache in front of the two reads      *)
(* (app/services/post_service.py, app/cache.py, app/repositories).         *)
(*                                                                         *)
(* The program is one asyncio event loop.  Code between two awaits runs    *)
(* without interruption, and the Redis client is synchronous, so a step    *)
(* of this module runs from one await to the next.  A statement takes      *)
(* effect in the database at once, a transaction at its commit: a writer   *)
(* of the table holds the write lock from its first DML to its COMMIT, so  *)
(* the flush and the commit of a request are one step.                     *)
(*                                                                         *)
(* A post is known by stamps: every write request takes a fresh stamp, the *)
(* row remembers the stamp that gave birth to it and the stamps that last  *)
(* wrote its title and its content.                                        *)
(***************************************************************************)
EXTENDS Integers, FiniteSets

CONSTANTS
    Reqs,       \* coroutine slots: the requests that may be in flight together
    MaxId,      \* bound: ids the table can hand out
    MaxWrites,  \* bound: create, patch and delete requests of a behaviour
    ReusesIds,  \* TRUE: SQLite rowids (max + 1), FALSE: a PostgreSQL SERIAL
    Faults,     \* the faults of the environment: "redis", "database", "crash"
    NoRow,      \* there is no such row
    Absent      \* there is no such key in Redis

Ids == 1..MaxId
ListKey == 0                  \* every page posts:{skip}:{limit} of the list
Keys == Ids \cup {ListKey}    \* the others are the keys post:{id}
Stamps == 0..MaxWrites        \* 0: a row that was there when the process started
Columns == {"title", "content"}
Row == [born : Stamps, title : Stamps, content : Stamps]
Page == [rows : [Ids -> Row \cup {NoRow}], total : Nat]
Request == [op : {"list", "get", "create", "update", "delete", "none"},
            id : Keys, fields : SUBSET Columns, stamp : Stamps]

ASSUME IdsAssumption == MaxId \in Nat \ {0} /\ MaxWrites \in Nat
ASSUME ModesAssumption ==
    ReusesIds \in BOOLEAN /\ Faults \subseteq {"redis", "database", "crash"}
ASSUME NoRowAssumption == NoRow \notin Row
ASSUME AbsentAssumption == Absent \notin Row \cup Page \cup {NoRow}

VARIABLES
    posts,   \* the table: id -> row or NoRow
    lastId,  \* the largest id ever handed out (the SERIAL)
    cache,   \* Redis: key -> value or Absent
    pc,      \* where each request stands, named for the await it is at
    req,     \* the request each slot serves
    val,     \* the row or page each request has read
    status,  \* the outcome of an answered request
    writes,  \* write requests so far (the stamps given out)
    raced,   \* history: fills in flight whose row changed after they read it
    late,    \* history: keys last stored by such a fill
    lost,    \* history: keys an eviction was due for and did not reach
    deleted  \* history: the posts DELETEs took, <<id, stamp of birth>>

vars == <<posts, lastId, cache, pc, req, val, status, writes, raced, late, lost, deleted>>
-----------------------------------------------------------------------------
NoRequest == [op |-> "none", id |-> ListKey, fields |-> {}, stamp |-> 0]

Key(r) == req[r].id           \* the cache key a read serves: its id, or the list

\* What the database answers now for the key k.
NumPosts == Cardinality({i \in Ids : posts[i] # NoRow})
Current(k) ==
    IF k = ListKey THEN [rows |-> posts, total |-> NumPosts] ELSE posts[k]

\* The ids above every live row (SQLite) or above the sequence (PostgreSQL).
Used(i) == IF ReusesIds THEN posts[i] # NoRow ELSE i <= lastId
FreeIds == {i \in Ids : \A j \in Ids : Used(j) => j < i}

\* The id the next INSERT takes.
IsNextId(i) == i \in FreeIds /\ i - 1 \notin FreeIds

\* A row or the whole list changed: fills that have read it are overtaken.
Overtaken(i) ==
    {q \in Reqs : pc[q] \in {"count", "store"} /\ Key(q) \in {i, ListKey}}

\* Mutant: the whole object is written back, as it was when it was loaded.
PatchedWhole(r, row) ==
    [val[r] EXCEPT !.title = IF "title" \in req[r].fields THEN req[r].stamp ELSE @,
                   !.content = IF "content" \in req[r].fields THEN req[r].stamp ELSE @]

\* The columns a PATCH sets on the row it finds at commit: only those it gives.
Patched(r, row) ==
    [row EXCEPT !.title = IF "title" \in req[r].fields THEN req[r].stamp ELSE @,
                !.content = IF "content" \in req[r].fields THEN req[r].stamp ELSE @]

\* Mutant: the key of the post is forgotten.
EvictsList(r) == {ListKey}

\* The keys a committed writer evicts.
EvictKeys(r) ==
    IF req[r].op = "create" THEN {ListKey} ELSE {ListKey, req[r].id}

Goto(r, l) == pc' = [pc EXCEPT ![r] = l]
Answer(r, s) == Goto(r, "done") /\ status' = [status EXCEPT ![r] = s]

\* SETEX of k by request r.
Put(r, k, v) ==
    /\ cache' = [cache EXCEPT ![k] = v]
    /\ late' = IF r \in raced THEN late \cup {k} ELSE late \ {k}
    /\ lost' = lost \ {k}

\* DEL of the keys K, and the keys L that should have gone and did not.
Drop(K, L) ==
    /\ cache' = [k \in Keys |-> IF k \in K THEN Absent ELSE cache[k]]
    /\ late' = late \ K
    /\ lost' = (lost \ K) \cup L

dbVars == <<posts, lastId, deleted>>
redisVars == <<cache, late, lost>>
-----------------------------------------------------------------------------
\* The process starts on a table that holds the first n ids and an empty cache.
Init ==
    /\ \E n \in 0..MaxId :
         /\ posts = [i \in Ids |-> IF i <= n
                                   THEN [born |-> 0, title |-> 0, content |-> 0]
                                   ELSE NoRow]
         /\ lastId = n
    /\ cache = [k \in Keys |-> Absent]
    /\ pc = [r \in Reqs |-> "idle"]
    /\ req = [r \in Reqs |-> NoRequest]
    /\ val = [r \in Reqs |-> NoRow]
    /\ status = [r \in Reqs |-> "none"]
    /\ writes = 0
    /\ raced = {} /\ late = {} /\ lost = {} /\ deleted = {}

(***************************************************************************)
(* Reads: cacheable.async_wrapper around get_posts and get_post.           *)
(***************************************************************************)
\* Mutant: the key functions of the two reads are exchanged.
ReadOfSwapped(k) == [op |-> IF k = ListKey THEN "get" ELSE "list",
                     id |-> k, fields |-> {}, stamp |-> 0]

\* The read that is served under the key k.
ReadOf(k) == [op |-> IF k = ListKey THEN "list" ELSE "get",
              id |-> k, fields |-> {}, stamp |-> 0]

\* A read arrives and its GET finds the key: the cached value is the answer.
ReadHit(r, k) ==
    /\ pc[r] = "idle" /\ cache[k] # Absent
    /\ req' = [req EXCEPT ![r] = ReadOf(k)]
    /\ val' = [val EXCEPT ![r] = cache[k]]
    /\ Answer(r, "ok")
    /\ UNCHANGED <<dbVars, redisVars, writes, raced>>

\* A read arrives and its GET finds nothing: it goes to the database.
ReadMiss(r, k) ==
    /\ pc[r] = "idle" /\ cache[k] = Absent
    /\ req' = [req EXCEPT ![r] = ReadOf(k)]
    /\ Goto(r, "query")
    /\ UNCHANGED <<dbVars, redisVars, val, status, writes, raced>>

\* A read arrives and its GET raises RedisError: it bypasses the cache.
ReadCacheDown(r, k) ==
    /\ pc[r] = "idle" /\ "redis" \in Faults
    /\ req' = [req EXCEPT ![r] = ReadOf(k)]
    /\ Goto(r, "query_direct")
    /\ UNCHANGED <<dbVars, redisVars, val, status, writes, raced>>

\* get_post: find_by_id, 404 when there is no row (a 404 is never cached).
QueryPost(r) ==
    /\ pc[r] \in {"query", "query_direct"} /\ req[r].op = "get"
    /\ val' = [val EXCEPT ![r] = posts[Key(r)]]
    /\ IF posts[Key(r)] = NoRow THEN Answer(r, "not_found")
       ELSE IF pc[r] = "query" THEN Goto(r, "store") /\ UNCHANGED status
       ELSE Answer(r, "ok")
    /\ UNCHANGED <<dbVars, redisVars, req, writes, raced>>

\* get_posts, first await: the rows of the page.
QueryRows(r) ==
    /\ pc[r] \in {"query", "query_direct"} /\ req[r].op = "list"
    /\ val' = [val EXCEPT ![r] = [rows |-> posts, total |-> 0]]
    /\ Goto(r, IF pc[r] = "query" THEN "count" ELSE "count_direct")
    /\ UNCHANGED <<dbVars, redisVars, req, status, writes, raced>>

\* Mutant: the largest id serves as the total.
TotalByLastId == lastId

\* count: SELECT count(*) of the table.
Total == NumPosts

\* get_posts, second await: the total, counted by a statement of its own.
CountRows(r) ==
    /\ pc[r] \in {"count", "count_direct"}
    /\ val' = [val EXCEPT ![r] = [rows |-> val[r].rows, total |-> Total]]
    /\ IF pc[r] = "count" THEN Goto(r, "store") /\ UNCHANGED status
       ELSE Answer(r, "ok")
    /\ UNCHANGED <<dbVars, redisVars, req, writes, raced>>

\* SETEX with the time to live, then the answer.
Store(r) ==
    /\ pc[r] = "store"
    /\ Put(r, Key(r), val[r])
    /\ raced' = raced \ {r}
    /\ Answer(r, "ok")
    /\ UNCHANGED <<dbVars, req, val, writes>>

\* Mutant: a read whose SETEX raised goes around the cached path once more.
AfterFailedStoreRetry(r) == "query"

\* Where a read goes on when its SETEX raised: the function is called again,
\* around the cache.
AfterFailedStore(r) == "query_direct"

\* SETEX raises RedisError; Redis may or may not have applied it.
StoreFails(r) ==
    /\ pc[r] = "store" /\ "redis" \in Faults
    /\ \/ Put(r, Key(r), val[r])
       \/ UNCHANGED redisVars
    /\ raced' = raced \ {r}
    /\ Goto(r, AfterFailedStore(r))
    /\ UNCHANGED <<dbVars, req, val, status, writes>>

(***************************************************************************)
(* Writes.  A request is counted and stamped when it arrives.              *)
(***************************************************************************)
StartWrite(r, op, i, fs) ==
    /\ pc[r] = "idle" /\ writes < MaxWrites
    /\ writes' = writes + 1
    /\ req' = [req EXCEPT ![r] =
                 [op |-> op, id |-> i, fields |-> fs, stamp |-> writes + 1]]
    /\ UNCHANGED <<dbVars, redisVars, val, status, raced>>

\* The creates in flight (the bound MaxId leaves an id for each of them).
Creating == {q \in Reqs : req[q].op = "create" /\ pc[q] = "commit"}

StartCreate(r) ==
    /\ Cardinality(Creating) < Cardinality(FreeIds)
    /\ StartWrite(r, "create", ListKey, Columns) /\ Goto(r, "commit")

StartUpdate(r) ==
    \E i \in Ids, fs \in SUBSET Columns :
        StartWrite(r, "update", i, fs) /\ Goto(r, "load")

StartDelete(r) ==
    \E i \in Ids : StartWrite(r, "delete", i, {}) /\ Goto(r, "load")

\* update_post, delete_post: find_by_id, 404 when there is no row.
Load(r) ==
    /\ pc[r] = "load"
    /\ val' = [val EXCEPT ![r] = posts[req[r].id]]
    /\ IF posts[req[r].id] = NoRow THEN Answer(r, "not_found")
       ELSE Goto(r, "commit") /\ UNCHANGED status
    /\ UNCHANGED <<dbVars, redisVars, req, writes, raced>>

\* create_post: INSERT, refresh and COMMIT; the row is the answer's body.
Insert(r) ==
    /\ pc[r] = "commit" /\ req[r].op = "create"
    /\ \E i \in Ids :
         LET row == [born |-> req[r].stamp, title |-> req[r].stamp,
                     content |-> req[r].stamp]
         IN  /\ IsNextId(i)
             /\ posts' = [posts EXCEPT ![i] = row]
             /\ lastId' = IF i > lastId THEN i ELSE lastId
             /\ val' = [val EXCEPT ![r] = row]
             /\ raced' = raced \cup Overtaken(i)
    /\ Goto(r, "evict")
    /\ UNCHANGED <<redisVars, req, status, writes, deleted>>

\* update_post: COMMIT emits an UPDATE of the changed columns, or nothing for
\* an empty PATCH; an UPDATE that hits no row is a StaleDataError.
Update(r) ==
    LET i == req[r].id
    IN  /\ pc[r] = "commit" /\ req[r].op = "update"
        /\ \/ /\ req[r].fields = {}
              /\ Goto(r, "refresh")
              /\ UNCHANGED <<posts, raced, status>>
           \/ /\ req[r].fields # {} /\ posts[i] # NoRow
              /\ posts' = [posts EXCEPT ![i] = Patched(r, posts[i])]
              /\ raced' = raced \cup Overtaken(i)
              /\ Goto(r, "refresh") /\ UNCHANGED status
           \/ /\ req[r].fields # {} /\ posts[i] = NoRow
              /\ Answer(r, "error")
              /\ UNCHANGED <<posts, raced>>
        /\ UNCHANGED <<lastId, redisVars, req, val, writes, deleted>>

\* delete_post: DELETE and COMMIT; a DELETE that hits no row only warns.
Delete(r) ==
    LET i == req[r].id
    IN  /\ pc[r] = "commit" /\ req[r].op = "delete"
        /\ posts' = [posts EXCEPT ![i] = NoRow]
        /\ deleted' = deleted \cup {<<i, row.born>> : row \in {posts[i]} \ {NoRow}}
        /\ raced' = raced \cup Overtaken(i)
        /\ Goto(r, "evict")
        /\ UNCHANGED <<lastId, redisVars, req, val, status, writes>>

\* update_post: the refresh reads the row back, and raises when it is gone.
Refresh(r) ==
    LET i == req[r].id
    IN  /\ pc[r] = "refresh"
        /\ IF posts[i] = NoRow
           THEN Answer(r, "error") /\ UNCHANGED val
           ELSE Goto(r, "evict") /\ val' = [val EXCEPT ![r] = posts[i]]
                                 /\ UNCHANGED status
        /\ UNCHANGED <<dbVars, redisVars, req, writes, raced>>

\* cache_evict("posts:*") after create_post, evict_post_cache after the others.
Evict(r) ==
    /\ pc[r] = "evict"
    /\ Drop(EvictKeys(r), {})
    /\ Answer(r, "ok")
    /\ UNCHANGED <<dbVars, req, val, writes, raced>>

\* RedisError on the way: the list goes first, then the post; it is swallowed.
EvictFails(r) ==
    /\ pc[r] = "evict" /\ "redis" \in Faults
    /\ \E K \in {{}, {ListKey}, EvictKeys(r)} : Drop(K, EvictKeys(r) \ K)
    /\ Answer(r, "ok")
    /\ UNCHANGED <<dbVars, req, val, writes, raced>>
-----------------------------------------------------------------------------
\* The keys a request that stops here leaves to nobody: it has committed, and
\* its eviction was to come.
Abandoned(r) == IF pc[r] \in {"refresh", "evict"} THEN EvictKeys(r) ELSE {}

\* A statement or a commit raises: the session rolls back, the answer is 500.
DbFails(r) ==
    /\ "database" \in Faults
    /\ pc[r] \in {"query", "query_direct", "count", "count_direct",
                  "load", "commit", "refresh"}
    /\ Drop({}, Abandoned(r))
    /\ raced' = raced \ {r}
    /\ Answer(r, "error")
    /\ UNCHANGED <<dbVars, req, val, writes>>

\* The response leaves and the slot is free.
Deliver(r) ==
    /\ pc[r] = "done"
    /\ Goto(r, "idle")
    /\ req' = [req EXCEPT ![r] = NoRequest]
    /\ val' = [val EXCEPT ![r] = NoRow]
    /\ status' = [status EXCEPT ![r] = "none"]
    /\ UNCHANGED <<dbVars, redisVars, writes, raced>>

\* Mutant: SET without a time to live.
NeverExpires(k) == FALSE

\* Every key of Redis has the time to live of its SETEX.
Expires(k) == cache[k] # Absent

\* Redis lets go of a key at the end of its time to live.
Expire(k) ==
    /\ Expires(k)
    /\ Drop({k}, {})
    /\ UNCHANGED <<dbVars, pc, req, val, status, writes, raced>>

\* The process dies and starts again; the database and Redis keep what they have.
Crash ==
    /\ "crash" \in Faults
    /\ \E r \in Reqs : pc[r] # "idle"
    /\ Drop({}, UNION {Abandoned(r) : r \in Reqs})
    /\ pc' = [r \in Reqs |-> "idle"]
    /\ req' = [r \in Reqs |-> NoRequest]
    /\ val' = [r \in Reqs |-> NoRow]
    /\ status' = [r \in Reqs |-> "none"]
    /\ raced' = {}
    /\ UNCHANGED <<dbVars, writes>>

Read(r) == \E k \in Keys : ReadHit(r, k) \/ ReadMiss(r, k) \/ ReadCacheDown(r, k)
Write(r) == StartCreate(r) \/ StartUpdate(r) \/ StartDelete(r)
Fault(r) == StoreFails(r) \/ EvictFails(r) \/ DbFails(r)

\* The steps a request in flight takes when nothing fails.
Progress(r) ==
    \/ QueryPost(r) \/ QueryRows(r) \/ CountRows(r) \/ Store(r)
    \/ Load(r) \/ Insert(r) \/ Update(r) \/ Delete(r) \/ Refresh(r)
    \/ Evict(r) \/ Deliver(r)

Next ==
    \/ \E r \in Reqs : Read(r) \/ Write(r) \/ Progress(r) \/ Fault(r)
    \/ \E k \in Keys : Expire(k)
    \/ Crash

Spec == Init /\ [][Next]_vars

\* The event loop resumes every request whose await is over, and Redis expires
\* what SETEX gave a time to live to.
FairSpec ==
    /\ Spec
    /\ \A r \in Reqs : WF_vars(Progress(r))
    /\ \A k \in Keys : WF_vars(Expire(k))
-----------------------------------------------------------------------------
(***************************************************************************)
(* Properties.                                                             *)
(***************************************************************************)

\* What the await a request stands at says of the request and of what it read.
Shape(r) ==
    /\ pc[r] \in {"query", "query_direct", "count", "count_direct", "store"} =>
         \/ req[r].op = "list" /\ req[r].id = ListKey
         \/ req[r].op = "get" /\ req[r].id \in Ids
    /\ pc[r] \in {"count", "count_direct"} => req[r].op = "list" /\ val[r] \in Page
    /\ pc[r] = "store" => IF req[r].op = "list" THEN val[r] \in Page ELSE val[r] \in Row
    /\ pc[r] = "load" => req[r].op \in {"update", "delete"} /\ req[r].id \in Ids
    /\ pc[r] = "refresh" => req[r].op = "update" /\ req[r].id \in Ids
    /\ pc[r] \in {"commit", "evict"} =>
         \/ req[r].op = "create"
         \/ req[r].op \in {"update", "delete"} /\ req[r].id \in Ids
    /\ pc[r] = "commit" /\ req[r].op # "create" => val[r] \in Row

\* Every variable has the values the code gives it, a key of Redis holds what
\* its readers expect to parse, and only fills can be overtaken.
TypeOK ==
    /\ posts \in [Ids -> Row \cup {NoRow}]
    /\ lastId \in 0..MaxId
    /\ \A i \in Ids : posts[i] # NoRow => i <= lastId
    /\ cache \in [Keys -> Row \cup Page \cup {Absent}]
    /\ \A i \in Ids : cache[i] \in Row \cup {Absent}
    /\ cache[ListKey] \in Page \cup {Absent}
    /\ pc \in [Reqs -> {"idle", "query", "query_direct", "count", "count_direct",
                        "store", "load", "commit", "refresh", "evict", "done"}]
    /\ req \in [Reqs -> Request]
    /\ val \in [Reqs -> Row \cup Page \cup {NoRow}]
    /\ status \in [Reqs -> {"none", "ok", "not_found", "error"}]
    /\ writes \in 0..MaxWrites
    /\ raced \subseteq {r \in Reqs : pc[r] \in {"count", "store"}}
    /\ late \subseteq Keys /\ lost \subseteq Keys
    /\ deleted \subseteq Ids \X Stamps
    /\ \A r \in Reqs : Shape(r)

\* A committed writer that will still evict k: it is at its eviction, or at the
\* refresh of a row that is there (a refresh that finds none raises instead).
WillEvict(r, k) ==
    /\ k \in EvictKeys(r)
    /\ \/ pc[r] = "evict"
       \/ pc[r] = "refresh" /\ posts[req[r].id] # NoRow

Stale(k) == cache[k] # Absent /\ cache[k] # Current(k)

\* The cache disagrees with the table for exactly three reasons: the entry was
\* stored by a read that a commit overtook between its query and its SETEX, an
\* eviction due for it was lost to a fault, or a writer that has committed is
\* about to evict it.  Nothing else that create_post, update_post, delete_post
\* or a reused id does leaves a wrong entry behind.
StaleExplained ==
    \A k \in Keys :
        Stale(k) => k \in late \cup lost \/ \E r \in Reqs : WillEvict(r, k)

\* What a fill holds is what the database answers now, unless it was overtaken.
FillsCurrent ==
    \A r \in Reqs \ raced :
        /\ pc[r] = "store" => val[r] = Current(Key(r))
        /\ pc[r] = "count" => val[r].rows = posts

\* Two PATCHes of one post merge: a commit that changes a live row is that of a
\* PATCH of this id, and it leaves the columns the PATCH did not give as they
\* are in the table, whatever the object loaded before held (update_post).
PatchTouchesOnlyItsFields ==
    [][\A i \in Ids :
         posts[i] # NoRow /\ posts'[i] # NoRow /\ posts'[i] # posts[i] =>
           \E r \in Reqs :
             /\ pc[r] = "commit" /\ pc'[r] = "refresh"
             /\ req[r].op = "update" /\ req[r].id = i
             /\ posts'[i].born = posts[i].born
             /\ "title" \notin req[r].fields => posts'[i].title = posts[i].title
             /\ "content" \notin req[r].fields => posts'[i].content = posts[i].content]_vars

\* A deleted post never comes back, and a PATCH or a DELETE meets at its commit
\* the very post it loaded, as long as nobody has deleted that.  If somebody has,
\* it meets no row - or, only where ids are handed out again, a stranger that has
\* taken the id (update_post and delete_post load, await, and write by id).
WriterMeetsItsPost ==
    /\ \A i \in Ids : posts[i] # NoRow => <<i, posts[i].born>> \notin deleted
    /\ \A r \in Reqs : pc[r] = "commit" /\ req[r].op # "create" =>
         LET i == req[r].id
         IN  IF <<i, val[r].born>> \in deleted
             THEN posts[i] # NoRow => ReusesIds
             ELSE posts[i] # NoRow /\ posts[i].born = val[r].born

\* Every request is answered, whichever of its Redis and database calls fail.
AlwaysAnswered ==
    \A r \in Reqs : (pc[r] # "idle") ~> (pc[r] = "idle")

\* Once the writes are over the cache comes to agree with the table and stays
\* so, whatever was stored late or not evicted: every entry has a TTL.
EventualCoherence == <>[](\A k \in Keys : ~Stale(k))
=============================================================================
