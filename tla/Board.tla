------------------------------- MODULE Board -------------------------------
(***************************************************************************)
(* The post service together with the views its GETs count: the router of  *)
(* GET /api/posts/{id} answers, and the same coroutine then runs           *)
(* increment_view_count on a session of its own (post_router.py, tasks.py).*)
(*                                                                         *)
(* A step is one of PostService with what it does to the view counts, or   *)
(* one of a background task.  A task commits to the row without any word   *)
(* to the cache, and addresses it by its id alone.                         *)
(***************************************************************************)
EXTENDS PostService

CONSTANT MaxGets  \* bound: GETs of a post in a behaviour

ASSUME GetsAssumption == MaxGets \in Nat
ASSUME ReqsAssumption == IsFiniteSet(Reqs)

VARIABLES
    views,   \* view_count of each row (0 where there is none)
    copy,    \* the view counts in the entries of Redis
    held,    \* the view counts in what each request has read
    task,    \* the background task each slot is at, after its GET
    calls,   \* GETs of a post so far
    earned   \* history: GETs answered with the very post an id now has

bvars == <<vars, views, copy, held, task, calls, earned>>
-----------------------------------------------------------------------------
Zeros == [i \in Ids |-> 0]
NoTask == [at |-> "none", id |-> ListKey, seen |-> 0]
Tasks == {q \in Reqs : task[q].at # "none"}

\* The view counts that the database answers now for the key k.
Counts(k) == [i \in Ids |-> IF k \in {i, ListKey} THEN views[i] ELSE 0]

Hold(r, c) == held' = [held EXCEPT ![r] = c]

\* The counts of the entries that a step leaves in Redis.
Remaining == [k \in Keys |-> IF cache'[k] = Absent THEN Zeros ELSE copy[k]]

\* A read of k arrives; the GETs of a post are counted.
Calls(k) ==
    /\ k = ListKey \/ calls < MaxGets
    /\ calls' = IF k = ListKey THEN calls ELSE calls + 1

BInit ==
    /\ Init
    /\ views = Zeros /\ earned = Zeros /\ calls = 0
    /\ copy = [k \in Keys |-> Zeros]
    /\ held = [r \in Reqs |-> Zeros]
    /\ task = [r \in Reqs |-> NoTask]

(***************************************************************************)
(* The requests.                                                           *)
(***************************************************************************)
\* A read that is answered from Redis shows the counts of the entry.
ShowCached(r) ==
    /\ \E k \in Keys : ReadHit(r, k) /\ Calls(k) /\ Hold(r, copy[k])
    /\ UNCHANGED <<views, copy, task, earned>>

Arrive(r) ==
    /\ \/ \E k \in Keys : (ReadMiss(r, k) \/ ReadCacheDown(r, k)) /\ Calls(k)
       \/ Write(r) /\ UNCHANGED calls
    /\ UNCHANGED <<views, copy, held, task, earned>>

\* The steps that read rows read their counts.
ReadRows(r) ==
    /\ QueryPost(r) \/ QueryRows(r) \/ Load(r) \/ Refresh(r)
    /\ Hold(r, Counts(Key(r)))
    /\ UNCHANGED <<views, copy, task, calls, earned>>

\* An entry is stored, for certain or with a RedisError.
StoreCounts(r) ==
    /\ \/ Store(r)
       \/ StoreFails(r) /\ Put(r, Key(r), val[r])
    /\ copy' = [copy EXCEPT ![Key(r)] = held[r]]
    /\ UNCHANGED <<views, held, task, calls, earned>>

StoreNothing(r) ==
    /\ UNCHANGED redisVars /\ StoreFails(r)
    /\ UNCHANGED <<views, copy, held, task, calls, earned>>

\* INSERT takes the server default 0.
InsertCounts(r) ==
    /\ Insert(r)
    /\ views' = [i \in Ids |-> IF posts'[i] # posts[i] THEN 0 ELSE views[i]]
    /\ earned' = [i \in Ids |-> IF posts'[i] # posts[i] THEN 0 ELSE earned[i]]
    /\ Hold(r, Zeros)
    /\ UNCHANGED <<copy, task, calls>>

\* Mutant: the whole object is written back, with the count it was loaded with.
ViewsAfterPatchWhole(r) ==
    IF req[r].fields # {} /\ posts[req[r].id] # NoRow
    THEN [views EXCEPT ![req[r].id] = held[r][req[r].id]] ELSE views

\* The UPDATE of a PATCH sets the columns that were assigned, never view_count.
ViewsAfterPatch(r) == views

UpdateCounts(r) ==
    /\ Update(r)
    /\ views' = ViewsAfterPatch(r)
    /\ UNCHANGED <<copy, held, task, calls, earned>>

DeleteCounts(r) ==
    /\ Delete(r)
    /\ views' = [views EXCEPT ![req[r].id] = 0]
    /\ earned' = [earned EXCEPT ![req[r].id] = 0]
    /\ UNCHANGED <<copy, held, task, calls>>

\* The steps that touch no row: a count(*), an eviction, a failure.
Pass(r) ==
    /\ CountRows(r) \/ Evict(r) \/ EvictFails(r) \/ DbFails(r)
    /\ copy' = Remaining
    /\ UNCHANGED <<views, held, task, calls, earned>>

\* Mutant: the task is registered before the service is asked.
ViewedWhenAsked(r) == req[r].op = "get"

\* The router registers the task after get_post has returned.
Viewed(r) == req[r].op = "get" /\ status[r] = "ok"

\* The GET was answered with the very post that its id has now.
ShowsItsPost(r) ==
    LET row == posts[req[r].id]
    IN  req[r].op = "get" /\ status[r] = "ok" /\ row # NoRow /\ row.born = val[r].born

\* The answer leaves; after that of a GET the slot goes on with its task.
Leave(r) ==
    LET i == req[r].id
    IN  /\ Deliver(r)
        /\ Hold(r, Zeros)
        /\ task' = IF Viewed(r) THEN [task EXCEPT ![r] = [at |-> "read", id |-> i, seen |-> 0]]
                   ELSE task
        /\ earned' = IF ShowsItsPost(r) THEN [earned EXCEPT ![i] = @ + 1] ELSE earned
        /\ UNCHANGED <<views, copy, calls>>

ExpireCounts(k) ==
    /\ Expire(k)
    /\ copy' = Remaining
    /\ UNCHANGED <<views, held, task, calls, earned>>

\* A crash takes the tasks with it; one may be all there is to lose.
CrashCounts ==
    /\ "crash" \in Faults
    /\ \/ Crash
       \/ Tasks # {} /\ (\A r \in Reqs : pc[r] = "idle") /\ UNCHANGED vars
    /\ held' = [r \in Reqs |-> Zeros]
    /\ task' = [r \in Reqs |-> NoTask]
    /\ UNCHANGED <<views, copy, calls, earned>>

(***************************************************************************)
(* increment_view_count.                                                   *)
(***************************************************************************)
EndTask(r) == task' = [task EXCEPT ![r] = NoTask]

\* SELECT by id: the task returns when there is no row, else takes its count.
TaskRead(r) ==
    LET i == task[r].id
    IN  /\ task[r].at = "read"
        /\ IF posts[i] = NoRow THEN EndTask(r)
           ELSE task' = [task EXCEPT ![r] = [at |-> "commit", id |-> i, seen |-> views[i]]]
        /\ UNCHANGED <<vars, views, copy, held, calls, earned>>

\* COMMIT: UPDATE ... WHERE id; on no row a StaleDataError, caught and logged.
TaskCommit(r) ==
    LET i == task[r].id
    IN  /\ task[r].at = "commit"
        /\ views' = IF posts[i] = NoRow THEN views
                    ELSE [views EXCEPT ![i] = task[r].seen + 1]
        /\ EndTask(r)
        /\ UNCHANGED <<vars, copy, held, calls, earned>>

\* A statement of the task raises: a log line, and the view is lost.
TaskFails(r) ==
    /\ "database" \in Faults /\ task[r].at # "none"
    /\ EndTask(r)
    /\ UNCHANGED <<vars, views, copy, held, calls, earned>>

Serve(r) ==
    \/ ReadRows(r) \/ StoreCounts(r) \/ InsertCounts(r) \/ UpdateCounts(r)
    \/ DeleteCounts(r) \/ Pass(r) \/ Leave(r)

BNext ==
    \/ \E r \in Reqs \ Tasks : ShowCached(r) \/ Arrive(r) \/ Serve(r) \/ StoreNothing(r)
    \/ \E r \in Reqs : TaskRead(r) \/ TaskCommit(r) \/ TaskFails(r)
    \/ \E k \in Keys : ExpireCounts(k)
    \/ CrashCounts

BSpec == BInit /\ [][BNext]_bvars

\* As in PostService; the event loop runs the tasks on as well.
BFairSpec ==
    /\ BSpec
    /\ \A r \in Reqs : WF_bvars(Serve(r)) /\ WF_bvars(TaskRead(r) \/ TaskCommit(r))
    /\ \A k \in Keys : WF_bvars(ExpireCounts(k))
-----------------------------------------------------------------------------
(***************************************************************************)
(* Properties.                                                             *)
(***************************************************************************)
\* Every variable has the values the code gives it, a row that is not there has
\* no views, and a slot is at its task only after its request.
BTypeOK ==
    /\ TypeOK
    /\ views \in [Ids -> Nat] /\ earned \in [Ids -> Nat] /\ calls \in 0..MaxGets
    /\ copy \in [Keys -> [Ids -> Nat]]
    /\ held \in [Reqs -> [Ids -> Nat]]
    /\ task \in [Reqs -> [at : {"none", "read", "commit"}, id : Keys, seen : Nat]]
    /\ \A i \in Ids : posts[i] = NoRow => views[i] = 0
    /\ \A r \in Tasks : pc[r] = "idle" /\ task[r].id \in Ids

\* The entry v of the key k shows the post that i is now.
Shows(v, k, i) ==
    LET row == IF k = ListKey THEN v.rows[i] ELSE v
    IN  v # Absent /\ k \in {i, ListKey} /\ row # NoRow /\ row.born = posts[i].born

\* No view is invented: what the table and Redis say of a post stays within the
\* GETs that were answered with this very post, those to be counted included -
\* also when an entry outlives its post, when tasks overlap a PATCH, a DELETE or
\* each other, and when an id is followed by the next (a sequence: an id that is
\* handed out again would inherit the tasks of the post before).
ViewsEarned ==
    \A i \in Ids : posts[i] # NoRow =>
        /\ views[i] + Cardinality({q \in Tasks : task[q].id = i}) <= earned[i]
        /\ \A k \in Keys : Shows(cache[k], k, i) => copy[k][i] <= earned[i]

\* A PATCH that was loaded before a view was counted does not take it back: the
\* count of a post that stays is changed by the commit of a task of its own only
\* (update_post, increment_view_count).
OnlyTasksCount ==
    [][\A i \in Ids :
         views'[i] # views[i] /\ posts[i] # NoRow /\ posts'[i] # NoRow
                              /\ posts'[i].born = posts[i].born =>
           \E r \in Reqs : task[r].at = "commit" /\ task[r].id = i /\ pc' = pc]_bvars

\* The commit of a task evicts nothing, so Redis goes on showing the count from
\* before.  Once the GETs and the writes are over it comes to show the table's.
ViewsCatchUp == <>[](\A k \in Keys : cache[k] # Absent => copy[k] = Counts(k))
=============================================================================
