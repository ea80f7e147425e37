----------------------------- MODULE ViewCount -----------------------------
(***************************************************************************)
(* GET /api/posts/{id} and the view it counts: the router answers from     *)
(* Redis or through its database session, and the same coroutine then runs *)
(* increment_view_count in a session of its own (post_router.py, tasks.py, *)
(* database.py).  One post is watched; sessions draw connections from the  *)
(* engine's pool.                                                          *)
(*                                                                         *)
(* The pinned FastAPI closes the dependencies of a request after its       *)
(* background tasks, so a router session that has queried keeps its        *)
(* connection while the task asks the pool for a second one.               *)
(***************************************************************************)
EXTENDS Integers, FiniteSets

CONSTANTS
    Gets,      \* coroutine slots: the GETs that may be in flight together
    PoolSize,  \* connections of the engine's pool, overflow included
    MaxViews,  \* bound: GETs answered with the post in a behaviour
    Faults,    \* the faults of the environment: "database"
    NoRow      \* the post is gone

ASSUME GetsAssumption == IsFiniteSet(Gets)
ASSUME BoundsAssumption == PoolSize \in Nat \ {0} /\ MaxViews \in Nat
ASSUME FaultsAssumption == Faults \subseteq {"database"}
ASSUME NoRowAssumption == NoRow \notin Int

VARIABLES
    views,     \* view_count of the row, or NoRow
    pc,        \* where each GET stands
    router,    \* the GETs whose router session holds a connection
    task,      \* the GETs whose task session holds a connection
    free,      \* connections in the pool
    seen,      \* the view_count each task has read
    answered,  \* history: GETs answered with the post
    disturbed  \* history: a task overlapped another, or did not finish its work

vars == <<views, pc, router, task, free, seen, answered, disturbed>>
-----------------------------------------------------------------------------
\* The GETs that are answered and whose view is not yet counted.
Pending == {g \in Gets : pc[g] \in {"task_wait", "task_read", "task_commit"}}

\* A task g would read while another has read and not committed.
Overlaps(g) == \E h \in Gets \ {g} : pc[h] = "task_commit"

\* Bound: the GETs answered and those that may still be.
MayArrive ==
    answered + Cardinality({g \in Gets : pc[g] \in {"wait", "query"}}) < MaxViews

Goto(g, l) == pc' = [pc EXCEPT ![g] = l]

\* Mutants: the sessions are not closed; the task's connection is forgotten.
EndOpen(g) == Goto(g, "idle") /\ UNCHANGED <<router, task, free>>

EndLeaks(g) ==
    /\ Goto(g, "idle")
    /\ router' = router \ {g} /\ task' = task \ {g}
    /\ free' = free + (IF g \in router THEN 1 ELSE 0)

\* Both sessions of the request are closed (async with), on every way out.
End(g) ==
    /\ Goto(g, "idle")
    /\ router' = router \ {g} /\ task' = task \ {g}
    /\ free' = free + (IF g \in router THEN 1 ELSE 0)
                    + (IF g \in task THEN 1 ELSE 0)

pool == <<router, task, free>>

Init ==
    /\ views = 0 /\ answered = 0 /\ disturbed = FALSE
    /\ pc = [g \in Gets |-> "idle"]
    /\ seen = [g \in Gets |-> 0]
    /\ router = {} /\ task = {} /\ free = PoolSize

(***************************************************************************)
(* The request.                                                            *)
(***************************************************************************)

\* The answer is 200: the task is added and starts when the answer is out.
Respond(g) ==
    /\ answered' = answered + 1
    /\ Goto(g, "task_wait")

\* The post is in Redis: the session is never used and draws no connection.
Hit(g) ==
    /\ pc[g] = "idle" /\ MayArrive
    /\ Respond(g)
    /\ UNCHANGED <<views, pool, seen, disturbed>>

\* The post is not in Redis (a GET of a deleted post counts no view).
Miss(g) ==
    /\ pc[g] = "idle" /\ (MayArrive \/ views = NoRow)
    /\ Goto(g, "wait")
    /\ UNCHANGED <<views, pool, seen, answered, disturbed>>

\* The session's first statement checks a connection out, which it keeps.
Connect(g) ==
    /\ pc[g] = "wait" /\ free > 0
    /\ free' = free - 1 /\ router' = router \cup {g}
    /\ Goto(g, "query")
    /\ UNCHANGED <<views, task, seen, answered, disturbed>>

\* find_by_id: 404 and no task when there is no row.
Query(g) ==
    /\ pc[g] = "query"
    /\ IF views = NoRow THEN End(g) /\ UNCHANGED answered
       ELSE Respond(g) /\ UNCHANGED pool
    /\ UNCHANGED <<views, seen, disturbed>>

(***************************************************************************)
(* increment_view_count.                                                   *)
(***************************************************************************)
TaskConnect(g) ==
    /\ pc[g] = "task_wait" /\ free > 0
    /\ free' = free - 1 /\ task' = task \cup {g}
    /\ Goto(g, "task_read")
    /\ UNCHANGED <<views, router, seen, answered, disturbed>>

\* SELECT: the task returns when the post is gone, else takes its count.
TaskRead(g) ==
    /\ pc[g] = "task_read"
    /\ \/ /\ views = NoRow
          /\ End(g) /\ disturbed' = TRUE /\ UNCHANGED seen
       \/ /\ views # NoRow
          /\ seen' = [seen EXCEPT ![g] = views]
          /\ disturbed' = (disturbed \/ Overlaps(g))
          /\ Goto(g, "task_commit") /\ UNCHANGED pool
    /\ UNCHANGED <<views, answered>>

\* Mutants: a view is counted twice, or not at all.
CountedTwice(g) == seen[g] + 2
NotCounted(g) == seen[g]

\* What += 1 leaves in the object, from what the task read.
Counted(g) == seen[g] + 1

\* COMMIT: UPDATE ... SET view_count; on no row, StaleDataError and rollback.
TaskCommit(g) ==
    /\ pc[g] = "task_commit"
    /\ IF views = NoRow THEN disturbed' = TRUE /\ UNCHANGED views
       ELSE views' = Counted(g) /\ UNCHANGED disturbed
    /\ End(g)
    /\ UNCHANGED <<seen, answered>>
-----------------------------------------------------------------------------
\* A statement raises: 500 for the request, a log line for the task.
DbFails(g) ==
    /\ "database" \in Faults
    /\ pc[g] \in {"query", "task_read", "task_commit"}
    /\ disturbed' = (disturbed \/ pc[g] # "query")
    /\ End(g)
    /\ UNCHANGED <<views, seen, answered>>

\* Mutant: the pool waits for ever.
NeverTimesOut == FALSE

\* The pool is empty and stays so for the pool's timeout.
TimesOut == free = 0

\* The wait for a connection raises: 500 for the request, a log for the task.
Timeout(g) ==
    /\ pc[g] \in {"wait", "task_wait"} /\ TimesOut
    /\ disturbed' = (disturbed \/ pc[g] = "task_wait")
    /\ End(g)
    /\ UNCHANGED <<views, seen, answered>>

\* DELETE of the post by another request.
DeletePost ==
    /\ views # NoRow
    /\ views' = NoRow
    /\ UNCHANGED <<pc, pool, seen, answered, disturbed>>

Progress(g) ==
    \/ Connect(g) \/ Query(g) \/ TaskConnect(g) \/ TaskRead(g) \/ TaskCommit(g)
    \/ Timeout(g)

Next ==
    \/ \E g \in Gets : Hit(g) \/ Miss(g) \/ Progress(g) \/ DbFails(g)
    \/ DeletePost

Spec == Init /\ [][Next]_vars

\* The event loop resumes every await that is over; a wait for a connection is
\* over when there is one or when the pool's timeout is.
FairSpec == Spec /\ \A g \in Gets : WF_vars(Progress(g))
-----------------------------------------------------------------------------
(***************************************************************************)
(* Properties.                                                             *)
(***************************************************************************)
TypeOK ==
    /\ views \in Nat \cup {NoRow}
    /\ pc \in [Gets -> {"idle", "wait", "query", "task_wait", "task_read", "task_commit"}]
    /\ router \subseteq {g \in Gets : pc[g] \notin {"idle", "wait"}}
    /\ task = {g \in Gets : pc[g] \in {"task_read", "task_commit"}}
    /\ seen \in [Gets -> Nat]
    /\ answered \in Nat /\ disturbed \in BOOLEAN

\* Every connection is in the pool or held by one session: none leaks and none
\* goes back twice, whichever way a request or its task ends.
PoolBalanced == free = PoolSize - Cardinality(router) - Cardinality(task)

\* The count never runs ahead: it and the views still to be counted stay within
\* the GETs answered with the post, so no view is ever counted twice.
ViewsBounded == views # NoRow => views + Cardinality(Pending) <= answered

\* A view is only lost when two tasks overlapped or one could not finish:
\* otherwise every answered GET is counted or about to be.
ViewsExact ==
    views # NoRow /\ ~disturbed => views + Cardinality(Pending) = answered

\* Every GET and its task end, also when the GETs in flight hold every
\* connection and each waits for one more: the pool's timeout breaks the tie.
EveryViewEnds == \A g \in Gets : (pc[g] # "idle") ~> (pc[g] = "idle")

\* When nothing is in flight and nothing has failed, the GETs of a post are all
\* counted: so the API tests have it of five GETs.
AllViewsCounted ==
    (\A g \in Gets : pc[g] = "idle") /\ views # NoRow => views = answered
=============================================================================
