-------------------------- MODULE ViewCountProofs --------------------------
(***************************************************************************)
(* The accounts of views and connections for any number of GETs and any    *)
(* size of the pool.                                                       *)
(***************************************************************************)
EXTENDS ViewCount, FiniteSetTheorems, TLAPS

USE GetsAssumption, BoundsAssumption, FaultsAssumption, NoRowAssumption

\* What a task at its commit has read leaves room for it and for every view
\* still to be counted; without a disturbance it is alone and up to date.
SeenBounded ==
    \A g \in Gets : pc[g] = "task_commit" /\ views # NoRow =>
        /\ seen[g] + Cardinality(Pending) <= answered
        /\ ~disturbed => seen[g] = views /\ ~Overlaps(g)

Inv == TypeOK /\ PoolBalanced /\ free \in Nat /\ ViewsBounded /\ ViewsExact /\ SeenBounded

LEMMA PendingFinite == IsFiniteSet(Pending) /\ Cardinality(Pending) \in Nat
  BY FS_Subset, FS_CardinalityType DEF Pending

LEMMA HoldersFinite ==
  ASSUME TypeOK
  PROVE  /\ IsFiniteSet(router) /\ Cardinality(router) \in Nat
         /\ IsFiniteSet(task) /\ Cardinality(task) \in Nat
  <1>1. router \in SUBSET Gets /\ task \in SUBSET Gets
    BY DEF TypeOK
  <1> QED
    BY <1>1, FS_Subset, FS_CardinalityType

\* A GET that is answered joins the views to be counted.
LEMMA PendingJoin ==
  ASSUME TypeOK, NEW g \in Gets, g \notin Pending, Goto(g, "task_wait")
  PROVE  Cardinality(Pending') = Cardinality(Pending) + 1
  <1>1. Pending' = Pending \cup {g}
    BY DEF Pending, Goto, TypeOK
  <1> QED
    BY <1>1, PendingFinite, FS_AddElement

\* A task that ends leaves them.
LEMMA PendingLeave ==
  ASSUME TypeOK, NEW g \in Gets, g \in Pending, Goto(g, "idle")
  PROVE  Cardinality(Pending') = Cardinality(Pending) - 1
  <1>1. Pending' = Pending \ {g}
    BY DEF Pending, Goto, TypeOK
  <1> QED
    BY <1>1, PendingFinite, FS_RemoveElement

\* Closing both sessions gives back what each of them held.
LEMMA EndBalanced ==
  ASSUME TypeOK, PoolBalanced, free \in Nat, NEW g \in Gets, End(g)
  PROVE  PoolBalanced' /\ free' \in Nat
  <1>1. Cardinality(router') = Cardinality(router) - (IF g \in router THEN 1 ELSE 0)
    <2>1. CASE g \in router
      BY <2>1, HoldersFinite, FS_RemoveElement DEF End
    <2>2. CASE g \notin router
      <3>1. router' = router
        BY <2>2 DEF End
      <3> QED
        BY <2>2, <3>1, HoldersFinite
    <2> QED
      BY <2>1, <2>2
  <1>2. Cardinality(task') = Cardinality(task) - (IF g \in task THEN 1 ELSE 0)
    <2>1. CASE g \in task
      BY <2>1, HoldersFinite, FS_RemoveElement DEF End
    <2>2. CASE g \notin task
      <3>1. task' = task
        BY <2>2 DEF End
      <3> QED
        BY <2>2, <3>1, HoldersFinite
    <2> QED
      BY <2>1, <2>2
  <1>3. /\ Cardinality(router) \in Nat /\ Cardinality(task) \in Nat
        /\ free = PoolSize - Cardinality(router) - Cardinality(task)
        /\ free' = free + (IF g \in router THEN 1 ELSE 0) + (IF g \in task THEN 1 ELSE 0)
    BY HoldersFinite DEF End, PoolBalanced
  <1> QED
    BY <1>1, <1>2, <1>3 DEF PoolBalanced

LEMMA EndType ==
  ASSUME TypeOK, NEW g \in Gets, End(g)
  PROVE  /\ pc' \in [Gets -> {"idle", "wait", "query", "task_wait", "task_read", "task_commit"}]
         /\ router' \subseteq {h \in Gets : pc'[h] \notin {"idle", "wait"}}
         /\ task' = {h \in Gets : pc'[h] \in {"task_read", "task_commit"}}
  BY DEF TypeOK, End, Goto

-----------------------------------------------------------------------------
LEMMA InitInv == Init => Inv
  <1> SUFFICES ASSUME Init PROVE Inv
    OBVIOUS
  <1>1. Pending = {} /\ Cardinality({}) = 0
    BY FS_EmptySet DEF Init, Pending
  <1> QED
    <2>1. TypeOK /\ free \in Nat
      BY DEF Init, TypeOK
    <2>2. PoolBalanced
      BY <1>1 DEF Init, PoolBalanced
    <2>3. ViewsBounded /\ ViewsExact /\ SeenBounded
      BY <1>1 DEF Init, ViewsBounded, ViewsExact, SeenBounded
    <2> QED
      BY <2>1, <2>2, <2>3 DEF Inv

\* A step of the request before its answer.
LEMMA WaitStep ==
  ASSUME Inv, NEW g \in Gets, Miss(g) \/ Connect(g)
  PROVE  Inv'
  <1> USE DEF Inv, TypeOK, Goto
  <1>1. /\ Pending' = Pending /\ UNCHANGED <<views, seen, answered, disturbed, task>>
        /\ \A h \in Gets : (pc'[h] = "task_commit") <=> (pc[h] = "task_commit")
    BY DEF Miss, Connect, Pending, pool
  <1>2. ViewsBounded' /\ ViewsExact' /\ SeenBounded'
    BY <1>1 DEF ViewsBounded, ViewsExact, SeenBounded, Overlaps
  <1>3. TypeOK'
    BY DEF Miss, Connect, pool
  <1>4. PoolBalanced' /\ free' \in Nat
    <2>1. CASE Miss(g)
      BY <2>1 DEF Miss, pool, PoolBalanced
    <2>2. CASE Connect(g)
      <3>1. g \notin router
        BY <2>2 DEF Connect
      <3>2. Cardinality(router') = Cardinality(router) + 1
        BY <2>2, <3>1, HoldersFinite, FS_AddElement DEF Connect
      <3> QED
        BY <2>2, <3>2, HoldersFinite DEF Connect, PoolBalanced
    <2> QED
      BY <2>1, <2>2
  <1> QED
    BY <1>2, <1>3, <1>4

\* The answer is 200 and the task is added.
LEMMA RespondStep ==
  ASSUME Inv, NEW g \in Gets, pc[g] \in {"idle", "query"}, Respond(g),
         UNCHANGED <<views, pool, seen, disturbed>>
  PROVE  Inv'
  <1> USE DEF Inv, TypeOK, Goto, pool, Respond
  <1>1. Cardinality(Pending') = Cardinality(Pending) + 1 /\ Cardinality(Pending) \in Nat
    BY PendingJoin, PendingFinite DEF Pending
  <1>2. \A h \in Gets : (pc'[h] = "task_commit") <=> (pc[h] = "task_commit")
    OBVIOUS
  <1>3. TypeOK' /\ PoolBalanced' /\ free' \in Nat
    BY DEF PoolBalanced
  <1>4. ViewsBounded' /\ ViewsExact'
    BY <1>1 DEF ViewsBounded, ViewsExact
  <1>5. SeenBounded'
    BY <1>1, <1>2 DEF SeenBounded, Overlaps
  <1> QED
    BY <1>3, <1>4, <1>5

\* A request that ends with no view to count.
LEMMA PlainEndStep ==
  ASSUME Inv, NEW g \in Gets, g \notin Pending, End(g),
         UNCHANGED <<views, seen, answered, disturbed>>
  PROVE  Inv'
  <1> USE DEF Inv
  <1>1. /\ Pending' = Pending
        /\ \A h \in Gets : (pc'[h] = "task_commit") <=> (pc[h] = "task_commit")
    BY DEF Pending, End, Goto, TypeOK
  <1>2. ViewsBounded' /\ ViewsExact' /\ SeenBounded'
    BY <1>1 DEF ViewsBounded, ViewsExact, SeenBounded, Overlaps
  <1>3. TypeOK'
    BY EndType DEF TypeOK
  <1> QED
    BY <1>2, <1>3, EndBalanced

\* A task that ends without counting its view: from now on one may be missing.
LEMMA LostEndStep ==
  ASSUME Inv, NEW g \in Gets, g \in Pending, End(g),
         UNCHANGED <<views, seen, answered>>, disturbed' = TRUE
  PROVE  Inv'
  <1> USE DEF Inv
  <1>1. /\ Cardinality(Pending') = Cardinality(Pending) - 1 /\ Cardinality(Pending) \in Nat
        /\ \A h \in Gets : pc'[h] = "task_commit" => pc[h] = "task_commit"
    BY PendingLeave, PendingFinite DEF End, Goto, TypeOK
  <1>2. ViewsBounded' /\ ViewsExact' /\ SeenBounded'
    BY <1>1 DEF ViewsBounded, ViewsExact, SeenBounded, TypeOK
  <1>3. TypeOK'
    BY EndType DEF TypeOK
  <1> QED
    BY <1>2, <1>3, EndBalanced

LEMMA TaskConnectStep ==
  ASSUME Inv, NEW g \in Gets, TaskConnect(g)
  PROVE  Inv'
  <1> USE DEF Inv, TypeOK, Goto, TaskConnect
  <1>1. /\ Pending' = Pending
        /\ \A h \in Gets : (pc'[h] = "task_commit") <=> (pc[h] = "task_commit")
    BY DEF Pending
  <1>2. ViewsBounded' /\ ViewsExact' /\ SeenBounded'
    BY <1>1 DEF ViewsBounded, ViewsExact, SeenBounded, Overlaps
  <1>3. Cardinality(task') = Cardinality(task) + 1
    BY HoldersFinite, FS_AddElement
  <1>4. TypeOK'
    OBVIOUS
  <1>5. PoolBalanced' /\ free' \in Nat
    BY <1>3, HoldersFinite DEF PoolBalanced
  <1> QED
    BY <1>2, <1>4, <1>5

LEMMA TaskReadStep ==
  ASSUME Inv, NEW g \in Gets, TaskRead(g)
  PROVE  Inv'
  <1>1. CASE views = NoRow
    BY <1>1, LostEndStep DEF TaskRead, Pending
  <1>2. CASE views # NoRow
    <2> USE <1>2 DEF Inv, TypeOK, Goto, TaskRead
    <2>1. /\ Pending' = Pending /\ UNCHANGED <<views, answered, router, task, free>>
          /\ seen' = [seen EXCEPT ![g] = views] /\ pc' = [pc EXCEPT ![g] = "task_commit"]
          /\ disturbed' = (disturbed \/ Overlaps(g)) /\ pc[g] = "task_read"
      BY DEF Pending, pool
    <2>2. TypeOK'
      BY <2>1
    <2>3. PoolBalanced' /\ free' \in Nat /\ ViewsBounded' /\ ViewsExact'
      BY <2>1 DEF PoolBalanced, ViewsBounded, ViewsExact
    <2>4. SeenBounded'
      <3> SUFFICES ASSUME NEW h \in Gets, pc'[h] = "task_commit"
                   PROVE  /\ seen'[h] + Cardinality(Pending) <= answered
                          /\ ~disturbed' => seen'[h] = views /\ ~Overlaps(h)'
        BY <2>1 DEF SeenBounded
      <3>1. CASE h = g
        BY <2>1, <3>1 DEF ViewsBounded, Overlaps
      <3>2. CASE h # g
        BY <2>1, <3>2 DEF SeenBounded, Overlaps
      <3> QED
        BY <3>1, <3>2
    <2> QED
      BY <2>2, <2>3, <2>4
  <1> QED
    BY <1>1, <1>2

LEMMA TaskCommitStep ==
  ASSUME Inv, NEW g \in Gets, TaskCommit(g)
  PROVE  Inv'
  <1>1. g \in Pending
    BY DEF TaskCommit, Pending
  <1>2. CASE views = NoRow
    BY <1>1, <1>2, LostEndStep DEF TaskCommit
  <1>3. CASE views # NoRow
    <2> USE <1>3 DEF Inv
    <2>1. /\ Cardinality(Pending') = Cardinality(Pending) - 1 /\ Cardinality(Pending) \in Nat
          /\ \A h \in Gets : pc'[h] = "task_commit" => h # g /\ pc[h] = "task_commit"
      BY <1>1, PendingLeave, PendingFinite DEF TaskCommit, End, Goto, TypeOK
    <2>2. /\ views' = seen[g] + 1 /\ UNCHANGED <<seen, answered, disturbed>>
          /\ End(g) /\ pc[g] = "task_commit"
      BY DEF TaskCommit, Counted
    <2>3. seen[g] \in Nat /\ answered \in Nat /\ views \in Nat /\ views' # NoRow
      BY <2>2 DEF TypeOK
    <2>4. TypeOK'
      BY <2>2, <2>3, EndType DEF TypeOK
    <2>5. ViewsBounded' /\ ViewsExact'
      BY <2>1, <2>2, <2>3 DEF SeenBounded, ViewsBounded, ViewsExact
    <2>6. SeenBounded'
      <3> SUFFICES ASSUME NEW h \in Gets, pc'[h] = "task_commit"
                   PROVE  /\ seen'[h] + Cardinality(Pending') <= answered'
                          /\ ~disturbed' => seen'[h] = views' /\ ~Overlaps(h)'
        BY DEF SeenBounded
      <3>1. h # g /\ pc[h] = "task_commit" /\ seen[h] \in Nat
        BY <2>1 DEF TypeOK
      <3>2. disturbed
        BY <2>2, <3>1 DEF SeenBounded, Overlaps
      <3> QED
        BY <2>1, <2>2, <2>3, <3>1, <3>2 DEF SeenBounded
    <2> QED
      BY <2>2, <2>4, <2>5, <2>6, EndBalanced
  <1> QED
    BY <1>2, <1>3

LEMMA InvInductive == Inv /\ [Next]_vars => Inv'
  <1> SUFFICES ASSUME Inv, [Next]_vars PROVE Inv'
    OBVIOUS
  <1>1. CASE UNCHANGED vars
    BY <1>1 DEF vars, Inv, TypeOK, PoolBalanced, ViewsBounded, ViewsExact, SeenBounded,
                Pending, Overlaps
  <1>2. CASE DeletePost
    BY <1>2 DEF DeletePost, pool, Inv, TypeOK, PoolBalanced, ViewsBounded, ViewsExact,
                SeenBounded
  <1>3. ASSUME NEW g \in Gets, Hit(g) \/ Query(g)
        PROVE  Inv'
    <2>1. CASE Hit(g)
      BY <2>1, RespondStep DEF Hit
    <2>2. CASE Query(g)
      BY <2>2, RespondStep, PlainEndStep DEF Query, Pending
    <2> QED
      BY <1>3, <2>1, <2>2
  <1>4. ASSUME NEW g \in Gets, Timeout(g) \/ DbFails(g)
        PROVE  Inv'
    BY <1>4, PlainEndStep, LostEndStep DEF Timeout, DbFails, Pending, Inv, TypeOK
  <1> QED
    BY <1>1, <1>2, <1>3, <1>4, WaitStep, TaskConnectStep, TaskReadStep, TaskCommitStep
    DEF Next, Progress

\* Every state is well typed: a session holds a connection only while its GET or
\* its task is at work (get_db, increment_view_count).
THEOREM TypeCorrect == Spec => []TypeOK
  <1>1. Inv => TypeOK
    BY DEF Inv
  <1> QED
    BY <1>1, InitInv, InvInductive, PTL DEF Spec

\* For any number of GETs no view is counted twice: the count and the views
\* still to be counted never exceed the GETs answered with the post.
THEOREM NeverAhead == Spec => []ViewsBounded
  <1>1. Inv => ViewsBounded
    BY DEF Inv
  <1> QED
    BY <1>1, InitInv, InvInductive, PTL DEF Spec

\* A view is lost to an overlap, a failure or a deleted post, and to nothing else.
THEOREM LostOnlyWhenDisturbed == Spec => []ViewsExact
  <1>1. Inv => ViewsExact
    BY DEF Inv
  <1> QED
    BY <1>1, InitInv, InvInductive, PTL DEF Spec

\* The pool gets every connection back exactly once, on every way out of a
\* request and of its task.
THEOREM PoolNeverLeaks == Spec => []PoolBalanced
  <1>1. Inv => PoolBalanced
    BY DEF Inv
  <1> QED
    BY <1>1, InitInv, InvInductive, PTL DEF Spec

-----------------------------------------------------------------------------
\* The most steps a GET and its task can still take, the most at its arrival.
StepsLeft ==
    [idle |-> 0, task_commit |-> 1, task_read |-> 2, task_wait |-> 3, query |-> 4,
     wait |-> 5]

\* Whatever moves a GET in flight, a fault or a timeout included, brings it nearer
\* to its end, and every step of its own moves it.
Tires(g) ==
    /\ pc[g] # "idle" /\ pc'[g] # pc[g] => StepsLeft[pc'[g]] < StepsLeft[pc[g]]
    /\ Progress(g) \/ DbFails(g) => pc'[g] # pc[g]

\* The places a GET in flight may go on to, in the order of the code.
LEMMA MovesForward ==
  ASSUME TypeOK, NEW g \in Gets, Progress(g) \/ DbFails(g)
  PROVE  /\ pc[g] # "idle" /\ StepsLeft[pc'[g]] < StepsLeft[pc[g]]
         /\ \A h \in Gets \ {g} : pc'[h] = pc[h]
  BY DEF TypeOK, Progress, Connect, Query, Respond, TaskConnect, TaskRead, TaskCommit,
         Timeout, DbFails, End, Goto, StepsLeft

\* A GET that arrives had none before it in its slot.
LEMMA ArrivesIdle ==
  ASSUME TypeOK, NEW g \in Gets, Hit(g) \/ Miss(g)
  PROVE  pc[g] = "idle" /\ \A h \in Gets \ {g} : pc'[h] = pc[h]
  BY DEF TypeOK, Hit, Miss, Respond, Goto

\* Every GET in flight, its task included, is at most five steps from its end,
\* whatever fails: no exit of the task leads back to a wait for a connection,
\* so the pool's timeout ends a GET for good (increment_view_count, get_db).
THEOREM ViewsTire == Spec => [][\A g \in Gets : Tires(g)]_vars
  <1>1. TypeOK /\ [Next]_vars => [\A g \in Gets : Tires(g)]_vars
    <2> SUFFICES ASSUME TypeOK, Next, NEW g \in Gets
                 PROVE  Tires(g)
      OBVIOUS
    <2>1. Progress(g) \/ DbFails(g) => pc'[g] # pc[g]
      <3>1. StepsLeft[pc[g]] \in Nat
        BY DEF TypeOK, StepsLeft
      <3>2. pc'[g] = pc[g] => ~(StepsLeft[pc'[g]] < StepsLeft[pc[g]])
        BY <3>1
      <3> QED
        BY <3>2, MovesForward
    <2>2. ASSUME pc[g] # "idle", pc'[g] # pc[g]
          PROVE  StepsLeft[pc'[g]] < StepsLeft[pc[g]]
      <3>1. ASSUME NEW h \in Gets, Hit(h) \/ Miss(h)
            PROVE  FALSE
        BY <2>2, <3>1, ArrivesIdle
      <3>2. ASSUME NEW h \in Gets, Progress(h) \/ DbFails(h)
            PROVE  StepsLeft[pc'[g]] < StepsLeft[pc[g]]
        <4>1. h = g
          BY <2>2, <3>2, MovesForward
        <4> QED
          BY <3>2, <4>1, MovesForward
      <3>3. CASE DeletePost
        BY <2>2, <3>3 DEF DeletePost
      <3> QED
        BY <3>1, <3>2, <3>3 DEF Next
    <2> QED
      BY <2>1, <2>2 DEF Tires
  <1>2. Inv => TypeOK
    BY DEF Inv
  <1> QED
    BY <1>1, <1>2, InitInv, InvInductive, PTL DEF Spec
=============================================================================
