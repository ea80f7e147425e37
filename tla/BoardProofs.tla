---------------------------- MODULE BoardProofs ----------------------------
(***************************************************************************)
(* The counts of views on the board, for any number of slots, ids, GETs    *)
(* and writes and under every fault.                                       *)
(***************************************************************************)
EXTENDS Board, PostServiceProofs

USE DEF bvars

-----------------------------------------------------------------------------
(***************************************************************************)
(* The board is the post service with something added.                     *)
(***************************************************************************)
LEMMA BoardSteps == [BNext]_bvars => [Next]_vars
  <1> SUFFICES ASSUME [BNext]_bvars PROVE [Next]_vars
    OBVIOUS
  <1>1. ASSUME NEW r \in Reqs, ShowCached(r) \/ Arrive(r)
        PROVE  Next
    BY <1>1 DEF ShowCached, Arrive, Next, Read
  <1>2. ASSUME NEW r \in Reqs, Serve(r)
        PROVE  Next
    BY <1>2 DEF Serve, ReadRows, StoreCounts, InsertCounts, UpdateCounts, DeleteCounts,
                Pass, Leave, Next, Progress, Fault
  <1>3. ASSUME NEW r \in Reqs, StoreNothing(r)
        PROVE  Next
    BY <1>3 DEF StoreNothing, Next, Fault
  <1>4. ASSUME NEW r \in Reqs, TaskRead(r) \/ TaskCommit(r) \/ TaskFails(r)
        PROVE  UNCHANGED vars
    BY <1>4 DEF TaskRead, TaskCommit, TaskFails
  <1>5. ASSUME NEW k \in Keys, ExpireCounts(k)
        PROVE  Next
    BY <1>5 DEF ExpireCounts, Next
  <1>6. CASE CrashCounts
    BY <1>6 DEF CrashCounts, Next
  <1> QED
    BY <1>1, <1>2, <1>3, <1>4, <1>5, <1>6 DEF BNext

\* Whatever is true of the post service is true of it on the board: BSpec adds
\* the views and the background tasks, and takes no liberty with the rest.
THEOREM BoardIsPostService == BSpec => Spec
  <1>1. BInit => Init
    BY DEF BInit
  <1> QED
    BY <1>1, BoardSteps, PTL DEF BSpec, Spec

-----------------------------------------------------------------------------
(***************************************************************************)
(* Types of the counts.                                                    *)
(***************************************************************************)
TasksOf(i) == {q \in Tasks : task[q].id = i}

CountTypes ==
    /\ views \in [Ids -> Nat] /\ earned \in [Ids -> Nat]
    /\ copy \in [Keys -> [Ids -> Nat]]
    /\ held \in [Reqs -> [Ids -> Nat]]
    /\ task \in [Reqs -> [at : {"none", "read", "commit"}, id : Keys, seen : Nat]]
    /\ \A r \in Tasks : task[r].id \in Ids

LEMMA CountsType ==
  ASSUME CountTypes, NEW k \in Keys
  PROVE  Counts(k) \in [Ids -> Nat]
  BY DEF CountTypes, Counts

LEMMA KeyType ==
  ASSUME TypeOK, NEW r \in Reqs
  PROVE  Key(r) \in Keys
  BY DEF TypeOK, Key, Request

\* A GET has the id of a post.
GetIds == \A r \in Reqs : req[r].op = "get" => req[r].id \in Ids

LEMMA GetIdsStep == TypeOK /\ GetIds /\ [Next]_vars => GetIds'
  <1> SUFFICES ASSUME TypeOK, GetIds, [Next]_vars PROVE GetIds'
    OBVIOUS
  <1> USE DEF GetIds, TypeOK, Keys, ListKey
  <1>1. ASSUME NEW r \in Reqs, NEW k \in Keys,
               ReadHit(r, k) \/ ReadMiss(r, k) \/ ReadCacheDown(r, k)
        PROVE  GetIds'
    <2>1. req' = [req EXCEPT ![r] = ReadOf(k)]
      BY <1>1 DEF ReadHit, ReadMiss, ReadCacheDown
    <2> QED
      BY <2>1 DEF ReadOf
  <1>2. ASSUME NEW r \in Reqs, Write(r)
        PROVE  GetIds'
    BY <1>2 DEF Write, StartCreate, StartUpdate, StartDelete, StartWrite
  <1>3. ASSUME NEW r \in Reqs, Progress(r) \/ Fault(r)
        PROVE  GetIds'
    BY <1>3 DEF Progress, Fault, QueryPost, QueryRows, CountRows, Store, Load, Insert, Update,
                Delete, Refresh, Evict, Deliver, StoreFails, EvictFails, DbFails, NoRequest
  <1>4. CASE Crash
    <2>1. req' = [r \in Reqs |-> NoRequest]
      BY <1>4 DEF Crash
    <2> QED
      BY <2>1 DEF NoRequest
  <1>6. ASSUME NEW k \in Keys, Expire(k)
        PROVE  GetIds'
    <2>1. req' = req
      BY <1>6 DEF Expire
    <2> QED
      BY <2>1
  <1>5. CASE UNCHANGED vars
    BY <1>5 DEF vars
  <1> QED
    BY <1>1, <1>2, <1>3, <1>4, <1>5, <1>6 DEF Next, Read

LEMMA CountTypesStep == TypeOK /\ GetIds /\ CountTypes /\ [BNext]_bvars => CountTypes'
  <1> SUFFICES ASSUME TypeOK, GetIds, CountTypes, [BNext]_bvars PROVE CountTypes'
    OBVIOUS
  <1>z. Zeros \in [Ids -> Nat]
    BY DEF Zeros
  <1>a. task' = task => Tasks' = Tasks
    BY DEF Tasks
  <1> USE DEF CountTypes
  <1>1. ASSUME NEW r \in Reqs, ShowCached(r)
        PROVE  CountTypes'
    <2>1. PICK k \in Keys : Hold(r, copy[k])
      BY <1>1 DEF ShowCached
    <2> QED
      BY <2>1, <1>1, <1>a DEF ShowCached, Hold
  <1>2. ASSUME NEW r \in Reqs, Arrive(r) \/ StoreNothing(r) \/ UpdateCounts(r)
        PROVE  CountTypes'
    BY <1>2, <1>a DEF Arrive, StoreNothing, UpdateCounts, ViewsAfterPatch
  <1>3. ASSUME NEW r \in Reqs, ReadRows(r)
        PROVE  CountTypes'
    <2>1. Counts(Key(r)) \in [Ids -> Nat]
      BY CountsType, KeyType
    <2> QED
      BY <2>1, <1>3, <1>a DEF ReadRows, Hold
  <1>4. ASSUME NEW r \in Reqs, StoreCounts(r)
        PROVE  CountTypes'
    BY <1>4, <1>a, KeyType DEF StoreCounts
  <1>5. ASSUME NEW r \in Reqs, InsertCounts(r)
        PROVE  CountTypes'
    BY <1>5, <1>a, <1>z DEF InsertCounts, Hold
  <1>6. ASSUME NEW r \in Reqs, DeleteCounts(r)
        PROVE  CountTypes'
    BY <1>6, <1>a DEF DeleteCounts
  <1>7. ASSUME \/ \E r \in Reqs : Pass(r)
               \/ \E k \in Keys : ExpireCounts(k)
        PROVE  CountTypes'
    <2>1. copy' \in [Keys -> [Ids -> Nat]]
      BY <1>7, <1>z DEF Pass, ExpireCounts, Remaining
    <2> QED
      BY <2>1, <1>7, <1>a DEF Pass, ExpireCounts
  <1>8. ASSUME NEW r \in Reqs, Leave(r)
        PROVE  CountTypes'
    <2>1. Viewed(r) => req[r].id \in Ids /\ req[r].id \in Keys
      BY DEF Viewed, GetIds, Keys
    <2>2. /\ task' \in [Reqs -> [at : {"none", "read", "commit"}, id : Keys, seen : Nat]]
          /\ \A q \in Tasks' : task'[q].id \in Ids
      <3>1. CASE Viewed(r)
        <4>1. task' = [task EXCEPT ![r] = [at |-> "read", id |-> req[r].id, seen |-> 0]]
          BY <3>1, <1>8 DEF Leave
        <4> QED
          BY <4>1, <3>1, <2>1 DEF Tasks
      <3>2. CASE ~Viewed(r)
        BY <3>2, <1>8, <1>a DEF Leave
      <3> QED
        BY <3>1, <3>2
    <2>3. earned' \in [Ids -> Nat]
      <3>1. CASE ShowsItsPost(r)
        <4>1. req[r].id \in Ids
          BY <3>1, <2>1 DEF ShowsItsPost, Viewed
        <4>2. earned' = [earned EXCEPT ![req[r].id] = @ + 1]
          BY <3>1, <1>8 DEF Leave
        <4> QED
          BY <4>1, <4>2
      <3>2. CASE ~ShowsItsPost(r)
        BY <3>2, <1>8 DEF Leave
      <3> QED
        BY <3>1, <3>2
    <2>4. held' \in [Reqs -> [Ids -> Nat]]
      BY <1>8, <1>z DEF Leave, Hold
    <2>5. views' = views /\ copy' = copy
      BY <1>8 DEF Leave
    <2> QED
      BY <2>2, <2>3, <2>4, <2>5
  <1>9. CASE CrashCounts
    BY <1>9, <1>z DEF CrashCounts, NoTask, Tasks, Keys, ListKey
  <1>10. ASSUME NEW r \in Reqs, TaskRead(r)
         PROVE  CountTypes'
    <2>1. r \in Tasks /\ task[r].id \in Ids /\ task[r].id \in Keys
      BY <1>10 DEF TaskRead, Tasks, Keys
    <2>2. /\ task' \in [Reqs -> [at : {"none", "read", "commit"}, id : Keys, seen : Nat]]
          /\ \A q \in Tasks' : task'[q].id \in Ids
      <3>1. CASE posts[task[r].id] = NoRow
        <4>1. task' = [task EXCEPT ![r] = NoTask]
          BY <3>1, <1>10 DEF TaskRead, EndTask
        <4> QED
          BY <4>1 DEF Tasks, NoTask, Keys, ListKey
      <3>2. CASE posts[task[r].id] # NoRow
        <4>1. task' = [task EXCEPT ![r] = [at |-> "commit", id |-> task[r].id,
                                           seen |-> views[task[r].id]]]
          BY <3>2, <1>10 DEF TaskRead
        <4> QED
          BY <4>1, <2>1 DEF Tasks
      <3> QED
        BY <3>1, <3>2
    <2> QED
      BY <2>2, <1>10 DEF TaskRead
  <1>11. ASSUME NEW r \in Reqs, TaskCommit(r)
         PROVE  CountTypes'
    BY <1>11 DEF TaskCommit, EndTask, NoTask, Tasks, Keys
  <1>12. ASSUME NEW r \in Reqs, TaskFails(r)
         PROVE  CountTypes'
    BY <1>12 DEF TaskFails, EndTask, NoTask, Tasks, Keys
  <1>13. CASE UNCHANGED bvars
    BY <1>13 DEF Tasks
  <1> QED
    BY <1>1, <1>2, <1>3, <1>4, <1>5, <1>6, <1>7, <1>8, <1>9, <1>10, <1>11, <1>12, <1>13
       DEF BNext, Serve
-----------------------------------------------------------------------------
(***************************************************************************)
(* What a step does to the counts of a post that stays.                    *)
(***************************************************************************)
\* A step that is not one of a task, an answer or a crash.
Ordinary ==
    /\ task' = task
    /\ \A i \in Ids : posts[i] # NoRow /\ posts'[i] # NoRow =>
          views'[i] = views[i] /\ earned'[i] = earned[i]
    /\ \A i \in Ids : posts[i] = NoRow /\ posts'[i] # NoRow =>
          i > lastId \/ ReusesIds

LEMMA StepKinds ==
  ASSUME TypeOK, CountTypes, [BNext]_bvars
  PROVE  \/ Ordinary
         \/ CrashCounts
         \/ \E r \in Reqs \ Tasks : Leave(r)
         \/ \E r \in Reqs : TaskRead(r) \/ TaskCommit(r) \/ TaskFails(r)
  <1>1. ASSUME task' = task, views' = views, earned' = earned, posts' = posts
        PROVE  Ordinary
    BY <1>1 DEF Ordinary
  <1>2. ASSUME NEW r \in Reqs, ShowCached(r)
        PROVE  Ordinary
    BY <1>1, <1>2 DEF ShowCached, ReadHit, dbVars
  <1>3. ASSUME NEW r \in Reqs, Arrive(r)
        PROVE  Ordinary
    BY <1>1, <1>3 DEF Arrive, ReadMiss, ReadCacheDown, Write, StartCreate, StartUpdate,
                      StartDelete, StartWrite, dbVars
  <1>4. ASSUME NEW r \in Reqs, ReadRows(r)
        PROVE  Ordinary
    BY <1>1, <1>4 DEF ReadRows, QueryPost, QueryRows, Load, Refresh, dbVars
  <1>5. ASSUME NEW r \in Reqs, StoreCounts(r) \/ StoreNothing(r)
        PROVE  Ordinary
    BY <1>1, <1>5 DEF StoreCounts, StoreNothing, Store, StoreFails, dbVars
  <1>6. ASSUME NEW r \in Reqs, Pass(r)
        PROVE  Ordinary
    BY <1>1, <1>6 DEF Pass, CountRows, Evict, EvictFails, DbFails, dbVars
  <1>7. ASSUME NEW k \in Keys, ExpireCounts(k)
        PROVE  Ordinary
    BY <1>1, <1>7 DEF ExpireCounts, Expire, dbVars
  <1>8. ASSUME NEW r \in Reqs, InsertCounts(r)
        PROVE  Ordinary
    <2>1. PICK j \in Ids : IsNextId(j) /\ \E row : posts' = [posts EXCEPT ![j] = row]
      BY <1>8 DEF InsertCounts, Insert
    <2>2. posts[j] = NoRow /\ (~ReusesIds => j > lastId)
      BY <2>1, NextIdFree
    <2>3. \A i \in Ids : i # j => posts'[i] = posts[i]
      BY <2>1 DEF TypeOK
    <2>4. \A i \in Ids : posts'[i] = posts[i] => views'[i] = views[i] /\ earned'[i] = earned[i]
      BY <1>8 DEF InsertCounts
    <2> QED
      BY <1>8, <2>2, <2>3, <2>4, ModesAssumption DEF InsertCounts, Ordinary
  <1>9. ASSUME NEW r \in Reqs, UpdateCounts(r)
        PROVE  Ordinary
    <2>1. \A i \in Ids : posts'[i] # NoRow => posts[i] # NoRow
      BY <1>9 DEF UpdateCounts, Update, TypeOK
    <2> QED
      BY <1>9, <2>1 DEF UpdateCounts, ViewsAfterPatch, Ordinary
  <1>10. ASSUME NEW r \in Reqs, DeleteCounts(r)
         PROVE  Ordinary
    <2>1. \A i \in Ids : i # req[r].id => /\ posts'[i] = posts[i]
                                          /\ views'[i] = views[i] /\ earned'[i] = earned[i]
      BY <1>10 DEF DeleteCounts, Delete, TypeOK, CountTypes
    <2>2. \A i \in Ids : i = req[r].id => posts'[i] = NoRow
      BY <1>10 DEF DeleteCounts, Delete, TypeOK
    <2> QED
      BY <1>10, <2>1, <2>2 DEF DeleteCounts, Ordinary
  <1>11. CASE UNCHANGED bvars
    BY <1>1, <1>11 DEF vars
  <1> QED
    BY <1>2, <1>3, <1>4, <1>5, <1>6, <1>7, <1>8, <1>9, <1>10, <1>11 DEF BNext, Serve

\* What the counts and the requests look like at every step.
CInv == TypeOK /\ GetIds /\ CountTypes

LEMMA CInvCorrect == BSpec => []CInv
  <1>1. BInit => CInv
    BY InitTypeOK DEF BInit, CInv, GetIds, CountTypes, Init, NoRequest, Zeros, Tasks, NoTask,
                      Keys
  <1>2. CInv /\ [BNext]_bvars => CInv'
    BY BoardSteps, TypeOKInductive, GetIdsStep, CountTypesStep DEF CInv
  <1> QED
    BY <1>1, <1>2, PTL DEF BSpec

\* The views of a post that stays are changed by the commit of a task of its
\* own and by nothing else: no PATCH, no other post's task, no fault.
THEOREM OnlyTasksChangeViews == BSpec => OnlyTasksCount
  <1> DEFINE Kept(i) ==
        views'[i] # views[i] /\ posts[i] # NoRow /\ posts'[i] # NoRow
                             /\ posts'[i].born = posts[i].born =>
           \E r \in Reqs : task[r].at = "commit" /\ task[r].id = i /\ pc' = pc
  <1>1. CInv /\ [BNext]_bvars => \A i \in Ids : Kept(i)
    <2> SUFFICES ASSUME CInv, [BNext]_bvars, NEW i \in Ids,
                        views'[i] # views[i], posts[i] # NoRow, posts'[i] # NoRow
                 PROVE  \E r \in Reqs : task[r].at = "commit" /\ task[r].id = i /\ pc' = pc
      OBVIOUS
    <2>1. ~Ordinary /\ ~CrashCounts
      BY DEF Ordinary, CrashCounts
    <2>2. PICK r \in Reqs : Leave(r) \/ TaskRead(r) \/ TaskCommit(r) \/ TaskFails(r)
      BY <2>1, StepKinds DEF CInv
    <2>3. TaskCommit(r)
      BY <2>2 DEF Leave, TaskRead, TaskFails
    <2> QED
      BY <2>3 DEF TaskCommit, CInv, CountTypes, vars
  <1>2. CInv /\ [BNext]_bvars => [\A i \in Ids : Kept(i)]_bvars
    BY <1>1
  <1> QED
    BY <1>2, CInvCorrect, PTL DEF BSpec, OnlyTasksCount
-----------------------------------------------------------------------------
(***************************************************************************)
(* On a sequence, what a GET answers with is the post that its id has now, *)
(* or one that is gone and whose id stays empty.                           *)
(***************************************************************************)
IsPost(v, i) == i <= lastId /\ (posts[i] # NoRow => v.born = posts[i].born)

\* The GET r has the row it answers with.
HasRow(r) ==
    /\ req[r].op = "get"
    /\ \/ pc[r] = "store"
       \/ pc[r] = "done" /\ status[r] = "ok"

Lineage ==
    /\ \A i \in Ids : cache[i] # Absent => IsPost(cache[i], i)
    /\ \A r \in Reqs : HasRow(r) => IsPost(val[r], req[r].id)

LEMMA IsPostKept ==
  ASSUME ~ReusesIds, TypeOK, [Next]_vars, NEW i \in Ids, NEW v, IsPost(v, i)
  PROVE  i <= lastId' /\ (posts'[i] # NoRow => v.born = posts'[i].born)
  <1>1. TypeOK'
    BY TypeOKInductive
  <1>2. i \in Int /\ lastId \in Int /\ lastId' \in Int
    BY <1>1 DEF TypeOK, Ids
  <1> QED
    BY <1>2, RowsKeepBirth DEF IsPost

\* A row comes from the table or from Redis, by a step that writes no row.
LEMMA RowOrigin ==
  ASSUME TypeOK, GetIds, [Next]_vars, NEW q \in Reqs, HasRow(q)'
  PROVE  \/ HasRow(q) /\ req'[q] = req[q] /\ val'[q] = val[q]
         \/ /\ UNCHANGED dbVars /\ req'[q].id \in Ids
            /\ posts[req'[q].id] # NoRow /\ val'[q] = posts[req'[q].id]
         \/ /\ UNCHANGED dbVars /\ req'[q].id \in Ids
            /\ cache[req'[q].id] # Absent /\ val'[q] = cache[req'[q].id]
  <1> DEFINE Kept == HasRow(q) /\ req'[q] = req[q] /\ val'[q] = val[q]
             Queried == /\ UNCHANGED dbVars /\ req'[q].id \in Ids
                        /\ posts[req'[q].id] # NoRow /\ val'[q] = posts[req'[q].id]
             Cached == /\ UNCHANGED dbVars /\ req'[q].id \in Ids
                       /\ cache[req'[q].id] # Absent /\ val'[q] = cache[req'[q].id]
  <1> SUFFICES Kept \/ Queried \/ Cached
    OBVIOUS
  <1> USE DEF TypeOK, Goto, Answer, HasRow
  <1>1. ASSUME NEW r \in Reqs, NEW k \in Keys, ReadHit(r, k)
        PROVE  Kept \/ Cached
    BY <1>1 DEF ReadHit, ReadOf, Keys
  <1>2. ASSUME NEW r \in Reqs, NEW k \in Keys, ReadMiss(r, k) \/ ReadCacheDown(r, k)
        PROVE  Kept
    BY <1>2 DEF ReadMiss, ReadCacheDown
  <1>3. ASSUME NEW r \in Reqs, Write(r)
        PROVE  Kept
    BY <1>3 DEF Write, StartCreate, StartUpdate, StartDelete, StartWrite
  <1>4. ASSUME NEW r \in Reqs, QueryPost(r)
        PROVE  Kept \/ Queried
    BY <1>4 DEF QueryPost, Shape, Key, GetIds
  <1>5. ASSUME NEW r \in Reqs, QueryRows(r) \/ CountRows(r) \/ Store(r)
        PROVE  Kept
    BY <1>5 DEF QueryRows, CountRows, Store, Shape
  <1>6. ASSUME NEW r \in Reqs, Load(r) \/ Insert(r) \/ Update(r) \/ Delete(r)
        PROVE  Kept
    BY <1>6 DEF Load, Insert, Update, Delete, Shape
  <1>7. ASSUME NEW r \in Reqs, Refresh(r) \/ Evict(r) \/ Deliver(r)
        PROVE  Kept
    BY <1>7 DEF Refresh, Evict, Deliver, Shape
  <1>8. ASSUME NEW r \in Reqs, Fault(r)
        PROVE  Kept
    BY <1>8 DEF Fault, StoreFails, AfterFailedStore, EvictFails, DbFails, Shape
  <1>9. CASE Crash
    BY <1>9 DEF Crash
  <1>10. ASSUME NEW k \in Keys, Expire(k)
         PROVE  Kept
    BY <1>10 DEF Expire
  <1>11. CASE UNCHANGED vars
    BY <1>11 DEF vars
  <1> QED
    BY <1>1, <1>2, <1>3, <1>4, <1>5, <1>6, <1>7, <1>8, <1>9, <1>10, <1>11
       DEF Next, Read, Progress

\* An entry post:{id} comes from a GET of this post, by a step that writes no row.
LEMMA EntryOrigin ==
  ASSUME TypeOK, [Next]_vars, NEW i \in Ids, cache'[i] # Absent
  PROVE  \/ cache'[i] = cache[i]
         \/ /\ UNCHANGED dbVars
            /\ \E r \in Reqs : HasRow(r) /\ req[r].id = i /\ cache'[i] = val[r]
  <1> DEFINE Kept == cache'[i] = cache[i]
             Filled == /\ UNCHANGED dbVars
                       /\ \E r \in Reqs : HasRow(r) /\ req[r].id = i /\ cache'[i] = val[r]
  <1> SUFFICES Kept \/ Filled
    OBVIOUS
  <1>z. i \in Keys /\ i # ListKey
    BY DEF Keys, Ids, ListKey
  <1>d. ASSUME NEW K, NEW L, Drop(K, L)
        PROVE  Kept
    BY <1>z, <1>d DEF Drop
  <1>1. ASSUME NEW r \in Reqs, pc[r] = "store", Put(r, Key(r), val[r]), UNCHANGED dbVars
        PROVE  Kept \/ Filled
    <2>1. CASE Key(r) = i
      <3>1. HasRow(r)
        BY <1>1, <1>z, <2>1 DEF TypeOK, Shape, Key, HasRow
      <3>2. cache'[i] = val[r]
        BY <1>1, <1>z, <2>1 DEF Put, TypeOK
      <3> QED
        BY <1>1, <2>1, <3>1, <3>2 DEF Key
    <2>2. CASE Key(r) # i
      BY <1>1, <1>z, <2>2 DEF Put, TypeOK
    <2> QED
      BY <2>1, <2>2
  <1>2. ASSUME NEW r \in Reqs, Read(r) \/ Write(r)
        PROVE  Kept
    BY <1>2 DEF Read, ReadHit, ReadMiss, ReadCacheDown, Write, StartCreate, StartUpdate,
                StartDelete, StartWrite, redisVars
  <1>3. ASSUME NEW r \in Reqs, Store(r)
        PROVE  Kept \/ Filled
    BY <1>1, <1>3 DEF Store
  <1>4. ASSUME NEW r \in Reqs, StoreFails(r)
        PROVE  Kept \/ Filled
    BY <1>1, <1>4 DEF StoreFails, redisVars
  <1>5. ASSUME NEW r \in Reqs, Evict(r) \/ EvictFails(r) \/ DbFails(r)
        PROVE  Kept
    BY <1>d, <1>5 DEF Evict, EvictFails, DbFails
  <1>6. ASSUME NEW r \in Reqs, Progress(r), ~Store(r), ~Evict(r)
        PROVE  Kept
    BY <1>6 DEF Progress, QueryPost, QueryRows, CountRows, Load, Insert, Update, Delete,
                Refresh, Deliver, redisVars
  <1>7. ASSUME (\E k \in Keys : Expire(k)) \/ Crash
        PROVE  Kept
    BY <1>d, <1>7 DEF Expire, Crash
  <1>8. CASE UNCHANGED vars
    BY <1>8 DEF vars
  <1> QED
    BY <1>2, <1>3, <1>4, <1>5, <1>6, <1>7, <1>8 DEF Next, Fault

LEMMA LineageStep ==
  ASSUME ~ReusesIds, TypeOK, GetIds, Lineage, [Next]_vars
  PROVE  Lineage'
  <1> DEFINE Now(v, i) == i <= lastId' /\ (posts'[i] # NoRow => v.born = posts'[i].born)
  <1>1. ASSUME NEW i \in Ids, cache'[i] # Absent
        PROVE  Now(cache'[i], i)
    <2>1. CASE cache'[i] = cache[i]
      BY <1>1, <2>1, IsPostKept DEF Lineage
    <2>2. CASE \E r \in Reqs : HasRow(r) /\ req[r].id = i /\ cache'[i] = val[r]
      BY <2>2, IsPostKept DEF Lineage
    <2> QED
      BY <1>1, <2>1, <2>2, EntryOrigin
  <1>2. ASSUME NEW q \in Reqs, HasRow(q)'
        PROVE  Now(val'[q], req'[q].id)
    <2>1. CASE HasRow(q) /\ req'[q] = req[q] /\ val'[q] = val[q]
      <3>1. req[q].id \in Ids
        BY <2>1 DEF HasRow, GetIds
      <3> QED
        BY <2>1, <3>1, IsPostKept DEF Lineage
    <2>2. CASE /\ UNCHANGED dbVars /\ req'[q].id \in Ids
               /\ posts[req'[q].id] # NoRow /\ val'[q] = posts[req'[q].id]
      BY <2>2 DEF TypeOK, dbVars
    <2>3. CASE /\ UNCHANGED dbVars /\ req'[q].id \in Ids
               /\ cache[req'[q].id] # Absent /\ val'[q] = cache[req'[q].id]
      BY <2>3 DEF Lineage, IsPost, dbVars
    <2> QED
      BY <1>2, <2>1, <2>2, <2>3, RowOrigin
  <1> QED
    BY <1>1, <1>2 DEF Lineage, IsPost
-----------------------------------------------------------------------------
(***************************************************************************)
(* On a sequence, no view is invented.                                     *)
(***************************************************************************)
\* All that is known of the count of i: by the table, Redis and the requests.
Shown(i) == {0, views[i]} \cup {copy[k][i] : k \in Keys} \cup {held[r][i] : r \in Reqs}

\* The tasks of i that are to come.
Open(i) == Cardinality(TasksOf(i))

Bounded(i) ==
    /\ \A n \in Shown(i) : n <= earned[i]
    /\ views[i] + Open(i) <= earned[i]
    /\ \A q \in TasksOf(i) : task[q].at = "commit" => task[q].seen + Open(i) <= earned[i]

\* Nothing has happened to an id that the sequence has not reached.
Untouched(i) == TasksOf(i) = {} /\ \A n \in Shown(i) : n = 0

EInv ==
    /\ CInv /\ Lineage
    /\ \A i \in Ids : posts[i] # NoRow => Bounded(i)
    /\ \A i \in Ids : i > lastId => Untouched(i)

LEMMA ShownType ==
  ASSUME CountTypes, NEW i \in Ids
  PROVE  Shown(i) \subseteq Nat
  BY DEF CountTypes, Shown

LEMMA OpenType ==
  ASSUME NEW i \in Ids
  PROVE  IsFiniteSet(TasksOf(i)) /\ Open(i) \in Nat
  <1>1. TasksOf(i) \subseteq Reqs
    BY DEF TasksOf, Tasks
  <1> QED
    BY <1>1, ReqsAssumption, FS_Subset, FS_CardinalityType DEF Open

\* Only the commit of a task makes a new count.
LEMMA ViewsElsewhere ==
  ASSUME CInv, [BNext]_bvars, NEW i \in Ids, \A r \in Reqs : TaskCommit(r) => task[r].id # i
  PROVE  views'[i] \in {0, views[i]}
  <1>1. ASSUME NEW r \in Reqs, InsertCounts(r) \/ DeleteCounts(r) \/ TaskCommit(r)
        PROVE  views'[i] \in {0, views[i]}
    BY <1>1 DEF CInv, CountTypes, InsertCounts, DeleteCounts, TaskCommit
  <1>2. ASSUME \A r \in Reqs : ~InsertCounts(r) /\ ~DeleteCounts(r) /\ ~TaskCommit(r)
        PROVE  views' = views
    BY <1>2 DEF BNext, Serve, ShowCached, Arrive, ReadRows, StoreCounts, StoreNothing,
                UpdateCounts, ViewsAfterPatch, Pass, Leave, ExpireCounts, CrashCounts,
                TaskRead, TaskFails
  <1> QED
    BY <1>1, <1>2

\* Every other count is copied from one place to another.
LEMMA ShownShrinks ==
  ASSUME CInv, [BNext]_bvars, NEW i \in Ids, views'[i] \in {0, views[i]}
  PROVE  Shown(i)' \subseteq Shown(i)
  <1> DEFINE Known(n) == n \in Shown(i)
  <1>t. /\ views \in [Ids -> Nat] /\ copy \in [Keys -> [Ids -> Nat]]
        /\ held \in [Reqs -> [Ids -> Nat]]
    BY DEF CInv, CountTypes
  <1>z. Zeros[i] = 0 /\ Known(0) /\ Known(views[i])
        /\ (\A k \in Keys : Known(copy[k][i])) /\ (\A r \in Reqs : Known(held[r][i]))
    BY DEF Zeros, Shown
  <1>c. \A k \in Keys : Known(copy'[k][i])
    <2>1. ASSUME NEW r \in Reqs, StoreCounts(r)
          PROVE  \A k \in Keys : Known(copy'[k][i])
      BY <2>1, <1>t, <1>z DEF StoreCounts
    <2>2. ASSUME copy' = Remaining
          PROVE  \A k \in Keys : Known(copy'[k][i])
      BY <2>2, <1>z DEF Remaining
    <2>3. ASSUME \A r \in Reqs : ~StoreCounts(r), copy' # Remaining
          PROVE  copy' = copy
      BY <2>3 DEF BNext, Serve, ShowCached, Arrive, ReadRows, StoreNothing, InsertCounts,
                  DeleteCounts, UpdateCounts, Pass, Leave, ExpireCounts, CrashCounts,
                  TaskRead, TaskCommit, TaskFails
    <2> QED
      BY <2>1, <2>2, <2>3, <1>z
  <1>h. \A q \in Reqs : Known(held'[q][i])
    <2>1. ASSUME NEW r \in Reqs, NEW c, Hold(r, c), Known(c[i])
          PROVE  \A q \in Reqs : Known(held'[q][i])
      BY <2>1, <1>t, <1>z DEF Hold
    <2>2. ASSUME NEW r \in Reqs, ShowCached(r)
          PROVE  \A q \in Reqs : Known(held'[q][i])
      BY <2>1, <2>2, <1>z DEF ShowCached
    <2>3. ASSUME NEW r \in Reqs, ReadRows(r)
          PROVE  \A q \in Reqs : Known(held'[q][i])
      <3>1. Counts(Key(r))[i] \in {0, views[i]}
        BY DEF Counts
      <3> QED
        BY <2>1, <2>3, <3>1, <1>z DEF ReadRows
    <2>4. ASSUME NEW r \in Reqs, InsertCounts(r) \/ Leave(r)
          PROVE  \A q \in Reqs : Known(held'[q][i])
      BY <2>1, <2>4, <1>z DEF InsertCounts, Leave
    <2>5. CASE CrashCounts
      BY <2>5, <1>z DEF CrashCounts
    <2>6. ASSUME ~CrashCounts,
                 \A r \in Reqs : ~ShowCached(r) /\ ~ReadRows(r) /\ ~InsertCounts(r) /\ ~Leave(r)
          PROVE  held' = held
      BY <2>6 DEF BNext, Serve, Arrive, StoreCounts, StoreNothing, DeleteCounts, UpdateCounts,
                  Pass, ExpireCounts, TaskRead, TaskCommit, TaskFails
    <2> QED
      BY <2>2, <2>3, <2>4, <2>5, <2>6, <1>z
  <1> QED
    BY <1>z, <1>c, <1>h DEF Shown

\* A post that was not there before the step is a new one.
LEMMA BoundedWhenNew ==
  ASSUME ~ReusesIds, EInv, CInv', [BNext]_bvars, NEW i \in Ids,
         posts[i] = NoRow, posts'[i] # NoRow
  PROVE  Bounded(i)'
  <1>1. Ordinary
    <2>1. ASSUME NEW r \in Reqs, Leave(r) \/ TaskRead(r) \/ TaskCommit(r) \/ TaskFails(r)
          PROVE  posts' = posts
      BY <2>1 DEF Leave, Deliver, TaskRead, TaskCommit, TaskFails, vars, dbVars
    <2>2. CrashCounts => posts' = posts
      BY DEF CrashCounts, Crash, vars, dbVars
    <2> QED
      BY <2>1, <2>2, StepKinds DEF EInv, CInv
  <1>2. Untouched(i)
    BY <1>1 DEF Ordinary, EInv
  <1>3. \A r \in Reqs : TaskCommit(r) => task[r].id # i
    BY <1>2 DEF Untouched, TasksOf, Tasks, TaskCommit
  <1>4. \A n \in Shown(i)' : n = 0
    BY <1>2, <1>3, ViewsElsewhere, ShownShrinks DEF Untouched, EInv
  <1>5. TasksOf(i)' = {}
    BY <1>1, <1>2 DEF Ordinary, Untouched, TasksOf, Tasks
  <1>6. Open(i)' = 0
    BY <1>5, FS_EmptySet DEF Open
  <1>7. earned'[i] \in Nat /\ views'[i] \in Shown(i)'
    BY DEF CInv, CountTypes, Shown
  <1>8. views'[i] = 0 /\ \A n \in Shown(i)' : n <= earned'[i]
    BY <1>4, <1>7
  <1> QED
    BY <1>5, <1>6, <1>7, <1>8 DEF Bounded

\* A post that stays keeps within its bound at every step of a request.
LEMMA BoundedByRequests ==
  ASSUME CInv, CInv', [BNext]_bvars, NEW i \in Ids, Bounded(i),
         posts[i] # NoRow, posts'[i] # NoRow, Ordinary \/ CrashCounts
  PROVE  Bounded(i)'
  <1>1. views'[i] = views[i] /\ earned'[i] = earned[i]
    BY DEF Ordinary, CrashCounts
  <1>2. Shown(i)' \subseteq Shown(i)
    BY <1>1, ShownShrinks
  <1>3. /\ views[i] \in Nat /\ earned[i] \in Nat /\ Open(i) \in Nat
        /\ \A q \in Reqs : task[q].seen \in Nat
    BY OpenType DEF CInv, CountTypes
  <1>4. CASE Ordinary
    <2>1. TasksOf(i)' = TasksOf(i) /\ Open(i)' = Open(i)
      BY <1>4 DEF Ordinary, TasksOf, Tasks, Open
    <2> QED
      BY <1>1, <1>2, <1>4, <2>1 DEF Bounded, Ordinary
  <1>5. CASE CrashCounts
    <2>1. TasksOf(i)' = {}
      BY <1>5 DEF CrashCounts, TasksOf, Tasks, NoTask
    <2>2. Open(i)' = 0
      BY <2>1, FS_EmptySet DEF Open
    <2> QED
      BY <1>1, <1>2, <1>3, <2>1, <2>2 DEF Bounded
  <1> QED
    BY <1>4, <1>5

\* An answer earns the view its task is to count, since it shows this post.
LEMMA BoundedByAnswers ==
  ASSUME CInv, CInv', Lineage, [BNext]_bvars, NEW i \in Ids, Bounded(i), posts[i] # NoRow,
         NEW r \in Reqs, Leave(r), r \notin Tasks
  PROVE  Bounded(i)'
  <1>1. Shown(i)' \subseteq Shown(i)
    BY ShownShrinks DEF Leave
  <1>2. /\ views[i] \in Nat /\ earned[i] \in Nat /\ Open(i) \in Nat /\ IsFiniteSet(TasksOf(i))
        /\ \A q \in Reqs : task[q].seen \in Nat
        /\ \A n \in Shown(i) : n \in Nat
    BY OpenType, ShownType DEF CInv, CountTypes
  <1>3. views' = views
    BY DEF Leave
  <1>4. CASE Viewed(r) /\ req[r].id = i
    <2>1. ShowsItsPost(r)
      BY <1>4 DEF Viewed, ShowsItsPost, Leave, Deliver, Lineage, HasRow, IsPost
    <2>2. earned'[i] = earned[i] + 1
      BY <1>4, <2>1 DEF Leave, CInv, CountTypes
    <2>3. task' = [task EXCEPT ![r] = [at |-> "read", id |-> i, seen |-> 0]]
      BY <1>4 DEF Leave
    <2>4. TasksOf(i)' = TasksOf(i) \cup {r} /\ r \notin TasksOf(i)
      BY <2>3 DEF TasksOf, Tasks, CInv, CountTypes
    <2>5. Open(i)' = Open(i) + 1
      BY <1>2, <2>4, FS_AddElement DEF Open
    <2>6. \A q \in TasksOf(i)' : task'[q].at = "commit" => q \in TasksOf(i) /\ task'[q] = task[q]
      BY <2>3, <2>4 DEF CInv, CountTypes
    <2>7. TasksOf(i) \subseteq Reqs
      BY DEF TasksOf, Tasks
    <2> QED
      BY <1>1, <1>2, <1>3, <2>2, <2>5, <2>6, <2>7 DEF Bounded
  <1>5. CASE ~(Viewed(r) /\ req[r].id = i)
    <2>1. earned'[i] = earned[i]
      BY <1>5 DEF Leave, ShowsItsPost, Viewed, CInv, CountTypes
    <2>2. TasksOf(i)' = TasksOf(i) /\ \A q \in TasksOf(i) : task'[q] = task[q]
      BY <1>5 DEF Leave, TasksOf, Tasks, CInv, CountTypes
    <2>3. Open(i)' = Open(i)
      BY <2>2 DEF Open
    <2> QED
      BY <1>1, <1>3, <2>1, <2>2, <2>3 DEF Bounded
  <1> QED
    BY <1>4, <1>5

\* A task counts what it has read and one more, within what it was given.
LEMMA BoundedByTasks ==
  ASSUME CInv, CInv', [BNext]_bvars, NEW i \in Ids, Bounded(i), posts[i] # NoRow,
         NEW r \in Reqs, TaskRead(r) \/ TaskCommit(r) \/ TaskFails(r)
  PROVE  Bounded(i)'
  <1>1. /\ views[i] \in Nat /\ earned[i] \in Nat /\ Open(i) \in Nat /\ IsFiniteSet(TasksOf(i))
        /\ \A q \in Reqs : task[q].seen \in Nat
    BY OpenType DEF CInv, CountTypes
  <1>2. earned' = earned /\ r \in Tasks
    BY DEF TaskRead, TaskCommit, TaskFails, Tasks
  <1>3. TasksOf(i) \subseteq Reqs
    BY DEF TasksOf, Tasks
  <1>4. CASE TaskRead(r) /\ posts[task[r].id] # NoRow
    <2>1. task' = [task EXCEPT ![r] = [at |-> "commit", id |-> task[r].id,
                                       seen |-> views[task[r].id]]]
      BY <1>4 DEF TaskRead
    <2>2. TasksOf(i)' = TasksOf(i)
      BY <2>1, <1>2 DEF TasksOf, Tasks, CInv, CountTypes
    <2>3. Open(i)' = Open(i)
      BY <2>2 DEF Open
    <2>4. \A q \in TasksOf(i) : task'[q] = task[q] \/ task'[q].seen = views[i]
      BY <2>1 DEF TasksOf, Tasks, CInv, CountTypes
    <2>5. views' = views /\ Shown(i)' \subseteq Shown(i)
      BY <1>4, ShownShrinks DEF TaskRead
    <2> QED
      BY <1>1, <1>2, <2>2, <2>3, <2>4, <2>5 DEF Bounded
  <1>5. CASE EndTask(r)
    <2>1. TasksOf(i)' = TasksOf(i) \ {r} /\ \A q \in TasksOf(i)' : task'[q] = task[q]
      BY <1>5 DEF EndTask, NoTask, TasksOf, Tasks, CInv, CountTypes
    <2>2. Open(i)' = IF r \in TasksOf(i) THEN Open(i) - 1 ELSE Open(i)
      <3>1. CASE r \in TasksOf(i)
        BY <1>1, <2>1, <3>1, FS_RemoveElement DEF Open
      <3>2. CASE r \notin TasksOf(i)
        <4>1. TasksOf(i)' = TasksOf(i)
          BY <2>1, <3>2
        <4> QED
          BY <4>1, <3>2 DEF Open
      <3> QED
        BY <3>1, <3>2
    <2>3. CASE views'[i] = views[i]
      <3>1. Shown(i)' \subseteq Shown(i)
        BY <2>3, ShownShrinks
      <3> QED
        BY <1>1, <1>2, <1>3, <2>1, <2>2, <2>3, <3>1 DEF Bounded
    <2>4. CASE views'[i] # views[i]
      <3>1. /\ task[r].at = "commit" /\ task[r].id = i /\ views'[i] = task[r].seen + 1
            /\ copy' = copy /\ held' = held
        BY <2>4 DEF TaskRead, TaskCommit, TaskFails, CInv, CountTypes
      <3>2. r \in TasksOf(i)
        BY <3>1, <1>2 DEF TasksOf
      <3>3. /\ task[r].seen + Open(i) <= earned[i] /\ Open(i)' = Open(i) - 1
            /\ Open(i)' \in Nat
        <4>1. IsFiniteSet(TasksOf(i)')
          BY <1>1, <2>1, FS_Subset
        <4>2. Open(i)' \in Nat
          BY <4>1, FS_CardinalityType DEF Open
        <4> QED
          BY <2>2, <3>1, <3>2, <4>2 DEF Bounded
      <3>4. Shown(i)' \subseteq Shown(i) \cup {views'[i]}
        BY <3>1 DEF Shown
      <3>5. views'[i] + Open(i)' <= earned[i] /\ views'[i] <= earned[i]
        BY <1>1, <3>1, <3>3
      <3>6. \A n \in Shown(i)' : n <= earned[i]
        BY <3>4, <3>5 DEF Bounded
      <3>7. \A q \in TasksOf(i)' : task'[q].at = "commit" => task'[q].seen + Open(i)' <= earned[i]
        BY <1>1, <1>3, <2>1, <3>3 DEF Bounded
      <3> QED
        BY <1>2, <3>5, <3>6, <3>7 DEF Bounded
    <2> QED
      BY <2>3, <2>4
  <1> QED
    BY <1>4, <1>5 DEF TaskRead, TaskCommit, TaskFails

\* No task is about an id that the sequence has not reached.
LEMMA UntouchedStep ==
  ASSUME ~ReusesIds, EInv, CInv', [BNext]_bvars, NEW i \in Ids, i > lastId'
  PROVE  Untouched(i)'
  <1>1. i > lastId
    <2>1. i \in Int /\ lastId \in Int /\ lastId' \in Int /\ lastId' >= lastId
      BY BoardSteps, RowsKeepBirth DEF EInv, CInv, TypeOK, Ids
    <2> QED
      BY <2>1
  <1>2. Untouched(i)
    BY <1>1 DEF EInv
  <1>3. Shown(i)' \subseteq Shown(i)
    <2>1. \A r \in Reqs : TaskCommit(r) => task[r].id # i
      BY <1>2 DEF Untouched, TasksOf, Tasks, TaskCommit
    <2> QED
      BY <2>1, ViewsElsewhere, ShownShrinks DEF EInv
  <1>4. TasksOf(i)' = {}
    <2> USE DEF CInv, CountTypes
    <2>1. CASE Ordinary
      BY <1>2, <2>1 DEF Ordinary, Untouched, TasksOf, Tasks
    <2>2. CASE CrashCounts
      BY <2>2 DEF CrashCounts, TasksOf, Tasks, NoTask
    <2>3. ASSUME NEW r \in Reqs, Leave(r)
          PROVE  TasksOf(i)' = {}
      <3>1. Viewed(r) => req[r].id <= lastId
        BY <2>3 DEF Viewed, Leave, Deliver, EInv, Lineage, HasRow, IsPost
      <3>2. Viewed(r) => req[r].id # i
        BY <1>1, <3>1 DEF EInv, TypeOK, Ids
      <3> QED
        BY <1>2, <2>3, <3>2 DEF Leave, Untouched, TasksOf, Tasks, EInv
    <2>4. ASSUME NEW r \in Reqs, TaskRead(r) \/ TaskCommit(r) \/ TaskFails(r)
          PROVE  TasksOf(i)' = {}
      <3>1. r \notin TasksOf(i) /\ r \in Tasks
        BY <1>2, <2>4 DEF Untouched, TaskRead, TaskCommit, TaskFails, Tasks
      <3>2. task[r].id # i /\ \A q \in Reqs : task[q].at # "none" => task[q].id # i
        BY <1>2, <3>1 DEF Untouched, TasksOf, Tasks
      <3>3. \A q \in Reqs : q # r => task'[q] = task[q]
        BY <2>4 DEF TaskRead, TaskCommit, TaskFails, EndTask, EInv
      <3>4. task'[r].at = "none" \/ task'[r].id = task[r].id
        BY <2>4 DEF TaskRead, TaskCommit, TaskFails, EndTask, NoTask, EInv
      <3> QED
        BY <3>2, <3>3, <3>4 DEF TasksOf, Tasks
    <2> QED
      BY <2>1, <2>2, <2>3, <2>4, StepKinds DEF EInv
  <1> QED
    BY <1>2, <1>3, <1>4 DEF Untouched

LEMMA EInvStep ==
  ASSUME ~ReusesIds, EInv, [BNext]_bvars
  PROVE  EInv'
  <1>1. CInv'
    BY BoardSteps, TypeOKInductive, GetIdsStep, CountTypesStep DEF EInv, CInv
  <1>2. Lineage'
    BY BoardSteps, LineageStep DEF EInv, CInv
  <1>3. ASSUME NEW i \in Ids, posts'[i] # NoRow
        PROVE  Bounded(i)'
    <2>1. CASE posts[i] = NoRow
      BY <1>1, <1>3, <2>1, BoundedWhenNew
    <2>2. CASE posts[i] # NoRow
      <3>1. Bounded(i) /\ CInv /\ Lineage /\ TypeOK /\ CountTypes
        BY <2>2 DEF EInv, CInv
      <3> QED
        BY <1>1, <1>3, <2>2, <3>1, StepKinds, BoundedByRequests, BoundedByAnswers,
           BoundedByTasks
    <2> QED
      BY <2>1, <2>2
  <1>4. ASSUME NEW i \in Ids, i > lastId'
        PROVE  Untouched(i)'
    BY <1>1, <1>4, UntouchedStep
  <1> QED
    BY <1>1, <1>2, <1>3, <1>4 DEF EInv

LEMMA EInvInit == BInit => EInv
  <1> SUFFICES ASSUME BInit PROVE EInv
    OBVIOUS
  <1>1. CInv
    BY InitTypeOK DEF BInit, CInv, GetIds, CountTypes, Init, NoRequest, Zeros, Tasks, NoTask,
                      Keys
  <1>2. Lineage
    BY DEF BInit, Init, Lineage, HasRow, NoRequest, Keys
  <1>3. ASSUME NEW i \in Ids
        PROVE  TasksOf(i) = {} /\ Open(i) = 0 /\ earned[i] = 0 /\ views[i] = 0
               /\ \A n \in Shown(i) : n = 0
    <2>1. TasksOf(i) = {}
      BY DEF BInit, TasksOf, Tasks, NoTask
    <2>2. Open(i) = 0
      BY <2>1, FS_EmptySet DEF Open
    <2> QED
      BY <2>1, <2>2 DEF BInit, Zeros, Shown
  <1> QED
    BY <1>1, <1>2, <1>3 DEF EInv, Bounded, Untouched

\* On a sequence no view is invented: what the table and Redis say of a post
\* stays within the GETs that were answered with it, however the tasks, PATCHes,
\* DELETEs, stores and faults interleave.
THEOREM ViewsAreEarned == ~ReusesIds => (BSpec => []ViewsEarned)
  <1> SUFFICES ASSUME ~ReusesIds PROVE BSpec => []ViewsEarned
    OBVIOUS
  <1>1. EInv => ViewsEarned
    BY DEF EInv, ViewsEarned, Bounded, Open, TasksOf, Shown
  <1>2. EInv /\ [BNext]_bvars => EInv'
    BY EInvStep
  <1> QED
    BY <1>1, <1>2, EInvInit, PTL DEF BSpec
-----------------------------------------------------------------------------
(***************************************************************************)
(* The type invariant.                                                     *)
(***************************************************************************)
\* A row that is not there has no views, and a task comes after its request.
Tidy ==
    /\ calls \in 0..MaxGets
    /\ \A i \in Ids : posts[i] = NoRow => views[i] = 0
    /\ \A r \in Tasks : pc[r] = "idle"

LEMMA CallsStep ==
  ASSUME calls \in 0..MaxGets, [BNext]_bvars
  PROVE  calls' \in 0..MaxGets
  <1>1. ASSUME NEW k, Calls(k)
        PROVE  calls' \in 0..MaxGets
    BY <1>1, GetsAssumption DEF Calls
  <1>2. ASSUME NEW r \in Reqs, ShowCached(r) \/ Arrive(r)
        PROVE  calls' \in 0..MaxGets
    BY <1>1, <1>2 DEF ShowCached, Arrive
  <1>3. ASSUME \A r \in Reqs : ~ShowCached(r) /\ ~Arrive(r)
        PROVE  calls' = calls
    BY <1>3 DEF BNext, Serve, ReadRows, StoreCounts, StoreNothing, InsertCounts, UpdateCounts,
                DeleteCounts, Pass, Leave, ExpireCounts, CrashCounts, TaskRead, TaskCommit,
                TaskFails
  <1> QED
    BY <1>2, <1>3

LEMMA ZeroStep ==
  ASSUME CInv, [BNext]_bvars, NEW i \in Ids, posts[i] = NoRow => views[i] = 0,
         posts'[i] = NoRow
  PROVE  views'[i] = 0
  <1> USE DEF CInv, TypeOK, CountTypes
  <1>1. ASSUME NEW r \in Reqs, InsertCounts(r)
        PROVE  views'[i] = 0
    <2>1. PICK j \in Ids : \E row \in Row : posts' = [posts EXCEPT ![j] = row]
      <3>1. [born |-> req[r].stamp, title |-> req[r].stamp, content |-> req[r].stamp] \in Row
        BY DEF Row, Request
      <3> QED
        BY <1>1, <3>1 DEF InsertCounts, Insert
    <2>2. posts'[i] = posts[i]
      BY <2>1, NoRowAssumption
    <2> QED
      BY <1>1, <2>2 DEF InsertCounts
  <1>2. ASSUME NEW r \in Reqs, DeleteCounts(r)
        PROVE  views'[i] = 0
    BY <1>2 DEF DeleteCounts, Delete
  <1>3. ASSUME NEW r \in Reqs, UpdateCounts(r)
        PROVE  views'[i] = 0
    <2>1. \A j \in Ids : posts[j] # NoRow => Patched(r, posts[j]) \in Row
      BY PatchedType
    <2>2. posts[i] = NoRow
      BY <1>3, <2>1, NoRowAssumption DEF UpdateCounts, Update
    <2> QED
      BY <1>3, <2>2 DEF UpdateCounts, ViewsAfterPatch
  <1>4. ASSUME NEW r \in Reqs, TaskCommit(r)
        PROVE  views'[i] = 0
    BY <1>4 DEF TaskCommit, vars
  <1>5. ASSUME posts' = posts, views' = views
        PROVE  views'[i] = 0
    BY <1>5
  <1>6. ASSUME NEW r \in Reqs, \/ ShowCached(r) \/ Arrive(r) \/ ReadRows(r)
                              \/ StoreCounts(r) \/ StoreNothing(r)
        PROVE  posts' = posts /\ views' = views
    BY <1>6 DEF ShowCached, Arrive, ReadRows, StoreCounts, StoreNothing, ReadHit, ReadMiss,
                ReadCacheDown, Write, StartCreate, StartUpdate, StartDelete, StartWrite,
                QueryPost, QueryRows, Load, Refresh, Store, StoreFails, dbVars
  <1>7. ASSUME NEW r \in Reqs, Pass(r) \/ Leave(r) \/ TaskRead(r) \/ TaskFails(r)
        PROVE  posts' = posts /\ views' = views
    BY <1>7 DEF Pass, Leave, TaskRead, TaskFails, CountRows, Evict, EvictFails, DbFails,
                Deliver, dbVars, vars
  <1>8. ASSUME CrashCounts \/ (\E k \in Keys : ExpireCounts(k)) \/ UNCHANGED bvars
        PROVE  posts' = posts /\ views' = views
    BY <1>8 DEF CrashCounts, ExpireCounts, Crash, Expire, dbVars, vars
  <1> QED
    BY <1>1, <1>2, <1>3, <1>4, <1>5, <1>6, <1>7, <1>8 DEF BNext, Serve

LEMMA IdleStep ==
  ASSUME CInv, [BNext]_bvars, \A r \in Tasks : pc[r] = "idle", NEW q \in Tasks'
  PROVE  pc'[q] = "idle"
  <1> USE DEF CInv, TypeOK, CountTypes, Tasks
  <1>1. ASSUME NEW r \in Reqs \ Tasks, q # r, q \in Tasks,
               \E l : Goto(r, l)
        PROVE  pc'[q] = "idle"
    BY <1>1 DEF Goto
  <1>2. ASSUME NEW r \in Reqs \ Tasks, ShowCached(r) \/ Arrive(r) \/ StoreNothing(r),
               task' = task
        PROVE  pc'[q] = "idle"
    BY <1>1, <1>2 DEF ShowCached, Arrive, StoreNothing, ReadHit, ReadMiss, ReadCacheDown, Write,
                      StartCreate, StartUpdate, StartDelete, StoreFails, Answer
  <1>3. ASSUME NEW r \in Reqs \ Tasks, ReadRows(r) \/ StoreCounts(r), task' = task
        PROVE  pc'[q] = "idle"
    BY <1>1, <1>3 DEF ReadRows, StoreCounts, QueryPost, QueryRows, Load, Refresh, Store,
                      StoreFails, Answer
  <1>4. ASSUME NEW r \in Reqs \ Tasks, InsertCounts(r) \/ UpdateCounts(r) \/ DeleteCounts(r),
               task' = task
        PROVE  pc'[q] = "idle"
    BY <1>1, <1>4 DEF InsertCounts, UpdateCounts, DeleteCounts, Insert, Update, Delete, Answer
  <1>5. ASSUME NEW r \in Reqs \ Tasks, Pass(r), task' = task
        PROVE  pc'[q] = "idle"
    BY <1>1, <1>5 DEF Pass, CountRows, Evict, EvictFails, DbFails, Answer
  <1>6. ASSUME NEW r \in Reqs \ Tasks, Leave(r)
        PROVE  pc'[q] = "idle"
    <2>1. pc' = [pc EXCEPT ![r] = "idle"]
      BY <1>6 DEF Leave, Deliver, Goto
    <2>2. q = r \/ q \in Tasks
      BY <1>6 DEF Leave
    <2> QED
      BY <2>1, <2>2
  <1>7. ASSUME NEW r \in Reqs, TaskRead(r) \/ TaskCommit(r) \/ TaskFails(r)
        PROVE  pc'[q] = "idle"
    <2>1. pc' = pc
      BY <1>7 DEF TaskRead, TaskCommit, TaskFails, vars
    <2>2. q \in Tasks
      BY <1>7 DEF TaskRead, TaskCommit, TaskFails, EndTask, NoTask
    <2> QED
      BY <2>1, <2>2
  <1>8. CASE CrashCounts
    BY <1>8 DEF CrashCounts, NoTask
  <1>9. ASSUME (\E k \in Keys : ExpireCounts(k)) \/ UNCHANGED bvars
        PROVE  pc'[q] = "idle"
    BY <1>9 DEF ExpireCounts, Expire, vars
  <1>10. ASSUME NEW r \in Reqs, \/ ShowCached(r) \/ Arrive(r) \/ StoreNothing(r)
                               \/ ReadRows(r) \/ StoreCounts(r) \/ Pass(r)
                               \/ InsertCounts(r) \/ UpdateCounts(r) \/ DeleteCounts(r)
         PROVE  task' = task
    BY <1>10 DEF ShowCached, Arrive, StoreNothing, ReadRows, StoreCounts, Pass, InsertCounts,
                 UpdateCounts, DeleteCounts
  <1> QED
    BY <1>2, <1>3, <1>4, <1>5, <1>6, <1>7, <1>8, <1>9, <1>10 DEF BNext, Serve

\* Every variable of the board keeps the values the code gives it.
THEOREM BoardTypeCorrect == BSpec => []BTypeOK
  <1>1. BInit => Tidy
    BY GetsAssumption DEF BInit, Tidy, Zeros, NoTask, Tasks
  <1>2. CInv /\ Tidy /\ [BNext]_bvars => Tidy'
    BY CallsStep, ZeroStep, IdleStep DEF Tidy
  <1>3. CInv /\ Tidy => BTypeOK
    BY DEF CInv, Tidy, CountTypes, BTypeOK
  <1> QED
    BY <1>1, <1>2, <1>3, CInvCorrect, PTL DEF BSpec
=============================================================================
