------------------------ MODULE PostServiceProofs ------------------------
(***************************************************************************)
(* What PostService guarantees for any number of requests, ids and writes, *)
(* on either database and under every fault.                               *)
(***************************************************************************)
EXTENDS PostService, FiniteSetTheorems, TLAPS

USE IdsAssumption, ModesAssumption, NoRowAssumption, AbsentAssumption

\* The count of the table is a number.
LEMMA NumPostsType == NumPosts \in Nat
  <1>1. IsFiniteSet(Ids)
    BY FS_Interval DEF Ids
  <1>2. IsFiniteSet({i \in Ids : posts[i] # NoRow})
    BY <1>1, FS_Subset
  <1> QED
    BY <1>2, FS_CardinalityType DEF NumPosts

\* What the database answers for a key has the type the key is cached with.
LEMMA CurrentType ==
  ASSUME TypeOK
  PROVE  /\ Current(ListKey) \in Page
         /\ \A i \in Ids : Current(i) \in Row \cup {NoRow}
  BY NumPostsType DEF TypeOK, Current, Page, Ids, ListKey

\* Patching a row gives a row.
LEMMA PatchedType ==
  ASSUME TypeOK, NEW r \in Reqs, NEW row \in Row
  PROVE  Patched(r, row) \in Row
  BY DEF TypeOK, Patched, Row, Request

-----------------------------------------------------------------------------
LEMMA InitTypeOK == Init => TypeOK
  BY DEF Init, TypeOK, Shape, Request, Row, Page, NoRequest, Keys, Ids, ListKey,
         Stamps, Columns

LEMMA ReadTypeOK ==
  ASSUME TypeOK, NEW r \in Reqs, Read(r)
  PROVE  TypeOK'
  <1> USE DEF TypeOK, Shape, dbVars, redisVars, Goto, Answer
  <1>1. PICK k \in Keys : ReadHit(r, k) \/ ReadMiss(r, k) \/ ReadCacheDown(r, k)
    BY DEF Read
  <1>2. ReadOf(k) \in Request
    BY DEF ReadOf, Request, Stamps, Columns
  <1>3. /\ ReadOf(k).id = k
        /\ ReadOf(k).op = IF k = ListKey THEN "list" ELSE "get"
    BY DEF ReadOf
  <1>4. k = ListKey \/ k \in Ids
    BY DEF Keys
  <1>5. CASE ReadHit(r, k)
    BY <1>2, <1>3, <1>4, <1>5 DEF ReadHit
  <1>6. CASE ReadMiss(r, k)
    BY <1>2, <1>3, <1>4, <1>6 DEF ReadMiss
  <1>7. CASE ReadCacheDown(r, k)
    BY <1>2, <1>3, <1>4, <1>7 DEF ReadCacheDown
  <1> QED
    BY <1>1, <1>5, <1>6, <1>7

LEMMA QueryTypeOK ==
  ASSUME TypeOK, NEW r \in Reqs, QueryPost(r) \/ QueryRows(r) \/ CountRows(r)
  PROVE  TypeOK'
  <1> USE DEF TypeOK, Shape, dbVars, redisVars, Goto, Answer, Key
  <1>1. CASE QueryPost(r)
    BY <1>1 DEF QueryPost
  <1>2. CASE QueryRows(r)
    <2>1. [rows |-> posts, total |-> 0] \in Page
      BY DEF Page
    <2> QED
      BY <1>2, <2>1 DEF QueryRows
  <1>3. CASE CountRows(r)
    <2>1. [rows |-> val[r].rows, total |-> Total] \in Page
      BY <1>3, NumPostsType DEF CountRows, Page, Total
    <2> QED
      BY <1>3, <2>1 DEF CountRows
  <1> QED
    BY <1>1, <1>2, <1>3

\* SETEX by a request that stands at it keeps the types of Redis.
LEMMA PutType ==
  ASSUME TypeOK, NEW r \in Reqs, pc[r] = "store", Put(r, Key(r), val[r])
  PROVE  /\ cache' \in [Keys -> Row \cup Page \cup {Absent}]
         /\ \A i \in Ids : cache'[i] \in Row \cup {Absent}
         /\ cache'[ListKey] \in Page \cup {Absent}
         /\ late' \subseteq Keys /\ lost' \subseteq Keys
  <1> USE DEF TypeOK, Shape, Put, Key
  <1>1. ListKey \notin Ids /\ Keys = Ids \cup {ListKey}
    BY DEF Keys, Ids, ListKey
  <1>2. CASE req[r].op = "list"
    BY <1>1, <1>2
  <1>3. CASE req[r].op # "list"
    BY <1>1, <1>3
  <1> QED
    BY <1>2, <1>3

\* DEL keeps them too.
LEMMA DropType ==
  ASSUME TypeOK, NEW K \in SUBSET Keys, NEW L \in SUBSET Keys, Drop(K, L)
  PROVE  /\ cache' \in [Keys -> Row \cup Page \cup {Absent}]
         /\ \A i \in Ids : cache'[i] \in Row \cup {Absent}
         /\ cache'[ListKey] \in Page \cup {Absent}
         /\ late' \subseteq Keys /\ lost' \subseteq Keys
  BY DEF TypeOK, Drop, Keys

LEMMA EvictKeysType ==
  ASSUME TypeOK, NEW r \in Reqs
  PROVE  EvictKeys(r) \subseteq Keys /\ Abandoned(r) \subseteq Keys
  BY DEF TypeOK, EvictKeys, Abandoned, Request, Keys

LEMMA StoreTypeOK ==
  ASSUME TypeOK, NEW r \in Reqs, Store(r) \/ StoreFails(r)
  PROVE  TypeOK'
  <1> USE DEF TypeOK, Shape, dbVars, redisVars, Goto, Answer
  <1>1. CASE Store(r)
    BY <1>1, PutType DEF Store
  <1>2. CASE StoreFails(r)
    BY <1>2, PutType DEF StoreFails, AfterFailedStore
  <1> QED
    BY <1>1, <1>2

LEMMA StartTypeOK ==
  ASSUME TypeOK, NEW r \in Reqs, Write(r)
  PROVE  TypeOK'
  <1> USE DEF TypeOK, Shape, dbVars, redisVars, Goto, StartWrite
  <1>1. /\ writes < MaxWrites => writes + 1 \in Stamps /\ writes + 1 \in 0..MaxWrites
        /\ ListKey \in Keys /\ Ids \subseteq Keys
    BY DEF Stamps, Keys
  <1>2. CASE StartCreate(r)
    BY <1>1, <1>2 DEF StartCreate, Request
  <1>3. CASE StartUpdate(r)
    BY <1>1, <1>3 DEF StartUpdate, Request
  <1>4. CASE StartDelete(r)
    BY <1>1, <1>4 DEF StartDelete, Request
  <1> QED
    BY <1>2, <1>3, <1>4 DEF Write

LEMMA CommitTypeOK ==
  ASSUME TypeOK, NEW r \in Reqs, Load(r) \/ Insert(r) \/ Update(r) \/ Delete(r)
  PROVE  TypeOK'
  <1> USE DEF TypeOK, Shape, dbVars, redisVars, Goto, Answer
  <1>1. CASE Load(r)
    BY <1>1 DEF Load
  <1>2. CASE Insert(r)
    <2>1. PICK i \in Ids :
            LET row == [born |-> req[r].stamp, title |-> req[r].stamp,
                        content |-> req[r].stamp]
            IN  /\ posts' = [posts EXCEPT ![i] = row]
                /\ lastId' = IF i > lastId THEN i ELSE lastId
                /\ val' = [val EXCEPT ![r] = row]
                /\ raced' = raced \cup Overtaken(i)
      BY <1>2 DEF Insert
    <2>2. [born |-> req[r].stamp, title |-> req[r].stamp,
           content |-> req[r].stamp] \in Row
      BY DEF Row, Request
    <2>3. i \in 1..MaxId /\ i \in Int
      BY DEF Ids
    <2>4. /\ posts' \in [Ids -> Row \cup {NoRow}]
          /\ lastId' \in 0..MaxId
          /\ \A j \in Ids : posts'[j] # NoRow => j <= lastId'
      BY <2>1, <2>2, <2>3 DEF Ids
    <2>5. /\ val' \in [Reqs -> Row \cup Page \cup {NoRow}] /\ pc'[r] = "evict"
          /\ \A q \in Reqs \ {r} : val'[q] = val[q] /\ pc'[q] = pc[q]
          /\ UNCHANGED <<cache, late, lost, req, status, writes, deleted>>
      BY <1>2, <2>1, <2>2 DEF Insert
    <2>6. pc' \in [Reqs -> {"idle", "query", "query_direct", "count", "count_direct",
                            "store", "load", "commit", "refresh", "evict", "done"}]
      BY <1>2 DEF Insert
    <2>7. raced' \subseteq {q \in Reqs : pc'[q] \in {"count", "store"}}
      BY <1>2, <2>1, <2>5 DEF Insert, Overtaken
    <2>8. \A q \in Reqs : Shape(q)'
      BY <1>2, <2>5 DEF Insert
    <2> QED
      BY <2>4, <2>5, <2>6, <2>7, <2>8
  <1>3. CASE Update(r)
    BY <1>3, PatchedType DEF Update, Overtaken
  <1>4. CASE Delete(r)
    <2>1. deleted' \subseteq Ids \X Stamps
      <3>1. req[r].id \in Ids
        BY <1>4 DEF Delete
      <3>2. \A row \in {posts[req[r].id]} \ {NoRow} : row.born \in Stamps
        BY <3>1 DEF Row
      <3> QED
        BY <1>4, <3>1, <3>2 DEF Delete
    <2> QED
      BY <1>4, <2>1 DEF Delete, Overtaken
  <1> QED
    BY <1>1, <1>2, <1>3, <1>4

LEMMA FinishTypeOK ==
  ASSUME TypeOK, NEW r \in Reqs,
         Refresh(r) \/ Evict(r) \/ EvictFails(r) \/ DbFails(r) \/ Deliver(r)
  PROVE  TypeOK'
  <1> USE EvictKeysType DEF TypeOK, Shape, dbVars, redisVars, Goto, Answer
  <1>1. CASE Refresh(r)
    BY <1>1 DEF Refresh
  <1>2. CASE Evict(r)
    BY <1>2, DropType DEF Evict
  <1>3. CASE EvictFails(r)
    <2>1. PICK K \in {{}, {ListKey}, EvictKeys(r)} : Drop(K, EvictKeys(r) \ K)
      BY <1>3 DEF EvictFails
    <2>2. K \in SUBSET Keys /\ EvictKeys(r) \ K \in SUBSET Keys
      BY DEF Keys
    <2> QED
      BY <1>3, <2>1, <2>2, DropType DEF EvictFails
  <1>4. CASE DbFails(r)
    BY <1>4, DropType DEF DbFails
  <1>5. CASE Deliver(r)
    BY <1>5 DEF Deliver, NoRequest, Request, Keys, Stamps
  <1> QED
    BY <1>1, <1>2, <1>3, <1>4, <1>5

LEMMA EnvironmentTypeOK ==
  ASSUME TypeOK, (\E k \in Keys : Expire(k)) \/ Crash
  PROVE  TypeOK'
  <1> USE DEF TypeOK, Shape, dbVars, redisVars
  <1>1. CASE \E k \in Keys : Expire(k)
    BY <1>1, DropType DEF Expire
  <1>2. CASE Crash
    <2>1. UNION {Abandoned(r) : r \in Reqs} \in SUBSET Keys
      BY EvictKeysType
    <2>2. NoRequest \in Request
      BY DEF NoRequest, Request, Keys, Stamps
    <2> QED
      BY <1>2, <2>1, <2>2, DropType DEF Crash
  <1> QED
    BY <1>1, <1>2

LEMMA TypeOKInductive == TypeOK /\ [Next]_vars => TypeOK'
  <1> SUFFICES ASSUME TypeOK, [Next]_vars PROVE TypeOK'
    OBVIOUS
  <1>1. CASE UNCHANGED vars
    BY <1>1 DEF TypeOK, Shape, vars
  <1>2. ASSUME NEW r \in Reqs, Read(r) \/ Write(r) \/ Progress(r) \/ Fault(r)
        PROVE  TypeOK'
    BY <1>2, ReadTypeOK, QueryTypeOK, StoreTypeOK, StartTypeOK, CommitTypeOK,
       FinishTypeOK DEF Progress, Fault
  <1> QED
    BY <1>1, <1>2, EnvironmentTypeOK DEF Next

\* Every variable keeps its type, and every request its shape, in every
\* reachable state: a reader finds under its key what it can parse, and a
\* request stands only where its handler has an await.
THEOREM TypeCorrect == Spec => []TypeOK
  BY InitTypeOK, TypeOKInductive, PTL DEF Spec

-----------------------------------------------------------------------------
(***************************************************************************)
(* The coherence of the cache.  StaleExplained is inductive together with  *)
(* FillsCurrent: an entry is stored from what a fill holds, so what a fill *)
(* holds must be known to be current unless a commit has overtaken it.     *)
(***************************************************************************)
Inv == TypeOK /\ FillsCurrent /\ StaleExplained

LEMMA CurrentSame ==
  ASSUME posts' = posts
  PROVE  \A k : Current(k)' = Current(k)
  BY DEF Current, NumPosts

\* A commit on one id changes the answer for that id and for the list only.
LEMMA CurrentElsewhere ==
  ASSUME NEW i \in Ids, NEW k \in Keys, k \notin {i, ListKey}, TypeOK,
         NEW row, posts' = [posts EXCEPT ![i] = row]
  PROVE  Current(k)' = Current(k)
  BY DEF Current, Keys, TypeOK

\* A step that touches neither the table nor the cache, and takes no eviction
\* back, leaves every explanation standing.
LEMMA QuietStep ==
  ASSUME StaleExplained, UNCHANGED <<posts, redisVars>>,
         \A q \in Reqs, k \in Keys : WillEvict(q, k) => WillEvict(q, k)'
  PROVE  StaleExplained'
  BY CurrentSame DEF StaleExplained, Stale, redisVars

\* A commit on id i by a writer that now owes the eviction of i and the list.
LEMMA CommitStep ==
  ASSUME StaleExplained, TypeOK, NEW r \in Reqs, NEW i \in Ids, NEW row,
         posts' = [posts EXCEPT ![i] = row], UNCHANGED redisVars,
         WillEvict(r, i)', WillEvict(r, ListKey)',
         \A q \in Reqs, k \in Keys \ {i, ListKey} :
            WillEvict(q, k) => WillEvict(q, k)'
  PROVE  StaleExplained'
  <1> SUFFICES ASSUME NEW k \in Keys, Stale(k)'
               PROVE  (k \in late \cup lost \/ \E q \in Reqs : WillEvict(q, k))'
    BY DEF StaleExplained
  <1>1. CASE k \in {i, ListKey}
    BY <1>1
  <1>2. CASE k \notin {i, ListKey}
    BY <1>2, CurrentElsewhere DEF StaleExplained, Stale, redisVars
  <1> QED
    BY <1>1, <1>2

\* SETEX: what is stored is current, or the key is now late.
LEMMA PutStep ==
  ASSUME Inv, NEW r \in Reqs, pc[r] = "store", Put(r, Key(r), val[r]),
         posts' = posts,
         \A q \in Reqs, k \in Keys : WillEvict(q, k) => WillEvict(q, k)'
  PROVE  StaleExplained'
  <1> SUFFICES ASSUME NEW k \in Keys, Stale(k)'
               PROVE  (k \in late \cup lost \/ \E q \in Reqs : WillEvict(q, k))'
    BY DEF StaleExplained
  <1>1. CASE k = Key(r)
    <2>1. cache'[k] = val[r]
      BY <1>1 DEF Put, Inv, TypeOK
    <2>2. r \in raced
      BY <1>1, <2>1, CurrentSame DEF Inv, FillsCurrent, Stale
    <2> QED
      BY <1>1, <2>2 DEF Put
  <1>2. CASE k # Key(r)
    <2>1. cache'[k] = cache[k]
      BY <1>2 DEF Put, Inv, TypeOK
    <2> QED
      BY <1>2, <2>1, CurrentSame DEF Inv, StaleExplained, Stale, Put
  <1> QED
    BY <1>1, <1>2

\* DEL: an eviction given up for the requests of Gone is lost, key by key.
LEMMA DropStep ==
  ASSUME TypeOK, StaleExplained, NEW K \in SUBSET Keys, NEW L \in SUBSET Keys,
         Drop(K, L), posts' = posts,
         \A q \in Reqs, k \in Keys \ (K \cup L) : WillEvict(q, k) => WillEvict(q, k)'
  PROVE  StaleExplained'
  <1> SUFFICES ASSUME NEW k \in Keys, Stale(k)'
               PROVE  (k \in late \cup lost \/ \E q \in Reqs : WillEvict(q, k))'
    BY DEF StaleExplained
  <1>1. k \notin K /\ cache'[k] = cache[k]
    BY DEF Drop, Stale
  <1>2. CASE k \in L
    BY <1>2 DEF Drop
  <1>3. CASE k \notin L
    BY <1>1, <1>3, CurrentSame DEF StaleExplained, Stale, Drop
  <1> QED
    BY <1>2, <1>3

-----------------------------------------------------------------------------
LEMMA ReadStep ==
  ASSUME Inv, NEW r \in Reqs,
         \/ Read(r) \/ QueryPost(r) \/ QueryRows(r) \/ CountRows(r)
  PROVE  FillsCurrent' /\ StaleExplained'
  <1> USE DEF Inv, TypeOK, Goto, Answer, dbVars, redisVars
  <1>1. UNCHANGED <<posts, redisVars, raced>>
    BY DEF Read, ReadHit, ReadMiss, ReadCacheDown, QueryPost, QueryRows, CountRows
  <1>2. ASSUME NEW q \in Reqs, q # r
        PROVE  pc'[q] = pc[q] /\ req'[q] = req[q] /\ val'[q] = val[q]
    BY <1>2 DEF Read, ReadHit, ReadMiss, ReadCacheDown, QueryPost, QueryRows, CountRows
  <1>3. pc[r] \notin {"refresh", "evict"}
    BY DEF Read, ReadHit, ReadMiss, ReadCacheDown, QueryPost, QueryRows, CountRows
  <1>4. StaleExplained'
    <2>1. \A q \in Reqs, k \in Keys : WillEvict(q, k) => WillEvict(q, k)'
      BY <1>1, <1>2, <1>3 DEF WillEvict, EvictKeys
    <2> QED
      BY <1>1, <2>1, QuietStep
  <1>5. /\ pc'[r] = "store" /\ r \notin raced => val'[r] = Current(Key(r))'
        /\ pc'[r] = "count" /\ r \notin raced => val'[r].rows = posts
    <2>1. CASE Read(r)
      BY <2>1 DEF Read, ReadHit, ReadMiss, ReadCacheDown
    <2>2. CASE QueryPost(r)
      BY <2>2 DEF QueryPost, Key, Current, Shape, Ids, ListKey
    <2>3. CASE QueryRows(r)
      BY <2>3 DEF QueryRows
    <2>4. CASE CountRows(r)
      BY <2>4 DEF CountRows, Total, FillsCurrent, Shape, Key, Current, NumPosts
    <2> QED
      BY <2>1, <2>2, <2>3, <2>4
  <1>6. FillsCurrent'
    BY <1>1, <1>2, <1>5, CurrentSame DEF FillsCurrent, Key
  <1> QED
    BY <1>4, <1>6

LEMMA StoreStep ==
  ASSUME Inv, NEW r \in Reqs, Store(r) \/ StoreFails(r)
  PROVE  FillsCurrent' /\ StaleExplained'
  <1> USE DEF Inv, TypeOK, Goto, Answer, dbVars
  <1>1. /\ posts' = posts /\ req' = req /\ val' = val /\ raced' = raced \ {r}
        /\ pc[r] = "store" /\ pc'[r] \notin {"count", "store"}
        /\ \A q \in Reqs : q # r => pc'[q] = pc[q]
    BY DEF Store, StoreFails, AfterFailedStore
  <1>2. FillsCurrent'
    BY <1>1, CurrentSame DEF FillsCurrent, Key
  <1>3. \A q \in Reqs, k \in Keys : WillEvict(q, k) => WillEvict(q, k)'
    BY <1>1 DEF WillEvict, EvictKeys
  <1>4. StaleExplained'
    BY <1>1, <1>3, PutStep, QuietStep DEF Store, StoreFails
  <1> QED
    BY <1>2, <1>4

LEMMA StartStep ==
  ASSUME Inv, NEW r \in Reqs, Write(r) \/ Load(r) \/ Refresh(r) \/ Deliver(r)
  PROVE  FillsCurrent' /\ StaleExplained'
  <1> USE DEF Inv, TypeOK, Goto, Answer, dbVars, redisVars
  <1>1. /\ UNCHANGED <<posts, redisVars, raced>>
        /\ pc'[r] \notin {"count", "store"}
        /\ \A q \in Reqs : q # r => pc'[q] = pc[q] /\ req'[q] = req[q] /\ val'[q] = val[q]
    BY DEF Write, StartCreate, StartUpdate, StartDelete, StartWrite, Load, Refresh,
           Deliver
  <1>2. FillsCurrent'
    BY <1>1, CurrentSame DEF FillsCurrent, Key
  <1>3. \A q \in Reqs, k \in Keys : WillEvict(q, k) => WillEvict(q, k)'
    BY <1>1 DEF WillEvict, EvictKeys, Write, StartCreate, StartUpdate, StartDelete,
                StartWrite, Load, Refresh, Deliver
  <1>4. StaleExplained'
    BY <1>1, <1>3, QuietStep
  <1> QED
    BY <1>2, <1>4

\* A commit overtakes every fill that holds what it changes.
LEMMA FillsAfterCommit ==
  ASSUME Inv, NEW r \in Reqs, NEW i \in Ids, NEW row,
         posts' = [posts EXCEPT ![i] = row], raced' = raced \cup Overtaken(i),
         req' = req, pc'[r] \notin {"count", "store"},
         \A q \in Reqs : q # r => pc'[q] = pc[q] /\ val'[q] = val[q]
  PROVE  FillsCurrent'
  <1> SUFFICES ASSUME NEW q \in Reqs, q \notin raced', pc'[q] \in {"count", "store"}
               PROVE  /\ pc'[q] = "store" => val'[q] = Current(Key(q))'
                      /\ pc'[q] = "count" => val'[q].rows = posts'
    BY DEF FillsCurrent
  <1>1. q # r /\ pc'[q] = pc[q] /\ val'[q] = val[q] /\ Key(q)' = Key(q)
    BY DEF Key
  <1>2. q \notin raced /\ Key(q) \notin {i, ListKey}
    BY <1>1 DEF Overtaken
  <1>3. Key(q) \in Keys
    BY DEF Key, Inv, TypeOK, Request
  <1>4. pc[q] = "store"
    BY <1>1, <1>2 DEF Inv, TypeOK, Shape, Key, Ids, ListKey
  <1> QED
    BY <1>1, <1>2, <1>3, <1>4, CurrentElsewhere DEF Inv, FillsCurrent

LEMMA InsertStep ==
  ASSUME Inv, NEW r \in Reqs, Insert(r)
  PROVE  FillsCurrent' /\ StaleExplained'
  <1>1. PICK i \in Ids :
          LET row == [born |-> req[r].stamp, title |-> req[r].stamp,
                      content |-> req[r].stamp]
          IN  /\ IsNextId(i)
              /\ posts' = [posts EXCEPT ![i] = row]
              /\ val' = [val EXCEPT ![r] = row]
              /\ raced' = raced \cup Overtaken(i)
    BY DEF Insert
  <1>2. /\ pc[r] = "commit" /\ pc' = [pc EXCEPT ![r] = "evict"] /\ req' = req
        /\ UNCHANGED redisVars /\ req[r].op = "create"
    BY DEF Insert, Goto
  <1>3. posts[i] = NoRow
    BY <1>1 DEF IsNextId, FreeIds, Used, Inv, TypeOK, Ids
  <1>4. FillsCurrent'
    BY <1>1, <1>2, FillsAfterCommit DEF Inv, TypeOK
  <1>5. \A q \in Reqs, k \in Keys : WillEvict(q, k) => WillEvict(q, k)'
    BY <1>1, <1>2, <1>3 DEF WillEvict, EvictKeys, Inv, TypeOK
  <1>6. WillEvict(r, ListKey)'
    BY <1>2 DEF WillEvict, EvictKeys, Inv, TypeOK
  <1>7. StaleExplained'
    <2> SUFFICES ASSUME NEW k \in Keys, Stale(k)'
                 PROVE  (k \in late \cup lost \/ \E q \in Reqs : WillEvict(q, k))'
      BY DEF StaleExplained
    <2>1. CASE k = ListKey
      BY <2>1, <1>6
    <2>2. CASE k = i
      <3>1. cache[i] # Absent /\ cache[i] # NoRow /\ Current(i) = NoRow
        BY <1>2, <1>3, <2>2 DEF redisVars, Stale, Inv, TypeOK, Current, Ids, ListKey
      <3>2. Stale(i)
        BY <3>1 DEF Stale
      <3> QED
        BY <1>2, <1>5, <2>2, <3>2 DEF Inv, StaleExplained, redisVars
    <2>3. CASE k \notin {i, ListKey}
      BY <1>1, <1>2, <1>5, <2>3, CurrentElsewhere DEF Inv, StaleExplained, Stale, redisVars
    <2> QED
      BY <2>1, <2>2, <2>3
  <1> QED
    BY <1>4, <1>7

LEMMA UpdateStep ==
  ASSUME Inv, NEW r \in Reqs, Update(r)
  PROVE  FillsCurrent' /\ StaleExplained'
  <1> DEFINE i == req[r].id
  <1>1. /\ i \in Ids /\ i \in Keys /\ ListKey \in Keys
        /\ pc[r] = "commit" /\ req[r].op = "update"
        /\ UNCHANGED redisVars /\ req' = req /\ val' = val
        /\ \A q \in Reqs : q # r => pc'[q] = pc[q]
        /\ pc'[r] \in {"refresh", "done"}
    BY DEF Update, Goto, Answer, Inv, TypeOK, Shape, Keys
  <1>2. CASE posts[i] # NoRow /\ posts' = [posts EXCEPT ![i] = Patched(r, posts[i])]
             /\ raced' = raced \cup Overtaken(i) /\ pc'[r] = "refresh"
    <2>1. posts'[i] # NoRow
      BY <1>1, <1>2, PatchedType DEF Inv, TypeOK
    <2>2. WillEvict(r, i)' /\ WillEvict(r, ListKey)'
      BY <1>1, <1>2, <2>1 DEF WillEvict, EvictKeys
    <2>3. \A q \in Reqs, k \in Keys : WillEvict(q, k) => WillEvict(q, k)'
      BY <1>1, <1>2, <2>1 DEF WillEvict, EvictKeys, Inv, TypeOK
    <2>4. FillsCurrent'
      BY <1>1, <1>2, FillsAfterCommit
    <2>5. StaleExplained'
      BY <1>1, <1>2, <2>2, <2>3, CommitStep DEF Inv
    <2> QED
      BY <2>4, <2>5
  <1>3. CASE posts' = posts /\ raced' = raced
    <2>1. FillsCurrent'
      BY <1>1, <1>3, CurrentSame DEF Inv, FillsCurrent, Key
    <2>2. \A q \in Reqs, k \in Keys : WillEvict(q, k) => WillEvict(q, k)'
      BY <1>1, <1>3 DEF WillEvict, EvictKeys
    <2>3. StaleExplained'
      BY <1>1, <1>3, <2>2, QuietStep DEF Inv, redisVars
    <2> QED
      BY <2>1, <2>3
  <1>4. \/ posts' = posts /\ raced' = raced
        \/ /\ posts[i] # NoRow /\ posts' = [posts EXCEPT ![i] = Patched(r, posts[i])]
           /\ raced' = raced \cup Overtaken(i) /\ pc'[r] = "refresh"
    BY DEF Update, Goto, Inv, TypeOK
  <1> QED
    BY <1>2, <1>3, <1>4

LEMMA DeleteStep ==
  ASSUME Inv, NEW r \in Reqs, Delete(r)
  PROVE  FillsCurrent' /\ StaleExplained'
  <1> DEFINE i == req[r].id
  <1>1. /\ i \in Ids /\ i \in Keys /\ ListKey \in Keys
        /\ pc[r] = "commit" /\ req[r].op = "delete" /\ pc'[r] = "evict"
        /\ UNCHANGED redisVars /\ req' = req /\ val' = val
        /\ \A q \in Reqs : q # r => pc'[q] = pc[q]
        /\ posts' = [posts EXCEPT ![i] = NoRow] /\ raced' = raced \cup Overtaken(i)
    BY DEF Delete, Goto, Inv, TypeOK, Shape, Keys
  <1>2. WillEvict(r, i)' /\ WillEvict(r, ListKey)'
    BY <1>1 DEF WillEvict, EvictKeys
  <1>3. \A q \in Reqs, k \in Keys \ {i, ListKey} : WillEvict(q, k) => WillEvict(q, k)'
    BY <1>1 DEF WillEvict, EvictKeys, Inv, TypeOK
  <1>4. FillsCurrent'
    BY <1>1, FillsAfterCommit
  <1>5. StaleExplained'
    BY <1>1, <1>2, <1>3, CommitStep DEF Inv
  <1> QED
    BY <1>4, <1>5

\* Evictions, done or failed, database failures and the end of a TTL.
LEMMA DropActionsStep ==
  ASSUME Inv,
         \/ \E r \in Reqs : Evict(r) \/ EvictFails(r) \/ DbFails(r)
         \/ \E k \in Keys : Expire(k)
         \/ Crash
  PROVE  FillsCurrent' /\ StaleExplained'
  <1> USE DEF Inv, dbVars
  <1>1. ASSUME NEW r \in Reqs, NEW K \in SUBSET Keys, NEW L \in SUBSET Keys,
               EvictKeys(r) \subseteq K \cup L \/ pc[r] \notin {"refresh", "evict"},
               Drop(K, L), posts' = posts, req' = req, val' = val,
               Answer(r, "ok") \/ Answer(r, "error"), raced \ {r} \subseteq raced'
        PROVE  FillsCurrent' /\ StaleExplained'
    <2>1. FillsCurrent'
      BY <1>1, CurrentSame DEF FillsCurrent, Key, Answer, Goto, TypeOK
    <2>2. \A q \in Reqs, k \in Keys \ (K \cup L) : WillEvict(q, k) => WillEvict(q, k)'
      BY <1>1 DEF WillEvict, EvictKeys, Answer, Goto, TypeOK
    <2>3. StaleExplained'
      BY <1>1, <2>2, DropStep
    <2> QED
      BY <2>1, <2>3
  <1>2. ASSUME NEW r \in Reqs, Evict(r)
        PROVE  FillsCurrent' /\ StaleExplained'
    BY <1>1, <1>2, EvictKeysType DEF Evict
  <1>3. ASSUME NEW r \in Reqs, EvictFails(r)
        PROVE  FillsCurrent' /\ StaleExplained'
    <2>1. PICK K \in {{}, {ListKey}, EvictKeys(r)} : Drop(K, EvictKeys(r) \ K)
      BY <1>3 DEF EvictFails
    <2>2. K \in SUBSET Keys /\ EvictKeys(r) \ K \in SUBSET Keys
      BY EvictKeysType DEF Keys
    <2> QED
      BY <1>1, <1>3, <2>1, <2>2 DEF EvictFails
  <1>4. ASSUME NEW r \in Reqs, DbFails(r)
        PROVE  FillsCurrent' /\ StaleExplained'
    BY <1>1, <1>4, EvictKeysType DEF DbFails, Abandoned
  <1>5. ASSUME NEW k \in Keys, Expire(k)
        PROVE  FillsCurrent' /\ StaleExplained'
    <2>1. \A q \in Reqs, j \in Keys : WillEvict(q, j) => WillEvict(q, j)'
      BY <1>5 DEF Expire, WillEvict, EvictKeys
    <2>2. StaleExplained'
      BY <1>5, <2>1, DropStep DEF Expire
    <2>3. FillsCurrent'
      BY <1>5, CurrentSame DEF Expire, FillsCurrent, Key
    <2> QED
      BY <2>2, <2>3
  <1>6. CASE Crash
    <2> DEFINE L == UNION {Abandoned(r) : r \in Reqs}
    <2>1. L \in SUBSET Keys
      BY EvictKeysType
    <2>2. \A q \in Reqs, k \in Keys \ L : ~WillEvict(q, k)
      BY DEF WillEvict, Abandoned
    <2>3. StaleExplained'
      BY <1>6, <2>1, <2>2, DropStep DEF Crash
    <2>4. FillsCurrent'
      BY <1>6 DEF Crash, FillsCurrent
    <2> QED
      BY <2>3, <2>4
  <1> QED
    BY <1>2, <1>3, <1>4, <1>5, <1>6

LEMMA InvInductive == Inv /\ [Next]_vars => Inv'
  <1> SUFFICES ASSUME Inv, [Next]_vars PROVE Inv'
    OBVIOUS
  <1>1. TypeOK'
    BY TypeOKInductive DEF Inv
  <1>2. CASE UNCHANGED vars
    <2>1. UNCHANGED <<posts, redisVars, pc, req, val, raced>>
      BY <1>2 DEF vars, redisVars
    <2>2. StaleExplained'
      BY <2>1, QuietStep DEF Inv, WillEvict, EvictKeys
    <2>3. FillsCurrent'
      BY <2>1, CurrentSame DEF Inv, FillsCurrent, Key
    <2> QED
      BY <1>1, <2>2, <2>3 DEF Inv
  <1>3. ASSUME NEW r \in Reqs, Read(r) \/ Write(r) \/ Progress(r) \/ Fault(r)
        PROVE  FillsCurrent' /\ StaleExplained'
    BY <1>3, ReadStep, StoreStep, StartStep, InsertStep, UpdateStep, DeleteStep,
       DropActionsStep DEF Progress, Fault
  <1> QED
    BY <1>1, <1>2, <1>3, DropActionsStep DEF Next, Inv

LEMMA InitInv == Init => Inv
  BY InitTypeOK DEF Init, Inv, FillsCurrent, StaleExplained, Stale

\* Whatever create_post, update_post and delete_post interleave with, an entry
\* of the cache that disagrees with the table was stored by an overtaken read,
\* has lost its eviction to a fault, or is about to be evicted.
THEOREM StaleAlwaysExplained == Spec => []StaleExplained
  <1>1. Inv => StaleExplained
    BY DEF Inv
  <1> QED
    BY <1>1, InitInv, InvInductive, PTL DEF Spec

\* A read that no commit has overtaken stores what the database answers now.
THEOREM FillsAlwaysCurrent == Spec => []FillsCurrent
  <1>1. Inv => FillsCurrent
    BY DEF Inv
  <1> QED
    BY <1>1, InitInv, InvInductive, PTL DEF Spec

-----------------------------------------------------------------------------
(***************************************************************************)
(* What a writer does to the row it finds at its commit.                   *)
(***************************************************************************)

\* A step that is not a commit leaves the table as it is.
LEMMA TableSteps ==
  ASSUME TypeOK, [Next]_vars
  PROVE  \/ UNCHANGED dbVars
         \/ \E r \in Reqs : Insert(r) \/ Update(r) \/ Delete(r)
  <1> USE DEF dbVars
  <1>1. ASSUME NEW r \in Reqs, Read(r) \/ Write(r) \/ Fault(r) PROVE UNCHANGED dbVars
    BY <1>1 DEF Read, ReadHit, ReadMiss, ReadCacheDown, Write, StartCreate, StartUpdate,
                StartDelete, StartWrite, Fault, StoreFails, EvictFails, DbFails
  <1>2. ASSUME NEW r \in Reqs, Progress(r), ~(Insert(r) \/ Update(r) \/ Delete(r))
        PROVE  UNCHANGED dbVars
    BY <1>2 DEF Progress, QueryPost, QueryRows, CountRows, Store, Load, Refresh, Evict,
                Deliver
  <1>3. ASSUME (\E k \in Keys : Expire(k)) \/ Crash PROVE UNCHANGED dbVars
    BY <1>3 DEF Expire, Crash
  <1>4. CASE UNCHANGED vars
    BY <1>4 DEF vars
  <1> QED
    BY <1>1, <1>2, <1>3, <1>4 DEF Next

\* The id an INSERT takes: it is free, and on a sequence it is a new one.
LEMMA NextIdFree ==
  ASSUME TypeOK, NEW i \in Ids, IsNextId(i)
  PROVE  posts[i] = NoRow /\ (~ReusesIds => i > lastId)
  BY DEF IsNextId, FreeIds, Used, TypeOK, Ids

\* Concurrent PATCHes of one post merge: a commit never takes back a column
\* that its request did not give (dirty columns, not whole objects).
THEOREM PatchesMerge == Spec => PatchTouchesOnlyItsFields
  <1> DEFINE Merges(i) ==
        posts[i] # NoRow /\ posts'[i] # NoRow /\ posts'[i] # posts[i] =>
           \E r \in Reqs :
             /\ pc[r] = "commit" /\ pc'[r] = "refresh"
             /\ req[r].op = "update" /\ req[r].id = i
             /\ posts'[i].born = posts[i].born
             /\ "title" \notin req[r].fields => posts'[i].title = posts[i].title
             /\ "content" \notin req[r].fields => posts'[i].content = posts[i].content
  <1>1. TypeOK /\ [Next]_vars => \A i \in Ids : Merges(i)
    <2> SUFFICES ASSUME TypeOK, [Next]_vars, NEW i \in Ids,
                        posts[i] # NoRow, posts'[i] # NoRow, posts'[i] # posts[i]
                 PROVE  Merges(i)
      OBVIOUS
    <2>1. PICK r \in Reqs : Insert(r) \/ Update(r) \/ Delete(r)
      BY TableSteps DEF dbVars
    <2>2. ~Insert(r)
      <3> SUFFICES ASSUME Insert(r) PROVE FALSE
        OBVIOUS
      <3>1. PICK j \in Ids : IsNextId(j) /\ \E row : posts' = [posts EXCEPT ![j] = row]
        BY DEF Insert
      <3> QED
        BY <3>1, NextIdFree DEF TypeOK
    <2>3. ~Delete(r)
      BY DEF Delete, TypeOK
    <2>4. Update(r)
      BY <2>1, <2>2, <2>3
    <2>5. /\ pc[r] = "commit" /\ pc'[r] = "refresh" /\ req[r].op = "update"
          /\ req[r].id = i /\ posts'[i] = Patched(r, posts[i])
      BY <2>4 DEF Update, Goto, TypeOK
    <2>6. posts[i] \in Row
      BY DEF TypeOK
    <2>7. /\ Patched(r, posts[i]).born = posts[i].born
          /\ "title" \notin req[r].fields => Patched(r, posts[i]).title = posts[i].title
          /\ "content" \notin req[r].fields => Patched(r, posts[i]).content = posts[i].content
      BY <2>6 DEF Patched, Row
    <2> QED
      BY <2>5, <2>7
  <1>2. TypeOK /\ [Next]_vars => [\A i \in Ids : Merges(i)]_vars
    BY <1>1
  <1> QED
    BY <1>2, InitTypeOK, TypeOKInductive, PTL DEF Spec, PatchTouchesOnlyItsFields

\* On a sequence, a row that an id of the past has after a step was born before
\* it, and no id is taken back.
LEMMA RowsKeepBirth ==
  ASSUME ~ReusesIds, TypeOK, [Next]_vars
  PROVE  /\ lastId' >= lastId
         /\ \A i \in Ids : i <= lastId /\ posts'[i] # NoRow =>
               posts[i] # NoRow /\ posts'[i].born = posts[i].born
  <1> USE DEF TypeOK, Ids
  <1>1. CASE UNCHANGED dbVars
    BY <1>1 DEF dbVars
  <1>2. ASSUME NEW r \in Reqs, Insert(r)
        PROVE  /\ lastId' >= lastId
               /\ \A i \in Ids : i <= lastId => posts'[i] = posts[i]
    <2>1. PICK j \in Ids : /\ IsNextId(j) /\ \E row : posts' = [posts EXCEPT ![j] = row]
                           /\ lastId' = IF j > lastId THEN j ELSE lastId
      BY <1>2 DEF Insert
    <2> QED
      BY <2>1, NextIdFree
  <1>3. ASSUME NEW r \in Reqs, Update(r)
        PROVE  /\ lastId' = lastId
               /\ \A i \in Ids : posts'[i] # NoRow =>
                     posts[i] # NoRow /\ posts'[i].born = posts[i].born
    <2>1. ASSUME NEW i \in Ids, posts[i] # NoRow
          PROVE  Patched(r, posts[i]).born = posts[i].born
      BY <2>1 DEF Patched, Row
    <2> QED
      BY <1>3, <2>1 DEF Update
  <1>4. ASSUME NEW r \in Reqs, Delete(r)
        PROVE  /\ lastId' = lastId
               /\ \A i \in Ids : posts'[i] # NoRow => posts'[i] = posts[i]
    BY <1>4 DEF Delete
  <1> QED
    BY TableSteps, <1>1, <1>2, <1>3, <1>4

\* A create in flight has a stamp of its own, which no row was ever born with,
\* and the posts that were deleted have ids that were handed out.
Creates == {r \in Reqs : pc[r] = "commit" /\ req[r].op = "create"}
Fresh(n) ==
    /\ \A i \in Ids : posts[i] # NoRow => posts[i].born # n
    /\ \A e \in deleted : e[2] # n
Births ==
    /\ \A n \in Stamps : n > writes => Fresh(n)
    /\ \A r \in Creates : req[r].stamp <= writes
    /\ \A r \in Creates, n \in Stamps : req[r].stamp = n => Fresh(n)
    /\ \A r, q \in Creates : req[r].stamp = req[q].stamp => r = q
    /\ \A e \in deleted : e[1] <= lastId
OwnInv == TypeOK /\ Births /\ WriterMeetsItsPost

\* The second half of WriterMeetsItsPost, for one request.
Meets(r) ==
    IF <<req[r].id, val[r].born>> \in deleted
    THEN posts[req[r].id] # NoRow => ReusesIds
    ELSE posts[req[r].id] # NoRow /\ posts[req[r].id].born = val[r].born
Writers == {r \in Reqs : pc[r] = "commit" /\ req[r].op # "create"}

\* A request that stands at its commit after a step of others stood there before,
\* or has just arrived (a create), or has just loaded its post.
LEMMA WhoCommits ==
  ASSUME TypeOK, [Next]_vars, NEW q \in Reqs, pc'[q] = "commit"
  PROVE  \/ pc[q] = "commit" /\ req'[q] = req[q] /\ val'[q] = val[q]
         \/ /\ UNCHANGED dbVars /\ req'[q].op # "create" /\ val'[q] = posts[req'[q].id]
            /\ req'[q].id \in Ids /\ posts[req'[q].id] # NoRow
         \/ StartCreate(q)
  <1> USE DEF TypeOK, Goto, Answer, dbVars
  <1>1. ASSUME NEW r \in Reqs, Read(r)
        PROVE  pc[q] = "commit" /\ req'[q] = req[q] /\ val'[q] = val[q]
    BY <1>1 DEF Read, ReadHit, ReadMiss, ReadCacheDown
  <1>2. ASSUME NEW r \in Reqs, StartUpdate(r) \/ StartDelete(r)
        PROVE  pc[q] = "commit" /\ req'[q] = req[q] /\ val'[q] = val[q]
    BY <1>2 DEF StartUpdate, StartDelete, StartWrite
  <1>3. ASSUME NEW r \in Reqs, StartCreate(r)
        PROVE  \/ pc[q] = "commit" /\ req'[q] = req[q] /\ val'[q] = val[q]
               \/ StartCreate(q)
    BY <1>3 DEF StartCreate, StartWrite
  <1>4. ASSUME NEW r \in Reqs, Fault(r)
        PROVE  pc[q] = "commit" /\ req'[q] = req[q] /\ val'[q] = val[q]
    BY <1>4 DEF Fault, StoreFails, AfterFailedStore, EvictFails, DbFails
  <1>5. ASSUME NEW r \in Reqs, Load(r)
        PROVE  \/ pc[q] = "commit" /\ req'[q] = req[q] /\ val'[q] = val[q]
               \/ /\ UNCHANGED dbVars /\ req'[q].op # "create" /\ val'[q] = posts[req'[q].id]
                  /\ req'[q].id \in Ids /\ posts[req'[q].id] # NoRow
    BY <1>5 DEF Load, Shape
  <1>6. ASSUME NEW r \in Reqs, Progress(r), ~Load(r)
        PROVE  pc[q] = "commit" /\ req'[q] = req[q] /\ val'[q] = val[q]
    BY <1>6 DEF Progress, QueryPost, QueryRows, CountRows, Store, Insert, Update,
                Delete, Refresh, Evict, Deliver
  <1>7. ASSUME (\E k \in Keys : Expire(k)) \/ Crash
        PROVE  pc[q] = "commit" /\ req'[q] = req[q] /\ val'[q] = val[q]
    BY <1>7 DEF Expire, Crash
  <1>8. CASE UNCHANGED vars
    BY <1>8 DEF vars
  <1> QED
    BY <1>1, <1>2, <1>3, <1>4, <1>5, <1>6, <1>7, <1>8 DEF Next, Write

\* What each commit does to the posts that are there and to those that are gone.
LEMMA InsertBirth ==
  ASSUME TypeOK, NEW r \in Reqs, Insert(r)
  PROVE  \E i \in Ids :
           /\ posts[i] = NoRow /\ (~ReusesIds => i > lastId)
           /\ posts'[i] # NoRow /\ posts'[i].born = req[r].stamp
           /\ \A j \in Ids \ {i} : posts'[j] = posts[j]
           /\ r \in Creates /\ pc'[r] # "commit" /\ lastId' >= lastId /\ deleted' = deleted
  <1> DEFINE row == [born |-> req[r].stamp, title |-> req[r].stamp, content |-> req[r].stamp]
  <1>1. PICK i \in Ids : /\ IsNextId(i) /\ posts' = [posts EXCEPT ![i] = row]
                         /\ lastId' = IF i > lastId THEN i ELSE lastId
    BY DEF Insert
  <1>2. row \in Row /\ row.born = req[r].stamp
    BY DEF TypeOK, Row, Request
  <1> HIDE DEF row
  <1>3. posts'[i] = row /\ \A j \in Ids \ {i} : posts'[j] = posts[j]
    BY <1>1 DEF TypeOK
  <1>4. r \in Creates /\ pc'[r] # "commit" /\ deleted' = deleted
    BY DEF Insert, Goto, TypeOK, Creates
  <1>5. lastId' >= lastId
    BY <1>1 DEF TypeOK, Ids
  <1> QED
    BY <1>1, <1>2, <1>3, <1>4, <1>5, NextIdFree

LEMMA UpdateBirth ==
  ASSUME TypeOK, NEW r \in Reqs, Update(r)
  PROVE  /\ \A i \in Ids : /\ posts'[i] = NoRow <=> posts[i] = NoRow
                           /\ posts[i] # NoRow => posts'[i].born = posts[i].born
         /\ lastId' = lastId /\ deleted' = deleted
  <1>1. ASSUME NEW i \in Ids, posts[i] # NoRow
        PROVE  Patched(r, posts[i]).born = posts[i].born /\ Patched(r, posts[i]) # NoRow
    <2>1. posts[i] \in Row
      BY <1>1 DEF TypeOK
    <2>2. Patched(r, posts[i]).born = posts[i].born
      BY <2>1 DEF Patched, Row
    <2> QED
      BY <2>1, <2>2, PatchedType
  <1> QED
    BY <1>1 DEF Update, TypeOK

LEMMA DeleteBirth ==
  ASSUME TypeOK, NEW r \in Reqs, Delete(r)
  PROVE  \E i \in Ids :
           /\ posts'[i] = NoRow /\ \A j \in Ids \ {i} : posts'[j] = posts[j]
           /\ posts[i] # NoRow => deleted' = deleted \cup {<<i, posts[i].born>>}
           /\ posts[i] = NoRow => deleted' = deleted
           /\ lastId' = lastId
  <1>1. req[r].id \in Ids
    BY DEF Delete, TypeOK, Shape
  <1>2. /\ posts' = [posts EXCEPT ![req[r].id] = NoRow] /\ lastId' = lastId
        /\ deleted' = deleted \cup {<<req[r].id, row.born>> : row \in {posts[req[r].id]} \ {NoRow}}
    BY DEF Delete
  <1>3. /\ posts[req[r].id] # NoRow => deleted' = deleted \cup {<<req[r].id, posts[req[r].id].born>>}
        /\ posts[req[r].id] = NoRow => deleted' = deleted
    BY <1>2
  <1> QED
    BY <1>1, <1>2, <1>3 DEF TypeOK

\* A stamp stays fresh unless a create that has it is done with its commit.
LEMMA FreshKept ==
  ASSUME TypeOK, [Next]_vars, NEW n \in Stamps, Fresh(n),
         \A r \in Creates : r \notin Creates' => req[r].stamp # n
  PROVE  Fresh(n)'
  <1>1. CASE UNCHANGED dbVars
    BY <1>1 DEF Fresh, dbVars
  <1>2. ASSUME NEW r \in Reqs, Insert(r)
        PROVE  Fresh(n)'
    <2>1. PICK i \in Ids :
            /\ posts'[i] # NoRow /\ posts'[i].born = req[r].stamp
            /\ \A j \in Ids \ {i} : posts'[j] = posts[j]
            /\ r \in Creates /\ pc'[r] # "commit" /\ deleted' = deleted
      BY <1>2, InsertBirth
    <2>2. posts'[i].born # n
      BY <2>1 DEF Creates
    <2> QED
      BY <2>1, <2>2 DEF Fresh
  <1>3. ASSUME NEW r \in Reqs, Update(r)
        PROVE  Fresh(n)'
    BY <1>3, UpdateBirth DEF Fresh
  <1>4. ASSUME NEW r \in Reqs, Delete(r)
        PROVE  Fresh(n)'
    <2>1. PICK i \in Ids :
            /\ posts'[i] = NoRow /\ \A j \in Ids \ {i} : posts'[j] = posts[j]
            /\ posts[i] # NoRow => deleted' = deleted \cup {<<i, posts[i].born>>}
            /\ posts[i] = NoRow => deleted' = deleted
      BY <1>4, DeleteBirth
    <2>2. \A j \in Ids : posts'[j] # NoRow => posts[j] # NoRow /\ posts'[j].born = posts[j].born
      BY <2>1
    <2>3. \A e \in deleted' : e \in deleted \/ (posts[i] # NoRow /\ e[2] = posts[i].born)
      BY <2>1
    <2> QED
      BY <2>2, <2>3 DEF Fresh
  <1> QED
    BY TableSteps, <1>1, <1>2, <1>3, <1>4

\* A create that arrives takes a stamp that nobody has had.
LEMMA StampsGrow ==
  ASSUME TypeOK, [Next]_vars
  PROVE  /\ writes' >= writes
         /\ \A q \in Creates' :
              \/ q \in Creates /\ req'[q].stamp = req[q].stamp
              \/ StartCreate(q)
         /\ \A q \in Reqs : StartCreate(q) =>
              /\ req'[q].stamp = writes' /\ writes' > writes /\ UNCHANGED dbVars
              /\ pc[q] # "commit" /\ \A r \in Reqs \ {q} : pc'[r] = pc[r]
  <1>1. ASSUME NEW q \in Reqs, StartCreate(q)
        PROVE  /\ req'[q].stamp = writes' /\ writes' > writes /\ UNCHANGED dbVars
               /\ pc[q] # "commit" /\ \A r \in Reqs \ {q} : pc'[r] = pc[r]
    BY <1>1 DEF StartCreate, StartWrite, TypeOK, Goto
  <1>2. ASSUME NEW q \in Creates'
        PROVE  (q \in Creates /\ req'[q].stamp = req[q].stamp) \/ StartCreate(q)
    BY <1>2, WhoCommits DEF Creates
  <1>3. writes' >= writes
    <2>1. ASSUME NEW r \in Reqs, Write(r) PROVE writes' >= writes
      BY <2>1 DEF Write, StartCreate, StartUpdate, StartDelete, StartWrite, TypeOK
    <2>2. ASSUME NEW r \in Reqs, Read(r) \/ Progress(r) \/ Fault(r) PROVE writes' = writes
      BY <2>2 DEF Read, ReadHit, ReadMiss, ReadCacheDown, Progress, QueryPost, QueryRows,
                  CountRows, Store, Load, Insert, Update, Delete, Refresh, Evict, Deliver,
                  Fault, StoreFails, EvictFails, DbFails
    <2>3. ASSUME (\E k \in Keys : Expire(k)) \/ Crash PROVE writes' = writes
      BY <2>3 DEF Expire, Crash
    <2>4. CASE UNCHANGED vars
      BY <2>4 DEF vars, TypeOK
    <2> QED
      BY <2>1, <2>2, <2>3, <2>4 DEF Next, TypeOK
  <1> QED
    BY <1>1, <1>2, <1>3

LEMMA BirthsStep == TypeOK /\ Births /\ [Next]_vars => Births'
  <1> SUFFICES ASSUME TypeOK, Births, [Next]_vars PROVE Births'
    OBVIOUS
  <1>1. TypeOK'
    BY TypeOKInductive
  <1>2. /\ writes \in Int /\ writes' \in Int /\ writes' \in Stamps /\ Stamps \subseteq Int
        /\ \A r \in Reqs : req[r].stamp \in Stamps /\ req'[r].stamp \in Stamps
    BY <1>1 DEF TypeOK, Stamps, Request
  <1>3. ASSUME NEW n \in Stamps, n > writes'
        PROVE  Fresh(n)'
    <2>1. n > writes /\ Fresh(n)
      BY <1>2, <1>3, StampsGrow DEF Births
    <2>2. \A r \in Creates : req[r].stamp # n
      BY <1>2, <2>1 DEF Births, Creates
    <2> QED
      BY <2>1, <2>2, FreshKept
  <1>4. ASSUME NEW r \in Creates'
        PROVE  req'[r].stamp <= writes'
    <2>1. CASE r \in Creates /\ req'[r].stamp = req[r].stamp
      <3>1. req[r].stamp <= writes /\ writes <= writes' /\ req[r].stamp \in Int
        BY <1>2, <2>1, StampsGrow DEF Births, Creates
      <3> QED
        BY <1>2, <2>1, <3>1
    <2>2. CASE StartCreate(r)
      BY <1>2, <2>2, StampsGrow DEF Creates
    <2> QED
      BY <2>1, <2>2, StampsGrow
  <1>5. ASSUME NEW r \in Creates', NEW n \in Stamps, req'[r].stamp = n
        PROVE  Fresh(n)'
    <2>1. CASE r \in Creates /\ req'[r].stamp = req[r].stamp
      <3>1. Fresh(n) /\ \A q \in Creates : q \notin Creates' => req[q].stamp # n
        BY <1>5, <2>1 DEF Births
      <3> QED
        BY <3>1, FreshKept
    <2>2. CASE StartCreate(r)
      <3>1. n > writes /\ UNCHANGED dbVars
        BY <1>5, <2>2, StampsGrow DEF Creates
      <3> QED
        BY <3>1 DEF Births, Fresh, dbVars
    <2> QED
      BY <2>1, <2>2, StampsGrow
  <1>6. ASSUME NEW r \in Creates', NEW q \in Creates', req'[r].stamp = req'[q].stamp
        PROVE  r = q
    <2>1. ASSUME NEW a \in Creates', NEW b \in Creates', StartCreate(a),
                 b \in Creates, req'[b].stamp = req[b].stamp
          PROVE  req'[a].stamp # req'[b].stamp
      <3>1. req'[a].stamp = writes' /\ writes' > writes
        BY <2>1, StampsGrow DEF Creates
      <3>2. req[b].stamp <= writes /\ req[b].stamp \in Int
        BY <1>2, <2>1 DEF Births, Creates
      <3> QED
        BY <1>2, <2>1, <3>1, <3>2
    <2>2. CASE StartCreate(r) /\ StartCreate(q)
      BY <2>2, StampsGrow DEF Creates
    <2>3. CASE /\ r \in Creates /\ req'[r].stamp = req[r].stamp
               /\ q \in Creates /\ req'[q].stamp = req[q].stamp
      BY <1>6, <2>3 DEF Births
    <2> QED
      BY <1>6, <2>1, <2>2, <2>3, StampsGrow
  <1>7. ASSUME NEW e \in deleted'
        PROVE  e[1] <= lastId'
    <2> USE DEF TypeOK, Ids
    <2>1. CASE UNCHANGED dbVars
      BY <1>7, <2>1 DEF Births, dbVars
    <2>2. ASSUME NEW r \in Reqs, Insert(r) PROVE e[1] <= lastId'
      <3>1. deleted' = deleted /\ lastId' >= lastId
        BY <2>2, InsertBirth
      <3>2. e \in Ids \X Stamps /\ e[1] <= lastId /\ e[1] \in Int /\ lastId \in Int /\ lastId' \in Int
        BY <1>1, <1>7, <3>1 DEF Births
      <3> QED
        BY <3>1, <3>2
    <2>3. ASSUME NEW r \in Reqs, Update(r) PROVE e[1] <= lastId'
      BY <1>7, <2>3, UpdateBirth DEF Births
    <2>4. ASSUME NEW r \in Reqs, Delete(r) PROVE e[1] <= lastId'
      <3>1. PICK i \in Ids :
              /\ posts[i] # NoRow => deleted' = deleted \cup {<<i, posts[i].born>>}
              /\ posts[i] = NoRow => deleted' = deleted
              /\ lastId' = lastId
        BY <2>4, DeleteBirth
      <3>2. e \in deleted \/ (posts[i] # NoRow /\ e[1] = i)
        BY <1>7, <3>1
      <3> QED
        BY <3>1, <3>2 DEF Births
    <2> QED
      BY TableSteps, <2>1, <2>2, <2>3, <2>4
  <1> QED
    BY <1>3, <1>4, <1>5, <1>6, <1>7 DEF Births

\* What a commit of another request does to a request at its own.
LEMMA MeetsStep ==
  ASSUME OwnInv, [Next]_vars, NEW q \in Writers'
  PROVE  Meets(q)'
  <1> USE DEF OwnInv
  <1>1. CASE /\ UNCHANGED dbVars /\ val'[q] = posts[req'[q].id]
             /\ req'[q].id \in Ids /\ posts[req'[q].id] # NoRow
    BY <1>1 DEF WriterMeetsItsPost, Meets, dbVars
  <1>2. CASE pc[q] = "commit" /\ req'[q] = req[q] /\ val'[q] = val[q]
    <2> DEFINE i == req[q].id
               b == val[q].born
    <2>1. /\ q \in Reqs /\ i \in Ids /\ i = req'[q].id /\ b = val'[q].born
          /\ IF <<i, b>> \in deleted THEN posts[i] # NoRow => ReusesIds
             ELSE posts[i] # NoRow /\ posts[i].born = b
      BY <1>2 DEF WriterMeetsItsPost, Writers, TypeOK, Shape
    <2> HIDE DEF i, b
    <2>2. SUFFICES IF <<i, b>> \in deleted' THEN posts'[i] # NoRow => ReusesIds
                   ELSE posts'[i] # NoRow /\ posts'[i].born = b
      BY <2>1 DEF Meets
    <2>3. CASE UNCHANGED dbVars
      BY <2>1, <2>3 DEF dbVars
    <2>4. ASSUME NEW r \in Reqs, Insert(r)
          PROVE  IF <<i, b>> \in deleted' THEN posts'[i] # NoRow => ReusesIds
                 ELSE posts'[i] # NoRow /\ posts'[i].born = b
      <3>1. PICK j \in Ids :
              /\ posts[j] = NoRow /\ (~ReusesIds => j > lastId)
              /\ \A k \in Ids \ {j} : posts'[k] = posts[k]
              /\ deleted' = deleted
        BY <2>4, InsertBirth
      <3>2. CASE i = j
        <4>1. <<i, b>> \in deleted
          BY <2>1, <3>1, <3>2
        <4>2. i <= lastId /\ i \in Int /\ lastId \in Int
          BY <2>1, <4>1 DEF Births, TypeOK, Ids
        <4>3. ReusesIds
          BY <3>1, <3>2, <4>2
        <4> QED
          BY <3>1, <4>1, <4>3
      <3>3. CASE i # j
        BY <2>1, <3>1, <3>3
      <3> QED
        BY <3>2, <3>3
    <2>5. ASSUME NEW r \in Reqs, Update(r)
          PROVE  IF <<i, b>> \in deleted' THEN posts'[i] # NoRow => ReusesIds
                 ELSE posts'[i] # NoRow /\ posts'[i].born = b
      BY <2>1, <2>5, UpdateBirth
    <2>6. ASSUME NEW r \in Reqs, Delete(r)
          PROVE  IF <<i, b>> \in deleted' THEN posts'[i] # NoRow => ReusesIds
                 ELSE posts'[i] # NoRow /\ posts'[i].born = b
      <3>1. PICK j \in Ids :
              /\ posts'[j] = NoRow /\ \A k \in Ids \ {j} : posts'[k] = posts[k]
              /\ posts[j] # NoRow => deleted' = deleted \cup {<<j, posts[j].born>>}
              /\ posts[j] = NoRow => deleted' = deleted
        BY <2>6, DeleteBirth
      <3>2. CASE i = j
        BY <2>1, <3>1, <3>2
      <3>3. CASE i # j
        <4>1. <<i, b>> \in deleted' <=> <<i, b>> \in deleted
          BY <3>1, <3>3
        <4> QED
          BY <2>1, <3>1, <3>3, <4>1
      <3> QED
        BY <3>2, <3>3
    <2> QED
      BY TableSteps, <2>3, <2>4, <2>5, <2>6
  <1>3. ~StartCreate(q)
    BY DEF Writers, StartCreate, StartWrite, TypeOK
  <1> QED
    BY <1>1, <1>2, <1>3, WhoCommits DEF Writers

\* No step brings a deleted post back.
LEMMA GoneStep ==
  ASSUME OwnInv, [Next]_vars, NEW i \in Ids, posts'[i] # NoRow
  PROVE  <<i, posts'[i].born>> \notin deleted'
  <1> USE DEF OwnInv
  <1>1. CASE UNCHANGED dbVars
    BY <1>1 DEF WriterMeetsItsPost, dbVars
  <1>2. ASSUME NEW r \in Reqs, Insert(r)
        PROVE  <<i, posts'[i].born>> \notin deleted'
    <2>1. PICK j \in Ids :
            /\ posts'[j].born = req[r].stamp /\ \A k \in Ids \ {j} : posts'[k] = posts[k]
            /\ r \in Creates /\ deleted' = deleted
      BY <1>2, InsertBirth
    <2>2. req[r].stamp \in Stamps
      BY DEF TypeOK, Request
    <2>3. \A e \in deleted : e[2] # req[r].stamp
      BY <2>1, <2>2 DEF Births, Fresh
    <2>4. CASE i = j
      BY <2>1, <2>3, <2>4
    <2>5. CASE i # j
      BY <2>1, <2>5 DEF WriterMeetsItsPost
    <2> QED
      BY <2>4, <2>5
  <1>3. ASSUME NEW r \in Reqs, Update(r)
        PROVE  <<i, posts'[i].born>> \notin deleted'
    BY <1>3, UpdateBirth DEF WriterMeetsItsPost
  <1>4. ASSUME NEW r \in Reqs, Delete(r)
        PROVE  <<i, posts'[i].born>> \notin deleted'
    <2>1. PICK j \in Ids :
            /\ posts'[j] = NoRow /\ \A k \in Ids \ {j} : posts'[k] = posts[k]
            /\ posts[j] # NoRow => deleted' = deleted \cup {<<j, posts[j].born>>}
            /\ posts[j] = NoRow => deleted' = deleted
      BY <1>4, DeleteBirth
    <2>2. i # j /\ posts'[i] = posts[i]
      BY <2>1
    <2>3. <<i, posts[i].born>> \notin deleted
      BY <2>2 DEF WriterMeetsItsPost
    <2> QED
      BY <2>1, <2>2, <2>3
  <1> QED
    BY TableSteps, <1>1, <1>2, <1>3, <1>4

LEMMA OwnPostStep == OwnInv /\ [Next]_vars => OwnInv'
  <1> SUFFICES ASSUME OwnInv, [Next]_vars PROVE OwnInv'
    OBVIOUS
  <1>1. TypeOK' /\ Births'
    BY TypeOKInductive, BirthsStep DEF OwnInv
  <1>2. WriterMeetsItsPost'
    BY GoneStep, MeetsStep DEF WriterMeetsItsPost, Meets, Writers
  <1> QED
    BY <1>1, <1>2 DEF OwnInv

\* On either database a deleted post stays deleted, and a PATCH or a DELETE meets
\* the post it loaded until somebody deletes it; then it meets no row, or, only
\* where ids are handed out again, the post that has taken the id.
THEOREM WriterOwnsItsPost == Spec => []WriterMeetsItsPost
  <1>1. Init => OwnInv
    <2>1. Init => Births
      BY DEF Init, Births, Fresh, Creates, Stamps, Ids
    <2>2. Init => WriterMeetsItsPost
      BY DEF Init, WriterMeetsItsPost
    <2> QED
      BY <2>1, <2>2, InitTypeOK DEF OwnInv
  <1>2. OwnInv /\ [Next]_vars => OwnInv'
    BY OwnPostStep
  <1>3. OwnInv => WriterMeetsItsPost
    BY DEF OwnInv
  <1> QED
    BY <1>1, <1>2, <1>3, PTL DEF Spec

-----------------------------------------------------------------------------
(***************************************************************************)
(* The steps that AlwaysAnswered and EventualCoherence rest on: what makes *)
(* every step of a request one of the last few, and what keeps the cache   *)
(* from going stale again once the commits are over.                       *)
(***************************************************************************)
\* The most steps a request at this await can still take.
StepsLeft ==
    [idle |-> 0, done |-> 1, evict |-> 2, refresh |-> 3, commit |-> 4, load |-> 5,
     count_direct |-> 2, query_direct |-> 3, store |-> 4, count |-> 5, query |-> 6]

\* Whatever moves a request in flight, a fault included, brings it nearer to its
\* end, and every step of its own moves it: the function is called again around
\* the cache once at most (cacheable).
Tires(r) ==
    /\ pc[r] # "idle" /\ pc'[r] # pc[r] => StepsLeft[pc'[r]] < StepsLeft[pc[r]]
    /\ Progress(r) \/ Fault(r) => pc'[r] # pc[r]

\* Without a commit no fill is overtaken, and no entry goes stale but by the
\* SETEX of a fill that was, which stores that one entry (cacheable, cache_evict).
Commits == \E r \in Reqs : pc[r] = "commit" /\ pc'[r] \in {"refresh", "evict"}
Settles(k) ==
    Stale(k)' => Stale(k) \/ \E r \in raced \ raced' : pc[r] = "store" /\ Key(r) = k
Settling ==
    \/ Commits
    \/ posts' = posts /\ raced' \subseteq raced /\ \A k \in Keys : Settles(k)

\* The awaits a request in flight may go on to, in the order of the code.
LEMMA MovesForward ==
  ASSUME TypeOK, NEW r \in Reqs, Progress(r) \/ Fault(r)
  PROVE  /\ pc[r] # "idle" /\ StepsLeft[pc'[r]] < StepsLeft[pc[r]]
         /\ \A q \in Reqs \ {r} : pc'[q] = pc[q]
  <1> USE DEF TypeOK, Goto, Answer, StepsLeft
  <1>1. CASE QueryPost(r) \/ QueryRows(r) \/ CountRows(r)
    BY <1>1 DEF QueryPost, QueryRows, CountRows
  <1>2. CASE Store(r) \/ StoreFails(r)
    BY <1>2 DEF Store, StoreFails, AfterFailedStore
  <1>3. CASE Load(r) \/ Insert(r) \/ Update(r) \/ Delete(r) \/ Refresh(r)
    BY <1>3 DEF Load, Insert, Update, Delete, Refresh
  <1>4. CASE Evict(r) \/ EvictFails(r) \/ Deliver(r)
    BY <1>4 DEF Evict, EvictFails, Deliver
  <1>5. CASE DbFails(r)
    BY <1>5 DEF DbFails
  <1> QED
    BY <1>1, <1>2, <1>3, <1>4, <1>5 DEF Progress, Fault

\* A request that arrives had none before it in its slot.
LEMMA ArrivesIdle ==
  ASSUME TypeOK, NEW r \in Reqs, Read(r) \/ Write(r)
  PROVE  pc[r] = "idle" /\ \A q \in Reqs \ {r} : pc'[q] = pc[q]
  BY DEF TypeOK, Read, ReadHit, ReadMiss, ReadCacheDown, Write, StartCreate, StartUpdate,
         StartDelete, StartWrite, Goto, Answer

\* Every request in flight is at most six steps from its end, whichever of its
\* calls fail: each step it takes, and each fault that hits it, is one less.
THEOREM RequestsTire == Spec => [][\A r \in Reqs : Tires(r)]_vars
  <1>1. TypeOK /\ [Next]_vars => [\A r \in Reqs : Tires(r)]_vars
    <2> SUFFICES ASSUME TypeOK, Next, NEW r \in Reqs
                 PROVE  Tires(r)
      OBVIOUS
    <2>1. Progress(r) \/ Fault(r) => StepsLeft[pc'[r]] < StepsLeft[pc[r]] /\ pc'[r] # pc[r]
      <3> SUFFICES ASSUME Progress(r) \/ Fault(r)
                   PROVE  StepsLeft[pc'[r]] < StepsLeft[pc[r]] /\ pc'[r] # pc[r]
        OBVIOUS
      <3>1. StepsLeft[pc[r]] \in Nat
        BY DEF TypeOK, StepsLeft
      <3>2. StepsLeft[pc'[r]] < StepsLeft[pc[r]]
        BY MovesForward
      <3>3. pc'[r] = pc[r] => ~(StepsLeft[pc'[r]] < StepsLeft[pc[r]])
        BY <3>1
      <3> QED
        BY <3>2, <3>3
    <2>2. ASSUME pc[r] # "idle", pc'[r] # pc[r]
          PROVE  StepsLeft[pc'[r]] < StepsLeft[pc[r]]
      <3>1. ASSUME NEW q \in Reqs, Read(q) \/ Write(q)
            PROVE  FALSE
        BY <2>2, <3>1, ArrivesIdle
      <3>2. ASSUME NEW q \in Reqs, Progress(q) \/ Fault(q)
            PROVE  StepsLeft[pc'[r]] < StepsLeft[pc[r]]
        <4>1. q = r
          BY <2>2, <3>2, MovesForward
        <4> QED
          BY <3>2, <4>1, MovesForward
      <3>3. CASE \E k \in Keys : Expire(k)
        BY <2>2, <3>3 DEF Expire
      <3>4. CASE Crash
        <4>1. pc'[r] = "idle"
          BY <3>4 DEF Crash
        <4>2. pc[r] \in {"query", "query_direct", "count", "count_direct", "store", "load",
                         "commit", "refresh", "evict", "done"}
          BY <2>2 DEF TypeOK
        <4> QED
          BY <4>1, <4>2 DEF StepsLeft
      <3> QED
        BY <3>1, <3>2, <3>3, <3>4 DEF Next
    <2> QED
      BY <2>1, <2>2 DEF Tires
  <1> QED
    BY <1>1, InitTypeOK, TypeOKInductive, PTL DEF Spec

\* A key that a step leaves alone, or empties, does not go stale by it.
LEMMA UntouchedSettles ==
  ASSUME NEW k \in Keys, posts' = posts, cache'[k] \in {cache[k], Absent}
  PROVE  Settles(k)
  BY CurrentSame DEF Settles, Stale

\* What a fill that was not overtaken stores is what the table holds.
LEMMA StoreSettles ==
  ASSUME Inv, NEW r \in Reqs, Store(r) \/ StoreFails(r)
  PROVE  posts' = posts /\ raced' \subseteq raced /\ \A k \in Keys : Settles(k)
  <1>1. /\ posts' = posts /\ raced' = raced \ {r} /\ pc[r] = "store"
        /\ Put(r, Key(r), val[r]) \/ UNCHANGED redisVars
    BY DEF Store, StoreFails, dbVars
  <1>2. ASSUME NEW k \in Keys PROVE Settles(k)
    <2>1. CASE cache'[k] = cache[k]
      BY <1>1, <2>1, UntouchedSettles
    <2>2. CASE cache'[k] # cache[k]
      <3>1. Put(r, Key(r), val[r])
        BY <1>1, <2>2 DEF redisVars
      <3>2. k = Key(r) /\ cache'[k] = val[r]
        BY <2>2, <3>1 DEF Put, Inv, TypeOK
      <3>3. CASE r \in raced
        BY <1>1, <3>2, <3>3 DEF Settles
      <3>4. CASE r \notin raced
        <4>1. val[r] = Current(k)
          BY <1>1, <3>2, <3>4 DEF Inv, FillsCurrent
        <4> QED
          BY <1>1, <3>2, <4>1, CurrentSame DEF Settles, Stale
      <3> QED
        BY <3>3, <3>4
    <2> QED
      BY <2>1, <2>2
  <1> QED
    BY <1>1, <1>2

\* An eviction, whatever it loses, and the end of a time to live only empty keys.
LEMMA DropSettles ==
  ASSUME NEW K, NEW L, Drop(K, L), posts' = posts
  PROVE  \A k \in Keys : Settles(k)
  <1> SUFFICES ASSUME NEW k \in Keys PROVE Settles(k)
    OBVIOUS
  <1>1. cache'[k] \in {cache[k], Absent}
    BY DEF Drop
  <1> QED
    BY <1>1, UntouchedSettles

\* Once the commits are over, the overtaken fills in flight are all that can
\* still store a wrong entry, each at most one, and no new ones join them: the
\* cache stops going stale (EventualCoherence then needs only that each of
\* them ends and each time to live runs out).
THEOREM CacheSettles == Spec => [][Settling]_vars
  <1>1. Inv /\ [Next]_vars => [Settling]_vars
    <2> SUFFICES ASSUME Inv, Next
                 PROVE  Settling
      OBVIOUS
    <2> USE DEF dbVars, redisVars, Settling
    <2>1. ASSUME NEW r \in Reqs, Read(r) \/ Write(r) \/ QueryPost(r) \/ QueryRows(r)
                                 \/ CountRows(r) \/ Load(r) \/ Refresh(r) \/ Deliver(r)
          PROVE  Settling
      <3>1. posts' = posts /\ cache' = cache /\ raced' = raced
        BY <2>1 DEF Read, ReadHit, ReadMiss, ReadCacheDown, Write, StartCreate, StartUpdate,
                    StartDelete, StartWrite, QueryPost, QueryRows, CountRows, Load, Refresh,
                    Deliver
      <3> QED
        BY <3>1, UntouchedSettles
    <2>2. ASSUME NEW r \in Reqs, Insert(r) \/ Update(r) \/ Delete(r)
          PROVE  Settling
      <3>1. pc[r] = "commit"
        BY <2>2 DEF Insert, Update, Delete
      <3>2. \/ pc'[r] \in {"refresh", "evict"}
            \/ posts' = posts /\ cache' = cache /\ raced' = raced
        BY <2>2 DEF Insert, Update, Delete, Goto, Inv, TypeOK
      <3> QED
        BY <3>1, <3>2, UntouchedSettles DEF Commits
    <2>3. ASSUME NEW r \in Reqs, Evict(r) \/ EvictFails(r) \/ DbFails(r)
          PROVE  Settling
      <3>1. /\ posts' = posts /\ raced' \subseteq raced
            /\ \E K, L : Drop(K, L)
        BY <2>3 DEF Evict, EvictFails, DbFails
      <3> QED
        BY <3>1, DropSettles
    <2>4. CASE \E k \in Keys : Expire(k)
      BY <2>4, DropSettles DEF Expire
    <2>5. CASE Crash
      BY <2>5, DropSettles DEF Crash
    <2> QED
      BY <2>1, <2>2, <2>3, <2>4, <2>5, StoreSettles DEF Next, Progress, Fault
  <1> QED
    BY <1>1, InitInv, InvInductive, PTL DEF Spec
=============================================================================
