------------------------- MODULE PostHistoryProofs -------------------------
(***************************************************************************)
(* The post service implements the PostStore, for any number of requests,  *)
(* ids and writes, on either database and under every fault.               *)
(***************************************************************************)
EXTENDS PostHistory, PostServiceProofs

USE DEF hvars

\* The histories are of the table, and an answer is there when it is given.
HistoryOK ==
    /\ posts \in past
    /\ since \in [Reqs -> SUBSET past]
    /\ \A r \in Reqs :
         /\ IF pc[r] \in {"idle", "done"} THEN since[r] = {} ELSE posts \in since[r]
         /\ pc[r] # "done" => status[r] = "none"

\* What one request has read.
Carries(r) ==
    /\ pc[r] \in {"count", "count_direct"} => val[r].rows \in since[r]
    /\ pc[r] \in {"store", "evict"} /\ req[r].op # "delete" =>
         val[r] \in Promised!Bodies(req[r], since[r])

\* What Redis holds.
CacheGenuine ==
    /\ \A i \in Ids : cache[i] # Absent => cache[i] \in Promised!Versions(i, past)
    /\ cache[ListKey] # Absent => cache[ListKey] \in Promised!Pages(past)

LEMMA GenuineParts == Genuine <=> CacheGenuine /\ \A r \in Reqs : Carries(r)
  BY DEF Genuine, CacheGenuine, Carries

HInv == TypeOK /\ HistoryOK /\ Genuine

\* The history of a step.
Record ==
    /\ past' = past \cup {posts'}
    /\ since' = [r \in Reqs |->
                   IF pc'[r] \in {"idle", "done"} THEN {}
                   ELSE IF pc[r] = "idle" THEN {posts'}
                   ELSE since[r] \cup {posts'}]

LEMMA HNextParts == HNext <=> Next /\ Record
  BY DEF HNext, Record

\* More tables, more answers.
LEMMA BodiesGrow ==
  ASSUME NEW a, NEW T, NEW U, T \subseteq U
  PROVE  /\ \A i : Promised!Versions(i, T) \subseteq Promised!Versions(i, U)
         /\ Promised!Pages(T) \subseteq Promised!Pages(U)
         /\ Promised!Bodies(a, T) \subseteq Promised!Bodies(a, U)
  <1>1. \A i : Promised!Versions(i, T) \subseteq Promised!Versions(i, U)
    BY DEF Promised!Versions
  <1>2. Promised!Pages(T) \subseteq Promised!Pages(U)
    <2>1. Promised!Totals(T) \subseteq Promised!Totals(U)
      BY DEF Promised!Totals
    <2> QED
      BY <2>1 DEF Promised!Pages
  <1>3. Promised!Bodies(a, T) \subseteq Promised!Bodies(a, U)
    BY <1>1, <1>2 DEF Promised!Bodies
  <1> QED
    BY <1>1, <1>2, <1>3

-----------------------------------------------------------------------------
\* The status of a request is set when it is answered, and not before.
LEMMA StatusStep ==
  ASSUME TypeOK, HistoryOK, Next, NEW q \in Reqs, pc'[q] # "done"
  PROVE  status'[q] = "none"
  <1> USE DEF HistoryOK, TypeOK, Goto, Answer
  <1>1. ASSUME NEW r \in Reqs, Read(r) PROVE status'[q] = "none"
    BY <1>1 DEF Read, ReadHit, ReadMiss, ReadCacheDown
  <1>2. ASSUME NEW r \in Reqs, Write(r) PROVE status'[q] = "none"
    BY <1>2 DEF Write, StartCreate, StartUpdate, StartDelete, StartWrite
  <1>3. ASSUME NEW r \in Reqs, QueryPost(r) \/ QueryRows(r) \/ CountRows(r) \/ Store(r)
        PROVE  status'[q] = "none"
    BY <1>3 DEF QueryPost, QueryRows, CountRows, Store
  <1>4. ASSUME NEW r \in Reqs, Load(r) \/ Insert(r) \/ Update(r) \/ Delete(r)
        PROVE  status'[q] = "none"
    BY <1>4 DEF Load, Insert, Update, Delete
  <1>5. ASSUME NEW r \in Reqs, Refresh(r) \/ Evict(r) \/ Deliver(r)
        PROVE  status'[q] = "none"
    BY <1>5 DEF Refresh, Evict, Deliver
  <1>6. ASSUME NEW r \in Reqs, Fault(r) PROVE status'[q] = "none"
    BY <1>6 DEF Fault, StoreFails, EvictFails, DbFails
  <1>7. CASE \E k \in Keys : Expire(k)
    BY <1>7 DEF Expire
  <1>8. CASE Crash
    BY <1>8 DEF Crash
  <1> QED
    BY <1>1, <1>2, <1>3, <1>4, <1>5, <1>6, <1>7, <1>8 DEF Next, Progress

LEMMA HistoryStep ==
  ASSUME TypeOK, HistoryOK, Next, Record
  PROVE  HistoryOK'
  <1>1. posts' \in past' /\ past \subseteq past'
    BY DEF Record
  <1>2. since' \in [Reqs -> SUBSET past']
    BY <1>1 DEF HistoryOK, Record
  <1>3. ASSUME NEW r \in Reqs
        PROVE  IF pc'[r] \in {"idle", "done"} THEN since'[r] = {} ELSE posts' \in since'[r]
    BY DEF Record
  <1>4. ASSUME NEW r \in Reqs, pc'[r] # "done" PROVE status'[r] = "none"
    BY <1>4, StatusStep
  <1> QED
    BY <1>1, <1>2, <1>3, <1>4 DEF HistoryOK

-----------------------------------------------------------------------------
(***************************************************************************)
(* What is answered has been in the table.                                 *)
(***************************************************************************)
\* The bodies by operation.
LEMMA BodiesAre ==
  ASSUME NEW a, NEW T
  PROVE  /\ a.op = "list" => Promised!Bodies(a, T) = Promised!Pages(T)
         /\ a.op \in {"get", "update"} =>
              Promised!Bodies(a, T) = Promised!Versions(a.id, T)
         /\ a.op = "create" => Promised!Bodies(a, T) = {Promised!Fresh(a.stamp)}
         /\ a.op = "delete" => Promised!Bodies(a, T) = {NoRow}
  <1>1. "list" # "get" /\ "list" # "update" /\ "list" # "create" /\ "list" # "delete"
    OBVIOUS
  <1>2. "get" # "create" /\ "update" # "create" /\ "get" # "delete"
        /\ "update" # "delete" /\ "create" # "delete"
    OBVIOUS
  <1> QED
    BY <1>1, <1>2, Zenon DEF Promised!Bodies

\* The row of a live id is a version of it, in every table set it is in.
LEMMA CurrentVersion ==
  ASSUME NEW i, NEW T, posts \in T, posts[i] # NoRow
  PROVE  posts[i] \in Promised!Versions(i, T)
  BY DEF Promised!Versions

\* The page of rows and a total of tables in T is a page of T.
LEMMA CountedPage ==
  ASSUME NEW T, posts \in T, NEW t \in T
  PROVE  [rows |-> t, total |-> Total] \in Promised!Pages(T)
  <1>1. Total \in Promised!Totals(T)
    BY Zenon DEF Total, NumPosts, Promised!Totals, Cardinality, Promised!Cardinality
  <1> QED
    BY <1>1 DEF Promised!Pages

\* What a request holds stays genuine while it stands where it is.
LEMMA CarriesKept ==
  ASSUME HistoryOK, Record, NEW q \in Reqs, Carries(q),
         pc'[q] = pc[q], req'[q] = req[q], val'[q] = val[q]
  PROVE  Carries(q)'
  <1>1. CASE pc[q] \in {"idle", "done"}
    BY <1>1 DEF Carries
  <1>2. CASE pc[q] \notin {"idle", "done"}
    <2>1. since[q] \subseteq since'[q]
      BY <1>2 DEF Record
    <2>2. Promised!Bodies(req[q], since[q]) \subseteq Promised!Bodies(req[q], since'[q])
      BY <2>1, BodiesGrow
    <2> QED
      BY <2>1, <2>2 DEF Carries
  <1> QED
    BY <1>1, <1>2

\* What Redis holds stays genuine when it only loses keys.
LEMMA CacheKept ==
  ASSUME CacheGenuine, Record, \A k \in Keys : cache'[k] \in {cache[k], Absent}
  PROVE  CacheGenuine'
  <1>1. past \subseteq past'
    BY DEF Record
  <1>2. /\ \A i : Promised!Versions(i, past) \subseteq Promised!Versions(i, past')
        /\ Promised!Pages(past) \subseteq Promised!Pages(past')
    BY <1>1, BodiesGrow
  <1> QED
    BY <1>2 DEF CacheGenuine, Keys

\* A fill stores what it carries.
LEMMA CachePut ==
  ASSUME TypeOK, HistoryOK, CacheGenuine, Record, NEW r \in Reqs, Carries(r),
         pc[r] = "store", Put(r, Key(r), val[r])
  PROVE  CacheGenuine'
  <1>1. since[r] \subseteq past' /\ past \subseteq past'
    BY DEF HistoryOK, Record
  <1>2. /\ \A i : Promised!Versions(i, past) \subseteq Promised!Versions(i, past')
        /\ Promised!Pages(past) \subseteq Promised!Pages(past')
    BY <1>1, BodiesGrow
  <1>3. /\ \A i : Promised!Versions(i, since[r]) \subseteq Promised!Versions(i, past')
        /\ Promised!Pages(since[r]) \subseteq Promised!Pages(past')
    BY <1>1, BodiesGrow
  <1>4. /\ \A k \in Keys : k # Key(r) => cache'[k] = cache[k]
        /\ Key(r) \in Keys => cache'[Key(r)] = val[r]
    BY DEF Put, TypeOK
  <1>5. CASE req[r].op = "list" /\ Key(r) = ListKey
    <2>1. val[r] \in Promised!Pages(past')
      BY <1>3, <1>5, BodiesAre DEF Carries
    <2> QED
      BY <1>2, <1>4, <1>5, <2>1 DEF CacheGenuine, Keys, Ids, ListKey
  <1>6. CASE req[r].op = "get" /\ Key(r) \in Ids
    <2>1. val[r] \in Promised!Versions(Key(r), past')
      BY <1>3, <1>6, BodiesAre DEF Carries, Key
    <2> QED
      BY <1>2, <1>4, <1>6, <2>1 DEF CacheGenuine, Keys, Ids, ListKey
  <1> QED
    BY <1>5, <1>6 DEF TypeOK, Shape, Key

\* A request changes no other.
LEMMA OthersKept ==
  ASSUME TypeOK, NEW r \in Reqs, Read(r) \/ Write(r) \/ Progress(r) \/ Fault(r),
         NEW q \in Reqs, q # r
  PROVE  pc'[q] = pc[q] /\ req'[q] = req[q] /\ val'[q] = val[q] /\ status'[q] = status[q]
  <1> USE DEF TypeOK, Goto, Answer
  <1>1. CASE Read(r)
    BY <1>1 DEF Read, ReadHit, ReadMiss, ReadCacheDown
  <1>2. CASE Write(r)
    BY <1>2 DEF Write, StartCreate, StartUpdate, StartDelete, StartWrite
  <1>3. CASE QueryPost(r) \/ QueryRows(r) \/ CountRows(r) \/ Store(r)
    BY <1>3 DEF QueryPost, QueryRows, CountRows, Store
  <1>4. CASE Load(r) \/ Insert(r) \/ Update(r) \/ Delete(r)
    BY <1>4 DEF Load, Insert, Update, Delete
  <1>5. CASE Refresh(r) \/ Evict(r) \/ Deliver(r)
    BY <1>5 DEF Refresh, Evict, Deliver
  <1>6. CASE Fault(r)
    BY <1>6 DEF Fault, StoreFails, EvictFails, DbFails
  <1> QED
    BY <1>1, <1>2, <1>3, <1>4, <1>5, <1>6 DEF Progress

\* What a step of r leaves in its hands comes from the table.
LEMMA OwnCarried ==
  ASSUME TypeOK, HistoryOK, Record, NEW r \in Reqs, Carries(r),
         Read(r) \/ Write(r) \/ Progress(r) \/ Fault(r)
  PROVE  Carries(r)'
  <1> USE DEF TypeOK, Goto, Answer
  <1>1. pc'[r] \notin {"idle", "done"} => posts' \in since'[r]
    BY DEF Record
  <1>2. pc[r] \notin {"idle", "done"} /\ pc'[r] \notin {"idle", "done"} =>
          since[r] \subseteq since'[r]
    BY DEF Record
  <1>3. CASE pc'[r] \notin {"count", "count_direct", "store", "evict"}
    BY <1>3 DEF Carries
  <1>4. CASE QueryPost(r)
    <2>1. CASE pc'[r] = "store"
      <3>1. /\ req'[r] = req[r] /\ req[r].op = "get" /\ posts' = posts
            /\ val'[r] = posts[req[r].id] /\ posts[req[r].id] # NoRow
        BY <1>4, <2>1 DEF QueryPost, Key, dbVars
      <3>2. val'[r] \in Promised!Versions(req[r].id, since'[r])
        BY <1>1, <2>1, <3>1, CurrentVersion
      <3>3. val'[r] \in Promised!Bodies(req'[r], since'[r])
        BY <3>1, <3>2, BodiesAre
      <3> QED
        BY <2>1, <3>3 DEF Carries
    <2> QED
      BY <1>3, <1>4, <2>1 DEF QueryPost
  <1>5. CASE QueryRows(r)
    BY <1>1, <1>5 DEF QueryRows, Carries, dbVars
  <1>6. CASE CountRows(r)
    <2>1. CASE pc'[r] = "store"
      <3>1. /\ req'[r] = req[r] /\ req[r].op = "list" /\ posts' = posts
            /\ val'[r] = [rows |-> val[r].rows, total |-> Total]
            /\ pc[r] \in {"count", "count_direct"}
        BY <1>6, <2>1 DEF CountRows, Shape, dbVars
      <3>2. val[r].rows \in since'[r] /\ posts \in since'[r]
        BY <1>1, <1>2, <2>1, <3>1 DEF Carries
      <3>3. val'[r] \in Promised!Pages(since'[r])
        BY <3>1, <3>2, CountedPage
      <3>4. val'[r] \in Promised!Bodies(req'[r], since'[r])
        BY <3>1, <3>3, BodiesAre
      <3> QED
        BY <2>1, <3>4 DEF Carries
    <2> QED
      BY <1>3, <1>6, <2>1 DEF CountRows
  <1>7. CASE Insert(r)
    <2>1. /\ req'[r] = req[r] /\ req[r].op = "create" /\ pc'[r] = "evict"
          /\ val'[r] = [born |-> req[r].stamp, title |-> req[r].stamp,
                        content |-> req[r].stamp]
      BY <1>7 DEF Insert
    <2>2. val'[r] \in Promised!Bodies(req'[r], since'[r])
      BY <2>1, BodiesAre DEF Promised!Fresh
    <2> QED
      BY <2>1, <2>2 DEF Carries
  <1>8. CASE Delete(r)
    BY <1>8 DEF Delete, Carries
  <1>9. CASE Refresh(r)
    <2>1. CASE pc'[r] = "evict"
      <3>1. /\ req'[r] = req[r] /\ req[r].op = "update" /\ posts' = posts
            /\ val'[r] = posts[req[r].id] /\ posts[req[r].id] # NoRow
        BY <1>9, <2>1 DEF Refresh, Shape, dbVars
      <3>2. val'[r] \in Promised!Versions(req[r].id, since'[r])
        BY <1>1, <2>1, <3>1, CurrentVersion
      <3>3. val'[r] \in Promised!Bodies(req'[r], since'[r])
        BY <3>1, <3>2, BodiesAre
      <3> QED
        BY <2>1, <3>3 DEF Carries
    <2> QED
      BY <1>3, <1>9, <2>1 DEF Refresh
  <1>10. CASE Read(r) \/ Write(r) \/ Store(r) \/ Load(r) \/ Update(r)
    <2>1. pc'[r] \notin {"count", "count_direct", "store", "evict"}
      BY <1>10 DEF Read, ReadHit, ReadMiss, ReadCacheDown, Write, StartCreate,
           StartUpdate, StartDelete, StartWrite, Store, Load, Update
    <2> QED
      BY <1>3, <2>1
  <1>11. CASE Evict(r) \/ Deliver(r) \/ Fault(r)
    <2>1. pc'[r] \notin {"count", "count_direct", "store", "evict"}
      BY <1>11 DEF Evict, Deliver, Fault, StoreFails, AfterFailedStore, EvictFails, DbFails
    <2> QED
      BY <1>3, <2>1
  <1> QED
    BY <1>4, <1>5, <1>6, <1>7, <1>8, <1>9, <1>10, <1>11 DEF Progress

\* A step stores what a fill carries, or only takes keys away.
LEMMA CacheStep ==
  ASSUME TypeOK, Next
  PROVE  \/ \A k \in Keys : cache'[k] \in {cache[k], Absent}
         \/ \E r \in Reqs : pc[r] = "store" /\ Put(r, Key(r), val[r])
  <1> USE DEF redisVars, Drop
  <1>1. ASSUME NEW r \in Reqs, Read(r) \/ Write(r)
        PROVE  \A k \in Keys : cache'[k] \in {cache[k], Absent}
    BY <1>1 DEF Read, ReadHit, ReadMiss, ReadCacheDown, Write, StartCreate, StartUpdate,
         StartDelete, StartWrite
  <1>2. ASSUME NEW r \in Reqs, Progress(r)
        PROVE  \/ \A k \in Keys : cache'[k] \in {cache[k], Absent}
               \/ pc[r] = "store" /\ Put(r, Key(r), val[r])
    BY <1>2 DEF Progress, QueryPost, QueryRows, CountRows, Store, Load, Insert, Update,
         Delete, Refresh, Evict, Deliver
  <1>3. ASSUME NEW r \in Reqs, Fault(r)
        PROVE  \/ \A k \in Keys : cache'[k] \in {cache[k], Absent}
               \/ pc[r] = "store" /\ Put(r, Key(r), val[r])
    BY <1>3 DEF Fault, StoreFails, EvictFails, DbFails
  <1>4. CASE (\E k \in Keys : Expire(k)) \/ Crash
    BY <1>4 DEF Expire, Crash
  <1> QED
    BY <1>1, <1>2, <1>3, <1>4 DEF Next

LEMMA GenuineStep ==
  ASSUME TypeOK, HistoryOK, Genuine, Next, Record
  PROVE  Genuine'
  <1>0. CacheGenuine /\ \A r \in Reqs : Carries(r)
    BY GenuineParts
  <1>1. CacheGenuine'
    BY <1>0, CacheStep, CacheKept, CachePut
  <1>2. ASSUME NEW q \in Reqs PROVE Carries(q)'
    <2>1. ASSUME NEW r \in Reqs, Read(r) \/ Write(r) \/ Progress(r) \/ Fault(r)
          PROVE  Carries(q)'
      <3>1. CASE q = r
        BY <1>0, <2>1, <3>1, OwnCarried
      <3>2. CASE q # r
        BY <1>0, <2>1, <3>2, OthersKept, CarriesKept
      <3> QED
        BY <3>1, <3>2
    <2>2. CASE \E k \in Keys : Expire(k)
      BY <1>0, <2>2, CarriesKept DEF Expire
    <2>3. CASE Crash
      BY <2>3 DEF Crash, Carries
    <2> QED
      BY <2>1, <2>2, <2>3 DEF Next
  <1> QED
    BY <1>1, <1>2 DEF Genuine, CacheGenuine, Carries

LEMMA InitHInv == HInit => HInv
  BY InitTypeOK DEF HInit, Init, HInv, HistoryOK, Genuine, Keys

LEMMA HInvInductive == HInv /\ [HNext]_hvars => HInv'
  <1> SUFFICES ASSUME HInv, [HNext]_hvars PROVE HInv'
    OBVIOUS
  <1>1. CASE HNext
    BY <1>1, TypeOKInductive, HistoryStep, GenuineStep, HNextParts DEF HInv
  <1>2. CASE UNCHANGED hvars
    <2>1. TypeOK'
      BY <1>2, TypeOKInductive DEF HInv
    <2>2. HistoryOK'
      BY <1>2 DEF HInv, HistoryOK, vars
    <2>3. UNCHANGED <<cache, past, pc, req, val, since>>
      BY <1>2 DEF vars
    <2>4. Genuine'
      BY <2>3 DEF HInv, Genuine, Promised!Bodies, Promised!Pages, Promised!Versions,
           Promised!Totals, Promised!Fresh
    <2> QED
      BY <2>1, <2>2, <2>4 DEF HInv
  <1> QED
    BY <1>1, <1>2

\* Nothing that is on its way to a client, through Redis or from the database,
\* is anything but what the table held.
THEOREM AnswersAreGenuine == HSpec => []Genuine
  <1>1. HInv => Genuine
    BY DEF HInv
  <1> QED
    BY <1>1, InitHInv, HInvInductive, PTL DEF HSpec

-----------------------------------------------------------------------------
(***************************************************************************)
(* Every step is a step of PostStore or none.                              *)
(***************************************************************************)
Phases == [r \in Reqs |-> PhaseAt(pc[r])]
Responses == [r \in Reqs |-> Response(r)]

Places == {"idle", "query", "query_direct", "count", "count_direct", "store", "load",
           "commit", "refresh", "evict", "done"}

LEMMA PhaseAtIs ==
  /\ PhaseAt("idle") = "idle" /\ PhaseAt("done") = "answered"
  /\ PhaseAt("refresh") = "committed" /\ PhaseAt("evict") = "committed"
  /\ \A l \in Places \ {"idle", "done", "refresh", "evict"} : PhaseAt(l) = "open"
  <1>1. /\ "done" # "idle" /\ "refresh" # "idle" /\ "refresh" # "done"
        /\ "evict" # "idle" /\ "evict" # "done"
    OBVIOUS
  <1>2. PhaseAt("idle") = "idle"
    BY <1>1, Zenon DEF PhaseAt
  <1>3. PhaseAt("done") = "answered"
    BY <1>1, Zenon DEF PhaseAt
  <1>4. PhaseAt("refresh") = "committed" /\ PhaseAt("evict") = "committed"
    BY <1>1, Zenon DEF PhaseAt
  <1>5. ASSUME NEW l \in Places \ {"idle", "done", "refresh", "evict"}
        PROVE  PhaseAt(l) = "open"
    <2>1. l # "idle" /\ l # "done" /\ l \notin {"refresh", "evict"}
      OBVIOUS
    <2> QED
      BY <2>1, Zenon DEF PhaseAt
  <1> QED
    BY <1>2, <1>3, <1>4, <1>5

LEMMA TypePlaces == TypeOK => \A r \in Reqs : pc[r] \in Places
  BY DEF TypeOK, Places

\* The histories record what PostStore observes.
LEMMA ObserveStep ==
  ASSUME TypeOK, TypeOK', Record
  PROVE  Promised!Observe
  <1>1. ASSUME NEW r \in Reqs
        PROVE  /\ PhaseAt(pc'[r]) \notin {"open", "committed"} <=> pc'[r] \in {"idle", "done"}
               /\ PhaseAt(pc[r]) = "idle" <=> pc[r] = "idle"
    <2>1. pc[r] \in Places /\ pc'[r] \in Places
      BY TypePlaces DEF TypeOK, Places
    <2> QED
      BY <2>1, PhaseAtIs DEF Places
  <1>2. since' = [r \in Reqs |->
                   IF Phases'[r] \notin {"open", "committed"} THEN {}
                   ELSE IF Phases[r] = "idle" THEN {posts'}
                   ELSE since[r] \cup {posts'}]
    BY <1>1 DEF Record, Phases
  <1>3. past' = past \cup {posts'}
    BY DEF Record
  <1> QED
    BY <1>2, <1>3 DEF Promised!Observe, Phases

\* The answers and phases after a step of r alone.
LEMMA PhasesStep ==
  ASSUME TypeOK, NEW r \in Reqs,
         \A q \in Reqs : q # r => /\ pc'[q] = pc[q] /\ req'[q] = req[q]
                                 /\ val'[q] = val[q] /\ status'[q] = status[q]
  PROVE  /\ Phases' = [Phases EXCEPT ![r] = PhaseAt(pc'[r])]
         /\ Responses' = [Responses EXCEPT ![r] = Response(r)']
  <1>1. \A q \in Reqs : q # r => PhaseAt(pc'[q]) = PhaseAt(pc[q]) /\ Response(q)' = Response(q)
    BY DEF Response
  <1> QED
    BY <1>1 DEF Phases, Responses

\* A request that is answered.
LEMMA ReplyStep ==
  ASSUME TypeOK, NEW r \in Reqs, posts' = posts, pc'[r] = "done",
         \A q \in Reqs : q # r => /\ pc'[q] = pc[q] /\ req'[q] = req[q]
                                 /\ val'[q] = val[q] /\ status'[q] = status[q],
         NEW b, b = IF status'[r] = "ok" /\ req'[r].op # "delete" THEN val'[r] ELSE NoRow
  PROVE  Promised!Reply(r, status'[r], b)
  <1>1. /\ Phases' = [Phases EXCEPT ![r] = PhaseAt(pc'[r])]
        /\ Responses' = [Responses EXCEPT ![r] = Response(r)']
    BY PhasesStep
  <1>2. PhaseAt(pc'[r]) = "answered"
    BY PhaseAtIs
  <1>3. Response(r)' = [status |-> status'[r], body |-> b]
    BY DEF Response
  <1> QED
    BY <1>1, <1>2, <1>3 DEF Promised!Reply, Phases, Responses

\* A request that is not answered has no answer.
LEMMA NotAnswered ==
  ASSUME HistoryOK, NEW r \in Reqs, pc[r] # "done"
  PROVE  Response(r) = Promised!NoAnswer
  BY DEF HistoryOK, Response, Promised!NoAnswer

\* A request that moves on without an answer.
LEMMA MoveStep ==
  ASSUME TypeOK, HistoryOK, HistoryOK', NEW r \in Reqs,
         pc[r] # "done", pc'[r] # "done",
         \A q \in Reqs : q # r => /\ pc'[q] = pc[q] /\ req'[q] = req[q]
                                 /\ val'[q] = val[q] /\ status'[q] = status[q]
  PROVE  /\ Phases' = [Phases EXCEPT ![r] = PhaseAt(pc'[r])]
         /\ Responses' = Responses
  <1>1. /\ Phases' = [Phases EXCEPT ![r] = PhaseAt(pc'[r])]
        /\ Responses' = [Responses EXCEPT ![r] = Response(r)']
    BY PhasesStep
  <1>2. Response(r)' = Response(r)
    BY DEF Response, HistoryOK
  <1> QED
    BY <1>1, <1>2 DEF Responses

\* A step that PostStore does not see.
LEMMA HiddenStep ==
  ASSUME HistoryOK, HistoryOK', Record, UNCHANGED <<posts, req>>,
         Phases' = Phases, Responses' = Responses,
         \A q \in Reqs : pc[q] \in {"idle", "done"} <=> pc'[q] \in {"idle", "done"},
         \A q \in Reqs : pc[q] = "idle" => pc'[q] = "idle"
  PROVE  UNCHANGED Promised!vars
  <1>1. past' = past
    BY DEF Record, HistoryOK
  <1>2. \A q \in Reqs : since'[q] = since[q]
    BY DEF Record, HistoryOK
  <1>3. since' = since
    BY <1>2 DEF HistoryOK
  <1> QED
    BY <1>1, <1>3 DEF Promised!vars, Phases, Responses

\* A step of request r, from a state of the invariant to another.
Steps(r) ==
    /\ HInv /\ HInv' /\ Record
    /\ \A q \in Reqs : q # r => /\ pc'[q] = pc[q] /\ req'[q] = req[q]
                               /\ val'[q] = val[q] /\ status'[q] = status[q]

\* The places of a request that is open to its client.
OpenPlaces == Places \ {"idle", "done", "refresh", "evict"}

LEMMA AskStep ==
  ASSUME NEW r \in Reqs, Steps(r), pc[r] = "idle", pc'[r] \in OpenPlaces, posts' = posts,
         NEW a \in Request, req' = [req EXCEPT ![r] = a]
  PROVE  Promised!Ask(r)
  <1>1. Phases' = [Phases EXCEPT ![r] = "open"] /\ Responses' = Responses /\ Phases[r] = "idle"
    BY MoveStep, PhaseAtIs DEF Steps, HInv, OpenPlaces, Phases
  <1> QED
    BY <1>1 DEF Promised!Ask, Phases, Responses

LEMMA EffectStep ==
  ASSUME NEW r \in Reqs, Steps(r), pc[r] = "commit", pc'[r] \in {"refresh", "evict"},
         req' = req, posts' \in Promised!Effects(req[r])
  PROVE  Promised!Commit(r)
  <1>1. Phases' = [Phases EXCEPT ![r] = "committed"] /\ Responses' = Responses
    BY MoveStep, PhaseAtIs DEF Steps, HInv
  <1>2. Phases[r] = "open"
    BY PhaseAtIs DEF Places, Phases
  <1> QED
    BY <1>1, <1>2 DEF Promised!Commit, Phases, Responses

\* A request that moves on while its client waits.
LEMMA WaitStep ==
  ASSUME NEW r \in Reqs, Steps(r), UNCHANGED <<posts, req>>,
         \/ pc[r] \in OpenPlaces /\ pc'[r] \in OpenPlaces
         \/ pc[r] \in {"refresh", "evict"} /\ pc'[r] \in {"refresh", "evict"}
  PROVE  UNCHANGED Promised!vars
  <1>1. PhaseAt(pc'[r]) = PhaseAt(pc[r])
    BY PhaseAtIs DEF OpenPlaces
  <1>2. Phases' = [Phases EXCEPT ![r] = PhaseAt(pc'[r])] /\ Responses' = Responses
    BY MoveStep DEF Steps, HInv, OpenPlaces
  <1>3. Phases' = Phases
    BY <1>1, <1>2 DEF Phases
  <1>4. \A q \in Reqs : pc[q] \in {"idle", "done"} <=> pc'[q] \in {"idle", "done"}
    BY DEF Steps, OpenPlaces
  <1>5. \A q \in Reqs : pc[q] = "idle" => pc'[q] = "idle"
    BY DEF Steps, OpenPlaces
  <1>6. HistoryOK /\ HistoryOK' /\ Record
    BY DEF Steps, HInv
  <1> QED
    BY <1>2, <1>3, <1>4, <1>5, <1>6, HiddenStep

LEMMA SucceedStep ==
  ASSUME NEW r \in Reqs, Steps(r), UNCHANGED <<posts, req>>,
         \/ pc[r] \in OpenPlaces /\ req[r].op \in {"list", "get"}
         \/ pc[r] = "evict",
         pc'[r] = "done", status'[r] = "ok",
         NEW b \in Promised!Bodies(req[r], since[r]),
         b = IF req'[r].op # "delete" THEN val'[r] ELSE NoRow
  PROVE  Promised!Succeed(r)
  <1>1. Promised!Reply(r, "ok", b)
    BY ReplyStep DEF Steps, HInv
  <1>2. Phases[r] = "open" \/ Phases[r] = "committed"
    BY PhaseAtIs DEF Phases, OpenPlaces
  <1>3. Phases[r] = "open" => req[r].op \in {"list", "get"}
    BY PhaseAtIs DEF Phases
  <1> QED
    BY <1>1, <1>2, <1>3 DEF Promised!Succeed, Phases

LEMMA NotFoundStep ==
  ASSUME NEW r \in Reqs, Steps(r), UNCHANGED <<posts, req>>, pc[r] \in OpenPlaces,
         pc'[r] = "done", status'[r] = "not_found", posts[req[r].id] = NoRow,
         req[r].op \in {"get", "update", "delete"}
  PROVE  Promised!NotFound(r)
  <1>1. Promised!Reply(r, "not_found", NoRow)
    BY ReplyStep DEF Steps, HInv
  <1>2. Phases[r] = "open"
    BY PhaseAtIs DEF Phases, OpenPlaces
  <1> QED
    BY <1>1, <1>2 DEF Promised!NotFound, Phases

LEMMA FailStep ==
  ASSUME NEW r \in Reqs, Steps(r), UNCHANGED <<posts, req>>,
         pc[r] \in OpenPlaces \cup {"refresh"}, pc'[r] = "done", status'[r] = "error"
  PROVE  Promised!Fail(r)
  <1>1. Promised!Reply(r, "error", NoRow)
    BY ReplyStep DEF Steps, HInv
  <1>2. Phases[r] \in {"open", "committed"}
    BY PhaseAtIs DEF Phases, OpenPlaces
  <1> QED
    BY <1>1, <1>2 DEF Promised!Fail, Phases

-----------------------------------------------------------------------------
\* The effects by operation.
LEMMA EffectsAre ==
  ASSUME NEW a
  PROVE  /\ a.op = "create" => Promised!Effects(a) =
              {[posts EXCEPT ![i] = Promised!Fresh(a.stamp)] :
                  i \in {j \in Ids : posts[j] = NoRow}}
         /\ a.op = "update" /\ a.fields = {} => Promised!Effects(a) = {posts}
         /\ a.op = "update" /\ a.fields # {} /\ posts[a.id] # NoRow =>
              Promised!Effects(a) =
                {[posts EXCEPT ![a.id] = Promised!Merged(a, posts[a.id])]}
         /\ a.op = "delete" => Promised!Effects(a) = {[posts EXCEPT ![a.id] = NoRow]}
  <1>1. "create" # "update" /\ "create" # "delete" /\ "update" # "delete"
    OBVIOUS
  <1> QED
    BY <1>1, Zenon DEF Promised!Effects

LEMMA ReadSim ==
  ASSUME NEW r \in Reqs, Steps(r), Read(r)
  PROVE  Promised!Serve(r) \/ Promised!Ask(r)
  <1>1. PICK k \in Keys : ReadHit(r, k) \/ ReadMiss(r, k) \/ ReadCacheDown(r, k)
    BY DEF Read
  <1>2. ReadOf(k) \in Request /\ ReadOf(k).op \in {"list", "get"} /\ ReadOf(k).id = k
        /\ (ReadOf(k).op = "list" <=> k = ListKey)
    BY IdsAssumption DEF ReadOf, Request, Stamps, Keys, Ids, ListKey
  <1>3. CASE ReadHit(r, k)
    <2>1. /\ cache[k] # Absent /\ posts' = posts /\ req' = [req EXCEPT ![r] = ReadOf(k)]
          /\ pc'[r] = "done" /\ status'[r] = "ok" /\ val'[r] = cache[k]
          /\ pc[r] = "idle" /\ req'[r] = ReadOf(k)
      BY <1>3 DEF ReadHit, Answer, Goto, dbVars, Steps, HInv, TypeOK
    <2>2. cache[k] \in Promised!Bodies(ReadOf(k), past)
      <3>1. CASE k = ListKey
        BY <1>2, <2>1, <3>1, BodiesAre DEF Steps, HInv, Genuine
      <3>2. CASE k \in Ids
        BY <1>2, <2>1, <3>2, BodiesAre DEF Steps, HInv, Genuine, ListKey, Ids
      <3> QED
        BY <3>1, <3>2 DEF Keys
    <2>3. Promised!Reply(r, "ok", cache[k])
      BY <1>2, <2>1, ReplyStep DEF Steps, HInv
    <2>4. Phases[r] = "idle"
      BY <2>1, PhaseAtIs DEF Phases
    <2> QED
      BY <1>2, <2>1, <2>2, <2>3, <2>4 DEF Promised!Serve, Phases
  <1>4. CASE ReadMiss(r, k) \/ ReadCacheDown(r, k)
    <2>1. /\ pc[r] = "idle" /\ posts' = posts /\ req' = [req EXCEPT ![r] = ReadOf(k)]
          /\ pc'[r] \in OpenPlaces
      BY <1>4 DEF ReadMiss, ReadCacheDown, Goto, dbVars, Steps, HInv, TypeOK, OpenPlaces,
           Places
    <2> QED
      BY <1>2, <2>1, AskStep
  <1> QED
    BY <1>1, <1>3, <1>4

LEMMA WriteSim ==
  ASSUME NEW r \in Reqs, Steps(r), Write(r)
  PROVE  Promised!Ask(r)
  <1>1. \E op \in {"create", "update", "delete"}, i \in Keys, fs \in SUBSET Columns :
          StartWrite(r, op, i, fs) /\ (Goto(r, "commit") \/ Goto(r, "load"))
    BY DEF Write, StartCreate, StartUpdate, StartDelete, Keys
  <1>2. PICK op \in {"create", "update", "delete"}, i \in Keys, fs \in SUBSET Columns :
          StartWrite(r, op, i, fs) /\ (Goto(r, "commit") \/ Goto(r, "load"))
    BY <1>1
  <1>3. pc[r] = "idle" /\ posts' = posts /\ pc'[r] \in OpenPlaces
    BY <1>2 DEF StartWrite, Goto, dbVars, Steps, HInv, TypeOK, OpenPlaces, Places
  <1>4. [op |-> op, id |-> i, fields |-> fs, stamp |-> writes + 1] \in Request
    BY <1>2, IdsAssumption DEF StartWrite, Steps, HInv, TypeOK, Request, Stamps
  <1> QED
    BY <1>2, <1>3, <1>4, AskStep DEF StartWrite

\* The steps of a read from the database.
LEMMA QuerySim ==
  ASSUME NEW r \in Reqs, Steps(r), QueryPost(r) \/ QueryRows(r) \/ CountRows(r)
  PROVE  \/ Promised!NotFound(r) \/ Promised!Succeed(r)
         \/ UNCHANGED Promised!vars
  <1>0. TypeOK /\ HistoryOK /\ Genuine
    BY DEF Steps, HInv
  <1>1. pc[r] \in OpenPlaces /\ UNCHANGED <<posts, req>> /\ posts \in since[r]
    BY <1>0 DEF QueryPost, QueryRows, CountRows, dbVars, OpenPlaces, Places, HistoryOK
  <1>2. CASE QueryPost(r)
    <2>1. /\ req[r].op = "get" /\ val'[r] = posts[req[r].id]
      BY <1>0, <1>2 DEF QueryPost, Key, TypeOK
    <2>2. CASE posts[req[r].id] = NoRow
      <3>1. pc'[r] = "done" /\ status'[r] = "not_found"
        BY <1>0, <1>2, <2>2 DEF QueryPost, Key, Answer, Goto, TypeOK
      <3> QED
        BY <1>1, <2>1, <2>2, <3>1, NotFoundStep
    <2>3. CASE posts[req[r].id] # NoRow /\ pc[r] = "query"
      <3>1. pc'[r] \in OpenPlaces
        BY <1>0, <1>2, <2>3 DEF QueryPost, Key, Goto, TypeOK, OpenPlaces, Places
      <3> QED
        BY <1>1, <3>1, WaitStep
    <2>4. CASE posts[req[r].id] # NoRow /\ pc[r] # "query"
      <3>1. pc'[r] = "done" /\ status'[r] = "ok"
        BY <1>0, <1>2, <2>4 DEF QueryPost, Key, Answer, Goto, TypeOK
      <3>2. val'[r] \in Promised!Bodies(req[r], since[r])
        BY <1>1, <2>1, <2>4, CurrentVersion, BodiesAre
      <3> QED
        BY <1>1, <2>1, <3>1, <3>2, SucceedStep
    <2> QED
      BY <2>2, <2>3, <2>4
  <1>3. CASE QueryRows(r)
    <2>1. pc'[r] \in OpenPlaces
      BY <1>0, <1>3 DEF QueryRows, Goto, TypeOK, OpenPlaces, Places
    <2> QED
      BY <1>1, <2>1, WaitStep
  <1>4. CASE CountRows(r)
    <2>1. /\ req[r].op = "list" /\ val'[r] = [rows |-> val[r].rows, total |-> Total]
          /\ val[r].rows \in since[r]
      BY <1>0, <1>4 DEF CountRows, TypeOK, Shape, Genuine
    <2>2. CASE pc[r] = "count"
      <3>1. pc'[r] \in OpenPlaces
        BY <1>0, <1>4, <2>2 DEF CountRows, Goto, TypeOK, OpenPlaces, Places
      <3> QED
        BY <1>1, <3>1, WaitStep
    <2>3. CASE pc[r] # "count"
      <3>1. pc'[r] = "done" /\ status'[r] = "ok"
        BY <1>0, <1>4, <2>3 DEF CountRows, Answer, Goto, TypeOK
      <3>2. val'[r] \in Promised!Bodies(req[r], since[r])
        BY <1>1, <2>1, CountedPage, BodiesAre
      <3> QED
        BY <1>1, <2>1, <3>1, <3>2, SucceedStep
    <2> QED
      BY <2>2, <2>3
  <1> QED
    BY <1>2, <1>3, <1>4

LEMMA StoreSim ==
  ASSUME NEW r \in Reqs, Steps(r), Store(r) \/ StoreFails(r)
  PROVE  Promised!Succeed(r) \/ UNCHANGED Promised!vars
  <1>0. TypeOK /\ HistoryOK /\ Genuine
    BY DEF Steps, HInv
  <1>1. /\ pc[r] \in OpenPlaces /\ pc[r] = "store" /\ UNCHANGED <<posts, req, val>>
        /\ req[r].op \in {"list", "get"}
    BY <1>0 DEF Store, StoreFails, dbVars, OpenPlaces, Places, TypeOK, Shape
  <1>2. CASE Store(r)
    <2>1. pc'[r] = "done" /\ status'[r] = "ok"
      BY <1>0, <1>2 DEF Store, Answer, Goto, TypeOK
    <2>2. val[r] \in Promised!Bodies(req[r], since[r])
      BY <1>0, <1>1 DEF Genuine
    <2> QED
      BY <1>1, <2>1, <2>2, SucceedStep
  <1>3. CASE StoreFails(r)
    <2>1. pc'[r] \in OpenPlaces
      BY <1>0, <1>3 DEF StoreFails, AfterFailedStore, Goto, TypeOK, OpenPlaces, Places
    <2> QED
      BY <1>1, <2>1, WaitStep
  <1> QED
    BY <1>2, <1>3

\* The steps of a write up to its commit.
LEMMA LoadSim ==
  ASSUME NEW r \in Reqs, Steps(r), Load(r)
  PROVE  Promised!NotFound(r) \/ UNCHANGED Promised!vars
  <1>0. TypeOK
    BY DEF Steps, HInv
  <1>1. /\ pc[r] \in OpenPlaces /\ UNCHANGED <<posts, req>>
        /\ req[r].op \in {"update", "delete"}
    BY <1>0 DEF Load, dbVars, OpenPlaces, Places, TypeOK, Shape
  <1>2. CASE posts[req[r].id] = NoRow
    <2>1. pc'[r] = "done" /\ status'[r] = "not_found"
      BY <1>0, <1>2 DEF Load, Answer, Goto, TypeOK
    <2> QED
      BY <1>1, <1>2, <2>1, NotFoundStep
  <1>3. CASE posts[req[r].id] # NoRow
    <2>1. pc'[r] \in OpenPlaces
      BY <1>0, <1>3 DEF Load, Goto, TypeOK, OpenPlaces, Places
    <2> QED
      BY <1>1, <2>1, WaitStep
  <1> QED
    BY <1>2, <1>3

LEMMA InsertSim ==
  ASSUME NEW r \in Reqs, Steps(r), Insert(r)
  PROVE  Promised!Commit(r)
  <1>0. TypeOK
    BY DEF Steps, HInv
  <1>1. /\ pc[r] = "commit" /\ pc'[r] = "evict" /\ req' = req /\ req[r].op = "create"
    BY <1>0 DEF Insert, Goto, TypeOK
  <1>2. PICK i \in Ids : /\ IsNextId(i)
                          /\ posts' = [posts EXCEPT ![i] = Promised!Fresh(req[r].stamp)]
    BY DEF Insert, Promised!Fresh
  <1>3. posts[i] = NoRow
    BY <1>0, <1>2 DEF IsNextId, FreeIds, Used, TypeOK, Ids
  <1>4. posts' \in Promised!Effects(req[r])
    <2>1. i \in {j \in Ids : posts[j] = NoRow}
      BY <1>3
    <2>2. Promised!Effects(req[r]) = {[posts EXCEPT ![n] = Promised!Fresh(req[r].stamp)] :
                                        n \in {j \in Ids : posts[j] = NoRow}}
      BY <1>1, EffectsAre
    <2> QED
      BY <1>2, <2>1, <2>2, Zenon
  <1> QED
    BY <1>1, <1>4, EffectStep

\* The UPDATE statement merges.
LEMMA PatchedIsMerged ==
  ASSUME NEW r, NEW row
  PROVE  Patched(r, row) = Promised!Merged(req[r], row)
  BY Zenon DEF Patched, Promised!Merged

LEMMA UpdateSim ==
  ASSUME NEW r \in Reqs, Steps(r), Update(r)
  PROVE  Promised!Commit(r) \/ Promised!Fail(r)
  <1>0. TypeOK
    BY DEF Steps, HInv
  <1>1. /\ pc[r] = "commit" /\ req' = req /\ req[r].op = "update" /\ req[r].id \in Ids
    BY <1>0 DEF Update, TypeOK, Shape
  <1>2. CASE req[r].fields = {}
    <2>1. pc'[r] = "refresh" /\ posts' = posts
      BY <1>0, <1>2 DEF Update, Goto, TypeOK
    <2>2. posts' \in Promised!Effects(req[r])
      BY <1>1, <1>2, <2>1, EffectsAre
    <2> QED
      BY <1>1, <2>1, <2>2, EffectStep
  <1>3. CASE req[r].fields # {} /\ posts[req[r].id] # NoRow
    <2>1. pc'[r] = "refresh"
          /\ posts' = [posts EXCEPT ![req[r].id] = Patched(r, posts[req[r].id])]
      BY <1>0, <1>3 DEF Update, Goto, TypeOK
    <2>2. Promised!Effects(req[r]) =
            {[posts EXCEPT ![req[r].id] = Promised!Merged(req[r], posts[req[r].id])]}
      BY <1>1, <1>3, EffectsAre
    <2>3. posts' \in Promised!Effects(req[r])
      BY <2>1, <2>2, PatchedIsMerged
    <2> QED
      BY <1>1, <2>1, <2>3, EffectStep
  <1>4. CASE req[r].fields # {} /\ posts[req[r].id] = NoRow
    <2>1. pc'[r] = "done" /\ status'[r] = "error" /\ posts' = posts
      BY <1>0, <1>4 DEF Update, Answer, Goto, TypeOK
    <2> QED
      BY <1>1, <2>1, FailStep DEF OpenPlaces, Places
  <1> QED
    BY <1>2, <1>3, <1>4

LEMMA DeleteSim ==
  ASSUME NEW r \in Reqs, Steps(r), Delete(r)
  PROVE  Promised!Commit(r)
  <1>1. pc[r] = "commit" /\ pc'[r] = "evict" /\ req' = req /\ req[r].op = "delete"
    BY DEF Delete, Goto, Steps, HInv, TypeOK
  <1>2. posts' = [posts EXCEPT ![req[r].id] = NoRow]
    BY DEF Delete
  <1>3. posts' \in Promised!Effects(req[r])
    BY <1>1, <1>2, EffectsAre
  <1> QED
    BY <1>1, <1>3, EffectStep

\* The steps of a write after its commit.
LEMMA AfterCommitSim ==
  ASSUME NEW r \in Reqs, Steps(r), Refresh(r) \/ Evict(r) \/ EvictFails(r)
  PROVE  Promised!Succeed(r) \/ Promised!Fail(r) \/ UNCHANGED Promised!vars
  <1>0. TypeOK /\ HistoryOK /\ Genuine
    BY DEF Steps, HInv
  <1>1. UNCHANGED <<posts, req>>
    BY DEF Refresh, Evict, EvictFails, dbVars
  <1>2. CASE Refresh(r)
    <2>1. pc[r] = "refresh"
      BY <1>2 DEF Refresh
    <2>2. \/ pc'[r] = "evict"
          \/ pc'[r] = "done" /\ status'[r] = "error"
      BY <1>0, <1>2 DEF Refresh, Answer, Goto, TypeOK
    <2> QED
      BY <1>1, <2>1, <2>2, WaitStep, FailStep
  <1>3. CASE Evict(r) \/ EvictFails(r)
    <2>1. pc[r] = "evict" /\ pc'[r] = "done" /\ status'[r] = "ok" /\ val' = val
      BY <1>0, <1>3 DEF Evict, EvictFails, Answer, Goto, TypeOK
    <2>2. CASE req[r].op = "delete"
      <3>1. NoRow \in Promised!Bodies(req[r], since[r])
        BY <2>2, BodiesAre
      <3>2. req'[r].op = "delete"
        BY <1>1, <2>2
      <3>3. NoRow = IF req'[r].op # "delete" THEN val'[r] ELSE NoRow
        BY <3>2
      <3> QED
        BY <1>1, <2>1, <3>1, <3>3, SucceedStep
    <2>3. CASE req[r].op # "delete"
      <3>1. val[r] \in Promised!Bodies(req[r], since[r])
        BY <1>0, <2>1, <2>3 DEF Genuine
      <3> QED
        BY <1>1, <2>1, <2>3, <3>1, SucceedStep
    <2> QED
      BY <2>2, <2>3
  <1> QED
    BY <1>2, <1>3

LEMMA DbFailsSim ==
  ASSUME NEW r \in Reqs, Steps(r), DbFails(r)
  PROVE  Promised!Fail(r)
  <1>1. /\ pc[r] \in OpenPlaces \cup {"refresh"} /\ UNCHANGED <<posts, req>>
        /\ pc'[r] = "done" /\ status'[r] = "error"
    BY DEF DbFails, Answer, Goto, dbVars, Steps, HInv, TypeOK, OpenPlaces, Places
  <1> QED
    BY <1>1, FailStep

LEMMA DeliverSim ==
  ASSUME NEW r \in Reqs, Steps(r), Deliver(r)
  PROVE  Promised!Deliver(r)
  <1>1. /\ pc[r] = "done" /\ pc'[r] = "idle" /\ req' = [req EXCEPT ![r] = NoRequest]
        /\ posts' = posts /\ status'[r] = "none"
    BY DEF Deliver, Goto, dbVars, Steps, HInv, TypeOK
  <1>2. /\ Phases' = [Phases EXCEPT ![r] = "idle"] /\ Phases[r] = "answered"
        /\ Responses' = [Responses EXCEPT ![r] = Response(r)']
    BY <1>1, PhasesStep, PhaseAtIs DEF Steps, HInv, Phases
  <1>3. Response(r)' = Promised!NoAnswer
    BY <1>1 DEF Response, Promised!NoAnswer
  <1> QED
    BY <1>1, <1>2, <1>3 DEF Promised!Deliver, Phases, Responses

\* A request that fares on: each of its steps is one of its client's, or none.
LEMMA RequestSim ==
  ASSUME NEW r \in Reqs, Steps(r), Read(r) \/ Write(r) \/ Progress(r) \/ Fault(r)
  PROVE  \/ Promised!Ask(r) \/ Promised!Commit(r) \/ Promised!Serve(r)
         \/ Promised!Succeed(r) \/ Promised!NotFound(r) \/ Promised!Fail(r)
         \/ Promised!Deliver(r) \/ UNCHANGED Promised!vars
  <1>1. CASE Read(r) \/ Write(r)
    BY <1>1, ReadSim, WriteSim
  <1>2. CASE Progress(r)
    BY <1>2, QuerySim, StoreSim, LoadSim, InsertSim, UpdateSim, DeleteSim, AfterCommitSim,
       DeliverSim DEF Progress
  <1>3. CASE Fault(r)
    BY <1>3, StoreSim, AfterCommitSim, DbFailsSim DEF Fault
  <1> QED
    BY <1>1, <1>2, <1>3

LEMMA ExpireSim ==
  ASSUME HInv, HInv', Record, NEW k \in Keys, Expire(k)
  PROVE  UNCHANGED Promised!vars
  <1>1. UNCHANGED <<posts, pc, req, val, status>>
    BY DEF Expire, dbVars
  <1>2. Phases' = Phases /\ Responses' = Responses
    BY <1>1 DEF Phases, Responses, Response
  <1>3. \A q \in Reqs : pc[q] \in {"idle", "done"} <=> pc'[q] \in {"idle", "done"}
    BY <1>1
  <1>4. \A q \in Reqs : pc[q] = "idle" => pc'[q] = "idle"
    BY <1>1
  <1>5. HistoryOK /\ HistoryOK'
    BY DEF HInv
  <1> QED
    BY <1>1, <1>2, <1>3, <1>4, <1>5, HiddenStep

LEMMA CrashSim ==
  ASSUME Crash
  PROVE  Promised!Restart
  <1>1. \A r \in Reqs : pc'[r] = "idle" /\ status'[r] = "none"
    BY DEF Crash
  <1>2. \A r \in Reqs : PhaseAt(pc'[r]) = "idle" /\ Response(r)' = Promised!NoAnswer
    BY <1>1, PhaseAtIs DEF Response, Promised!NoAnswer
  <1>3. posts' = posts /\ req' = [r \in Reqs |-> NoRequest]
    BY DEF Crash, dbVars
  <1> QED
    BY <1>2, <1>3 DEF Promised!Restart

LEMMA StepSim == HInv /\ HInv' /\ [HNext]_hvars => [Promised!Next]_(Promised!vars)
  <1> SUFFICES ASSUME HInv, HInv', [HNext]_hvars
               PROVE  Promised!Next \/ UNCHANGED Promised!vars
    OBVIOUS
  <1>1. CASE UNCHANGED hvars
    BY <1>1 DEF vars, Promised!vars, Response
  <1>2. CASE HNext
    <2>1. Next /\ Record
      BY <1>2, HNextParts
    <2>2. Promised!Observe
      BY <2>1, ObserveStep DEF HInv
    <2>3. ASSUME NEW r \in Reqs, Read(r) \/ Write(r) \/ Progress(r) \/ Fault(r)
          PROVE  Promised!Next \/ UNCHANGED Promised!vars
      <3>1. Steps(r)
        BY <2>1, <2>3, OthersKept DEF Steps, HInv
      <3> QED
        BY <2>2, <2>3, <3>1, RequestSim DEF Promised!Next
    <2>4. CASE \E k \in Keys : Expire(k)
      BY <2>1, <2>4, ExpireSim
    <2>5. CASE Crash
      BY <2>2, <2>5, CrashSim DEF Promised!Next
    <2> QED
      BY <2>1, <2>3, <2>4, <2>5 DEF Next
  <1> QED
    BY <1>1, <1>2

LEMMA InitSim == HInit => Promised!Init
  <1> SUFFICES ASSUME HInit PROVE Promised!Init
    OBVIOUS
  <1>1. posts \in [Ids -> Row \cup {NoRow}]
    BY InitTypeOK DEF HInit, TypeOK
  <1>2. \A r \in Reqs : PhaseAt(pc[r]) = "idle" /\ Response(r) = Promised!NoAnswer
    BY PhaseAtIs DEF HInit, Init, Response, Promised!NoAnswer
  <1> QED
    BY <1>1, <1>2 DEF Promised!Init, HInit, Init

\* With the histories the service takes the steps of PostService and no others.
LEMMA HistoryIsConservative == HSpec => Spec
  <1>1. HInit => Init
    BY DEF HInit
  <1>2. [HNext]_hvars => [Next]_vars
    BY DEF HNext
  <1> QED
    BY <1>1, <1>2, PTL DEF HSpec, Spec

\* The service, with its cache, its awaits and its faults, implements the store.
THEOREM ServiceImplementsStore == HSpec => Implements
  <1> QED
    BY InitHInv, HInvInductive, InitSim, StepSim, PTL DEF HSpec, Implements, Promised!Spec
=============================================================================
