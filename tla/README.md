# Verification of the FastAPI board

TLA+ models of the board in `src/app`: a FastAPI application with posts,
comments and accounts in a SQL database (SQLite in development, PostgreSQL in
production) and a Redis cache in front of the post reads. TLC checks the models
on small instances, TLAPS proves every safety property of the passing runs, and
the refinement of the abstract post store, for every instance.

Run from this directory:

    tlc -workers 2 -config PostFaults.cfg MCPostHistory
    tlapm PostServiceProofs.tla

## 1. The system

One process, one asyncio event loop (uvicorn with one worker). Every handler is
a coroutine: code between two `await`s is not interrupted, and at every `await`
any other request may run. The Redis client is the synchronous one, so a Redis
call blocks the loop and is atomic with the code around it. All hard behaviour
comes from what happens at the `await`s, from the two stores (SQL and Redis)
that no transaction spans, and from failures between a step on one and a step on
the other.

| component | source | state | operations | hard behaviour | correct when |
|---|---|---|---|---|---|
| post service | `services/post_service.py`, `repositories/post_repository.py`, `domain/post.py`, `routers/post_router.py` | table `posts` | list, get, create, patch, delete | read then await then write; two statements for one page; ids SQLite reuses; pages over an order with ties that shifts | PATCHes merge, a deleted post stays deleted, a writer meets the post it loaded or, where that was deleted, none or (SQLite only) the next of its id, an answer is a state the table had, a walk through the pages misses nothing without a reason |
| cache | `cache.py` | Redis keys `posts:{skip}:{limit}`, `post:{id}` with a TTL | `cacheable` (GET, miss, SETEX), `cache_evict`, `evict_post_cache` | fill races with eviction, swallowed RedisError, crash before eviction | a stale entry has a known reason and ends |
| view counting | `tasks.py`, `routers/post_router.py:39-54` | `posts.view_count` | `increment_view_count` after the answer | read, await, write of an absolute value | no view counted twice, lost only to an overlap or failure, none taken back by a PATCH or given to another post |
| sessions and pool | `database.py` | connections of the engine's pool | session of a request, session of a task | a task waits for a second connection while the request holds one | nothing leaks, nobody waits for ever |
| comments | `services/comment_service.py`, `repositories/comment_repository.py`, `domain/comment.py`, `routers/comment_router.py` | table `comments` | list, create, patch, delete; cascade of `delete_post` | the post is checked, an await, then the comment is written | no comment without its post |
| accounts | `routers/auth_router.py`, `auth/dependencies.py`, `domain/user.py` | table `users` | register, login, current user | check of the name, an await, then the insert; tokens outlive what they were issued for | one account a name, a registration that committed can log in, no token outlives its time or account |
| tokens, passwords | `auth/jwt.py`, `auth/password.py` | none | encode, decode, hash, verify | none | |
| schemas | `schemas/*` | none | validation | none | |
| wiring | `main.py`, `config.py`, `middleware.py` | none | routers, settings, logging | none | |
| migrations | `migrations/env.py`, `migrations/versions/*` | schema, `alembic_version` | upgrade, downgrade over three revisions | one transaction on PostgreSQL, none for DDL on SQLite; a rebuild of `posts`; kills in between | the version tells the schema, no post is lost |

How they interact: a router opens a session (`get_db`), resolves the current
user for post writes, and calls a service. The post service reaches the table
through its repository and Redis through the decorators. A GET of a post adds
the background task, which runs in the same coroutine after the answer with a
session of its own; the pinned FastAPI closes the request session after that.
Deleting a post deletes its comments: the ORM deletes those it has loaded, the
database (if it enforces the foreign key) the rest.

Alembic runs on its own, before the server starts (`main.py:26-28`) or beside it.

`PROJECT.json` lists the hazards with their lines and the property that would
catch each.

## 2. The modules

| module | models | checked by | proved by |
|---|---|---|---|
| `PostService` | post service, repository, cache | `MCPostService` with two configurations | `PostServiceProofs` |
| `PostStore` | abstract: what the post service promises its clients | | |
| `PostHistory` | `PostService` with the history that `PostStore` speaks of, and the mapping | `MCPostHistory` with one | `PostHistoryProofs` |
| `ViewCount` | GET of one post, its background task, the pool | `MCViewCount` with two | `ViewCountProofs` |
| `Board` | `PostService` and the background tasks on one table | `MCBoard` with one | `BoardProofs` |
| `Pages` | the pages of the list, their keys, a client that walks through them | `MCPages` with one | `PagesProofs` |
| `Comments` | comment service, cascade of a post | `MCComments` with two | `CommentsProofs` |
| `Accounts` | register, login, current user | `MCAccounts` with one | `AccountsProofs` |
| `Migrations` | the revisions as Alembic runs them | `MCMigrations` with two | `MigrationsProofs` |

A step of every module is the code from one `await` to the next. The flush and
the commit of a writing request are one step: from its first DML to its COMMIT
it holds the write lock of the row (PostgreSQL) or of the file (SQLite), nobody
sees its changes, and nobody else can commit to what it wrote.

### PostService

`posts` is the table, `cache` is Redis, `pc[r]` the await at which the request
in slot `r` stands, `req[r]` what it asks, `val[r]` what it has read. Values are
stamps: a write request takes a fresh number, a row remembers the stamp that
created it (`born`) and the stamps that last wrote title and content. That is
all the properties tell apart, and it makes every two different writes
distinguishable. All pages `posts:{skip}:{limit}` are one key, `ListKey`, whose
page is the whole table: `KEYS posts:*` deletes them together, and any change
of a row can change any page.

| actions | code |
|---|---|
| `ReadHit`, `ReadMiss`, `ReadCacheDown` | `cacheable.async_wrapper` up to the await, for both reads |
| `QueryPost` | `get_post`: `find_by_id`, 404 or on |
| `QueryRows`, `CountRows` | `get_posts`: `find_all`, then `count` |
| `Store`, `StoreFails` | SETEX; on `RedisError` the function is called again without the cache |
| `StartCreate`, `StartUpdate`, `StartDelete` | the routers |
| `Load` | `find_by_id` of `update_post` and `delete_post` |
| `Insert`, `Update`, `Delete` | flush and commit; SQLAlchemy writes the changed columns only, raises `StaleDataError` for an UPDATE of no row and only warns for such a DELETE |
| `Refresh` | `db.refresh(post)`, which raises when the row is gone |
| `Evict`, `EvictFails` | `cache_evict("posts:*")` and `evict_post_cache`, with a `RedisError` before, between and after the deletions |
| `DbFails`, `Crash`, `Expire` | a statement raises, the process dies, a TTL ends |

`raced`, `late`, `lost` and `deleted` are history: fills in flight that a commit
has overtaken, keys last stored by such a fill, keys whose eviction was due and
was not done, the posts (id and stamp of birth) that DELETEs took. No guard reads
them.

`WriterMeetsItsPost` is about the await between the load and the write of
`update_post` and `delete_post`. The write goes by id. On SQLite, the default
database, an id that a delete freed is handed out again, so a PATCH or a DELETE
that was overtaken by a DELETE and a POST hits the new post: the model explores
this (`post_reuse`) and the property says that it is the only way to hit another
post, and that on a sequence there is none. It also says that no write brings a
deleted post back, which a write-back of the loaded object would do.

### PostStore and PostHistory

`PostStore` has no cache, no session and no await: a request is `open`,
`committed` or `answered`, a write changes the table in one step (`Commit`), and
an answer shows what the table has been. It knows two kinds of answer. One given
at once (`Serve`, a hit) may show any table there has been, since an entry lives
on after a commit. One that takes its time (`Succeed`) shows a table since the
request arrived, even when Redis fails in between and the function runs twice.
Neither ever shows rows of two tables together; only `total` may be of another
moment than the rows (`Pages(T)`), because `get_posts` uses two statements
(`post_service.py:53-54`). A 404 tells of the table as it is.

`PostHistory` adds `past` and `since` to `PostService` and maps its state:
`phase` from the await (`PhaseAt`: `refresh` and `evict` are after the commit),
`answer` from `status` and `val`, the table, `past` and `since` as they are.
`Implements` is `PostStore`'s `Spec` under this mapping. An eviction, an expiry,
a load or a retry is a stutter; a commit is `Commit`, a crash `Restart`.

### ViewCount

One post and its `view_count`, the connections of the pool (`router`: held by
request sessions, `task`: by task sessions, `free`: in the pool). A GET is a hit
(its session draws no connection) or a miss (`Connect`, `Query`), then the task
(`TaskConnect`, `TaskRead`, `TaskCommit`). `Timeout` is the pool's: 5 + 10
connections and 30 s with the engine's defaults (`AsyncAdaptedQueuePool`). `End`
closes both sessions. `answered` (GETs answered with the post) and `disturbed`
(two tasks overlapped, or one did not finish) are history.

### Board

The router of a GET answers, and the same coroutine then runs
`increment_view_count`: a slot of `PostService` goes on with its `task` before it
takes another request. `views` is the column, `copy` what the entries of Redis
say of it, `held` what a request has read; every action is one of `PostService`
with its effect on these, or one of a task. A task finds the row by id, takes
its count, and commits the sum without a word to the cache. `earned` is history:
the GETs that were answered with the very post an id has now. The pool is
`ViewCount`'s affair and is left out here.

### Pages

`Pages` is about what `PostService` leaves out: offset and limit, the order and
the keys of several pages. A table maps posts to the second of their
`created_at`. `Orders` are the sequences that `ORDER BY created_at DESC` allows;
posts of one second come in any order, and every query picks one. A client asks
for page after page until one is not full, then starts over. A page keeps the
table it was cut from (`asOf`), whether it was stored after a commit had
overtaken its query (`late`), and whether an eviction that was due for it was
lost (`spared`). A writer commits and evicts in two steps, and the second may
never come: `EvictFails` is the swallowed `RedisError` of `cache.py:201` and
`:241`, `Crash` the end of the process between the two. `CacheDown` and
`StoreFails` are the `RedisError`s of a read, which goes on around the cache
(`query_direct`), `QueryFails` a 500, after which the client asks again.

`created_at` is `CURRENT_TIMESTAMP`. On PostgreSQL that is the second in which
the transaction began, so a post may be committed after another one and sort
below it: `Create` takes any second.

A walk is in `quiet` when no writer was at work beside it, none between its commit
and its eviction included. `QuietWalkIsExact` exempts the walks that met a `late`
or a `spared` page. Both exemptions are needed: TLC refutes the property without
either.

### Comments

`posts` maps an id to the stamp of the post that has it, a comment has the id of
its post and, as history, the stamp of the post it was written for (`of`). A
request finds the post, then the comments or the comment, then commits.
`delete_post` loads `Post.comments`, deletes those by id, and lets the database
cascade. `Database` selects what is enforced: PostgreSQL cascades and refuses an
INSERT without a post, and never reuses an id; SQLite does neither, because
nothing issues `PRAGMA foreign_keys` (`database.py:59-62`), and a rowid is the
largest plus one.

### Accounts

`users` is the table, `tokens` what the clients hold, `now` the clock. `register`
is a lookup, an INSERT with its COMMIT and a refresh; `login` one lookup, with
the check of the password in the same step; a protected request decodes its
token before its first await, looks its user up and then acts. The unique index
on `username` refuses the second INSERT of a name. No code of the program
deactivates an account: `Deactivate` is an operator's, and gives the checks of
`is_active` something to do. `created` (passwords of the registrations answered
201, or 500 because the refresh failed after the commit) and `barred` (requests that came with a token that had run out or was of a
deactivated account) are history.

### Migrations

A command runs the revisions between the version stamped and its `target` one
after the other. `script` holds the statements that are left of the one it is at:
the DDL, the stamp, and a commit where Alembic commits; when it has run out, the
next revision's takes its place. `disk` is what is committed, `mem` what the connection of the command sees, `open` whether it is
in a transaction. `env.py` wraps the whole run in `begin_transaction`, which is a
transaction on PostgreSQL; on SQLite Alembic's `transactional_ddl` is off, a
commit follows each revision, and the sqlite3 driver opens a transaction at the
first INSERT, UPDATE or DELETE only, so a DDL before that is on the disk at once.
A batch that adds a column is an ALTER TABLE on both; one that drops a column
rebuilds the table on SQLite (create, copy, drop, rename). `Refused` is a
statement that does not fit the schema, `Crash` a killed command, `CreatePost` the
application at work. It writes when the command has no transaction open: the
locks that allow more on PostgreSQL are left out.

## 3. The runs

| run | instance | properties | shows |
|---|---|---|---|
| `post_faults` | 2 requests, 1 id, 2 writes, all faults, ids reused | `TypeOK`, `StaleExplained`, `FillsCurrent`, `Genuine`, `PatchTouchesOnlyItsFields`, `Implements` | the three reasons for a stale entry are all there are; the service implements `PostStore` |
| `post_reuse` | 2 requests, 2 ids, 3 writes, no fault, ids reused | `StaleExplained`, `WriterMeetsItsPost` | posts do not disturb each other; a writer meets a stranger only where its own post is gone |
| `post_live` | 2 requests, 1 id, 1 write, all faults, fair | `AlwaysAnswered`, `EventualCoherence` | no request hangs, the cache recovers |
| `views` | 3 GETs, pool of 2, 4 views, database fails, fair | `TypeOK`, `PoolBalanced`, `ViewsBounded`, `ViewsExact`, `EveryViewEnds` | the accounts of views and connections balance, the hold-and-wait ends |
| `board` | 2 slots, 1 id, 1 write, 2 GETs, all faults, fair | `BTypeOK`, `ViewsEarned`, `OnlyTasksCount`, `ViewsCatchUp` | no view is invented, a PATCH takes none back, Redis catches up with the counts |
| `pages` | 1 client, 2 posts of 2 seconds, 1 a page, 4 writes, all faults | `TypeOK`, `MissedExplained`, `TwiceExplained`, `QuietWalkIsExact` | why a walk misses a post or sees one twice; without a writer beside it each once, but for late and spared pages |
| `comments_pg` | 2 requests, 2 posts, 2 comments, 4 writes, PostgreSQL | `TypeOK`, `CommentsBelong`, `ListsItsPost`, `OnlyThroughItsPost` | create and delete in any order leave no orphan |
| `accounts` | 2 requests, 2 names, 2 passwords, tokens of 1 tick on a clock of 2, database fails | `TypeOK`, `OneUserPerName`, `CreatedCanLogin`, `BarredNeverActs` | races of registrations, a failed refresh, old tokens |
| `migrations` | both engines, 3 posts, any commands and kills | `TypeOK`, `SchemaMatchesVersion`, `StampedServes`, `CommentsHavePosts`, `FailsOnlyOnTorn`, `PostsSurvive` | what a version promises, what a killed command leaves |

Three runs end in a counterexample: each states what a test or comment of the
repository says, and shows the schedule in which the code does otherwise.

| run | statement | what happens |
|---|---|---|
| `views_lost` | n GETs count n views (`tests/test_api.py:136`, `tasks.py:41`) | two tasks read the same count |
| `comments_sqlite` | the database deletes a post's comments (`domain/comment.py:36`) | on SQLite a comment is inserted after its post is deleted |
| `migrations_users` | 982c3e9c03c6 creates `users` (its line 1, `env.py:39`) | its `upgrade` is `pass`, and nothing else creates the table |

Four more divergences are part of what the passing runs explore, where their
properties name them as the reason instead of calling them wrong: a deleted post
that a late fill keeps in the cache (the first reason of `StaleExplained`;
`tests/test_api.py:257` has it gone), a page whose `total` is of another moment
(`PostStore`'s `Pages(T)`; `tests/test_services.py:43-44`), a request session that
still holds its connection while the task runs (`router` in `ViewCount`, closed
by `End`; `tasks.py:53` has it closed before), and a registration that loses the
race and is answered 500 (`OnViolation` in `Accounts`; `tests/test_auth.py:29` has
409).

Bounds, and why they are enough. Two requests in flight show every race of this
code, which is always between one request at an await and one that commits; a
slot is used again as soon as it is answered, so longer histories are explored
up to `MaxWrites`. One id with reuse shows the delete-and-recreate cases under
faults, two ids and three writes (one that has loaded, a DELETE, a POST) an id that
changes owners under a writer, and the interference between posts. `PoolSize` 2 against three
GETs is the smallest pool where requests hold every connection and another one
waits; 6 (two for each GET) removes the pool from the picture in `views_lost`.
Two GETs in `board` are two tasks that overlap each other and the write. In
`pages` one post a page puts a boundary between any two posts, two posts of two
seconds stand in either order or share theirs, four writes let a post come and go
twice, so a page can outlive an eviction that was lost and meet another that was
not, and the pages a client stored late in one walk are there in the next, as
those of another reader would be. The theorems of section 4 have no such bounds. `Migrations` has no bound but
the posts: versions, statements and tables are the code's.
`MaxViews`, `MaxWrites` and `MaxId` only stop new requests from starting, never
one in flight: a create starts only when an id is left for it
(`StartCreate`), except that in `Comments` an INSERT waits for an id; that
module has no liveness property. The clock of `Accounts` goes one
tick past the life of a token that is issued first. Symmetry over the requests is used in the runs
without liveness. Deadlock is checked in every run. `Init` starts from a cold
cache and a table of the first n posts.

Fairness. `WF(Progress(r))`: the event loop resumes every coroutine whose await
is over, and the drivers answer or raise. `WF(Expire(k))`: Redis expires what
was stored with SETEX, which every store of the code is. In `ViewCount` the pool
raises after its timeout. In `Board` the event loop runs the tasks on as well. Nothing forces a request to arrive, a fault to happen
or to stay away. `AlwaysAnswered` and `EventualCoherence` hold because a request
that fell back from the cache never returns to it, so the retry happens once.

Every property of a passing run has a mutant in `PROJECT.json`: a definition of
the code changed as a plausible bug would change it, for which TLC finds that
property violated. The mutated forms stand before their originals in the modules.

## 4. The proofs

All for any number of requests, ids, writes, views and connections, from the
assumptions named in the modules: bounds are naturals, `Faults` and `Database`
are among the values listed, `NoRow`, `Absent` and `None` differ from rows, `NoToken`
from tokens, `Limit` is at least one, and the sets `Gets` and `Reqs` (of `Board`)
are finite.

- `PostServiceProofs`. `TypeCorrect`: `TypeOK` is inductive by itself, since
  `Shape` says what a request holds at each await. `StaleAlwaysExplained` and
  `FillsAlwaysCurrent` need each other: a store makes a fresh entry only if the
  fill is current, so the inductive invariant is
  `Inv == TypeOK /\ FillsCurrent /\ StaleExplained`. The argument goes by what a
  step does to table and cache: no change (`QuietStep`), a commit (`CommitStep`:
  it changes the answer for one id and the list, puts every fill of them into
  `raced`, and its request will evict both), a store (`PutStep`), an eviction or
  loss (`DropStep`). The one action for which this is subtle is the refresh that
  raises because a DELETE has removed the row: it drops its eviction, and the
  entry stays explained by the eviction of that DELETE, or was already gone.
  That is why `WillEvict` counts a request at its refresh only while the row is
  there, and why `Delete` and not `Refresh` has to answer for the key.
- `PatchesMerge` is an action property on top of `TypeOK`.
- `WriterOwnsItsPost` holds on either database. Its strengthening `OwnInv` adds
  `Births`: a create in flight has a stamp that no row and no deleted post was
  born with, no two of them the same one, stamps above `writes` are unused, and
  the id of a deleted post was handed out before. The first three say that an
  INSERT never makes a deleted post anew, the last that on a sequence it never
  takes an id a writer still holds.
- `ViewCountProofs`. `NeverAhead`, `LostOnlyWhenDisturbed`, `PoolNeverLeaks`
  from one `Inv`, which adds `SeenBounded`: what a task has read, plus the views
  still to be counted, is within the GETs answered, and undisturbed it is alone
  and up to date. Without it a commit of an old `seen` could not be bounded.
- `PostHistoryProofs`. `AnswersAreGenuine`: an entry of Redis was in the table
  at some time, what a request holds was in it since the request arrived; the
  inductive invariant is `HInv == TypeOK /\ HistoryOK /\ Genuine`, where `HistoryOK`
  says that the table of now is among `past` and `since` and that only a request
  at its answer has a status.
  `ServiceImplementsStore` (`HSpec => Implements`) is step simulation from that
  invariant: each action of `PostService` is shown to be a named action of
  `PostStore` or a stutter, under `Observe`. `HistoryIsConservative` says that the
  history changes nothing: `HSpec => Spec`.
- `BoardProofs`. `BoardIsPostService` (`BSpec => Spec`): the tasks take no liberty
  with the requests, so every theorem about `PostService` holds on the board.
  `BoardTypeCorrect` and `OnlyTasksChangeViews` hold on any database;
  `ViewsAreEarned` on a sequence only, where it is the one with the long argument.
  Its invariant `EInv` bounds by `earned` every count anybody knows of a post
  (`Shown`: the table's, those in Redis, those a request holds), and for each task
  at its commit what it has read plus the tasks still to come (`Bounded`): a task
  that commits an old count is paid for by the tasks that overlapped it. Counts
  are copied, and only a commit makes a new one (`ShownShrinks`). That an answer
  earns its view for the right post is `Lineage`: what a GET has or Redis keeps is
  the post the id has now, or the post is gone; and an id the sequence has not
  reached has neither counts nor tasks (`Untouched`). Both fail where an id is
  handed out again.
- `CommentsProofs`. `TypeCorrect` on any database; `CommentsOnTheirPost`,
  `ListsOfThePost` and `ChangedThroughItsPost` on PostgreSQL, from an `Inv` that
  adds `PostKnown` (the post a request has found is the one its id names, until
  it is gone) and `LoadedKnown` (the same of comments).
- `AccountsProofs`. `UniqueUser`, `WinnersOwnTheirName`, `BarredStayOut` from one
  `Inv`, which adds `Promised` (a promised account stays) and `BarredAt`: a
  barred request that waits for its user waits for a deactivated one. The last
  theorem needs the first: were there two users of a name, the lookup could find
  the other one.

- `MigrationsProofs`, for any set of posts. A script is a sequence of constants,
  so the invariant names the places a command can be at: thirteen `Position`s,
  from `AtStart` over `AtAdd`, the four statements of the rebuild and `AtStamp(v)`
  to `AtCommit`, each with the script that is left and with what the connection
  sees there. What a version promises (`Good`) comes in two strengths. `Shape` is
  the whole schema, and holds as long as SQLite was not torn; `Serves` and `Refers`
  (posts and its column where the stamp says so, no comments without posts) hold
  even then, and are what `StampPromises` and `CommentsRefer` need. On PostgreSQL
  the disk keeps its `Shape` while a command is under way, which `SchemaIsStamped`
  needs after a kill. `FailuresAreTears` goes through the positions: where nothing
  is torn each statement fits the schema of its position. `NoPostLost` is the
  action property; on SQLite the copy of the rebuild has all the rows when `posts`
  is dropped, because the driver has a transaction open since the copy and so no
  post is created beside it (`Saved` and the positions of the rebuild).
- `PagesProofs`, for any clients, limit and bounds. The invariant says that every
  page, in Redis, read by a request or shown, is cut by the query from one of the
  tables there have been, at the offset of its key or of its place in the walk
  (`CutFrom`); that a post keeps its second and a write only adds or only takes
  away (`Rigid`, `OneWay`); and that while no eviction is due what Redis holds is
  of the present table, was stored late, or was left by a lost eviction
  (`CachedFresh`), which a quiet walk inherits (`QuietFresh`). The argument is by rank: a post that shares its second
  with no other stands, in whatever order the database picks, right after the
  posts above it (`PlaceIsRank`, a bijection between the rows before it and those
  posts), so it is on page n of the table exactly if its rank falls there
  (`CutByRank`). Without a reason to miss it the tables of a walk only gain posts
  (`WalkGains`), its rank only grows, and the first page whose end its rank does
  not exceed must show it (`WalkShows`; `Least` finds that page). Without a reason
  to repeat it the rank only shrinks, and later pages are beyond it
  (`WalkShowsOnce`). `QuietIsExact` is both for a walk that has one table.

Only model-checked: the liveness properties (`AlwaysAnswered`,
`EventualCoherence`, `EveryViewEnds`, `ViewsCatchUp`), since the prover has no
ENABLED and so no fairness, and the absence of deadlock, for the same reason.
What is proved of them is the part that needs no fairness. `RequestsTire` and
`ViewsTire`: a measure of the steps left (six for a request, five for a GET and
its task) falls with every step and every fault of whatever is in flight, so it
ends if it goes on at all. `CacheSettles`: without a commit the table stays, no
fill joins `raced`, and an entry goes stale only by the SETEX of a fill that
leaves `raced` with it; it needs `FillsCurrent` of `Inv`. That the steps are
taken, that each is possible (a GET that waits for a connection gets one or times
out) and that entries expire is what TLC checks under `FairSpec`.
Every invariant and every action property of a passing run is proved; in two
runs the theorem needs what the run's configuration says as well (`ReusesIds`
false for `ViewsAreEarned`, PostgreSQL for the comments).
The counterexamples are TLC's by nature.

## 5. Not modelled, and why

- Authors, `updated_at`, formats of values: no property is about them. A view
  bumps `updated_at` too (`onupdate`), which nothing in the code reads.
- A second process: `uvicorn` runs one worker here. With several, an eviction
  would no longer be atomic with respect to a read's GET or SETEX.
- A COMMIT that is applied although the client sees an error: `DbFails` at a
  commit means that it was not applied.
- A PATCH that gives a column the value it was loaded with, for which SQLAlchemy
  writes nothing: every write here has a stamp of its own, so it always differs.
- The synchronous wrappers of `cacheable` and `cache_evict`, and
  `send_welcome_email`: no caller in `src/app`.
- The encoding of tokens, the hashing of passwords (`auth/jwt.py`,
  `auth/password.py`): pure functions over libraries.
- Schemas: declarative validation. Which values a request may hold is no state.
- `main.py`, `config.py`, `middleware.py`: wiring, settings read once, and a
  middleware that times and logs a request and passes its response on.
- The offline mode of `env.py`, which prints SQL and touches no database, and
  autogenerate, which is used when a revision is written.

## 6. Plan

Done, in this order: `PostService` with the cache (the behaviour the repository
is about), `ViewCount`, `Comments`, `Accounts`, and the proofs of each; then
`PostStore` with the refinement and its proof, `Board` and its proof, `Pages`,
`Migrations`, and the proofs of both.

What could follow: the pool of `ViewCount` in `Board`, so that a task that waits
for a connection delays the slot.
