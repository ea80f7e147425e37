---------------------------- MODULE Migrations -----------------------------
(***************************************************************************)
(* The schema migrations: `alembic upgrade` and `alembic downgrade` over   *)
(* the three revisions of migrations/versions, run by migrations/env.py,   *)
(* with crashes in the middle and an application that writes posts.        *)
(*                                                                         *)
(* A command runs one migration after the other, each a script of          *)
(* statements.  PostgreSQL runs them all in the one transaction of env.py. *)
(* On SQLite Alembic commits after each revision, and the driver opens a   *)
(* transaction at the first DML only: a DDL before it is on the disk at    *)
(* once.                                                                   *)
(***************************************************************************)
EXTENDS Integers, Sequences

CONSTANTS
    PostIds,  \* the rows the application may write
    Absent    \* there is no such table

Latest == 3
Versions == 0..Latest     \* 0: no revision is applied
Tmp == "_alembic_tmp_posts"
Tables == {"posts", "comments", "users", Tmp}
Table == [counted : BOOLEAN, rows : SUBSET PostIds]   \* counted: has view_count
Database == [version : Versions, tables : [Tables -> Table \cup {Absent}]]

ASSUME AbsentAssumption == Absent \notin Table

VARIABLES
    engine,   \* "postgresql" or "sqlite", the scheme of settings.database_url
    disk,     \* what is committed
    mem,      \* what the connection of the command sees
    open,     \* whether that connection is in a transaction
    script,   \* the statements that are left of the migration a command is at
    target,   \* the version the last command was asked for
    failed,   \* whether a statement of it was refused
    crashed   \* history: a command was killed

vars == <<engine, disk, mem, open, script, target, failed, crashed>>
-----------------------------------------------------------------------------
(***************************************************************************)
(* The revisions.                                                          *)
(***************************************************************************)
Do(op, t) == [op |-> op, table |-> t, version |-> 0]
Stamp(v) == [op |-> "stamp", table |-> "alembic_version", version |-> v]
Commit == Do("commit", "alembic_version")

\* 50577aec0522
CreateTables == <<Do("create", "posts"), Do("create", "comments")>>

\* Mutant: the referenced table goes first.
DropPostsFirst == <<Do("drop", "posts"), Do("drop", "comments")>>

DropTables == <<Do("drop", "comments"), Do("drop", "posts")>>

\* fab35d9a67d1: a batch that only adds a column is a plain ALTER TABLE; one
\* that drops a column rebuilds the table on SQLite.
AddViewCount == <<Do("add", "posts")>>
\* Mutant: the downgrade was left at pass.
DropNothing == << >>
DropViewCount ==
    IF engine = "postgresql" THEN <<Do("remove", "posts")>>
    ELSE <<Do("create", Tmp), Do("copy", Tmp), Do("drop", "posts"), Do("rename", Tmp)>>

\* 982c3e9c03c6: pass.
CreateUsers == << >>
DropUsers == << >>

Upgrade == <<CreateTables, AddViewCount, CreateUsers>>
Downgrade == <<DropTables, DropViewCount, DropUsers>>

\* The migration to v from below, and from v to below; each moves the version.
UpgradeTo(v) == Upgrade[v] \o <<Stamp(v)>>
DowngradeFrom(v) == Downgrade[v] \o <<Stamp(v - 1)>>

\* Mutant: env.py runs the migrations without begin_transaction.
CommitsPerRevision(last) == engine = "sqlite"

\* Whether a commit follows a migration: each one on SQLite, otherwise only the
\* last, where begin_transaction ends.
Commits(last) == engine = "sqlite" \/ last

\* The statements of the next migration on the way to a version, if any.
Script(from, to) ==
    LET v == IF from < to THEN from + 1 ELSE from - 1
        End == IF Commits(v = to) THEN <<Commit>> ELSE << >>
    IN  CASE from = to -> << >>
          [] from < to -> UpgradeTo(v) \o End
          [] from > to -> DowngradeFrom(from) \o End
-----------------------------------------------------------------------------
(***************************************************************************)
(* The statements.                                                         *)
(***************************************************************************)
There(t, db) == db.tables[t] # Absent

\* The database takes the statement.  Only PostgreSQL refuses to drop a table
\* that a foreign key points to.
Accepts(s, db) ==
    /\ s.op = "create" => ~There(s.table, db)
    /\ s.op \in {"drop", "add", "remove", "copy", "rename"} => There(s.table, db)
    /\ s.op = "drop" /\ s.table = "posts" =>
         engine = "sqlite" \/ ~There("comments", db)
    /\ s.op = "add" => ~db.tables["posts"].counted
    /\ s.op = "remove" => db.tables["posts"].counted
    /\ s.op = "copy" => There("posts", db)
    /\ s.op = "rename" => ~There("posts", db)

Effect(s, db) ==
    LET old == db.tables[s.table]
        Put(t) == [db EXCEPT !.tables[s.table] = t]
    IN  CASE s.op = "create" -> Put([counted |-> FALSE, rows |-> {}])
          [] s.op = "drop" -> Put(Absent)
          [] s.op = "add" -> Put([old EXCEPT !.counted = TRUE])
          [] s.op = "remove" -> Put([old EXCEPT !.counted = FALSE])
          [] s.op = "copy" -> Put([old EXCEPT !.rows = db.tables["posts"].rows])
          [] s.op = "rename" -> [db EXCEPT !.tables["posts"] = old,
                                           !.tables[Tmp] = Absent]
          [] s.op = "stamp" -> [db EXCEPT !.version = s.version]
          [] s.op = "commit" -> db

\* Mutant: no statement opens a transaction.
OpensNothing(s) == FALSE

\* The statements that open a transaction: the first one of env.py's, and on
\* SQLite, where the driver decides, an INSERT, UPDATE or DELETE.
Opens(s) == engine = "postgresql" \/ s.op \in {"copy", "stamp"}
-----------------------------------------------------------------------------
Init ==
    /\ engine \in {"postgresql", "sqlite"}
    /\ disk = [version |-> 0, tables |-> [t \in Tables |-> Absent]]
    /\ mem = disk
    /\ open = FALSE /\ script = << >> /\ target = 0
    /\ failed = FALSE /\ crashed = FALSE

\* alembic upgrade or downgrade to a version other than the one stamped.
Start(v) ==
    /\ script = << >> /\ v # disk.version
    /\ script' = Script(disk.version, v)
    /\ target' = v
    /\ failed' = FALSE
    /\ UNCHANGED <<engine, disk, mem, open, crashed>>

\* The next statement; what is in no transaction is on the disk at once.  After
\* the last one of a migration comes the next migration.
Execute ==
    /\ script # << >>
    /\ LET s == Head(script)
       IN  /\ Accepts(s, mem)
           /\ mem' = Effect(s, mem)
           /\ open' = (s.op # "commit" /\ (open \/ Opens(s)))
    /\ disk' = IF open' THEN disk ELSE mem'
    /\ script' = IF Len(script) > 1 THEN Tail(script) ELSE Script(mem'.version, target)
    /\ UNCHANGED <<engine, target, failed, crashed>>

\* The command ends here: its connection closes and rolls back.
Stop ==
    /\ script # << >>
    /\ mem' = disk /\ open' = FALSE /\ script' = << >>
    /\ UNCHANGED <<engine, disk, target>>

\* The database refuses the statement, and the command ends with its error.
Refused ==
    /\ Stop
    /\ ~Accepts(Head(script), mem)
    /\ failed' = TRUE /\ UNCHANGED crashed

Crash == Stop /\ crashed' = TRUE /\ UNCHANGED failed

\* create_post, on a table that has the columns of the model and that no
\* transaction of the command has locked.
CreatePost(i) ==
    /\ ~open /\ There("posts", disk) /\ disk.tables["posts"].counted
    /\ disk' = [disk EXCEPT !.tables["posts"].rows = @ \cup {i}]
    /\ disk' # disk
    /\ mem' = disk'
    /\ UNCHANGED <<engine, open, script, target, failed, crashed>>

Next ==
    \/ \E v \in Versions : Start(v)
    \/ Execute \/ Refused \/ Crash
    \/ \E i \in PostIds : CreatePost(i)

Spec == Init /\ [][Next]_vars
-----------------------------------------------------------------------------
(***************************************************************************)
(* Properties.                                                             *)
(***************************************************************************)
\* Every variable has the values the code gives it, and the connection sees
\* something of its own only inside a transaction.
TypeOK ==
    /\ engine \in {"postgresql", "sqlite"}
    /\ disk \in Database /\ mem \in Database
    /\ open \in BOOLEAN /\ failed \in BOOLEAN /\ crashed \in BOOLEAN
    /\ target \in Versions
    /\ open => script # << >>
    /\ ~open => mem = disk

\* A killed command leaves a torn schema behind on SQLite only.
Torn == engine = "sqlite" /\ crashed

\* The version stamped tells the schema: in every committed state of
\* PostgreSQL, whatever was killed or refused, and on SQLite between two
\* commands none of which was killed (env.py, the three revisions).
SchemaMatchesVersion ==
    engine = "postgresql" \/ (script = << >> /\ ~crashed) =>
        /\ There("posts", disk) <=> disk.version >= 1
        /\ There("comments", disk) <=> disk.version >= 1
        /\ There("posts", disk) => (disk.tables["posts"].counted <=> disk.version >= 2)
        /\ ~There(Tmp, disk)

\* Even a database that a killed command left torn has the posts that its
\* version promises: the column is there before it is stamped, and a downgrade
\* takes it away together with the stamp or not at all, rebuild included.  (The
\* comments have no such promise: a downgrade to 0 killed between its two drops
\* leaves version 1 without them, and the next upgrade does not bring them back.)
StampedServes ==
    disk.version >= 2 => There("posts", disk) /\ disk.tables["posts"].counted

\* No committed comments table refers to a posts table that is not there: the
\* order of the two drops, and on SQLite the rebuild of posts, which drops it.
CommentsHavePosts == There("comments", disk) => There("posts", disk)

\* A post is lost only by a downgrade that removes the table itself, however
\* the application's writes, the rebuild of the table and crashes interleave.
PostsSurvive ==
    [][There("posts", disk) /\ target # 0 =>
         /\ There("posts", disk)'
         /\ disk.tables["posts"].rows \subseteq disk'.tables["posts"].rows]_vars

\* A command is refused a statement only on a schema that a killed one tore.
FailsOnlyOnTorn == failed => Torn

\* At the head every table of the models is there: the revision 982c3e9c03c6
\* is named for the creation of the table users.
HeadHasEveryTable ==
    script = << >> /\ disk.version = Latest =>
        \A t \in Tables \ {Tmp} : There(t, disk)
=============================================================================
