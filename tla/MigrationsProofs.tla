-------------------------- MODULE MigrationsProofs --------------------------
(***************************************************************************)
(* The schema migrations, for any set of posts: what a version promises on *)
(* either engine, whichever commands run, are refused or are killed.       *)
(***************************************************************************)
EXTENDS Migrations, SequenceTheorems, TLAPS

-----------------------------------------------------------------------------
(***************************************************************************)
(* The inductive invariant: what the connection of a command sees at each  *)
(* of the statements that a migration consists of.                         *)
(***************************************************************************)
\* The tables of the version v.
Shape(db, v) ==
    /\ There("posts", db) <=> v >= 1
    /\ There("comments", db) <=> v >= 1
    /\ There("posts", db) => (db.tables["posts"].counted <=> v >= 2)
    /\ ~There(Tmp, db)

Serves(db, v) == v >= 2 => There("posts", db) /\ db.tables["posts"].counted
Refers(db) == There("comments", db) => There("posts", db)

\* What holds of a database that has been brought to v: all of it as long as no
\* command was killed on SQLite, and some of it even then.
Good(db, v) == Serves(db, v) /\ Refers(db) /\ (~Torn => Shape(db, v))

\* A statement and those after it; the end of the migration to v, on the way to w.
Then(s, q) == <<s>> \o q
After(last) == IF Commits(last) THEN <<Commit>> ELSE << >>
Ending(v, w) == Then(Stamp(v), After(v = w))
Rest(v) == Ending(v, target)

AtStart == script = << >> /\ ~open /\ Good(mem, mem.version)

AtCommit ==
    /\ script = <<Commit>> /\ open /\ Good(mem, mem.version)
    /\ engine = "postgresql" => mem.version = target

AtStamp(v) == script = Rest(v) /\ Good(mem, v)

AtCreatePosts ==
    /\ script = Then(Do("create", "posts"), Then(Do("create", "comments"), Rest(1)))
    /\ mem.version = 0 /\ Good(mem, 0)

AtCreateComments ==
    /\ script = Then(Do("create", "comments"), Rest(1))
    /\ mem.version = 0 /\ There("posts", mem)
    /\ ~Torn => /\ ~mem.tables["posts"].counted
                /\ ~There("comments", mem) /\ ~There(Tmp, mem)

AtAdd == script = Then(Do("add", "posts"), Rest(2)) /\ mem.version = 1 /\ Good(mem, 1)

AtDropComments ==
    /\ script = Then(Do("drop", "comments"), Then(Do("drop", "posts"), Rest(0)))
    /\ mem.version = 1 /\ target = 0 /\ Good(mem, 1)

AtDropPosts ==
    /\ script = Then(Do("drop", "posts"), Rest(0))
    /\ mem.version = 1 /\ target = 0
    /\ ~There("comments", mem)
    /\ ~Torn => There("posts", mem) /\ ~There(Tmp, mem)

AtRemove ==
    engine = "postgresql" /\ script = Then(Do("remove", "posts"), Rest(1)) /\ Good(mem, 2)

\* The rebuild of posts; from the copy on it is in a transaction.
Renaming == Then(Do("rename", Tmp), Rest(1))
Dropping == Then(Do("drop", "posts"), Renaming)
Copying == Then(Do("copy", Tmp), Dropping)

AtCreateTmp ==
    /\ script = Then(Do("create", Tmp), Copying)
    /\ engine = "sqlite" /\ mem.version = 2 /\ ~open
    /\ Good(mem, 2)

\* From here on there is the new table; the old one still serves.
Rebuilding ==
    /\ engine = "sqlite" /\ mem.version = 2
    /\ There(Tmp, mem) /\ ~mem.tables[Tmp].counted
    /\ ~Torn => There("comments", mem)

AtCopy == script = Copying /\ Rebuilding /\ ~open /\ Serves(mem, 2)

AtDropOld ==
    /\ script = Dropping /\ Rebuilding /\ open
    /\ There("posts", mem) /\ mem.tables[Tmp].rows = mem.tables["posts"].rows

AtRename == script = Renaming /\ Rebuilding /\ open /\ ~There("posts", mem)

Position ==
    \/ AtStart \/ AtCommit
    \/ AtCreatePosts \/ AtCreateComments \/ AtAdd
    \/ AtDropComments \/ AtDropPosts \/ AtRemove
    \/ AtCreateTmp \/ AtCopy \/ AtDropOld \/ AtRename
    \/ \E v \in Versions : AtStamp(v)

\* Where the connection has the posts.
Holder == IF script # << >> /\ Head(script).op = "rename" THEN Tmp ELSE "posts"

\* A command that leaves the table has the posts of the disk.
Saved ==
    target # 0 /\ There("posts", disk) =>
        /\ There(Holder, mem)
        /\ disk.tables["posts"].rows \subseteq mem.tables[Holder].rows

Inv ==
    /\ TypeOK /\ Position /\ Saved
    /\ StampedServes /\ CommentsHavePosts /\ FailsOnlyOnTorn
    /\ engine = "postgresql" => Shape(disk, disk.version)
-----------------------------------------------------------------------------
(***************************************************************************)
(* The scripts.                                                            *)
(***************************************************************************)
Ops == {"create", "drop", "add", "remove", "copy", "rename", "stamp", "commit"}
Statement == [op : Ops, table : Tables \cup {"alembic_version"}, version : Int]

\* A statement and a script after it make a script that begins with it.
LEMMA ThenType ==
    ASSUME NEW s \in Statement, NEW q \in Seq(Statement)
    PROVE  /\ Then(s, q) \in Seq(Statement)
           /\ Then(s, q) # << >>
           /\ Head(Then(s, q)) = s
           /\ Tail(Then(s, q)) = q
           /\ Len(Then(s, q)) > 1 <=> q # << >>
<1> DEFINE r == Then(s, q)
<1>1. <<s>> \in Seq(Statement) /\ Len(<<s>>) = 1 /\ <<s>>[1] = s
  OBVIOUS
<1>2. /\ r \in Seq(Statement) /\ Len(r) = 1 + Len(q)
      /\ \A i \in 1..(1 + Len(q)) :
           r[i] = IF i <= 1 THEN <<s>>[i] ELSE q[i - 1]
  BY <1>1, ConcatProperties DEF Then
<1>3. r # << >> /\ Head(r) = s
  BY <1>1, <1>2
<1>4. Tail(r) \in Seq(Statement) /\ Len(Tail(r)) = Len(q)
  BY <1>2, <1>3
<1>5. \A i \in 1..Len(q) : Tail(r)[i] = q[i]
  BY <1>2, <1>3
<1>6. Tail(r) = q
  <2> HIDE DEF r
  <2> QED BY <1>4, <1>5, SeqEqual
<1>7. Len(r) > 1 <=> q # << >>
  BY <1>2, EmptySeq
<1> QED
  BY <1>2, <1>3, <1>6, <1>7

\* The statements are statements.
LEMMA Statements ==
    /\ \A op \in Ops, t \in Tables : Do(op, t) \in Statement
    /\ \A v \in Int : Stamp(v) \in Statement
    /\ Commit \in Statement
BY DEF Do, Stamp, Commit, Statement, Ops

\* What follows a migration is a script, and so is the end of one.
LEMMA EndType ==
    /\ \A last : After(last) \in Seq(Statement)
    /\ \A v, w \in Int : Ending(v, w) \in Seq(Statement) /\ Ending(v, w) # << >>
<1>1. \A last : After(last) \in Seq(Statement)
  <2> HIDE DEF Commit, Statement
  <2> QED BY Statements DEF After
<1> QED
  BY <1>1, Statements, ThenType DEF Ending

\* Two and four elements are one and one, and two and two.
LEMMA Tuples ==
    ASSUME NEW S, NEW a \in S, NEW b \in S
    PROVE  /\ <<a, b>> = <<a>> \o <<b>>
           /\ \A c, d \in S : <<a, b, c, d>> = <<a, b>> \o <<c, d>>
<1>1. ASSUME NEW x \in S, NEW y \in S
      PROVE  <<x, y>> \in Seq(S) /\ Len(<<x, y>>) = 2
  OBVIOUS
<1>2. ASSUME NEW x \in S PROVE <<x>> \in Seq(S) /\ Len(<<x>>) = 1
  OBVIOUS
<1>3. <<a, b>> = <<a>> \o <<b>>
  <2> DEFINE s == <<a, b>>
             t == <<a>> \o <<b>>
  <2>1. /\ t \in Seq(S) /\ Len(t) = 2
        /\ \A i \in 1..2 : t[i] = IF i <= 1 THEN <<a>>[i] ELSE <<b>>[i - 1]
    BY <1>2, ConcatProperties
  <2>2. s \in Seq(S) /\ Len(s) = 2
    BY <1>1
  <2>3. t[1] = a /\ t[2] = b /\ s[1] = a /\ s[2] = b
    BY <2>1
  <2>4. \A i \in 1..2 : s[i] = t[i]
    <3> HIDE DEF s, t
    <3> QED BY <2>3
  <2> HIDE DEF s, t
  <2>5. s = t
    BY <2>1, <2>2, <2>4, SeqEqual
  <2> QED BY <2>5 DEF s, t
<1>4. ASSUME NEW c \in S, NEW d \in S
      PROVE  <<a, b, c, d>> = <<a, b>> \o <<c, d>>
  <2> DEFINE s == <<a, b, c, d>>
             t == <<a, b>> \o <<c, d>>
  <2>1. /\ t \in Seq(S) /\ Len(t) = 4
        /\ \A i \in 1..4 : t[i] = IF i <= 2 THEN <<a, b>>[i] ELSE <<c, d>>[i - 2]
    BY <1>1, ConcatProperties
  <2>2. s \in Seq(S) /\ Len(s) = 4
    OBVIOUS
  <2>3. /\ t[1] = a /\ t[2] = b /\ t[3] = c /\ t[4] = d
        /\ s[1] = a /\ s[2] = b /\ s[3] = c /\ s[4] = d
    BY <2>1
  <2>4. \A i \in 1..4 : s[i] = t[i]
    <3> HIDE DEF s, t
    <3> QED BY <2>3
  <2> HIDE DEF s, t
  <2>5. s = t
    BY <2>1, <2>2, <2>4, SeqEqual
  <2> QED BY <2>5 DEF s, t
<1> QED
  BY <1>3, <1>4

\* The statements of a migration, its stamp and what follows it.
One(a) == <<a>>
Two(a, b) == <<a, b>>
Four(a, b, c, d) == <<a, b, c, d>>
Whole(s, z, q) == (s \o <<z>>) \o q

\* They come one after the other.
LEMMA Unfold ==
    ASSUME NEW a \in Statement, NEW z \in Statement, NEW q \in Seq(Statement)
    PROVE  /\ Whole(<< >>, z, q) = Then(z, q)
           /\ Whole(One(a), z, q) = Then(a, Then(z, q))
           /\ \A b \in Statement :
                Whole(Two(a, b), z, q) = Then(a, Then(b, Then(z, q)))
           /\ \A b, c, d \in Statement :
                Whole(Four(a, b, c, d), z, q)
                    = Then(a, Then(b, Then(c, Then(d, Then(z, q)))))
<1> HIDE DEF Statement
<1>1. \A x \in Statement : <<x>> \in Seq(Statement)
  OBVIOUS
<1>2. ASSUME NEW x \in Statement, NEW u \in Seq(Statement), NEW w \in Seq(Statement)
      PROVE  /\ (<<x>> \o u) \o w = Then(x, u \o w)
             /\ u \o w \in Seq(Statement)
  BY <1>1, ConcatAssociative, ConcatProperties DEF Then
<1>3. << >> \o <<z>> = <<z>> /\ << >> \in Seq(Statement)
  BY <1>1, ConcatEmptySeq
<1>4. (<< >> \o <<z>>) \o q = Then(z, q)
  BY <1>3 DEF Then
<1>5. ASSUME NEW x \in Statement
      PROVE  (<<x>> \o <<z>>) \o q = Then(x, Then(z, q))
  BY <1>1, <1>2 DEF Then
<1>6. ASSUME NEW x \in Statement, NEW y \in Statement
      PROVE  (<<x, y>> \o <<z>>) \o q = Then(x, Then(y, Then(z, q)))
  <2>1. <<x, y>> = <<x>> \o <<y>>
    BY Tuples
  <2>2. <<x, y>> \o <<z>> = <<x>> \o (<<y>> \o <<z>>)
    BY <1>1, <2>1, ConcatAssociative
  <2>3. <<y>> \o <<z>> \in Seq(Statement)
    BY <1>1, <1>2
  <2>4. (<<x>> \o (<<y>> \o <<z>>)) \o q = Then(x, (<<y>> \o <<z>>) \o q)
    BY <1>2, <2>3
  <2> QED
    BY <1>5, <2>2, <2>4
<1>7. ASSUME NEW b \in Statement, NEW c \in Statement, NEW d \in Statement
      PROVE  (<<a, b, c, d>> \o <<z>>) \o q
                 = Then(a, Then(b, Then(c, Then(d, Then(z, q)))))
  <2>1. <<a, b, c, d>> = <<a, b>> \o <<c, d>>
    BY Tuples
  <2>2. <<a, b>> \in Seq(Statement) /\ <<c, d>> \in Seq(Statement)
    OBVIOUS
  <2>3. (<<a, b, c, d>> \o <<z>>) \o q = <<a, b>> \o ((<<c, d>> \o <<z>>) \o q)
    BY <1>1, <2>1, <2>2, ConcatAssociative, ConcatProperties
  <2>4. (<<c, d>> \o <<z>>) \o q \in Seq(Statement)
    BY <1>1, <2>2, ConcatProperties
  <2>5. <<a, b>> = <<a>> \o <<b>>
    BY Tuples
  <2>6. ASSUME NEW u \in Seq(Statement)
        PROVE  <<a, b>> \o u = Then(a, Then(b, u))
    BY <1>1, <2>5, ConcatAssociative DEF Then
  <2>7. <<a, b>> \o ((<<c, d>> \o <<z>>) \o q) = Then(a, Then(b, (<<c, d>> \o <<z>>) \o q))
    BY <2>4, <2>6
  <2> QED
    BY <1>6, <2>3, <2>7
<1> QED
  BY <1>4, <1>5, <1>6, <1>7 DEF Whole, One, Two, Four

\* The migration of four statements alone.
LEMMA UnfoldFour ==
    ASSUME NEW a \in Statement, NEW b \in Statement, NEW c \in Statement,
           NEW d \in Statement, NEW z \in Statement, NEW q \in Seq(Statement)
    PROVE  Whole(Four(a, b, c, d), z, q) = Then(a, Then(b, Then(c, Then(d, Then(z, q)))))
BY Unfold

\* The script to a version is that of the next migration on the way.
LEMMA NextMigration ==
    ASSUME NEW v \in Versions, NEW w \in Versions
    PROVE  /\ v = w => Script(v, w) = << >>
           /\ v < w => Script(v, w) = UpgradeTo(v + 1) \o After(v + 1 = w)
           /\ v > w => Script(v, w) = DowngradeFrom(v) \o After(v - 1 = w)
<1>1. CASE v = w
  BY <1>1 DEF Script, Versions, Latest
<1>2. CASE v < w
  <2>1. v # w /\ ~(v > w)
    BY <1>2 DEF Versions, Latest
  <2> HIDE DEF Versions
  <2> QED BY <1>2, <2>1, Zenon DEF Script, After
<1>3. CASE v > w
  <2>1. v # w /\ ~(v < w)
    BY <1>3 DEF Versions, Latest
  <2> HIDE DEF Versions
  <2> QED BY <1>3, <2>1, Zenon DEF Script, After
<1> QED
  BY <1>1, <1>2, <1>3 DEF Versions, Latest

\* The statements of every migration.
LEMMA Scripts ==
    ASSUME NEW w \in Versions, engine \in {"postgresql", "sqlite"}
    PROVE  /\ Script(w, w) = << >>
           /\ 0 < w => Script(0, w) = Then(Do("create", "posts"),
                                          Then(Do("create", "comments"), Ending(1, w)))
           /\ 1 < w => Script(1, w) = Then(Do("add", "posts"), Ending(2, w))
           /\ 2 < w => Script(2, w) = Ending(3, w)
           /\ 3 > w => Script(3, w) = Ending(2, w)
           /\ 2 > w /\ engine = "postgresql" =>
                Script(2, w) = Then(Do("remove", "posts"), Ending(1, w))
           /\ 2 > w /\ engine = "sqlite" =>
                Script(2, w) = Then(Do("create", Tmp), Then(Do("copy", Tmp),
                                 Then(Do("drop", "posts"), Then(Do("rename", Tmp), Ending(1, w)))))
           /\ 1 > w => Script(1, w) = Then(Do("drop", "comments"),
                                          Then(Do("drop", "posts"), Ending(0, w)))
<1>1. /\ Do("create", "posts") \in Statement /\ Do("create", "comments") \in Statement
      /\ Do("add", "posts") \in Statement /\ Do("remove", "posts") \in Statement
      /\ Do("drop", "comments") \in Statement /\ Do("drop", "posts") \in Statement
      /\ Do("create", Tmp) \in Statement /\ Do("copy", Tmp) \in Statement
      /\ Do("rename", Tmp) \in Statement
  BY Statements DEF Ops, Tables
<1>2. \A v \in Versions : v \in Int /\ Stamp(v) \in Statement
  BY Statements DEF Versions, Latest
<1>3. \A last : After(last) \in Seq(Statement)
  BY EndType
<1>4. {0, 1, 2, 3} \subseteq Versions
  BY DEF Versions, Latest
<1>5. /\ Stamp(0) \in Statement /\ Stamp(1) \in Statement
      /\ Stamp(2) \in Statement /\ Stamp(3) \in Statement
  BY <1>2, <1>4
<1>6. Script(w, w) = << >>
  BY NextMigration
<1>7. ASSUME 0 < w
      PROVE  Script(0, w) = Then(Do("create", "posts"),
                                 Then(Do("create", "comments"), Ending(1, w)))
  <2>1. Script(0, w) = UpgradeTo(1) \o After(1 = w)
    BY <1>4, <1>7, NextMigration
  <2>2. UpgradeTo(1) = CreateTables \o <<Stamp(1)>>
    BY DEF UpgradeTo, Upgrade
  <2>3. CreateTables = Two(Do("create", "posts"), Do("create", "comments"))
    BY DEF CreateTables, Two
  <2>4. Whole(CreateTables, Stamp(1), After(1 = w))
          = Then(Do("create", "posts"), Then(Do("create", "comments"), Then(Stamp(1), After(1 = w))))
    BY <1>1, <1>3, <1>5, <2>3, Unfold
  <2> QED BY <2>1, <2>2, <2>4 DEF Ending, Whole
<1>8. ASSUME 1 < w
      PROVE  Script(1, w) = Then(Do("add", "posts"), Ending(2, w))
  <2>1. Script(1, w) = UpgradeTo(1 + 1) \o After(1 + 1 = w)
    BY <1>4, <1>8, NextMigration
  <2>2. 1 + 1 = 2
    OBVIOUS
  <2>3. UpgradeTo(2) = AddViewCount \o <<Stamp(2)>>
    BY DEF UpgradeTo, Upgrade
  <2>4. AddViewCount = One(Do("add", "posts"))
    BY DEF AddViewCount, One
  <2>5. Whole(AddViewCount, Stamp(2), After(2 = w))
          = Then(Do("add", "posts"), Then(Stamp(2), After(2 = w)))
    BY <1>1, <1>3, <1>5, <2>4, Unfold
  <2> QED BY <2>2, <2>1, <2>3, <2>5 DEF Ending, Whole
<1>9. ASSUME 2 < w
      PROVE  Script(2, w) = Ending(3, w)
  <2>1. Script(2, w) = UpgradeTo(2 + 1) \o After(2 + 1 = w)
    BY <1>4, <1>9, NextMigration
  <2>2. 2 + 1 = 3
    OBVIOUS
  <2>3. UpgradeTo(3) = CreateUsers \o <<Stamp(3)>>
    BY DEF UpgradeTo, Upgrade
  <2>4. CreateUsers = << >>
    BY DEF CreateUsers
  <2>5. Whole(CreateUsers, Stamp(3), After(3 = w))
          = Then(Stamp(3), After(3 = w))
    BY <1>1, <1>3, <1>5, <2>4, Unfold
  <2> QED BY <2>2, <2>1, <2>3, <2>5 DEF Ending, Whole
<1>10. ASSUME 3 > w
      PROVE  Script(3, w) = Ending(2, w)
  <2>1. Script(3, w) = DowngradeFrom(3) \o After(2 = w)
    BY <1>4, <1>10, NextMigration
  <2>2. DowngradeFrom(3) = DropUsers \o <<Stamp(2)>>
    BY DEF DowngradeFrom, Downgrade
  <2>3. DropUsers = << >>
    BY DEF DropUsers
  <2>4. Whole(DropUsers, Stamp(2), After(2 = w))
          = Then(Stamp(2), After(2 = w))
    BY <1>1, <1>3, <1>5, <2>3, Unfold
  <2> QED BY <2>1, <2>2, <2>4 DEF Ending, Whole
<1>11. ASSUME 2 > w
       PROVE  Script(2, w) = (DropViewCount \o <<Stamp(1)>>) \o After(1 = w)
  <2>1. Script(2, w) = DowngradeFrom(2) \o After(1 = w)
    BY <1>4, <1>11, NextMigration
  <2> QED BY <2>1 DEF DowngradeFrom, Downgrade
<1>12. ASSUME 2 > w, engine = "postgresql"
       PROVE  Script(2, w) = Then(Do("remove", "posts"), Ending(1, w))
  <2>1. DropViewCount = One(Do("remove", "posts"))
    BY <1>12 DEF DropViewCount, One
  <2>2. Whole(DropViewCount, Stamp(1), After(1 = w))
          = Then(Do("remove", "posts"), Then(Stamp(1), After(1 = w)))
    BY <1>1, <1>3, <1>5, <2>1, Unfold
  <2> QED BY <1>11, <1>12, <2>2 DEF Ending, Whole
<1>13. ASSUME 2 > w, engine = "sqlite"
       PROVE  Script(2, w) =
                Then(Do("create", Tmp), Then(Do("copy", Tmp),
                  Then(Do("drop", "posts"), Then(Do("rename", Tmp), Ending(1, w)))))
  <2>1. DropViewCount =
          Four(Do("create", Tmp), Do("copy", Tmp), Do("drop", "posts"), Do("rename", Tmp))
    BY <1>13 DEF DropViewCount, Four
  <2>2. Whole(DropViewCount, Stamp(1), After(1 = w))
          = Then(Do("create", Tmp), Then(Do("copy", Tmp),
              Then(Do("drop", "posts"), Then(Do("rename", Tmp), Then(Stamp(1), After(1 = w))))))
    <3>1. Do("create", Tmp) \in Statement
      BY <1>1
    <3>2. Do("copy", Tmp) \in Statement
      BY <1>1
    <3>3. Do("drop", "posts") \in Statement
      BY <1>1
    <3>4. Do("rename", Tmp) \in Statement
      BY <1>1
    <3>5. Stamp(1) \in Statement
      BY <1>5
    <3>6. After(1 = w) \in Seq(Statement)
      BY <1>3
    <3> QED BY <2>1, <3>1, <3>2, <3>3, <3>4, <3>5, <3>6, UnfoldFour
  <2> QED BY <1>11, <1>13, <2>2 DEF Ending, Whole
<1>14. ASSUME 1 > w
       PROVE  Script(1, w) = Then(Do("drop", "comments"),
                                  Then(Do("drop", "posts"), Ending(0, w)))
  <2>1. Script(1, w) = DowngradeFrom(1) \o After(0 = w)
    BY <1>4, <1>14, NextMigration
  <2>2. DowngradeFrom(1) = DropTables \o <<Stamp(0)>>
    BY DEF DowngradeFrom, Downgrade
  <2>3. DropTables = Two(Do("drop", "comments"), Do("drop", "posts"))
    BY DEF DropTables, Two
  <2>4. Whole(DropTables, Stamp(0), After(0 = w))
          = Then(Do("drop", "comments"), Then(Do("drop", "posts"), Then(Stamp(0), After(0 = w))))
    BY <1>1, <1>3, <1>5, <2>3, Unfold
  <2> QED BY <2>1, <2>2, <2>4 DEF Ending, Whole
<1> QED
  BY <1>6, <1>7, <1>8, <1>9, <1>10, <1>12, <1>13, <1>14
-----------------------------------------------------------------------------
(***************************************************************************)
(* The statements.                                                         *)
(***************************************************************************)
\* A database with one of its tables put in place.
Put(db, t, x) == [db EXCEPT !.tables[t] = x]

\* It is a database, and differs in that table only.
LEMMA PutType ==
    ASSUME NEW db \in Database, NEW t \in Tables, NEW x \in Table \cup {Absent}
    PROVE  /\ Put(db, t, x) \in Database
           /\ Put(db, t, x).version = db.version
           /\ Put(db, t, x).tables[t] = x
           /\ \A u \in Tables : u # t => Put(db, t, x).tables[u] = db.tables[u]
<1> HIDE DEF Tables, Table
<1> QED BY DEF Put, Database

\* What each statement makes of a database that takes it.
LEMMA EffectOf ==
    ASSUME NEW db
    PROVE  /\ \A t \in Tables : Effect(Do("create", t), db) = Put(db, t, [counted |-> FALSE, rows |-> {}])
           /\ \A t \in Tables : Effect(Do("drop", t), db) = Put(db, t, Absent)
           /\ Effect(Do("add", "posts"), db)
                = Put(db, "posts", [db.tables["posts"] EXCEPT !.counted = TRUE])
           /\ Effect(Do("remove", "posts"), db)
                = Put(db, "posts", [db.tables["posts"] EXCEPT !.counted = FALSE])
           /\ Effect(Do("copy", Tmp), db)
                = Put(db, Tmp, [db.tables[Tmp] EXCEPT !.rows = db.tables["posts"].rows])
           /\ Effect(Do("rename", Tmp), db)
                = [db EXCEPT !.tables["posts"] = db.tables[Tmp], !.tables[Tmp] = Absent]
           /\ \A v : Effect(Stamp(v), db) = [db EXCEPT !.version = v]
           /\ Effect(Commit, db) = db
<1>1. \A t \in Tables : Effect(Do("create", t), db) = Put(db, t, [counted |-> FALSE, rows |-> {}])
  BY DEF Effect, Do, Put
<1>2. \A t \in Tables : Effect(Do("drop", t), db) = Put(db, t, Absent)
  BY DEF Effect, Do, Put
<1>3. Effect(Do("add", "posts"), db)
        = Put(db, "posts", [db.tables["posts"] EXCEPT !.counted = TRUE])
  BY DEF Effect, Do, Put
<1>4. Effect(Do("remove", "posts"), db)
        = Put(db, "posts", [db.tables["posts"] EXCEPT !.counted = FALSE])
  BY DEF Effect, Do, Put
<1>5. Effect(Do("copy", Tmp), db)
        = Put(db, Tmp, [db.tables[Tmp] EXCEPT !.rows = db.tables["posts"].rows])
  BY DEF Effect, Do, Put
<1>6. Effect(Do("rename", Tmp), db)
        = [db EXCEPT !.tables["posts"] = db.tables[Tmp], !.tables[Tmp] = Absent]
  BY DEF Effect, Do
<1>7. \A v : Effect(Stamp(v), db) = [db EXCEPT !.version = v]
  BY DEF Effect, Stamp
<1>8. Effect(Commit, db) = db
  BY DEF Effect, Commit, Do
<1> QED
  BY <1>1, <1>2, <1>3, <1>4, <1>5, <1>6, <1>7, <1>8
-----------------------------------------------------------------------------
(***************************************************************************)
(* One statement.                                                          *)
(***************************************************************************)
\* The statements of the revisions are statements, and the ends are scripts.
LEMMA ScriptParts ==
    /\ Do("create", "posts") \in Statement /\ Do("create", "comments") \in Statement
    /\ Do("add", "posts") \in Statement /\ Do("remove", "posts") \in Statement
    /\ Do("drop", "comments") \in Statement /\ Do("drop", "posts") \in Statement
    /\ Do("create", Tmp) \in Statement /\ Do("copy", Tmp) \in Statement
    /\ Do("rename", Tmp) \in Statement /\ Commit \in Statement
    /\ \A v \in Versions : Stamp(v) \in Statement
    /\ \A last : After(last) \in Seq(Statement)
    /\ \A v, w \in Versions : Ending(v, w) \in Seq(Statement) /\ Ending(v, w) # << >>
<1>1. /\ Do("create", "posts") \in Statement /\ Do("create", "comments") \in Statement
      /\ Do("add", "posts") \in Statement /\ Do("remove", "posts") \in Statement
      /\ Do("drop", "comments") \in Statement /\ Do("drop", "posts") \in Statement
  BY Statements DEF Ops, Tables
<1>2. /\ Do("create", Tmp) \in Statement /\ Do("copy", Tmp) \in Statement
      /\ Do("rename", Tmp) \in Statement /\ Commit \in Statement
  BY Statements DEF Ops, Tables
<1>3. \A v \in Versions : v \in Int
  BY DEF Versions, Latest
<1>4. \A v \in Versions : Stamp(v) \in Statement
  BY <1>3, Statements
<1>5. \A last : After(last) \in Seq(Statement)
  BY EndType
<1>6. \A v, w \in Versions : Ending(v, w) \in Seq(Statement) /\ Ending(v, w) # << >>
  BY <1>3, EndType
<1> QED
  BY <1>1, <1>2, <1>4, <1>5, <1>6

\* What the scripts depend on has its values.
Typed ==
    /\ engine \in {"postgresql", "sqlite"} /\ mem \in Database
    /\ open \in BOOLEAN /\ target \in Versions

\* A database brought to a version is at the start of the next migration.
LEMMA Begins ==
    /\ Typed
    /\ script = Script(mem.version, target)
    /\ Good(mem, mem.version)
    /\ open => engine = "postgresql" /\ mem.version # target
    => Position /\ (open => script # << >>)
<1> SUFFICES ASSUME Typed,
                    script = Script(mem.version, target),
                    Good(mem, mem.version),
                    open => engine = "postgresql" /\ mem.version # target
             PROVE  Position /\ (open => script # << >>)
  OBVIOUS
<1> DEFINE v == mem.version
<1>1. /\ v \in Versions /\ target \in Versions /\ open \in BOOLEAN
      /\ engine \in {"postgresql", "sqlite"}
  BY DEF Typed, Database
<1>2. v \in {0, 1, 2, 3} /\ target \in {0, 1, 2, 3}
  BY <1>1 DEF Versions, Latest
<1>3. {0, 1, 2, 3} \subseteq Versions
  BY DEF Versions, Latest
<1>4. CASE v = target
  <2>1. script = << >> /\ ~open
    BY <1>1, <1>4, Scripts
  <2> QED BY <1>1, <2>1 DEF Position, AtStart
<1>5. CASE v = 0 /\ v < target
  <2>1. script = Then(Do("create", "posts"), Then(Do("create", "comments"), Rest(1)))
    BY <1>1, <1>5, Scripts DEF Rest
  <2>2. script # << >>
    BY <1>1, <1>3, <2>1, ScriptParts, ThenType DEF Rest
  <2> QED BY <1>5, <2>1, <2>2 DEF Position, AtCreatePosts
<1>6. CASE v = 1 /\ v < target
  <2>1. script = Then(Do("add", "posts"), Rest(2))
    BY <1>1, <1>6, Scripts DEF Rest
  <2>2. script # << >>
    BY <1>1, <1>3, <2>1, ScriptParts, ThenType DEF Rest
  <2> QED BY <1>6, <2>1, <2>2 DEF Position, AtAdd
<1>7. CASE v = 2 /\ v < target
  <2>1. script = Rest(3)
    BY <1>1, <1>7, Scripts DEF Rest
  <2>2. script # << >>
    BY <1>1, <1>3, <2>1, ScriptParts DEF Rest
  <2>3. Good(mem, 3)
    BY <1>7 DEF Good, Serves, Shape
  <2> QED BY <1>3, <2>1, <2>2, <2>3 DEF Position, AtStamp
<1>8. CASE v = 3 /\ v > target
  <2>1. script = Rest(2)
    BY <1>1, <1>8, Scripts DEF Rest
  <2>2. script # << >>
    BY <1>1, <1>3, <2>1, ScriptParts DEF Rest
  <2>3. Good(mem, 2)
    BY <1>8 DEF Good, Serves, Shape
  <2> QED BY <1>3, <2>1, <2>2, <2>3 DEF Position, AtStamp
<1>9. CASE v = 2 /\ v > target /\ engine = "postgresql"
  <2>1. script = Then(Do("remove", "posts"), Rest(1))
    BY <1>1, <1>9, Scripts DEF Rest
  <2>2. script # << >>
    BY <1>1, <1>3, <2>1, ScriptParts, ThenType DEF Rest
  <2> QED BY <1>9, <2>1, <2>2 DEF Position, AtRemove
<1>10. CASE v = 2 /\ v > target /\ engine = "sqlite"
  <2>1. script = Then(Do("create", Tmp), Copying)
    BY <1>1, <1>10, Scripts DEF Rest, Copying, Dropping, Renaming
  <2>2. ~open
    BY <1>1, <1>10
  <2> QED BY <1>10, <2>1, <2>2 DEF Position, AtCreateTmp
<1>11. CASE v = 1 /\ v > target
  <2>1. target = 0
    BY <1>2, <1>11
  <2>2. script = Then(Do("drop", "comments"), Then(Do("drop", "posts"), Rest(0)))
    BY <1>1, <1>11, Scripts DEF Rest
  <2>3. script # << >>
    BY <1>1, <1>3, <2>2, ScriptParts, ThenType DEF Rest
  <2> QED BY <1>11, <2>1, <2>2, <2>3 DEF Position, AtDropComments
<1> HIDE DEF v
<1> QED
  BY <1>1, <1>2, <1>4, <1>5, <1>6, <1>7, <1>8, <1>9, <1>10, <1>11

\* The posts are in the new table for the one statement that renames it.
LEMMA HolderAt ==
    Typed /\ Position => Holder = "posts" \/ (Holder = Tmp /\ AtRename)
<1> SUFFICES ASSUME Typed, Position PROVE Holder = "posts" \/ (Holder = Tmp /\ AtRename)
  OBVIOUS
<1>1. target \in Versions /\ {0, 1, 2, 3} \subseteq Versions
  BY DEF Typed, Versions, Latest
<1>2. ASSUME NEW s \in Statement, NEW q \in Seq(Statement), script = Then(s, q), s.op # "rename"
      PROVE  Holder = "posts"
  BY <1>2, ThenType DEF Holder
<1>3. /\ Renaming \in Seq(Statement) /\ Dropping \in Seq(Statement)
      /\ Copying \in Seq(Statement)
  BY <1>1, ScriptParts, ThenType DEF Renaming, Dropping, Copying, Rest
<1>4. \A v \in Versions : Rest(v) \in Seq(Statement)
  BY <1>1, ScriptParts DEF Rest
<1>5. CASE AtStart
  BY <1>5 DEF AtStart, Holder
<1>6. CASE AtCommit
  BY <1>6 DEF AtCommit, Holder, Commit, Do
<1>7. CASE \E v \in Versions : AtStamp(v)
  <2>1. PICK v \in Versions : script = Then(Stamp(v), After(v = target))
    BY <1>7 DEF AtStamp, Rest, Ending
  <2> QED BY <1>2, <2>1, ScriptParts DEF Stamp
<1>8. CASE AtCreatePosts
  BY <1>1, <1>2, <1>4, <1>8, ScriptParts, ThenType DEF AtCreatePosts, Do
<1>9. CASE AtCreateComments
  BY <1>1, <1>2, <1>4, <1>9, ScriptParts DEF AtCreateComments, Do
<1>10. CASE AtAdd
  BY <1>1, <1>2, <1>4, <1>10, ScriptParts DEF AtAdd, Do
<1>11. CASE AtDropComments
  BY <1>1, <1>2, <1>4, <1>11, ScriptParts, ThenType DEF AtDropComments, Do
<1>12. CASE AtDropPosts
  BY <1>1, <1>2, <1>4, <1>12, ScriptParts DEF AtDropPosts, Do
<1>13. CASE AtRemove
  BY <1>1, <1>2, <1>4, <1>13, ScriptParts DEF AtRemove, Do
<1>14. CASE AtCreateTmp
  BY <1>2, <1>3, <1>14, ScriptParts DEF AtCreateTmp, Do
<1>15. CASE AtCopy
  BY <1>2, <1>3, <1>15, ScriptParts DEF AtCopy, Copying, Do
<1>16. CASE AtDropOld
  BY <1>2, <1>3, <1>16, ScriptParts DEF AtDropOld, Dropping, Do
<1>17. CASE AtRename
  <2>1. script # << >> /\ Head(script) = Do("rename", Tmp)
    BY <1>1, <1>4, <1>17, ScriptParts, ThenType DEF AtRename, Renaming
  <2> QED BY <1>17, <2>1 DEF Holder, Do
<1> QED
  BY <1>5, <1>6, <1>7, <1>8, <1>9, <1>10, <1>11, <1>12, <1>13, <1>14, <1>15, <1>16, <1>17
     DEF Position

\* A step executes the first statement, and what comes after it is next.
LEMMA Onward ==
    ASSUME NEW s \in Statement, NEW q \in Seq(Statement),
           script = Then(s, q), Execute
    PROVE  /\ Accepts(s, mem)
           /\ mem' = Effect(s, mem)
           /\ open' = (s.op # "commit" /\ (open \/ Opens(s))) /\ open' \in BOOLEAN
           /\ disk' = IF open' THEN disk ELSE mem'
           /\ q # << >> => script' = q
           /\ q = << >> => script' = Script(mem'.version, target)
           /\ engine' = engine /\ target' = target /\ failed' = failed /\ crashed' = crashed
BY ThenType DEF Execute

\* What a statement leads to: a position, with something on the disk that fits.
Lands ==
    /\ mem \in Database
    /\ Position
    /\ open \in BOOLEAN /\ (open => script # << >>)
    /\ ~open => /\ Serves(mem, mem.version) /\ Refers(mem)
                /\ engine = "postgresql" => Shape(mem, mem.version)

\* A step keeps the posts of the connection, where it has them.
Keeps ==
    target # 0 /\ There(Holder, mem) =>
        /\ There(Holder', mem')
        /\ mem.tables[Holder].rows \subseteq mem'.tables[Holder'].rows

\* The next migration after a step, seen from the step and from its end.
LEMMA NextScript ==
    ASSUME engine' = engine, script' = Script(mem'.version, target')
    PROVE  (script = Script(mem.version, target))'
BY DEF Script, Commits, UpgradeTo, DowngradeFrom, Upgrade, Downgrade, DropViewCount,
       CreateTables, AddViewCount, CreateUsers, DropTables, DropUsers

\* Begins holds of the state after a step too.
LEMMA BeginsThen ==
    (/\ Typed
     /\ script = Script(mem.version, target)
     /\ Good(mem, mem.version)
     /\ open => engine = "postgresql" /\ mem.version # target
     => Position /\ (open => script # << >>))'
BY Begins, PTL

\* And so does HolderAt.
LEMMA HolderThen ==
    (Typed /\ Position => Holder = "posts" \/ (Holder = Tmp /\ AtRename))'
BY HolderAt, PTL

\* Where the posts are, from the statement that comes next.
LEMMA HolderIs ==
    ASSUME NEW s \in Statement, NEW q \in Seq(Statement)
    PROVE  /\ script = Then(s, q) => Holder = IF s.op = "rename" THEN Tmp ELSE "posts"
           /\ script' = Then(s, q) =>
                /\ script' # << >>
                /\ Holder' = IF s.op = "rename" THEN Tmp ELSE "posts"
BY ThenType DEF Holder

\* The commit at the end of a migration.
LEMMA ExecuteCommit ==
    ASSUME TypeOK, Execute, AtCommit
    PROVE  Lands' /\ Keeps
<1>1. Commit \in Statement /\ << >> \in Seq(Statement)
  BY ScriptParts
<1>2. script = Then(Commit, << >>)
  <2> HIDE DEF Statement, Commit
  <2>1. <<Commit>> \in Seq(Statement)
    BY <1>1
  <2> QED BY <2>1, ConcatEmptySeq DEF AtCommit, Then
<1>3. /\ mem' = mem /\ open' = FALSE /\ script' = Script(mem'.version, target)
      /\ engine' = engine /\ target' = target /\ crashed' = crashed /\ disk' = mem'
  BY <1>1, <1>2, Onward, EffectOf DEF Commit, Do
<1>4. mem \in Database /\ Good(mem, mem.version)
  BY DEF TypeOK, AtCommit
<1>5. Good(mem, mem.version)'
  BY <1>3, <1>4 DEF Good, Torn, Serves, Refers, Shape, There
<1>6. Typed'
  BY <1>3, <1>4 DEF Typed, TypeOK
<1>7. (script = Script(mem.version, target))'
  BY <1>3, NextScript
<1>8. Position'
  BY <1>3, <1>5, <1>6, <1>7, BeginsThen
<1>9. engine' = "postgresql" => ~Torn'
  BY DEF Torn
<1>10. (/\ Serves(mem, mem.version) /\ Refers(mem)
        /\ engine = "postgresql" => Shape(mem, mem.version))'
  BY <1>5, <1>9 DEF Good
<1>11. mem' \in Database /\ open' \in BOOLEAN
  BY <1>6 DEF Typed
<1>12. Lands'
  BY <1>3, <1>8, <1>10, <1>11 DEF Lands
<1>13. Keeps
  <2>1. Holder = "posts"
    BY <1>1, <1>2, HolderIs DEF Commit, Do
  <2>2. Holder' = "posts"
    BY <1>3, <1>6, <1>8, HolderThen DEF AtRename
  <2> QED BY <1>3, <2>1, <2>2 DEF Keeps
<1> QED
  BY <1>12, <1>13

\* The end of a migration is the same before and after a step.
LEMMA RestStep ==
    ASSUME engine' = engine, target' = target, NEW v
    PROVE  Rest(v)' = Rest(v)
BY DEF Rest, Ending, After, Commits, Then, Stamp

\* The stamp, after the last table of a migration.
LEMMA ExecuteStamp ==
    ASSUME TypeOK, Execute, NEW v \in Versions, AtStamp(v)
    PROVE  Lands' /\ Keeps
<1> DEFINE q == After(v = target)
<1>1. Stamp(v) \in Statement /\ q \in Seq(Statement)
  BY ScriptParts
<1>2. script = Then(Stamp(v), q)
  BY DEF AtStamp, Rest, Ending
<1>3. /\ mem' = [mem EXCEPT !.version = v] /\ open'
      /\ engine' = engine /\ target' = target /\ crashed' = crashed /\ disk' = disk
      /\ q # << >> => script' = q
      /\ q = << >> => script' = Script(mem'.version, target)
  BY <1>1, <1>2, Onward, EffectOf DEF Stamp, Opens, TypeOK
<1>4. mem \in Database /\ Good(mem, v)
  BY DEF TypeOK, AtStamp
<1>5. mem' \in Database /\ mem'.version = v /\ mem'.tables = mem.tables
  BY <1>3, <1>4 DEF Database
<1>6. Good(mem, mem.version)'
  BY <1>3, <1>4, <1>5 DEF Good, Torn, Serves, Refers, Shape, There
<1>7. Typed'
  BY <1>3, <1>5 DEF Typed, TypeOK
<1>8. ASSUME Commits(v = target)
      PROVE  Position' /\ script' # << >> /\ Holder' = "posts"
  <2>1. q = <<Commit>> /\ q # << >>
    BY <1>8 DEF After
  <2>2. (script = <<Commit>>)'
    BY <1>3, <2>1 DEF Commit, Do
  <2>3. (engine = "postgresql" => mem.version = target)'
    BY <1>3, <1>5, <1>8 DEF Commits
  <2>4. AtCommit'
    BY <1>3, <1>6, <2>2, <2>3 DEF AtCommit
  <2>5. Holder' = "posts"
    BY <2>2 DEF Holder, Commit, Do
  <2> QED BY <1>3, <2>1, <2>4, <2>5 DEF Position
<1>9. ASSUME ~Commits(v = target)
      PROVE  Position' /\ script' # << >> /\ Holder' = "posts"
  <2>1. q = << >> /\ engine = "postgresql" /\ v # target
    BY <1>9 DEF After, Commits, TypeOK
  <2>2. (script = Script(mem.version, target))'
    BY <1>3, <2>1, NextScript
  <2>3. engine' = "postgresql" /\ mem'.version # target'
    BY <1>3, <1>5, <2>1
  <2>4. Position' /\ script' # << >>
    BY <1>3, <1>6, <1>7, <2>2, <2>3, BeginsThen
  <2>5. ~AtRename'
    BY <2>3 DEF AtRename, Rebuilding
  <2> QED BY <1>7, <2>4, <2>5, HolderThen
<1>10. Position' /\ script' # << >> /\ Holder' = "posts"
  BY <1>8, <1>9
<1>11. Lands'
  BY <1>3, <1>5, <1>10 DEF Lands
<1>12. Holder = "posts"
  <2>1. script # << >> => Head(script) = Stamp(v)
    BY <1>1, <1>2, ThenType
  <2> QED BY <2>1 DEF Holder, Stamp
<1>13. Keeps
  BY <1>5, <1>10, <1>12 DEF Keeps, There
<1> QED
  BY <1>11, <1>13

\* The scripts that the positions name are scripts.
LEMMA PartTypes ==
    ASSUME TypeOK
    PROVE  /\ \A v \in {0, 1, 2, 3} : v \in Versions /\ Rest(v) \in Seq(Statement) /\ Rest(v) # << >>
           /\ Then(Do("create", "comments"), Rest(1)) \in Seq(Statement)
           /\ Then(Do("create", "comments"), Rest(1)) # << >>
           /\ Then(Do("drop", "posts"), Rest(0)) \in Seq(Statement)
           /\ Then(Do("drop", "posts"), Rest(0)) # << >>
           /\ Renaming \in Seq(Statement) /\ Renaming # << >>
           /\ Dropping \in Seq(Statement) /\ Dropping # << >>
           /\ Copying \in Seq(Statement) /\ Copying # << >>
<1>1. target \in Versions /\ {0, 1, 2, 3} \subseteq Versions
  BY DEF TypeOK, Versions, Latest
<1>2. \A v \in {0, 1, 2, 3} : v \in Versions /\ Rest(v) \in Seq(Statement) /\ Rest(v) # << >>
  BY <1>1, ScriptParts DEF Rest
<1> QED
  BY <1>2, ScriptParts, ThenType DEF Renaming, Dropping, Copying

\* A step to the end of a migration.
LEMMA ReachesEnd ==
    ASSUME TypeOK, engine' = engine, target' = target, NEW v \in {0, 1, 2, 3},
           script' = Rest(v), Good(mem, v)'
    PROVE  Position' /\ script' # << >> /\ Holder' = "posts"
<1>1. v \in Versions /\ Rest(v) # << >> /\ Rest(v) = Then(Stamp(v), After(v = target))
  BY PartTypes DEF Rest, Ending
<1>2. AtStamp(v)'
  BY RestStep DEF AtStamp
<1>3. Position'
  BY <1>1, <1>2 DEF Position
<1>4. Holder' = "posts"
  BY <1>1, ScriptParts, HolderIs DEF Stamp
<1> QED
  BY <1>1, <1>3, <1>4

\* The table posts is created on a database without it.
LEMMA ExecuteCreatePosts ==
    ASSUME TypeOK, Execute, AtCreatePosts
    PROVE  Lands' /\ Keeps
<1>1. Do("create", "posts") \in Statement /\ Then(Do("create", "comments"), Rest(1)) \in Seq(Statement)
  BY ScriptParts, PartTypes
<1>2. Then(Do("create", "comments"), Rest(1)) # << >>
  BY PartTypes
<1>3. script = Then(Do("create", "posts"), Then(Do("create", "comments"), Rest(1)))
  BY DEF AtCreatePosts
<1>4. /\ Accepts(Do("create", "posts"), mem)
      /\ mem' = Put(mem, "posts", [counted |-> FALSE, rows |-> {}])
      /\ open' = (open \/ engine = "postgresql") /\ open' \in BOOLEAN
      /\ engine' = engine /\ target' = target /\ crashed' = crashed
      /\ script' = Then(Do("create", "comments"), Rest(1))
  BY <1>1, <1>2, <1>3, Onward, EffectOf DEF Do, Opens, TypeOK, Tables
<1>5. mem \in Database /\ open \in BOOLEAN /\ engine \in {"postgresql", "sqlite"}
  BY DEF TypeOK
<1>6. [counted |-> FALSE, rows |-> {}] \in Table \cap (Table \cup {Absent})
  BY DEF Table
<1>7. /\ mem' \in Database /\ mem'.version = mem.version
      /\ mem'.tables["posts"] = [counted |-> FALSE, rows |-> {}]
      /\ \A u \in Tables : u # "posts" => mem'.tables[u] = mem.tables[u]
  BY <1>4, <1>5, <1>6, PutType DEF Tables
<1>8. /\ There("posts", mem') <=> [counted |-> FALSE, rows |-> {}] # Absent
      /\ There("comments", mem') <=> There("comments", mem)
      /\ Tmp # "posts" => (There(Tmp, mem') <=> There(Tmp, mem))
  BY <1>7 DEF There, Tables
<1>9. /\ ~There("posts", mem)
      /\ ~Torn => ~There("comments", mem) /\ ~There(Tmp, mem)
  BY <1>4 DEF Accepts, Do, AtCreatePosts, Good, Shape
<1>10. Position' /\ script' # << >>
  <2>1. AtCreateComments'
    <3>1. There("posts", mem')
      BY <1>6, <1>8, AbsentAssumption DEF Table
    <3>2. ~mem'.tables["posts"].counted
      BY <1>7
    <3>3. Tmp # "posts"
      BY DEF Tmp
    <3>4. Rest(1)' = Rest(1)
      BY <1>4, RestStep
    <3> QED BY <1>4, <1>7, <1>9, <1>8, <3>1, <3>2, <3>3, <3>4
            DEF AtCreatePosts, AtCreateComments, Torn
  <2> QED BY <1>2, <1>4, <2>1 DEF Position
<1>11. ~open' => (/\ Serves(mem, mem.version) /\ Refers(mem)
                  /\ engine = "postgresql" => Shape(mem, mem.version))'
  <2>1. (engine = "postgresql" => open)'
    BY <1>4
  <2>2. ~open' => Refers(mem)'
    BY <1>6, <1>8, AbsentAssumption DEF Refers
  <2>3. ~open' => Serves(mem, mem.version)'
    BY <1>7 DEF Serves, AtCreatePosts
  <2> QED BY <2>1, <2>2, <2>3
<1>12. Lands'
  <2>1. open' \in BOOLEAN
    BY <1>4
  <2> QED BY <1>7, <1>10, <1>11, <2>1 DEF Lands
<1>13. Keeps
  <2>1. Holder = "posts"
    BY <1>1, <1>3, HolderIs DEF Do
  <2> QED BY <1>9, <2>1 DEF Keeps
<1> QED
  BY <1>12, <1>13

\* The table comments is created beside posts.
LEMMA ExecuteCreateComments ==
    ASSUME TypeOK, Execute, AtCreateComments
    PROVE  Lands' /\ Keeps
<1>1. Do("create", "comments") \in Statement /\ Rest(1) \in Seq(Statement)
  BY ScriptParts, PartTypes
<1>2. Rest(1) # << >>
  BY PartTypes
<1>3. script = Then(Do("create", "comments"), Rest(1))
  BY DEF AtCreateComments
<1>4. /\ Accepts(Do("create", "comments"), mem)
      /\ mem' = Put(mem, "comments", [counted |-> FALSE, rows |-> {}])
      /\ open' = (open \/ engine = "postgresql") /\ open' \in BOOLEAN
      /\ engine' = engine /\ target' = target /\ crashed' = crashed
      /\ script' = Rest(1)
  BY <1>1, <1>2, <1>3, Onward, EffectOf DEF Do, Opens, TypeOK, Tables
<1>5. mem \in Database /\ open \in BOOLEAN /\ engine \in {"postgresql", "sqlite"}
  BY DEF TypeOK
<1>6. [counted |-> FALSE, rows |-> {}] \in Table \cap (Table \cup {Absent})
  BY DEF Table
<1>7. /\ mem' \in Database /\ mem'.version = mem.version
      /\ mem'.tables["comments"] = [counted |-> FALSE, rows |-> {}]
      /\ \A u \in Tables : u # "comments" => mem'.tables[u] = mem.tables[u]
  BY <1>4, <1>5, <1>6, PutType DEF Tables
<1>8. /\ There("comments", mem') <=> [counted |-> FALSE, rows |-> {}] # Absent
      /\ There("posts", mem') <=> There("posts", mem)
      /\ Tmp # "comments" => (There(Tmp, mem') <=> There(Tmp, mem))
      /\ mem'.tables["posts"] = mem.tables["posts"]
  BY <1>7 DEF There, Tables
<1>9. Good(mem, 1)'
  <2>1. There("comments", mem')
    BY <1>6, <1>8, AbsentAssumption DEF Table
  <2>2. Tmp # "comments"
    BY DEF Tmp
  <2> QED BY <1>4, <1>8, <2>1, <2>2
          DEF AtCreateComments, Good, Serves, Refers, Shape, Torn
<1>10. Position' /\ script' # << >> /\ Holder' = "posts"
  BY <1>4, <1>9, ReachesEnd
<1>11. ~open' => (/\ Serves(mem, mem.version) /\ Refers(mem)
                  /\ engine = "postgresql" => Shape(mem, mem.version))'
  <2>1. (engine = "postgresql" => open)'
    BY <1>4
  <2>2. ~open' => Refers(mem)'
    BY <1>9 DEF Good
  <2>3. ~open' => Serves(mem, mem.version)'
    BY <1>7 DEF Serves, AtCreateComments
  <2> QED BY <2>1, <2>2, <2>3
<1>12. Lands'
  <2>1. open' \in BOOLEAN
    BY <1>4
  <2> QED BY <1>7, <1>10, <1>11, <2>1 DEF Lands
<1>13. Keeps
  <2>1. Holder = "posts"
    BY <1>1, <1>3, HolderIs DEF Do
  <2> QED BY <1>7, <1>10, <2>1 DEF Keeps, There, Tables
<1> QED
  BY <1>12, <1>13

\* The column view_count is added.
LEMMA ExecuteAdd ==
    ASSUME TypeOK, Execute, AtAdd
    PROVE  Lands' /\ Keeps
<1>1. Do("add", "posts") \in Statement /\ Rest(2) \in Seq(Statement)
  BY ScriptParts, PartTypes
<1>2. Rest(2) # << >>
  BY PartTypes
<1>3. script = Then(Do("add", "posts"), Rest(2))
  BY DEF AtAdd
<1>4. /\ Accepts(Do("add", "posts"), mem)
      /\ mem' = Put(mem, "posts", [mem.tables["posts"] EXCEPT !.counted = TRUE])
      /\ open' = (open \/ engine = "postgresql") /\ open' \in BOOLEAN
      /\ engine' = engine /\ target' = target /\ crashed' = crashed
      /\ script' = Rest(2)
  BY <1>1, <1>2, <1>3, Onward, EffectOf DEF Do, Opens, TypeOK, Tables
<1>5. mem \in Database /\ open \in BOOLEAN /\ engine \in {"postgresql", "sqlite"}
  BY DEF TypeOK
<1>6. [mem.tables["posts"] EXCEPT !.counted = TRUE] \in Table \cap (Table \cup {Absent})
  <2>1. mem.tables["posts"] \in Table
    BY <1>4, <1>5 DEF Accepts, Do, There, Database, Tables
  <2> QED BY <2>1 DEF Table
<1>7. /\ mem' \in Database /\ mem'.version = mem.version
      /\ mem'.tables["posts"] = [mem.tables["posts"] EXCEPT !.counted = TRUE]
      /\ \A u \in Tables : u # "posts" => mem'.tables[u] = mem.tables[u]
  BY <1>4, <1>5, <1>6, PutType DEF Tables
<1>8. /\ There("posts", mem') <=> [mem.tables["posts"] EXCEPT !.counted = TRUE] # Absent
      /\ There("comments", mem') <=> There("comments", mem)
      /\ Tmp # "posts" => (There(Tmp, mem') <=> There(Tmp, mem))
  BY <1>7 DEF There, Tables
<1>9. Good(mem, 2)'
  <2>1. mem.tables["posts"] \in Table /\ There("posts", mem)
    BY <1>4, <1>5 DEF Accepts, Do, There, Database, Tables
  <2>2. mem'.tables["posts"] \in Table /\ mem'.tables["posts"].counted = TRUE
    BY <1>7, <2>1 DEF Table
  <2>3. There("posts", mem')
    BY <2>2, AbsentAssumption DEF There
  <2>4. (There("comments", mem') <=> There("comments", mem)) /\ (There(Tmp, mem') <=> There(Tmp, mem))
    BY <1>7 DEF There, Tables, Tmp
  <2> QED BY <1>4, <2>1, <2>2, <2>3, <2>4 DEF AtAdd, Good, Serves, Refers, Shape, Torn
<1>10. Position' /\ script' # << >> /\ Holder' = "posts"
  BY <1>4, <1>9, ReachesEnd
<1>11. ~open' => (/\ Serves(mem, mem.version) /\ Refers(mem)
                  /\ engine = "postgresql" => Shape(mem, mem.version))'
  <2>1. (engine = "postgresql" => open)'
    BY <1>4
  <2>2. ~open' => Refers(mem)'
    BY <1>9 DEF Good
  <2>3. ~open' => Serves(mem, mem.version)'
    BY <1>7 DEF Serves, AtAdd
  <2> QED BY <2>1, <2>2, <2>3
<1>12. Lands'
  <2>1. open' \in BOOLEAN
    BY <1>4
  <2> QED BY <1>7, <1>10, <1>11, <2>1 DEF Lands
<1>13. Keeps
  <2>1. Holder = "posts"
    BY <1>1, <1>3, HolderIs DEF Do
  <2>2. mem.tables["posts"] \in Table
    BY <1>4, <1>5 DEF Accepts, Do, There, Database, Tables
  <2>3. mem'.tables["posts"] \in Table /\ mem'.tables["posts"].rows = mem.tables["posts"].rows
    BY <1>7, <2>2 DEF Table
  <2>4. There("posts", mem')
    BY <2>3, AbsentAssumption DEF There
  <2> QED BY <1>10, <2>1, <2>3, <2>4 DEF Keeps
<1> QED
  BY <1>12, <1>13

\* PostgreSQL removes the column view_count.
LEMMA ExecuteRemove ==
    ASSUME TypeOK, Execute, AtRemove
    PROVE  Lands' /\ Keeps
<1>1. Do("remove", "posts") \in Statement /\ Rest(1) \in Seq(Statement)
  BY ScriptParts, PartTypes
<1>2. Rest(1) # << >>
  BY PartTypes
<1>3. script = Then(Do("remove", "posts"), Rest(1))
  BY DEF AtRemove
<1>4. /\ Accepts(Do("remove", "posts"), mem)
      /\ mem' = Put(mem, "posts", [mem.tables["posts"] EXCEPT !.counted = FALSE])
      /\ open' = TRUE /\ open' \in BOOLEAN
      /\ engine' = engine /\ target' = target /\ crashed' = crashed
      /\ script' = Rest(1)
  BY <1>1, <1>2, <1>3, Onward, EffectOf DEF Do, Opens, TypeOK, Tables, AtRemove
<1>5. mem \in Database /\ open \in BOOLEAN /\ engine \in {"postgresql", "sqlite"}
  BY DEF TypeOK
<1>6. [mem.tables["posts"] EXCEPT !.counted = FALSE] \in Table \cap (Table \cup {Absent})
  <2>1. mem.tables["posts"] \in Table
    BY <1>4, <1>5 DEF Accepts, Do, There, Database, Tables
  <2> QED BY <2>1 DEF Table
<1>7. /\ mem' \in Database /\ mem'.version = mem.version
      /\ mem'.tables["posts"] = [mem.tables["posts"] EXCEPT !.counted = FALSE]
      /\ \A u \in Tables : u # "posts" => mem'.tables[u] = mem.tables[u]
  BY <1>4, <1>5, <1>6, PutType DEF Tables
<1>8. /\ There("posts", mem') <=> [mem.tables["posts"] EXCEPT !.counted = FALSE] # Absent
      /\ There("comments", mem') <=> There("comments", mem)
      /\ Tmp # "posts" => (There(Tmp, mem') <=> There(Tmp, mem))
  BY <1>7 DEF There, Tables
<1>9. Good(mem, 1)'
  <2>1. mem.tables["posts"] \in Table /\ There("posts", mem)
    BY <1>4, <1>5 DEF Accepts, Do, There, Database, Tables
  <2>2. mem'.tables["posts"] \in Table /\ mem'.tables["posts"].counted = FALSE
    BY <1>7, <2>1 DEF Table
  <2>3. There("posts", mem')
    BY <2>2, AbsentAssumption DEF There
  <2>4. (There("comments", mem') <=> There("comments", mem)) /\ (There(Tmp, mem') <=> There(Tmp, mem))
    BY <1>7 DEF There, Tables, Tmp
  <2> QED BY <1>4, <2>1, <2>2, <2>3, <2>4 DEF AtRemove, Good, Serves, Refers, Shape, Torn
<1>10. Position' /\ script' # << >> /\ Holder' = "posts"
  BY <1>4, <1>9, ReachesEnd
<1>11. ~open' => (/\ Serves(mem, mem.version) /\ Refers(mem)
                  /\ engine = "postgresql" => Shape(mem, mem.version))'
  <2>1. (engine = "postgresql" => open)'
    BY <1>4
  <2>2. ~open' => Refers(mem)'
    BY <1>9 DEF Good
  <2>3. ~open' => Serves(mem, mem.version)'
    BY <1>4
  <2> QED BY <2>1, <2>2, <2>3
<1>12. Lands'
  <2>1. open' \in BOOLEAN
    BY <1>4
  <2> QED BY <1>7, <1>10, <1>11, <2>1 DEF Lands
<1>13. Keeps
  <2>1. Holder = "posts"
    BY <1>1, <1>3, HolderIs DEF Do
  <2>2. mem.tables["posts"] \in Table
    BY <1>4, <1>5 DEF Accepts, Do, There, Database, Tables
  <2>3. mem'.tables["posts"] \in Table /\ mem'.tables["posts"].rows = mem.tables["posts"].rows
    BY <1>7, <2>2 DEF Table
  <2>4. There("posts", mem')
    BY <2>3, AbsentAssumption DEF There
  <2> QED BY <1>10, <2>1, <2>3, <2>4 DEF Keeps
<1> QED
  BY <1>12, <1>13

\* The comments go first.
LEMMA ExecuteDropComments ==
    ASSUME TypeOK, Execute, AtDropComments
    PROVE  Lands' /\ Keeps
<1>1. Do("drop", "comments") \in Statement /\ Then(Do("drop", "posts"), Rest(0)) \in Seq(Statement)
  BY ScriptParts, PartTypes
<1>2. Then(Do("drop", "posts"), Rest(0)) # << >>
  BY PartTypes
<1>3. script = Then(Do("drop", "comments"), Then(Do("drop", "posts"), Rest(0)))
  BY DEF AtDropComments
<1>4. /\ Accepts(Do("drop", "comments"), mem)
      /\ mem' = Put(mem, "comments", Absent)
      /\ open' = (open \/ engine = "postgresql") /\ open' \in BOOLEAN
      /\ engine' = engine /\ target' = target /\ crashed' = crashed
      /\ script' = Then(Do("drop", "posts"), Rest(0))
  BY <1>1, <1>2, <1>3, Onward, EffectOf DEF Do, Opens, TypeOK, Tables
<1>5. mem \in Database /\ open \in BOOLEAN /\ engine \in {"postgresql", "sqlite"}
  BY DEF TypeOK
<1>6. Absent \in {Absent} /\ Absent \in Table \cup {Absent}
  OBVIOUS
<1>7. /\ mem' \in Database /\ mem'.version = mem.version
      /\ mem'.tables["comments"] = Absent
      /\ \A u \in Tables : u # "comments" => mem'.tables[u] = mem.tables[u]
  BY <1>4, <1>5, <1>6, PutType DEF Tables
<1>8. /\ There("comments", mem') <=> Absent # Absent
      /\ There("posts", mem') <=> There("posts", mem)
      /\ Tmp # "comments" => (There(Tmp, mem') <=> There(Tmp, mem))
      /\ mem'.tables["posts"] = mem.tables["posts"]
  BY <1>7 DEF There, Tables
<1>9. ~There("comments", mem')
  BY <1>8
<1>10. Position' /\ script' # << >>
  <2>1. AtDropPosts'
    <3>1. Tmp # "comments"
      BY DEF Tmp
    <3>2. Rest(0)' = Rest(0)
      BY <1>4, RestStep
    <3> QED BY <1>4, <1>7, <1>9, <1>8, <3>1, <3>2
            DEF AtDropComments, AtDropPosts, Good, Shape, Torn
  <2> QED BY <1>2, <1>4, <2>1 DEF Position
<1>11. ~open' => (/\ Serves(mem, mem.version) /\ Refers(mem)
                  /\ engine = "postgresql" => Shape(mem, mem.version))'
  <2>1. (engine = "postgresql" => open)'
    BY <1>4
  <2>2. ~open' => Refers(mem)'
    BY <1>9 DEF Refers
  <2>3. ~open' => Serves(mem, mem.version)'
    BY <1>7 DEF Serves, AtDropComments
  <2> QED BY <2>1, <2>2, <2>3
<1>12. Lands'
  <2>1. open' \in BOOLEAN
    BY <1>4
  <2> QED BY <1>7, <1>10, <1>11, <2>1 DEF Lands
<1>13. Keeps
  BY DEF AtDropComments, Keeps
<1> QED
  BY <1>12, <1>13

\* The posts go after their comments.
LEMMA ExecuteDropPosts ==
    ASSUME TypeOK, Execute, AtDropPosts
    PROVE  Lands' /\ Keeps
<1>1. Do("drop", "posts") \in Statement /\ Rest(0) \in Seq(Statement)
  BY ScriptParts, PartTypes
<1>2. Rest(0) # << >>
  BY PartTypes
<1>3. script = Then(Do("drop", "posts"), Rest(0))
  BY DEF AtDropPosts
<1>4. /\ Accepts(Do("drop", "posts"), mem)
      /\ mem' = Put(mem, "posts", Absent)
      /\ open' = (open \/ engine = "postgresql") /\ open' \in BOOLEAN
      /\ engine' = engine /\ target' = target /\ crashed' = crashed
      /\ script' = Rest(0)
  BY <1>1, <1>2, <1>3, Onward, EffectOf DEF Do, Opens, TypeOK, Tables
<1>5. mem \in Database /\ open \in BOOLEAN /\ engine \in {"postgresql", "sqlite"}
  BY DEF TypeOK
<1>6. Absent \in {Absent} /\ Absent \in Table \cup {Absent}
  OBVIOUS
<1>7. /\ mem' \in Database /\ mem'.version = mem.version
      /\ mem'.tables["posts"] = Absent
      /\ \A u \in Tables : u # "posts" => mem'.tables[u] = mem.tables[u]
  BY <1>4, <1>5, <1>6, PutType DEF Tables
<1>8. /\ There("posts", mem') <=> Absent # Absent
      /\ There("comments", mem') <=> There("comments", mem)
      /\ Tmp # "posts" => (There(Tmp, mem') <=> There(Tmp, mem))
  BY <1>7 DEF There, Tables
<1>9. Good(mem, 0)'
  <2>1. Tmp # "posts" /\ ~There("posts", mem')
    BY <1>8 DEF Tmp
  <2> QED BY <1>4, <1>8, <2>1
          DEF AtDropPosts, Good, Serves, Refers, Shape, Torn
<1>10. Position' /\ script' # << >> /\ Holder' = "posts"
  BY <1>4, <1>9, ReachesEnd
<1>11. ~open' => (/\ Serves(mem, mem.version) /\ Refers(mem)
                  /\ engine = "postgresql" => Shape(mem, mem.version))'
  <2>1. (engine = "postgresql" => open)'
    BY <1>4
  <2>2. ~open' => Refers(mem)'
    BY <1>9 DEF Good
  <2>3. ~open' => Serves(mem, mem.version)'
    BY <1>7 DEF Serves, AtDropPosts
  <2> QED BY <2>1, <2>2, <2>3
<1>12. Lands'
  <2>1. open' \in BOOLEAN
    BY <1>4
  <2> QED BY <1>7, <1>10, <1>11, <2>1 DEF Lands
<1>13. Keeps
  BY DEF AtDropPosts, Keeps
<1> QED
  BY <1>12, <1>13

\* SQLite: the new table is created, outside of a transaction.
LEMMA ExecuteCreateTmp ==
    ASSUME TypeOK, Execute, AtCreateTmp
    PROVE  Lands' /\ Keeps
<1>1. Do("create", Tmp) \in Statement /\ Copying \in Seq(Statement)
  BY ScriptParts, PartTypes
<1>2. Copying # << >>
  BY PartTypes
<1>3. script = Then(Do("create", Tmp), Copying)
  BY DEF AtCreateTmp
<1>4. /\ Accepts(Do("create", Tmp), mem)
      /\ mem' = Put(mem, Tmp, [counted |-> FALSE, rows |-> {}])
      /\ open' = FALSE /\ open' \in BOOLEAN
      /\ engine' = engine /\ target' = target /\ crashed' = crashed
      /\ script' = Copying
  BY <1>1, <1>2, <1>3, Onward, EffectOf DEF Do, Opens, TypeOK, Tables, AtCreateTmp
<1>5. mem \in Database /\ open \in BOOLEAN /\ engine \in {"postgresql", "sqlite"}
  BY DEF TypeOK
<1>6. [counted |-> FALSE, rows |-> {}] \in Table \cap (Table \cup {Absent})
  BY DEF Table
<1>7. /\ mem' \in Database /\ mem'.version = mem.version
      /\ mem'.tables[Tmp] = [counted |-> FALSE, rows |-> {}]
      /\ \A u \in Tables : u # Tmp => mem'.tables[u] = mem.tables[u]
  BY <1>4, <1>5, <1>6, PutType DEF Tables
<1>8. /\ There(Tmp, mem') <=> [counted |-> FALSE, rows |-> {}] # Absent
      /\ "posts" # Tmp => (There("posts", mem') <=> There("posts", mem))
      /\ "comments" # Tmp => (There("comments", mem') <=> There("comments", mem))
      /\ "posts" # Tmp => mem'.tables["posts"] = mem.tables["posts"]
  BY <1>7 DEF There, Tables
<1>9. Serves(mem', 2) /\ Refers(mem') /\ There(Tmp, mem') /\ ~mem'.tables[Tmp].counted
  <2>1. Tmp # "posts" /\ Tmp # "comments"
    BY DEF Tmp
  <2>2. There(Tmp, mem')
    BY <1>6, <1>8, AbsentAssumption
  <2>3. ~mem'.tables[Tmp].counted
    BY <1>7
  <2> QED BY <1>8, <2>1, <2>2, <2>3 DEF AtCreateTmp, Good, Serves, Refers
<1>10. Position' /\ script' # << >>
  <2>1. AtCopy'
    <3>1. Tmp # "comments"
      BY DEF Tmp
    <3>2. Copying' = Copying
      BY <1>4, RestStep DEF Copying, Dropping, Renaming
    <3>3. ~Torn' => There("comments", mem')
      BY <1>4, <1>8, <3>1 DEF AtCreateTmp, Good, Shape, Torn
    <3> QED BY <1>4, <1>7, <1>9, <3>2, <3>3 DEF AtCreateTmp, AtCopy, Rebuilding
  <2> QED BY <1>2, <1>4, <2>1 DEF Position
<1>11. ~open' => (/\ Serves(mem, mem.version) /\ Refers(mem)
                  /\ engine = "postgresql" => Shape(mem, mem.version))'
  <2>1. (engine = "postgresql" => open)'
    BY <1>4 DEF AtCreateTmp
  <2>2. ~open' => Refers(mem)'
    BY <1>9
  <2>3. ~open' => Serves(mem, mem.version)'
    BY <1>7, <1>9 DEF AtCreateTmp
  <2> QED BY <2>1, <2>2, <2>3
<1>12. Lands'
  <2>1. open' \in BOOLEAN
    BY <1>4
  <2> QED BY <1>7, <1>10, <1>11, <2>1 DEF Lands
<1>13. Keeps
  <2>1. Holder = "posts"
    BY <1>1, <1>3, HolderIs DEF Do
  <2>2. Holder' = "posts" /\ Tmp # "posts"
    BY <1>4, ScriptParts, PartTypes, HolderIs DEF Copying, Do, Tmp
  <2> QED BY <1>8, <2>1, <2>2 DEF Keeps
<1> QED
  BY <1>12, <1>13

\* SQLite: the rows are copied, and the transaction begins.
LEMMA ExecuteCopy ==
    ASSUME TypeOK, Execute, AtCopy
    PROVE  Lands' /\ Keeps
<1>1. Do("copy", Tmp) \in Statement /\ Dropping \in Seq(Statement)
  BY ScriptParts, PartTypes
<1>2. Dropping # << >>
  BY PartTypes
<1>3. script = Then(Do("copy", Tmp), Dropping)
  BY DEF AtCopy, Copying
<1>4. /\ Accepts(Do("copy", Tmp), mem)
      /\ mem' = Put(mem, Tmp, [mem.tables[Tmp] EXCEPT !.rows = mem.tables["posts"].rows])
      /\ open' = TRUE /\ open' \in BOOLEAN
      /\ engine' = engine /\ target' = target /\ crashed' = crashed
      /\ script' = Dropping
  BY <1>1, <1>2, <1>3, Onward, EffectOf DEF Do, Opens, TypeOK, Tables, AtCopy, Rebuilding
<1>5. mem \in Database /\ open \in BOOLEAN /\ engine \in {"postgresql", "sqlite"}
  BY DEF TypeOK
<1>6. [mem.tables[Tmp] EXCEPT !.rows = mem.tables["posts"].rows] \in Table \cap (Table \cup {Absent})
  <2>1. There("posts", mem) /\ There(Tmp, mem)
    BY <1>4 DEF Accepts, Do, AtCopy, Rebuilding
  <2>2. mem.tables["posts"] \in Table /\ mem.tables[Tmp] \in Table
    BY <1>5, <2>1 DEF There, Database, Tables
  <2> QED BY <2>2 DEF Table
<1>7. /\ mem' \in Database /\ mem'.version = mem.version
      /\ mem'.tables[Tmp] = [mem.tables[Tmp] EXCEPT !.rows = mem.tables["posts"].rows]
      /\ \A u \in Tables : u # Tmp => mem'.tables[u] = mem.tables[u]
  BY <1>4, <1>5, <1>6, PutType DEF Tables
<1>8. /\ There(Tmp, mem') <=> [mem.tables[Tmp] EXCEPT !.rows = mem.tables["posts"].rows] # Absent
      /\ "posts" # Tmp => (There("posts", mem') <=> There("posts", mem))
      /\ "comments" # Tmp => (There("comments", mem') <=> There("comments", mem))
      /\ "posts" # Tmp => mem'.tables["posts"] = mem.tables["posts"]
  BY <1>7 DEF There, Tables
<1>9. /\ There("posts", mem') /\ There(Tmp, mem')
      /\ ~mem'.tables[Tmp].counted
      /\ mem'.tables[Tmp].rows = mem'.tables["posts"].rows
      /\ mem'.tables["posts"] = mem.tables["posts"]
  <2>1. Tmp # "posts" /\ There("posts", mem) /\ There(Tmp, mem) /\ ~mem.tables[Tmp].counted
    BY <1>4 DEF Accepts, Do, AtCopy, Rebuilding, Tmp
  <2>2. mem.tables[Tmp] \in Table
    BY <1>5, <2>1 DEF There, Database, Tables
  <2>3. mem'.tables[Tmp].rows = mem.tables["posts"].rows /\ ~mem'.tables[Tmp].counted
    BY <1>7, <2>1, <2>2 DEF Table
  <2>4. There(Tmp, mem')
    BY <1>6, <1>8, AbsentAssumption
  <2> QED BY <1>8, <2>1, <2>3, <2>4
<1>10. Position' /\ script' # << >>
  <2>1. AtDropOld'
    <3>1. Tmp # "comments"
      BY DEF Tmp
    <3>2. Dropping' = Dropping
      BY <1>4, RestStep DEF Dropping, Renaming
    <3>3. ~Torn' => There("comments", mem')
      BY <1>4, <1>8, <3>1 DEF AtCopy, Rebuilding, Torn
    <3> QED BY <1>4, <1>7, <1>9, <3>2, <3>3 DEF AtCopy, AtDropOld, Rebuilding
  <2> QED BY <1>2, <1>4, <2>1 DEF Position
<1>11. ~open' => (/\ Serves(mem, mem.version) /\ Refers(mem)
                  /\ engine = "postgresql" => Shape(mem, mem.version))'
  <2>1. (engine = "postgresql" => open)'
    BY <1>4
  <2>2. ~open' => Refers(mem)'
    BY <1>4
  <2>3. ~open' => Serves(mem, mem.version)'
    BY <1>4
  <2> QED BY <2>1, <2>2, <2>3
<1>12. Lands'
  <2>1. open' \in BOOLEAN
    BY <1>4
  <2> QED BY <1>7, <1>10, <1>11, <2>1 DEF Lands
<1>13. Keeps
  <2>1. Holder = "posts"
    BY <1>1, <1>3, HolderIs DEF Do
  <2>2. Holder' = "posts"
    BY <1>4, ScriptParts, PartTypes, HolderIs DEF Dropping, Do
  <2> QED BY <1>9, <2>1, <2>2 DEF Keeps
<1> QED
  BY <1>12, <1>13

\* SQLite: the old table is dropped, in the transaction.
LEMMA ExecuteDropOld ==
    ASSUME TypeOK, Execute, AtDropOld
    PROVE  Lands' /\ Keeps
<1>1. Do("drop", "posts") \in Statement /\ Renaming \in Seq(Statement)
  BY ScriptParts, PartTypes
<1>2. Renaming # << >>
  BY PartTypes
<1>3. script = Then(Do("drop", "posts"), Renaming)
  BY DEF AtDropOld, Dropping
<1>4. /\ Accepts(Do("drop", "posts"), mem)
      /\ mem' = Put(mem, "posts", Absent)
      /\ open' = TRUE /\ open' \in BOOLEAN
      /\ engine' = engine /\ target' = target /\ crashed' = crashed
      /\ script' = Renaming
  BY <1>1, <1>2, <1>3, Onward, EffectOf DEF Do, Opens, TypeOK, Tables, AtDropOld, Rebuilding
<1>5. mem \in Database /\ open \in BOOLEAN /\ engine \in {"postgresql", "sqlite"}
  BY DEF TypeOK
<1>6. Absent \in {Absent} /\ Absent \in Table \cup {Absent}
  OBVIOUS
<1>7. /\ mem' \in Database /\ mem'.version = mem.version
      /\ mem'.tables["posts"] = Absent
      /\ \A u \in Tables : u # "posts" => mem'.tables[u] = mem.tables[u]
  BY <1>4, <1>5, <1>6, PutType DEF Tables
<1>8. /\ There("posts", mem') <=> Absent # Absent
      /\ There("comments", mem') <=> There("comments", mem)
      /\ Tmp # "posts" => (There(Tmp, mem') <=> There(Tmp, mem))
  BY <1>7 DEF There, Tables
<1>9. ~There("posts", mem') /\ There(Tmp, mem') /\ mem'.tables[Tmp] = mem.tables[Tmp]
  BY <1>8, <1>7 DEF AtDropOld, Rebuilding, Tmp, Tables
<1>10. Position' /\ script' # << >>
  <2>1. AtRename'
    <3>1. Renaming' = Renaming
      BY <1>4, RestStep DEF Renaming
    <3>2. ~Torn' => There("comments", mem')
      BY <1>4, <1>8 DEF AtDropOld, Rebuilding, Torn
    <3> QED BY <1>4, <1>7, <1>9, <3>1, <3>2 DEF AtDropOld, AtRename, Rebuilding
  <2> QED BY <1>2, <1>4, <2>1 DEF Position
<1>11. ~open' => (/\ Serves(mem, mem.version) /\ Refers(mem)
                  /\ engine = "postgresql" => Shape(mem, mem.version))'
  <2>1. (engine = "postgresql" => open)'
    BY <1>4
  <2>2. ~open' => Refers(mem)'
    BY <1>4
  <2>3. ~open' => Serves(mem, mem.version)'
    BY <1>4
  <2> QED BY <2>1, <2>2, <2>3
<1>12. Lands'
  <2>1. open' \in BOOLEAN
    BY <1>4
  <2> QED BY <1>7, <1>10, <1>11, <2>1 DEF Lands
<1>13. Keeps
  <2>1. Holder = "posts"
    BY <1>1, <1>3, HolderIs DEF Do
  <2>2. Holder' = Tmp
    BY <1>4, ScriptParts, PartTypes, HolderIs DEF Renaming, Do
  <2> QED BY <1>9, <2>1, <2>2 DEF Keeps, AtDropOld
<1> QED
  BY <1>12, <1>13

\* SQLite: the new table takes the place of the old one.
LEMMA ExecuteRename ==
    ASSUME TypeOK, Execute, AtRename
    PROVE  Lands' /\ Keeps
<1>1. Do("rename", Tmp) \in Statement /\ Rest(1) \in Seq(Statement) /\ Rest(1) # << >>
  BY ScriptParts, PartTypes
<1>2. script = Then(Do("rename", Tmp), Rest(1))
  BY DEF AtRename, Renaming
<1>3. /\ mem' = [mem EXCEPT !.tables["posts"] = mem.tables[Tmp], !.tables[Tmp] = Absent]
      /\ open' = TRUE
      /\ engine' = engine /\ target' = target /\ crashed' = crashed
      /\ script' = Rest(1)
  BY <1>1, <1>2, Onward, EffectOf DEF Do, AtRename
<1>4. mem \in Database /\ There(Tmp, mem) /\ ~mem.tables[Tmp].counted
  BY DEF TypeOK, AtRename, Rebuilding
<1>5. mem.tables[Tmp] \in Table
  BY <1>4 DEF There, Database, Tables
<1>6. /\ mem' \in Database /\ mem'.version = mem.version
      /\ mem'.tables["posts"] = mem.tables[Tmp]
      /\ mem'.tables[Tmp] = Absent
      /\ mem'.tables["comments"] = mem.tables["comments"]
  <2>1. Tmp # "posts" /\ Tmp # "comments"
    BY DEF Tmp
  <2> HIDE DEF Table
  <2> QED BY <1>3, <1>4, <1>5, <2>1 DEF Database, Tables
<1>7. Good(mem, 1)'
  BY <1>3, <1>4, <1>6 DEF AtRename, Rebuilding, Good, Serves, Refers, Shape, There, Torn
<1>8. Position' /\ script' # << >> /\ Holder' = "posts"
  BY <1>3, <1>7, ReachesEnd
<1>9. Lands'
  BY <1>3, <1>6, <1>8 DEF Lands
<1>10. Holder = Tmp
  BY <1>1, <1>2, HolderIs DEF Do
<1>11. Keeps
  BY <1>4, <1>6, <1>8, <1>10 DEF Keeps, There
<1> QED
  BY <1>9, <1>11

\* Whatever comes next, a statement leads to a position and keeps the posts.
LEMMA ExecuteLands ==
    ASSUME TypeOK, Position, Execute
    PROVE  Lands' /\ Keeps
<1>1. CASE AtStart
  BY <1>1 DEF AtStart, Execute
<1>2. CASE \E v \in Versions : AtStamp(v)
  BY <1>2, ExecuteStamp
<1> QED
  BY <1>1, <1>2, ExecuteCommit, ExecuteCreatePosts, ExecuteCreateComments, ExecuteAdd,
     ExecuteDropComments, ExecuteDropPosts, ExecuteRemove,
     ExecuteCreateTmp, ExecuteCopy, ExecuteDropOld, ExecuteRename
     DEF Position
-----------------------------------------------------------------------------
(***************************************************************************)
(* The invariant.                                                          *)
(***************************************************************************)
\* What the database has on the disk.
LEMMA DiskOnly ==
    ASSUME NEW d, Serves(d, d.version), Refers(d)
    PROVE  /\ d.version >= 2 => There("posts", d) /\ d.tables["posts"].counted
           /\ There("comments", d) => There("posts", d)
BY DEF Serves, Refers

\* A statement preserves the invariant.
LEMMA ExecuteInv ==
    ASSUME Inv, Execute
    PROVE  Inv'
<1>1. Lands' /\ Keeps
  BY ExecuteLands DEF Inv
<1>2. /\ engine' = engine /\ target' = target /\ failed' = failed /\ crashed' = crashed
      /\ disk' = IF open' THEN disk ELSE mem'
  BY DEF Execute
<1>3. TypeOK'
  BY <1>1, <1>2 DEF TypeOK, Inv, Lands
<1>4. Position'
  BY <1>1 DEF Lands
<1>5. Saved'
  <2>1. CASE open'
    BY <1>1, <1>2, <2>1 DEF Inv, Saved, Keeps
  <2>2. CASE ~open'
    <3>1. Typed'
      BY <1>3 DEF TypeOK, Typed
    <3>2. Holder' = "posts"
      BY <1>4, <2>2, <3>1, HolderThen DEF AtRename
    <3> QED BY <1>2, <2>2, <3>2 DEF Saved
  <2> QED BY <2>1, <2>2
<1>6. StampedServes' /\ CommentsHavePosts'
  <2>1. CASE open'
    BY <1>2, <2>1 DEF Inv, StampedServes, CommentsHavePosts, There
  <2>2. CASE ~open'
    BY <1>1, <1>2, <2>2 DEF Lands, Serves, Refers, StampedServes, CommentsHavePosts
  <2> QED BY <2>1, <2>2
<1>7. FailsOnlyOnTorn'
  BY <1>2 DEF Inv, FailsOnlyOnTorn, Torn
<1>8. (engine = "postgresql" => Shape(disk, disk.version))'
  <2>1. CASE open'
    BY <1>2, <2>1 DEF Inv, Shape, There
  <2>2. CASE ~open'
    BY <1>1, <1>2, <2>2 DEF Lands
  <2> QED BY <2>1, <2>2
<1> QED
  BY <1>3, <1>4, <1>5, <1>6, <1>7, <1>8 DEF Inv

\* The empty database, before the first command.
LEMMA InitInv == Init => Inv
<1> SUFFICES ASSUME Init PROVE Inv
  OBVIOUS
<1>1. /\ engine \in {"postgresql", "sqlite"} /\ disk = mem /\ open = FALSE /\ script = << >>
      /\ target = 0 /\ failed = FALSE /\ crashed = FALSE
      /\ mem.version = 0 /\ \A t \in Tables : mem.tables[t] = Absent
  BY DEF Init
<1>2. mem \in Database
  BY DEF Init, Database, Versions, Latest
<1>3. /\ ~There("posts", mem) /\ ~There("comments", mem) /\ ~There(Tmp, mem)
  BY <1>1 DEF There, Tables
<1>4. Good(mem, mem.version) /\ Shape(mem, mem.version)
  BY <1>1, <1>3 DEF Good, Serves, Refers, Shape
<1>5. TypeOK
  <2>1. disk \in Database /\ 0 \in Versions
    BY <1>1, <1>2 DEF Versions, Latest
  <2> QED BY <1>1, <1>2, <2>1 DEF TypeOK
<1>6. Position
  BY <1>1, <1>4 DEF Position, AtStart
<1>7. Saved
  BY <1>1 DEF Saved
<1> QED
  BY <1>1, <1>3, <1>4, <1>5, <1>6, <1>7
     DEF Inv, StampedServes, CommentsHavePosts, FailsOnlyOnTorn

\* No command runs only where none has begun.
LEMMA Idle ==
    TypeOK /\ Position /\ script = << >> => AtStart
<1> SUFFICES ASSUME TypeOK, Position, script = << >> PROVE AtStart
  OBVIOUS
<1>1. ~open
  BY DEF TypeOK
<1>2. ~\E v \in Versions : AtStamp(v)
  BY ScriptParts DEF AtStamp, Rest, TypeOK
<1>3. \A s \in Statement, q \in Seq(Statement) : script # Then(s, q)
  BY ThenType
<1>4. ~AtCreatePosts /\ ~AtCreateComments /\ ~AtAdd /\ ~AtDropComments /\ ~AtDropPosts
  BY <1>3, ScriptParts, PartTypes
     DEF AtCreatePosts, AtCreateComments, AtAdd, AtDropComments, AtDropPosts
<1>5. ~AtRemove /\ ~AtCreateTmp /\ ~AtCopy
  BY <1>3, ScriptParts, PartTypes DEF AtRemove, AtCreateTmp, AtCopy
<1> QED
  BY <1>1, <1>2, <1>4, <1>5 DEF Position, AtCommit, AtDropOld, AtRename

\* A command begins.
LEMMA StartInv ==
    ASSUME Inv, NEW v \in Versions, Start(v)
    PROVE  Inv'
<1>1. /\ script = << >> /\ script' = Script(disk.version, v) /\ target' = v /\ failed' = FALSE
      /\ engine' = engine /\ disk' = disk /\ mem' = mem /\ open' = open /\ crashed' = crashed
      /\ v # disk.version
  BY DEF Start
<1>2. TypeOK /\ Position
  BY DEF Inv
<1>3. AtStart
  BY <1>1, <1>2, Idle
<1>4. mem = disk /\ open = FALSE /\ Good(mem, mem.version)
  BY <1>2, <1>3 DEF AtStart, TypeOK
<1>5. (script = Script(mem.version, target))'
  BY <1>1, <1>4, NextScript
<1>6. Typed'
  BY <1>1, <1>2 DEF Typed, TypeOK
<1>7. Good(mem, mem.version)'
  BY <1>1, <1>4 DEF Good, Serves, Refers, Shape, There, Torn
<1>8. Position'
  BY <1>1, <1>4, <1>5, <1>6, <1>7, BeginsThen
<1>9. TypeOK'
  BY <1>1, <1>2, <1>4 DEF TypeOK
<1>10. Saved'
  <2>1. Holder' = "posts"
    BY <1>1, <1>4, <1>6, <1>8, HolderThen DEF AtRename
  <2> QED BY <1>1, <1>4, <2>1 DEF Saved
<1>11. StampedServes' /\ CommentsHavePosts' /\ FailsOnlyOnTorn'
  BY <1>1 DEF Inv, StampedServes, CommentsHavePosts, FailsOnlyOnTorn, There
<1>12. (engine = "postgresql" => Shape(disk, disk.version))'
  BY <1>1 DEF Inv, Shape, There
<1> QED
  BY <1>8, <1>9, <1>10, <1>11, <1>12 DEF Inv

\* The end of a command that does not finish.
LEMMA StopInv ==
    ASSUME Inv, Stop, FailsOnlyOnTorn', ~Torn' => engine = "postgresql",
           failed' \in BOOLEAN, crashed' \in BOOLEAN
    PROVE  Inv'
<1>1. /\ mem' = disk /\ open' = FALSE /\ script' = << >>
      /\ engine' = engine /\ disk' = disk /\ target' = target
  BY DEF Stop
<1>2. TypeOK'
  BY <1>1 DEF Inv, TypeOK
<1>3. Good(mem, mem.version)'
  <2>1. Serves(disk, disk.version) /\ Refers(disk)
    BY DEF Inv, StampedServes, CommentsHavePosts, Serves, Refers
  <2>2. ~Torn' => Shape(disk, disk.version)
    BY DEF Inv
  <2> QED BY <1>1, <2>1, <2>2 DEF Good, Serves, Refers, Shape, There
<1>4. Position'
  BY <1>1, <1>3 DEF Position, AtStart
<1>5. Saved'
  BY <1>1 DEF Saved, Holder
<1>6. StampedServes' /\ CommentsHavePosts'
  BY <1>1 DEF Inv, StampedServes, CommentsHavePosts, There
<1>7. (engine = "postgresql" => Shape(disk, disk.version))'
  BY <1>1 DEF Inv, Shape, There
<1> QED
  BY <1>2, <1>4, <1>5, <1>6, <1>7 DEF Inv

\* On a schema that no killed command tore, the next statement is accepted.
LEMMA Accepted ==
    ASSUME TypeOK, Position, ~Torn, script # << >>
    PROVE  Accepts(Head(script), mem)
<1>1. \A s \in Statement, q \in Seq(Statement) : script = Then(s, q) => Head(script) = s
  BY ThenType
<1>2. Tmp # "posts" /\ Tmp # "comments" /\ engine \in {"postgresql", "sqlite"}
  BY DEF Tmp, TypeOK
<1>3. CASE AtStart
  BY <1>3 DEF AtStart
<1>4. CASE AtCommit
  BY <1>4 DEF AtCommit, Accepts, Commit, Do
<1>5. CASE \E v \in Versions : AtStamp(v)
  <2>1. PICK v \in Versions : script = Then(Stamp(v), After(v = target))
    BY <1>5 DEF AtStamp, Rest, Ending
  <2>2. Head(script) = Stamp(v)
    BY <1>1, <2>1, ScriptParts
  <2> QED BY <2>2 DEF Accepts, Stamp
<1>6. CASE AtCreatePosts
  <2>1. Head(script) = Do("create", "posts")
    BY <1>1, <1>6, ScriptParts, PartTypes DEF AtCreatePosts
  <2> QED BY <1>6, <2>1 DEF AtCreatePosts, Good, Shape, Accepts, Do
<1>7. CASE AtCreateComments
  <2>1. Head(script) = Do("create", "comments")
    BY <1>1, <1>7, ScriptParts, PartTypes DEF AtCreateComments
  <2> QED BY <1>7, <2>1 DEF AtCreateComments, Accepts, Do
<1>8. CASE AtAdd
  <2>1. Head(script) = Do("add", "posts")
    BY <1>1, <1>8, ScriptParts, PartTypes DEF AtAdd
  <2> QED BY <1>8, <2>1 DEF AtAdd, Good, Shape, Accepts, Do
<1>9. CASE AtDropComments
  <2>1. Head(script) = Do("drop", "comments")
    BY <1>1, <1>9, ScriptParts, PartTypes DEF AtDropComments
  <2> QED BY <1>9, <2>1 DEF AtDropComments, Good, Shape, Accepts, Do
<1>10. CASE AtDropPosts
  <2>1. Head(script) = Do("drop", "posts")
    BY <1>1, <1>10, ScriptParts, PartTypes DEF AtDropPosts
  <2> QED BY <1>10, <2>1 DEF AtDropPosts, Accepts, Do
<1>11. CASE AtRemove
  <2>1. Head(script) = Do("remove", "posts")
    BY <1>1, <1>11, ScriptParts, PartTypes DEF AtRemove
  <2> QED BY <1>11, <2>1 DEF AtRemove, Good, Shape, Accepts, Do
<1>12. CASE AtCreateTmp
  <2>1. Head(script) = Do("create", Tmp)
    BY <1>1, <1>12, ScriptParts, PartTypes DEF AtCreateTmp
  <2> QED BY <1>12, <2>1 DEF AtCreateTmp, Good, Shape, Accepts, Do
<1>13. CASE AtCopy
  <2>1. Head(script) = Do("copy", Tmp)
    BY <1>1, <1>13, ScriptParts, PartTypes DEF AtCopy, Copying
  <2> QED BY <1>13, <2>1 DEF AtCopy, Rebuilding, Serves, Accepts, Do
<1>14. CASE AtDropOld
  <2>1. Head(script) = Do("drop", "posts")
    BY <1>1, <1>14, ScriptParts, PartTypes DEF AtDropOld, Dropping
  <2> QED BY <1>14, <2>1 DEF AtDropOld, Rebuilding, Accepts, Do
<1>15. CASE AtRename
  <2>1. Head(script) = Do("rename", Tmp)
    BY <1>1, <1>15, ScriptParts, PartTypes DEF AtRename, Renaming
  <2> QED BY <1>15, <2>1 DEF AtRename, Rebuilding, Accepts, Do
<1> QED
  BY <1>3, <1>4, <1>5, <1>6, <1>7, <1>8, <1>9, <1>10, <1>11, <1>12, <1>13, <1>14, <1>15
     DEF Position

\* The database refuses a statement.
LEMMA RefusedInv ==
    ASSUME Inv, Refused
    PROVE  Inv'
<1>1. Stop /\ failed' = TRUE /\ crashed' = crashed /\ script # << >>
      /\ ~Accepts(Head(script), mem) /\ engine' = engine
  BY DEF Refused, Stop
<1>2. Torn
  BY <1>1, Accepted DEF Inv
<1>3. Torn'
  BY <1>1, <1>2 DEF Torn
<1>4. crashed' \in BOOLEAN
  BY <1>1 DEF Inv, TypeOK
<1> QED
  BY <1>1, <1>3, <1>4, StopInv DEF FailsOnlyOnTorn

\* A command is killed.
LEMMA CrashInv ==
    ASSUME Inv, Crash
    PROVE  Inv'
<1>1. Stop /\ failed' = failed /\ crashed' = TRUE /\ engine' = engine
  BY DEF Crash, Stop
<1>2. failed' \in BOOLEAN /\ engine \in {"postgresql", "sqlite"}
  BY <1>1 DEF Inv, TypeOK
<1>3. FailsOnlyOnTorn'
  BY <1>1 DEF Inv, FailsOnlyOnTorn, Torn
<1>4. ~Torn' => engine = "postgresql"
  BY <1>1, <1>2 DEF Torn
<1> QED
  BY <1>1, <1>2, <1>3, <1>4, StopInv

\* The application writes a post; the tables stay what they are otherwise.
LEMMA CreatePostInv ==
    ASSUME Inv, NEW i \in PostIds, CreatePost(i)
    PROVE  Inv'
<1>1. /\ ~open /\ There("posts", disk)
      /\ disk' = [disk EXCEPT !.tables["posts"].rows = @ \cup {i}]
      /\ mem' = disk'
      /\ engine' = engine /\ open' = open /\ script' = script /\ target' = target
      /\ failed' = failed /\ crashed' = crashed
  BY DEF CreatePost
<1>2. mem = disk /\ disk \in Database /\ disk.tables["posts"] \in Table
  BY <1>1 DEF Inv, TypeOK, There, Database, Tables
<1> DEFINE x == [disk.tables["posts"] EXCEPT !.rows = @ \cup {i}]
<1>3. x \in Table /\ x \in Table \cup {Absent} /\ x.counted = disk.tables["posts"].counted
      /\ disk.tables["posts"].rows \subseteq x.rows
  BY <1>2 DEF Table
<1>4. disk' = Put(disk, "posts", x)
  BY <1>1 DEF Put
<1> HIDE DEF x
<1>5. /\ disk' \in Database /\ disk'.version = disk.version
      /\ disk'.tables["posts"] = x
      /\ \A u \in Tables : u # "posts" => disk'.tables[u] = disk.tables[u]
  BY <1>2, <1>3, <1>4, PutType DEF Tables
<1>6. /\ There("posts", disk') <=> There("posts", disk)
      /\ There("comments", disk') <=> There("comments", disk)
      /\ There(Tmp, disk') <=> There(Tmp, disk)
      /\ disk'.tables["posts"].counted = disk.tables["posts"].counted
      /\ disk'.tables[Tmp] = disk.tables[Tmp]
  <2>1. There("posts", disk')
    BY <1>3, <1>5, AbsentAssumption DEF There
  <2>2. Tmp # "posts" /\ Tmp \in Tables /\ "comments" \in Tables
    BY DEF Tmp, Tables
  <2> QED BY <1>1, <1>3, <1>5, <2>1, <2>2 DEF There
<1>7. ASSUME NEW v
      PROVE  /\ Serves(disk', v) <=> Serves(disk, v)
             /\ Refers(disk') <=> Refers(disk)
             /\ Shape(disk', v) <=> Shape(disk, v)
  BY <1>6 DEF Serves, Refers, Shape
<1>8. Torn' = Torn
  BY <1>1 DEF Torn
<1>9. ASSUME NEW v
      PROVE  Good(mem, v)' <=> Good(mem, v)
  <2>1. /\ Serves(mem, v)' <=> Serves(mem, v)
        /\ Refers(mem)' <=> Refers(mem)
        /\ Shape(mem, v)' <=> Shape(mem, v)
    BY <1>1, <1>2, <1>6 DEF Serves, Refers, Shape
  <2> QED BY <1>8, <2>1 DEF Good
<1>10. TypeOK'
  BY <1>1, <1>5 DEF Inv, TypeOK
<1>11. \A v \in {0, 1, 2, 3} : Rest(v)' = Rest(v)
  BY <1>1, RestStep
<1>12. /\ mem'.version = mem.version
       /\ There("posts", mem') <=> There("posts", mem)
       /\ There("comments", mem') <=> There("comments", mem)
       /\ There(Tmp, mem') <=> There(Tmp, mem)
       /\ mem'.tables["posts"].counted = mem.tables["posts"].counted
       /\ mem'.tables[Tmp] = mem.tables[Tmp]
  BY <1>1, <1>2, <1>5, <1>6
<1>13. Position'
  <2>1. CASE AtStart
    <3>1. Good(mem, mem.version)'
      BY <1>2, <1>7, <1>8, <1>1, <1>5, <2>1 DEF Good, AtStart
    <3> QED BY <1>1, <2>1, <3>1 DEF AtStart, Position
  <2>2. CASE \E v \in Versions : AtStamp(v)
    <3>1. PICK v \in Versions : AtStamp(v)
      BY <2>2
    <3>2. Rest(v)' = Rest(v)
      BY <1>1, RestStep
    <3> QED BY <1>1, <1>9, <3>1, <3>2 DEF AtStamp, Position
  <2>3. CASE AtCreatePosts
    BY <1>1, <1>9, <1>11, <1>12, <2>3 DEF AtCreatePosts, Position
  <2>4. CASE AtCreateComments
    BY <1>1, <1>8, <1>11, <1>12, <2>4 DEF AtCreateComments, Position
  <2>5. CASE AtAdd
    BY <1>1, <1>9, <1>11, <1>12, <2>5 DEF AtAdd, Position
  <2>6. CASE AtDropComments
    BY <1>1, <1>9, <1>11, <1>12, <2>6 DEF AtDropComments, Position
  <2>7. CASE AtDropPosts
    BY <1>1, <1>8, <1>11, <1>12, <2>7 DEF AtDropPosts, Position
  <2>8. CASE AtRemove
    BY <1>1, <1>9, <1>11, <2>8 DEF AtRemove, Position
  <2>9. Copying' = Copying
    BY <1>11 DEF Copying, Dropping, Renaming
  <2>10. CASE AtCreateTmp
    BY <1>1, <1>9, <1>12, <2>9, <2>10 DEF AtCreateTmp, Position
  <2>11. CASE AtCopy
    <3>1. Serves(mem, 2)'
      BY <1>12, <2>11 DEF AtCopy, Serves
    <3> QED BY <1>1, <1>8, <1>12, <2>9, <2>11, <3>1 DEF AtCopy, Rebuilding, Position
  <2> QED
    BY <1>1, <2>1, <2>2, <2>3, <2>4, <2>5, <2>6, <2>7, <2>8, <2>10, <2>11
       DEF Inv, Position, AtCommit, AtDropOld, AtRename
<1>14. Saved'
  <2>1. Typed /\ Position
    BY DEF Inv, TypeOK, Typed
  <2>2. Holder = "posts" /\ Holder' = Holder
    BY <1>1, <2>1, HolderAt DEF AtRename, Holder
  <2> QED BY <1>1, <2>2 DEF Saved
<1>15. StampedServes' /\ CommentsHavePosts' /\ FailsOnlyOnTorn'
  BY <1>1, <1>5, <1>6, <1>8 DEF Inv, StampedServes, CommentsHavePosts, FailsOnlyOnTorn
<1>16. (engine = "postgresql" => Shape(disk, disk.version))'
  BY <1>1, <1>5, <1>6 DEF Inv, Shape
<1> QED
  BY <1>10, <1>13, <1>14, <1>15, <1>16 DEF Inv

\* A step that changes nothing.
LEMMA StutterInv ==
    ASSUME Inv, UNCHANGED vars
    PROVE  Inv'
<1>1. /\ engine' = engine /\ disk' = disk /\ mem' = mem /\ open' = open /\ script' = script
      /\ target' = target /\ failed' = failed /\ crashed' = crashed
  BY DEF vars
<1>2. TypeOK' /\ Saved' /\ StampedServes' /\ CommentsHavePosts' /\ FailsOnlyOnTorn'
  BY <1>1 DEF Inv, TypeOK, Saved, Holder, StampedServes, CommentsHavePosts,
     FailsOnlyOnTorn, Torn, There
<1>3. (engine = "postgresql" => Shape(disk, disk.version))'
  BY <1>1 DEF Inv, Shape, There
<1>4. Torn' = Torn /\ \A v : Rest(v)' = Rest(v)
  BY <1>1, RestStep DEF Torn
<1>5. ASSUME NEW v
      PROVE  Good(mem, v)' = Good(mem, v) /\ Serves(mem, v)' = Serves(mem, v)
  BY <1>1, <1>4 DEF Good, Serves, Refers, Shape, There
<1>6. Good(mem, mem.version)' = Good(mem, mem.version)
  BY <1>1, <1>4 DEF Good, Serves, Refers, Shape, There
<1>7. (AtStart => AtStart') /\ (AtCommit => AtCommit')
  BY <1>1, <1>6 DEF AtStart, AtCommit
<1>8. \A v \in Versions : AtStamp(v) => AtStamp(v)'
  BY <1>1, <1>4, <1>5 DEF AtStamp
<1>9. (AtCreatePosts => AtCreatePosts') /\ (AtAdd => AtAdd') /\ (AtRemove => AtRemove')
  BY <1>1, <1>4, <1>5 DEF AtCreatePosts, AtAdd, AtRemove
<1>10. (AtCreateComments => AtCreateComments') /\ (AtDropPosts => AtDropPosts')
  BY <1>1, <1>4 DEF AtCreateComments, AtDropPosts, There
<1>11. AtDropComments => AtDropComments'
  BY <1>1, <1>4, <1>5 DEF AtDropComments
<1>12. /\ Renaming' = Renaming /\ Dropping' = Dropping /\ Copying' = Copying
       /\ Rebuilding' = Rebuilding
  BY <1>1, <1>4 DEF Renaming, Dropping, Copying, Rebuilding, There
<1>13. (AtCreateTmp => AtCreateTmp') /\ (AtCopy => AtCopy')
  BY <1>1, <1>5, <1>12 DEF AtCreateTmp, AtCopy
<1>14. (AtDropOld => AtDropOld') /\ (AtRename => AtRename')
  BY <1>1, <1>12 DEF AtDropOld, AtRename, There
<1>15. Position'
  BY <1>7, <1>8, <1>9, <1>10, <1>11, <1>13, <1>14 DEF Inv, Position
<1> QED
  BY <1>2, <1>3, <1>15 DEF Inv

\* The invariant is inductive.
LEMMA NextInv == Inv /\ [Next]_vars => Inv'
<1> SUFFICES ASSUME Inv, [Next]_vars PROVE Inv'
  OBVIOUS
<1>1. CASE \E v \in Versions : Start(v)
  BY <1>1, StartInv
<1>2. CASE Execute
  BY <1>2, ExecuteInv
<1>3. CASE Refused
  BY <1>3, RefusedInv
<1>4. CASE Crash
  BY <1>4, CrashInv
<1>5. CASE \E i \in PostIds : CreatePost(i)
  BY <1>5, CreatePostInv
<1>6. CASE UNCHANGED vars
  BY <1>6, StutterInv
<1> QED
  BY <1>1, <1>2, <1>3, <1>4, <1>5, <1>6 DEF Next

\* Whatever commands run, and are refused or killed, the connection is at one of
\* the positions of a migration and sees what belongs there.
THEOREM Invariance == Spec => []Inv
BY InitInv, NextInv, PTL DEF Spec
-----------------------------------------------------------------------------
(***************************************************************************)
(* What follows.                                                           *)
(***************************************************************************)
\* Every variable has its values, for any set of posts.
THEOREM TypeCorrect == Spec => []TypeOK
<1>1. Inv => TypeOK
  BY DEF Inv
<1> QED
  BY <1>1, Invariance, PTL

\* The version stamped tells the schema: always on PostgreSQL, and on SQLite
\* between commands none of which was killed.
THEOREM SchemaIsStamped == Spec => []SchemaMatchesVersion
<1>1. Inv => SchemaMatchesVersion
  <2> SUFFICES ASSUME Inv, engine = "postgresql" \/ (script = << >> /\ ~crashed)
               PROVE  Shape(disk, disk.version)
    BY DEF SchemaMatchesVersion, Shape
  <2>1. CASE engine = "postgresql"
    BY <2>1 DEF Inv
  <2>2. CASE script = << >> /\ ~crashed
    <3>1. AtStart
      BY <2>2, Idle DEF Inv
    <3>2. mem = disk /\ ~Torn
      BY <2>2, <3>1 DEF Inv, TypeOK, AtStart, Torn
    <3> QED BY <3>1, <3>2 DEF AtStart, Good
  <2> QED BY <2>1, <2>2
<1> QED
  BY <1>1, Invariance, PTL

\* A database stamped 2 or later has posts with their view_count, torn or not.
THEOREM StampPromises == Spec => []StampedServes
<1>1. Inv => StampedServes
  BY DEF Inv
<1> QED
  BY <1>1, Invariance, PTL

\* There is no table comments on the disk without the table posts.
THEOREM CommentsRefer == Spec => []CommentsHavePosts
<1>1. Inv => CommentsHavePosts
  BY DEF Inv
<1> QED
  BY <1>1, Invariance, PTL

\* A command fails only on a schema that a killed one left torn on SQLite.
THEOREM FailuresAreTears == Spec => []FailsOnlyOnTorn
<1>1. Inv => FailsOnlyOnTorn
  BY DEF Inv
<1> QED
  BY <1>1, Invariance, PTL

\* No step loses a post, except one of a downgrade to nothing.
THEOREM NoPostLost == Spec => PostsSurvive
<1> DEFINE Survive == There("posts", disk) /\ target # 0 =>
             /\ There("posts", disk)'
             /\ disk.tables["posts"].rows \subseteq disk'.tables["posts"].rows
<1>1. ASSUME Inv, [Next]_vars, disk' # disk PROVE Survive
  <2>1. CASE Execute
    <3>1. Keeps /\ disk' = mem' /\ ~open'
      BY <1>1, <2>1, ExecuteLands DEF Inv, Execute
    <3>2. Typed' /\ Position'
      BY <1>1, NextInv DEF Inv, TypeOK, Typed
    <3>3. Holder' = "posts"
      BY <3>1, <3>2, HolderThen DEF AtRename
    <3> QED BY <1>1, <3>1, <3>3 DEF Inv, Saved, Keeps, There
  <2>2. ASSUME NEW i \in PostIds, CreatePost(i) PROVE Survive
    <3> DEFINE x == [disk.tables["posts"] EXCEPT !.rows = @ \cup {i}]
    <3>1. There("posts", disk) /\ disk \in Database
      BY <1>1, <2>2 DEF CreatePost, Inv, TypeOK
    <3>2. disk' = Put(disk, "posts", x)
      BY <2>2 DEF CreatePost, Put
    <3>3. disk.tables["posts"] \in Table
      BY <3>1 DEF There, Database, Tables
    <3>4. x \in Table /\ x \in Table \cup {Absent} /\ disk.tables["posts"].rows \subseteq x.rows
      BY <3>3 DEF Table
    <3> HIDE DEF x
    <3>5. disk'.tables["posts"] = x
      BY <3>1, <3>2, <3>4, PutType DEF Tables
    <3> QED BY <3>4, <3>5, AbsentAssumption DEF There
  <2>3. ~(\E v \in Versions : Start(v)) /\ ~Refused /\ ~Crash /\ ~UNCHANGED vars
    BY <1>1 DEF Start, Refused, Crash, Stop, vars
  <2> QED BY <1>1, <2>1, <2>2, <2>3 DEF Next
<1>2. Inv /\ [Next]_vars => [Survive]_vars
  <2> SUFFICES ASSUME Inv, [Next]_vars PROVE [Survive]_vars
    OBVIOUS
  <2>1. CASE disk' = disk
    BY <2>1 DEF There
  <2> QED BY <1>1, <2>1
<1> QED
  BY <1>2, Invariance, PTL DEF Spec, PostsSurvive
=============================================================================
