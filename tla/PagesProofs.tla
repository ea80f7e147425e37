---------------------------- MODULE PagesProofs ----------------------------
(***************************************************************************)
(* The pages of the list, for any clients, limit and bounds: when a walk   *)
(* can miss a post or show one twice, and that one beside no writer is     *)
(* exact.                                                                  *)
(***************************************************************************)
EXTENDS Pages, FiniteSetTheorems, SequenceTheorems, TLAPS
-----------------------------------------------------------------------------
\* Every set of naturals that is not empty has a least one.
LEMMA Least ==
    ASSUME NEW T \in SUBSET Nat, T # {}
    PROVE  \E x \in T : \A y \in T : x <= y
<1>1. PICK x \in T : \A y \in T : ~ (<<y, x>> \in OpToRel(<, Nat))
  BY WFMin, NatLessThanWellFounded
<1>2. \A y \in T : ~ (y < x)
  BY <1>1 DEF OpToRel
<1> QED
  BY <1>2

\* The tables there can be.
Tables == UNION {[D -> 0..MaxSecond] : D \in SUBSET Posts}

\* A table is finite, and has the posts and the seconds of the bounds.
LEMMA TableFacts ==
    ASSUME NEW t \in Tables
    PROVE  /\ DOMAIN t \subseteq Posts
           /\ \A i \in DOMAIN t : t[i] \in 0..MaxSecond /\ t[i] \in Int
           /\ IsFiniteSet(DOMAIN t)
           /\ Cardinality(DOMAIN t) \in Nat
           /\ Cardinality(DOMAIN t) <= MaxPosts
<1>1. PICK D \in SUBSET Posts : t \in [D -> 0..MaxSecond]
  BY DEF Tables
<1>2. IsFiniteSet(Posts) /\ Cardinality(Posts) = MaxPosts
  BY FS_Interval, PagesAssumption DEF Posts
<1>3. IsFiniteSet(D) /\ Cardinality(D) <= MaxPosts
  BY <1>2, FS_Subset
<1>4. Cardinality(D) \in Nat
  BY <1>3, FS_CardinalityType
<1>5. \A i \in DOMAIN t : t[i] \in 0..MaxSecond /\ t[i] \in Int
  BY <1>1, PagesAssumption
<1> QED
  BY <1>1, <1>3, <1>4, <1>5

\* What an order of a table is: each post of the table stands in it once.
LEMMA OrderFacts ==
    ASSUME NEW t \in Tables, NEW s \in Orders(t)
    PROVE  /\ s \in [1..Cardinality(DOMAIN t) -> DOMAIN t]
           /\ s \in Seq(Posts)
           /\ Len(s) = Cardinality(DOMAIN t)
           /\ \A j, k \in 1..Len(s) : s[j] = s[k] => j = k
           /\ \A j, k \in 1..Len(s) : j < k => t[s[j]] >= t[s[k]]
           /\ \A i \in DOMAIN t : \E k \in 1..Len(s) : s[k] = i
<1> DEFINE N == Cardinality(DOMAIN t)
<1>1. N \in Nat /\ IsFiniteSet(DOMAIN t) /\ DOMAIN t \subseteq Posts
  BY TableFacts
<1>2. s \in [1..N -> DOMAIN t] /\ \A j, k \in 1..N : j # k => s[j] # s[k]
  BY DEF Orders, SetToSeqs
<1>3. s \in Seq(Posts) /\ Len(s) = N
  <2>1. s \in [1..N -> Posts]
    BY <1>1, <1>2
  <2> QED
    BY <1>1, <2>1, SeqDef
<1>4. \A j, k \in 1..N : j < k => t[s[j]] >= t[s[k]]
  BY <1>2 DEF Orders
<1>5. \A i \in DOMAIN t : \E k \in 1..N : s[k] = i
  <2>1. s \in Injection(1..N, DOMAIN t)
    BY <1>2 DEF Injection, IsInjective
  <2>2. IsFiniteSet(1..N) /\ Cardinality(1..N) = N
    BY <1>1, FS_Interval
  <2>3. s \in Surjection(1..N, DOMAIN t)
    BY <1>1, <2>1, <2>2, FS_Injection
  <2> QED
    BY <2>3 DEF Surjection
<1> QED
  BY <1>2, <1>3, <1>4, <1>5

-----------------------------------------------------------------------------
\* The posts that are newer than i, and the place of i in every order when no
\* other post has its second.
Above(t, i) == {j \in DOMAIN t : t[j] > t[i]}
Rank(t, i) == 1 + Cardinality(Above(t, i))
Alone(t, i) == i \in DOMAIN t /\ \A j \in DOMAIN t \ {i} : t[j] # t[i]

\* A rank counts from one.
LEMMA RankType ==
    ASSUME NEW t \in Tables, NEW i \in DOMAIN t
    PROVE  IsFiniteSet(Above(t, i)) /\ Rank(t, i) \in Nat \ {0}
<1>1. IsFiniteSet(Above(t, i))
  <2>1. Above(t, i) \in SUBSET DOMAIN t
    BY DEF Above
  <2> QED
    BY <2>1, TableFacts, FS_Subset
<1>2. Cardinality(Above(t, i)) \in Nat
  BY <1>1, FS_CardinalityType
<1> QED
  BY <1>1, <1>2 DEF Rank

\* A post that shares its second with no other stands at its rank.
LEMMA PlaceIsRank ==
    ASSUME NEW t \in Tables, NEW s \in Orders(t), NEW i, Alone(t, i),
           NEW m \in 1..Len(s)
    PROVE  s[m] = i <=> m = Rank(t, i)
<1> DEFINE N == Len(s)
<1>1. /\ N \in Nat /\ i \in DOMAIN t
      /\ \A k \in 1..N : s[k] \in DOMAIN t
      /\ \A j, k \in 1..N : s[j] = s[k] => j = k
      /\ \A j, k \in 1..N : j < k => t[s[j]] >= t[s[k]]
      /\ \A j \in DOMAIN t : \E k \in 1..N : s[k] = j
      /\ \A j \in DOMAIN t : t[j] \in Int
  BY OrderFacts, TableFacts DEF Alone
<1> HIDE DEF N
<1>n. N \in Nat
  BY <1>1
<1>2. PICK p \in 1..N : s[p] = i
  BY <1>1
<1>3. p = Rank(t, i)
  <2> DEFINE f == [k \in 1..(p - 1) |-> s[k]]
  <2>1. \A k \in 1..(p - 1) : k \in 1..N /\ s[k] \in Above(t, i)
    <3> SUFFICES ASSUME NEW k \in 1..(p - 1)
                 PROVE  k \in 1..N /\ s[k] \in Above(t, i)
      OBVIOUS
    <3>1. k \in 1..N /\ k < p
      BY <1>n
    <3>2. t[s[k]] >= t[i] /\ s[k] # i
      <4>1. t[s[k]] >= t[s[p]]
        BY <1>1, <3>1
      <4>2. s[k] # s[p]
        <5>1. k # p
          BY <1>n, <3>1
        <5> QED
          BY <1>1, <3>1, <5>1
      <4> QED
        BY <1>2, <4>1, <4>2
    <3>3. t[s[k]] # t[i]
      BY <1>1, <3>1, <3>2 DEF Alone
    <3> QED
      BY <1>1, <3>1, <3>2, <3>3 DEF Above
  <2>2. \A j \in Above(t, i) : \E k \in 1..(p - 1) : s[k] = j
    <3> SUFFICES ASSUME NEW j \in Above(t, i)
                 PROVE  \E k \in 1..(p - 1) : s[k] = j
      OBVIOUS
    <3>1. j \in DOMAIN t /\ t[j] > t[i]
      BY DEF Above
    <3>2. PICK k \in 1..N : s[k] = j
      BY <1>1, <3>1
    <3>3. ~ (p < k) /\ k # p
      <4>1. p < k => t[i] >= t[j]
        BY <1>1, <1>2, <3>2
      <4>2. t[i] \in Int /\ t[j] \in Int
        BY <1>1, <3>1
      <4> QED
        BY <1>2, <3>1, <3>2, <4>1, <4>2
    <3>4. k \in 1..(p - 1)
      BY <1>n, <3>3
    <3> QED
      BY <3>2, <3>4
  <2>3. f \in Bijection(1..(p - 1), Above(t, i))
    <3>1. f \in [1..(p - 1) -> Above(t, i)]
      BY <2>1
    <3>2. \A j, k \in 1..(p - 1) : f[j] = f[k] => j = k
      BY <1>1, <2>1
    <3>3. \A j \in Above(t, i) : \E k \in 1..(p - 1) : f[k] = j
      BY <2>2
    <3> QED
      BY <3>1, <3>2, <3>3 DEF Bijection, Injection, Surjection, IsInjective
  <2>4. IsFiniteSet(1..(p - 1)) /\ Cardinality(1..(p - 1)) = p - 1
    BY <1>n, FS_Interval
  <2>5. Cardinality(Above(t, i)) = p - 1
    BY <2>3, <2>4, FS_Bijection DEF ExistsBijection
  <2> QED
    BY <2>5 DEF Rank
<1>4. m \in 1..N
  BY DEF N
<1> QED
  BY <1>1, <1>2, <1>3, <1>4

\* A post that shares its second with no other has a place in the order.
LEMMA RankInOrder ==
    ASSUME NEW t \in Tables, NEW s \in Orders(t), NEW i, Alone(t, i)
    PROVE  Rank(t, i) \in 1..Len(s)
BY OrderFacts, PlaceIsRank DEF Alone

\* Where more posts are, a post comes no earlier.
LEMMA RankGrows ==
    ASSUME NEW t \in Tables, NEW u \in Tables, NEW i \in DOMAIN t,
           DOMAIN t \subseteq DOMAIN u, \A j \in DOMAIN t : t[j] = u[j]
    PROVE  Rank(t, i) <= Rank(u, i)
<1>1. Above(t, i) \in SUBSET Above(u, i)
  BY DEF Above
<1>2. IsFiniteSet(Above(u, i)) /\ IsFiniteSet(Above(t, i))
  BY RankType
<1>3. Cardinality(Above(t, i)) <= Cardinality(Above(u, i))
  BY <1>1, <1>2, FS_Subset
<1>4. Cardinality(Above(t, i)) \in Nat /\ Cardinality(Above(u, i)) \in Nat
  BY <1>2, FS_CardinalityType
<1> QED
  BY <1>3, <1>4 DEF Rank
-----------------------------------------------------------------------------
\* OFFSET and LIMIT: the rows from the one after the offset on, at most Limit.
LEMMA SliceFacts ==
    ASSUME NEW s \in Seq(Posts), NEW o \in Nat
    PROVE  /\ Slice(s, o) \in Seq(Posts)
           /\ Len(Slice(s, o)) \in Nat /\ Len(Slice(s, o)) <= Limit
           /\ Len(Slice(s, o)) < Limit => Len(s) < o + Limit
           /\ Len(Slice(s, o)) = Limit => o + Limit <= Len(s)
           /\ \A m \in 1..Len(Slice(s, o)) :
                 o + m \in 1..Len(s) /\ Slice(s, o)[m] = s[o + m]
           /\ \A r \in 1..Len(s) :
                 o < r /\ r <= o + Limit => r - o \in 1..Len(Slice(s, o))
<1> DEFINE N == Len(s)
           e == IF o + Limit < N THEN o + Limit ELSE N
           len == Len(Slice(s, o))
<1>1. N \in Nat /\ \A k \in 1..N : s[k] \in Posts
  BY LenProperties
<1>2. Limit \in Nat \ {0}
  BY PagesAssumption
<1> HIDE DEF N
<1>3. /\ e \in Nat /\ e <= N /\ e <= o + Limit
      /\ o + Limit <= N => e = o + Limit
      /\ o + Limit > N => e = N
  BY <1>1, <1>2
<1>4. Slice(s, o) = SubSeq(s, o + 1, e)
  BY DEF Slice, N
<1> HIDE DEF e
<1>5. \A k \in (o + 1)..e : k \in 1..N
  BY <1>1, <1>3
<1>6. \A k \in (o + 1)..e : s[k] \in Posts
  BY <1>1, <1>5
<1>7. o + 1 \in Int /\ e \in Int
  BY <1>3
<1>8. /\ Slice(s, o) \in Seq(Posts)
      /\ len = IF o + 1 <= e THEN e - (o + 1) + 1 ELSE 0
      /\ \A m \in 1..(e - (o + 1) + 1) : Slice(s, o)[m] = s[(o + 1) + m - 1]
  BY <1>4, <1>6, <1>7, SubSeqProperties
<1> HIDE DEF len
<1>9. len \in Nat /\ len = IF o < e THEN e - o ELSE 0
  BY <1>3, <1>8
<1>10. len <= Limit
  BY <1>2, <1>3, <1>9
<1>11. len < Limit => N < o + Limit
  BY <1>1, <1>2, <1>3, <1>9
<1>12. len = Limit => o + Limit <= N
  BY <1>1, <1>2, <1>3, <1>9
<1>13. \A m \in 1..len : o + m \in 1..N /\ Slice(s, o)[m] = s[o + m]
  <2> SUFFICES ASSUME NEW m \in 1..len
               PROVE  o + m \in 1..N /\ Slice(s, o)[m] = s[o + m]
    OBVIOUS
  <2>1. m \in 1..(e - (o + 1) + 1) /\ o + m \in 1..N
    BY <1>1, <1>3, <1>9
  <2>2. (o + 1) + m - 1 = o + m
    BY <1>9
  <2> QED
    BY <1>8, <2>1, <2>2
<1>14. \A r \in 1..N : o < r /\ r <= o + Limit => r - o \in 1..len
  BY <1>1, <1>2, <1>3, <1>9
<1> QED
  BY <1>8, <1>9, <1>10, <1>11, <1>12, <1>13, <1>14 DEF N, len

\* The rows are what the query makes of the table t at the offset o.
CutOf(t, o, rows) == \E s \in Orders(t) : rows = Slice(s, o)

\* A page has no more rows than the limit, all of its table, and none twice.
LEMMA CutFacts ==
    ASSUME NEW t \in Tables, NEW o \in Nat, NEW rows, CutOf(t, o, rows)
    PROVE  /\ rows \in Seq(Posts)
           /\ Len(rows) \in Nat /\ Len(rows) <= Limit
           /\ Len(rows) = Limit => o + Limit <= MaxPosts
           /\ \A m \in 1..Len(rows) : rows[m] \in DOMAIN t
           /\ \A m, n \in 1..Len(rows) : rows[m] = rows[n] => m = n
<1>1. PICK s \in Orders(t) : rows = Slice(s, o)
  BY DEF CutOf
<1>2. /\ s \in Seq(Posts) /\ s \in [1..Len(s) -> DOMAIN t]
      /\ \A j, k \in 1..Len(s) : s[j] = s[k] => j = k
  BY OrderFacts
<1>3. Len(s) \in Nat /\ Len(s) <= MaxPosts
  BY OrderFacts, TableFacts
<1>4. /\ rows \in Seq(Posts)
      /\ Len(rows) \in Nat /\ Len(rows) <= Limit
      /\ Len(rows) = Limit => o + Limit <= Len(s)
      /\ \A m \in 1..Len(rows) : o + m \in 1..Len(s) /\ rows[m] = s[o + m]
  BY <1>1, <1>2, SliceFacts
<1>5. Len(rows) = Limit => o + Limit <= MaxPosts
  BY <1>3, <1>4, PagesAssumption
<1>6. \A m \in 1..Len(rows) : rows[m] \in DOMAIN t
  BY <1>2, <1>4
<1>7. \A m, n \in 1..Len(rows) : rows[m] = rows[n] => m = n
  <2> SUFFICES ASSUME NEW m \in 1..Len(rows), NEW n \in 1..Len(rows), rows[m] = rows[n]
               PROVE  m = n
    OBVIOUS
  <2>1. o + m = o + n
    BY <1>2, <1>4
  <2>2. m \in Nat /\ n \in Nat
    BY <1>4
  <2> QED
    BY <2>1, <2>2
<1> QED
  BY <1>4, <1>5, <1>6, <1>7

\* A post that shares its second with no other is on the page that its rank
\* falls on, there only, and not beyond a page that is not full.
LEMMA CutByRank ==
    ASSUME NEW t \in Tables, NEW o \in Nat, NEW rows, CutOf(t, o, rows),
           NEW i, Alone(t, i)
    PROVE  /\ Rank(t, i) \in Nat
           /\ \A m \in 1..Len(rows) : rows[m] = i => Rank(t, i) = o + m
           /\ o < Rank(t, i) /\ Rank(t, i) <= o + Limit
                => \E m \in 1..Limit : m <= Len(rows) /\ rows[m] = i
           /\ Len(rows) < Limit => Rank(t, i) <= o + Limit
<1> DEFINE r == Rank(t, i)
<1>1. PICK s \in Orders(t) : rows = Slice(s, o)
  BY DEF CutOf
<1>2. s \in Seq(Posts) /\ Len(s) \in Nat
  BY OrderFacts, TableFacts
<1>3. r \in 1..Len(s) /\ r \in Nat
  BY <1>2, RankInOrder
<1>4. \A k \in 1..Len(s) : s[k] = i <=> k = r
  BY PlaceIsRank
<1>5. Len(rows) \in Nat /\ Len(rows) <= Limit /\ Limit \in Nat
  BY CutFacts, PagesAssumption
<1>6. /\ Len(rows) < Limit => Len(s) < o + Limit
      /\ \A m \in 1..Len(rows) : o + m \in 1..Len(s) /\ rows[m] = s[o + m]
      /\ \A k \in 1..Len(s) : o < k /\ k <= o + Limit => k - o \in 1..Len(rows)
  BY <1>1, <1>2, SliceFacts
<1> HIDE DEF r
<1>7. \A m \in 1..Len(rows) : rows[m] = i => r = o + m
  BY <1>4, <1>6
<1>8. ASSUME o < r, r <= o + Limit
      PROVE  \E m \in 1..Limit : m <= Len(rows) /\ rows[m] = i
  <2>1. r - o \in 1..Len(rows)
    BY <1>3, <1>6, <1>8
  <2>2. o + (r - o) = r
    BY <1>3
  <2>3. rows[r - o] = i
    BY <1>3, <1>4, <1>6, <2>1, <2>2
  <2>4. r - o \in 1..Limit /\ r - o <= Len(rows)
    BY <1>5, <2>1
  <2> QED
    BY <2>3, <2>4
<1>9. Len(rows) < Limit => r <= o + Limit
  BY <1>2, <1>3, <1>5, <1>6
<1> QED
  BY <1>3, <1>7, <1>8, <1>9 DEF r
-----------------------------------------------------------------------------
(***************************************************************************)
(* The inductive invariant: every page, in Redis, read or shown, is what   *)
(* the query made of one of the tables there have been.                    *)
(***************************************************************************)
\* The page p was cut from one of the tables ts at the offset o.
CutFrom(ts, p, o) ==
    /\ p \in Page /\ p.asOf \in DOMAIN ts
    /\ CutOf(ts[p.asOf], o, p.rows)

\* There is a table for each write, and no more writers than writes.
History ==
    /\ tables \in Seq(Tables) /\ due \in Nat
    /\ due + 1 <= Len(tables) /\ Len(tables) <= MaxWrites + 1

\* A post keeps its second, and a write adds posts or takes some away.
Rigid ==
    \A m, n \in DOMAIN tables :
        \A i \in DOMAIN tables[m] : i \in DOMAIN tables[n] => tables[m][i] = tables[n][i]
OneWay ==
    \A n \in 1..(Len(tables) - 1) :
        Grows(n) \/ DOMAIN tables[n + 1] \subseteq DOMAIN tables[n]

CachedCut ==
    /\ DOMAIN cache = Offsets
    /\ \A k \in Offsets : cache[k] # Absent => CutFrom(tables, cache[k], k)
ReadCut ==
    /\ pc \in [Clients -> {"idle", "query", "query_direct", "store"}] /\ page \in [Clients -> Page]
    /\ \A c \in Clients : pc[c] = "store" => CutFrom(tables, page[c], Skip(c))
ShownCut ==
    /\ shown \in [Clients -> Seq(Page)]
    /\ \A c \in Clients : \A n \in DOMAIN shown[c] :
         CutFrom(tables, shown[c][n], Limit * (n - 1))

\* While no eviction is due, a page in Redis is of the present table, or was late,
\* or was spared by an eviction that was lost; and so is a page of a quiet walk.
Fresh(p) == p.late \/ p.spared \/ p.asOf = Len(tables)
CachedFresh == due = 0 => \A k \in Offsets : cache[k] # Absent => Fresh(cache[k])
QuietFresh ==
    /\ quiet \subseteq Clients /\ (quiet # {} => due = 0)
    /\ \A c \in quiet : \A n \in DOMAIN shown[c] : Fresh(shown[c][n])

Inv ==
    /\ History /\ Rigid /\ OneWay
    /\ CachedCut /\ ReadCut /\ ShownCut
    /\ CachedFresh /\ QuietFresh
-----------------------------------------------------------------------------
(***************************************************************************)
(* What the invariant says of the pages of a walk.                         *)
(***************************************************************************)
\* What each step keeps, many keep.
LEMMA Chain ==
    ASSUME NEW D, NEW a \in Nat, NEW b \in Nat, a <= b,
           \A n \in a..(b - 1) : D[n] \subseteq D[n + 1]
    PROVE  D[a] \subseteq D[b]
<1> DEFINE T == {n \in a..b : ~(D[a] \subseteq D[n])}
<1>1. CASE T = {}
  <2>1. b \in a..b
    OBVIOUS
  <2> QED
    BY <1>1, <2>1
<1>2. CASE T # {}
  <2>1. T \in SUBSET Nat
    OBVIOUS
  <2>2. PICK n \in T : \A k \in T : n <= k
    BY <1>2, <2>1, Least
  <2>3. n \in a..b /\ ~(D[a] \subseteq D[n])
    OBVIOUS
  <2>4. n # a
    BY <2>3
  <2>5. n - 1 \in a..(b - 1) /\ n - 1 \in a..b /\ ~(n <= n - 1) /\ (n - 1) + 1 = n
    BY <2>3, <2>4
  <2>6. D[a] \subseteq D[n - 1]
    BY <2>2, <2>5
  <2>7. D[n - 1] \subseteq D[n]
    BY <2>5
  <2> QED
    BY <2>3, <2>6, <2>7
<1> QED
  BY <1>1, <1>2

\* The table that the page n of the walk of c was cut from.
CutTable(c, n) == tables[shown[c][n].asOf]

\* The page n of a walk is cut from a table at the offset of the pages before it.
LEMMA ShownFacts ==
    ASSUME History, ShownCut, NEW c \in Clients, NEW n \in DOMAIN shown[c]
    PROVE  /\ shown[c] \in Seq(Page) /\ Len(shown[c]) \in Nat
           /\ DOMAIN shown[c] = 1..Len(shown[c])
           /\ n \in 1..Len(shown[c]) /\ n \in Nat /\ n >= 1
           /\ shown[c][n].asOf \in Nat /\ shown[c][n].asOf \in DOMAIN tables
           /\ CutTable(c, n) \in Tables /\ CutTable(c, n) \in Cut(c)
           /\ Limit * (n - 1) \in Nat
           /\ CutOf(CutTable(c, n), Limit * (n - 1), shown[c][n].rows)
<1>1. /\ shown[c] \in Seq(Page) /\ Len(shown[c]) \in Nat
      /\ DOMAIN shown[c] = 1..Len(shown[c])
  BY LenProperties DEF ShownCut
<1>2. n \in 1..Len(shown[c]) /\ n \in Nat /\ n >= 1
  BY <1>1
<1>3. CutFrom(tables, shown[c][n], Limit * (n - 1))
  BY DEF ShownCut
<1>4. Limit * (n - 1) \in Nat
  <2>1. n - 1 \in Nat /\ Limit \in Nat
    BY <1>2, PagesAssumption
  <2> QED
    BY <2>1
<1>5. tables \in [1..Len(tables) -> Tables] /\ Len(tables) \in Nat
  BY LenProperties DEF History
<1>6. shown[c][n].asOf \in DOMAIN tables /\ shown[c][n].asOf \in Nat
  BY <1>3, <1>5 DEF CutFrom
<1>7. CutTable(c, n) \in Tables
  BY <1>5, <1>6 DEF CutTable
<1>8. CutTable(c, n) \in Cut(c)
  BY DEF CutTable, Cut
<1> QED
  BY <1>1, <1>2, <1>3, <1>4, <1>6, <1>7, <1>8 DEF CutFrom, CutTable

\* Between tables without a shrinking write, posts only come.
LEMMA OnlyCame ==
    ASSUME History, OneWay, NEW a \in DOMAIN tables, NEW b \in DOMAIN tables,
           a <= b, \A n \in a..(b - 1) : Grows(n)
    PROVE  DOMAIN tables[a] \subseteq DOMAIN tables[b]
<1> DEFINE D == [n \in DOMAIN tables |-> DOMAIN tables[n]]
<1>1. DOMAIN tables = 1..Len(tables) /\ Len(tables) \in Nat
  BY LenProperties DEF History
<1>2. a \in Nat /\ b \in Nat
  BY <1>1
<1>3. \A n \in a..(b - 1) : n \in DOMAIN tables /\ n + 1 \in DOMAIN tables
  BY <1>1
<1>4. \A n \in a..(b - 1) : D[n] \subseteq D[n + 1]
  BY <1>3 DEF Grows
<1> HIDE DEF D
<1>5. D[a] \subseteq D[b]
  BY <1>2, <1>4, Chain
<1> QED
  BY <1>5 DEF D

\* Between tables without a growing write, posts only go.
LEMMA OnlyWent ==
    ASSUME History, OneWay, NEW a \in DOMAIN tables, NEW b \in DOMAIN tables,
           a <= b, \A n \in a..(b - 1) : ~Grows(n)
    PROVE  DOMAIN tables[b] \subseteq DOMAIN tables[a]
<1> DEFINE D == [n \in DOMAIN tables |-> Posts \ DOMAIN tables[n]]
<1>1. /\ DOMAIN tables = 1..Len(tables) /\ Len(tables) \in Nat
      /\ tables \in [1..Len(tables) -> Tables]
  BY LenProperties DEF History
<1>2. a \in Nat /\ b \in Nat
  BY <1>1
<1>3. \A n \in a..(b - 1) :
         n \in DOMAIN tables /\ n + 1 \in DOMAIN tables /\ n \in 1..(Len(tables) - 1)
  BY <1>1
<1>4. \A n \in a..(b - 1) : DOMAIN tables[n + 1] \subseteq DOMAIN tables[n]
  BY <1>3 DEF OneWay
<1>5. \A n \in a..(b - 1) : D[n] \subseteq D[n + 1]
  BY <1>3, <1>4
<1>6. DOMAIN tables[b] \subseteq Posts
  BY <1>1, TableFacts
<1> HIDE DEF D
<1>7. D[a] \subseteq D[b]
  BY <1>2, <1>5, Chain
<1> QED
  BY <1>6, <1>7 DEF D

\* No write of the one kind lies between two pages, in the order they were cut.
LEMMA NotBetween ==
    ASSUME NEW p, NEW q
    PROVE  /\ ~Between(p, q, FALSE) => \A n \in p.asOf..(q.asOf - 1) : Grows(n)
           /\ ~Between(p, q, TRUE) => \A n \in p.asOf..(q.asOf - 1) : ~Grows(n)
BY DEF Between, Grows

\* What a walk without a reason to miss a post has cut only comes.
LEMMA WalkGains ==
    ASSUME Inv, NEW c \in Clients, ~Moved(c, FALSE), ~Outlived(c, TRUE),
           NEW m \in DOMAIN shown[c], NEW n \in DOMAIN shown[c], m < n
    PROVE  DOMAIN CutTable(c, m) \subseteq DOMAIN CutTable(c, n)
<1> DEFINE a == shown[c][m].asOf
           b == shown[c][n].asOf
<1>1. /\ ~Between(shown[c][m], shown[c][n], FALSE)
      /\ ~Between(shown[c][n], shown[c][m], TRUE)
  BY DEF Moved, Outlived
<1>2. (\A k \in a..(b - 1) : Grows(k)) /\ (\A k \in b..(a - 1) : ~Grows(k))
  BY <1>1, NotBetween
<1>3. a \in DOMAIN tables /\ b \in DOMAIN tables /\ a \in Nat /\ b \in Nat
  BY ShownFacts DEF Inv
<1> HIDE DEF a, b
<1>4. DOMAIN tables[a] \subseteq DOMAIN tables[b]
  <2>1. CASE a <= b
    BY <1>2, <1>3, <2>1, OnlyCame DEF Inv
  <2>2. CASE b <= a
    BY <1>2, <1>3, <2>2, OnlyWent DEF Inv
  <2> QED
    BY <1>3, <2>1, <2>2
<1> QED
  BY <1>4 DEF CutTable, a, b

\* What a walk without a reason to show a post twice has cut only goes.
LEMMA WalkLoses ==
    ASSUME Inv, NEW c \in Clients, ~Moved(c, TRUE), ~Outlived(c, FALSE),
           NEW m \in DOMAIN shown[c], NEW n \in DOMAIN shown[c], m < n
    PROVE  DOMAIN CutTable(c, n) \subseteq DOMAIN CutTable(c, m)
<1> DEFINE a == shown[c][m].asOf
           b == shown[c][n].asOf
<1>1. /\ ~Between(shown[c][m], shown[c][n], TRUE)
      /\ ~Between(shown[c][n], shown[c][m], FALSE)
  BY DEF Moved, Outlived
<1>2. (\A k \in a..(b - 1) : ~Grows(k)) /\ (\A k \in b..(a - 1) : Grows(k))
  BY <1>1, NotBetween
<1>3. a \in DOMAIN tables /\ b \in DOMAIN tables /\ a \in Nat /\ b \in Nat
  BY ShownFacts DEF Inv
<1> HIDE DEF a, b
<1>4. DOMAIN tables[b] \subseteq DOMAIN tables[a]
  <2>1. CASE a <= b
    BY <1>2, <1>3, <2>1, OnlyWent DEF Inv
  <2>2. CASE b <= a
    BY <1>2, <1>3, <2>2, OnlyCame DEF Inv
  <2> QED
    BY <1>3, <2>1, <2>2
<1> QED
  BY <1>4 DEF CutTable, a, b

\* A post keeps its second, so it ranks no higher where more posts are.
LEMMA WalkRanks ==
    ASSUME Inv, NEW c \in Clients,
           NEW m \in DOMAIN shown[c], NEW n \in DOMAIN shown[c],
           DOMAIN CutTable(c, m) \subseteq DOMAIN CutTable(c, n),
           NEW i \in DOMAIN CutTable(c, m)
    PROVE  Rank(CutTable(c, m), i) <= Rank(CutTable(c, n), i)
<1>1. /\ shown[c][m].asOf \in DOMAIN tables /\ CutTable(c, m) \in Tables
      /\ shown[c][n].asOf \in DOMAIN tables /\ CutTable(c, n) \in Tables
  BY ShownFacts DEF Inv
<1>2. \A j \in DOMAIN CutTable(c, m) : CutTable(c, m)[j] = CutTable(c, n)[j]
  BY <1>1 DEF Inv, Rigid, CutTable
<1> QED
  BY <1>1, <1>2, RankGrows
-----------------------------------------------------------------------------
-----------------------------------------------------------------------------
(***************************************************************************)
(* Where a walk shows a post.                                              *)
(***************************************************************************)
\* The pages and rows where the walk of c has shown the post i.
Sights(c, i) ==
    {q \in (DOMAIN shown[c]) \X (1..Limit) :
       q[2] <= Len(shown[c][q[1]].rows) /\ shown[c][q[1]].rows[q[2]] = i}

\* The sights of a post are finitely many, and each is on a page whose table has it.
LEMMA SightFacts ==
    ASSUME Inv, NEW c \in Clients, NEW i
    PROVE  /\ Times(c, i) = Cardinality(Sights(c, i)) /\ IsFiniteSet(Sights(c, i))
           /\ Times(c, i) \in Nat
           /\ Times(c, i) = 0 <=> Sights(c, i) = {}
           /\ \A q \in Sights(c, i) :
                /\ q = <<q[1], q[2]>> /\ q[1] \in DOMAIN shown[c] /\ q[2] \in Nat
                /\ q[2] \in 1..Limit /\ q[2] \in 1..Len(shown[c][q[1]].rows)
                /\ shown[c][q[1]].rows[q[2]] = i
                /\ i \in DOMAIN CutTable(c, q[1])
<1>1. Times(c, i) = Cardinality(Sights(c, i))
  BY DEF Times, Sights
<1>2. IsFiniteSet(Sights(c, i))
  <2>1. shown[c] \in Seq(Page) /\ Limit \in Nat
    BY PagesAssumption DEF Inv, ShownCut
  <2>2. DOMAIN shown[c] = 1..Len(shown[c]) /\ Len(shown[c]) \in Nat
    BY <2>1, LenProperties
  <2>3. IsFiniteSet(DOMAIN shown[c]) /\ IsFiniteSet(1..Limit)
    BY <2>1, <2>2, FS_Interval
  <2>4. IsFiniteSet((DOMAIN shown[c]) \X (1..Limit))
    BY <2>3, FS_Product
  <2>5. Sights(c, i) \in SUBSET ((DOMAIN shown[c]) \X (1..Limit))
    BY DEF Sights
  <2> QED
    BY <2>4, <2>5, FS_Subset
<1>3. Times(c, i) \in Nat /\ (Times(c, i) = 0 <=> Sights(c, i) = {})
  BY <1>1, <1>2, FS_CardinalityType, FS_EmptySet
<1>4. ASSUME NEW q \in Sights(c, i)
      PROVE  /\ q = <<q[1], q[2]>> /\ q[1] \in DOMAIN shown[c] /\ q[2] \in Nat
             /\ q[2] \in 1..Limit /\ q[2] \in 1..Len(shown[c][q[1]].rows)
             /\ shown[c][q[1]].rows[q[2]] = i
             /\ i \in DOMAIN CutTable(c, q[1])
  <2>1. /\ q \in (DOMAIN shown[c]) \X (1..Limit)
        /\ q[2] <= Len(shown[c][q[1]].rows) /\ shown[c][q[1]].rows[q[2]] = i
    BY DEF Sights
  <2>2. q = <<q[1], q[2]>> /\ q[1] \in DOMAIN shown[c] /\ q[2] \in 1..Limit
    BY <2>1
  <2>3. /\ CutTable(c, q[1]) \in Tables
        /\ Limit * (q[1] - 1) \in Nat
        /\ CutOf(CutTable(c, q[1]), Limit * (q[1] - 1), shown[c][q[1]].rows)
    BY <2>2, ShownFacts DEF Inv
  <2>4. /\ Len(shown[c][q[1]].rows) \in Nat
        /\ \A m \in 1..Len(shown[c][q[1]].rows) :
             shown[c][q[1]].rows[m] \in DOMAIN CutTable(c, q[1])
    BY <2>3, CutFacts
  <2>5. q[2] \in Nat /\ q[2] \in 1..Len(shown[c][q[1]].rows)
    BY <2>1, <2>2, <2>4, PagesAssumption
  <2> QED
    BY <2>1, <2>2, <2>4, <2>5
<1> QED
  BY <1>1, <1>2, <1>3, <1>4

\* A post of a table of the walk that is not tied is alone in its second there.
LEMMA UntiedIsAlone ==
    ASSUME Inv, NEW c \in Clients, NEW i, ~Tied(c, i), NEW n \in DOMAIN shown[c],
           i \in DOMAIN CutTable(c, n)
    PROVE  Alone(CutTable(c, n), i)
<1>1. CutTable(c, n) \in Cut(c)
  BY ShownFacts DEF Inv
<1> QED
  BY <1>1 DEF Tied, Alone

\* The offsets of the pages of a walk adjoin.
LEMMA Adjoining ==
    ASSUME NEW n \in Nat, NEW m \in Nat
    PROVE  /\ Limit * n \in Nat /\ Limit * (n - 1) + Limit = Limit * n
           /\ m < n => Limit * m <= Limit * (n - 1)
           /\ n <= Limit * n
<1>1. Limit \in Nat
  BY PagesAssumption
<1>2. Limit * n \in Nat /\ Limit * (n - 1) + Limit = Limit * n
  BY <1>1
<1>3. ASSUME m < n
      PROVE  Limit * m <= Limit * (n - 1)
  <2>1. PICK d \in Nat : n - 1 = m + d
    <3>1. n - 1 - m \in Nat /\ n - 1 = m + (n - 1 - m)
      BY <1>3
    <3> QED
      BY <3>1
  <2>2. Limit * (m + d) = Limit * m + Limit * d
    BY <1>1
  <2>3. Limit * m \in Nat /\ Limit * d \in Nat
    BY <1>1
  <2> QED
    BY <2>1, <2>2, <2>3
<1>4. n <= Limit * n
  <2>1. PICK d \in Nat : Limit = d + 1
    <3>1. Limit - 1 \in Nat /\ Limit = (Limit - 1) + 1
      BY PagesAssumption
    <3> QED
      BY <3>1
  <2>2. (d + 1) * n = d * n + n
    OBVIOUS
  <2>3. d * n \in Nat
    OBVIOUS
  <2> QED
    BY <2>1, <2>2, <2>3
<1> QED
  BY <1>2, <1>3, <1>4

\* A finished walk whose tables all have the post i has shown it, unless there
\* was a reason not to.
LEMMA WalkShows ==
    ASSUME Inv, NEW c \in Clients, Finished(c), NEW i,
           \A n \in DOMAIN shown[c] : i \in DOMAIN CutTable(c, n),
           ~Tied(c, i), ~Moved(c, FALSE), ~Outlived(c, TRUE)
    PROVE  Sights(c, i) # {}
<1> DEFINE N == Len(shown[c])
           r(n) == Rank(CutTable(c, n), i)
           T == {n \in 1..N : r(n) <= Limit * n}
<1>1. DOMAIN shown[c] = 1..N /\ N \in Nat /\ N >= 1 /\ Len(shown[c][N].rows) < Limit
  <2>1. shown[c] \in Seq(Page)
    BY DEF Inv, ShownCut
  <2>2. shown[c] # << >> /\ Len(shown[c][N].rows) < Limit
    BY DEF Finished, Last
  <2>3. N \in Nat \ {0}
    BY <2>1, <2>2, EmptySeq
  <2> QED
    BY <2>1, <2>2, <2>3, LenProperties
<1>2. \A n \in 1..N : n \in DOMAIN shown[c] /\ n \in Nat
  BY <1>1
<1>3. ASSUME NEW n \in 1..N
      PROVE  /\ r(n) \in Nat
             /\ Limit * (n - 1) < r(n) /\ r(n) <= Limit * (n - 1) + Limit
                  => \E m \in 1..Limit : m <= Len(shown[c][n].rows) /\ shown[c][n].rows[m] = i
             /\ Len(shown[c][n].rows) < Limit => r(n) <= Limit * (n - 1) + Limit
  <2>1. /\ CutTable(c, n) \in Tables /\ Limit * (n - 1) \in Nat
        /\ CutOf(CutTable(c, n), Limit * (n - 1), shown[c][n].rows)
    BY <1>2, ShownFacts DEF Inv
  <2>2. Alone(CutTable(c, n), i)
    BY <1>2, UntiedIsAlone
  <2> QED
    BY <2>1, <2>2, CutByRank
<1>4. ASSUME NEW m \in 1..N, NEW n \in 1..N, m < n
      PROVE  r(m) <= r(n)
  <2>1. DOMAIN CutTable(c, m) \subseteq DOMAIN CutTable(c, n)
    BY <1>2, <1>4, WalkGains
  <2> QED
    BY <1>2, <2>1, WalkRanks
<1> HIDE DEF r, N
<1>5. N \in T
  <2>1. N \in 1..N
    BY <1>1
  <2>2. r(N) <= Limit * (N - 1) + Limit
    BY <1>1, <1>3, <2>1
  <2>3. Limit * (N - 1) + Limit = Limit * N
    BY <1>1, Adjoining
  <2> QED
    BY <2>1, <2>2, <2>3
<1>6. T \in SUBSET Nat /\ T # {}
  BY <1>2, <1>5
<1>7. PICK n \in T : \A k \in T : n <= k
  BY <1>6, Least
<1>8. n \in 1..N /\ n \in Nat /\ r(n) <= Limit * n /\ r(n) \in Nat
  BY <1>2, <1>3
<1>9. Limit * (n - 1) + Limit = Limit * n /\ r(n) <= Limit * (n - 1) + Limit
  BY <1>8, Adjoining
<1>10. Limit * (n - 1) < r(n)
  <2>1. CASE n = 1
    <3>1. Limit * (n - 1) = 0
      BY <2>1, PagesAssumption
    <3>2. r(n) # 0
      <4>1. CutTable(c, n) \in Tables /\ i \in DOMAIN CutTable(c, n)
        BY <1>2, <1>8, ShownFacts DEF Inv
      <4> QED
        BY <4>1, RankType DEF r
    <3> QED
      BY <1>8, <3>1, <3>2
  <2>2. CASE n # 1
    <3>1. n - 1 \in 1..N /\ n - 1 < n /\ n - 1 \in Nat
      BY <1>1, <1>8, <2>2
    <3>2. ~(r(n - 1) <= Limit * (n - 1))
      <4>1. n - 1 \notin T
        BY <1>7, <1>8, <3>1
      <4> QED
        BY <3>1, <4>1
    <3>3. r(n - 1) <= r(n) /\ r(n - 1) \in Nat /\ r(n) \in Nat
      BY <1>3, <1>4, <1>8, <3>1
    <3>4. Limit * (n - 1) \in Nat
      BY <3>1, Adjoining
    <3> QED
      BY <3>2, <3>3, <3>4
  <2> QED
    BY <2>1, <2>2
<1>11. PICK m \in 1..Limit : m <= Len(shown[c][n].rows) /\ shown[c][n].rows[m] = i
  BY <1>3, <1>8, <1>9, <1>10
<1>12. <<n, m>> \in Sights(c, i)
  BY <1>2, <1>8, <1>11 DEF Sights
<1> QED
  BY <1>12

\* A walk has shown the post i once at most, unless there was a reason.
LEMMA WalkShowsOnce ==
    ASSUME Inv, NEW c \in Clients, NEW i,
           ~Tied(c, i), ~Moved(c, TRUE), ~Outlived(c, FALSE),
           NEW p \in Sights(c, i), NEW q \in Sights(c, i)
    PROVE  p = q
<1>1. ASSUME NEW v \in Sights(c, i)
      PROVE  /\ v = <<v[1], v[2]>> /\ v[1] \in DOMAIN shown[c]
             /\ v[1] \in Nat /\ v[2] \in Nat /\ v[2] \in 1..Limit
             /\ i \in DOMAIN CutTable(c, v[1])
             /\ Limit * (v[1] - 1) \in Nat
             /\ Rank(CutTable(c, v[1]), i) = Limit * (v[1] - 1) + v[2]
  <2>1. /\ v = <<v[1], v[2]>> /\ v[1] \in DOMAIN shown[c] /\ v[2] \in Nat
        /\ v[2] \in 1..Limit /\ v[2] \in 1..Len(shown[c][v[1]].rows)
        /\ shown[c][v[1]].rows[v[2]] = i
        /\ i \in DOMAIN CutTable(c, v[1])
    BY SightFacts
  <2>2. /\ CutTable(c, v[1]) \in Tables /\ Limit * (v[1] - 1) \in Nat /\ v[1] \in Nat
        /\ CutOf(CutTable(c, v[1]), Limit * (v[1] - 1), shown[c][v[1]].rows)
    BY <2>1, ShownFacts DEF Inv
  <2>3. Alone(CutTable(c, v[1]), i)
    BY <2>1, UntiedIsAlone
  <2> QED
    BY <2>1, <2>2, <2>3, CutByRank
<1>2. ASSUME NEW v \in Sights(c, i), NEW w \in Sights(c, i), v[1] < w[1]
      PROVE  FALSE
  <2> DEFINE rv == Rank(CutTable(c, v[1]), i)
             rw == Rank(CutTable(c, w[1]), i)
             ov == Limit * (v[1] - 1)
             ow == Limit * (w[1] - 1)
  <2>1. /\ v[1] \in DOMAIN shown[c] /\ v[1] \in Nat /\ v[2] \in 1..Limit
        /\ ov \in Nat /\ rv = ov + v[2]
    BY <1>1
  <2>2. /\ w[1] \in DOMAIN shown[c] /\ w[1] \in Nat /\ w[2] \in 1..Limit
        /\ ow \in Nat /\ rw = ow + w[2] /\ i \in DOMAIN CutTable(c, w[1])
    BY <1>1
  <2>3. DOMAIN CutTable(c, w[1]) \subseteq DOMAIN CutTable(c, v[1])
    BY <1>2, <2>1, <2>2, WalkLoses
  <2>4. rw <= rv
    BY <2>1, <2>2, <2>3, WalkRanks
  <2>5. ov + Limit <= ow
    <3>1. ov + Limit = Limit * v[1]
      BY <2>1, Adjoining
    <3>2. Limit * v[1] <= ow
      BY <1>2, <2>1, <2>2, Adjoining
    <3> QED
      BY <3>1, <3>2
  <2> HIDE DEF rv, rw, ov, ow
  <2>6. Limit \in Nat
    BY PagesAssumption
  <2> QED
    BY <2>1, <2>2, <2>4, <2>5, <2>6
<1>3. p[1] \in Nat /\ q[1] \in Nat /\ p[2] \in Nat /\ q[2] \in Nat
  BY <1>1
<1>4. p[1] = q[1]
  BY <1>2, <1>3
<1>5. p[2] = q[2]
  <2> DEFINE o == Limit * (p[1] - 1)
             r == Rank(CutTable(c, p[1]), i)
  <2>1. o \in Nat /\ r = o + p[2] /\ r = o + q[2]
    BY <1>1, <1>4
  <2> HIDE DEF o, r
  <2> QED
    BY <1>3, <2>1
<1> QED
  BY <1>1, <1>4, <1>5
-----------------------------------------------------------------------------
(***************************************************************************)
(* The invariant implies the properties.                                   *)
(***************************************************************************)
\* A page of the invariant has no more rows than the limit.
LEMMA InvTypes == Inv => TypeOK
<1> SUFFICES ASSUME Inv
             PROVE  TypeOK
  OBVIOUS
<1>1. /\ DOMAIN tables = 1..Len(tables) /\ Len(tables) \in Nat
      /\ \A n \in DOMAIN tables : tables[n] \in Tables
  BY LenProperties DEF Inv, History
<1>2. \A n \in DOMAIN tables :
         DOMAIN tables[n] \subseteq Posts /\ \A i \in DOMAIN tables[n] : tables[n][i] \in 0..MaxSecond
  BY <1>1, TableFacts
<1>3. due \in 0..MaxWrites
  BY <1>1, PagesAssumption DEF Inv, History
<1>4. ASSUME NEW k \in Offsets, cache[k] # Absent
      PROVE  cache[k] \in Page /\ Len(cache[k].rows) <= Limit
  <2>1. CutFrom(tables, cache[k], k)
    BY <1>4 DEF Inv, CachedCut
  <2>2. k \in Nat
    BY PagesAssumption DEF Offsets
  <2>3. /\ cache[k] \in Page /\ tables[cache[k].asOf] \in Tables
        /\ CutOf(tables[cache[k].asOf], k, cache[k].rows)
    BY <1>1, <2>1 DEF CutFrom
  <2> QED
    BY <2>2, <2>3, CutFacts
<1> QED
  BY <1>2, <1>3, <1>4 DEF TypeOK, Inv, ReadCut, ShownCut, QuietFresh

\* A walk that missed a post without a reason would have shown it.
LEMMA InvMissed == Inv => MissedExplained
<1> SUFFICES ASSUME Inv, NEW c \in Clients, Finished(c), NEW i \in Posts,
                    \A t \in Cut(c) : i \in DOMAIN t, Times(c, i) = 0,
                    ~Tied(c, i), ~Moved(c, FALSE), ~Outlived(c, TRUE)
             PROVE  FALSE
  BY DEF MissedExplained
<1>1. \A n \in DOMAIN shown[c] : i \in DOMAIN CutTable(c, n)
  BY DEF Cut, CutTable
<1>2. Sights(c, i) # {}
  BY <1>1, WalkShows
<1> QED
  BY <1>2, SightFacts

\* Without a reason to show a post twice there is one sight of it at most.
LEMMA TimesAtMostOne ==
    ASSUME Inv, NEW c \in Clients, NEW i,
           ~Tied(c, i), ~Moved(c, TRUE), ~Outlived(c, FALSE)
    PROVE  Times(c, i) \in {0, 1}
<1>1. CASE Sights(c, i) = {}
  BY <1>1, SightFacts
<1>2. CASE Sights(c, i) # {}
  <2>1. PICK p \in Sights(c, i) : TRUE
    BY <1>2
  <2>2. Sights(c, i) = {p}
    <3>1. \A q \in Sights(c, i) : q = p
      BY <2>1, WalkShowsOnce
    <3> QED
      BY <2>1, <3>1, Zenon
  <2>3. Cardinality(Sights(c, i)) = 1
    BY <2>2, FS_Singleton
  <2> QED
    BY <2>3, SightFacts
<1> QED
  BY <1>1, <1>2

\* A walk that showed a post twice without a reason showed it once at most.
LEMMA InvTwice == Inv => TwiceExplained
<1> SUFFICES ASSUME Inv, NEW c \in Clients, NEW i \in Posts, Times(c, i) > 1,
                    ~Tied(c, i), ~Moved(c, TRUE), ~Outlived(c, FALSE)
             PROVE  FALSE
  BY DEF TwiceExplained
<1>1. Times(c, i) \in {0, 1}
  BY TimesAtMostOne
<1> QED
  BY <1>1

\* The pages of a quiet walk are all cut from the present table, so nothing moved.
LEMMA InvQuiet == Inv => QuietWalkIsExact
<1> SUFFICES ASSUME Inv, NEW c \in quiet, Finished(c),
                    \A n \in DOMAIN shown[c] : ~shown[c][n].late /\ ~shown[c][n].spared,
                    NEW i \in Posts, ~Tied(c, i)
             PROVE  Times(c, i) = IF i \in Live THEN 1 ELSE 0
  BY DEF QuietWalkIsExact
<1>1. c \in Clients
  BY DEF Inv, QuietFresh
<1>2. \A n \in DOMAIN shown[c] : shown[c][n].asOf = Len(tables)
  BY DEF Inv, QuietFresh, Fresh
<1>3. Len(tables) \in Nat
  BY LenProperties DEF Inv, History
<1>4. \A m, n \in DOMAIN shown[c] : shown[c][m].asOf..(shown[c][n].asOf - 1) = {}
  BY <1>2, <1>3
<1>5. ~Moved(c, TRUE) /\ ~Moved(c, FALSE) /\ ~Outlived(c, TRUE) /\ ~Outlived(c, FALSE)
  <2>1. \A m, n \in DOMAIN shown[c] :
           ~Between(shown[c][m], shown[c][n], TRUE) /\ ~Between(shown[c][m], shown[c][n], FALSE)
    BY <1>4 DEF Between
  <2>2. ~Moved(c, TRUE) /\ ~Moved(c, FALSE)
    BY <2>1 DEF Moved
  <2>3. ~Outlived(c, TRUE) /\ ~Outlived(c, FALSE)
    BY <2>1 DEF Outlived
  <2> QED
    BY <2>2, <2>3
<1>6. \A n \in DOMAIN shown[c] : CutTable(c, n) = Table
  BY <1>2 DEF CutTable, Table, Last
<1>7. Times(c, i) \in {0, 1}
  BY <1>1, <1>5, TimesAtMostOne
<1>8. CASE i \in Live
  <2>1. \A n \in DOMAIN shown[c] : i \in DOMAIN CutTable(c, n)
    BY <1>6, <1>8 DEF Live
  <2>2. Sights(c, i) # {}
    BY <1>1, <1>5, <2>1, WalkShows
  <2>3. Times(c, i) # 0
    BY <1>1, <2>2, SightFacts
  <2> QED
    BY <1>7, <1>8, <2>3
<1>9. CASE i \notin Live
  <2>1. \A q \in Sights(c, i) : q[1] \in DOMAIN shown[c] /\ i \in DOMAIN CutTable(c, q[1])
    BY <1>1, SightFacts
  <2>2. Sights(c, i) = {}
    BY <1>6, <1>9, <2>1 DEF Live
  <2>3. Times(c, i) = 0
    BY <1>1, <2>2, SightFacts
  <2> QED
    BY <1>9, <2>3
<1> QED
  BY <1>8, <1>9
-----------------------------------------------------------------------------
(***************************************************************************)
(* The invariant is inductive.                                             *)
(***************************************************************************)
\* At the start there is one table and no page.
LEMMA InitInv == Init => Inv
<1> SUFFICES ASSUME Init
             PROVE  Inv
  OBVIOUS
<1>1. PICK n \in 0..MaxPosts : \E t \in [1..n -> 0..MaxSecond] : tables = <<t>>
  BY DEF Init
<1>t. PICK t \in [1..n -> 0..MaxSecond] : tables = <<t>>
  BY <1>1
<1>2. t \in Tables
  <2>1. 1..n \in SUBSET Posts
    BY PagesAssumption DEF Posts
  <2> QED
    BY <2>1 DEF Tables
<1>3. tables \in Seq(Tables) /\ Len(tables) = 1 /\ DOMAIN tables = 1..1
  BY <1>t, <1>2
<1>4. History
  BY <1>3, PagesAssumption DEF Init, History
<1>5. Rigid /\ OneWay
  BY <1>3 DEF Rigid, OneWay
<1>6. CachedCut /\ CachedFresh
  BY DEF Init, CachedCut, CachedFresh
<1>7. NoPage \in Page
  BY DEF NoPage, Page
<1>8. ReadCut
  BY <1>7 DEF Init, ReadCut
<1>9. shown \in [Clients -> Seq(Page)] /\ \A c \in Clients : DOMAIN shown[c] = {}
  BY DEF Init
<1>10. ShownCut /\ QuietFresh
  BY <1>9 DEF Init, ShownCut, QuietFresh
<1> QED
  BY <1>4, <1>5, <1>6, <1>8, <1>10 DEF Inv

\* The next page of a walk that goes on has one of the offsets.
LEMMA SkipType ==
    ASSUME Inv, NEW c \in Clients
    PROVE  Skip(c) \in Nat /\ (~Finished(c) => Skip(c) \in Offsets)
<1> DEFINE N == Len(shown[c])
<1>1. N \in Nat /\ DOMAIN shown[c] = 1..N /\ shown[c] \in Seq(Page)
  BY LenProperties DEF Inv, ShownCut
<1>2. Skip(c) = Limit * N /\ Skip(c) \in Nat
  BY <1>1, PagesAssumption DEF Skip
<1>3. ASSUME ~Finished(c)
      PROVE  N \in 0..MaxPosts
  <2>1. CASE N = 0
    BY <2>1, PagesAssumption
  <2>2. CASE N # 0
    <3>1. N \in DOMAIN shown[c]
      BY <1>1, <2>2
    <3>2. shown[c] # << >>
      BY <2>2
    <3>3. ~(Len(shown[c][N].rows) < Limit)
      BY <1>3, <3>2 DEF Finished, Last
    <3>4. /\ CutTable(c, N) \in Tables /\ Limit * (N - 1) \in Nat
          /\ CutOf(CutTable(c, N), Limit * (N - 1), shown[c][N].rows)
      BY <3>1, ShownFacts DEF Inv
    <3>5. /\ Len(shown[c][N].rows) \in Nat /\ Len(shown[c][N].rows) <= Limit
          /\ Len(shown[c][N].rows) = Limit => Limit * (N - 1) + Limit <= MaxPosts
      BY <3>4, CutFacts
    <3>6. Limit * (N - 1) + Limit <= MaxPosts
      BY <3>3, <3>5, PagesAssumption
    <3>7. Limit * (N - 1) + Limit = Limit * N
      BY <1>1, Adjoining
    <3>8. N <= Limit * N
      BY <1>1, Adjoining
    <3>9. Limit * N \in Nat
      BY <1>1, Adjoining
    <3> HIDE DEF N
    <3> QED
      BY <1>1, <3>6, <3>7, <3>8, <3>9, PagesAssumption
  <2> QED
    BY <2>1, <2>2
<1> QED
  BY <1>2, <1>3 DEF Offsets

\* A page that was cut from the tables is still one after another write.
LEMMA CutKept ==
    ASSUME NEW ts \in Seq(Tables), NEW t \in Tables, NEW p, NEW o, CutFrom(ts, p, o)
    PROVE  CutFrom(Append(ts, t), p, o)
<1>1. /\ Append(ts, t) \in Seq(Tables)
      /\ Len(Append(ts, t)) = Len(ts) + 1
      /\ \A n \in 1..Len(ts) : Append(ts, t)[n] = ts[n]
  BY AppendProperties
<1>2. DOMAIN ts = 1..Len(ts) /\ Len(ts) \in Nat /\ DOMAIN Append(ts, t) = 1..Len(Append(ts, t))
  BY <1>1, LenProperties
<1>3. p.asOf \in DOMAIN Append(ts, t) /\ Append(ts, t)[p.asOf] = ts[p.asOf]
  BY <1>1, <1>2 DEF CutFrom
<1> QED
  BY <1>3 DEF CutFrom

\* A page that was cut for the next offset of a walk continues it.
LEMMA ShowKeeps ==
    ASSUME Inv, NEW c \in Clients, NEW p, CutFrom(tables, p, Skip(c)),
           c \in quiet => Fresh(p), Show(c, p), UNCHANGED <<tables, due, quiet>>
    PROVE  /\ ShownCut' /\ QuietFresh'
           /\ \A d \in Clients \ {c} : shown'[d] = shown[d]
<1>1. p \in Page
  BY DEF CutFrom
<1>2. /\ shown \in [Clients -> Seq(Page)]
      /\ shown' = [shown EXCEPT ![c] = Append(shown[c], p)]
  BY DEF Inv, ShownCut, Show
<1>3. /\ shown'[c] = Append(shown[c], p)
      /\ \A d \in Clients \ {c} : shown'[d] = shown[d]
  BY <1>2
<1> DEFINE N == Len(shown[c])
<1>4. /\ shown'[c] \in Seq(Page) /\ N \in Nat /\ DOMAIN shown[c] = 1..N
      /\ DOMAIN shown'[c] = 1..(N + 1)
      /\ \A n \in 1..N : shown'[c][n] = shown[c][n]
      /\ shown'[c][N + 1] = p
  BY <1>1, <1>2, <1>3, AppendProperties, LenProperties
<1>5. shown' \in [Clients -> Seq(Page)]
  BY <1>2, <1>4
<1>6. Skip(c) = Limit * ((N + 1) - 1)
  BY <1>4 DEF Skip
<1> HIDE DEF N
<1>7. \A n \in 1..(N + 1) : n \in 1..N \/ n = N + 1
  BY <1>4
<1>8. ASSUME NEW d \in Clients, NEW n \in DOMAIN shown'[d]
      PROVE  CutFrom(tables, shown'[d][n], Limit * (n - 1))
  <2>1. CASE d = c /\ n = N + 1
    BY <1>4, <1>6, <2>1
  <2>2. CASE ~(d = c /\ n = N + 1)
    <3>1. n \in DOMAIN shown[d] /\ shown'[d][n] = shown[d][n]
      BY <1>3, <1>4, <1>7, <2>2
    <3> QED
      BY <3>1 DEF Inv, ShownCut
  <2> QED
    BY <2>1, <2>2
<1>9. ShownCut'
  BY <1>5, <1>8 DEF ShownCut
<1>10. ASSUME NEW d \in quiet, NEW n \in DOMAIN shown'[d]
       PROVE  Fresh(shown'[d][n])
  <2>1. d \in Clients
    BY DEF Inv, QuietFresh
  <2>2. CASE d = c /\ n = N + 1
    BY <1>4, <2>2
  <2>3. CASE ~(d = c /\ n = N + 1)
    <3>1. n \in DOMAIN shown[d] /\ shown'[d][n] = shown[d][n]
      BY <1>3, <1>4, <1>7, <2>1, <2>3
    <3> QED
      BY <3>1 DEF Inv, QuietFresh
  <2> QED
    BY <2>2, <2>3
<1>11. QuietFresh'
  BY <1>10 DEF Inv, QuietFresh, Fresh
<1> QED
  BY <1>3, <1>9, <1>11

\* A step that leaves the tables alone keeps what is said of them alone.
LEMMA TablesKept ==
    ASSUME Inv, tables' = tables, due' = due
    PROVE  History' /\ Rigid' /\ OneWay'
BY DEF Inv, History, Rigid, OneWay, Grows

\* An entry was cut for its key, which is the offset the client asks for.
LEMMA HitKeeps ==
    ASSUME Inv, NEW c \in Clients, Hit(c)
    PROVE  Inv'
<1>1. /\ pc[c] = "idle" /\ ~Finished(c) /\ cache[Skip(c)] # Absent
      /\ Show(c, cache[Skip(c)])
      /\ UNCHANGED <<tables, cache, pc, page, due, quiet>>
  BY DEF Hit
<1>2. Skip(c) \in Offsets
  BY <1>1, SkipType
<1>3. CutFrom(tables, cache[Skip(c)], Skip(c))
  BY <1>1, <1>2 DEF Inv, CachedCut
<1>4. c \in quiet => Fresh(cache[Skip(c)])
  BY <1>1, <1>2 DEF Inv, QuietFresh, CachedFresh
<1>5. /\ ShownCut' /\ QuietFresh'
      /\ \A d \in Clients \ {c} : shown'[d] = shown[d]
  BY <1>1, <1>3, <1>4, ShowKeeps
<1>6. ReadCut'
  BY <1>1, <1>5 DEF Inv, ReadCut, Skip
<1>7. History' /\ Rigid' /\ OneWay'
  BY <1>1, TablesKept
<1>8. CachedCut' /\ CachedFresh'
  BY <1>1 DEF Inv, CachedCut, CachedFresh, Fresh
<1> QED
  BY <1>5, <1>6, <1>7, <1>8 DEF Inv

\* A GET that finds nothing or raises, and a query that raises, change nothing
\* the pages depend on.
LEMMA MissKeeps ==
    ASSUME Inv, NEW c \in Clients, Miss(c) \/ CacheDown(c) \/ QueryFails(c)
    PROVE  Inv'
<1>1. /\ \E l \in {"idle", "query", "query_direct"} : pc' = [pc EXCEPT ![c] = l]
      /\ UNCHANGED <<tables, cache, page, shown, due, quiet>>
  BY DEF Miss, CacheDown, QueryFails, Goto
<1>2. ReadCut'
  BY <1>1 DEF Inv, ReadCut, Skip
<1>3. History' /\ Rigid' /\ OneWay'
  BY <1>1, TablesKept
<1>4. CachedCut' /\ CachedFresh'
  BY <1>1 DEF Inv, CachedCut, CachedFresh, Fresh
<1>5. ShownCut' /\ QuietFresh'
  BY <1>1 DEF Inv, ShownCut, QuietFresh, Fresh
<1> QED
  BY <1>2, <1>3, <1>4, <1>5 DEF Inv

\* find_all cuts the page from the present table.
LEMMA QueryKeeps ==
    ASSUME Inv, NEW c \in Clients, Query(c)
    PROVE  Inv'
<1>1. UNCHANGED <<tables, cache, due, quiet>>
  BY DEF Query
<1>2. PICK s \in Orders(Table) :
         \/ /\ page' = [page EXCEPT ![c] = Fetched(Slice(s, Skip(c)))]
            /\ pc' = [pc EXCEPT ![c] = "store"] /\ shown' = shown
         \/ /\ Show(c, Fetched(Slice(s, Skip(c))))
            /\ pc' = [pc EXCEPT ![c] = "idle"] /\ page' = page
  BY DEF Query, Goto
<1> DEFINE q == Fetched(Slice(s, Skip(c)))
<1>3. /\ tables \in [1..Len(tables) -> Tables] /\ DOMAIN tables = 1..Len(tables)
      /\ Len(tables) \in Nat /\ Len(tables) \in DOMAIN tables
  <2>1. /\ tables \in [1..Len(tables) -> Tables] /\ DOMAIN tables = 1..Len(tables)
        /\ Len(tables) \in Nat
    BY LenProperties DEF Inv, History
  <2> QED
    BY <2>1 DEF Inv, History
<1>4. Table = tables[Len(tables)] /\ Table \in Tables
  BY <1>3 DEF Table, Last
<1>5. CutOf(tables[Len(tables)], Skip(c), Slice(s, Skip(c)))
  BY <1>4 DEF CutOf
<1>6. Slice(s, Skip(c)) \in Seq(Posts)
  BY <1>4, <1>5, SkipType, CutFacts
<1>7. q \in Page /\ q.asOf = Len(tables) /\ q.rows = Slice(s, Skip(c))
  BY <1>3, <1>6 DEF Page, Fetched
<1>8. CutFrom(tables, q, Skip(c))
  BY <1>3, <1>5, <1>7 DEF CutFrom
<1> HIDE DEF q
<1>9. History' /\ Rigid' /\ OneWay'
  BY <1>1, TablesKept
<1>10. CachedCut' /\ CachedFresh'
  BY <1>1 DEF Inv, CachedCut, CachedFresh, Fresh
<1>11. CASE page' = [page EXCEPT ![c] = q] /\ pc' = [pc EXCEPT ![c] = "store"]
            /\ shown' = shown
  <2>1. pc' \in [Clients -> {"idle", "query", "query_direct", "store"}]
        /\ page' \in [Clients -> Page]
    BY <1>7, <1>11 DEF Inv, ReadCut
  <2>2. ASSUME NEW d \in Clients, pc'[d] = "store"
        PROVE  CutFrom(tables, page'[d], Skip(d))
    <3>1. CASE d = c
      BY <1>8, <1>11, <3>1 DEF Inv, ReadCut
    <3>2. CASE d # c
      BY <1>11, <2>2, <3>2 DEF Inv, ReadCut
    <3> QED
      BY <3>1, <3>2
  <2>3. ReadCut'
    BY <1>1, <1>11, <2>1, <2>2 DEF ReadCut, Skip
  <2>4. ShownCut' /\ QuietFresh'
    BY <1>1, <1>11 DEF Inv, ShownCut, QuietFresh, Fresh
  <2> QED
    BY <1>9, <1>10, <2>3, <2>4 DEF Inv
<1>12. CASE Show(c, q) /\ pc' = [pc EXCEPT ![c] = "idle"] /\ page' = page
  <2>1. Fresh(q)
    BY <1>7 DEF Fresh
  <2>2. /\ ShownCut' /\ QuietFresh'
        /\ \A d \in Clients \ {c} : shown'[d] = shown[d]
    BY <1>1, <1>8, <1>12, <2>1, ShowKeeps
  <2>3. ASSUME NEW d \in Clients, pc'[d] = "store"
        PROVE  CutFrom(tables, page'[d], Skip(d)) /\ shown'[d] = shown[d]
    <3>1. d # c
      BY <1>12, <2>3 DEF Inv, ReadCut
    <3> QED
      BY <1>12, <2>2, <2>3, <3>1 DEF Inv, ReadCut
  <2>4. ReadCut'
    BY <1>1, <1>12, <2>3 DEF Inv, ReadCut, Skip
  <2> QED
    BY <1>9, <1>10, <2>2, <2>4 DEF Inv
<1> QED
  BY <1>2, <1>11, <1>12 DEF q

\* The mark changes nothing else of a page.
LEMMA LateType ==
    ASSUME NEW p \in Page, NEW l \in BOOLEAN
    PROVE  /\ [p EXCEPT !.late = l] \in Page
           /\ [p EXCEPT !.late = l].rows = p.rows
           /\ [p EXCEPT !.late = l].asOf = p.asOf
           /\ l => [p EXCEPT !.late = l].late
BY DEF Page

\* What a client stores is fresh, or marked as overtaken by a commit.
LEMMA StoredFacts ==
    ASSUME Inv, NEW c \in Clients, pc[c] = "store"
    PROVE  CutFrom(tables, Stored(c), Skip(c)) /\ Fresh(Stored(c))
<1> DEFINE p == Stored(c)
<1>2. CutFrom(tables, page[c], Skip(c))
  BY DEF Inv, ReadCut
<1>3. /\ DOMAIN tables = 1..Len(tables) /\ Len(tables) \in Nat
  BY LenProperties DEF Inv, History
<1>4. /\ p \in Page /\ p.rows = page[c].rows /\ p.asOf = page[c].asOf
      /\ page[c].asOf < Len(tables) => p.late
  <2>1. page[c] \in Page /\ page[c].asOf \in Nat
    BY <1>2 DEF CutFrom, Page
  <2> DEFINE l == page[c].asOf < Len(tables)
  <2>2. l \in BOOLEAN
    BY <1>3, <2>1
  <2> HIDE DEF l
  <2>3. p = [page[c] EXCEPT !.late = l]
    BY Zenon DEF l, Stored
  <2>4. /\ [page[c] EXCEPT !.late = l] \in Page
        /\ [page[c] EXCEPT !.late = l].rows = page[c].rows
        /\ [page[c] EXCEPT !.late = l].asOf = page[c].asOf
        /\ l => [page[c] EXCEPT !.late = l].late
    BY <2>1, <2>2, LateType
  <2> HIDE DEF p
  <2>5. p \in Page /\ p.rows = page[c].rows /\ p.asOf = page[c].asOf /\ (l => p.late)
    BY <2>3, <2>4
  <2> QED
    BY <2>5 DEF l
<1> HIDE DEF p
<1>5. CutFrom(tables, p, Skip(c))
  BY <1>2, <1>4 DEF CutFrom
<1>6. Fresh(p)
  <2>1. p.asOf \in 1..Len(tables)
    BY <1>3, <1>5 DEF CutFrom
  <2>2. CASE p.asOf < Len(tables)
    BY <1>4, <2>2 DEF Fresh
  <2>3. CASE p.asOf = Len(tables)
    BY <2>3 DEF Fresh
  <2> QED
    BY <1>3, <2>1, <2>2, <2>3
<1> QED
  BY <1>5, <1>6 DEF p

\* A SETEX of such a page leaves in Redis what the invariant says.
LEMMA PutKeeps ==
    ASSUME Inv, NEW k, NEW p, CutFrom(tables, p, k), Fresh(p),
           UNCHANGED <<tables, due>>, cache' = [cache EXCEPT ![k] = p]
    PROVE  CachedCut' /\ CachedFresh'
<1>10. CachedCut'
  <2>1. DOMAIN cache' = Offsets
    BY DEF Inv, CachedCut
  <2>2. ASSUME NEW o \in Offsets, cache'[o] # Absent
        PROVE  CutFrom(tables, cache'[o], o)
    <3>1. CASE o = k
      BY <3>1 DEF Inv, CachedCut
    <3>2. CASE o # k
      BY <2>2, <3>2 DEF Inv, CachedCut
    <3> QED
      BY <3>1, <3>2
  <2> QED
    BY <2>1, <2>2 DEF CachedCut, Offsets
<1>11. CachedFresh'
  <2>1. ASSUME due = 0, NEW o \in Offsets, cache'[o] # Absent
        PROVE  Fresh(cache'[o])
    <3>1. CASE o = k
      BY <3>1 DEF Inv, CachedCut
    <3>2. CASE o # k
      BY <2>1, <3>2 DEF Inv, CachedCut, CachedFresh
    <3> QED
      BY <3>1, <3>2
  <2> QED
    BY <2>1 DEF CachedFresh, Fresh, Offsets
<1> QED
  BY <1>10, <1>11

\* What is stored and shown is fresh, or marked as overtaken by a commit.
LEMMA StoreKeeps ==
    ASSUME Inv, NEW c \in Clients, Store(c)
    PROVE  Inv'
<1> DEFINE p == Stored(c)
<1>1. /\ pc[c] = "store"
      /\ cache' = [cache EXCEPT ![Skip(c)] = p]
      /\ Show(c, p)
      /\ pc' = [pc EXCEPT ![c] = "idle"]
      /\ page' = [page EXCEPT ![c] = NoPage]
      /\ UNCHANGED <<tables, due, quiet>>
  BY DEF Store, Goto
<1> HIDE DEF p
<1>5. CutFrom(tables, p, Skip(c)) /\ Fresh(p)
  BY <1>1, StoredFacts DEF p
<1>7. /\ ShownCut' /\ QuietFresh'
      /\ \A d \in Clients \ {c} : shown'[d] = shown[d]
  BY <1>1, <1>5, ShowKeeps
<1>8. NoPage \in Page
  BY DEF NoPage, Page
<1>9. ReadCut'
  <2>1. pc' \in [Clients -> {"idle", "query", "query_direct", "store"}] /\ page' \in [Clients -> Page]
    BY <1>1, <1>8 DEF Inv, ReadCut
  <2>2. ASSUME NEW d \in Clients, pc'[d] = "store"
        PROVE  CutFrom(tables, page'[d], Skip(d)) /\ shown'[d] = shown[d]
    <3>1. d # c
      BY <1>1, <2>2 DEF Inv, ReadCut
    <3> QED
      BY <1>1, <1>7, <2>2, <3>1 DEF Inv, ReadCut
  <2> QED
    BY <1>1, <2>1, <2>2 DEF ReadCut, Skip
<1>11. CachedCut' /\ CachedFresh'
  BY <1>1, <1>5, PutKeeps
<1>12. History' /\ Rigid' /\ OneWay'
  BY <1>1, TablesKept
<1> QED
  BY <1>7, <1>9, <1>11, <1>12 DEF Inv

\* A SETEX that raises has stored the page or has not; nothing is shown yet.
LEMMA StoreFailsKeeps ==
    ASSUME Inv, NEW c \in Clients, StoreFails(c)
    PROVE  Inv'
<1>1. /\ pc[c] = "store"
      /\ cache' = cache \/ cache' = [cache EXCEPT ![Skip(c)] = Stored(c)]
      /\ pc' = [pc EXCEPT ![c] = "query_direct"]
      /\ page' = [page EXCEPT ![c] = NoPage]
      /\ UNCHANGED <<tables, shown, due, quiet>>
  BY DEF StoreFails, Goto
<1>2. CutFrom(tables, Stored(c), Skip(c)) /\ Fresh(Stored(c))
  BY <1>1, StoredFacts
<1>3. CachedCut' /\ CachedFresh'
  <2>1. CASE cache' = cache
    BY <1>1, <2>1 DEF Inv, CachedCut, CachedFresh, Fresh
  <2>2. CASE cache' = [cache EXCEPT ![Skip(c)] = Stored(c)]
    BY <1>1, <1>2, <2>2, PutKeeps
  <2> QED
    BY <1>1, <2>1, <2>2
<1>4. NoPage \in Page
  BY DEF NoPage, Page
<1>5. ReadCut'
  BY <1>1, <1>4 DEF Inv, ReadCut, Skip
<1>6. History' /\ Rigid' /\ OneWay'
  BY <1>1, TablesKept
<1>7. ShownCut' /\ QuietFresh'
  BY <1>1 DEF Inv, ShownCut, QuietFresh, Fresh
<1> QED
  BY <1>3, <1>5, <1>6, <1>7 DEF Inv

\* A walk that starts over has no page, and is quiet only while no eviction is due.
LEMMA RestartKeeps ==
    ASSUME Inv, NEW c \in Clients, Restart(c)
    PROVE  Inv'
<1>1. /\ pc[c] = "idle"
      /\ shown' = [shown EXCEPT ![c] = << >>]
      /\ quiet' = IF due = 0 THEN quiet \cup {c} ELSE quiet \ {c}
      /\ UNCHANGED <<tables, cache, pc, page, due>>
  BY DEF Restart
<1>2. /\ shown' \in [Clients -> Seq(Page)] /\ DOMAIN shown'[c] = {}
      /\ \A d \in Clients \ {c} : shown'[d] = shown[d]
  BY <1>1 DEF Inv, ShownCut
<1>3. ShownCut'
  BY <1>1, <1>2 DEF Inv, ShownCut
<1>4. QuietFresh'
  <2>1. quiet' \subseteq Clients /\ (quiet' # {} => due = 0)
    BY <1>1 DEF Inv, QuietFresh
  <2>2. ASSUME NEW d \in quiet', NEW n \in DOMAIN shown'[d]
        PROVE  Fresh(shown'[d][n])
    <3>1. d # c /\ d \in quiet /\ shown'[d] = shown[d]
      BY <1>1, <1>2, <2>1
    <3> QED
      BY <3>1 DEF Inv, QuietFresh
  <2> QED
    BY <1>1, <2>1, <2>2 DEF QuietFresh, Fresh
<1>5. ReadCut'
  BY <1>1, <1>2 DEF Inv, ReadCut, Skip
<1>6. History' /\ Rigid' /\ OneWay'
  BY <1>1, TablesKept
<1>7. CachedCut' /\ CachedFresh'
  BY <1>1 DEF Inv, CachedCut, CachedFresh, Fresh
<1> QED
  BY <1>3, <1>4, <1>5, <1>6, <1>7 DEF Inv

\* A commit that adds posts or takes some away, and changes no other.
LEMMA CommitKeeps ==
    ASSUME Inv, NEW t \in Tables, Commit(t),
           Live \subseteq DOMAIN t \/ DOMAIN t \subseteq Live,
           \A n \in DOMAIN tables : \A i \in DOMAIN tables[n] :
               i \in DOMAIN t => t[i] = tables[n][i]
    PROVE  Inv'
<1> DEFINE N == Len(tables)
<1>1. /\ N <= MaxWrites /\ tables' = Append(tables, t)
      /\ due' = due + 1 /\ quiet' = {}
      /\ UNCHANGED <<cache, pc, page, shown>>
  BY DEF Commit
<1>2. /\ tables \in Seq(Tables) /\ N \in Nat /\ N >= 1 /\ DOMAIN tables = 1..N
      /\ due \in Nat /\ due + 1 <= N
  BY LenProperties DEF Inv, History
<1>3. /\ tables' \in Seq(Tables) /\ Len(tables') = N + 1 /\ DOMAIN tables' = 1..(N + 1)
      /\ \A n \in 1..N : tables'[n] = tables[n]
      /\ tables'[N + 1] = t
  <2>1. /\ tables' \in Seq(Tables) /\ Len(tables') = N + 1
        /\ \A n \in 1..N : tables'[n] = tables[n]
        /\ tables'[N + 1] = t
    BY <1>1, <1>2, AppendProperties
  <2> QED
    BY <2>1, LenProperties
<1>4. \A p, o : CutFrom(tables, p, o) => CutFrom(tables', p, o)
  BY <1>1, <1>2, CutKept
<1>5. Live = DOMAIN tables[N]
  BY DEF Live, Table, Last
<1> HIDE DEF N
<1>6. \A n \in 1..(N + 1) : n \in 1..N \/ n = N + 1
  BY <1>2
<1>7. History'
  BY <1>1, <1>2, <1>3, PagesAssumption DEF History
<1>8. Rigid'
  <2>1. ASSUME NEW m \in 1..(N + 1), NEW n \in 1..(N + 1),
               NEW i \in DOMAIN tables'[m], i \in DOMAIN tables'[n]
        PROVE  tables'[m][i] = tables'[n][i]
    <3>1. CASE m \in 1..N /\ n \in 1..N
      BY <1>2, <1>3, <2>1, <3>1 DEF Inv, Rigid
    <3>2. CASE m = N + 1 /\ n \in 1..N
      BY <1>2, <1>3, <2>1, <3>2
    <3>3. CASE m \in 1..N /\ n = N + 1
      BY <1>2, <1>3, <2>1, <3>3
    <3>4. CASE m = N + 1 /\ n = N + 1
      BY <3>4
    <3> QED
      BY <1>6, <3>1, <3>2, <3>3, <3>4
  <2> QED
    BY <1>3, <2>1 DEF Rigid
<1>9. OneWay'
  <2>1. ASSUME NEW n \in 1..N
        PROVE  \/ DOMAIN tables'[n] \subseteq DOMAIN tables'[n + 1]
               \/ DOMAIN tables'[n + 1] \subseteq DOMAIN tables'[n]
    <3>1. CASE n = N
      BY <1>3, <1>5, <3>1
    <3>2. CASE n # N
      <4>1. n \in 1..(N - 1) /\ n + 1 \in 1..N
        BY <1>2, <3>2
      <4>2. tables'[n] = tables[n] /\ tables'[n + 1] = tables[n + 1]
        BY <1>3, <4>1
      <4> QED
        BY <4>1, <4>2 DEF Inv, OneWay, Grows, N
    <3> QED
      BY <3>1, <3>2
  <2>2. 1..(Len(tables') - 1) = 1..N
    BY <1>2, <1>3
  <2> QED
    BY <2>1, <2>2 DEF OneWay, Grows
<1>10. CachedCut'
  BY <1>1, <1>4 DEF Inv, CachedCut
<1>11. ReadCut'
  BY <1>1, <1>4 DEF Inv, ReadCut, Skip
<1>12. ShownCut'
  BY <1>1, <1>4 DEF Inv, ShownCut
<1>13. CachedFresh' /\ QuietFresh'
  BY <1>1, <1>2 DEF CachedFresh, QuietFresh
<1> QED
  BY <1>7, <1>8, <1>9, <1>10, <1>11, <1>12, <1>13 DEF Inv

\* The present table is one of the tables.
LEMMA TableIsLast ==
    ASSUME Inv
    PROVE  /\ Table \in Tables /\ Len(tables) \in DOMAIN tables
           /\ Table = tables[Len(tables)] /\ Live = DOMAIN Table
<1>1. /\ tables \in [1..Len(tables) -> Tables] /\ DOMAIN tables = 1..Len(tables)
      /\ Len(tables) \in Nat
  BY LenProperties DEF Inv, History
<1>2. Len(tables) \in 1..Len(tables)
  BY <1>1 DEF Inv, History
<1> QED
  BY <1>1, <1>2 DEF Table, Live, Last

\* create_post adds a post with an id no table has had.
LEMMA CreateKeeps ==
    ASSUME Inv, Create
    PROVE  Inv'
<1>1. PICK i \in Posts \ Ever, s \in Now :
         Commit([j \in Live \cup {i} |-> IF j = i THEN s ELSE Table[j]])
  BY DEF Create
<1> DEFINE t == [j \in Live \cup {i} |-> IF j = i THEN s ELSE Table[j]]
<1>2. /\ Table \in Tables /\ Len(tables) \in DOMAIN tables
      /\ Table = tables[Len(tables)] /\ Live = DOMAIN Table
  BY TableIsLast
<1>3. Live \subseteq Posts /\ \A j \in Live : Table[j] \in 0..MaxSecond
  BY <1>2, TableFacts
<1>4. s \in 0..MaxSecond
  BY DEF Now
<1>5. t \in Tables
  <2>1. Live \cup {i} \in SUBSET Posts
    BY <1>3
  <2>2. t \in [Live \cup {i} -> 0..MaxSecond]
    BY <1>3, <1>4
  <2> QED
    BY <2>1, <2>2 DEF Tables
<1>6. ASSUME NEW n \in DOMAIN tables, NEW j \in DOMAIN tables[n], j \in DOMAIN t
      PROVE  t[j] = tables[n][j]
  <2>1. j \in Ever
    BY DEF Ever
  <2>2. j # i /\ j \in Live
    BY <1>6, <2>1
  <2>3. t[j] = Table[j]
    BY <2>2
  <2> QED
    BY <1>2, <2>2, <2>3 DEF Inv, Rigid
<1>7. Live \subseteq DOMAIN t
  OBVIOUS
<1>8. Commit(t)
  BY <1>1
<1> HIDE DEF t
<1> QED
  BY <1>5, <1>6, <1>7, <1>8, CommitKeeps

\* delete_post takes one post away.
LEMMA DeleteKeeps ==
    ASSUME Inv, Delete
    PROVE  Inv'
<1>1. PICK i \in Live : Commit([j \in Live \ {i} |-> Table[j]])
  BY DEF Delete
<1> DEFINE t == [j \in Live \ {i} |-> Table[j]]
<1>2. /\ Table \in Tables /\ Len(tables) \in DOMAIN tables
      /\ Table = tables[Len(tables)] /\ Live = DOMAIN Table
  BY TableIsLast
<1>3. Live \subseteq Posts /\ \A j \in Live : Table[j] \in 0..MaxSecond
  BY <1>2, TableFacts
<1>4. t \in Tables
  <2>1. Live \ {i} \in SUBSET Posts
    BY <1>3
  <2>2. t \in [Live \ {i} -> 0..MaxSecond]
    BY <1>3
  <2> QED
    BY <2>1, <2>2 DEF Tables
<1>5. ASSUME NEW n \in DOMAIN tables, NEW j \in DOMAIN tables[n], j \in DOMAIN t
      PROVE  t[j] = tables[n][j]
  <2>1. j \in Live /\ t[j] = Table[j]
    BY <1>5
  <2> QED
    BY <1>2, <2>1 DEF Inv, Rigid
<1>6. DOMAIN t \subseteq Live
  OBVIOUS
<1>7. Commit(t)
  BY <1>1
<1> HIDE DEF t
<1> QED
  BY <1>4, <1>5, <1>6, <1>7, CommitKeeps

\* The eviction empties every key; no walk is quiet while one is due.
LEMMA EvictKeeps ==
    ASSUME Inv, Evict
    PROVE  Inv'
<1>1. /\ due > 0 /\ due' = due - 1
      /\ cache' = [k \in Offsets |-> Absent]
      /\ UNCHANGED <<tables, pc, page, shown, quiet>>
  BY DEF Evict, Evicts
<1>2. History' /\ Rigid' /\ OneWay'
  <2>1. History'
    <3>1. due \in Nat /\ Len(tables) \in Nat
      BY LenProperties DEF Inv, History
    <3> QED
      BY <1>1, <3>1 DEF Inv, History
  <2> QED
    BY <1>1, <2>1 DEF Inv, Rigid, OneWay, Grows
<1>3. CachedCut' /\ CachedFresh'
  BY <1>1 DEF CachedCut, CachedFresh, Offsets
<1>4. ReadCut' /\ ShownCut'
  BY <1>1 DEF Inv, ReadCut, ShownCut, Skip
<1>5. QuietFresh'
  <2>1. quiet = {}
    BY <1>1 DEF Inv, QuietFresh
  <2> QED
    BY <1>1, <2>1 DEF QuietFresh
<1> QED
  BY <1>2, <1>3, <1>4, <1>5 DEF Inv

\* What an eviction leaves behind is marked if it is of an older table.
LEMMA SparedFacts ==
    ASSUME Inv, NEW k \in Offsets
    PROVE  /\ cache[k] = Absent => Spared(k) = Absent
           /\ cache[k] # Absent => CutFrom(tables, Spared(k), k) /\ Fresh(Spared(k))
<1>1. CASE cache[k] = Absent
  BY <1>1 DEF Spared
<1>2. CASE cache[k] # Absent
  <2>1. CutFrom(tables, cache[k], k)
    BY <1>2 DEF Inv, CachedCut
  <2>2. /\ DOMAIN tables = 1..Len(tables) /\ Len(tables) \in Nat
    BY LenProperties DEF Inv, History
  <2>3. cache[k] \in Page /\ cache[k].asOf \in 1..Len(tables)
    BY <2>1, <2>2 DEF CutFrom
  <2>4. CASE cache[k].asOf < Len(tables)
    <3> DEFINE p == [cache[k] EXCEPT !.spared = TRUE]
    <3>1. /\ p \in Page /\ p.rows = cache[k].rows /\ p.asOf = cache[k].asOf /\ p.spared
      BY <2>3 DEF Page
    <3>2. Spared(k) = p
      BY <1>2, <2>4 DEF Spared
    <3> HIDE DEF p
    <3>3. CutFrom(tables, p, k) /\ Fresh(p)
      BY <2>1, <3>1 DEF CutFrom, Fresh
    <3> QED
      BY <1>2, <3>2, <3>3 DEF CutFrom
  <2>5. CASE ~(cache[k].asOf < Len(tables))
    <3>1. cache[k].asOf = Len(tables)
      BY <2>2, <2>3, <2>5
    <3>2. Spared(k) = cache[k]
      BY <2>5 DEF Spared
    <3> QED
      BY <1>2, <2>1, <3>1, <3>2 DEF Fresh
  <2> QED
    BY <2>4, <2>5
<1> QED
  BY <1>1, <1>2

\* A lost eviction leaves the pages where they are, marked where they are old.
LEMMA EvictFailsKeeps ==
    ASSUME Inv, EvictFails
    PROVE  Inv'
<1>1. /\ due > 0 /\ due' = due - 1
      /\ cache' = [k \in Offsets |-> Spared(k)]
      /\ UNCHANGED <<tables, pc, page, shown, quiet>>
  BY DEF EvictFails
<1>2. History' /\ Rigid' /\ OneWay'
  <2>1. due \in Nat /\ Len(tables) \in Nat
    BY LenProperties DEF Inv, History
  <2>2. History'
    BY <1>1, <2>1 DEF Inv, History
  <2> QED
    BY <1>1, <2>2 DEF Inv, Rigid, OneWay, Grows
<1>3. CachedCut' /\ CachedFresh'
  BY <1>1, SparedFacts DEF CachedCut, CachedFresh, Fresh, Offsets
<1>4. ReadCut' /\ ShownCut'
  BY <1>1 DEF Inv, ReadCut, ShownCut, Skip
<1>5. QuietFresh'
  <2>1. quiet = {}
    BY <1>1 DEF Inv, QuietFresh
  <2> QED
    BY <1>1, <2>1 DEF QuietFresh
<1> QED
  BY <1>2, <1>3, <1>4, <1>5 DEF Inv

\* A crash forgets the requests and the evictions that were due.
LEMMA CrashKeeps ==
    ASSUME Inv, Crash
    PROVE  Inv'
<1>1. /\ due' = 0
      /\ cache' = [k \in Offsets |-> IF due > 0 THEN Spared(k) ELSE cache[k]]
      /\ pc' = [c \in Clients |-> "idle"] /\ page' = [c \in Clients |-> NoPage]
      /\ UNCHANGED <<tables, shown, quiet>>
  BY DEF Crash
<1>2. due \in Nat /\ Len(tables) \in Nat
  BY LenProperties DEF Inv, History
<1>3. History' /\ Rigid' /\ OneWay'
  <2>1. History'
    BY <1>1, <1>2 DEF Inv, History
  <2> QED
    BY <1>1, <2>1 DEF Inv, Rigid, OneWay, Grows
<1>4. CachedCut' /\ CachedFresh'
  <2>1. CASE due > 0
    BY <1>1, <2>1, SparedFacts DEF CachedCut, CachedFresh, Fresh, Offsets
  <2>2. CASE due = 0
    BY <1>1, <2>2 DEF Inv, CachedCut, CachedFresh, Fresh, Offsets
  <2> QED
    BY <1>2, <2>1, <2>2
<1>5. NoPage \in Page
  BY DEF NoPage, Page
<1>6. ReadCut'
  BY <1>1, <1>5 DEF ReadCut
<1>7. ShownCut' /\ QuietFresh'
  BY <1>1 DEF Inv, ShownCut, QuietFresh, Fresh
<1> QED
  BY <1>3, <1>4, <1>6, <1>7 DEF Inv

\* A key that ends takes nothing but itself.
LEMMA ExpireKeeps ==
    ASSUME Inv, NEW k \in Offsets, Expire(k)
    PROVE  Inv'
<1>1. /\ cache' = [cache EXCEPT ![k] = Absent]
      /\ UNCHANGED <<tables, pc, page, shown, due, quiet>>
  BY DEF Expire
<1>2. /\ DOMAIN cache' = Offsets
      /\ \A o \in Offsets : cache'[o] # Absent => cache'[o] = cache[o]
  BY <1>1 DEF Inv, CachedCut
<1>3. CachedCut' /\ CachedFresh'
  BY <1>1, <1>2 DEF Inv, CachedCut, CachedFresh, Fresh, Offsets
<1>4. History' /\ Rigid' /\ OneWay'
  BY <1>1, TablesKept
<1>5. ReadCut' /\ ShownCut' /\ QuietFresh'
  BY <1>1 DEF Inv, ReadCut, ShownCut, QuietFresh, Skip, Fresh
<1> QED
  BY <1>3, <1>4, <1>5 DEF Inv

\* A step that changes nothing.
LEMMA StutterKeeps ==
    ASSUME Inv, UNCHANGED vars
    PROVE  Inv'
<1>1. UNCHANGED <<tables, cache, pc, page, shown, due, quiet>>
  BY DEF vars
<1>2. History' /\ Rigid' /\ OneWay'
  BY <1>1 DEF Inv, History, Rigid, OneWay, Grows
<1>3. CachedCut' /\ CachedFresh'
  BY <1>1 DEF Inv, CachedCut, CachedFresh, Fresh, Offsets
<1>4. ReadCut' /\ ShownCut' /\ QuietFresh'
  BY <1>1 DEF Inv, ReadCut, ShownCut, QuietFresh, Skip, Fresh
<1> QED
  BY <1>2, <1>3, <1>4 DEF Inv

\* Every step keeps the invariant.
LEMMA NextInv == Inv /\ [Next]_vars => Inv'
<1> SUFFICES ASSUME Inv, [Next]_vars
             PROVE  Inv'
  OBVIOUS
<1>1. ASSUME NEW c \in Clients, Hit(c)
      PROVE  Inv'
  BY <1>1, HitKeeps
<1>2. ASSUME NEW c \in Clients, Miss(c) \/ CacheDown(c) \/ QueryFails(c)
      PROVE  Inv'
  BY <1>2, MissKeeps
<1>3. ASSUME NEW c \in Clients, Query(c)
      PROVE  Inv'
  BY <1>3, QueryKeeps
<1>4. ASSUME NEW c \in Clients, Store(c)
      PROVE  Inv'
  BY <1>4, StoreKeeps
<1>5. ASSUME NEW c \in Clients, Restart(c)
      PROVE  Inv'
  BY <1>5, RestartKeeps
<1>6. CASE Create
  BY <1>6, CreateKeeps
<1>7. CASE Delete
  BY <1>7, DeleteKeeps
<1>8. CASE Evict
  BY <1>8, EvictKeeps
<1>9. ASSUME NEW k \in Offsets, Expire(k)
      PROVE  Inv'
  BY <1>9, ExpireKeeps
<1>10. ASSUME NEW c \in Clients, StoreFails(c)
       PROVE  Inv'
  BY <1>10, StoreFailsKeeps
<1>11. CASE EvictFails
  BY <1>11, EvictFailsKeeps
<1>12. CASE Crash
  BY <1>12, CrashKeeps
<1>13. CASE UNCHANGED vars
  BY <1>13, StutterKeeps
<1> QED
  BY <1>1, <1>2, <1>3, <1>4, <1>5, <1>6, <1>7, <1>8, <1>9, <1>10, <1>11, <1>12, <1>13
  DEF Next
-----------------------------------------------------------------------------
(***************************************************************************)
(* The theorems.                                                           *)
(***************************************************************************)
\* Every page, in Redis, read or shown, is what one query made of one table, and
\* those of a quiet walk are of the present one: the invariant always holds.
THEOREM Invariance == Spec => []Inv
<1>1. Init => Inv
  BY InitInv
<1>2. Inv /\ [Next]_vars => Inv'
  BY NextInv
<1> QED
  BY <1>1, <1>2, PTL DEF Spec

\* Every variable has the values the code gives it, and no page is longer than
\* the limit.
THEOREM TypeCorrect == Spec => []TypeOK
<1>1. Inv => TypeOK
  BY InvTypes
<1> QED
  BY <1>1, Invariance, PTL

\* A walk through the list misses a post that was there all along only when
\* posts of one second changed places, a delete moved the rest up between two
\* pages, or a later page was an older one from Redis with a create between:
\* OFFSET pagination (post_repository.find_all) behind the cache (get_posts).
THEOREM MissesExplained == Spec => []MissedExplained
<1>1. Inv => MissedExplained
  BY InvMissed
<1> QED
  BY <1>1, Invariance, PTL

\* A walk through the list shows a post twice only when posts of one second
\* changed places, a create moved the rest down between two pages, or a later
\* page was an older one from Redis with a delete between.
THEOREM RepeatsExplained == Spec => []TwiceExplained
<1>1. Inv => TwiceExplained
  BY InvTwice
<1> QED
  BY <1>1, Invariance, PTL

\* A walk beside no writer shows every post of the table once and nothing else,
\* whatever Redis, the database and the process do, unless a page was stored late,
\* an eviction due for it was lost to a RedisError or a crash (cache.py:201), or
\* two posts share a second.
THEOREM QuietIsExact == Spec => []QuietWalkIsExact
<1>1. Inv => QuietWalkIsExact
  BY InvQuiet
<1> QED
  BY <1>1, Invariance, PTL
=============================================================================
