---------------------------- MODULE SidebarProofs ----------------------------
(* Theorems about the sidebar's tree (SidebarTree, here T), for connections,*)
(* loads and versions of a schema of any number, and of the specification  *)
(* MCCatalogs runs.  The inductive invariant, TreeInv, says how rows and   *)
(* loads belong together, and where what a Refresh asked for has got to.   *)
EXTENDS MCCatalogs, FunctionTheorems, FiniteSetTheorems, TLAPS

Job ==
  [step : {"asked", "marked", "opened", "failed"}, of : T!Node, id : T!Ids,
   crossed : BOOLEAN] \cup
  [step : {"read"}, of : T!Node, id : T!Ids, crossed : BOOLEAN, found : T!Version]

Tree ==
  [row : [T!Node -> T!Row], job : [Thread -> {T!Idle} \cup Job],
   target : Conn \cup {T!Nowhere}, armed : BOOLEAN, wait : {0} \cup T!Ids,
   selected : Conn \cup {T!Nowhere}]

\* Row objects are told apart by their numbers, a load is one of the row it
\* was begun for, and a folder stands under a connection that is listed.
RowObjects(t) ==
  /\ \A m, n \in T!Node : t.row[m].id = t.row[n].id => m = n \/ t.row[n].id = 0
  /\ \A n \in T!Node : \A h \in T!Loads(t, n) : t.job[h].of = n
  /\ \A n \in T!Node : t.row[n].id = 0 => t.row[n] = T!NoRow
  /\ \A c \in Conn : t.row[<<c, "folder">>].id # 0 =>
       t.row[<<c, "conn">>].loaded /\ t.row[<<c, "conn">>].shown \in T!Version

\* A row that loads has a load.
Spins(t) ==
  \A n \in T!Node :
    /\ t.row[n].shown = T!Note => t.row[n].loading
    /\ t.row[n].loading => T!Loads(t, n) # {}

\* A row that no Refresh caught in a load has one load at a time, and says so.
Single(t) ==
  \A n \in T!Node : ~ t.row[n].tainted =>
    \A g, h \in T!Loads(t, n) : g = h /\ t.row[n].loading /\ ~ t.row[n].loaded

Marked(t, c) == \E g \in Thread : t.job[g].step = "marked" /\ t.job[g].of[1] = c

\* What a Refresh asked for is in the cache or on its way there: the mark is
\* still set (in s) or somebody has just taken it.
Wanted(t, s) ==
  \A n \in T!Node :
    /\ t.row[n].want <= version[n[1]]
    /\ t.row[n].want <= treeCached[n[1]] \/ n[1] \in s \/ Marked(t, n[1])

\* What a load of such a row may find, and has found, is as new as that.
Finds(t) ==
  \A n \in T!Node : ~ t.row[n].tainted => \A h \in T!Loads(t, n) : ~ t.job[h].crossed =>
    /\ t.job[h].step = "opened" => t.row[n].want <= treeCached[n[1]]
    /\ t.job[h].step = "read" => t.row[n].want <= t.job[h].found

Sane(t, s) == t \in Tree /\ RowObjects(t) /\ Spins(t) /\ Single(t) /\ Wanted(t, s) /\ Finds(t)

Listed(t, n) ==
  t.row[n].loaded /\ ~ t.row[n].tainted =>
    t.row[n].shown \in T!Version /\ t.row[n].shown >= t.row[n].want

Server ==
  /\ version \in [Conn -> T!Version] /\ treeCached \in [Conn -> T!Version] /\ stale \subseteq Conn
  /\ \A c \in Conn : treeCached[c] <= version[c]

TreeInv == Server /\ Sane(tree, stale) /\ \A n \in T!Node : Listed(tree, n)

-----------------------------------------------------------------------------
(* Nodes, rows, and the record they are in.                                *)

LEMMA NodeShape ==
  ASSUME NEW n \in T!Node
  PROVE  /\ n[1] \in Conn /\ n = <<n[1], n[2]>> /\ n[2] \in {"conn", "folder"}
         /\ T!Folder(n) \in T!Node /\ T!Folder(n) = <<n[1], "folder">> /\ T!Folder(n)[1] = n[1]
         /\ T!ConnRow(n) \in T!Node /\ T!ConnRow(n) = <<n[1], "conn">>
         /\ n[2] = "folder" => T!Folder(n) = n
         /\ n[2] = "conn" => T!Folder(n) # n /\ T!ConnRow(n) = n
BY DEF T!Node, T!Level, T!Folder, T!ConnRow

LEMMA ConnShape ==
  ASSUME NEW c \in Conn
  PROVE  /\ <<c, "conn">> \in T!Node /\ <<c, "folder">> \in T!Node
         /\ <<c, "conn">> # <<c, "folder">>
         /\ <<c, "conn">>[1] = c /\ <<c, "folder">>[1] = c
BY DEF T!Node, T!Level

LEMMA Numbers ==
  ASSUME T!TreeAssumption
  PROVE  /\ MaxVersion \in Nat /\ T!Empty = MaxVersion + 1 /\ T!Note = MaxVersion + 2
         /\ T!Failure = MaxVersion + 3 /\ T!Version = 0 .. MaxVersion
         /\ T!Version \subseteq 0 .. T!Failure /\ {T!Empty, T!Note, T!Failure} \subseteq 0 .. T!Failure
         /\ T!Empty \notin T!Version /\ T!Note \notin T!Version /\ T!Failure \notin T!Version
         /\ T!Empty # T!Note /\ T!Note # T!Failure
BY DEF T!TreeAssumption, T!Empty, T!Note, T!Failure, T!Version

LEMMA NoRowIs ==
  ASSUME T!TreeAssumption
  PROVE  /\ T!NoRow \in T!Row /\ T!NoRow.id = 0 /\ ~ T!NoRow.loaded /\ ~ T!NoRow.loading
         /\ ~ T!NoRow.open /\ T!NoRow.shown = T!Empty /\ T!NoRow.want = 0 /\ ~ T!NoRow.tainted
BY Numbers DEF T!NoRow, T!Row

LEMMA PutIs ==
  ASSUME NEW t \in Tree, NEW n \in T!Node, NEW r \in T!Row
  PROVE  /\ T!Put(t, n, r) \in Tree
         /\ T!Put(t, n, r).row[n] = r
         /\ \A m \in T!Node : m # n => T!Put(t, n, r).row[m] = t.row[m]
         /\ T!Put(t, n, r).job = t.job /\ T!Put(t, n, r).target = t.target
         /\ T!Put(t, n, r).wait = t.wait
BY DEF T!Put, Tree

LEMMA GiveIs ==
  ASSUME NEW t \in Tree, NEW h \in Thread, NEW j \in {T!Idle} \cup Job
  PROVE  /\ T!Give(t, h, j) \in Tree
         /\ T!Give(t, h, j).job[h] = j
         /\ \A g \in Thread : g # h => T!Give(t, h, j).job[g] = t.job[g]
         /\ T!Give(t, h, j).row = t.row /\ T!Give(t, h, j).target = t.target
         /\ T!Give(t, h, j).wait = t.wait
BY DEF T!Give, Tree

LEMMA WaitIs ==
  ASSUME NEW t \in Tree, NEW w \in {0} \cup T!Ids
  PROVE  LET u == [t EXCEPT !.wait = w]
         IN  u \in Tree /\ u.row = t.row /\ u.job = t.job /\ u.target = t.target /\ u.wait = w
BY DEF Tree

LEMMA TreeIs ==
  ASSUME NEW t \in Tree
  PROVE  /\ t.row \in [T!Node -> T!Row] /\ t.job \in [Thread -> {T!Idle} \cup Job]
         /\ t.target \in Conn \cup {T!Nowhere} /\ t.wait \in {0} \cup T!Ids
BY DEF Tree

LEMMA JobIs ==
  ASSUME NEW j \in Job
  PROVE  j.of \in T!Node /\ j.id \in T!Ids /\ j.crossed \in BOOLEAN /\ j # T!Idle
BY DEF Job, T!Idle

\* A set is as large to the tree's module as to this one.
LEMMA SameFinite == ASSUME NEW S PROVE T!IsFiniteSet(S) <=> IsFiniteSet(S)
BY DEF T!IsFiniteSet, IsFiniteSet

LEMMA SameCount == ASSUME NEW S PROVE T!Cardinality(S) = Cardinality(S)
BY Zenon DEF T!Cardinality, Cardinality

LEMMA Sizes == T!TreeAssumption => IsFiniteSet(Conn) /\ IsFiniteSet(Thread)
BY SameFinite DEF T!TreeAssumption

LEMMA IdRange == T!Ids = 1 .. 2 * (Cardinality(Conn) + Cardinality(Thread)) + 2
BY SameCount DEF T!Ids

LEMMA IdIs == 0 \notin T!Ids
BY DEF T!Ids

-----------------------------------------------------------------------------
(* There is always a number that no row, load or walk uses.                *)

LEMMA NodeCount ==
  ASSUME T!TreeAssumption
  PROVE  IsFiniteSet(T!Node) /\ Cardinality(T!Node) = 2 * Cardinality(Conn)
<1>1. /\ IsFiniteSet(T!Level)
      /\ Cardinality(T!Level) = 2
  <2>1. IsFiniteSet({"folder"}) /\ Cardinality({"folder"}) = 1
    BY FS_Singleton
  <2>2. T!Level = {"folder"} \cup {"conn"} /\ "conn" \notin {"folder"}
    BY DEF T!Level
  <2> QED BY <2>1, <2>2, FS_AddElement
<1>2. IsFiniteSet(Conn) /\ Cardinality(Conn) \in Nat
  BY FS_CardinalityType, Sizes
<1>3. IsFiniteSet(Conn \X T!Level) /\ Cardinality(Conn \X T!Level) = Cardinality(Conn) * 2
  BY <1>1, <1>2, FS_Product
<1>4. Cardinality(Conn) * 2 = 2 * Cardinality(Conn)
  BY <1>2
<1> QED BY <1>3, <1>4 DEF T!Node

LEMMA RowIds ==
  ASSUME T!TreeAssumption, NEW t \in Tree
  PROVE  LET R == {t.row[n].id : n \in T!Node}
         IN  IsFiniteSet(R) /\ Cardinality(R) <= 2 * Cardinality(Conn)
<1> DEFINE R == {t.row[n].id : n \in T!Node}
           f == [n \in T!Node |-> t.row[n].id]
<1>1. f \in Surjection(T!Node, R)
  BY DEF Surjection
<1> HIDE DEF f
<1>2. IsFiniteSet(R) /\ Cardinality(R) <= Cardinality(T!Node)
  BY <1>1, NodeCount, FS_Surjection
<1> QED BY <1>2, NodeCount

LEMMA JobIds ==
  ASSUME T!TreeAssumption, NEW t \in Tree
  PROVE  LET J == {t.job[h].id : h \in {h \in Thread : t.job[h] # T!Idle}}
         IN  IsFiniteSet(J) /\ Cardinality(J) <= Cardinality(Thread)
<1> DEFINE B == {h \in Thread : t.job[h] # T!Idle}
           J == {t.job[h].id : h \in B}
           f == [h \in B |-> t.job[h].id]
<1>1. f \in Surjection(B, J)
  BY DEF Surjection
<1>2. IsFiniteSet(Thread) /\ B \in SUBSET Thread
  BY Sizes
<1> HIDE DEF f, B
<1>3. IsFiniteSet(B) /\ Cardinality(B) <= Cardinality(Thread)
  BY <1>2, FS_Subset
<1>4. IsFiniteSet(J) /\ Cardinality(J) <= Cardinality(B)
  BY <1>1, <1>3, FS_Surjection
<1>5. Cardinality(J) \in Nat /\ Cardinality(B) \in Nat /\ Cardinality(Thread) \in Nat
  BY <1>2, <1>3, <1>4, FS_CardinalityType
<1>6. Cardinality(J) <= Cardinality(Thread)
  BY <1>3, <1>4, <1>5
<1> QED BY <1>4, <1>6 DEF B

\* A finite set joined with another is no larger than both.
LEMMA Joined ==
  ASSUME NEW A, NEW B, IsFiniteSet(A), IsFiniteSet(B), NEW a \in Nat, NEW b \in Nat,
         Cardinality(A) <= a, Cardinality(B) <= b
  PROVE  IsFiniteSet(A \cup B) /\ Cardinality(A \cup B) <= a + b
<1>1. /\ IsFiniteSet(A \cup B)
      /\ Cardinality(A \cup B) = Cardinality(A) + Cardinality(B) - Cardinality(A \cap B)
  BY FS_Union
<1>2. IsFiniteSet(A \cap B)
  <2>1. (A \cap B) \in SUBSET A
    OBVIOUS
  <2> QED BY <2>1, FS_Subset
<1>3. Cardinality(A) \in Nat /\ Cardinality(B) \in Nat /\ Cardinality(A \cap B) \in Nat
  BY <1>2, FS_CardinalityType
<1> QED BY <1>1, <1>3

LEMMA Fresh ==
  ASSUME T!TreeAssumption, NEW t \in Tree
  PROVE  T!FreshId(t) \in T!Ids /\ T!FreshId(t) \notin T!InUse(t)
<1> DEFINE R == {t.row[n].id : n \in T!Node}
           J == {t.job[h].id : h \in {h \in Thread : t.job[h] # T!Idle}}
           W == {t.wait}
           cc == Cardinality(Conn)
           ct == Cardinality(Thread)
<1>1. cc \in Nat /\ ct \in Nat
  BY FS_CardinalityType, Sizes
<1>2. IsFiniteSet(R) /\ Cardinality(R) <= 2 * cc
  BY RowIds
<1>3. IsFiniteSet(J) /\ Cardinality(J) <= ct
  BY JobIds
<1>4. IsFiniteSet(W) /\ Cardinality(W) = 1
  BY FS_Singleton
<1>5. T!InUse(t) = (R \cup W) \cup J
  BY DEF T!InUse
<1> HIDE DEF R, J, W, cc, ct
<1>6. IsFiniteSet(R \cup W) /\ Cardinality(R \cup W) <= 2 * cc + 1
  <2>1. PICK k \in Nat : k = 2 * cc
    BY <1>1
  <2>2. Cardinality(R) <= k /\ Cardinality(W) <= 1 /\ 1 \in Nat
    BY <1>2, <1>4, <2>1
  <2>3. IsFiniteSet(R \cup W) /\ Cardinality(R \cup W) <= k + 1
    BY <1>2, <1>4, <2>2, Joined
  <2> QED BY <2>1, <2>3
<1>7. IsFiniteSet(T!InUse(t)) /\ Cardinality(T!InUse(t)) <= 2 * cc + 1 + ct
  <2>1. PICK k \in Nat : k = 2 * cc + 1
    BY <1>1
  <2>2. Cardinality(R \cup W) <= k
    BY <1>6, <2>1
  <2>3. IsFiniteSet((R \cup W) \cup J) /\ Cardinality((R \cup W) \cup J) <= k + ct
    BY <1>1, <1>3, <1>6, <2>1, <2>2, Joined
  <2> QED BY <1>5, <2>1, <2>3
<1>8. IsFiniteSet(T!Ids) /\ Cardinality(T!Ids) = 2 * (cc + ct) + 2
  <2>1. T!Ids = 1 .. 2 * (cc + ct) + 2
    BY IdRange DEF cc, ct
  <2>2. 1 \in Int /\ 2 * (cc + ct) + 2 \in Int /\ ~ (1 > 2 * (cc + ct) + 2)
    BY <1>1
  <2>3. PICK m \in Int : m = 2 * (cc + ct) + 2
    BY <2>2
  <2>4. IsFiniteSet(1 .. m) /\ Cardinality(1 .. m) = m - 1 + 1
    BY <2>2, <2>3, FS_Interval
  <2> QED BY <2>1, <2>3, <2>4
<1>9. ~ (T!Ids \subseteq T!InUse(t))
  <2> SUFFICES ASSUME T!Ids \subseteq T!InUse(t)
               PROVE  FALSE
    OBVIOUS
  <2>1. Cardinality(T!Ids) <= Cardinality(T!InUse(t))
    BY <1>7, FS_Subset
  <2>2. Cardinality(T!InUse(t)) \in Nat
    BY <1>7, FS_CardinalityType
  <2> QED BY <1>1, <1>7, <1>8, <2>1, <2>2
<1>10. \E i \in T!Ids \ T!InUse(t) : TRUE
  BY <1>9
<1> QED BY <1>10, Zenon DEF T!FreshId

LEMMA First ==
  ASSUME T!TreeAssumption
  PROVE  /\ T!FirstIds \in [Conn -> T!Ids]
         /\ \A c, d \in Conn : T!FirstIds[c] = T!FirstIds[d] => c = d
<1> DEFINE N == 1 .. Cardinality(Conn)
<1>1. Cardinality(Conn) \in Nat /\ ExistsBijection(N, Conn)
  BY FS_CardinalityType, Sizes
<1>2. ExistsBijection(Conn, N)
  BY <1>1, Fun_ExistsBijSymmetric
<1> HIDE DEF N
<1>3. PICK f : f \in Bijection(Conn, N)
  BY <1>2 DEF ExistsBijection
<1>4. f \in [Conn -> N] /\ \A c, d \in Conn : f[c] = f[d] => c = d
  BY <1>3 DEF Bijection, Injection, IsInjective
<1>5. \E g \in [Conn -> 1 .. T!Cardinality(Conn)] : \A c, d \in Conn : g[c] = g[d] => c = d
  BY <1>4, SameCount DEF N
<1>6. /\ T!FirstIds \in [Conn -> 1 .. T!Cardinality(Conn)]
      /\ \A c, d \in Conn : T!FirstIds[c] = T!FirstIds[d] => c = d
  BY <1>5, Zenon DEF T!FirstIds
<1>7. 1 .. Cardinality(Conn) \subseteq T!Ids
  <2>1. Cardinality(Thread) \in Nat
    BY FS_CardinalityType, Sizes
  <2> QED BY <1>1, <2>1, IdRange
<1> QED BY <1>6, <1>7, SameCount

-----------------------------------------------------------------------------
(* What the walk may do to the tree: expand rows, and begin one load.      *)

\* The same row, expanded or not.
Same(r, q) ==
  /\ q.id = r.id /\ q.loaded = r.loaded /\ q.loading = r.loading /\ q.shown = r.shown
  /\ q.want = r.want /\ q.tainted = r.tainted
  /\ r = T!NoRow => q = T!NoRow

Quiet(t, u) ==
  /\ u \in Tree /\ u.target = t.target /\ u.job = t.job
  /\ \A n \in T!Node : Same(t.row[n], u.row[n])

\* A load of row m, which neither is loaded nor loads, begins on a free thread.
StartsOn(t, u, m, h) ==
  /\ u \in Tree /\ u.target = t.target
  /\ t.row[m].id # 0 /\ ~ t.row[m].loaded /\ ~ t.row[m].loading
  /\ u.row[m].id = t.row[m].id /\ ~ u.row[m].loaded /\ u.row[m].loading
  /\ u.row[m].shown = T!Note
  /\ u.row[m].want = t.row[m].want /\ u.row[m].tainted = t.row[m].tainted
  /\ \A n \in T!Node : n # m => Same(t.row[n], u.row[n])
  /\ h \in Thread /\ t.job[h] = T!Idle
  /\ u.job[h] = [step |-> "asked", of |-> m, id |-> t.row[m].id, crossed |-> FALSE]
  /\ \A g \in Thread : g # h => u.job[g] = t.job[g]
Starts(t, u, m) == \E h \in Thread : StartsOn(t, u, m, h)

LEMMA QuietLoads ==
  ASSUME NEW t \in Tree, NEW u, Quiet(t, u), NEW n \in T!Node
  PROVE  T!Loads(u, n) = T!Loads(t, n)
BY DEF Quiet, Same, T!Loads

LEMMA QuietSane ==
  ASSUME T!TreeAssumption, NEW t, NEW u, NEW s, Sane(t, s), Quiet(t, u)
  PROVE  Sane(u, s)
<1> t \in Tree /\ u \in Tree
  BY DEF Sane, Quiet
<1>1. \A n \in T!Node : Same(t.row[n], u.row[n]) /\ T!Loads(u, n) = T!Loads(t, n)
  BY QuietLoads DEF Quiet
<1>2. u.job = t.job
  BY DEF Quiet
<1>3. RowObjects(u)
  <2>1. RowObjects(t)
    BY DEF Sane
  <2>2. \A c \in Conn : <<c, "conn">> \in T!Node /\ <<c, "folder">> \in T!Node
    BY ConnShape
  <2>3. \A m, n \in T!Node : u.row[m].id = u.row[n].id => m = n \/ u.row[n].id = 0
    BY <1>1, <2>1 DEF RowObjects, Same
  <2>4. \A n \in T!Node : \A h \in T!Loads(u, n) : u.job[h].of = n
    BY <1>1, <1>2, <2>1 DEF RowObjects
  <2>5. \A n \in T!Node : u.row[n].id = 0 => u.row[n] = T!NoRow
    BY <1>1, <2>1 DEF RowObjects, Same
  <2>6. \A c \in Conn : u.row[<<c, "folder">>].id # 0 =>
          u.row[<<c, "conn">>].loaded /\ u.row[<<c, "conn">>].shown \in T!Version
    BY <1>1, <2>1, <2>2 DEF RowObjects, Same
  <2> QED BY <2>3, <2>4, <2>5, <2>6 DEF RowObjects
<1>4. Spins(u)
  BY <1>1 DEF Spins, Sane, Same
<1>5. Single(u)
  BY <1>1 DEF Single, Sane, Same
<1>6. Wanted(u, s)
  BY <1>1, <1>2 DEF Wanted, Sane, Same, Marked
<1>7. Finds(u)
  BY <1>1, <1>2 DEF Finds, Sane, Same
<1> QED BY <1>3, <1>4, <1>5, <1>6, <1>7 DEF Sane

LEMMA QuietListed ==
  ASSUME NEW t, NEW u, Quiet(t, u), NEW n \in T!Node, Listed(t, n)
  PROVE  Listed(u, n)
BY DEF Listed, Quiet, Same

LEMMA StartsLoads ==
  ASSUME T!TreeAssumption, NEW t \in Tree, NEW u, NEW m \in T!Node, NEW h \in Thread,
         StartsOn(t, u, m, h), RowObjects(t), NEW n \in T!Node
  PROVE  /\ T!Loads(u, m) = T!Loads(t, m) \cup {h}
         /\ n # m => T!Loads(u, n) = T!Loads(t, n)
<1>1. t.row[m].id \in T!Ids /\ 0 \notin T!Ids /\ t.row[m].id # 0
  BY IdIs, TreeIs DEF StartsOn, T!Row
<1>2. u.job[h] # T!Idle /\ u.job[h].id = t.row[m].id
  BY DEF StartsOn, T!Idle
<1>3. \A g \in Thread : g # h => u.job[g] = t.job[g]
  BY DEF StartsOn
<1>4. t.job[h] = T!Idle
  BY DEF StartsOn
<1>5. T!Loads(u, m) = T!Loads(t, m) \cup {h}
  <2>1. u.row[m].id = t.row[m].id
    BY DEF StartsOn
  <2> QED BY <1>2, <1>3, <2>1 DEF T!Loads
<1>6. ASSUME n # m
      PROVE  T!Loads(u, n) = T!Loads(t, n)
  <2>1. u.row[n].id = t.row[n].id
    BY <1>6 DEF StartsOn, Same
  <2>2. t.row[n].id # t.row[m].id
    BY <1>1, <1>6 DEF RowObjects
  <2> QED BY <1>2, <1>3, <1>4, <2>1, <2>2 DEF T!Loads
<1> QED BY <1>5, <1>6

LEMMA StartsSane ==
  ASSUME T!TreeAssumption, NEW t, NEW u, NEW s, Sane(t, s), NEW m \in T!Node, Starts(t, u, m)
  PROVE  Sane(u, s)
<1> t \in Tree /\ u \in Tree
  BY DEF Sane, Starts, StartsOn
<1> PICK h \in Thread : StartsOn(t, u, m, h)
  BY DEF Starts
<1>0. RowObjects(t) /\ Spins(t) /\ Single(t) /\ Wanted(t, s) /\ Finds(t)
  BY DEF Sane
<1>1. \A n \in T!Node : n # m => Same(t.row[n], u.row[n]) /\ T!Loads(u, n) = T!Loads(t, n)
  BY <1>0, StartsLoads DEF StartsOn
<1>2. T!Loads(u, m) = T!Loads(t, m) \cup {h}
  BY <1>0, StartsLoads
<1>3. /\ u.row[m].id = t.row[m].id /\ t.row[m].id # 0 /\ ~ t.row[m].loaded
      /\ ~ t.row[m].loading /\ ~ u.row[m].loaded /\ u.row[m].loading /\ u.row[m].shown = T!Note
      /\ u.row[m].want = t.row[m].want /\ u.row[m].tainted = t.row[m].tainted
  BY DEF StartsOn
<1>4. /\ u.job[h] = [step |-> "asked", of |-> m, id |-> t.row[m].id, crossed |-> FALSE]
      /\ t.job[h] = T!Idle
      /\ \A g \in Thread : g # h => u.job[g] = t.job[g]
  BY DEF StartsOn
<1>5. \A n \in T!Node : /\ u.row[n].id = t.row[n].id /\ u.row[n].want = t.row[n].want
                        /\ u.row[n].tainted = t.row[n].tainted
                        /\ u.row[n].loaded = t.row[n].loaded
  <2> TAKE n \in T!Node
  <2>1. CASE n = m
    <3>1. t.row[m].loaded \in BOOLEAN /\ u.row[m].loaded \in BOOLEAN
      BY TreeIs DEF T!Row
    <3> QED BY <1>3, <2>1, <3>1
  <2>2. CASE n # m
    BY <1>1, <2>2 DEF Same
  <2> QED BY <2>1, <2>2
<1>6. \A n \in T!Node : h \notin T!Loads(t, n)
  BY <1>4 DEF T!Loads
<1>7. RowObjects(u)
  <2>3. \A i, n \in T!Node : u.row[i].id = u.row[n].id => i = n \/ u.row[n].id = 0
    BY <1>0, <1>5 DEF RowObjects
  <2>4. ASSUME NEW n \in T!Node, NEW g \in T!Loads(u, n)
        PROVE  u.job[g].of = n
    <3>1. CASE g = h
      BY <1>1, <1>2, <1>4, <1>6, <3>1
    <3>2. CASE g # h
      <4>1. g \in T!Loads(t, n) /\ g \in Thread
        BY <1>1, <1>2, <3>2 DEF T!Loads
      <4> QED BY <1>0, <1>4, <3>2, <4>1 DEF RowObjects
    <3> QED BY <3>1, <3>2
  <2>5. \A n \in T!Node : u.row[n].id = 0 => u.row[n] = T!NoRow
    BY <1>0, <1>1, <1>3 DEF RowObjects, Same
  <2>6. ASSUME NEW c \in Conn, u.row[<<c, "folder">>].id # 0
        PROVE  u.row[<<c, "conn">>].loaded /\ u.row[<<c, "conn">>].shown \in T!Version
    <3>1. <<c, "conn">> \in T!Node /\ <<c, "folder">> \in T!Node
      BY ConnShape
    <3>2. t.row[<<c, "conn">>].loaded /\ t.row[<<c, "conn">>].shown \in T!Version
      BY <1>0, <1>5, <2>6, <3>1 DEF RowObjects
    <3>3. <<c, "conn">> # m
      BY <1>3, <3>2
    <3> QED BY <1>1, <3>1, <3>2, <3>3 DEF Same
  <2> QED BY <2>3, <2>4, <2>5, <2>6 DEF RowObjects
<1>8. Spins(u)
  BY <1>0, <1>1, <1>2, <1>3 DEF Spins, Same
<1>9. Single(u)
  <2> SUFFICES ASSUME NEW n \in T!Node, ~ u.row[n].tainted,
                      NEW g \in T!Loads(u, n), NEW i \in T!Loads(u, n)
               PROVE  g = i /\ u.row[n].loading /\ ~ u.row[n].loaded
    BY DEF Single
  <2>1. CASE n = m
    <3>1. T!Loads(t, m) = {}
      BY <1>0, <1>3, <2>1 DEF Single
    <3> QED BY <1>2, <1>3, <2>1, <3>1
  <2>2. CASE n # m
    BY <1>0, <1>1, <2>2 DEF Single, Same
  <2> QED BY <2>1, <2>2
<1>10. Wanted(u, s)
  <2>1. \A c : Marked(t, c) => Marked(u, c)
    BY <1>4 DEF Marked, T!Idle
  <2> QED BY <1>0, <1>5, <2>1 DEF Wanted
<1>11. Finds(u)
  <2> SUFFICES ASSUME NEW n \in T!Node, ~ u.row[n].tainted, NEW g \in T!Loads(u, n), ~ u.job[g].crossed
               PROVE  /\ u.job[g].step = "opened" => u.row[n].want <= treeCached[n[1]]
                      /\ u.job[g].step = "read" => u.row[n].want <= u.job[g].found
    BY DEF Finds
  <2>1. CASE g = h
    BY <1>4, <2>1
  <2>2. CASE g # h
    <3>1. g \in T!Loads(t, n) /\ g \in Thread
      BY <1>1, <1>2, <2>2 DEF T!Loads
    <3> QED BY <1>0, <1>4, <1>5, <2>2, <3>1 DEF Finds
  <2> QED BY <2>1, <2>2
<1> QED BY <1>7, <1>8, <1>9, <1>10, <1>11 DEF Sane

LEMMA StartsListed ==
  ASSUME NEW t, NEW u, NEW m \in T!Node, Starts(t, u, m), NEW n \in T!Node, Listed(t, n)
  PROVE  Listed(u, n)
BY DEF Listed, Starts, StartsOn, Same

\* Quiet steps before and after a start.
LEMMA QuietTrans ==
  ASSUME NEW t \in Tree, NEW a, NEW u, Quiet(t, a), Quiet(a, u)
  PROVE  Quiet(t, u)
<1>1. \A n \in T!Node : Same(t.row[n], a.row[n]) /\ Same(a.row[n], u.row[n])
  BY DEF Quiet
<1>2. \A n \in T!Node : Same(t.row[n], u.row[n])
  BY <1>1 DEF Same
<1> QED BY <1>2 DEF Quiet

LEMMA QuietStarts ==
  ASSUME NEW t \in Tree, NEW a, NEW b, NEW u, NEW m \in T!Node,
         Quiet(t, a), Starts(a, b, m), Quiet(b, u)
  PROVE  Starts(t, u, m)
<1> PICK h \in Thread : StartsOn(a, b, m, h)
  BY DEF Starts
<1>1. \A n \in T!Node : Same(t.row[n], a.row[n]) /\ Same(b.row[n], u.row[n])
  BY DEF Quiet
<1>2. \A n \in T!Node : n # m => Same(a.row[n], b.row[n])
  BY DEF StartsOn
<1>3. \A n \in T!Node : n # m => Same(t.row[n], u.row[n])
  BY <1>1, <1>2 DEF Same
<1>4. a.job = t.job /\ u.job = b.job /\ a.target = t.target /\ u.target = b.target /\ u \in Tree
  BY DEF Quiet
<1>5. StartsOn(t, u, m, h)
  <2>1. /\ a.row[m].id = t.row[m].id /\ a.row[m].loaded = t.row[m].loaded
        /\ a.row[m].loading = t.row[m].loading
        /\ a.row[m].want = t.row[m].want /\ a.row[m].tainted = t.row[m].tainted
    BY <1>1 DEF Same
  <2>2. /\ u.row[m].id = b.row[m].id /\ u.row[m].loaded = b.row[m].loaded
        /\ u.row[m].loading = b.row[m].loading /\ u.row[m].shown = b.row[m].shown
        /\ u.row[m].want = b.row[m].want /\ u.row[m].tainted = b.row[m].tainted
    BY <1>1 DEF Same
  <2>3. /\ t.row[m].id # 0 /\ ~ t.row[m].loaded /\ ~ t.row[m].loading
        /\ u.row[m].id = t.row[m].id /\ ~ u.row[m].loaded /\ u.row[m].loading
        /\ u.row[m].shown = T!Note
        /\ u.row[m].want = t.row[m].want /\ u.row[m].tainted = t.row[m].tainted
    BY <2>1, <2>2, Zenon DEF StartsOn
  <2>4. /\ h \in Thread /\ t.job[h] = T!Idle
        /\ u.job[h] = [step |-> "asked", of |-> m, id |-> t.row[m].id, crossed |-> FALSE]
        /\ \A g \in Thread : g # h => u.job[g] = t.job[g]
    BY <1>4, <2>1 DEF StartsOn
  <2>5. u \in Tree /\ u.target = t.target
    BY <1>4 DEF StartsOn
  <2> QED BY <1>3, <2>3, <2>4, <2>5, Zenon DEF StartsOn
<1> QED BY <1>5 DEF Starts

LEMMA RowIs ==
  ASSUME NEW r \in T!Row
  PROVE  /\ r.id \in {0} \cup T!Ids /\ r.loaded \in BOOLEAN /\ r.loading \in BOOLEAN
         /\ r.open \in BOOLEAN /\ r.shown \in 0 .. T!Failure /\ r.want \in T!Version
         /\ r.tainted \in BOOLEAN
BY DEF T!Row

LEMMA SameSelf == \A r : Same(r, r)
BY DEF Same

\* A store emptied.
LEMMA ClearedIs ==
  ASSUME T!TreeAssumption, NEW t \in Tree, NEW n \in T!Node
  PROVE  LET u == T!Cleared(t, n)
         IN  /\ u \in Tree /\ u.target = t.target /\ u.wait = t.wait /\ u.job = t.job
             /\ u.row[n] = [t.row[n] EXCEPT !.shown = T!Empty]
             /\ n[2] = "conn" => u.row[T!Folder(n)] = T!NoRow
             /\ \A m \in T!Node : m # n /\ (n[2] = "conn" => m # T!Folder(n)) => u.row[m] = t.row[m]
<1> DEFINE r == [t.row[n] EXCEPT !.shown = T!Empty]
           bare == T!Put(t, n, r)
<1>1. r \in T!Row
  BY Numbers, TreeIs DEF T!Row
<1>2. T!Folder(n) \in T!Node /\ (n[2] = "conn" => T!Folder(n) # n)
  BY NodeShape
<1> HIDE DEF r
<1>3. /\ bare \in Tree /\ bare.target = t.target /\ bare.wait = t.wait /\ bare.job = t.job
      /\ bare.row[n] = r /\ \A m \in T!Node : m # n => bare.row[m] = t.row[m]
  BY <1>1, PutIs
<1> HIDE DEF bare
<1>4. LET u == T!Put(bare, T!Folder(n), T!NoRow)
      IN  /\ u \in Tree /\ u.target = t.target /\ u.wait = t.wait /\ u.job = t.job
          /\ u.row[T!Folder(n)] = T!NoRow
          /\ \A m \in T!Node : m # T!Folder(n) => u.row[m] = bare.row[m]
  BY <1>2, <1>3, PutIs, NoRowIs
<1>5. T!Cleared(t, n) = IF n[2] = "conn" THEN T!Put(bare, T!Folder(n), T!NoRow) ELSE bare
  BY DEF T!Cleared, bare, r
<1>6. CASE n[2] = "conn"
  BY <1>2, <1>3, <1>4, <1>5, <1>6 DEF r
<1>7. CASE n[2] # "conn"
  BY <1>2, <1>3, <1>5, <1>7 DEF r
<1> QED BY <1>6, <1>7

\* A row that is not loaded has nothing under it.
LEMMA BareFolder ==
  ASSUME NEW t \in Tree, RowObjects(t), NEW n \in T!Node, n[2] = "conn",
         ~ t.row[n].loaded \/ t.row[n].shown \notin T!Version
  PROVE  t.row[T!Folder(n)] = T!NoRow
<1>1. n[1] \in Conn /\ n = <<n[1], "conn">> /\ T!Folder(n) = <<n[1], "folder">> /\ T!Folder(n) \in T!Node
  BY NodeShape
<1> QED BY <1>1 DEF RowObjects

LEMMA BegunStarts ==
  ASSUME T!TreeAssumption, NEW t \in Tree, RowObjects(t), NEW m \in T!Node,
         t.row[m].id # 0, ~ t.row[m].loaded, ~ t.row[m].loading, T!FreeThreads(t) # {}
  PROVE  Starts(t, T!Begun(t, m), m) /\ T!Begun(t, m).wait = t.wait
<1> DEFINE h == CHOOSE h \in T!FreeThreads(t) : TRUE
           c == T!Cleared(t, m)
           r == [t.row[m] EXCEPT !.loading = TRUE, !.shown = T!Note]
           p == T!Put(c, m, r)
           j == [step |-> "asked", of |-> m, id |-> t.row[m].id, crossed |-> FALSE]
           u == T!Give(p, h, j)
<1>1. h \in Thread /\ t.job[h] = T!Idle
  BY DEF T!FreeThreads
<1>2. r \in T!Row /\ r.id = t.row[m].id /\ r.loaded = t.row[m].loaded /\ r.loading /\ r.shown = T!Note
      /\ r.want = t.row[m].want /\ r.tainted = t.row[m].tainted
  <2>1. t.row[m] \in T!Row /\ T!Note \in 0 .. T!Failure
    BY Numbers, TreeIs
  <2> QED BY <2>1 DEF T!Row
<1>3. j \in Job
  BY TreeIs DEF Job, T!Row
<1>4. T!Begun(t, m) = u
  BY DEF T!Begun
<1> HIDE DEF h, r
<1>5. /\ c \in Tree /\ c.target = t.target /\ c.wait = t.wait /\ c.job = t.job
      /\ \A n \in T!Node : n # m => c.row[n] = t.row[n]
  <2>1. /\ c \in Tree /\ c.target = t.target /\ c.wait = t.wait /\ c.job = t.job
        /\ m[2] = "conn" => c.row[T!Folder(m)] = T!NoRow
        /\ \A n \in T!Node : n # m /\ (m[2] = "conn" => n # T!Folder(m)) => c.row[n] = t.row[n]
    BY ClearedIs
  <2>2. m[2] = "conn" => t.row[T!Folder(m)] = T!NoRow
    BY BareFolder
  <2> QED BY <2>1, <2>2
<1> HIDE DEF c
<1>6. /\ p \in Tree /\ p.target = t.target /\ p.wait = t.wait /\ p.job = t.job
      /\ p.row[m] = r /\ \A n \in T!Node : n # m => p.row[n] = t.row[n]
  BY <1>2, <1>5, PutIs
<1> HIDE DEF p, j
<1>7. /\ u \in Tree /\ u.target = t.target /\ u.wait = t.wait /\ u.row = p.row
      /\ u.job[h] = j /\ \A g \in Thread : g # h => u.job[g] = t.job[g]
  BY <1>1, <1>3, <1>6, GiveIs
<1>8. \A n \in T!Node : n # m => Same(t.row[n], u.row[n])
  BY <1>6, <1>7, SameSelf
<1> HIDE DEF u
<1>9. /\ u.row[m].id = t.row[m].id /\ ~ u.row[m].loaded /\ u.row[m].loading
      /\ u.row[m].shown = T!Note
      /\ u.row[m].want = t.row[m].want /\ u.row[m].tainted = t.row[m].tainted
  BY <1>2, <1>6, <1>7
<1>10. StartsOn(t, u, m, h)
  BY <1>1, <1>7, <1>8, <1>9 DEF StartsOn, j
<1> QED BY <1>1, <1>4, <1>7, <1>10 DEF Starts

LEMMA OpenQuiet ==
  ASSUME T!TreeAssumption, NEW t \in Tree, NEW n \in T!Node, NEW b \in BOOLEAN,
         t.row[n] = T!NoRow => ~ b
  PROVE  LET u == T!Put(t, n, [t.row[n] EXCEPT !.open = b])
         IN  Quiet(t, u) /\ u.wait = t.wait
<1> DEFINE r == [t.row[n] EXCEPT !.open = b]
           u == T!Put(t, n, r)
<1>1. r \in T!Row /\ Same(t.row[n], r)
  BY TreeIs DEF T!Row, Same, T!NoRow
<1> HIDE DEF r
<1>2. /\ u \in Tree /\ u.target = t.target /\ u.wait = t.wait /\ u.job = t.job
      /\ u.row[n] = r /\ \A m \in T!Node : m # n => u.row[m] = t.row[m]
  BY <1>1, PutIs
<1> HIDE DEF u
<1>3. \A m \in T!Node : Same(t.row[m], u.row[m])
  BY <1>1, <1>2, SameSelf
<1>4. Quiet(t, u) /\ u.wait = t.wait
  BY <1>2, <1>3 DEF Quiet
<1> QED BY <1>4 DEF u, r

LEMMA WaitQuiet ==
  ASSUME NEW t \in Tree, NEW w \in {0} \cup T!Ids
  PROVE  Quiet(t, [t EXCEPT !.wait = w]) /\ [t EXCEPT !.wait = w].wait = w
BY WaitIs, SameSelf DEF Quiet

-----------------------------------------------------------------------------
(* The walk: a pass begins one load at most, and then the walk waits.      *)

LEMMA IntoIs ==
  ASSUME T!TreeAssumption, NEW t, NEW s, Sane(t, s), NEW n \in T!Node, t.row[n].id # 0,
         t.row[n].loaded \/ t.row[n].loading \/ T!FreeThreads(t) # {}
  PROVE  LET u == T!Into(t, n)
         IN  /\ t.row[n].loaded => u = t
             /\ ~ t.row[n].loaded /\ t.row[n].loading => Quiet(t, u)
             /\ ~ t.row[n].loaded /\ ~ t.row[n].loading => Starts(t, u, n)
             /\ ~ t.row[n].loaded => u.wait = IF t.wait = 0 THEN t.row[n].id ELSE t.wait
<1> DEFINE b == t.row[n].open \/ T!Visible(t, n)
           a == T!Put(t, n, [t.row[n] EXCEPT !.open = b])
           d == T!Loaded(a, n)
           w == IF t.wait = 0 THEN t.row[n].id ELSE t.wait
           u == [d EXCEPT !.wait = w]
<1>0. t \in Tree /\ t.row[n] \in T!Row /\ t.row[n] # T!NoRow
  BY TreeIs, NoRowIs DEF Sane
<1>1. b \in BOOLEAN /\ w \in {0} \cup T!Ids
  BY <1>0, TreeIs DEF T!Visible, T!Exists, T!Row
<1>2. T!Into(t, n) = IF t.row[n].loaded THEN t ELSE u
  BY DEF T!Into
<1> HIDE DEF b
<1>3. Quiet(t, a) /\ a.wait = t.wait
  BY <1>0, <1>1, OpenQuiet
<1> HIDE DEF a, w
<1>4. Sane(a, s) /\ a \in Tree
  BY <1>3, QuietSane DEF Quiet
<1>5. a.row[n].id = t.row[n].id /\ a.row[n].loaded = t.row[n].loaded /\ a.row[n].loading = t.row[n].loading
  BY <1>3 DEF Quiet, Same
<1>6. T!FreeThreads(a) = T!FreeThreads(t)
  BY <1>3 DEF T!FreeThreads, Quiet
<1>7. ASSUME ~ t.row[n].loaded, t.row[n].loading
      PROVE  Quiet(t, u) /\ u.wait = w
  <2>1. d = a
    BY <1>5, <1>7 DEF T!Loaded
  <2>2. Quiet(a, u) /\ u.wait = w
    BY <1>1, <1>4, <2>1, WaitQuiet
  <2> HIDE DEF u
  <2> QED BY <1>0, <1>3, <2>2, QuietTrans
<1>8. ASSUME ~ t.row[n].loaded, ~ t.row[n].loading
      PROVE  Starts(t, u, n) /\ u.wait = w
  <2>1. d = T!Begun(a, n)
    BY <1>5, <1>8 DEF T!Loaded
  <2>2. RowObjects(a)
    BY <1>4 DEF Sane
  <2>3. Starts(a, d, n)
    BY <1>4, <1>5, <1>6, <1>8, <2>1, <2>2, BegunStarts
  <2> HIDE DEF d
  <2>4. d \in Tree
    BY <2>3 DEF Starts, StartsOn
  <2>5. Quiet(d, u) /\ u.wait = w
    BY <1>1, <2>4, WaitQuiet
  <2> HIDE DEF u
  <2> QED BY <1>0, <1>3, <2>3, <2>5, QuietStarts
<1> QED BY <1>2, <1>7, <1>8 DEF w

\* The walk has come to a row that is loading already.
Blocked(t) ==
  /\ t.target \in Conn /\ t.row[<<t.target, "conn">>].id # 0
  /\ \/ ~ t.row[<<t.target, "conn">>].loaded /\ t.row[<<t.target, "conn">>].loading
     \/ /\ t.row[<<t.target, "conn">>].loaded
        /\ t.row[<<t.target, "folder">>].id # 0
        /\ ~ t.row[<<t.target, "folder">>].loaded /\ t.row[<<t.target, "folder">>].loading

\* One load begun, and waited for.
Waits(t, u, m) ==
  Starts(t, u, m) /\ Blocked(u) /\ (t.wait = 0 => u.wait = t.row[m].id)

LEMMA WalkedIs ==
  ASSUME T!TreeAssumption, NEW t, NEW s, Sane(t, s), T!FreeThreads(t) # {} \/ Blocked(t)
  PROVE  LET u == T!Walked(t)
         IN  Quiet(t, u) \/ \E m \in T!Node : ~ Blocked(t) /\ Waits(t, u, m)
<1> DEFINE n == <<t.target, "conn">>
           f == <<t.target, "folder">>
           top == T!Into(t, n)
           low == T!Into(top, f)
<1>0. t \in Tree /\ Quiet(t, t)
  BY SameSelf DEF Sane, Quiet
<1>1. CASE t.target = T!Nowhere \/ t.row[n].id = 0
  BY <1>0, <1>1 DEF T!Walked, T!Exists
<1>2. CASE t.target # T!Nowhere /\ t.row[n].id # 0
  <2>1. t.target \in Conn /\ n \in T!Node /\ f \in T!Node /\ n # f
    BY <1>0, <1>2, TreeIs, ConnShape
  <2>2. T!Walked(t) = IF ~ top.row[n].loaded \/ ~ T!Exists(top, f) THEN top
                      ELSE IF low.row[f].loaded /\ low.row[f].shown \in T!Version
                              /\ T!Visible(low, f) /\ low.row[f].open
                           THEN [low EXCEPT !.selected = t.target] ELSE low
    BY <1>2 DEF T!Walked, T!Exists
  <2> HIDE DEF n, f
  <2>3. CASE ~ t.row[n].loaded
    <3>1. t.row[n].loaded \/ t.row[n].loading \/ T!FreeThreads(t) # {}
      BY <2>3 DEF Blocked, n
    <3>2. /\ t.row[n].loading => Quiet(t, top)
          /\ ~ t.row[n].loading => Starts(t, top, n)
          /\ top.wait = IF t.wait = 0 THEN t.row[n].id ELSE t.wait
      BY <1>2, <2>1, <2>3, <3>1, IntoIs
    <3> HIDE DEF top
    <3>3. ~ top.row[n].loaded
      <4>1. CASE t.row[n].loading
        BY <2>1, <2>3, <3>2, <4>1 DEF Quiet, Same
      <4>2. CASE ~ t.row[n].loading
        BY <3>2, <4>2 DEF Starts, StartsOn
      <4> QED BY <4>1, <4>2
    <3>4. T!Walked(t) = top
      BY <2>2, <3>3
    <3>5. ASSUME ~ t.row[n].loading
          PROVE  ~ Blocked(t) /\ Waits(t, top, n)
      <4>1. Starts(t, top, n)
        BY <3>2, <3>5
      <4>2. ~ Blocked(t)
        BY <2>3, <3>5 DEF Blocked, n
      <4>3. top.target = t.target /\ top.row[n].id # 0 /\ ~ top.row[n].loaded /\ top.row[n].loading
        BY <4>1 DEF Starts, StartsOn
      <4>4. Blocked(top)
        BY <2>1, <4>3 DEF Blocked, n
      <4> QED BY <3>2, <4>1, <4>2, <4>4 DEF Waits
    <3> QED BY <2>1, <3>2, <3>4, <3>5
  <2>4. CASE t.row[n].loaded
    <3>1. top = t
      BY <1>2, <2>1, <2>4, IntoIs
    <3> HIDE DEF top
    <3>2. CASE t.row[f].id = 0
      BY <1>0, <2>2, <3>1, <3>2 DEF T!Exists
    <3>3. CASE t.row[f].id # 0
      <4>1. t.row[f].loaded \/ t.row[f].loading \/ T!FreeThreads(t) # {}
        BY <2>4 DEF Blocked, n, f
      <4>2. /\ t.row[f].loaded => low = t
            /\ ~ t.row[f].loaded /\ t.row[f].loading => Quiet(t, low)
            /\ ~ t.row[f].loaded /\ ~ t.row[f].loading => Starts(t, low, f)
            /\ ~ t.row[f].loaded => low.wait = IF t.wait = 0 THEN t.row[f].id ELSE t.wait
        BY <2>1, <3>1, <3>3, <4>1, IntoIs
      <4> HIDE DEF low
      <4>3. T!Walked(t) = low \/ (low.row[f].loaded /\ T!Walked(t) = [low EXCEPT !.selected = t.target])
        BY <2>2, <2>4, <3>1, <3>3 DEF T!Exists
      <4>4. CASE t.row[f].loaded \/ t.row[f].loading
        <5>1. Quiet(t, low) /\ low \in Tree
          BY <1>0, <4>2, <4>4 DEF Quiet
        <5>2. CASE T!Walked(t) = low
          BY <5>1, <5>2
        <5>3. CASE T!Walked(t) = [low EXCEPT !.selected = t.target]
          <6>1. LET u == [low EXCEPT !.selected = t.target]
                IN  u \in Tree /\ u.row = low.row /\ u.job = low.job /\ u.target = low.target
            BY <2>1, <5>1 DEF Tree
          <6>2. Quiet(low, [low EXCEPT !.selected = t.target])
            BY <6>1, SameSelf DEF Quiet
          <6> QED BY <1>0, <5>1, <5>3, <6>2, QuietTrans
        <5> QED BY <4>3, <5>2, <5>3
      <4>5. CASE ~ t.row[f].loaded /\ ~ t.row[f].loading
        <5>1. Starts(t, low, f)
          BY <4>2, <4>5
        <5>2. /\ low.target = t.target /\ low.row[f].id # 0 /\ ~ low.row[f].loaded /\ low.row[f].loading
              /\ Same(t.row[n], low.row[n])
          BY <2>1, <5>1 DEF Starts, StartsOn
        <5>3. T!Walked(t) = low
          BY <4>3, <5>2
        <5>4. low.row[n].id # 0 /\ low.row[n].loaded
          BY <1>2, <2>4, <5>2 DEF Same
        <5>5. Blocked(low)
          BY <2>1, <5>2, <5>4 DEF Blocked, n, f
        <5>6. ~ Blocked(t)
          BY <2>4, <4>5 DEF Blocked, n, f
        <5>7. Waits(t, low, f)
          BY <4>2, <4>5, <5>1, <5>5 DEF Waits
        <5> QED BY <2>1, <5>3, <5>6, <5>7
      <4> QED BY <4>4, <4>5
    <3> QED BY <3>2, <3>3
  <2> QED BY <2>3, <2>4
<1> QED BY <1>0, <1>1, <1>2, TreeIs

-----------------------------------------------------------------------------
(* One row set, and loads of it over.                                      *)

Sets(t, u, n, r) ==
  /\ u \in Tree /\ u.row[n] = r
  /\ \A m \in T!Node : m # n => u.row[m] = t.row[m]
  /\ \A g \in Thread :
       \/ u.job[g] = t.job[g]
       \/ /\ u.job[g] = T!Idle
          /\ t.job[g] # T!Idle /\ t.job[g].of = n /\ t.job[g].step # "marked"

\* What the row may be.
Sound(t, u, n, r, s) ==
  /\ r.id = 0 => r = T!NoRow
  /\ \A m \in T!Node : m # n /\ r.id # 0 => t.row[m].id # r.id
  /\ \A h \in T!Loads(u, n) : u.job[h].of = n
  /\ n[2] = "conn" /\ t.row[T!Folder(n)].id # 0 => r.loaded /\ r.shown \in T!Version
  /\ n[2] = "folder" /\ r.id # 0 =>
       t.row[T!ConnRow(n)].loaded /\ t.row[T!ConnRow(n)].shown \in T!Version
  /\ r.shown = T!Note => r.loading
  /\ r.loading => T!Loads(u, n) # {}
  /\ ~ r.tainted => \A g, h \in T!Loads(u, n) : g = h /\ r.loading /\ ~ r.loaded
  /\ r.want <= version[n[1]]
  /\ r.want <= treeCached[n[1]] \/ n[1] \in s \/ Marked(t, n[1])
  /\ ~ r.tainted => \A h \in T!Loads(u, n) : ~ u.job[h].crossed =>
       /\ u.job[h].step = "opened" => r.want <= treeCached[n[1]]
       /\ u.job[h].step = "read" => r.want <= u.job[h].found

LEMMA OtherLoads ==
  ASSUME NEW t \in Tree, RowObjects(t), NEW u, NEW n \in T!Node, NEW r, Sets(t, u, n, r),
         NEW m \in T!Node, m # n
  PROVE  /\ u.row[m] = t.row[m] /\ T!Loads(u, m) = T!Loads(t, m)
         /\ \A h \in T!Loads(t, m) : u.job[h] = t.job[h]
<1>1. u.row[m] = t.row[m]
  BY DEF Sets
<1>2. \A h \in T!Loads(t, m) : h \in Thread /\ u.job[h] = t.job[h]
  BY DEF Sets, RowObjects, T!Loads
<1>3. \A h \in T!Loads(u, m) : h \in T!Loads(t, m)
  BY <1>1 DEF Sets, T!Loads
<1>4. \A h \in T!Loads(t, m) : h \in T!Loads(u, m)
  BY <1>1, <1>2 DEF T!Loads
<1> QED BY <1>1, <1>2, <1>3, <1>4

LEMMA SetsMarks ==
  ASSUME NEW t \in Tree, NEW u, NEW n \in T!Node, NEW r, Sets(t, u, n, r), NEW c, Marked(t, c)
  PROVE  Marked(u, c)
BY DEF Marked, Sets

LEMMA SetSane ==
  ASSUME T!TreeAssumption, NEW t, NEW s, Sane(t, s), NEW n \in T!Node, NEW r \in T!Row,
         NEW u, Sets(t, u, n, r), Sound(t, u, n, r, s)
  PROVE  Sane(u, s)
<1> t \in Tree /\ u \in Tree
  BY DEF Sane, Sets
<1>0. RowObjects(t) /\ Spins(t) /\ Single(t) /\ Wanted(t, s) /\ Finds(t)
  BY DEF Sane
<1>1. \A m \in T!Node : m # n => /\ u.row[m] = t.row[m] /\ T!Loads(u, m) = T!Loads(t, m)
                                 /\ \A h \in T!Loads(t, m) : u.job[h] = t.job[h]
  BY <1>0, OtherLoads
<1>2. u.row[n] = r
  BY DEF Sets
<1>3. RowObjects(u)
  <2>1. \A i, m \in T!Node : u.row[i].id = u.row[m].id => i = m \/ u.row[m].id = 0
    BY <1>0, <1>1, <1>2 DEF RowObjects, Sound
  <2>2. ASSUME NEW m \in T!Node, NEW h \in T!Loads(u, m)
        PROVE  u.job[h].of = m
    <3>1. CASE m = n
      BY <2>2, <3>1 DEF Sound
    <3>2. CASE m # n
      BY <1>0, <1>1, <2>2, <3>2 DEF RowObjects
    <3> QED BY <3>1, <3>2
  <2>3. \A m \in T!Node : u.row[m].id = 0 => u.row[m] = T!NoRow
    BY <1>0, <1>1, <1>2 DEF RowObjects, Sound
  <2>4. ASSUME NEW c \in Conn, u.row[<<c, "folder">>].id # 0
        PROVE  u.row[<<c, "conn">>].loaded /\ u.row[<<c, "conn">>].shown \in T!Version
    <3>1. /\ <<c, "conn">> \in T!Node /\ <<c, "folder">> \in T!Node /\ <<c, "conn">> # <<c, "folder">>
      BY ConnShape
    <3>2. CASE n = <<c, "conn">>
      <4>1. n[2] = "conn" /\ T!Folder(n) = <<c, "folder">> /\ T!Folder(n) # n
        BY <3>1, <3>2 DEF T!Folder
      <4> QED BY <1>1, <1>2, <2>4, <3>1, <3>2, <4>1 DEF Sound
    <3>3. CASE n = <<c, "folder">>
      <4>1. n[2] = "folder" /\ T!ConnRow(n) = <<c, "conn">>
        BY <3>1, <3>3 DEF T!ConnRow
      <4> QED BY <1>1, <1>2, <2>4, <3>1, <3>3, <4>1 DEF Sound
    <3>4. CASE n # <<c, "conn">> /\ n # <<c, "folder">>
      BY <1>0, <1>1, <2>4, <3>1, <3>4 DEF RowObjects
    <3> QED BY <3>2, <3>3, <3>4
  <2> QED BY <2>1, <2>2, <2>3, <2>4 DEF RowObjects
<1>4. Spins(u)
  <2> SUFFICES ASSUME NEW m \in T!Node
               PROVE  /\ u.row[m].shown = T!Note => u.row[m].loading
                      /\ u.row[m].loading => T!Loads(u, m) # {}
    BY DEF Spins
  <2>1. CASE m = n
    BY <1>2, <2>1 DEF Sound
  <2>2. CASE m # n
    BY <1>0, <1>1, <2>2 DEF Spins
  <2> QED BY <2>1, <2>2
<1>5. Single(u)
  <2> SUFFICES ASSUME NEW m \in T!Node, ~ u.row[m].tainted,
                      NEW g \in T!Loads(u, m), NEW h \in T!Loads(u, m)
               PROVE  g = h /\ u.row[m].loading /\ ~ u.row[m].loaded
    BY DEF Single
  <2>1. CASE m = n
    BY <1>2, <2>1 DEF Sound
  <2>2. CASE m # n
    BY <1>0, <1>1, <2>2 DEF Single
  <2> QED BY <2>1, <2>2
<1>6. Wanted(u, s)
  <2> SUFFICES ASSUME NEW m \in T!Node
               PROVE  /\ u.row[m].want <= version[m[1]]
                      /\ u.row[m].want <= treeCached[m[1]] \/ m[1] \in s \/ Marked(u, m[1])
    BY DEF Wanted
  <2>1. Marked(t, m[1]) => Marked(u, m[1])
    BY SetsMarks
  <2>2. CASE m = n
    BY <1>2, <2>1, <2>2 DEF Sound
  <2>3. CASE m # n
    BY <1>0, <1>1, <2>1, <2>3 DEF Wanted
  <2> QED BY <2>2, <2>3
<1>7. Finds(u)
  <2> SUFFICES ASSUME NEW m \in T!Node, ~ u.row[m].tainted, NEW h \in T!Loads(u, m), ~ u.job[h].crossed
               PROVE  /\ u.job[h].step = "opened" => u.row[m].want <= treeCached[m[1]]
                      /\ u.job[h].step = "read" => u.row[m].want <= u.job[h].found
    BY DEF Finds
  <2>1. CASE m = n
    BY <1>2, <2>1 DEF Sound
  <2>2. CASE m # n
    BY <1>0, <1>1, <2>2 DEF Finds
  <2> QED BY <2>1, <2>2
<1> QED BY <1>3, <1>4, <1>5, <1>6, <1>7 DEF Sane

LEMMA SetListed ==
  ASSUME NEW t, NEW n \in T!Node, NEW r, NEW u, Sets(t, u, n, r),
         NEW m \in T!Node, m # n, Listed(t, m)
  PROVE  Listed(u, m)
BY DEF Listed, Sets

LEMMA SaneMore ==
  ASSUME NEW t, NEW s, NEW c, Sane(t, s)
  PROVE  Sane(t, s \cup {c})
BY DEF Sane, Wanted

\* No load is one of a row that is not there.
LEMMA NoLoads ==
  ASSUME T!TreeAssumption, NEW t \in Tree, NEW n \in T!Node, t.row[n] = T!NoRow
  PROVE  T!Loads(t, n) = {}
<1>1. \A h \in Thread : t.job[h] # T!Idle => t.job[h].id # 0
  BY TreeIs, JobIs, IdIs
<1> QED BY <1>1, NoRowIs DEF T!Loads

\* A row goes with what is under it.
LEMMA DropSane ==
  ASSUME T!TreeAssumption, Server, NEW t, NEW s, Sane(t, s), NEW n \in T!Node,
         n[2] = "conn" => t.row[T!Folder(n)] = T!NoRow
  PROVE  LET u == T!Put(t, n, T!NoRow)
         IN  Sets(t, u, n, T!NoRow) /\ Sane(u, s) /\ Listed(u, n)
<1> DEFINE u == T!Put(t, n, T!NoRow)
<1> t \in Tree
  BY DEF Sane
<1>1. /\ u \in Tree /\ u.row[n] = T!NoRow /\ u.job = t.job
      /\ \A m \in T!Node : m # n => u.row[m] = t.row[m]
  BY PutIs, NoRowIs
<1> HIDE DEF u
<1>2. Sets(t, u, n, T!NoRow)
  BY <1>1 DEF Sets
<1>3. T!Loads(u, n) = {}
  BY <1>1, NoLoads
<1>4. version[n[1]] \in T!Version /\ treeCached[n[1]] \in T!Version /\ 0 <= version[n[1]] /\ 0 <= treeCached[n[1]]
  BY NodeShape, Numbers DEF Server
<1>5. T!NoRow.want <= version[n[1]] /\ T!NoRow.want <= treeCached[n[1]] /\ T!NoRow.shown # T!Note
  BY <1>4, NoRowIs, Numbers
<1>6. Sound(t, u, n, T!NoRow, s)
  BY <1>3, <1>5, NoRowIs DEF Sound
<1>7. Sane(u, s)
  BY <1>2, <1>6, NoRowIs, SetSane
<1>8. Listed(u, n)
  BY <1>1, NoRowIs DEF Listed
<1> QED BY <1>2, <1>7, <1>8 DEF u

-----------------------------------------------------------------------------
(* Stores emptied and filled, and the walk they wake.                      *)

Grown(t, u) == Quiet(t, u) \/ \E m \in T!Node : Starts(t, u, m)

LEMMA GrownIs ==
  ASSUME T!TreeAssumption, NEW t, NEW u, NEW s, Sane(t, s), Grown(t, u)
  PROVE  /\ Sane(u, s)
         /\ \A n \in T!Node : Listed(t, n) => Listed(u, n)
         /\ \A n \in T!Node : /\ u.row[n].id = t.row[n].id
                              /\ t.row[n].loaded => Same(t.row[n], u.row[n])
                              /\ t.row[n] = T!NoRow => u.row[n] = T!NoRow
<1> t \in Tree
  BY DEF Sane
<1>1. CASE Quiet(t, u)
  BY <1>1, QuietSane, QuietListed, NoRowIs DEF Quiet, Same
<1>2. ASSUME NEW m \in T!Node, Starts(t, u, m)
      PROVE  /\ Sane(u, s)
             /\ \A n \in T!Node : Listed(t, n) => Listed(u, n)
             /\ \A n \in T!Node : /\ u.row[n].id = t.row[n].id
                                  /\ t.row[n].loaded => Same(t.row[n], u.row[n])
                                  /\ t.row[n] = T!NoRow => u.row[n] = T!NoRow
  <2>1. Sane(u, s)
    BY <1>2, StartsSane
  <2>2. \A n \in T!Node : Listed(t, n) => Listed(u, n)
    BY <1>2, StartsListed
  <2>3. u.row[m].id = t.row[m].id /\ ~ t.row[m].loaded /\ t.row[m].id # 0
    BY <1>2 DEF Starts, StartsOn
  <2>4. \A n \in T!Node : n # m => Same(t.row[n], u.row[n])
    BY <1>2 DEF Starts, StartsOn
  <2>5. T!NoRow.id = 0
    BY NoRowIs
  <2> QED BY <2>1, <2>2, <2>3, <2>4, <2>5 DEF Same
<1> QED BY <1>1, <1>2 DEF Grown

\* The walk was woken, and began to wait for the load of row m.
Woken(t, u, m) == Starts(t, u, m) /\ Blocked(u) /\ u.wait = t.row[m].id

LEMMA SignalledIs ==
  ASSUME T!TreeAssumption, NEW t, NEW s, Sane(t, s), NEW i \in T!Ids,
         t.wait = i => T!FreeThreads(t) # {} \/ Blocked(t)
  PROVE  LET u == T!Signalled(t, i)
         IN  /\ Quiet(t, u) \/ \E m \in T!Node : ~ Blocked(t) /\ Woken(t, u, m)
             /\ t.wait # i => u = t
<1> t \in Tree
  BY DEF Sane
<1>1. CASE t.wait # i
  BY <1>1, SameSelf DEF T!Signalled, Quiet
<1>2. CASE t.wait = i
  <2> DEFINE a == [t EXCEPT !.wait = 0]
             u == T!Walked(a)
  <2>1. T!Signalled(t, i) = u
    BY <1>2 DEF T!Signalled
  <2>2. Quiet(t, a) /\ a.wait = 0
    BY WaitQuiet
  <2>3. a.row = t.row /\ a.job = t.job /\ a.target = t.target
    BY WaitIs
  <2> HIDE DEF a
  <2>4. Sane(a, s)
    BY <2>2, QuietSane
  <2>5. (T!FreeThreads(a) = T!FreeThreads(t)) /\ (Blocked(a) <=> Blocked(t))
    BY <2>3 DEF T!FreeThreads, Blocked
  <2>6. Quiet(a, u) \/ \E m \in T!Node : ~ Blocked(a) /\ Waits(a, u, m)
    BY <1>2, <2>4, <2>5, WalkedIs
  <2> HIDE DEF u
  <2>7. CASE Quiet(a, u)
    BY <1>2, <2>1, <2>2, <2>7, QuietTrans
  <2>8. CASE \E m \in T!Node : ~ Blocked(a) /\ Waits(a, u, m)
    <3> PICK m \in T!Node : ~ Blocked(a) /\ Waits(a, u, m)
      BY <2>8
    <3>1. Starts(a, u, m) /\ Blocked(u) /\ u.wait = t.row[m].id
      BY <2>2, <2>3 DEF Waits
    <3>2. Quiet(u, u)
      BY <3>1, SameSelf DEF Quiet, Starts, StartsOn
    <3>3. Starts(t, u, m)
      BY <2>2, <3>1, <3>2, QuietStarts
    <3> QED BY <1>2, <2>1, <2>5, <3>1, <3>3 DEF Woken
  <2> QED BY <2>6, <2>7, <2>8
<1> QED BY <1>1, <1>2

LEMMA EmptiedIs ==
  ASSUME T!TreeAssumption, NEW t \in Tree, NEW n \in T!Node,
         n[2] = "conn" /\ t.row[n].shown = T!Empty => t.row[T!Folder(n)] = T!NoRow
  PROVE  T!Emptied(t, n) = T!Cleared(t, n) \/ T!Emptied(t, n) = T!Signalled(T!Cleared(t, n), t.row[n].id)
<1>1. CASE t.row[n].shown # T!Empty
  BY <1>1 DEF T!Emptied
<1>2. CASE t.row[n].shown = T!Empty
  <2>1. t.row[n] \in T!Row /\ t.row \in [T!Node -> T!Row]
    BY TreeIs
  <2>2. [t.row[n] EXCEPT !.shown = T!Empty] = t.row[n]
    BY <1>2, <2>1 DEF T!Row
  <2>3. \A m \in T!Node : T!Put(t, m, t.row[m]) = t
    <3> TAKE m \in T!Node
    <3>1. [t.row EXCEPT ![m] = t.row[m]] = t.row
      BY <2>1
    <3>2. [t EXCEPT !.row = t.row] = t
      BY DEF Tree
    <3> QED BY <3>1, <3>2 DEF T!Put
  <2>4. CASE n[2] = "conn"
    <3>1. T!Folder(n) \in T!Node /\ t.row[T!Folder(n)] = T!NoRow
      BY <1>2, <2>4, NodeShape
    <3> QED BY <1>2, <2>2, <2>3, <2>4, <3>1 DEF T!Emptied, T!Cleared
  <2>5. CASE n[2] # "conn"
    BY <1>2, <2>2, <2>3, <2>5 DEF T!Emptied, T!Cleared
  <2> QED BY <2>4, <2>5
<1> QED BY <1>1, <1>2

\* A row forgotten, or its load over: its store is emptied.
LEMMA EmptySane ==
  ASSUME T!TreeAssumption, Server, NEW t, NEW s, Sane(t, s), NEW n \in T!Node, NEW r \in T!Row,
         NEW v, Sets(t, v, n, r), r.id = t.row[n].id, r.id # 0, ~ r.loading,
         ~ r.tainted => T!Loads(v, n) = {},
         r.want <= version[n[1]],
         r.want <= treeCached[n[1]] \/ n[1] \in s \/ Marked(t, n[1])
  PROVE  LET b == T!Cleared(v, n)
         IN  /\ Sane(b, s)
             /\ b.row[n] = [r EXCEPT !.shown = T!Empty]
             /\ b.job = v.job /\ b.wait = v.wait
             /\ n[2] = "conn" => b.row[T!Folder(n)] = T!NoRow
             /\ \A m \in T!Node : m # n /\ Listed(t, m) => Listed(b, m)
<1> DEFINE b == T!Cleared(v, n)
           q == [r EXCEPT !.shown = T!Empty]
<1> t \in Tree /\ v \in Tree
  BY DEF Sane, Sets
<1>0. v.row[n] = r
  BY DEF Sets
<1>1. /\ b \in Tree /\ b.wait = v.wait /\ b.job = v.job /\ b.row[n] = q
      /\ n[2] = "conn" => b.row[T!Folder(n)] = T!NoRow
      /\ \A m \in T!Node : m # n /\ (n[2] = "conn" => m # T!Folder(n)) => b.row[m] = v.row[m]
  BY <1>0, ClearedIs
<1>2. /\ q \in T!Row /\ q.id = r.id /\ q.loaded = r.loaded /\ q.loading = r.loading
      /\ q.shown = T!Empty /\ q.want = r.want /\ q.tainted = r.tainted
  BY Numbers DEF T!Row
<1> HIDE DEF q, b
<1>3. \E a : /\ Sane(a, s) /\ a.job = t.job /\ a.row[n] = t.row[n]
             /\ \A m \in T!Node : m # n => b.row[m] = a.row[m]
             /\ \A m \in T!Node : m # n /\ Listed(t, m) => Listed(a, m)
             /\ n[2] = "conn" => a.row[T!Folder(n)].id = 0
             /\ n[2] = "folder" => a.row = t.row
  <2>1. CASE n[2] = "conn"
    <3> DEFINE a == T!Put(t, T!Folder(n), T!NoRow)
    <3>1. /\ T!Folder(n) \in T!Node /\ T!Folder(n) # n /\ T!Folder(n) = <<n[1], "folder">>
          /\ n[2] # "folder"
      BY <2>1, NodeShape
    <3>2. T!Folder(n)[2] # "conn"
      BY <3>1
    <3>3. Sane(a, s) /\ Listed(a, T!Folder(n)) /\ Sets(t, a, T!Folder(n), T!NoRow)
      BY <3>1, <3>2, DropSane
    <3>4. /\ a.job = t.job /\ a.row[T!Folder(n)] = T!NoRow
          /\ \A m \in T!Node : m # T!Folder(n) => a.row[m] = t.row[m]
      <4>1. T!Folder(n) \in T!Node /\ T!NoRow \in T!Row
        BY <3>1, NoRowIs
      <4> QED BY <4>1, PutIs
    <3> HIDE DEF a
    <3>5. \A m \in T!Node : m # n => b.row[m] = a.row[m]
      BY <1>1, <2>1, <3>4 DEF Sets
    <3>6. \A m \in T!Node : m # n /\ Listed(t, m) => Listed(a, m)
      BY <3>1, <3>3, SetListed
    <3> QED BY <3>1, <3>3, <3>4, <3>5, <3>6, NoRowIs
  <2>2. CASE n[2] # "conn"
    <3>1. \A m \in T!Node : m # n => b.row[m] = t.row[m]
      BY <1>1, <2>2 DEF Sets
    <3> QED BY <2>2, <3>1
  <2> QED BY <2>1, <2>2
<1> PICK a : /\ Sane(a, s) /\ a.job = t.job /\ a.row[n] = t.row[n]
             /\ \A m \in T!Node : m # n => b.row[m] = a.row[m]
             /\ \A m \in T!Node : m # n /\ Listed(t, m) => Listed(a, m)
             /\ n[2] = "conn" => a.row[T!Folder(n)].id = 0
             /\ n[2] = "folder" => a.row = t.row
  BY <1>3
<1>4. RowObjects(a) /\ RowObjects(t) /\ a \in Tree
  BY DEF Sane
<1>5. Sets(a, b, n, q)
  BY <1>1 DEF Sets
<1>6. T!Loads(b, n) = T!Loads(v, n)
  BY <1>0, <1>1, <1>2 DEF T!Loads
<1>7. \A h \in T!Loads(b, n) : b.job[h].of = n
  <2> TAKE h \in T!Loads(b, n)
  <2>1. h \in Thread /\ v.job[h] # T!Idle /\ v.job[h].id = t.row[n].id
    BY <1>0, <1>6 DEF T!Loads
  <2>2. v.job[h] = t.job[h]
    BY <2>1 DEF Sets
  <2>3. h \in T!Loads(t, n)
    BY <2>1, <2>2 DEF T!Loads
  <2> QED BY <1>1, <1>4, <2>2, <2>3 DEF RowObjects
<1>8. T!ConnRow(n) = <<n[1], "conn">> /\ n[1] \in Conn /\ n = <<n[1], n[2]>>
  BY NodeShape
<1>9. T!Empty # T!Note /\ T!Empty \notin T!Version
  BY Numbers
<1>10. \A m \in T!Node : m # n => a.row[m].id # q.id
  BY <1>2, <1>4 DEF RowObjects
<1>11. n[2] = "folder" =>
         a.row[T!ConnRow(n)].loaded /\ a.row[T!ConnRow(n)].shown \in T!Version
  BY <1>2, <1>4, <1>8 DEF RowObjects
<1>12. Marked(t, n[1]) => Marked(a, n[1])
  BY DEF Marked
<1>13. ~ q.tainted => T!Loads(b, n) = {}
  BY <1>2, <1>6
<1>14. q.want <= version[n[1]] /\ (q.want <= treeCached[n[1]] \/ n[1] \in s \/ Marked(a, n[1]))
  BY <1>2, <1>12
<1>15. /\ q.id # 0 /\ q.shown # T!Note /\ ~ q.loading
       /\ n[2] = "conn" => a.row[T!Folder(n)].id = 0
  BY <1>2, <1>9
<1>16. Sound(a, b, n, q, s)
  <2>1. \A h \in T!Loads(b, n) : q.tainted
    BY <1>13
  <2>2. ~ q.tainted => \A g, h \in T!Loads(b, n) : g = h /\ q.loading /\ ~ q.loaded
    BY <2>1
  <2>3. ~ q.tainted => \A h \in T!Loads(b, n) : ~ b.job[h].crossed =>
          /\ b.job[h].step = "opened" => q.want <= treeCached[n[1]]
          /\ b.job[h].step = "read" => q.want <= b.job[h].found
    BY <2>1
  <2>4. n[2] = "folder" /\ q.id # 0 =>
          a.row[T!ConnRow(n)].loaded /\ a.row[T!ConnRow(n)].shown \in T!Version
    BY <1>11
  <2>5. q.loading => T!Loads(b, n) # {}
    BY <1>15
  <2> HIDE DEF Listed, Sane, Sets, Server
  <2> QED BY <1>7, <1>10, <1>14, <1>15, <2>2, <2>3, <2>4, <2>5 DEF Sound
<1>17. Sane(b, s)
  BY <1>2, <1>5, <1>16, SetSane
<1>18. \A m \in T!Node : m # n /\ Listed(t, m) => Listed(b, m)
  BY <1>5, SetListed
<1> QED BY <1>1, <1>17, <1>18 DEF b, q

\* What a store shows is all that changes, and the folder of a listing.
LEMMA ShownSane ==
  ASSUME T!TreeAssumption, NEW t, NEW s, Sane(t, s), NEW n \in T!Node, t.row[n].id # 0,
         NEW rows \in T!Version \cup {T!Failure},
         n[2] = "conn" => t.row[T!Folder(n)] = T!NoRow
  PROVE  LET u == T!Put(t, n, [t.row[n] EXCEPT !.shown = rows])
         IN  /\ Sane(u, s) /\ u.row[n] = [t.row[n] EXCEPT !.shown = rows]
             /\ u.job = t.job /\ u.wait = t.wait /\ u.target = t.target
             /\ \A m \in T!Node : m # n => u.row[m] = t.row[m]
             /\ \A m \in T!Node : m # n /\ Listed(t, m) => Listed(u, m)
<1> DEFINE r == [t.row[n] EXCEPT !.shown = rows]
           u == T!Put(t, n, r)
<1>0. t \in Tree /\ RowObjects(t) /\ Spins(t) /\ Single(t) /\ Wanted(t, s) /\ Finds(t)
  BY DEF Sane
<1>1. /\ r \in T!Row /\ r.id = t.row[n].id /\ r.loaded = t.row[n].loaded
      /\ r.loading = t.row[n].loading /\ r.shown = rows
      /\ r.want = t.row[n].want /\ r.tainted = t.row[n].tainted
  <2>1. t.row[n] \in T!Row /\ rows \in 0 .. T!Failure
    BY <1>0, TreeIs, Numbers
  <2> QED BY <2>1 DEF T!Row
<1> HIDE DEF r
<1>2. /\ u \in Tree /\ u.row[n] = r /\ u.job = t.job /\ u.wait = t.wait /\ u.target = t.target
      /\ \A m \in T!Node : m # n => u.row[m] = t.row[m]
  BY <1>0, <1>1, PutIs
<1> HIDE DEF u
<1>3. Sets(t, u, n, r)
  BY <1>2 DEF Sets
<1>4. T!Loads(u, n) = T!Loads(t, n)
  BY <1>1, <1>2 DEF T!Loads
<1>5. T!ConnRow(n) = <<n[1], "conn">> /\ n[1] \in Conn /\ n = <<n[1], n[2]>>
  BY NodeShape
<1>6. rows # T!Note /\ T!NoRow.id = 0
  BY Numbers, NoRowIs
<1>7. Sound(t, u, n, r, s)
  <2>1. r.id # 0 /\ r.shown # T!Note /\ (n[2] = "conn" => t.row[T!Folder(n)].id = 0)
    BY <1>1, <1>6
  <2>2. \A m \in T!Node : m # n => t.row[m].id # r.id
    BY <1>0, <1>1 DEF RowObjects
  <2>3. \A h \in T!Loads(u, n) : u.job[h].of = n
    BY <1>0, <1>2, <1>4 DEF RowObjects
  <2>4. n[2] = "folder" =>
          t.row[T!ConnRow(n)].loaded /\ t.row[T!ConnRow(n)].shown \in T!Version
    BY <1>0, <1>5 DEF RowObjects
  <2>5. r.loading => T!Loads(u, n) # {}
    BY <1>0, <1>1, <1>4 DEF Spins
  <2>6. ~ r.tainted => \A g, h \in T!Loads(u, n) : g = h /\ r.loading /\ ~ r.loaded
    BY <1>0, <1>1, <1>4 DEF Single
  <2>7. r.want <= version[n[1]] /\ (r.want <= treeCached[n[1]] \/ n[1] \in s \/ Marked(t, n[1]))
    BY <1>0, <1>1 DEF Wanted
  <2>8. ~ r.tainted => \A h \in T!Loads(u, n) : ~ u.job[h].crossed =>
          /\ u.job[h].step = "opened" => r.want <= treeCached[n[1]]
          /\ u.job[h].step = "read" => r.want <= u.job[h].found
    BY <1>0, <1>1, <1>2, <1>4 DEF Finds
  <2> QED BY <2>1, <2>2, <2>3, <2>4, <2>5, <2>6, <2>7, <2>8 DEF Sound
<1>8. Sane(u, s)
  BY <1>1, <1>3, <1>7, SetSane
<1>9. \A m \in T!Node : m # n /\ Listed(t, m) => Listed(u, m)
  BY <1>3, SetListed
<1> QED BY <1>2, <1>8, <1>9 DEF u, r

\* The connection's folder, as a new row object.
Hung(t, n, i) ==
  T!Put(t, T!Folder(n), [T!NewRow(i) EXCEPT !.want = t.row[n].want, !.tainted = t.row[n].tainted])

LEMMA FolderSane ==
  ASSUME T!TreeAssumption, Server, NEW t, NEW s, Sane(t, s), NEW n \in T!Node, n[2] = "conn",
         t.row[n].loaded, t.row[n].shown \in T!Version, NEW i \in T!Ids,
         \A m \in T!Node : t.row[m].id # i, \A h \in Thread : t.job[h] # T!Idle => t.job[h].id # i
  PROVE  LET u == Hung(t, n, i)
         IN  /\ Sane(u, s)
             /\ u.job = t.job /\ u.wait = t.wait /\ u.target = t.target
             /\ \A m \in T!Node : m # T!Folder(n) => u.row[m] = t.row[m]
             /\ Listed(u, T!Folder(n))
             /\ \A m \in T!Node : Listed(t, m) => Listed(u, m)
<1> DEFINE r == [T!NewRow(i) EXCEPT !.want = t.row[n].want, !.tainted = t.row[n].tainted]
           u == T!Put(t, T!Folder(n), r)
<1>0. t \in Tree /\ RowObjects(t) /\ Spins(t) /\ Single(t) /\ Wanted(t, s) /\ Finds(t)
  BY DEF Sane
<1>1. /\ r \in T!Row /\ r.id = i /\ ~ r.loaded /\ ~ r.loading /\ r.shown = T!Empty
      /\ r.want = t.row[n].want
  <2>1. t.row[n].want \in T!Version /\ t.row[n].tainted \in BOOLEAN
    BY <1>0, TreeIs, RowIs
  <2>2. T!Empty \in 0 .. T!Failure
    BY Numbers
  <2> QED BY <2>1, <2>2 DEF T!NewRow, T!NoRow, T!Row
<1> HIDE DEF r
<1>2. T!Folder(n) \in T!Node /\ T!Folder(n) = <<n[1], "folder">> /\ n = <<n[1], "conn">>
  BY NodeShape
<1> DEFINE f == T!Folder(n)
<1>3. /\ f \in T!Node /\ f[2] = "folder" /\ f[1] = n[1] /\ T!ConnRow(f) = n
  BY <1>2 DEF T!ConnRow
<1>4. /\ u \in Tree /\ u.row[f] = r /\ u.job = t.job /\ u.wait = t.wait /\ u.target = t.target
      /\ \A m \in T!Node : m # f => u.row[m] = t.row[m]
  BY <1>0, <1>1, <1>3, PutIs
<1> HIDE DEF u, f
<1>5. Sets(t, u, f, r)
  BY <1>4 DEF Sets
<1>6. T!Loads(u, f) = {}
  BY <1>1, <1>4 DEF T!Loads
<1>7. r.id # 0 /\ r.shown # T!Note
  BY <1>1, IdIs, Numbers
<1>8. r.want <= version[f[1]] /\ (r.want <= treeCached[f[1]] \/ f[1] \in s \/ Marked(t, f[1]))
  BY <1>0, <1>1, <1>3 DEF Wanted
<1>9. Sound(t, u, f, r, s)
  <2>1. \A m \in T!Node : t.row[m].id # r.id
    BY <1>1
  <2> QED BY <1>1, <1>3, <1>6, <1>7, <1>8, <2>1 DEF Sound
<1>10. Sane(u, s)
  BY <1>1, <1>3, <1>5, <1>9, SetSane
<1>11. Listed(u, f)
  BY <1>1, <1>4 DEF Listed
<1>12. \A m \in T!Node : Listed(t, m) => Listed(u, m)
  BY <1>3, <1>5, <1>11, SetListed
<1> QED BY <1>4, <1>10, <1>11, <1>12 DEF Hung, u, f, r

LEMMA FilledIs ==
  ASSUME T!TreeAssumption, Server, NEW t, NEW s, Sane(t, s), NEW n \in T!Node, t.row[n].id # 0,
         NEW rows \in T!Version \cup {T!Failure},
         n[2] = "conn" => t.row[T!Folder(n)] = T!NoRow,
         rows \in T!Version => t.row[n].loaded
  PROVE  \E u : /\ T!Filled(t, n, rows) = T!Signalled(u, t.row[n].id)
                /\ Sane(u, s) /\ u.job = t.job /\ u.wait = t.wait
                /\ u.row[n] = [t.row[n] EXCEPT !.shown = rows]
                /\ Blocked(t) /\ rows = T!Failure => Blocked(u)
                /\ \A m \in T!Node : m # n /\ Listed(t, m) => Listed(u, m)
<1> DEFINE r == [t.row[n] EXCEPT !.shown = rows]
           put == T!Put(t, n, r)
           i == T!FreshId(t)
           g == T!Put(put, T!Folder(n), [T!NewRow(i) EXCEPT !.want = t.row[n].want,
                                                      !.tainted = t.row[n].tainted])
<1>0. t \in Tree
  BY DEF Sane
<1>1. /\ Sane(put, s) /\ put.row[n] = r
      /\ put.job = t.job /\ put.wait = t.wait /\ put.target = t.target
      /\ \A m \in T!Node : m # n => put.row[m] = t.row[m]
      /\ \A m \in T!Node : m # n /\ Listed(t, m) => Listed(put, m)
  BY ShownSane
<1>2. T!Filled(t, n, rows) =
        T!Signalled(IF n[2] = "conn" /\ rows \in T!Version THEN g ELSE put, t.row[n].id)
  BY DEF T!Filled
<1>3. /\ r.id = t.row[n].id /\ r.loaded = t.row[n].loaded /\ r.loading = t.row[n].loading
      /\ r.shown = rows /\ r.want = t.row[n].want /\ r.tainted = t.row[n].tainted
  BY <1>0, TreeIs DEF T!Row
<1> HIDE DEF r, put, i
<1>4. CASE n[2] = "conn" /\ rows \in T!Version
  <2>1. i \in T!Ids /\ i \notin T!InUse(t)
    BY <1>0, Fresh DEF i
  <2>2. \A m \in T!Node : t.row[m].id # i
    BY <2>1 DEF T!InUse
  <2>3. \A h \in Thread : put.job[h] # T!Idle => put.job[h].id # i
    BY <1>1, <2>1 DEF T!InUse
  <2>4. \A m \in T!Node : put.row[m].id # i
    BY <1>1, <1>3, <2>2
  <2>5. put.row[n].loaded /\ put.row[n].shown \in T!Version
    BY <1>1, <1>3, <1>4
  <2>6. g = Hung(put, n, i)
    BY <1>1, <1>3 DEF Hung
  <2>7. T!Folder(n) # n
    BY <1>4, NodeShape
  <2> HIDE DEF g
  <2>8. /\ Sane(g, s) /\ g.job = put.job /\ g.wait = put.wait
        /\ \A m \in T!Node : m # T!Folder(n) => g.row[m] = put.row[m]
        /\ \A m \in T!Node : Listed(put, m) => Listed(g, m)
    <3>1. Sane(put, s) /\ n[2] = "conn" /\ i \in T!Ids
      BY <1>1, <1>4, <2>1
    <3>2. LET u == Hung(put, n, i)
          IN  /\ Sane(u, s) /\ u.job = put.job /\ u.wait = put.wait
              /\ \A m \in T!Node : m # T!Folder(n) => u.row[m] = put.row[m]
              /\ \A m \in T!Node : Listed(put, m) => Listed(u, m)
      BY <2>3, <2>4, <2>5, <3>1, FolderSane, Zenon
    <3> QED BY <2>6, <3>2
  <2>9. rows # T!Failure
    BY <1>4, Numbers
  <2> QED BY <1>1, <1>2, <1>4, <2>7, <2>8, <2>9 DEF r
<1>5. CASE ~ (n[2] = "conn" /\ rows \in T!Version)
  <2>1. T!Filled(t, n, rows) = T!Signalled(put, t.row[n].id)
    BY <1>2, <1>5
  <2>2. Blocked(t) => Blocked(put)
    <3>1. \A m \in T!Node : /\ put.row[m].id = t.row[m].id /\ put.row[m].loaded = t.row[m].loaded
                         /\ put.row[m].loading = t.row[m].loading
      BY <1>1, <1>3
    <3> QED BY <1>1, <3>1, ConnShape DEF Blocked
  <2> QED BY <1>1, <2>1, <2>2 DEF r
<1> QED BY <1>4, <1>5

\* Two threads that are free.
Two(t) == \E g, h \in T!FreeThreads(t) : g # h

LEMMA LoadChildrenIs ==
  ASSUME T!TreeAssumption, NEW t, NEW s, Sane(t, s), NEW n \in T!Node, t.row[n].id # 0,
         t.row[n].loading \/ (T!FreeThreads(t) # {} /\ (t.wait = t.row[n].id => Two(t)))
  PROVE  LET u == T!LoadChildren(t, n)
         IN  Sane(u, s) /\ \A m \in T!Node : Listed(t, m) => Listed(u, m)
<1> t \in Tree /\ RowObjects(t)
  BY DEF Sane
<1>1. CASE t.row[n].loaded \/ t.row[n].loading
  BY <1>1 DEF T!LoadChildren
<1>2. CASE ~ (t.row[n].loaded \/ t.row[n].loading)
  <2> DEFINE b == T!Begun(t, n)
             i == t.row[n].id
  <2>1. T!LoadChildren(t, n) = T!Signalled(b, i)
    BY <1>2 DEF T!LoadChildren
  <2>2. Starts(t, b, n) /\ b.wait = t.wait
    BY <1>2, BegunStarts
  <2> HIDE DEF b
  <2>3. b.row[n].id = i /\ i \in T!Ids
    BY <2>2, TreeIs, RowIs DEF Starts, StartsOn
  <2>4. Sane(b, s) /\ \A m \in T!Node : Listed(t, m) => Listed(b, m)
    BY <2>2, GrownIs DEF Grown
  <2>5. b.wait = i => T!FreeThreads(b) # {}
    <3> SUFFICES ASSUME b.wait = i
                 PROVE  T!FreeThreads(b) # {}
      OBVIOUS
    <3>1. Two(t)
      BY <1>2, <2>2
    <3>2. PICK h \in Thread : StartsOn(t, b, n, h)
      BY <2>2 DEF Starts
    <3>3. PICK g \in T!FreeThreads(t) : g # h
      BY <3>1 DEF Two
    <3>4. g \in Thread /\ b.job[g] = T!Idle
      BY <3>2, <3>3 DEF StartsOn, T!FreeThreads
    <3> QED BY <3>4 DEF T!FreeThreads
  <2>6. Grown(b, T!Signalled(b, i))
    BY <2>3, <2>4, <2>5, SignalledIs DEF Grown, Woken
  <2> QED BY <2>1, <2>3, <2>4, <2>6, GrownIs
<1> QED BY <1>1, <1>2

-----------------------------------------------------------------------------
(* The user and the window.                                                *)

\* A step that leaves server and cache alone.
LEMMA Stays ==
  ASSUME TreeInv, version' = version, treeCached' = treeCached, stale' \subseteq Conn,
         Sane(tree', stale'), \A n \in T!Node : Listed(tree', n)
  PROVE  TreeInv'
<1>1. Server'
  BY DEF TreeInv, Server
<1>2. (tree \in Tree)' /\ RowObjects(tree)'
  BY DEF Sane, RowObjects, T!Loads
<1>3. Spins(tree)' /\ Single(tree)'
  BY DEF Sane, Spins, Single, T!Loads
<1>4. Wanted(tree, stale)'
  BY DEF Sane, Wanted, Marked
<1>5. Finds(tree)'
  BY DEF Sane, Finds, T!Loads
<1>6. Sane(tree, stale)'
  BY <1>2, <1>3, <1>4, <1>5 DEF Sane
<1>7. (\A n \in T!Node : Listed(tree, n))'
  BY DEF Listed
<1> QED BY <1>1, <1>6, <1>7 DEF TreeInv

LEMMA RoomIs ==
  ASSUME T!TreeAssumption, T!Room, tree \in Tree
  PROVE  T!FreeThreads(tree) # {} /\ (tree.wait # 0 => Two(tree))
<1> DEFINE F == T!FreeThreads(tree)
<1>1. IsFiniteSet(F) /\ Cardinality(F) \in Nat
  <2>1. F \in SUBSET Thread /\ IsFiniteSet(Thread)
    BY Sizes DEF T!FreeThreads
  <2> QED BY <2>1, FS_Subset, FS_CardinalityType
<1>2. Cardinality(F) > (IF tree.wait = 0 THEN 0 ELSE 1)
  BY SameCount DEF T!Room
<1> HIDE DEF F
<1>3. F # {}
  BY <1>1, <1>2, FS_EmptySet
<1>4. ASSUME tree.wait # 0
      PROVE  \E g, h \in F : g # h
  <2>1. PICK h \in F : TRUE
    BY <1>3
  <2>2. SUFFICES ASSUME \A g \in F : g = h
                 PROVE  FALSE
    BY <2>1
  <2>3. F = {h}
    BY <2>1, <2>2
  <2>4. Cardinality(F) = 1
    BY <2>3, FS_Singleton
  <2> QED BY <1>1, <1>2, <1>4, <2>4
<1> QED BY <1>3, <1>4 DEF F, Two

LEMMA ExpandStep ==
  ASSUME T!TreeAssumption, TreeInv, NEW n \in T!Node, T!Expand(n)
  PROVE  TreeInv'
<1> DEFINE a == T!Put(tree, n, [tree.row[n] EXCEPT !.open = TRUE])
<1>1. Sane(tree, stale) /\ tree \in Tree /\ stale \subseteq Conn /\ \A m \in T!Node : Listed(tree, m)
  BY DEF TreeInv, Sane, Server
<1>2. T!FreeThreads(tree) # {} /\ (tree.wait # 0 => Two(tree))
  BY <1>1, RoomIs DEF T!Expand
<1>3. tree.row[n].id # 0 /\ tree.row[n] # T!NoRow
  BY NoRowIs DEF T!Expand, T!Visible, T!Exists
<1>4. Quiet(tree, a) /\ a.wait = tree.wait
  BY <1>1, <1>3, OpenQuiet
<1>5. tree' = T!LoadChildren(a, n) /\ version' = version /\ treeCached' = treeCached /\ stale' = stale
  BY DEF T!Expand
<1> HIDE DEF a
<1>6. Sane(a, stale) /\ \A m \in T!Node : Listed(a, m)
  BY <1>1, <1>4, GrownIs DEF Grown
<1>7. a.row[n].id = tree.row[n].id /\ T!FreeThreads(a) = T!FreeThreads(tree) /\ (Two(a) <=> Two(tree))
  BY <1>4 DEF Quiet, Same, T!FreeThreads, Two
<1>8. Sane(tree', stale) /\ \A m \in T!Node : Listed(tree', m)
  BY <1>2, <1>3, <1>4, <1>5, <1>6, <1>7, LoadChildrenIs
<1> QED BY <1>1, <1>5, <1>8, Stays

LEMMA CollapseStep ==
  ASSUME T!TreeAssumption, TreeInv, NEW n \in T!Node, T!Collapse(n)
  PROVE  TreeInv'
<1> DEFINE a == T!Put(tree, n, [tree.row[n] EXCEPT !.open = FALSE])
           b == T!Put(a, T!Folder(n), [a.row[T!Folder(n)] EXCEPT !.open = FALSE])
<1>1. Sane(tree, stale) /\ tree \in Tree /\ stale \subseteq Conn /\ \A m \in T!Node : Listed(tree, m)
  BY DEF TreeInv, Sane, Server
<1>2. T!Folder(n) \in T!Node
  BY NodeShape
<1>3. tree' = b /\ version' = version /\ treeCached' = treeCached /\ stale' = stale
  BY DEF T!Collapse
<1> HIDE DEF b
<1>4. Quiet(tree, a)
  BY <1>1, OpenQuiet
<1> HIDE DEF a
<1>5. Sane(a, stale) /\ a \in Tree /\ \A m \in T!Node : Listed(a, m)
  BY <1>1, <1>4, GrownIs DEF Grown, Quiet
<1>6. Quiet(a, b)
  BY <1>2, <1>5, OpenQuiet DEF b
<1>7. Sane(b, stale) /\ \A m \in T!Node : Listed(b, m)
  BY <1>5, <1>6, GrownIs DEF Grown
<1> QED BY <1>1, <1>3, <1>7, Stays

LEMMA RefreshedIs ==
  ASSUME T!TreeAssumption, Server, NEW t, NEW s, Sane(t, s), NEW n \in T!Node, t.row[n].id # 0,
         n[1] \in s, T!FreeThreads(t) # {}, t.wait # 0 => Two(t),
         \A m \in T!Node : Listed(t, m)
  PROVE  LET u == T!Refreshed(t, n)
         IN  Sane(u, s) /\ \A m \in T!Node : Listed(u, m)
<1> DEFINE r == [t.row[n] EXCEPT !.loaded = FALSE, !.loading = FALSE,
                                 !.want = version[n[1]], !.tainted = T!Loads(t, n) # {}]
           v == T!Put(t, n, r)
           b == T!Cleared(v, n)
           e == T!Emptied(v, n)
           i == t.row[n].id
<1>0. t \in Tree /\ t.row[n] \in T!Row
  BY TreeIs DEF Sane
<1>1. version[n[1]] \in T!Version /\ version[n[1]] <= version[n[1]]
  BY NodeShape, Numbers DEF Server
<1>2. /\ r \in T!Row /\ r.id = i /\ ~ r.loaded /\ ~ r.loading /\ r.want = version[n[1]]
      /\ r.shown = t.row[n].shown /\ r.tainted = (T!Loads(t, n) # {})
  BY <1>0, <1>1 DEF T!Row
<1>3. T!Refreshed(t, n) = IF T!Visible(e, n) /\ e.row[n].open THEN T!LoadChildren(e, n) ELSE e
  BY DEF T!Refreshed
<1> HIDE DEF r, e
<1>4. /\ v \in Tree /\ v.row[n] = r /\ v.job = t.job /\ v.wait = t.wait
      /\ \A m \in T!Node : m # n => v.row[m] = t.row[m]
  BY <1>0, <1>2, PutIs
<1>5. n[2] = "conn" => T!Folder(n) \in T!Node /\ T!Folder(n) # n
  BY NodeShape
<1> HIDE DEF v
<1>6. Sets(t, v, n, r) /\ T!Loads(v, n) = T!Loads(t, n)
  BY <1>2, <1>4 DEF Sets, T!Loads
<1>7. /\ Sane(b, s) /\ b.row[n] = [r EXCEPT !.shown = T!Empty] /\ b.job = v.job /\ b.wait = v.wait
      /\ \A m \in T!Node : m # n /\ Listed(t, m) => Listed(b, m)
  <2>1. /\ r.id = t.row[n].id /\ r.id # 0 /\ ~ r.loading /\ r \in T!Row
        /\ ~ r.tainted => T!Loads(v, n) = {}
        /\ r.want <= version[n[1]]
        /\ r.want <= treeCached[n[1]] \/ n[1] \in s \/ Marked(t, n[1])
    BY <1>1, <1>2, <1>6
  <2> QED BY <1>6, <2>1, EmptySane
<1> HIDE DEF b
<1>8. ~ b.row[n].loaded /\ b.row[n].id = i
  BY <1>2, <1>7 DEF T!Row
<1>9. \A m \in T!Node : Listed(b, m)
  BY <1>7, <1>8 DEF Listed
<1>10. i \in T!Ids
  BY <1>0, RowIs
<1>11. T!FreeThreads(b) = T!FreeThreads(t) /\ (Two(b) <=> Two(t)) /\ b.wait = t.wait
  BY <1>4, <1>7 DEF T!FreeThreads, Two
<1>12. n[2] = "conn" /\ v.row[n].shown = T!Empty => v.row[T!Folder(n)] = T!NoRow
  <2> SUFFICES ASSUME n[2] = "conn", v.row[n].shown = T!Empty
               PROVE  v.row[T!Folder(n)] = T!NoRow
    OBVIOUS
  <2>1. t.row[n].shown \notin T!Version
    BY <1>2, <1>4, Numbers
  <2>2. t.row[T!Folder(n)] = T!NoRow
    BY <1>0, <2>1, BareFolder DEF Sane
  <2> QED BY <1>4, <1>5, <2>2
<1>13. e = b \/ e = T!Signalled(b, i)
  BY <1>2, <1>4, <1>12, EmptiedIs DEF e, b
<1>14. Quiet(b, b)
  BY <1>7, SameSelf DEF Quiet, Sane
<1>15. b.wait = i => T!FreeThreads(b) # {} \/ Blocked(b)
  BY <1>11
<1>16. Quiet(b, T!Signalled(b, i)) \/ \E m \in T!Node : ~ Blocked(b) /\ Woken(b, T!Signalled(b, i), m)
  BY <1>7, <1>10, <1>15, SignalledIs
<1>17. b.wait # i => T!Signalled(b, i) = b
  BY DEF T!Signalled
<1>18. Grown(b, e)
  BY <1>13, <1>14, <1>16 DEF Grown, Woken
<1>19. Sane(e, s) /\ e.row[n].id = i /\ \A m \in T!Node : Listed(e, m)
  <2>1. Sane(b, s)
    BY <1>7
  <2>2. /\ Sane(e, s)
        /\ \A m \in T!Node : Listed(b, m) => Listed(e, m)
        /\ \A m \in T!Node : e.row[m].id = b.row[m].id
    BY <1>18, <2>1, GrownIs
  <2> QED BY <1>8, <1>9, <2>2
<1>20. e.row[n].loading \/ (T!FreeThreads(e) # {} /\ (e.wait = i => Two(e)))
  <2>1. CASE e = b
    <3>1. i # 0
      BY <1>10, IdIs
    <3> QED BY <1>11, <2>1, <3>1
  <2>2. CASE b.wait = i /\ Quiet(b, e)
    <3>1. Two(b)
      BY <1>10, <1>11, <2>2, IdIs
    <3> QED BY <2>2, <3>1 DEF Quiet, Two, T!FreeThreads
  <2>3. ASSUME b.wait = i, NEW m \in T!Node, Woken(b, e, m)
        PROVE  e.row[n].loading \/ (T!FreeThreads(e) # {} /\ (e.wait = i => Two(e)))
    <3>1. Two(b)
      BY <1>10, <1>11, <2>3, IdIs
    <3>2. CASE m = n
      BY <2>3, <3>2 DEF Woken, Starts, StartsOn
    <3>3. CASE m # n
      <4>1. e.wait # i
        BY <1>7, <1>8, <1>10, <2>3, <3>3, IdIs DEF Woken, Sane, RowObjects
      <4>2. T!FreeThreads(e) # {}
        BY <2>3, <3>1 DEF Woken, Starts, StartsOn, Two, T!FreeThreads
      <4> QED BY <4>1, <4>2
    <3> QED BY <3>2, <3>3
  <2> QED BY <1>13, <1>16, <1>17, <2>1, <2>2, <2>3
<1>21. e.row[n].id # 0
  BY <1>10, <1>19, IdIs
<1>22. Sane(T!LoadChildren(e, n), s) /\ \A m \in T!Node : Listed(T!LoadChildren(e, n), m)
  BY <1>19, <1>20, <1>21, LoadChildrenIs
<1> QED BY <1>3, <1>19, <1>22

LEMMA RefreshStep ==
  ASSUME T!TreeAssumption, TreeInv, NEW n \in T!Node, T!Refresh(n)
  PROVE  TreeInv'
<1> DEFINE s == stale \cup {n[1]}
<1>1. Sane(tree, stale) /\ tree \in Tree /\ stale \subseteq Conn /\ \A m \in T!Node : Listed(tree, m)
  BY DEF TreeInv, Sane, Server
<1>2. T!FreeThreads(tree) # {} /\ (tree.wait # 0 => Two(tree))
  BY <1>1, RoomIs DEF T!Refresh
<1>3. tree.row[n].id # 0
  BY DEF T!Refresh, T!Exists
<1>4. tree' = T!Refreshed(tree, n) /\ version' = version /\ treeCached' = treeCached /\ stale' = s
  BY DEF T!Refresh
<1>5. Sane(tree, s) /\ n[1] \in s /\ s \subseteq Conn
  BY <1>1, SaneMore, NodeShape
<1> HIDE DEF s
<1>6. Sane(tree', s) /\ \A m \in T!Node : Listed(tree', m)
  BY <1>1, <1>2, <1>3, <1>4, <1>5, RefreshedIs DEF TreeInv
<1> QED BY <1>4, <1>5, <1>6, Stays

LEMMA RemoveStep ==
  ASSUME T!TreeAssumption, TreeInv, NEW c \in Conn, T!RemoveProfile(c)
  PROVE  TreeInv'
<1> DEFINE n == <<c, "conn">>
           f == <<c, "folder">>
           a == T!Put(tree, f, T!NoRow)
           b == T!Put(a, n, T!NoRow)
<1>1. Sane(tree, stale) /\ Server /\ stale \subseteq Conn /\ \A m \in T!Node : Listed(tree, m)
  BY DEF TreeInv, Server
<1>2. n \in T!Node /\ f \in T!Node /\ n # f /\ n[2] = "conn" /\ f[2] # "conn" /\ T!Folder(n) = f
  BY ConnShape DEF T!Folder
<1>3. version' = version /\ treeCached' = treeCached /\ stale' = stale /\ tree' = b
  BY DEF T!RemoveProfile
<1> HIDE DEF n, f, b
<1>4. Sets(tree, a, f, T!NoRow) /\ Sane(a, stale) /\ Listed(a, f)
  BY <1>1, <1>2, DropSane
<1> HIDE DEF a
<1>5. \A m \in T!Node : Listed(a, m)
  BY <1>1, <1>2, <1>4, SetListed
<1>6. a.row[f] = T!NoRow
  BY <1>4 DEF Sets
<1>7. Sets(a, b, n, T!NoRow) /\ Sane(b, stale) /\ Listed(b, n)
  BY <1>1, <1>2, <1>4, <1>6, DropSane DEF b
<1>8. \A m \in T!Node : Listed(b, m)
  BY <1>2, <1>5, <1>7, SetListed
<1> QED BY <1>1, <1>3, <1>7, <1>8, Stays

LEMMA AddStep ==
  ASSUME T!TreeAssumption, TreeInv, NEW c \in Conn, T!AddProfile(c)
  PROVE  TreeInv'
<1> DEFINE n == <<c, "conn">>
           i == T!FreshId(tree)
           r == T!NewRow(i)
<1>1. Sane(tree, stale) /\ Server /\ stale \subseteq Conn /\ \A m \in T!Node : Listed(tree, m)
  BY DEF TreeInv, Server
<1>2. n \in T!Node /\ n[2] = "conn" /\ n[2] # "folder" /\ n[1] = c /\ T!Folder(n) \in T!Node
  BY ConnShape, NodeShape
<1>3. version' = version /\ treeCached' = treeCached /\ stale' = stale /\ tree' = T!Put(tree, n, r)
      /\ tree.row[n].id = 0
  BY DEF T!AddProfile, T!Exists
<1> HIDE DEF n
<1>4. tree \in Tree /\ RowObjects(tree)
  BY <1>1 DEF Sane
<1>5. i \in T!Ids /\ i \notin T!InUse(tree)
  BY <1>4, Fresh
<1>6. (\A m \in T!Node : tree.row[m].id # i) /\ \A h \in Thread : tree.job[h] # T!Idle => tree.job[h].id # i
  BY <1>5 DEF T!InUse
<1> HIDE DEF i
<1>7. /\ r \in T!Row /\ r.id = i /\ ~ r.loaded /\ ~ r.loading /\ r.shown = T!Empty /\ r.want = 0
  <2>1. 0 \in T!Version /\ T!Empty \in 0 .. T!Failure
    BY Numbers
  <2> QED BY <1>5, <2>1 DEF T!NewRow, T!NoRow, T!Row
<1> HIDE DEF r
<1>8. /\ tree' \in Tree /\ tree'.row[n] = r /\ tree'.job = tree.job
      /\ \A m \in T!Node : m # n => tree'.row[m] = tree.row[m]
  BY <1>2, <1>3, <1>4, <1>7, PutIs
<1>9. Sets(tree, tree', n, r)
  BY <1>8 DEF Sets
<1>10. T!Loads(tree', n) = {}
  BY <1>6, <1>7, <1>8 DEF T!Loads
<1>11. version[n[1]] \in T!Version /\ treeCached[n[1]] \in T!Version /\ 0 <= version[n[1]] /\ 0 <= treeCached[n[1]]
  BY <1>1, <1>2, Numbers DEF Server
<1>12. tree.row[T!Folder(n)].id = 0
  <2>1. tree.row[n] = T!NoRow /\ ~ tree.row[n].loaded
    BY <1>2, <1>3, <1>4, NoRowIs DEF RowObjects
  <2> QED BY <1>2, <1>4, <2>1, BareFolder, NoRowIs
<1>13. r.id # 0 /\ r.shown # T!Note
  BY <1>5, <1>7, IdIs, Numbers
<1>14. r.want <= version[n[1]] /\ r.want <= treeCached[n[1]]
  BY <1>7, <1>11
<1>15. \A m \in T!Node : tree.row[m].id # r.id
  BY <1>6, <1>7
<1>16. Sound(tree, tree', n, r, stale)
  BY <1>2, <1>7, <1>10, <1>12, <1>13, <1>14, <1>15 DEF Sound
<1>17. Sane(tree', stale)
  BY <1>1, <1>2, <1>7, <1>9, <1>16, SetSane
<1>18. \A m \in T!Node : Listed(tree', m)
  <2>1. Listed(tree', n)
    BY <1>7, <1>8 DEF Listed
  <2> QED BY <1>1, <1>2, <1>9, <2>1, SetListed
<1> QED BY <1>1, <1>3, <1>17, <1>18, Stays

LEMMA RevealStep ==
  ASSUME T!TreeAssumption, TreeInv, NEW c \in Conn \cup {T!Nowhere}, T!Reveal(c)
  PROVE  TreeInv'
<1>1. Sane(tree, stale) /\ tree \in Tree /\ stale \subseteq Conn /\ \A m \in T!Node : Listed(tree, m)
  BY DEF TreeInv, Sane, Server
<1>2. version' = version /\ treeCached' = treeCached /\ stale' = stale
  BY DEF T!Reveal
<1>3. tree' \in Tree /\ tree'.row = tree.row /\ tree'.job = tree.job
  BY <1>1 DEF T!Reveal, Tree
<1>4. Sane(tree', stale)
  <2>1. \A n \in T!Node : T!Loads(tree', n) = T!Loads(tree, n)
    BY <1>3 DEF T!Loads
  <2>2. RowObjects(tree')
    BY <1>1, <1>3, <2>1 DEF RowObjects, Sane
  <2>3. Spins(tree') /\ Single(tree')
    BY <1>1, <1>3, <2>1 DEF Spins, Single, Sane
  <2>4. Wanted(tree', stale) /\ Finds(tree')
    BY <1>1, <1>3, <2>1 DEF Wanted, Finds, Marked, Sane
  <2> QED BY <1>3, <2>2, <2>3, <2>4 DEF Sane
<1>5. \A n \in T!Node : Listed(tree', n)
  BY <1>1, <1>3 DEF Listed
<1> QED BY <1>1, <1>2, <1>4, <1>5, Stays

LEMMA FollowStep ==
  ASSUME T!TreeAssumption, TreeInv, T!FollowTimeout
  PROVE  TreeInv'
<1> DEFINE a == [tree EXCEPT !.armed = FALSE]
<1>1. Sane(tree, stale) /\ tree \in Tree /\ stale \subseteq Conn /\ \A m \in T!Node : Listed(tree, m)
  BY DEF TreeInv, Sane, Server
<1>2. tree' = T!Walked(a) /\ version' = version /\ treeCached' = treeCached /\ stale' = stale
  BY DEF T!FollowTimeout
<1>3. T!FreeThreads(tree) # {}
  BY <1>1, RoomIs DEF T!FollowTimeout
<1>4. a \in Tree /\ a.row = tree.row /\ a.job = tree.job /\ a.target = tree.target
  BY <1>1 DEF Tree
<1> HIDE DEF a
<1>5. Quiet(tree, a)
  BY <1>4, SameSelf DEF Quiet
<1>6. Sane(a, stale) /\ \A m \in T!Node : Listed(a, m)
  BY <1>1, <1>5, GrownIs DEF Grown
<1>7. T!FreeThreads(a) # {}
  BY <1>3, <1>4 DEF T!FreeThreads
<1>8. Grown(a, tree')
  BY <1>2, <1>6, <1>7, WalkedIs DEF Grown, Waits
<1>9. Sane(tree', stale) /\ \A m \in T!Node : Listed(tree', m)
  BY <1>6, <1>8, GrownIs
<1> QED BY <1>1, <1>2, <1>9, Stays

-----------------------------------------------------------------------------
(* Loads that land.                                                        *)

\* A load of a row object that is gone: its thread is free, and no more.
LEMMA Orphan ==
  ASSUME T!TreeAssumption, TreeInv, NEW h \in Thread, tree.job[h] # T!Idle,
         tree.job[h].step \in {"read", "failed"},
         tree.row[tree.job[h].of].id # tree.job[h].id,
         tree' = T!Signalled(T!Give(tree, h, T!Idle), tree.job[h].id),
         UNCHANGED <<version, treeCached, stale>>
  PROVE  TreeInv'
<1> DEFINE n == tree.job[h].of
           i == tree.job[h].id
           a == T!Give(tree, h, T!Idle)
<1>1. /\ Sane(tree, stale) /\ tree \in Tree /\ RowObjects(tree) /\ stale \subseteq Conn
      /\ \A m \in T!Node : Listed(tree, m)
  BY DEF TreeInv, Sane, Server
<1>2. n \in T!Node /\ i \in T!Ids /\ tree.row[n] \in T!Row
  BY <1>1, TreeIs, JobIs
<1>3. /\ a \in Tree /\ a.row = tree.row /\ a.wait = tree.wait /\ a.job[h] = T!Idle
      /\ \A g \in Thread : g # h => a.job[g] = tree.job[g]
  BY <1>1, GiveIs
<1> HIDE DEF a
<1>4. Sets(tree, a, n, tree.row[n])
  BY <1>3 DEF Sets
<1>5. T!Loads(a, n) = T!Loads(tree, n)
  BY <1>3 DEF T!Loads
<1>6. \A g \in T!Loads(tree, n) : a.job[g] = tree.job[g]
  BY <1>3 DEF T!Loads
<1>7. Sound(tree, a, n, tree.row[n], stale)
  <2>1. RowObjects(tree) /\ Spins(tree) /\ Single(tree) /\ Wanted(tree, stale) /\ Finds(tree)
    BY <1>1 DEF Sane
  <2> DEFINE r == tree.row[n]
  <2>2. T!ConnRow(n) = <<n[1], "conn">> /\ T!Folder(n) = <<n[1], "folder">> /\ n[1] \in Conn
        /\ n = <<n[1], n[2]>>
    BY <1>2, NodeShape
  <2>3. (r.id = 0 => r = T!NoRow) /\ \A m \in T!Node : m # n /\ r.id # 0 => tree.row[m].id # r.id
    BY <1>2, <2>1 DEF RowObjects
  <2>4. \A g \in T!Loads(a, n) : a.job[g].of = n
    BY <1>2, <1>5, <1>6, <2>1 DEF RowObjects
  <2>5. /\ n[2] = "conn" /\ tree.row[T!Folder(n)].id # 0 => r.loaded /\ r.shown \in T!Version
        /\ n[2] = "folder" /\ r.id # 0 =>
             tree.row[T!ConnRow(n)].loaded /\ tree.row[T!ConnRow(n)].shown \in T!Version
    BY <2>1, <2>2 DEF RowObjects
  <2>6. (r.shown = T!Note => r.loading) /\ (r.loading => T!Loads(a, n) # {})
    BY <1>2, <1>5, <2>1 DEF Spins
  <2>7. ~ r.tainted => \A g, k \in T!Loads(a, n) : g = k /\ r.loading /\ ~ r.loaded
    BY <1>2, <1>5, <2>1 DEF Single
  <2>8. r.want <= version[n[1]] /\ (r.want <= treeCached[n[1]] \/ n[1] \in stale \/ Marked(tree, n[1]))
    BY <1>2, <2>1 DEF Wanted
  <2>9. ~ r.tainted => \A g \in T!Loads(a, n) : ~ a.job[g].crossed =>
          /\ a.job[g].step = "opened" => r.want <= treeCached[n[1]]
          /\ a.job[g].step = "read" => r.want <= a.job[g].found
    BY <1>2, <1>5, <1>6, <2>1 DEF Finds
  <2> HIDE DEF r, n
  <2> QED BY <2>3, <2>4, <2>5, <2>6, <2>7, <2>8, <2>9 DEF Sound, r
<1>8. Sane(a, stale) /\ \A m \in T!Node : Listed(a, m)
  <2>1. Sane(a, stale)
    BY <1>1, <1>2, <1>4, <1>7, SetSane
  <2> QED BY <1>1, <1>3, <2>1 DEF Listed
<1>9. T!FreeThreads(a) # {}
  BY <1>3 DEF T!FreeThreads
<1>10. Grown(a, tree')
  <2>1. tree' = T!Signalled(a, i)
    BY DEF a
  <2> HIDE DEF i
  <2>2. Grown(a, T!Signalled(a, i))
    BY <1>2, <1>8, <1>9, SignalledIs DEF Grown, Woken
  <2> QED BY <2>1, <2>2
<1>11. Sane(tree', stale) /\ \A m \in T!Node : Listed(tree', m)
  BY <1>8, <1>10, GrownIs
<1> QED BY <1>1, <1>11, Stays

\* A load of the row: it is over before the store is emptied and filled, and
\* either may wake the walk.
LEMMA Landing ==
  ASSUME T!TreeAssumption, TreeInv, NEW h \in Thread, tree.job[h] # T!Idle,
         tree.job[h].step \in {"read", "failed"},
         NEW n \in T!Node, n = tree.job[h].of, tree.row[n].id = tree.job[h].id,
         NEW r \in T!Row, r.id = tree.row[n].id, r.want = tree.row[n].want, ~ r.loading,
         r.shown = tree.row[n].shown, ~ r.tainted => ~ tree.row[n].tainted,
         NEW rows \in T!Version \cup {T!Failure}, rows \in T!Version => r.loaded,
         r.loaded /\ ~ r.tainted => rows \in T!Version /\ rows >= r.want,
         tree' = T!Filled(T!Emptied(T!Put(T!Give(tree, h, T!Idle), n, r), n), n, rows),
         UNCHANGED <<version, treeCached, stale>>
  PROVE  TreeInv'
<1> DEFINE i == tree.row[n].id
           free == T!Give(tree, h, T!Idle)
           v == T!Put(free, n, r)
           b == T!Cleared(v, n)
           e == T!Emptied(v, n)
<1>1. /\ Sane(tree, stale) /\ tree \in Tree /\ RowObjects(tree) /\ stale \subseteq Conn /\ Server
      /\ \A m \in T!Node : Listed(tree, m)
  BY DEF TreeInv, Sane, Server
<1>2. i \in T!Ids /\ i # 0 /\ tree.row[n] \in T!Row
  BY <1>1, TreeIs, JobIs, IdIs
<1>3. tree' = T!Filled(e, n, rows)
  OBVIOUS
<1> HIDE DEF e, i
<1>4. /\ free \in Tree /\ free.row = tree.row /\ free.wait = tree.wait /\ free.job[h] = T!Idle
      /\ \A g \in Thread : g # h => free.job[g] = tree.job[g]
  BY <1>1, GiveIs
<1> HIDE DEF free
<1>5. /\ v \in Tree /\ v.row[n] = r /\ v.job = free.job /\ v.wait = tree.wait
      /\ \A m \in T!Node : m # n => v.row[m] = tree.row[m]
  BY <1>4, PutIs
<1> HIDE DEF v
<1>6. Sets(tree, v, n, r)
  BY <1>4, <1>5 DEF Sets
<1>7. ~ r.tainted => T!Loads(v, n) = {}
  <2> SUFFICES ASSUME ~ r.tainted, NEW g \in T!Loads(v, n)
               PROVE  FALSE
    OBVIOUS
  <2>1. g \in Thread /\ g # h /\ g \in T!Loads(tree, n)
    BY <1>4, <1>5 DEF T!Loads
  <2>2. h \in T!Loads(tree, n)
    BY DEF T!Loads
  <2> QED BY <1>1, <2>1, <2>2 DEF Sane, Single
<1>8. r.want <= version[n[1]] /\ (r.want <= treeCached[n[1]] \/ n[1] \in stale \/ Marked(tree, n[1]))
  BY <1>1 DEF Sane, Wanted
<1>9. /\ Sane(b, stale) /\ b.row[n] = [r EXCEPT !.shown = T!Empty] /\ b.job = v.job
      /\ n[2] = "conn" => b.row[T!Folder(n)] = T!NoRow
      /\ \A m \in T!Node : m # n /\ Listed(tree, m) => Listed(b, m)
  BY <1>1, <1>2, <1>6, <1>7, <1>8, EmptySane DEF i
<1> HIDE DEF b
<1>10. /\ b.row[n].id = i /\ b.row[n].loaded = r.loaded /\ b.row[n].want = r.want
       /\ b.row[n].tainted = r.tainted
  BY <1>9 DEF T!Row, i
<1>11. h \in T!FreeThreads(b)
  BY <1>4, <1>5, <1>9 DEF T!FreeThreads
<1>12. e = b \/ e = T!Signalled(b, i)
  <2>1. n[2] = "conn" /\ v.row[n].shown = T!Empty => v.row[T!Folder(n)] = T!NoRow
    <3> SUFFICES ASSUME n[2] = "conn", v.row[n].shown = T!Empty
                 PROVE  v.row[T!Folder(n)] = T!NoRow
      OBVIOUS
    <3>1. tree.row[n].shown \notin T!Version
      BY <1>5, Numbers
    <3>2. tree.row[T!Folder(n)] = T!NoRow
      BY <1>1, <3>1, BareFolder
    <3> QED BY <1>5, <3>2, NodeShape
  <2> QED BY <1>5, <2>1, EmptiedIs DEF e, b, i
<1>13. \/ Quiet(b, e)
       \/ \E m \in T!Node : Woken(b, e, m)
  <2>1. Quiet(b, b)
    BY <1>9, SameSelf DEF Quiet, Sane
  <2>2. Quiet(b, T!Signalled(b, i)) \/ \E m \in T!Node : Woken(b, T!Signalled(b, i), m)
    BY <1>2, <1>9, <1>11, SignalledIs
  <2> QED BY <1>12, <2>1, <2>2
<1>14. /\ Sane(e, stale)
       /\ \A m \in T!Node : Listed(b, m) => Listed(e, m)
       /\ e.row[n].id = i
       /\ b.row[n].loaded => Same(b.row[n], e.row[n])
       /\ n[2] = "conn" => e.row[T!Folder(n)] = T!NoRow
  <2>1. Grown(b, e)
    BY <1>13 DEF Grown, Woken
  <2>2. /\ Sane(e, stale)
        /\ \A m \in T!Node : Listed(b, m) => Listed(e, m)
        /\ \A m \in T!Node : /\ e.row[m].id = b.row[m].id
                             /\ b.row[m].loaded => Same(b.row[m], e.row[m])
                             /\ b.row[m] = T!NoRow => e.row[m] = T!NoRow
    BY <1>9, <2>1, GrownIs
  <2>3. T!Folder(n) \in T!Node
    BY NodeShape
  <2> QED BY <1>9, <1>10, <2>2, <2>3
<1>15. rows \in T!Version => e.row[n].loaded
  BY <1>10, <1>14 DEF Same
<1>16. PICK g : /\ T!Filled(e, n, rows) = T!Signalled(g, i)
                /\ Sane(g, stale) /\ g.job = e.job /\ g.wait = e.wait
                /\ g.row[n] = [e.row[n] EXCEPT !.shown = rows]
                /\ Blocked(e) /\ rows = T!Failure => Blocked(g)
                /\ \A m \in T!Node : m # n /\ Listed(e, m) => Listed(g, m)
  BY <1>1, <1>2, <1>14, <1>15, FilledIs
<1>17. g.wait = i => T!FreeThreads(g) # {} \/ Blocked(g)
  <2>1. CASE Quiet(b, e)
    <3>1. h \in T!FreeThreads(g)
      BY <1>11, <1>16, <2>1 DEF Quiet, T!FreeThreads
    <3> QED BY <3>1
  <2>2. ASSUME NEW m \in T!Node, Woken(b, e, m)
        PROVE  g.wait = i => T!FreeThreads(g) # {} \/ Blocked(g)
    <3>1. CASE rows = T!Failure
      BY <1>16, <2>2, <3>1 DEF Woken
    <3>2. CASE rows \in T!Version
      <4>1. m # n
        BY <1>10, <2>2, <3>2 DEF Woken, Starts, StartsOn
      <4>2. b.row[m].id # i
        BY <1>2, <1>9, <1>10, <4>1 DEF Sane, RowObjects
      <4> QED BY <1>16, <2>2, <4>2 DEF Woken
    <3> QED BY <3>1, <3>2
  <2> QED BY <1>13, <2>1, <2>2
<1>18. Listed(g, n)
  <2>1. e.row[n] \in T!Row
    BY <1>14, TreeIs DEF Sane
  <2>2. /\ g.row[n].loaded = e.row[n].loaded /\ g.row[n].tainted = e.row[n].tainted
        /\ g.row[n].want = e.row[n].want /\ g.row[n].shown = rows
    BY <1>16, <2>1 DEF T!Row
  <2>3. e.row[n].loaded /\ ~ e.row[n].tainted =>
          r.loaded /\ ~ r.tainted /\ e.row[n].want = r.want
    <3>1. CASE b.row[n].loaded
      BY <1>10, <1>14, <3>1 DEF Same
    <3>2. CASE ~ b.row[n].loaded
      BY <1>13, <3>2 DEF Quiet, Woken, Starts, StartsOn, Same
    <3> QED BY <3>1, <3>2
  <2> QED BY <2>2, <2>3 DEF Listed
<1>19. \A m \in T!Node : Listed(g, m)
  BY <1>1, <1>9, <1>14, <1>16, <1>18
<1>20. Grown(g, T!Signalled(g, i))
  BY <1>2, <1>16, <1>17, SignalledIs DEF Grown, Woken
<1>21. Sane(tree', stale) /\ \A m \in T!Node : Listed(tree', m)
  BY <1>3, <1>16, <1>19, <1>20, GrownIs
<1> QED BY <1>1, <1>21, Stays

LEMMA DoneStep ==
  ASSUME T!TreeAssumption, TreeInv, NEW h \in Thread, T!Done(h)
  PROVE  TreeInv'
<1> DEFINE j == tree.job[h]
           n == j.of
           row == tree.row[n]
           r == [row EXCEPT !.loading = FALSE, !.loaded = TRUE, !.tainted = row.tainted \/ j.crossed]
           free == T!Give(tree, h, T!Idle)
<1>1. /\ Sane(tree, stale) /\ tree \in Tree
  BY DEF TreeInv, Sane
<1>2. j.step = "read" /\ UNCHANGED <<version, treeCached, stale>>
  BY DEF T!Done
<1>3. j \in Job /\ j # T!Idle
  <2>1. j \in {T!Idle} \cup Job
    BY <1>1, TreeIs
  <2>2. j # T!Idle
    BY <1>2 DEF T!Idle
  <2> QED BY <2>1, <2>2
<1>4. n \in T!Node /\ row \in T!Row /\ j.crossed \in BOOLEAN /\ j.found \in T!Version
  BY <1>1, <1>2, <1>3, TreeIs, JobIs DEF Job
<1>5. CASE row.id # j.id
  <2>1. tree' = T!Signalled(free, j.id)
    BY <1>5 DEF T!Done
  <2> QED BY <1>2, <1>3, <1>5, <2>1, Orphan
<1>6. CASE row.id = j.id
  <2>1. tree' = T!Filled(T!Emptied(T!Put(free, n, r), n), n, j.found)
    BY <1>6 DEF T!Done
  <2>2. /\ r \in T!Row /\ r.id = row.id /\ r.want = row.want /\ ~ r.loading /\ r.loaded
        /\ r.shown = row.shown /\ r.tainted = (row.tainted \/ j.crossed)
    BY <1>4 DEF T!Row
  <2> HIDE DEF r
  <2>3. ~ r.tainted => j.found >= r.want
    <3> SUFFICES ASSUME ~ r.tainted
                 PROVE  j.found >= r.want
      OBVIOUS
    <3>1. ~ row.tainted /\ ~ j.crossed
      BY <2>2
    <3>2. h \in T!Loads(tree, n)
      BY <1>3, <1>6 DEF T!Loads
    <3>3. row.want <= j.found
      BY <1>1, <1>2, <1>4, <3>1, <3>2 DEF Sane, Finds
    <3>4. row.want \in Nat /\ j.found \in Nat
      BY <1>4, RowIs, Numbers
    <3> QED BY <2>2, <3>3, <3>4
  <2>4. ~ r.tainted => ~ row.tainted
    BY <2>2
  <2> HIDE DEF n, row
  <2>5. n = j.of /\ row = tree.row[n]
    BY DEF n, row
  <2> QED BY <1>2, <1>3, <1>4, <1>6, <2>1, <2>2, <2>3, <2>4, <2>5, Landing
<1> QED BY <1>5, <1>6

LEMMA FailedStep ==
  ASSUME T!TreeAssumption, TreeInv, NEW h \in Thread, T!Failed(h)
  PROVE  TreeInv'
<1> DEFINE j == tree.job[h]
           n == j.of
           row == tree.row[n]
           r == [row EXCEPT !.loading = FALSE]
           free == T!Give(tree, h, T!Idle)
<1>1. /\ Sane(tree, stale) /\ tree \in Tree
  BY DEF TreeInv, Sane
<1>2. j.step = "failed" /\ UNCHANGED <<version, treeCached, stale>>
  BY DEF T!Failed
<1>3. j \in Job /\ j # T!Idle
  <2>1. j \in {T!Idle} \cup Job
    BY <1>1, TreeIs
  <2>2. j # T!Idle
    BY <1>2 DEF T!Idle
  <2> QED BY <2>1, <2>2
<1>4. n \in T!Node /\ row \in T!Row
  BY <1>1, <1>3, TreeIs, JobIs
<1>5. CASE row.id # j.id
  <2>1. tree' = T!Signalled(free, j.id)
    BY <1>5 DEF T!Failed
  <2> QED BY <1>2, <1>3, <1>5, <2>1, Orphan
<1>6. CASE row.id = j.id
  <2>1. tree' = T!Filled(T!Emptied(T!Put(free, n, r), n), n, T!Failure)
    BY <1>6 DEF T!Failed
  <2>2. /\ r \in T!Row /\ r.id = row.id /\ r.want = row.want /\ ~ r.loading /\ r.loaded = row.loaded
        /\ r.shown = row.shown /\ r.tainted = row.tainted
    BY <1>4 DEF T!Row
  <2> HIDE DEF r
  <2>3. r.loaded => r.tainted
    <3>1. h \in T!Loads(tree, n)
      BY <1>3, <1>6 DEF T!Loads
    <3> QED BY <1>1, <1>4, <2>2, <3>1 DEF Sane, Single
  <2>4. T!Failure \notin T!Version
    BY Numbers
  <2> HIDE DEF n, row
  <2>5. n = j.of /\ row = tree.row[n]
    BY DEF n, row
  <2> QED BY <1>2, <1>3, <1>4, <1>6, <2>1, <2>2, <2>3, <2>4, <2>5, Landing
<1> QED BY <1>5, <1>6

-----------------------------------------------------------------------------
(* The worker threads, the server, and the theorems.                       *)

\* What a load's own step leaves as it was.
LEMMA WorkKeeps ==
  ASSUME T!TreeAssumption, TreeInv, NEW h \in Thread, NEW k \in Job, tree.job[h] # T!Idle,
         k.of = tree.job[h].of, k.id = tree.job[h].id, tree' = T!Give(tree, h, k)
  PROVE  /\ (tree \in Tree)' /\ RowObjects(tree)' /\ Spins(tree)' /\ Single(tree)'
         /\ (\A n \in T!Node : Listed(tree, n))'
         /\ tree'.row = tree.row /\ tree'.job[h] = k
         /\ \A g \in Thread : g # h => tree'.job[g] = tree.job[g]
         /\ \A n \in T!Node : /\ T!Loads(tree, n)' = T!Loads(tree, n)
                              /\ h \in T!Loads(tree, n) => n = k.of
<1>1. /\ tree \in Tree /\ RowObjects(tree) /\ Spins(tree) /\ Single(tree)
      /\ \A n \in T!Node : Listed(tree, n)
  BY DEF TreeInv, Sane
<1>2. /\ tree' \in Tree /\ tree'.row = tree.row /\ tree'.job[h] = k
      /\ \A g \in Thread : g # h => tree'.job[g] = tree.job[g]
  BY <1>1, GiveIs
<1>3. k # T!Idle
  BY JobIs
<1>4. \A n \in T!Node : T!Loads(tree, n)' = T!Loads(tree, n)
  BY <1>2, <1>3 DEF T!Loads
<1>5. \A n \in T!Node : h \in T!Loads(tree, n) => n = k.of
  BY <1>1 DEF RowObjects
<1>6. RowObjects(tree)'
  <2>1. \A n \in T!Node : \A g \in T!Loads(tree, n)' : tree'.job[g].of = n
    <3> TAKE n \in T!Node
    <3> TAKE g \in T!Loads(tree, n)'
    <3>1. g \in T!Loads(tree, n) /\ g \in Thread
      BY <1>4 DEF T!Loads
    <3>2. tree.job[g].of = n
      BY <1>1, <3>1 DEF RowObjects
    <3> QED BY <1>2, <3>1, <3>2
  <2> QED BY <1>1, <1>2, <2>1 DEF RowObjects
<1>7. Spins(tree)' /\ Single(tree)'
  BY <1>1, <1>2, <1>4 DEF Spins, Single
<1>8. (\A n \in T!Node : Listed(tree, n))'
  BY <1>1, <1>2 DEF Listed
<1> QED BY <1>2, <1>4, <1>5, <1>6, <1>7, <1>8

LEMMA StepIs ==
  ASSUME T!TreeAssumption, TreeInv, NEW h \in Thread, NEW from, NEW to, T!Step(h, from, to),
         from \in {"asked", "marked", "opened"}, to \in {"marked", "opened", "failed"}
  PROVE  \E k \in Job : /\ k = [tree.job[h] EXCEPT !.step = to]
                         /\ tree.job[h] # T!Idle /\ tree.job[h] \in Job
                         /\ k.of = tree.job[h].of /\ k.id = tree.job[h].id
                         /\ k.crossed = tree.job[h].crossed /\ k.step = to
                         /\ tree' = T!Give(tree, h, k)
<1>1. tree.job[h] \in {T!Idle} \cup Job
  BY TreeIs DEF TreeInv, Sane
<1>2. tree.job[h].step = from /\ tree.job[h] # T!Idle
  BY DEF T!Step, T!Idle
<1>3. tree.job[h] \in [step : {"asked", "marked", "opened", "failed"}, of : T!Node, id : T!Ids,
                       crossed : BOOLEAN]
  BY <1>1, <1>2 DEF Job
<1>4. [tree.job[h] EXCEPT !.step = to] \in Job
  BY <1>3 DEF Job
<1> QED BY <1>1, <1>2, <1>3, <1>4 DEF T!Step

\* The parts of the invariant a load's step has to keep itself.
LEMMA Works ==
  ASSUME T!TreeAssumption, TreeInv, NEW h \in Thread, NEW k \in Job, tree.job[h] # T!Idle,
         k.of = tree.job[h].of, k.id = tree.job[h].id, tree' = T!Give(tree, h, k),
         Server', \A c \in Conn : treeCached[c] <= treeCached'[c], version' = version,
         \A c \in Conn : \/ c \in stale /\ c \notin stale' => c = k.of[1] /\ k.step = "marked"
                        \/ treeCached'[c] = version[c],
         \A c \in Conn : tree.job[h].step = "marked" /\ tree.job[h].of[1] = c =>
                          treeCached'[c] = version[c],
         \A n \in T!Node : k.of = n /\ h \in T!Loads(tree, n) /\ ~ tree.row[n].tainted /\ ~ k.crossed =>
           /\ k.step = "opened" => tree.row[n].want <= treeCached'[n[1]]
           /\ k.step = "read" => tree.row[n].want <= k.found
  PROVE  TreeInv'
<1>1. Server /\ Sane(tree, stale) /\ Wanted(tree, stale) /\ Finds(tree) /\ tree \in Tree
  BY DEF TreeInv, Sane
<1>2. /\ (tree \in Tree)' /\ RowObjects(tree)' /\ Spins(tree)' /\ Single(tree)'
      /\ (\A n \in T!Node : Listed(tree, n))'
      /\ tree'.row = tree.row /\ tree'.job[h] = k
      /\ \A g \in Thread : g # h => tree'.job[g] = tree.job[g]
      /\ \A n \in T!Node : /\ T!Loads(tree, n)' = T!Loads(tree, n)
                           /\ h \in T!Loads(tree, n) => n = k.of
  BY WorkKeeps
<1>3. \A n \in T!Node : /\ n[1] \in Conn /\ tree.row[n].want \in Nat
                        /\ version[n[1]] \in Nat /\ treeCached[n[1]] \in Nat /\ treeCached'[n[1]] \in Nat
                        /\ treeCached[n[1]] <= treeCached'[n[1]]
  <2> TAKE n \in T!Node
  <2>1. n[1] \in Conn /\ tree.row[n].want \in T!Version /\ T!Version \subseteq Nat
    BY <1>1, NodeShape, TreeIs, RowIs, Numbers
  <2> QED BY <1>1, <2>1 DEF Server
<1>4. Wanted(tree, stale)'
  <2> SUFFICES ASSUME NEW n \in T!Node
               PROVE  /\ tree.row[n].want <= version[n[1]]
                      /\ \/ tree.row[n].want <= treeCached'[n[1]]
                         \/ n[1] \in stale'
                         \/ Marked(tree, n[1])'
    BY <1>2 DEF Wanted
  <2>1. tree.row[n].want <= version[n[1]]
    BY <1>1 DEF Wanted
  <2>2. CASE treeCached'[n[1]] = version[n[1]]
    BY <1>3, <2>1, <2>2
  <2>3. CASE tree.row[n].want <= treeCached[n[1]]
    BY <1>3, <2>1, <2>3
  <2>4. CASE n[1] \in stale /\ treeCached'[n[1]] # version[n[1]]
    BY <1>2, <1>3, <2>1, <2>4 DEF Marked
  <2>5. CASE Marked(tree, n[1]) /\ treeCached'[n[1]] # version[n[1]]
    <3>1. PICK g \in Thread : tree.job[g].step = "marked" /\ tree.job[g].of[1] = n[1]
      BY <2>5 DEF Marked
    <3>2. g # h
      BY <1>3, <2>5, <3>1
    <3>3. Marked(tree, n[1])'
      BY <1>2, <3>1, <3>2 DEF Marked
    <3> QED BY <2>1, <3>3
  <2> QED BY <1>1, <2>2, <2>3, <2>4, <2>5 DEF Wanted
<1>5. Finds(tree)'
  <2> SUFFICES ASSUME NEW n \in T!Node, ~ tree.row[n].tainted,
                      NEW g \in T!Loads(tree, n), ~ tree'.job[g].crossed
               PROVE  /\ tree'.job[g].step = "opened" => tree.row[n].want <= treeCached'[n[1]]
                      /\ tree'.job[g].step = "read" => tree.row[n].want <= tree'.job[g].found
    BY <1>2 DEF Finds
  <2>1. CASE g = h
    BY <1>2, <2>1
  <2>2. CASE g # h
    <3>1. g \in Thread /\ tree'.job[g] = tree.job[g]
      BY <1>2, <2>2 DEF T!Loads
    <3>2. /\ tree.job[g].step = "opened" => tree.row[n].want <= treeCached[n[1]]
          /\ tree.job[g].step = "read" => tree.row[n].want <= tree.job[g].found
      BY <1>1, <3>1 DEF Finds
    <3> QED BY <1>3, <3>1, <3>2
  <2> QED BY <2>1, <2>2
<1>6. Sane(tree, stale)'
  BY <1>2, <1>4, <1>5 DEF Sane
<1> QED BY <1>2, <1>6 DEF TreeInv

LEMMA WorkStep ==
  ASSUME T!TreeAssumption, TreeInv, NEW h \in Thread, T!Work(h)
  PROVE  TreeInv'
<1> DEFINE j == tree.job[h]
           c == j.of[1]
<1>1. /\ Server /\ tree \in Tree /\ Wanted(tree, stale) /\ Finds(tree) /\ Sane(tree, stale)
  BY DEF TreeInv, Sane
<1>2. /\ \A d \in Conn : version[d] \in Nat /\ treeCached[d] \in Nat /\ treeCached[d] <= version[d]
      /\ \A d \in Conn : treeCached[d] <= treeCached[d] /\ version[d] \in T!Version
  BY <1>1, Numbers DEF Server
<1>3. j \in Job => j.of \in T!Node /\ c \in Conn
  BY JobIs, NodeShape
<1>4. CASE T!TakeMark(h)
  <2>1. PICK k \in Job : /\ j # T!Idle /\ j \in Job /\ k.of = j.of /\ k.id = j.id /\ k.step = "marked"
                          /\ tree' = T!Give(tree, h, k)
    BY <1>4, StepIs DEF T!TakeMark
  <2>2. stale' = stale \ {c} /\ version' = version /\ treeCached' = treeCached /\ j.step = "asked"
    BY <1>4 DEF T!TakeMark, T!Step
  <2>3. Server'
    BY <1>1, <2>2 DEF Server
  <2> HIDE DEF j
  <2> QED BY <1>2, <2>1, <2>2, <2>3, Works DEF j
<1>5. CASE T!NoMark(h)
  <2> DEFINE x == \E g \in Thread : tree.job[g].step = "marked" /\ tree.job[g].of[1] = c
             k == [j EXCEPT !.step = "opened", !.crossed = x]
  <2>1. j.step = "asked" /\ c \notin stale /\ tree' = T!Give(tree, h, k)
        /\ version' = version /\ treeCached' = treeCached /\ stale' = stale
    BY <1>5 DEF T!NoMark
  <2>2. j \in {T!Idle} \cup Job /\ j # T!Idle
    BY <1>1, <2>1, TreeIs DEF T!Idle
  <2>3. j \in [step : {"asked", "marked", "opened", "failed"}, of : T!Node, id : T!Ids,
               crossed : BOOLEAN]
    BY <2>1, <2>2 DEF Job
  <2>4. x \in BOOLEAN /\ (x <=> Marked(tree, c))
    BY DEF Marked
  <2> HIDE DEF x
  <2>5. k \in Job /\ k.of = j.of /\ k.id = j.id /\ k.step = "opened" /\ k.crossed = x
    BY <2>3, <2>4 DEF Job
  <2> HIDE DEF k
  <2>6. Server'
    BY <1>1, <2>1 DEF Server
  <2>7. \A n \in T!Node : k.of = n /\ ~ k.crossed => tree.row[n].want <= treeCached'[n[1]]
    BY <1>1, <2>1, <2>4, <2>5 DEF Wanted
  <2> HIDE DEF j
  <2> QED BY <1>2, <2>1, <2>2, <2>5, <2>6, <2>7, Works DEF j
<1>6. CASE T!Invalidate(h)
  <2>1. PICK k \in Job : /\ j # T!Idle /\ j \in Job /\ k.of = j.of /\ k.id = j.id /\ k.step = "opened"
                          /\ tree' = T!Give(tree, h, k)
    BY <1>6, StepIs DEF T!Invalidate
  <2>2. treeCached' = [treeCached EXCEPT ![c] = version[c]] /\ version' = version /\ stale' = stale
    BY <1>6 DEF T!Invalidate
  <2>3. c \in Conn
    BY <1>3, <2>1
  <2>4. treeCached \in [Conn -> T!Version]
    BY <1>1 DEF Server
  <2>5. treeCached'[c] = version[c] /\ \A d \in Conn : d # c => treeCached'[d] = treeCached[d]
    BY <2>2, <2>3, <2>4
  <2>6. treeCached' \in [Conn -> T!Version] /\ \A d \in Conn : treeCached[d] <= treeCached'[d] /\ treeCached'[d] <= version[d]
    BY <1>2, <2>2, <2>3, <2>4, <2>5
  <2>7. Server'
    BY <1>1, <2>2, <2>6 DEF Server
  <2>8. \A n \in T!Node : k.of = n => tree.row[n].want <= treeCached'[n[1]]
    BY <1>1, <2>1, <2>5 DEF Wanted
  <2> HIDE DEF j
  <2> QED BY <2>1, <2>2, <2>5, <2>6, <2>7, <2>8, Works DEF j
<1>7. CASE T!Read(h)
  <2>1. j.step = "opened" /\ version' = version /\ treeCached' = treeCached /\ stale' = stale
    BY <1>7 DEF T!Read
  <2>2. j \in {T!Idle} \cup Job /\ j # T!Idle
    BY <1>1, <2>1, TreeIs DEF T!Idle
  <2>3. j.of \in T!Node /\ j.id \in T!Ids /\ j.crossed \in BOOLEAN /\ c \in Conn
    BY <1>3, <2>2, JobIs
  <2>4. PICK v \in treeCached[c] .. version[c] :
          tree' = T!Give(tree, h, [step |-> "read", of |-> j.of, id |-> j.id,
                                 crossed |-> j.crossed, found |-> v])
    BY <1>7 DEF T!Read
  <2> DEFINE k == [step |-> "read", of |-> j.of, id |-> j.id, crossed |-> j.crossed, found |-> v]
  <2>5. v \in T!Version /\ treeCached[c] <= v /\ v \in Nat
    BY <1>2, <2>3, Numbers
  <2>6. k \in Job /\ k.of = j.of /\ k.id = j.id /\ k.step = "read" /\ k.crossed = j.crossed /\ k.found = v
    BY <2>3, <2>5 DEF Job
  <2>7. tree' = T!Give(tree, h, k)
    BY <2>4
  <2> HIDE DEF k
  <2>8. Server'
    BY <1>1, <2>1 DEF Server
  <2>9. \A n \in T!Node : k.of = n /\ h \in T!Loads(tree, n) /\ ~ tree.row[n].tainted /\ ~ k.crossed =>
          tree.row[n].want <= v
    <3> SUFFICES ASSUME NEW n \in T!Node, k.of = n, h \in T!Loads(tree, n), ~ tree.row[n].tainted,
                        ~ k.crossed
                 PROVE  tree.row[n].want <= v
      OBVIOUS
    <3>1. tree.row[n].want <= treeCached[c]
      BY <1>1, <2>1, <2>6 DEF Finds
    <3>2. tree.row[n].want \in T!Version
      BY <1>1, TreeIs, RowIs
    <3> QED BY <1>2, <2>3, <2>5, <3>1, <3>2, Numbers
  <2> HIDE DEF j
  <2> QED BY <1>2, <2>1, <2>2, <2>6, <2>7, <2>8, <2>9, Works DEF j
<1>8. CASE T!Fail(h)
  <2>1. T!Step(h, "asked", "failed") \/ T!Step(h, "opened", "failed")
    BY <1>8 DEF T!Fail, T!Step
  <2>2. PICK k \in Job : /\ j # T!Idle /\ j \in Job /\ k.of = j.of /\ k.id = j.id /\ k.step = "failed"
                          /\ tree' = T!Give(tree, h, k)
    BY <2>1, StepIs
  <2>3. j.step # "marked" /\ version' = version /\ treeCached' = treeCached /\ stale' = stale
    BY <1>8 DEF T!Fail
  <2>4. Server'
    BY <1>1, <2>3 DEF Server
  <2> HIDE DEF j
  <2> QED BY <1>2, <2>2, <2>3, <2>4, Works DEF j
<1> QED BY <1>4, <1>5, <1>6, <1>7, <1>8 DEF T!Work

LEMMA ChangeStep ==
  ASSUME T!TreeAssumption, TreeInv, NEW c \in Conn, T!Change(c)
  PROVE  TreeInv'
<1>1. Server /\ Sane(tree, stale) /\ \A n \in T!Node : Listed(tree, n)
  BY DEF TreeInv
<1>2. /\ version[c] < MaxVersion /\ version' = [version EXCEPT ![c] = version[c] + 1]
      /\ tree' = tree /\ treeCached' = treeCached /\ stale' = stale
  BY DEF T!Change
<1>3. version \in [Conn -> T!Version] /\ \A d \in Conn : version[d] \in Nat /\ treeCached[d] \in Nat
  BY <1>1, Numbers DEF Server
<1>4. version' \in [Conn -> T!Version]
  BY <1>2, <1>3, Numbers
<1>5. \A d \in Conn : version[d] <= version'[d] /\ version'[d] \in Nat
  BY <1>2, <1>3
<1>6. Server'
  BY <1>1, <1>2, <1>3, <1>4, <1>5 DEF Server
<1>7. (tree \in Tree)' /\ RowObjects(tree)' /\ Spins(tree)' /\ Single(tree)'
  BY <1>1, <1>2 DEF Sane, RowObjects, Spins, Single, T!Loads
<1>8. Wanted(tree, stale)'
  <2> SUFFICES ASSUME NEW n \in T!Node
               PROVE  /\ tree.row[n].want <= version'[n[1]]
                      /\ tree.row[n].want <= treeCached[n[1]] \/ n[1] \in stale \/ Marked(tree, n[1])
    BY <1>2 DEF Wanted, Marked
  <2>1. n[1] \in Conn /\ tree.row[n].want \in T!Version /\ T!Version \subseteq Nat
    BY <1>1, NodeShape, TreeIs, RowIs, Numbers DEF Sane
  <2>2. /\ tree.row[n].want <= version[n[1]]
        /\ tree.row[n].want <= treeCached[n[1]] \/ n[1] \in stale \/ Marked(tree, n[1])
    BY <1>1 DEF Sane, Wanted
  <2>3. /\ tree.row[n].want \in Nat /\ version[n[1]] \in Nat /\ version'[n[1]] \in Nat
        /\ version[n[1]] <= version'[n[1]]
    BY <1>3, <1>5, <2>1
  <2>4. tree.row[n].want <= version'[n[1]]
    BY <2>2, <2>3
  <2> QED BY <2>2, <2>4, Zenon
<1>9. Finds(tree)'
  BY <1>1, <1>2 DEF Sane, Finds, T!Loads
<1>10. Sane(tree, stale)'
  BY <1>7, <1>8, <1>9 DEF Sane
<1>11. (\A n \in T!Node : Listed(tree, n))'
  BY <1>1, <1>2 DEF Listed
<1> QED BY <1>6, <1>10, <1>11 DEF TreeInv

LEMMA TreeInit == T!TreeAssumption /\ T!Init => TreeInv
<1> SUFFICES ASSUME T!TreeAssumption, T!Init
             PROVE  TreeInv
  OBVIOUS
<1>1. 0 \in T!Version /\ T!Empty \in 0 .. T!Failure /\ T!Empty # T!Note
  BY Numbers
<1>2. /\ T!NoRow \in T!Row /\ T!NoRow.id = 0 /\ ~ T!NoRow.loaded /\ ~ T!NoRow.loading
      /\ T!NoRow.shown = T!Empty /\ T!NoRow.want = 0 /\ ~ T!NoRow.tainted
  BY NoRowIs
<1>3. ASSUME NEW i \in T!Ids
      PROVE  /\ T!NewRow(i) \in T!Row /\ T!NewRow(i).id = i /\ ~ T!NewRow(i).loaded /\ ~ T!NewRow(i).loading
             /\ T!NewRow(i).shown = T!Empty /\ T!NewRow(i).want = 0
  BY <1>1 DEF T!NewRow, T!NoRow, T!Row
<1>4. /\ T!FirstIds \in [Conn -> T!Ids]
      /\ \A c, d \in Conn : T!FirstIds[c] = T!FirstIds[d] => c = d
  BY First
<1>5. /\ tree.row = [n \in T!Node |-> IF n[2] = "conn" THEN T!NewRow(T!FirstIds[n[1]]) ELSE T!NoRow]
      /\ tree.job = [h \in Thread |-> T!Idle] /\ tree.target = T!Nowhere /\ tree.wait = 0
  BY DEF T!Init
<1>6. \A n \in T!Node : n[1] \in Conn /\ n = <<n[1], n[2]>> /\ n[2] \in {"conn", "folder"}
  BY NodeShape
<1>7. \A n \in T!Node : /\ n[2] = "conn" => tree.row[n].id = T!FirstIds[n[1]] /\ tree.row[n].id \in T!Ids
                        /\ n[2] # "conn" => tree.row[n] = T!NoRow
                        /\ tree.row[n] \in T!Row /\ ~ tree.row[n].loaded /\ ~ tree.row[n].loading
                        /\ tree.row[n].shown = T!Empty /\ tree.row[n].want = 0
  <2> TAKE n \in T!Node
  <2>1. CASE n[2] = "conn"
    <3>1. T!FirstIds[n[1]] \in T!Ids /\ tree.row[n] = T!NewRow(T!FirstIds[n[1]])
      BY <1>4, <1>5, <1>6, <2>1
    <3> QED BY <1>3, <2>1, <3>1
  <2>2. CASE n[2] # "conn"
    <3>1. tree.row[n] = T!NoRow
      BY <1>5, <2>2
    <3> QED BY <1>2, <2>2, <3>1
  <2> QED BY <2>1, <2>2
<1>8. \A n \in T!Node : T!Loads(tree, n) = {}
  BY <1>5 DEF T!Loads
<1>9. tree \in Tree
  <2>1. tree.row \in [T!Node -> T!Row]
    <3>1. \A n \in T!Node : (IF n[2] = "conn" THEN T!NewRow(T!FirstIds[n[1]]) ELSE T!NoRow) \in T!Row
      BY <1>5, <1>7
    <3> QED BY <1>5, <3>1
  <2>2. tree = [row |-> tree.row, job |-> tree.job, target |-> T!Nowhere,
                armed |-> FALSE, wait |-> 0, selected |-> T!Nowhere]
    BY DEF T!Init
  <2>3. tree.job \in [Thread -> {T!Idle} \cup Job]
    BY <1>5
  <2>4. PICK r \in [T!Node -> T!Row] : r = tree.row
    BY <2>1
  <2>5. PICK j \in [Thread -> {T!Idle} \cup Job] : j = tree.job
    BY <2>3
  <2>6. tree = [row |-> r, job |-> j, target |-> T!Nowhere, armed |-> FALSE, wait |-> 0,
                selected |-> T!Nowhere]
    BY <2>2, <2>4, <2>5
  <2>7. T!Nowhere \in Conn \cup {T!Nowhere} /\ FALSE \in BOOLEAN /\ 0 \in {0} \cup T!Ids
    OBVIOUS
  <2> QED BY <2>6, <2>7 DEF Tree
<1>10. RowObjects(tree)
  <2>1. \A m, n \in T!Node : tree.row[m].id = tree.row[n].id => m = n \/ tree.row[n].id = 0
    <3> SUFFICES ASSUME NEW m \in T!Node, NEW n \in T!Node, tree.row[m].id = tree.row[n].id,
                        tree.row[n].id # 0
                 PROVE  m = n
      OBVIOUS
    <3>1. n[2] = "conn" /\ m[2] = "conn"
      BY <1>2, <1>7
    <3>2. T!FirstIds[m[1]] = T!FirstIds[n[1]]
      BY <1>7, <3>1
    <3>3. m[1] = n[1]
      BY <1>4, <1>6, <3>2
    <3> QED BY <1>6, <3>1, <3>3
  <2>2. \A n \in T!Node : tree.row[n].id = 0 => tree.row[n] = T!NoRow
    BY <1>7, IdIs
  <2>3. \A c \in Conn : tree.row[<<c, "folder">>].id = 0
    <3> TAKE c \in Conn
    <3>1. <<c, "folder">> \in T!Node /\ <<c, "folder">>[2] # "conn"
      BY ConnShape
    <3> QED BY <1>2, <1>7, <3>1
  <2> QED BY <1>8, <2>1, <2>2, <2>3 DEF RowObjects
<1>11. Spins(tree) /\ Single(tree) /\ Finds(tree)
  BY <1>1, <1>7, <1>8 DEF Spins, Single, Finds
<1>12. /\ version \in [Conn -> T!Version] /\ treeCached \in [Conn -> T!Version] /\ stale = {}
       /\ \A c \in Conn : version[c] = 0 /\ treeCached[c] = 0
  BY <1>1 DEF T!Init
<1>13. Wanted(tree, stale)
  BY <1>6, <1>7, <1>12 DEF Wanted
<1>14. Server
  BY <1>12 DEF Server
<1>15. \A n \in T!Node : Listed(tree, n)
  BY <1>7 DEF Listed
<1> QED BY <1>9, <1>10, <1>11, <1>13, <1>14, <1>15 DEF TreeInv, Sane

LEMMA TreeNext == T!TreeAssumption /\ TreeInv /\ [T!Next]_(T!vars) => TreeInv'
<1> SUFFICES ASSUME T!TreeAssumption, TreeInv, [T!Next]_(T!vars)
             PROVE  TreeInv'
  OBVIOUS
<1>1. ASSUME NEW n \in T!Node, T!Expand(n) \/ T!Collapse(n) \/ T!Refresh(n)
      PROVE  TreeInv'
  BY <1>1, ExpandStep, CollapseStep, RefreshStep
<1>2. ASSUME NEW c \in Conn, T!RemoveProfile(c) \/ T!AddProfile(c) \/ T!Change(c)
      PROVE  TreeInv'
  BY <1>2, RemoveStep, AddStep, ChangeStep
<1>3. ASSUME NEW c \in Conn \cup {T!Nowhere}, T!Reveal(c)
      PROVE  TreeInv'
  BY <1>3, RevealStep
<1>4. CASE T!FollowTimeout
  BY <1>4, FollowStep
<1>5. ASSUME NEW h \in Thread, T!Work(h) \/ T!Land(h)
      PROVE  TreeInv'
  BY <1>5, WorkStep, DoneStep, FailedStep DEF T!Land
<1>6. CASE UNCHANGED T!vars
  <2>1. Sane(tree', stale') /\ \A n \in T!Node : Listed(tree', n)
    BY <1>6 DEF TreeInv, T!vars
  <2>2. version' = version /\ treeCached' = treeCached /\ stale' \subseteq Conn
    BY <1>6 DEF TreeInv, T!vars, Server
  <2> QED BY <2>1, <2>2, Stays
<1> QED BY <1>1, <1>2, <1>3, <1>4, <1>5, <1>6 DEF T!Next

\* What is always so of the tree.
THEOREM TreeAlways == T!TreeAssumption => (T!Spec => []TreeInv)
<1> SUFFICES ASSUME T!TreeAssumption PROVE T!Spec => []TreeInv
  OBVIOUS
<1>1. T!Init => TreeInv
  BY TreeInit
<1>2. TreeInv /\ [T!Next]_(T!vars) => TreeInv'
  BY TreeNext
<1> QED BY <1>1, <1>2, PTL DEF T!Spec


-----------------------------------------------------------------------------
(* Side by side with the cache, which leaves the tree alone.                *)

LEMMA TreePart == MCSpec => T!Spec
<1>1. MCInit => T!Init
  BY DEF MCInit
<1>2. [MCNext]_allVars => [T!Next]_(T!vars)
  BY DEF MCNext, allVars, treeVars, T!vars
<1> QED
  BY <1>1, <1>2, PTL DEF MCSpec, T!Spec

\* The property RefreshedRows of the run: a row that says it is loaded shows a
\* listing as new as the last Refresh of it.
COROLLARY RowsAreRefreshed == MCSpec => []RefreshedRows
<1>1. T!TreeAssumption
  BY InstanceAssumption
<1>2. TreeInv => RefreshedRows
  BY DEF TreeInv, Listed, RefreshedRows, T!RefreshedRows
<1> QED
  BY <1>1, <1>2, TreeAlways, TreePart, PTL

\* The property SpinnerHasLoad of the run: a row that says it is loading has a
\* load that will tell.
COROLLARY LoadingEnds == MCSpec => []SpinnerHasLoad
<1>1. T!TreeAssumption
  BY InstanceAssumption
<1>2. TreeInv => SpinnerHasLoad
  BY DEF TreeInv, Sane, Spins, SpinnerHasLoad, T!SpinnerHasLoad
<1> QED
  BY <1>1, <1>2, TreeAlways, TreePart, PTL
=============================================================================
