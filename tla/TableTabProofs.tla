--------------------------- MODULE TableTabProofs ---------------------------
(* Theorems about the tabs that show rows: the pages of a table             *)
(* (GridWindow, this module's own names), the edits that wait to be saved   *)
(* (GridEdits, here E) and the query builder (QueryBuilder, here Q): of     *)
(* each alone, for requests, rows, jobs, catalogs and sources of any        *)
(* number, and of the specification MCTableTab runs.                        *)
EXTENDS MCTableTab, FiniteSetTheorems, SequenceTheorems, WellFoundedInduction, TLAPS

-----------------------------------------------------------------------------
(* Paging and scrolling.                                                   *)

\* The flags the tab keeps about its loads, against the loads in flight: a
\* flag that is set has a load whose answer will reset it, and a full load
\* has its flag, which no reload takes away.
FlagsInv ==
  /\ sent = [q \in Request |-> sent[q]]
  /\ more => \E q \in Request : sent[q].kind = "more"
  /\ \A q \in Request : sent[q].kind = "all" => all
  /\ all => \E q \in Request : sent[q].kind = "all"
  /\ OneLoadAll

\* A request that is sent takes a free slot, and no other slot changes.
LEMMA FlagsStep ==
  ASSUME FlagsInv, [Next]_vars
  PROVE  FlagsInv'
<1> USE DEF FlagsInv, OneLoadAll, None
<1>1. ASSUME NEW q \in Request, NEW f, NEW o, Reload(q, f, o) PROVE FlagsInv'
  BY <1>1 DEF Reload
<1>2. ASSUME NEW q \in Request, LoadMore(q) PROVE FlagsInv'
  BY <1>2 DEF LoadMore
<1>3. ASSUME NEW q \in Request, LoadAll(q) PROVE FlagsInv'
  BY <1>3 DEF LoadAll
<1>4. ASSUME NEW q \in Request, Reloaded(q) PROVE FlagsInv'
  <2>1. /\ sent[q].kind = "reload" /\ sent' = [sent EXCEPT ![q] = None]
        /\ more' = more /\ all' = all
    BY <1>4 DEF Reloaded, Clear
  <2>2. QED
    BY <2>1
<1>5. ASSUME NEW q \in Request, LoadedMore(q) PROVE FlagsInv'
  <2>1. /\ sent[q].kind = "more" /\ sent' = [sent EXCEPT ![q] = None]
        /\ more' = FALSE /\ all' = all
    BY <1>5 DEF LoadedMore, Clear
  <2>2. QED
    BY <2>1
<1>6. ASSUME NEW q \in Request, LoadedAll(q) PROVE FlagsInv'
  <2>1. /\ sent[q].kind = "all" /\ sent' = [sent EXCEPT ![q] = None]
        /\ more' = more /\ all' = FALSE
    BY <1>6 DEF LoadedAll, Clear
  <2>2. QED
    BY <2>1
<1>7. ASSUME NEW q \in Request, LoadFailed(q) PROVE FlagsInv'
  BY <1>7 DEF LoadFailed, Clear
<1>8. CASE UNCHANGED vars
  BY <1>8 DEF vars, tab
<1>9. QED
  BY <1>1, <1>2, <1>3, <1>4, <1>5, <1>6, <1>7, <1>8
     DEF Next, Act, Answer, ApplyFilters, Refresh, OnNext, OnPrev

LEMMA FlagsInit ==
  ASSUME Init
  PROVE  FlagsInv
BY DEF Init, FlagsInv, OneLoadAll, None

\* A tab with nothing in flight is not waiting for anything: whatever was
\* overtaken or failed, scrolling and "load all" can be used again.
THEOREM NeverStuck == Spec => []NotStuck
<1>1. FlagsInv => NotStuck
  BY DEF FlagsInv, NotStuck, AtRest, None
<1>2. QED
  BY <1>1, FlagsInit, FlagsStep, PTL DEF Spec

\* However often "load all" is clicked, and whatever is reloaded meanwhile,
\* one full load runs at a time.
THEOREM OneFullLoad == Spec => []OneLoadAll
<1>1. FlagsInv => OneLoadAll
  BY DEF FlagsInv
<1>2. QED
  BY <1>1, FlagsInit, FlagsStep, PTL DEF Spec

\* What the tab shows when nothing overtook the last reload, and what it goes
\* on from: the key of the last row, or a count of rows, where a full page says
\* that there may be more.
Stretch ==
  /\ loaded = Len(grid)
  /\ \A i \in 1 .. loaded : /\ base + i \in DOMAIN Rows[filter]
                           /\ grid[i] = Rows[filter][base + i]
  /\ cursor # 0 => loaded > 0 /\ cursor = grid[loaded]
  /\ nextOn => offset + PageSize = base + loaded

\* One request is in flight at most: a reload for what the tab now says, with
\* the rows of before still on the screen, or a load that goes on from the
\* stretch that is shown.
WindowInv ==
  /\ TypeOK
  /\ sound =>
       /\ \A p, q \in Request : sent[p] # None /\ sent[q] # None => p = q
       /\ \A q \in Request : sent[q].kind = "reload" =>
            sent[q].filter = filter /\ sent[q].offset = offset /\ base = offset
       /\ (\A q \in Request : sent[q].kind # "reload") => Stretch
       /\ \A q \in Request : sent[q].kind \in {"more", "all"} =>
            /\ sent[q].filter = filter /\ sent[q].offset = base + loaded
            /\ sent[q].cursor = cursor

\* A filter selects rows in their order.
LEMMA RowsType ==
  ASSUME NEW f \in Filter
  PROVE  /\ Rows[f] \in Seq(Nat \ {0})
         /\ \A i, j \in DOMAIN Rows[f] : i < j => Rows[f][i] < Rows[f][j]
BY WindowAssumption

\* The cursor's comparison leaves out what is shown: the rows up to its own.
LEMMA BeforeCursor ==
  ASSUME NEW f \in Filter, NEW k \in DOMAIN Rows[f], NEW o \in Nat
  PROVE  Before(f, o, Rows[f][k]) = k
<1>1. Rows[f] \in Seq(Nat \ {0}) /\ k \in 1 .. Len(Rows[f]) /\ Len(Rows[f]) \in Nat
  BY RowsType
<1>2. Rows[f][k] # 0
  BY <1>1
<1>3. {i \in DOMAIN Rows[f] : Rows[f][i] <= Rows[f][k]} = 1 .. k
  <2>1. ASSUME NEW i \in 1 .. Len(Rows[f]) PROVE Rows[f][i] <= Rows[f][k] <=> i <= k
    <3>1. Rows[f][i] \in Nat /\ Rows[f][k] \in Nat
      BY <1>1
    <3>2. i < k => Rows[f][i] < Rows[f][k]
      BY <1>1, RowsType
    <3>3. k < i => Rows[f][k] < Rows[f][i]
      BY <1>1, RowsType
    <3> QED
      BY <1>1, <3>1, <3>2, <3>3
  <2>2. \A i \in DOMAIN Rows[f] : Rows[f][i] <= Rows[f][k] <=> i \in 1 .. k
    BY <1>1, <2>1
  <2>3. 1 .. k \in SUBSET DOMAIN Rows[f]
    BY <1>1
  <2> QED
    BY <2>2, <2>3
<1>4. Cardinality(1 .. k) = k
  BY <1>1, FS_Interval
<1> QED
  BY <1>2, <1>3, <1>4 DEF Before

\* What a query returns, once it is known how many rows it leaves out.
LEMMA Fetched ==
  ASSUME NEW f \in Filter, NEW o, NEW c, NEW n \in Nat, Before(f, o, c) = n
  PROVE  /\ After(f, o, c) \in Seq(Nat \ {0})
         /\ \A i \in 1 .. Len(After(f, o, c)) :
              n + i \in DOMAIN Rows[f] /\ After(f, o, c)[i] = Rows[f][n + i]
         /\ FetchRows(f, o, c) \in Seq(Nat \ {0})
         /\ \A i \in 1 .. Len(FetchRows(f, o, c)) :
              n + i \in DOMAIN Rows[f] /\ FetchRows(f, o, c)[i] = Rows[f][n + i]
<1> DEFINE s == Rows[f]
           a == SubSeq(s, n + 1, Len(s))
           m == IF Len(a) < PageSize THEN Len(a) ELSE PageSize
           b == SubSeq(a, 1, m)
<1>1. s \in Seq(Nat \ {0}) /\ Len(s) \in Nat /\ PageSize \in Nat
  BY RowsType, WindowAssumption
<1>2. After(f, o, c) = a /\ FetchRows(f, o, c) = b
  BY DEF After, FetchRows
<1> HIDE DEF s
<1>3. a \in Seq(Nat \ {0}) /\ Len(a) = (IF n + 1 <= Len(s) THEN Len(s) - n ELSE 0)
  BY <1>1
<1>4. ASSUME NEW i \in 1 .. Len(a) PROVE n + i \in 1 .. Len(s) /\ a[i] = s[n + i]
  <2>1. PICK l \in Nat : l = Len(s)
    BY <1>1
  <2>2. n + 1 <= l /\ i \in 1 .. l - n
    BY <1>3, <2>1
  <2>3. a[i] = s[n + 1 + i - 1] /\ n + 1 + i - 1 = n + i
    BY <1>1, <2>1, <2>2
  <2> QED
    BY <2>1, <2>2, <2>3
<1> HIDE DEF a
<1>5. m \in Nat /\ m <= Len(a) /\ Len(a) \in Nat
  BY <1>1, <1>3
<1> HIDE DEF m
<1>6. b \in Seq(Nat \ {0}) /\ Len(b) = m /\ \A i \in 1 .. m : b[i] = a[i]
  BY <1>3, <1>5
<1> HIDE DEF b
<1>7. ASSUME NEW i \in 1 .. Len(b) PROVE n + i \in 1 .. Len(s) /\ b[i] = s[n + i]
  <2>1. PICK k \in Nat : k = Len(a)
    BY <1>5
  <2>2. i \in 1 .. m /\ i \in 1 .. k
    BY <1>5, <1>6, <2>1
  <2> QED
    BY <1>4, <1>6, <2>1, <2>2
<1>8. DOMAIN s = 1 .. Len(s)
  BY <1>1
<1> QED
  BY <1>2, <1>3, <1>4, <1>6, <1>7, <1>8 DEF s

\* A load that goes on from the stretch leaves out just what came before.
LEMMA GoesOn ==
  ASSUME TypeOK, Stretch
  PROVE  Before(filter, base + loaded, cursor) = base + loaded
<1>1. base + loaded \in Nat /\ filter \in Filter
  BY DEF TypeOK
<1>2. CASE cursor = 0
  BY <1>2 DEF Before
<1>3. CASE cursor # 0
  <2>1. base + loaded \in DOMAIN Rows[filter] /\ cursor = Rows[filter][base + loaded]
    BY <1>3 DEF Stretch, TypeOK
  <2> QED
    BY <1>1, <2>1, BeforeCursor
<1> QED
  BY <1>2, <1>3

\* A cursor is the last row of what was loaded, or none.
LEMMA CursorShape ==
  ASSUME NEW page \in Seq(Nat \ {0})
  PROVE  /\ CursorOf(page) \in Nat
         /\ CursorOf(page) # 0 => Len(page) > 0 /\ CursorOf(page) = page[Len(page)]
         /\ LastCursor(page) \in {0, CursorOf(page)}
<1>1. page # <<>> => Len(page) \in 1 .. Len(page) /\ page[Len(page)] \in Nat
  OBVIOUS
<1> QED
  BY <1>1 DEF CursorOf, LastCursor

LEMMA WindowInit ==
  ASSUME Init
  PROVE  WindowInv
<1>1. PICK r \in Request :
        sent = [p \in Request |->
                 IF p = r THEN [kind |-> "reload", filter |-> filter,
                                offset |-> 0, cursor |-> 0]
                          ELSE None]
  BY DEF Init
<1>2. TypeOK
  <2>1. sent \in [Request -> Loads \cup {None}]
    BY <1>1 DEF Init, Loads, None
  <2>2. paging \in Paging /\ filter \in Filter /\ grid = <<>> /\ sound = TRUE
    BY DEF Init
  <2>3. offset = 0 /\ base = 0 /\ loaded = 0 /\ cursor = 0
    BY DEF Init
  <2>4. more = FALSE /\ all = FALSE /\ nextOn = TRUE /\ prevOn = TRUE
    BY DEF Init
  <2>5. 0 \in Nat /\ <<>> \in Seq(Nat \ {0})
    OBVIOUS
  <2> QED
    BY <2>1, <2>2, <2>3, <2>4, <2>5, Zenon DEF TypeOK
<1>3. None.kind = "none"
  BY DEF None
<1> QED
  BY <1>1, <1>2, <1>3 DEF WindowInv, Init

\* A reload that is sent.
LEMMA ReloadStep ==
  ASSUME WindowInv, NEW q \in Request, NEW f \in Filter, NEW o \in Nat, Reload(q, f, o),
         UNCHANGED paging
  PROVE  WindowInv'
<1> DEFINE r == [kind |-> "reload", filter |-> f, offset |-> o, cursor |-> 0]
<1>1. r \in Loads
  BY DEF Loads
<1>2. sent' = [sent EXCEPT ![q] = r]
  BY DEF Reload
<1>3. TypeOK'
  <2>1. sent' \in [Request -> Loads \cup {None}]
    BY <1>1, <1>2 DEF WindowInv, TypeOK
  <2>2. sound' \in BOOLEAN
    BY DEF Reload, AtRest
  <2> QED
    BY <2>1, <2>2 DEF WindowInv, TypeOK, Reload
<1>4. r.kind = "reload" /\ r.filter = f /\ r.offset = o
  OBVIOUS
<1> HIDE DEF r
<1>5. sent'[q] = r /\ \A p \in Request : p # q => sent'[p] = sent[p]
  BY <1>2 DEF WindowInv, TypeOK
<1>6. ASSUME sound' PROVE \A p \in Request : p # q => sent'[p] = None
  BY <1>5, <1>6 DEF Reload, AtRest
<1>7. None.kind = "none"
  BY DEF None
<1>8. filter' = f /\ offset' = o /\ base' = o
  BY DEF Reload
<1> QED
  BY <1>3, <1>4, <1>5, <1>6, <1>7, <1>8 DEF WindowInv

\* A load that goes on from what is shown.
LEMMA LoadStep ==
  ASSUME WindowInv, NEW q \in Request, LoadMore(q) \/ LoadAll(q), UNCHANGED paging
  PROVE  WindowInv'
<1>1. PICK k \in {"more", "all"} :
        sent' = [sent EXCEPT ![q] = [kind |-> k, filter |-> filter,
                                     offset |-> base + loaded, cursor |-> cursor]]
  BY DEF LoadMore, LoadAll
<1> DEFINE r == [kind |-> k, filter |-> filter, offset |-> base + loaded,
                 cursor |-> cursor]
<1>2. r \in Loads
  BY DEF Loads, WindowInv, TypeOK
<1>3. /\ UNCHANGED <<filter, offset, base, loaded, cursor, nextOn, prevOn, grid>>
      /\ sound' = (sound /\ AtRest) /\ more' \in BOOLEAN /\ all' \in BOOLEAN
  BY DEF LoadMore, LoadAll, WindowInv, TypeOK
<1>4. TypeOK'
  <2>1. sent' \in [Request -> Loads \cup {None}]
    BY <1>1, <1>2 DEF WindowInv, TypeOK
  <2>2. sound' \in BOOLEAN
    BY <1>3
  <2> QED
    BY <1>3, <2>1, <2>2 DEF WindowInv, TypeOK
<1>5. /\ r.kind = k /\ r.filter = filter /\ r.offset = base + loaded
      /\ r.cursor = cursor
  OBVIOUS
<1>6. sent' = [sent EXCEPT ![q] = r]
  BY <1>1
<1> HIDE DEF r
<1>7. sent'[q] = r /\ \A p \in Request : p # q => sent'[p] = sent[p]
  BY <1>6 DEF WindowInv, TypeOK
<1>8. None.kind = "none"
  BY DEF None
<1>9. ASSUME sound'
      PROVE  /\ sound /\ Stretch'
             /\ \A p \in Request : p # q => sent'[p] = None
  <2>1. sound /\ \A p \in Request : sent[p] = None
    BY <1>3, <1>9 DEF AtRest
  <2>2. Stretch
    BY <1>8, <2>1 DEF WindowInv
  <2>3. Stretch'
    BY <1>3, <2>2 DEF Stretch
  <2> QED
    BY <1>7, <2>1, <2>3
<1> QED
  BY <1>3, <1>4, <1>5, <1>7, <1>8, <1>9 DEF WindowInv

\* An answer leaves nothing in flight, where one request was.
LEMMA Answered ==
  ASSUME WindowInv, NEW q \in Request, Clear(q), sound, sent[q] # None
  PROVE  AtRest'
BY DEF WindowInv, TypeOK, Clear, AtRest

LEMMA ClearedType ==
  ASSUME TypeOK, NEW q \in Request, Clear(q)
  PROVE  sent' \in [Request -> Loads \cup {None}]
BY DEF TypeOK, Clear

\* With nothing in flight the stretch is all there is to say.
LEMMA RestSays == TypeOK /\ AtRest /\ Stretch => WindowInv
<1>1. None.kind = "none"
  BY DEF None
<1> QED
  BY <1>1 DEF WindowInv, AtRest

\* Appending the rows that follow makes a longer stretch.
LEMMA Longer ==
  ASSUME TypeOK, Stretch, NEW page \in Seq(Nat \ {0}), NEW c \in {0, CursorOf(page)},
         \A i \in 1 .. Len(page) : /\ base + loaded + i \in DOMAIN Rows[filter]
                                  /\ page[i] = Rows[filter][base + loaded + i],
         grid' = grid \o page, loaded' = loaded + Len(page), base' = base,
         filter' = filter, cursor' = c,
         nextOn' => offset' + PageSize = base + loaded + Len(page)
  PROVE  Stretch' /\ grid' \in Seq(Nat \ {0}) /\ loaded' \in Nat /\ cursor' \in Nat
<1>1. PICK n \in Nat : n = Len(page)
  OBVIOUS
<1>2. grid \in Seq(Nat \ {0}) /\ loaded \in Nat /\ loaded = Len(grid) /\ base \in Nat
  BY DEF TypeOK, Stretch
<1>3. grid' \in Seq(Nat \ {0}) /\ Len(grid') = loaded + n
  BY <1>1, <1>2
<1>4. \A i \in 1 .. loaded : grid'[i] = grid[i]
  BY <1>1, <1>2
<1>5. \A i \in 1 .. n : grid'[loaded + i] = page[i]
  BY <1>1, <1>2
<1>6. ASSUME NEW i \in 1 .. loaded + n
      PROVE  base + i \in DOMAIN Rows[filter] /\ grid'[i] = Rows[filter][base + i]
  <2>1. CASE i <= loaded
    BY <1>2, <1>4, <2>1 DEF Stretch
  <2>2. CASE i > loaded
    <3>0. i \in Nat /\ loaded \in Nat /\ n \in Nat /\ i <= loaded + n
      BY <1>2
    <3>3. i - loaded \in 1 .. n /\ i = loaded + (i - loaded)
      BY <2>2, <3>0
    <3>1. PICK j \in 1 .. n : i = loaded + j
      BY <3>3
    <3>2. base + loaded + j = base + i
      BY <1>1, <1>2, <3>1
    <3> QED
      BY <1>1, <1>5, <3>1, <3>2
  <2> QED
    BY <1>1, <1>2, <2>1, <2>2
<1>7. cursor' # 0 => loaded' > 0 /\ cursor' = grid'[loaded']
  <2> SUFFICES ASSUME cursor' # 0 PROVE loaded' > 0 /\ cursor' = grid'[loaded']
    OBVIOUS
  <2>1. n > 0 /\ cursor' = page[n]
    BY <1>1, CursorShape
  <2>2. n \in 1 .. n
    BY <1>1, <2>1
  <2>3. grid'[loaded + n] = page[n]
    BY <1>5, <2>2
  <2>4. loaded' = loaded + n
    BY <1>1
  <2>5. loaded + n > 0
    BY <1>1, <1>2, <2>1
  <2> QED
    BY <2>1, <2>3, <2>4, <2>5
<1>8. cursor' \in Nat
  BY CursorShape
<1>9. loaded' = loaded + n /\ loaded + n \in Nat
  BY <1>1, <1>2
<1>10. nextOn' => offset' + PageSize = base + loaded'
  BY <1>1, <1>2, <1>9
<1> QED
  BY <1>3, <1>6, <1>7, <1>8, <1>9, <1>10 DEF Stretch

LEMMA ReloadedStep ==
  ASSUME WindowInv, NEW q \in Request, Reloaded(q), UNCHANGED paging
  PROVE  WindowInv'
<1> DEFINE page == FetchRows(sent[q].filter, sent[q].offset, 0)
<1>1. /\ grid' = page /\ loaded' = Len(page) /\ cursor' = CursorOf(page)
      /\ nextOn' = (Len(page) = PageSize) /\ prevOn' = (sent[q].offset > 0)
      /\ Clear(q) /\ UNCHANGED <<filter, offset, base, more, all, sound>>
      /\ sent[q].kind = "reload"
  BY DEF Reloaded
<1>2. sent[q] \in Loads /\ sent[q] # None
  BY <1>1 DEF WindowInv, TypeOK, None
<1>3. PICK f \in Filter, o \in Nat : f = sent[q].filter /\ o = sent[q].offset
  BY <1>2 DEF Loads
<1>4. Before(f, o, 0) = o
  BY DEF Before
<1>5. /\ page \in Seq(Nat \ {0})
      /\ \A i \in 1 .. Len(page) : o + i \in DOMAIN Rows[f] /\ page[i] = Rows[f][o + i]
  BY <1>3, <1>4, Fetched
<1> HIDE DEF page
<1>6. Len(page) \in Nat /\ CursorOf(page) \in Nat
  BY <1>5, CursorShape
<1>7. TypeOK'
  <2>1. sent' \in [Request -> Loads \cup {None}]
    BY <1>1, ClearedType DEF WindowInv
  <2> QED
    BY <1>1, <1>5, <1>6, <2>1 DEF WindowInv, TypeOK
<1>8. ASSUME sound PROVE Stretch'
  <2>1. f = filter /\ o = offset /\ base = offset
    BY <1>1, <1>3, <1>8 DEF WindowInv
  <2>2. cursor' # 0 => loaded' > 0 /\ cursor' = grid'[loaded']
    BY <1>1, <1>5, CursorShape
  <2> QED
    BY <1>1, <1>5, <2>1, <2>2 DEF Stretch
<1>9. CASE sound
  <2>1. AtRest'
    BY <1>1, <1>2, <1>9, Answered
  <2> QED
    BY <1>7, <1>8, <1>9, <2>1, RestSays, PTL
<1> QED
  BY <1>1, <1>7, <1>9 DEF WindowInv

\* What a load that goes on finds, when nothing overtook the last reload.
LEMMA GoesOnFrom ==
  ASSUME WindowInv, sound, NEW q \in Request, sent[q].kind \in {"more", "all"}
  PROVE  /\ Stretch /\ sent[q].filter = filter /\ sent[q].offset = base + loaded
         /\ Before(sent[q].filter, sent[q].offset, sent[q].cursor) = base + loaded
<1>1. \A p \in Request : sent[p].kind # "reload"
  <2> SUFFICES ASSUME NEW p \in Request, sent[p].kind = "reload" PROVE FALSE
    OBVIOUS
  <2>1. sent[p] # None /\ sent[q] # None
    BY DEF None
  <2> QED
    BY <2>1 DEF WindowInv
<1>2. Stretch
  BY <1>1 DEF WindowInv
<1>3. /\ sent[q].filter = filter /\ sent[q].offset = base + loaded
      /\ sent[q].cursor = cursor
  BY DEF WindowInv
<1> QED
  BY <1>2, <1>3, GoesOn DEF WindowInv

\* A query's answer is rows, whatever it goes on from.
LEMMA AnyFetch ==
  ASSUME NEW f \in Filter, NEW o \in Nat, NEW c \in Nat
  PROVE  After(f, o, c) \in Seq(Nat \ {0}) /\ FetchRows(f, o, c) \in Seq(Nat \ {0})
<1>1. IsFiniteSet(DOMAIN Rows[f])
  <2>1. Rows[f] \in Seq(Nat \ {0}) /\ DOMAIN Rows[f] = 1 .. Len(Rows[f])
    BY RowsType
  <2> QED
    BY <2>1, FS_Interval
<1>2. Before(f, o, c) \in Nat
  BY <1>1, FS_Subset, FS_CardinalityType DEF Before
<1> QED
  BY <1>2, Fetched

LEMMA LoadedMoreStep ==
  ASSUME WindowInv, NEW q \in Request, LoadedMore(q), UNCHANGED paging
  PROVE  WindowInv'
<1> DEFINE page == FetchRows(sent[q].filter, sent[q].offset, sent[q].cursor)
<1>1. /\ grid' = grid \o page /\ loaded' = loaded + Len(page)
      /\ cursor' = CursorOf(page) /\ nextOn' = (Len(page) = PageSize)
      /\ offset' = sent[q].offset /\ more' = FALSE
      /\ Clear(q) /\ UNCHANGED <<filter, base, all, prevOn, sound>>
      /\ sent[q].kind = "more"
  BY DEF LoadedMore
<1>2. sent[q] \in Loads /\ sent[q] # None
  BY <1>1 DEF WindowInv, TypeOK, None
<1>3. page \in Seq(Nat \ {0}) /\ sent[q].offset \in Nat
  BY <1>2, AnyFetch DEF Loads
<1>4. ASSUME sound
      PROVE  /\ Stretch /\ sent[q].offset = base + loaded
             /\ \A i \in 1 .. Len(page) : /\ base + loaded + i \in DOMAIN Rows[filter]
                                         /\ page[i] = Rows[filter][base + loaded + i]
  <2>1. /\ Stretch /\ sent[q].filter = filter /\ sent[q].offset = base + loaded
        /\ Before(sent[q].filter, sent[q].offset, sent[q].cursor) = base + loaded
    BY <1>1, <1>4, GoesOnFrom
  <2>2. base + loaded \in Nat /\ filter \in Filter
    BY DEF WindowInv, TypeOK
  <2> QED
    BY <2>1, <2>2, Fetched
<1> HIDE DEF page
<1>5. TypeOK'
  <2>1. sent' \in [Request -> Loads \cup {None}]
    BY <1>1, ClearedType DEF WindowInv
  <2>2. CursorOf(page) \in Nat /\ Len(page) \in Nat
    BY <1>3, CursorShape
  <2>3. grid' \in Seq(Nat \ {0}) /\ loaded' \in Nat
    BY <1>1, <1>3, <2>2 DEF WindowInv, TypeOK
  <2> QED
    BY <1>1, <1>3, <2>1, <2>2, <2>3 DEF WindowInv, TypeOK
<1>6. CASE sound
  <2>1. AtRest'
    BY <1>1, <1>2, <1>6, Answered
  <2>2. nextOn' => offset' + PageSize = base + loaded + Len(page)
    BY <1>1, <1>4, <1>6
  <2>3. Stretch'
    BY <1>1, <1>3, <1>4, <1>6, <2>2, Longer DEF WindowInv
  <2> QED
    BY <1>5, <2>1, <2>3, RestSays, PTL
<1> QED
  BY <1>1, <1>5, <1>6 DEF WindowInv

LEMMA LoadedAllStep ==
  ASSUME WindowInv, NEW q \in Request, LoadedAll(q), UNCHANGED paging
  PROVE  WindowInv'
<1> DEFINE rest == After(sent[q].filter, sent[q].offset, sent[q].cursor)
<1>1. /\ \/ UNCHANGED <<grid, loaded, cursor, nextOn>>
         \/ /\ grid' = grid \o rest /\ loaded' = loaded + Len(rest)
            /\ cursor' = LastCursor(rest) /\ nextOn' = FALSE
      /\ all' = FALSE /\ Clear(q)
      /\ UNCHANGED <<filter, offset, base, more, prevOn, sound>>
      /\ sent[q].kind = "all"
  BY DEF LoadedAll
<1>2. sent[q] \in Loads /\ sent[q] # None
  BY <1>1 DEF WindowInv, TypeOK, None
<1>3. rest \in Seq(Nat \ {0})
  BY <1>2, AnyFetch DEF Loads
<1>4. ASSUME sound
      PROVE  /\ Stretch
             /\ \A i \in 1 .. Len(rest) : /\ base + loaded + i \in DOMAIN Rows[filter]
                                         /\ rest[i] = Rows[filter][base + loaded + i]
  <2>1. /\ Stretch /\ sent[q].filter = filter /\ sent[q].offset = base + loaded
        /\ Before(sent[q].filter, sent[q].offset, sent[q].cursor) = base + loaded
    BY <1>1, <1>4, GoesOnFrom
  <2>2. base + loaded \in Nat /\ filter \in Filter
    BY DEF WindowInv, TypeOK
  <2> QED
    BY <2>1, <2>2, Fetched
<1> HIDE DEF rest
<1>5. TypeOK'
  <2>1. sent' \in [Request -> Loads \cup {None}]
    BY <1>1, ClearedType DEF WindowInv
  <2>2. LastCursor(rest) \in Nat /\ Len(rest) \in Nat
    BY <1>3, CursorShape
  <2>3. grid' \in Seq(Nat \ {0}) /\ loaded' \in Nat
    <3>1. grid \o rest \in Seq(Nat \ {0}) /\ loaded + Len(rest) \in Nat
      BY <1>3, <2>2 DEF WindowInv, TypeOK
    <3> QED
      BY <1>1, <3>1 DEF WindowInv, TypeOK
  <2>4. cursor' \in Nat /\ nextOn' \in BOOLEAN
    BY <1>1, <2>2 DEF WindowInv, TypeOK
  <2> QED
    BY <1>1, <2>1, <2>3, <2>4 DEF WindowInv, TypeOK
<1>6. CASE sound
  <2>1. AtRest'
    BY <1>1, <1>2, <1>6, Answered
  <2>2. CASE UNCHANGED <<grid, loaded, cursor, nextOn>>
    <3>1. Stretch'
      BY <1>1, <1>4, <1>6, <2>2 DEF Stretch
    <3> QED
      BY <1>5, <2>1, <3>1, RestSays, PTL
  <2>3. CASE /\ grid' = grid \o rest /\ loaded' = loaded + Len(rest)
             /\ cursor' = LastCursor(rest) /\ nextOn' = FALSE
    <3>1. LastCursor(rest) \in {0, CursorOf(rest)}
      BY <1>3, CursorShape
    <3>2. Stretch'
      BY <1>1, <1>3, <1>4, <1>6, <2>3, <3>1, Longer DEF WindowInv
    <3> QED
      BY <1>5, <2>1, <3>2, RestSays, PTL
  <2> QED
    BY <1>1, <2>2, <2>3
<1> QED
  BY <1>1, <1>5, <1>6 DEF WindowInv

LEMMA FailedStep ==
  ASSUME WindowInv, NEW q \in Request, LoadFailed(q), UNCHANGED paging
  PROVE  WindowInv'
<1>1. /\ UNCHANGED <<filter, offset, base, loaded, cursor, nextOn, prevOn, grid>>
      /\ Clear(q) /\ sent[q] # None /\ more' \in BOOLEAN /\ all' \in BOOLEAN
      /\ sound' = (sound /\ sent[q].kind # "reload")
  BY DEF LoadFailed, WindowInv, TypeOK
<1>2. TypeOK'
  <2>1. sent' \in [Request -> Loads \cup {None}]
    BY <1>1, ClearedType DEF WindowInv
  <2> QED
    BY <1>1, <2>1 DEF WindowInv, TypeOK
<1>3. CASE sound'
  <2>1. AtRest'
    BY <1>1, <1>3, Answered
  <2>2. sent[q].kind \in {"more", "all"}
    BY <1>1, <1>3 DEF WindowInv, TypeOK, Loads
  <2>3. Stretch
    BY <1>1, <1>3, <2>2, GoesOnFrom
  <2>4. Stretch'
    BY <1>1, <2>3 DEF Stretch
  <2> QED
    BY <1>2, <2>1, <2>4, RestSays, PTL
<1> QED
  BY <1>2, <1>3 DEF WindowInv

LEMMA WindowStep ==
  ASSUME WindowInv, [Next]_vars
  PROVE  WindowInv'
<1>1. CASE UNCHANGED vars
  <2>1. UNCHANGED <<paging, filter, offset, base, loaded, more, all, cursor, nextOn,
                    prevOn, grid, sent, sound>>
    BY <1>1 DEF vars, tab
  <2> QED
    BY <2>1 DEF WindowInv, Stretch, TypeOK
<1>2. ASSUME NEW q \in Request, ApplyFilters(q), UNCHANGED paging PROVE WindowInv'
  BY <1>2, ReloadStep DEF ApplyFilters
<1>3. filter \in Filter /\ offset \in Nat /\ PageSize \in Nat
  BY WindowAssumption DEF WindowInv, TypeOK
<1>4. ASSUME NEW q \in Request, Refresh(q), UNCHANGED paging PROVE WindowInv'
  BY <1>3, <1>4, ReloadStep DEF Refresh
<1>5. ASSUME NEW q \in Request, OnNext(q), UNCHANGED paging PROVE WindowInv'
  <2>1. offset + PageSize \in Nat
    BY <1>3
  <2> QED
    BY <1>3, <1>5, <2>1, ReloadStep DEF OnNext
<1>6. ASSUME NEW q \in Request, OnPrev(q), UNCHANGED paging PROVE WindowInv'
  <2>1. (IF offset < PageSize THEN 0 ELSE offset - PageSize) \in Nat
    BY <1>3
  <2> QED
    BY <1>3, <1>6, <2>1, ReloadStep DEF OnPrev
<1> QED
  BY <1>1, <1>2, <1>4, <1>5, <1>6, LoadStep, ReloadedStep, LoadedMoreStep,
     LoadedAllStep,
     FailedStep DEF Next, Act, Answer

\* The property OneWindow of the run: after a reload that nothing overtook the
\* tab at rest shows one unbroken stretch of the rows its filter selects.
THEOREM ShowsOneWindow == Spec => []OneWindow
<1>1. WindowInv => OneWindow
  <2>1. None.kind = "none"
    BY DEF None
  <2> QED
    BY <2>1 DEF WindowInv, OneWindow, AtRest, Stretch
<1> QED
  BY <1>1, WindowInit, WindowStep, PTL DEF Spec

\* The property NextFollows of the run: Next and the next scroll, by key or by
\* offset, go on exactly after the last row shown.
THEOREM GoesOnAfter == Spec => []NextFollows
<1>1. WindowInv => NextFollows
  <2> SUFFICES ASSUME WindowInv, AtRest, sound, nextOn
               PROVE  /\ offset + PageSize = base + loaded
                      /\ FetchRows(filter, base + loaded, cursor) =
                           FetchRows(filter, offset + PageSize, 0)
    BY DEF NextFollows
  <2>1. None.kind = "none"
    BY DEF None
  <2>2. Stretch
    BY <2>1 DEF WindowInv, AtRest
  <2>3. offset + PageSize = base + loaded
    BY <2>2 DEF Stretch
  <2>4. Before(filter, base + loaded, cursor) = base + loaded
    BY <2>2, GoesOn DEF WindowInv
  <2>5. Before(filter, offset + PageSize, 0) = base + loaded
    BY <2>3 DEF Before
  <2> QED
    BY <2>3, <2>4, <2>5 DEF FetchRows, After
<1> QED
  BY <1>1, WindowInit, WindowStep, PTL DEF Spec

-----------------------------------------------------------------------------
(* Unsaved edits.                                                          *)

\* The functions the steps update; a table's rows are counted.
Shapes ==
  /\ item \in [E!Row -> {"absent", "loaded", "blank"}]
  /\ pending \in [E!Row -> E!Kinds]
  /\ review \in E!Batches
  /\ job \in [Request -> E!Jobs]
  /\ copies \in [E!Row -> Nat]
  /\ asked \in [E!Row -> E!Kinds]
  /\ {closed, stale, hasty} \subseteq BOOLEAN

\* The preview belongs to an open tab, the save that closing asks for to a
\* closed one, and an added row that is to be inserted is a blank one.
Blank ==
  /\ review # E!Nothing => ~ closed
  /\ \A q \in Request : job[q].kind = "closing" => closed
  /\ \A r \in E!Row : pending[r] \in {"empty", "insert"} => item[r] = "blank"

\* A user who waits has one save or reload in flight at most, and opens the
\* preview with none.
Alone ==
  ~ hasty =>
    /\ \A p, q \in Request : job[p].kind # "idle" /\ job[q].kind # "idle" => p = q
    /\ review # E!Nothing => E!AtRest

\* What such a user asked for is pending, and a save carries all of it; once
\* it has landed, and when the edits are to be discarded, nothing is asked.
Carried ==
  ~ hasty /\ ~ closed =>
    /\ \A r \in E!Row : asked[r] # "none" => pending[r] = asked[r]
    /\ review # E!Nothing => review = E!PendingUpdates
    /\ \A q \in Request :
         /\ job[q].kind = "save" => job[q].batch = E!PendingUpdates
         /\ job[q].kind \in {"saved", "reload", "read"} =>
              \A r \in E!Row : asked[r] = "none"

\* The screen is the table until a save lands or a reload is asked for, and
\* what a save is about to insert is not there yet.
Screen ==
  ~ hasty =>
    /\ ~ stale /\ ~ closed
         /\ (\A q \in Request : job[q].kind \notin {"saved", "reload", "read"}) =>
         \A r \in E!Row : (item[r] = "loaded") <=> (copies[r] > 0)
    /\ \A q \in Request :
         /\ job[q].kind = "read" => job[q].seen = {r \in E!Row : copies[r] > 0}
         /\ job[q].kind \in {"save", "closing"} /\ ~ stale =>
              \A r \in E!Row : job[q].batch[r] = "insert" => copies[r] = 0

EditsInv == Shapes /\ Blank /\ Alone /\ Carried /\ Screen

LEMMA EditsInit ==
  ASSUME E!Init
  PROVE  EditsInv
<1>1. Shapes
  BY DEF E!Init, Shapes, E!Kinds, E!Nothing, E!Batches, E!Idle, E!Jobs
<1>2. QED
  BY <1>1 DEF E!Init, EditsInv, Blank, Alone, Carried, Screen, E!AtRest, E!Nothing,
     E!Idle

-----------------------------------------------------------------------------
(* The shapes, step by step.                                               *)

LEMMA Listed ==
  ASSUME Shapes
  PROVE  E!PendingUpdates \in E!Batches
BY DEF Shapes, E!PendingUpdates, E!Batches, E!Kinds

LEMMA JobKinds ==
  ASSUME NEW b \in E!Batches
  PROVE  /\ E!Nothing \in E!Batches /\ E!Idle \in E!Jobs
         /\ [E!Idle EXCEPT !.kind = "save", !.batch = b] \in E!Jobs
         /\ [E!Idle EXCEPT !.kind = "closing", !.batch = b] \in E!Jobs
         /\ \A k \in {"saved", "failed", "reload"} : [E!Idle EXCEPT !.kind = k] \in E!Jobs
         /\ \A s \in SUBSET E!Row : [E!Idle EXCEPT !.kind = "read", !.seen = s] \in E!Jobs
BY DEF E!Nothing, E!Idle, E!Jobs, E!Batches, E!Kinds

LEMMA ShapesStep ==
  ASSUME Shapes, [E!Next]_(E!vars)
  PROVE  Shapes'
<1> USE DEF E!MayAct, E!SetPending, E!grid
<1>0. hasty' \in BOOLEAN
  BY DEF Shapes, E!Next, E!vars
<1>a. E!Nothing \in [E!Row -> E!Kinds]
  BY DEF E!Nothing, E!Kinds
<1>1. ASSUME NEW r \in E!Row, E!CommitEdit(r) \/ E!InsertRow(r) \/ E!DeleteRow(r)
      PROVE  Shapes'
  <2>1. \A k \in {"update", "insert", "none", "delete", "empty"} : k \in E!Kinds
    BY DEF E!Kinds
  <2>2. QED
    BY <1>0, <1>1, <2>1 DEF E!CommitEdit, E!InsertRow, E!DeleteRow, Shapes
<1>2. CASE E!SaveClicked \/ E!CancelReview
  BY <1>0, <1>2, Listed, JobKinds DEF E!SaveClicked, E!CancelReview, Shapes
<1>3. ASSUME NEW q \in Request, E!ExecuteUpdates(q) PROVE Shapes'
  BY <1>0, <1>3, <1>a, JobKinds DEF E!ExecuteUpdates, Shapes
<1>4. ASSUME NEW q \in Request, E!Refresh(q) PROVE Shapes'
  BY <1>0, <1>4, <1>a, Listed, JobKinds DEF E!Refresh, Shapes
<1>5. ASSUME NEW q \in Request, E!CloseSaving(q) PROVE Shapes'
  BY <1>0, <1>5, <1>a, Listed, JobKinds DEF E!CloseSaving, Shapes
<1>6. ASSUME NEW q \in Request, E!Write(q) PROVE Shapes'
  <2>1. copies' \in [E!Row -> Nat]
    <3>1. /\ job[q].batch \in E!Batches
          /\ \A r \in E!Row : job[q].batch[r] = "delete" => copies[r] > 0
      BY <1>6 DEF E!Write, E!Matches, Shapes, E!Jobs
    <3>2. QED
      BY <1>6, <3>1 DEF E!Write, E!Applied, Shapes
  <2>2. asked' \in [E!Row -> E!Kinds]
    BY <1>6 DEF E!Write, Shapes, E!Kinds
  <2>3. QED
    BY <1>0, <1>6, <2>1, <2>2, Listed, JobKinds DEF E!Write, Shapes
<1>7. ASSUME NEW q \in Request, E!WriteFails(q) \/ E!SaveDone(q) \/ E!Read(q)
      PROVE  Shapes'
  <2>1. CASE E!WriteFails(q)
    BY <1>0, <2>1, Listed, JobKinds DEF E!WriteFails, Shapes
  <2>2. CASE E!SaveDone(q)
    BY <1>0, <2>2, Listed, JobKinds DEF E!SaveDone, Shapes
  <2>3. CASE E!Read(q)
    <3>1. {r \in E!Row : copies[r] > 0} \in SUBSET E!Row
      OBVIOUS
    <3>2. QED
      BY <1>0, <2>3, <3>1, Listed, JobKinds DEF E!Read, Shapes
  <2>4. QED
    BY <1>7, <2>1, <2>2, <2>3
<1>8. ASSUME NEW q \in Request, E!Reloaded(q) \/ E!ReloadFails(q) PROVE Shapes'
  BY <1>0, <1>8, <1>a, Listed, JobKinds DEF E!Reloaded, E!ReloadFails, Shapes
<1>9. CASE UNCHANGED E!vars
  BY <1>9 DEF E!vars, Shapes
<1>10. QED
  BY <1>1, <1>2, <1>3, <1>4, <1>5, <1>6, <1>7, <1>8, <1>9
     DEF E!Next, E!User, E!Worker

-----------------------------------------------------------------------------
(* The invariant, step by step.                                            *)

LEMMA BlankStep ==
  ASSUME Shapes, Blank, [E!Next]_(E!vars)
  PROVE  Blank'
<1> USE DEF E!MayAct, E!SetPending, E!grid, Blank
<1>1. ASSUME NEW r \in E!Row, E!CommitEdit(r) \/ E!InsertRow(r) \/ E!DeleteRow(r)
      PROVE  Blank'
  BY <1>1 DEF E!CommitEdit, E!InsertRow, E!DeleteRow, Shapes
<1>2. CASE E!SaveClicked \/ E!CancelReview
  BY <1>2 DEF E!SaveClicked, E!CancelReview
<1>3. ASSUME NEW q \in Request, E!ExecuteUpdates(q) \/ E!Refresh(q) \/ E!CloseSaving(q)
      PROVE  Blank'
  <2>1. \A p \in Request : job'[p].kind = "closing" => job[p].kind = "closing" \/ closed'
    BY <1>3 DEF E!ExecuteUpdates, E!Refresh, E!CloseSaving, Shapes, E!Idle
  <2>2. /\ review' # E!Nothing => ~ closed'
        /\ \A r \in E!Row : pending'[r] \in {"empty", "insert"} => item'[r] = "blank"
    BY <1>3 DEF E!ExecuteUpdates, E!Refresh, E!CloseSaving, E!Nothing, Shapes
  <2>3. closed => closed'
    BY <1>3 DEF E!ExecuteUpdates, E!Refresh, E!CloseSaving
  <2>4. QED
    BY <2>1, <2>2, <2>3
<1>4. ASSUME NEW q \in Request, E!Worker(q) PROVE Blank'
  <2>1. \A p \in Request : job'[p].kind = "closing" => job[p].kind = "closing"
    <3>1. CASE E!Write(q) \/ E!WriteFails(q) \/ E!SaveDone(q)
      BY <3>1 DEF E!Write, E!WriteFails, E!SaveDone, Shapes, E!Idle
    <3>2. CASE E!Reloaded(q) \/ E!ReloadFails(q)
      BY <3>2 DEF E!Reloaded, E!ReloadFails, Shapes, E!Idle
    <3>3. CASE E!Read(q)
      <4>1. job'[q].kind = "read" /\ \A p \in Request \ {q} : job'[p] = job[p]
        BY <3>3 DEF E!Read, Shapes, E!Idle
      <4>2. QED
        BY <4>1
    <3>4. QED
      BY <1>4, <3>1, <3>2, <3>3 DEF E!Worker
  <2>2. /\ review' = review /\ closed' = closed
        /\ \A r \in E!Row : pending'[r] \in {"empty", "insert"} =>
             pending'[r] = pending[r] /\ item'[r] = item[r]
    BY <1>4 DEF E!Worker, E!Write, E!WriteFails, E!SaveDone, E!Read, E!Reloaded,
       E!ReloadFails, E!Nothing
  <2>3. QED
    BY <2>1, <2>2
<1>5. CASE UNCHANGED E!vars
  BY <1>5 DEF E!vars
<1>6. QED
  BY <1>1, <1>2, <1>3, <1>4, <1>5 DEF E!Next, E!User

\* What a user who waits is doing: nothing is in flight when they act.
LEMMA Waiting ==
  ASSUME Shapes, E!Next, ~ hasty'
  PROVE  ~ hasty /\ ((E!User /\ E!AtRest) \/ \E q \in Request : E!Worker(q))
<1>1. CASE E!User /\ hasty' = (hasty \/ ~ E!AtRest)
  BY <1>1
<1>2. CASE \E q \in Request : E!Worker(q) /\ UNCHANGED hasty
  BY <1>2
<1>3. QED
  BY <1>1, <1>2 DEF E!Next

LEMMA AloneStep ==
  ASSUME Shapes, Blank, Alone, [E!Next]_(E!vars)
  PROVE  Alone'
<1> USE DEF E!MayAct, E!grid, Alone, E!AtRest
<1>1. SUFFICES ASSUME E!Next, ~ hasty' PROVE Alone'
  BY DEF E!vars
<1>2. ~ hasty /\ ((E!User /\ E!AtRest) \/ \E q \in Request : E!Worker(q))
  BY <1>1, Waiting
<1>3. ASSUME NEW r \in E!Row, E!AtRest, E!CommitEdit(r) \/ E!InsertRow(r) \/ E!DeleteRow(r)
      PROVE  Alone'
  BY <1>2, <1>3 DEF E!CommitEdit, E!InsertRow, E!DeleteRow
<1>4. CASE E!AtRest /\ (E!SaveClicked \/ E!CancelReview)
  BY <1>2, <1>4 DEF E!SaveClicked, E!CancelReview, E!User
<1>5. ASSUME NEW q \in Request, E!AtRest, E!ExecuteUpdates(q) \/ E!Refresh(q) \/ E!CloseSaving(q)
      PROVE  Alone'
  <2>1. E!AtRest /\ review' = E!Nothing
    BY <1>2, <1>5 DEF E!ExecuteUpdates, E!Refresh, E!CloseSaving, E!User
  <2>2. \A p \in Request \ {q} : job'[p] = job[p]
    BY <1>5 DEF E!ExecuteUpdates, E!Refresh, E!CloseSaving, Shapes
  <2>3. QED
    BY <2>1, <2>2
<1>6. ASSUME NEW q \in Request, E!Worker(q) PROVE Alone'
  <2>1. /\ \A p \in Request \ {q} : job'[p] = job[p]
        /\ job[q].kind # "idle" /\ review' = review
    BY <1>6 DEF E!Worker, E!Write, E!WriteFails, E!SaveDone, E!Read, E!Reloaded,
       E!ReloadFails, Shapes
  <2>2. QED
    BY <1>2, <2>1
<1>7. QED
  BY <1>2, <1>3, <1>4, <1>5, <1>6 DEF E!User

LEMMA CarriedStep ==
  ASSUME Shapes, Blank, Alone, Carried, [E!Next]_(E!vars)
  PROVE  Carried'
<1> USE DEF E!MayAct, E!SetPending, E!grid, Carried
<1>1. SUFFICES ASSUME E!Next, ~ hasty', ~ closed' PROVE Carried'
  BY DEF E!vars, E!PendingUpdates
<1>2. ~ hasty /\ ~ closed /\ ((E!User /\ E!AtRest) \/ \E q \in Request : E!Worker(q))
  <2>1. ~ closed
    BY <1>1 DEF E!Next, E!User, E!Worker, E!CommitEdit, E!InsertRow, E!DeleteRow,
       E!SaveClicked,
                E!CancelReview, E!ExecuteUpdates, E!Refresh, E!CloseSaving, E!Write, E!WriteFails,
                E!SaveDone, E!Read, E!Reloaded, E!ReloadFails, Shapes
  <2>2. QED
    BY <1>1, <2>1, Waiting
<1>3. ASSUME NEW r \in E!Row, E!AtRest, E!CommitEdit(r) \/ E!InsertRow(r) \/ E!DeleteRow(r)
      PROVE  Carried'
  <2>1. E!AtRest
    BY <1>3
  <2>2. /\ review = E!Nothing /\ review' = E!Nothing /\ job' = job
        /\ pending'[r] = asked'[r]
        /\ \A s \in E!Row \ {r} : pending'[s] = pending[s] /\ asked'[s] = asked[s]
    BY <1>3 DEF E!CommitEdit, E!InsertRow, E!DeleteRow, Shapes
  <2>3. QED
    BY <1>2, <2>1, <2>2 DEF E!AtRest
<1>4. CASE E!AtRest /\ (E!SaveClicked \/ E!CancelReview)
  BY <1>2, <1>4 DEF E!SaveClicked, E!CancelReview, E!PendingUpdates
<1>5. ASSUME NEW q \in Request, E!AtRest, E!ExecuteUpdates(q) PROVE Carried'
  <2>1. /\ job'[q].kind = "save" /\ job'[q].batch = review
        /\ \A p \in Request \ {q} : job'[p] = job[p]
    BY <1>5 DEF E!ExecuteUpdates, Shapes, E!Jobs, E!Idle
  <2>2. E!PendingUpdates' = E!PendingUpdates
    BY <1>5 DEF E!ExecuteUpdates, E!PendingUpdates
  <2>3. E!AtRest
    BY <1>5
  <2>4. QED
    BY <1>2, <1>5, <2>1, <2>2, <2>3 DEF E!ExecuteUpdates, E!AtRest
<1>6. ASSUME NEW q \in Request, E!AtRest, E!Refresh(q) PROVE Carried'
  <2>1. E!AtRest
    BY <1>6
  <2>2. job'[q].kind = "reload" /\ \A p \in Request \ {q} : job'[p] = job[p]
    BY <1>6 DEF E!Refresh, Shapes, E!Idle
  <2>3. QED
    BY <1>6, <2>1, <2>2 DEF E!Refresh, E!Nothing, E!AtRest
<1>7. ASSUME NEW q \in Request, E!CloseSaving(q) PROVE FALSE
  BY <1>1, <1>7 DEF E!CloseSaving
<1>8. ASSUME NEW q \in Request, E!Worker(q) PROVE Carried'
  <2>1. job[q].kind # "idle" /\ \A p \in Request \ {q} : job[p].kind = "idle" /\ job'[p] = job[p]
    <3>1. job[q].kind # "idle"
      BY <1>8 DEF E!Worker, E!Write, E!WriteFails, E!SaveDone, E!Read, E!Reloaded, E!ReloadFails
    <3>2. \A p \in Request \ {q} : job'[p] = job[p]
      BY <1>2, <1>8 DEF E!Worker, E!Write, E!WriteFails, E!SaveDone, E!Read, E!Reloaded,
                        E!ReloadFails, Shapes
    <3>3. \A p \in Request \ {q} : job[p].kind = "idle"
      BY <1>2, <3>1 DEF Alone
    <3> QED
      BY <3>1, <3>2, <3>3
  <2>2. review = E!Nothing /\ review' = E!Nothing
    BY <1>2, <1>8, <2>1 DEF Alone, E!AtRest, E!Worker, E!Write, E!WriteFails,
       E!SaveDone, E!Read,
                            E!Reloaded, E!ReloadFails
  <2>3. CASE E!Write(q)
    <3>1. CASE job[q].kind = "save"
      <4>1. \A r \in E!Row : job[q].batch[r] = pending[r]
        <5>1. job[q].batch = E!PendingUpdates
          BY <1>2, <3>1
        <5>2. \A r \in E!Row : job[q].batch[r] # "astray"
          BY <2>3 DEF E!Write, E!Matches
        <5>3. QED
          BY <5>1, <5>2 DEF E!PendingUpdates
      <4>2. \A r \in E!Row : asked'[r] = "none"
        BY <1>2, <2>3, <4>1 DEF E!Write, Shapes
      <4>3. job'[q].kind \in {"saved", "idle"}
        BY <2>3 DEF E!Write, Shapes, E!Idle
      <4>4. QED
        BY <2>1, <2>2, <2>3, <4>2, <4>3 DEF E!Write
    <3>2. CASE job[q].kind = "closing"
      <4>1. job'[q].kind = "idle"
        BY <2>3, <3>2 DEF E!Write, Shapes, E!Idle
      <4>2. \A r \in E!Row : asked'[r] # "none" => asked'[r] = asked[r]
        BY <2>3 DEF E!Write, Shapes
      <4>3. QED
        BY <1>2, <2>1, <2>2, <2>3, <4>1, <4>2 DEF E!Write
    <3>3. QED
      BY <2>3, <3>1, <3>2 DEF E!Write
  <2>4. CASE E!WriteFails(q)
    <3>1. job'[q].kind \in {"failed", "idle"}
      BY <2>4 DEF E!WriteFails, Shapes, E!Idle
    <3>2. QED
      BY <1>2, <2>1, <2>2, <2>4, <3>1 DEF E!WriteFails
  <2>5. CASE E!SaveDone(q)
    <3>1. /\ job'[q].kind \in {"reload", "idle"}
          /\ job'[q].kind = "reload" => job[q].kind = "saved"
      BY <2>5 DEF E!SaveDone, Shapes, E!Idle
    <3>2. QED
      BY <1>2, <2>1, <2>2, <2>5, <3>1 DEF E!SaveDone
  <2>6. CASE E!Read(q)
    <3>1. job[q].kind = "reload" /\ job'[q].kind = "read"
      BY <2>6 DEF E!Read, Shapes, E!Idle
    <3>2. QED
      BY <1>2, <2>1, <2>2, <2>6, <3>1 DEF E!Read
  <2>7. CASE E!Reloaded(q) \/ E!ReloadFails(q)
    <3>1. /\ job[q].kind \in {"read", "reload"} /\ job'[q].kind = "idle"
          /\ asked' = asked
      BY <2>7 DEF E!Reloaded, E!ReloadFails, Shapes, E!Idle
    <3>2. QED
      BY <1>2, <2>1, <2>2, <3>1
  <2>8. QED
    BY <1>8, <2>3, <2>4, <2>5, <2>6, <2>7 DEF E!Worker
<1>9. QED
  BY <1>2, <1>3, <1>4, <1>5, <1>6, <1>7, <1>8 DEF E!User

LEMMA ScreenStep ==
  ASSUME Shapes, Blank, Alone, Carried, Screen, [E!Next]_(E!vars)
  PROVE  Screen'
<1> USE DEF E!MayAct, E!SetPending, E!grid, Screen
<1>1. SUFFICES ASSUME E!Next, ~ hasty' PROVE Screen'
  BY DEF E!vars
<1>2. ~ hasty /\ ((E!User /\ E!AtRest) \/ \E q \in Request : E!Worker(q))
  BY <1>1, Waiting
<1>3. ASSUME NEW r \in E!Row, E!AtRest, E!CommitEdit(r) \/ E!InsertRow(r) \/ E!DeleteRow(r)
      PROVE  Screen'
  <2>1. /\ job' = job /\ copies' = copies /\ stale' = stale /\ closed' = closed
        /\ \A s \in E!Row : item'[s] = "loaded" <=> item[s] = "loaded"
    BY <1>3 DEF E!CommitEdit, E!InsertRow, E!DeleteRow, Shapes
  <2>2. QED
    BY <1>2, <1>3, <2>1 DEF E!AtRest
<1>4. CASE E!AtRest /\ (E!SaveClicked \/ E!CancelReview)
  BY <1>2, <1>4 DEF E!SaveClicked, E!CancelReview
<1>5. ASSUME NEW q \in Request, E!AtRest, E!ExecuteUpdates(q) \/ E!Refresh(q) \/ E!CloseSaving(q)
      PROVE  Screen'
  <2>1. /\ item' = item /\ copies' = copies /\ stale' = stale /\ ~ closed
        /\ \A p \in Request \ {q} : job'[p] = job[p]
    BY <1>5 DEF E!ExecuteUpdates, E!Refresh, E!CloseSaving, Shapes, Blank
  <2>2. ~ stale => \A r \in E!Row : (item[r] = "loaded") <=> (copies[r] > 0)
    BY <1>2, <1>5, <2>1 DEF E!AtRest
  <2>3. ~ stale => \A r \in E!Row : E!PendingUpdates[r] = "insert" => copies[r] = 0
    BY <2>2 DEF E!PendingUpdates, Blank, Shapes
  <2>4. CASE E!ExecuteUpdates(q)
    <3>1. job'[q].kind = "save" /\ job'[q].batch = E!PendingUpdates
      BY <1>2, <2>1, <2>4 DEF E!ExecuteUpdates, Carried, Shapes, E!Idle
    <3>2. QED
      BY <1>2, <2>1, <2>2, <2>3, <3>1
  <2>5. CASE E!Refresh(q)
    <3>1. job'[q].kind = "reload"
      BY <2>5 DEF E!Refresh, Shapes, E!Idle
    <3>2. QED
      BY <1>2, <2>1, <2>2, <3>1
  <2>6. CASE E!CloseSaving(q)
    <3>1. job'[q].kind = "closing" /\ job'[q].batch = E!PendingUpdates /\ closed'
      BY <2>6 DEF E!CloseSaving, Shapes, E!Idle
    <3>2. QED
      BY <1>2, <2>1, <2>3, <3>1
  <2>7. QED
    BY <1>5, <2>4, <2>5, <2>6
<1>6. ASSUME NEW q \in Request, E!Worker(q) PROVE Screen'
  <2>1. /\ job[q].kind # "idle"
        /\ \A p \in Request \ {q} : job[p].kind = "idle" /\ job'[p] = job[p]
    BY <1>2, <1>6 DEF E!Worker, E!Write, E!WriteFails, E!SaveDone, E!Read, E!Reloaded,
       E!ReloadFails,
                      Shapes, Alone
  <2>2. CASE E!Write(q)
    <3>1. job'[q].kind = "saved" \/ (job'[q].kind = "idle" /\ closed)
      BY <2>2 DEF E!Write, Shapes, E!Idle, Blank
    <3>2. QED
      BY <2>1, <2>2, <3>1 DEF E!Write
  <2>3. CASE E!WriteFails(q) \/ E!SaveDone(q)
    <3>1. /\ job'[q].kind \in {"failed", "idle", "reload"}
          /\ job'[q].kind = "reload" => job[q].kind = "saved"
          /\ job[q].kind \notin {"reload", "read"}
          /\ job[q].kind = "saved" => job'[q].kind = "reload"
      BY <2>3 DEF E!WriteFails, E!SaveDone, Shapes, E!Idle
    <3>2. /\ item' = item /\ copies' = copies /\ stale' = stale /\ closed' = closed
      BY <2>3 DEF E!WriteFails, E!SaveDone
    <3>3. QED
      BY <1>2, <2>1, <3>1, <3>2
  <2>4. CASE E!Read(q)
    <3>1. job'[q].kind = "read" /\ job'[q].seen = {r \in E!Row : copies[r] > 0}
      BY <2>4 DEF E!Read, Shapes, E!Idle
    <3>2. QED
      BY <1>2, <2>1, <2>4, <3>1 DEF E!Read
  <2>5. CASE E!Reloaded(q)
    <3>1. job'[q].kind = "idle"
      BY <2>5 DEF E!Reloaded, Shapes, E!Idle
    <3>2. \A r \in E!Row : (item'[r] = "loaded") <=> (copies[r] > 0)
      BY <1>2, <2>5 DEF E!Reloaded
    <3>3. QED
      BY <2>1, <2>5, <3>1, <3>2 DEF E!Reloaded
  <2>6. CASE E!ReloadFails(q)
    <3>1. job'[q].kind = "idle"
      BY <2>6 DEF E!ReloadFails, Shapes, E!Idle
    <3>2. QED
      BY <2>1, <2>6, <3>1 DEF E!ReloadFails
  <2>7. QED
    BY <1>6, <2>2, <2>3, <2>4, <2>5, <2>6 DEF E!Worker
<1>7. QED
  BY <1>2, <1>3, <1>4, <1>5, <1>6 DEF E!User

LEMMA EditsStep ==
  ASSUME EditsInv, [E!Next]_(E!vars)
  PROVE  EditsInv'
BY ShapesStep, BlankStep, AloneStep, CarriedStep, ScreenStep DEF EditsInv

-----------------------------------------------------------------------------

\* An edit the user made and did not take back is pending until the write
\* that carries it has landed: no failed write, failed reload or cancelled
\* review loses it, for a user who waits for what is running.
THEOREM NoEditLost == E!Spec => []E!KeptWhileOpen
<1>1. EditsInv => E!KeptWhileOpen
  BY DEF EditsInv, Carried, E!KeptWhileOpen, E!Kept
<1>2. QED
  BY <1>1, EditsInit, EditsStep, PTL DEF E!Spec

\* With nothing in flight and nothing pending the rows shown are the rows of
\* the table, the last reload having succeeded.
THEOREM ShownIsStored == E!Spec => []E!ScreenIsTable
<1>1. EditsInv => E!ScreenIsTable
  BY DEF EditsInv, Screen, E!ScreenIsTable, E!AtRest
<1>2. QED
  BY <1>1, EditsInit, EditsStep, PTL DEF E!Spec

\* An added row is inserted once: a save sends an insert only of a row that
\* is not in the table, and only one batch is ever on its way.
THEOREM InsertedOnce == E!Spec => E!AddedOnce
<1>1. ASSUME EditsInv, [E!Next]_(E!vars)
      PROVE  [\A r \in Added : copies'[r] > 1 => copies[r] > 1 \/ stale \/ hasty]_(E!vars)
  <2>1. SUFFICES ASSUME NEW r \in Added, E!Next, copies'[r] > 1, ~ stale, ~ hasty
                 PROVE  copies[r] > 1
    BY <1>1 DEF E!vars
  <2>2. r \in E!Row
    BY DEF E!Row
  <2>3. CASE copies' = copies
    BY <2>1, <2>3
  <2>4. ASSUME NEW q \in Request, E!Write(q) PROVE copies[r] > 1
    <3>1. copies'[r] = E!Applied(job[q].batch)[r] /\ job[q].kind \in {"save", "closing"}
      BY <2>4 DEF E!Write
    <3>2. job[q].batch[r] = "insert" => copies[r] = 0
      BY <1>1, <2>1, <2>2, <3>1 DEF EditsInv, Screen
    <3>3. copies[r] \in Nat
      BY <1>1, <2>2 DEF EditsInv, Shapes
    <3>4. QED
      BY <2>1, <2>2, <3>1, <3>2, <3>3 DEF E!Applied
  <2>5. QED
    BY <2>1, <2>3, <2>4
       DEF E!Next, E!User, E!Worker, E!grid, E!CommitEdit, E!InsertRow, E!DeleteRow, E!SaveClicked,
           E!CancelReview, E!ExecuteUpdates, E!Refresh, E!CloseSaving, E!WriteFails, E!SaveDone,
           E!Read, E!Reloaded, E!ReloadFails
<1>2. QED
  BY <1>1, EditsInit, EditsStep, PTL DEF E!Spec, E!AddedOnce

-----------------------------------------------------------------------------
(* The edits side by side with the other parts, which leave their state    *)
(* alone.                                                                  *)

LEMMA EditsPart == MCSpec => E!Spec
<1>1. MCInit => E!Init
  BY DEF MCInit
<1>2. [MCNext]_allVars => [E!Next]_(E!vars)
  BY DEF MCNext, allVars, editVars, E!grid, E!vars
<1> QED
  BY <1>1, <1>2, PTL DEF MCSpec, E!Spec

\* The property KeptWhileOpen of the run: an edit stays pending until a write
\* that carries it lands.
COROLLARY TableKeepsEdits == MCSpec => []KeptWhileOpen
<1>1. E!KeptWhileOpen => KeptWhileOpen
  BY DEF KeptWhileOpen
<1> QED
  BY <1>1, NoEditLost, EditsPart, PTL

\* The property ScreenIsTable of the run: with nothing in flight or pending the
\* screen shows the table.
COROLLARY TableShowsStored == MCSpec => []ScreenIsTable
<1>1. E!ScreenIsTable => ScreenIsTable
  BY DEF ScreenIsTable
<1> QED
  BY <1>1, ShownIsStored, EditsPart, PTL

\* The property AddedOnce of the run: an added row is inserted once.
COROLLARY TableAddsOnce == MCSpec => AddedOnce
BY InsertedOnce, EditsPart, PTL DEF AddedOnce

-----------------------------------------------------------------------------
(* The query builder.  Sequences. *)

\* Induction over the natural numbers, as a fact about sets.
LEMMA FromZero ==
  ASSUME NEW T \in SUBSET Nat, 0 \in T, \A n \in T : n + 1 \in T
  PROVE  T = Nat
<1> SUFFICES ASSUME Nat \ T # {} PROVE FALSE
  OBVIOUS
<1>1. PICK x \in Nat \ T : \A y \in Nat \ T : ~ (<<y, x>> \in OpToRel(<, Nat))
  BY NatLessThanWellFounded, WFMin, Zenon
<1>2. x # 0 /\ x - 1 \in Nat /\ x - 1 < x
  OBVIOUS
<1>3. <<x - 1, x>> \in OpToRel(<, Nat)
  BY <1>2, Zenon DEF OpToRel
<1>4. x - 1 \in T
  BY <1>1, <1>2, <1>3
<1>5. x \in Nat /\ x \notin T
  OBVIOUS
<1> QED
  <2>1. (x - 1) + 1 \in T
    BY <1>4
  <2>2. (x - 1) + 1 = x
    BY <1>5
  <2> QED
    BY <1>5, <2>1, <2>2

LEMMA SeqIf ==
  ASSUME NEW S, NEW s \in Seq(S)
  PROVE  Q!IsSeq(s) /\ DOMAIN s = 1 .. Len(s) /\ Len(s) \in Nat /\ IsFiniteSet(DOMAIN s)
<1>1. Len(s) \in Nat /\ s \in [1 .. Len(s) -> S] /\ DOMAIN s = 1 .. Len(s)
  BY LenProperties
<1>2. s \in [1 .. Len(s) -> Q!ToSet(s)]
  BY <1>1 DEF Q!ToSet
<1>3. s \in Seq(Q!ToSet(s))
  BY <1>1, <1>2, SeqDef
<1>4. IsFiniteSet(1 .. Len(s))
  BY <1>1, FS_Interval
<1> QED
  BY <1>1, <1>3, <1>4 DEF Q!IsSeq

LEMMA SeqDomain ==
  ASSUME NEW s, Q!IsSeq(s)
  PROVE  DOMAIN s = 1 .. Len(s) /\ Len(s) \in Nat /\ IsFiniteSet(DOMAIN s)
BY SeqIf DEF Q!IsSeq

LEMMA SeqOver ==
  ASSUME NEW n \in Nat, NEW s, s = [i \in 1 .. n |-> s[i]]
  PROVE  Q!IsSeq(s)
<1>1. s \in [1 .. n -> Q!ToSet(s)]
  BY DEF Q!ToSet
<1> QED
  BY <1>1, SeqDef DEF Q!IsSeq

LEMMA SeqJoin ==
  ASSUME NEW s, Q!IsSeq(s), NEW t, Q!IsSeq(t)
  PROVE  /\ Q!IsSeq(s \o t) /\ Len(s \o t) = Len(s) + Len(t)
         /\ \A i \in DOMAIN (s \o t) :
              \/ i \in DOMAIN s /\ (s \o t)[i] = s[i]
              \/ i - Len(s) \in DOMAIN t /\ i > Len(s) /\ (s \o t)[i] = t[i - Len(s)]
         /\ \A i \in DOMAIN s : i \in DOMAIN (s \o t) /\ (s \o t)[i] = s[i]
         /\ \A i \in DOMAIN t : Len(s) + i \in DOMAIN (s \o t) /\ (s \o t)[Len(s) + i] = t[i]
<1> DEFINE S == Q!ToSet(s) \cup Q!ToSet(t)
           u == s \o t
<1>1. s \in [1 .. Len(s) -> S] /\ Len(s) \in Nat /\ DOMAIN s = 1 .. Len(s)
  BY LenProperties DEF Q!IsSeq
<1>2. t \in [1 .. Len(t) -> S] /\ Len(t) \in Nat /\ DOMAIN t = 1 .. Len(t)
  BY LenProperties DEF Q!IsSeq
<1>3. s \in Seq(S) /\ t \in Seq(S)
  BY <1>1, <1>2, SeqDef
<1> HIDE DEF S
<1>4. /\ u \in Seq(S) /\ Len(u) = Len(s) + Len(t)
      /\ \A i \in 1 .. Len(s) + Len(t) : u[i] = IF i <= Len(s) THEN s[i] ELSE t[i - Len(s)]
  BY <1>3, ConcatProperties
<1>5. Q!IsSeq(u) /\ DOMAIN u = 1 .. Len(s) + Len(t)
  BY <1>4, SeqIf
<1> HIDE DEF u
<1>6. ASSUME NEW i \in DOMAIN u
      PROVE  \/ i \in DOMAIN s /\ u[i] = s[i]
             \/ i - Len(s) \in DOMAIN t /\ i > Len(s) /\ u[i] = t[i - Len(s)]
  BY <1>1, <1>2, <1>4, <1>5
<1>7. ASSUME NEW i \in DOMAIN s PROVE i \in DOMAIN u /\ u[i] = s[i]
  BY <1>1, <1>2, <1>4, <1>5
<1>8. ASSUME NEW i \in DOMAIN t PROVE Len(s) + i \in DOMAIN u /\ u[Len(s) + i] = t[i]
  <2>1. Len(s) + i \in 1 .. Len(s) + Len(t) /\ ~ (Len(s) + i <= Len(s)) /\ Len(s) + i - Len(s) = i
    BY <1>1, <1>2
  <2> QED
    BY <1>4, <1>5, <2>1
<1> QED
  BY <1>5, <1>6, <1>7, <1>8 DEF u

LEMMA JoinHolds ==
  ASSUME NEW s, Q!IsSeq(s), NEW t, Q!IsSeq(t)
  PROVE  Q!ToSet(s \o t) = Q!ToSet(s) \cup Q!ToSet(t)
<1> DEFINE u == s \o t
<1>a. \A i \in DOMAIN u :
           \/ i \in DOMAIN s /\ u[i] = s[i]
           \/ i - Len(s) \in DOMAIN t /\ u[i] = t[i - Len(s)]
  BY SeqJoin
<1>b. \A i \in DOMAIN s : i \in DOMAIN u /\ u[i] = s[i]
  BY SeqJoin
<1>1. \A i \in DOMAIN t : Len(s) + i \in DOMAIN u /\ u[Len(s) + i] = t[i]
  BY SeqJoin
<1> HIDE DEF u
<1>2. Q!ToSet(u) = Q!ToSet(s) \cup Q!ToSet(t)
  BY <1>a, <1>b, <1>1 DEF Q!ToSet
<1> QED
  BY <1>2 DEF u

Together(ss, n) == UNION {Q!ToSet(ss[i]) : i \in 1 .. n}

\* FlattenSeq joins lists into a list of what they hold.
LEMMA Flattened ==
  ASSUME NEW S, NEW n \in Nat, NEW ss \in [1 .. n -> Seq(S)]
  PROVE  Q!FlattenSeq(ss) \in Seq(S) /\ Q!ToSet(Q!FlattenSeq(ss)) = Together(ss, n)
<1> SUFFICES /\ Q!FlattenSeq(ss) \in Seq(S)
             /\ Q!ToSet(Q!FlattenSeq(ss)) = UNION {Q!ToSet(ss[i]) : i \in 1 .. n}
  BY DEF Together
<1>1. ss \in Seq(Seq(S)) /\ Len(ss) = n
  BY SeqDef, LenProperties
<1>2. CASE n = 0
  <2>1. ss = <<>>
    BY <1>1, <1>2, EmptySeq
  <2>2. Q!FlattenSeq(ss) = <<>>
    BY <1>1, <1>2, <2>1 DEF Q!FlattenSeq
  <2>3. Q!ToSet(<<>>) = {} /\ <<>> \in Seq(S)
    BY EmptySeq DEF Q!ToSet
  <2>4. UNION {Q!ToSet(ss[i]) : i \in 1 .. n} = {}
    BY <1>2
  <2> QED
    BY <2>2, <2>3, <2>4
<1>3. CASE n # 0
  <2> DEFINE Flat(f, m) == f = [i \in 1 .. m |-> IF i = 1 THEN ss[i] ELSE f[i - 1] \o ss[i]]
             T == {m \in Nat : \E f : Flat(f, m)}
             flat == CHOOSE f : Flat(f, n)
  <2>1. 0 \in T
    <3>1. Flat([i \in 1 .. 0 |-> {}], 0)
      OBVIOUS
    <3> QED
      BY <3>1
  <2>2. ASSUME NEW m \in T PROVE m + 1 \in T
    <3>1. PICK f : Flat(f, m)
      OBVIOUS
    <3> DEFINE g == [i \in 1 .. m + 1 |->
                       IF i = 1 THEN ss[i] ELSE IF i = m + 1 THEN f[m] \o ss[i] ELSE f[i]]
    <3>2. ASSUME NEW i \in 1 .. m + 1
          PROVE  g[i] = IF i = 1 THEN ss[i] ELSE g[i - 1] \o ss[i]
      <4>1. CASE i = 1
        BY <4>1
      <4>2. CASE i # 1
        <5>1. m \in Nat /\ i - 1 \in 1 .. m + 1 /\ i - 1 \in 1 .. m /\ i - 1 # m + 1
          BY <4>2
        <5>2. f[i - 1] = IF i - 1 = 1 THEN ss[i - 1] ELSE f[i - 1 - 1] \o ss[i - 1]
          BY <3>1, <5>1
        <5>3. g[i - 1] = f[i - 1]
          BY <5>1, <5>2
        <5>4. CASE i = m + 1
          <6>1. i - 1 = m
            BY <5>1, <5>4
          <6>2. g[i] = f[m] \o ss[i]
            BY <4>2, <5>4
          <6> QED
            BY <4>2, <5>3, <6>1, <6>2
        <5>5. CASE i # m + 1
          <6>1. i \in 1 .. m /\ g[i] = f[i]
            BY <4>2, <5>1, <5>5
          <6>2. f[i] = f[i - 1] \o ss[i]
            BY <3>1, <4>2, <6>1
          <6> QED
            BY <4>2, <5>3, <6>1, <6>2
        <5> QED
          BY <5>4, <5>5
      <4> QED
        BY <4>1, <4>2
    <3>3. g = [i \in 1 .. m + 1 |-> g[i]]
      OBVIOUS
    <3> HIDE DEF g
    <3>4. Flat(g, m + 1)
      BY <3>2, <3>3
    <3>5. m + 1 \in Nat
      OBVIOUS
    <3> HIDE DEF Flat
    <3> QED
      BY <3>4, <3>5
  <2>3. n \in T
    <3> HIDE DEF T
    <3>1. T \in SUBSET Nat
      BY DEF T
    <3> QED
      BY <2>1, <2>2, <3>1, FromZero
  <2>4. Flat(flat, n)
    BY <2>3
  <2> HIDE DEF flat
  <2> DEFINE U(m) == UNION {Q!ToSet(ss[i]) : i \in 1 .. m}
             K == {m \in Nat : m + 1 \in 1 .. n =>
                      flat[m + 1] \in Seq(S) /\ Q!ToSet(flat[m + 1]) = U(m + 1)}
  <2>5. 0 \in K
    <3>1. U(1) = Q!ToSet(ss[1])
      <4>1. \A i \in 1 .. 1 : i = 1
        OBVIOUS
      <4> QED
        BY <4>1
    <3> HIDE DEF U
    <3> QED
      BY <2>4, <3>1
  <2>6. ASSUME NEW m \in K PROVE m + 1 \in K
    <3> SUFFICES ASSUME m + 2 \in 1 .. n
                 PROVE  flat[m + 2] \in Seq(S) /\ Q!ToSet(flat[m + 2]) = U(m + 2)
      <4> HIDE DEF U
      <4> QED
        OBVIOUS
    <3>1. m + 1 \in 1 .. n /\ m + 2 # 1 /\ (m + 2) - 1 = m + 1
      OBVIOUS
    <3>2. flat[m + 2] = flat[m + 1] \o ss[m + 2]
      BY <2>4, <3>1
    <3>3. flat[m + 1] \in Seq(S) /\ Q!ToSet(flat[m + 1]) = U(m + 1)
      <4> HIDE DEF U
      <4> QED
        BY <3>1
    <3>4. ss[m + 2] \in Seq(S)
      BY <3>1
    <3>5. Q!IsSeq(flat[m + 1]) /\ Q!IsSeq(ss[m + 2])
      BY <3>3, <3>4, SeqIf
    <3>6. Q!ToSet(flat[m + 2]) = Q!ToSet(flat[m + 1]) \cup Q!ToSet(ss[m + 2])
      BY <3>2, <3>5, JoinHolds
    <3>7. U(m + 2) = U(m + 1) \cup Q!ToSet(ss[m + 2])
      <4>1. \A i : i \in 1 .. m + 2 <=> i \in 1 .. m + 1 \/ i = m + 2
        OBVIOUS
      <4> QED
        BY <4>1
    <3> HIDE DEF U
    <3> QED
      BY <3>2, <3>3, <3>4, <3>6, <3>7, ConcatProperties
  <2>7. n - 1 \in K
    <3> HIDE DEF K
    <3>1. K \in SUBSET Nat /\ n - 1 \in Nat
      BY <1>3 DEF K
    <3> QED
      BY <2>5, <2>6, <3>1, FromZero
  <2>8. flat[n] \in Seq(S) /\ Q!ToSet(flat[n]) = U(n)
    <3>1. n - 1 + 1 = n /\ n \in 1 .. n
      BY <1>3
    <3> HIDE DEF U
    <3> QED
      BY <2>7, <3>1
  <2>9. Q!FlattenSeq(ss) = flat[n]
    BY <1>1, <1>3 DEF Q!FlattenSeq, flat
  <2> QED
    BY <2>8, <2>9
<1> QED
  BY <1>2, <1>3

LEMMA FlatHolds ==
  ASSUME NEW n \in Nat, NEW ss, ss = [i \in 1 .. n |-> ss[i]], \A i \in 1 .. n : Q!IsSeq(ss[i])
  PROVE  /\ Q!IsSeq(Q!FlattenSeq(ss))
         /\ Q!ToSet(Q!FlattenSeq(ss)) = UNION {Q!ToSet(ss[i]) : i \in 1 .. n}
<1> DEFINE S == UNION {Q!ToSet(ss[i]) : i \in 1 .. n}
<1>1. ASSUME NEW i \in 1 .. n PROVE ss[i] \in Seq(S)
  <2>1. ss[i] \in [1 .. Len(ss[i]) -> Q!ToSet(ss[i])] /\ Len(ss[i]) \in Nat
    BY LenProperties DEF Q!IsSeq
  <2>2. Q!ToSet(ss[i]) \subseteq S
    OBVIOUS
  <2> HIDE DEF S
  <2>3. ss[i] \in [1 .. Len(ss[i]) -> S]
    BY <2>1, <2>2
  <2> QED
    BY <2>1, <2>3, SeqDef
<1> HIDE DEF S
<1>2. ss \in [1 .. n -> Seq(S)]
  BY <1>1
<1>3. Q!FlattenSeq(ss) \in Seq(S) /\ Q!ToSet(Q!FlattenSeq(ss)) = Together(ss, n)
  BY <1>2, Flattened
<1> QED
  BY <1>3, SeqIf DEF Together

LEMMA SameCounted == ASSUME NEW S PROVE Q!Cardinality(S) = Cardinality(S)
BY Zenon DEF Q!Cardinality, Cardinality

\* A plan has a statement for every difference, and none for anything else.
LEMMA RankInto ==
  ASSUME NEW n \in Nat, NEW S \in SUBSET (1 .. n), NEW p \in S
  PROVE  /\ Q!Rank(S, p) \in 1 .. Cardinality(S)
         /\ \A q \in S : Q!Rank(S, q) = Q!Rank(S, p) => q = p
<1> DEFINE upto(i) == {k \in S : k <= i}
           C(i) == Cardinality(upto(i))
<1>1. IsFiniteSet(S)
  <2>1. IsFiniteSet(1 .. n)
    BY FS_Interval
  <2> QED
    BY <2>1, FS_Subset
<1>2. ASSUME NEW i PROVE IsFiniteSet(upto(i)) /\ C(i) \in Nat /\ C(i) <= Cardinality(S)
  <2>1. upto(i) \subseteq S
    OBVIOUS
  <2> HIDE DEF upto
  <2>2. IsFiniteSet(upto(i)) /\ C(i) <= Cardinality(S)
    BY <1>1, <2>1, FS_Subset
  <2> QED
    BY <2>2, FS_CardinalityType
<1>3. \A i \in S : Q!Rank(S, i) = C(i)
  BY SameCounted DEF Q!Rank
<1>4. ASSUME NEW q \in S, NEW r \in S, q < r PROVE C(q) < C(r)
  <2>1. upto(q) \cup {r} \subseteq upto(r) /\ r \notin upto(q)
    <3>1. q \in Nat /\ r \in Nat
      OBVIOUS
    <3>2. \A k \in S : k <= q => k <= r
      BY <1>4, <3>1
    <3>3. ~ r <= q /\ r <= r
      BY <1>4, <3>1
    <3> QED
      BY <3>2, <3>3, Zenon
  <2> HIDE DEF upto
  <2>2. Cardinality(upto(q) \cup {r}) = C(q) + 1
    BY <1>2, <2>1, FS_AddElement
  <2>3. Cardinality(upto(q) \cup {r}) <= C(r)
    BY <1>2, <2>1, FS_Subset
  <2> QED
    BY <1>2, <2>2, <2>3
<1>5. C(p) # 0
  <2>1. p \in upto(p)
    OBVIOUS
  <2> HIDE DEF upto
  <2> QED
    BY <1>2, <2>1, FS_EmptySet
<1>6. Cardinality(S) \in Nat
  BY <1>1, FS_CardinalityType
<1> HIDE DEF C, upto
<1>7. C(p) \in 1 .. Cardinality(S)
  BY <1>2, <1>5, <1>6
<1>8. ASSUME NEW q \in S, C(q) = C(p) PROVE q = p
  <2>1. q \in Nat /\ p \in Nat /\ C(q) \in Nat /\ C(p) \in Nat
    BY <1>2
  <2>2. ~ q < p /\ ~ p < q
    BY <1>4, <1>8, <2>1
  <2> QED
    BY <2>1, <2>2
<1> QED
  BY <1>3, <1>7, <1>8

AllThere(s, S) == \A p \in S : \E i \in 1 .. Cardinality(S) : Q!Sifted(s, S)[i] = s[p]

LEMMA SiftedAll ==
  ASSUME NEW n \in Nat, NEW S \in SUBSET (1 .. n), NEW s
  PROVE  AllThere(s, S)
<1> SUFFICES ASSUME NEW p \in S PROVE \E i \in 1 .. Cardinality(S) : Q!Sifted(s, S)[i] = s[p]
  BY DEF AllThere
<1> DEFINE i == Q!Rank(S, p)
<1>1. i \in 1 .. Cardinality(S) /\ \A q \in S : Q!Rank(S, q) = i => q = p
  BY RankInto
<1>2. (CHOOSE q \in S : Q!Rank(S, q) = i) = p
  BY <1>1
<1> HIDE DEF i
<1>3. Q!Sifted(s, S)[i] = s[CHOOSE q \in S : Q!Rank(S, q) = i]
  BY <1>1, SameCounted DEF Q!Sifted
<1> QED
  BY <1>1, <1>2, <1>3

LEMMA RemovedFrom ==
  ASSUME NEW s, Q!IsSeq(s), NEW i \in DOMAIN s, NEW u, u = Q!RemoveAt(s, i)
  PROVE  \A x \in DOMAIN u :
           \/ x \in DOMAIN s /\ x < i /\ u[x] = s[x]
           \/ x + 1 \in DOMAIN s /\ x >= i /\ u[x] = s[x + 1]
<1>1. DOMAIN s = 1 .. Len(s) /\ Len(s) \in Nat
  BY SeqDomain
<1>2. \A y \in 1 .. Len(s) : s[y] \in Q!ToSet(s)
  BY <1>1 DEF Q!ToSet
<1> DEFINE a == SubSeq(s, 1, i - 1)
           b == SubSeq(s, i + 1, Len(s))
<1>3. a \in Seq(Q!ToSet(s)) /\ Len(a) = i - 1 /\ \A y \in 1 .. i - 1 : a[y] = s[y]
  <2>1. 1 \in Int /\ i - 1 \in Int /\ \A y \in 1 .. i - 1 : s[y] \in Q!ToSet(s)
    BY <1>1, <1>2
  <2>2. /\ a \in Seq(Q!ToSet(s))
        /\ Len(a) = IF 1 <= i - 1 THEN (i - 1) - 1 + 1 ELSE 0
        /\ \A y \in 1 .. (i - 1) - 1 + 1 : a[y] = s[1 + y - 1]
    BY <2>1, SubSeqProperties
  <2>3. i \in Nat /\ i >= 1
    BY <1>1
  <2> HIDE DEF a
  <2>4. \A y \in 1 .. i - 1 : y \in 1 .. (i - 1) - 1 + 1 /\ 1 + y - 1 = y
    BY <2>3
  <2> QED
    BY <2>2, <2>3, <2>4
<1>4. b \in Seq(Q!ToSet(s)) /\ Len(b) = Len(s) - i /\ \A y \in 1 .. Len(s) - i : b[y] = s[i + y]
  <2>1. i + 1 \in Int /\ Len(s) \in Int /\ \A y \in i + 1 .. Len(s) : s[y] \in Q!ToSet(s)
    BY <1>1, <1>2
  <2>2. /\ b \in Seq(Q!ToSet(s))
        /\ Len(b) = IF i + 1 <= Len(s) THEN Len(s) - (i + 1) + 1 ELSE 0
        /\ \A y \in 1 .. Len(s) - (i + 1) + 1 : b[y] = s[i + 1 + y - 1]
    BY <2>1, SubSeqProperties
  <2>3. i \in Nat /\ i <= Len(s)
    BY <1>1
  <2> HIDE DEF b
  <2>4. \A y \in 1 .. Len(s) - i : y \in 1 .. Len(s) - (i + 1) + 1 /\ i + 1 + y - 1 = i + y
    BY <1>1, <2>3
  <2> QED
    BY <1>1, <2>2, <2>3, <2>4
<1>5. u = a \o b
  BY DEF Q!RemoveAt
<1> HIDE DEF a, b
<1>6. /\ Q!IsSeq(a) /\ Q!IsSeq(b) /\ DOMAIN a = 1 .. i - 1 /\ DOMAIN b = 1 .. Len(s) - i
      /\ DOMAIN u = 1 .. Len(u) /\ Len(u) \in Nat
  BY <1>3, <1>4, <1>5, SeqIf, SeqJoin
<1>6a. Q!IsSeq(a) /\ Q!IsSeq(b)
  BY <1>6
<1>6b. \A x \in DOMAIN (a \o b) :
         \/ x \in DOMAIN a /\ (a \o b)[x] = a[x]
         \/ x - Len(a) \in DOMAIN b /\ x > Len(a) /\ (a \o b)[x] = b[x - Len(a)]
  BY <1>6a, SeqJoin
<1>7. \A x \in DOMAIN u :
         \/ x \in DOMAIN a /\ u[x] = a[x]
         \/ x - Len(a) \in DOMAIN b /\ x > Len(a) /\ u[x] = b[x - Len(a)]
  BY <1>5, <1>6b
<1> QED
  <2> SUFFICES ASSUME NEW x \in DOMAIN u
               PROVE  \/ x \in DOMAIN s /\ x < i /\ u[x] = s[x]
                      \/ x + 1 \in DOMAIN s /\ x >= i /\ u[x] = s[x + 1]
    OBVIOUS
  <2>0. x \in Nat /\ i \in 1 .. Len(s)
    BY <1>1, <1>6
  <2>1. CASE x \in DOMAIN a /\ u[x] = a[x]
    BY <1>1, <1>3, <1>6, <2>0, <2>1
  <2>2. CASE x - Len(a) \in DOMAIN b /\ x > Len(a) /\ u[x] = b[x - Len(a)]
    <3>1. x - (i - 1) \in 1 .. Len(s) - i /\ i + (x - (i - 1)) = x + 1
      BY <1>3, <1>6, <2>0, <2>2
    <3>2. u[x] = s[x + 1]
      BY <1>3, <1>4, <2>2, <3>1
    <3>3. x + 1 \in DOMAIN s /\ x >= i
      BY <1>1, <2>0, <3>1
    <3> QED
      BY <3>2, <3>3
  <2> QED
    BY <1>7, <2>1, <2>2

LEMMA OneHolds ==
  \A x : Q!IsSeq(<<x>>) /\ Len(<<x>>) = 1 /\ <<x>>[1] = x /\ Q!ToSet(<<x>>) = {x}
<1> TAKE x
<1>1. <<x>> \in Seq({x}) /\ Len(<<x>>) = 1 /\ <<x>>[1] = x
  OBVIOUS
<1>2. Q!IsSeq(<<x>>) /\ DOMAIN <<x>> = 1 .. 1
  BY <1>1, SeqIf
<1>3. \A i \in 1 .. 1 : i = 1
  OBVIOUS
<1> QED
  BY <1>1, <1>2, <1>3 DEF Q!ToSet

LEMMA NoneHolds == Q!IsSeq(<< >>) /\ Q!ToSet(<< >>) = {} /\ Len(<< >>) = 0
BY EmptySeq DEF Q!IsSeq, Q!ToSet

LEMMA AppendHolds ==
  ASSUME NEW s, Q!IsSeq(s), NEW x
  PROVE  /\ Q!IsSeq(Append(s, x)) /\ Len(Append(s, x)) = Len(s) + 1
         /\ DOMAIN Append(s, x) = 1 .. Len(s) + 1
         /\ \A i \in 1 .. Len(s) : Append(s, x)[i] = s[i]
         /\ Append(s, x)[Len(s) + 1] = x
         /\ Q!ToSet(Append(s, x)) = Q!ToSet(s) \cup {x}
<1> DEFINE u == Append(s, x)
           S == Q!ToSet(s) \cup {x}
<1>1. DOMAIN s = 1 .. Len(s) /\ Len(s) \in Nat
  BY SeqDomain
<1>2. s \in Seq(S)
  BY SeqMonotonic DEF Q!IsSeq
<1>3. x \in S
  OBVIOUS
<1> HIDE DEF S
<1>4. /\ u \in Seq(S) /\ Len(u) = Len(s) + 1 /\ u[Len(s) + 1] = x
      /\ \A i \in 1 .. Len(s) : u[i] = s[i]
  BY <1>2, <1>3, AppendProperties
<1>5. Q!IsSeq(u) /\ DOMAIN u = 1 .. Len(s) + 1
  BY <1>4, SeqIf
<1> HIDE DEF u
<1>6. \A i \in DOMAIN u : i \in DOMAIN s \/ i = Len(s) + 1
  BY <1>1, <1>5
<1>7. Len(s) + 1 \in DOMAIN u /\ \A i \in DOMAIN s : i \in DOMAIN u
  BY <1>1, <1>5
<1>8. Q!ToSet(u) = Q!ToSet(s) \cup {x}
  BY <1>1, <1>4, <1>6, <1>7 DEF Q!ToSet
<1> QED
  BY <1>4, <1>5, <1>8 DEF u

LEMMA Containing ==
  ASSUME NEW s, Q!IsSeq(s), NEW x
  PROVE  Q!Contains(s, x) <=> x \in Q!ToSet(s)
BY SeqDomain DEF Q!Contains, Q!ToSet

\* The least of a set of numbers.
LEMMA LeastIs ==
  ASSUME NEW S \in SUBSET Nat, S # {}
  PROVE  Q!Least(S) \in S /\ \A l \in S : Q!Least(S) <= l
<1>1. PICK x \in S : \A y \in S : ~ (<<y, x>> \in OpToRel(<, Nat))
  BY NatLessThanWellFounded, WFMin, Zenon
<1>2. ASSUME NEW y \in S PROVE x <= y
  <2>1. x \in Nat /\ y \in Nat
    OBVIOUS
  <2>2. y < x => <<y, x>> \in OpToRel(<, Nat)
    BY <2>1, Zenon DEF OpToRel
  <2>3. ~ y < x
    BY <1>1, <2>2
  <2> QED
    BY <2>1, <2>3
<1> QED
  BY <1>2 DEF Q!Least

\* The entries at the places S, in their order.
LEMMA SiftedIs ==
  ASSUME NEW s, Q!IsSeq(s), NEW S \in SUBSET DOMAIN s
  PROVE  /\ Q!IsSeq(Q!Sifted(s, S)) /\ IsFiniteSet(S)
         /\ Len(Q!Sifted(s, S)) = Cardinality(S) /\ Cardinality(S) \in Nat
         /\ \A i \in DOMAIN Q!Sifted(s, S) :
              \E p \in S : Q!Rank(S, p) = i /\ Q!Sifted(s, S)[i] = s[p]
         /\ Q!ToSet(Q!Sifted(s, S)) = {s[p] : p \in S}
<1> DEFINE u == Q!Sifted(s, S)
           n == Cardinality(S)
           f == [p \in S |-> Q!Rank(S, p)]
<1>1. DOMAIN s = 1 .. Len(s) /\ Len(s) \in Nat /\ S \in SUBSET (1 .. Len(s))
  BY SeqDomain
<1>2. IsFiniteSet(S) /\ n \in Nat
  <2>1. IsFiniteSet(DOMAIN s)
    BY SeqDomain
  <2> QED
    BY <2>1, FS_Subset, FS_CardinalityType
<1>3. \A p \in S : Q!Rank(S, p) \in 1 .. n /\ \A q \in S : Q!Rank(S, q) = Q!Rank(S, p) => q = p
  BY <1>1, RankInto
<1>4. f \in Injection(S, 1 .. n)
  <2>1. f \in [S -> 1 .. n]
    BY <1>3
  <2>2. \A p, q \in S : f[p] = f[q] => p = q
    BY <1>3
  <2> HIDE DEF f
  <2> QED
    BY <2>1, <2>2 DEF Injection, IsInjective
<1>5. IsFiniteSet(1 .. n) /\ Cardinality(1 .. n) = n
  <2>1. 1 \in Int /\ n \in Int /\ (1 > n => n = 0) /\ n - 1 + 1 = n
    BY <1>2
  <2> HIDE DEF n
  <2> QED
    BY <2>1, FS_Interval
<1>6. \A i \in 1 .. n : \E p \in S : f[p] = i
  <2> HIDE DEF f, n
  <2>1. f \in Surjection(S, 1 .. n)
    BY <1>4, <1>5, FS_Injection DEF n
  <2> QED
    BY <2>1 DEF Surjection
<1>7. u = [i \in 1 .. n |-> s[CHOOSE p \in S : Q!Rank(S, p) = i]]
  BY SameCounted DEF Q!Sifted
<1>8. ASSUME NEW i \in 1 .. n PROVE \E p \in S : Q!Rank(S, p) = i /\ u[i] = s[p]
  <2>1. PICK p \in S : Q!Rank(S, p) = i
    BY <1>6
  <2> DEFINE q == CHOOSE x \in S : Q!Rank(S, x) = i
  <2>2. q \in S /\ Q!Rank(S, q) = i
    BY <2>1
  <2>3. u[i] = s[q]
    BY <1>7
  <2> HIDE DEF q, u
  <2> QED
    BY <2>2, <2>3
<1>9. DOMAIN u = 1 .. n
  BY <1>7
<1>10. Q!IsSeq(u) /\ Len(u) = n
  <2>1. u = [i \in 1 .. n |-> u[i]]
    BY <1>7
  <2> HIDE DEF u, n
  <2>2. Q!IsSeq(u)
    BY <1>2, <2>1, SeqOver
  <2>3. DOMAIN u = 1 .. Len(u) /\ Len(u) \in Nat
    BY <2>2, SeqDomain
  <2> QED
    BY <1>2, <1>9, <2>2, <2>3
<1>11. \A p \in S : \E i \in 1 .. n : u[i] = s[p]
  <2>1. PICK m : m = Len(s)
    OBVIOUS
  <2>2. m \in Nat /\ S \in SUBSET (1 .. m)
    BY <1>1, <2>1
  <2>3. AllThere(s, S)
    BY <2>2, SiftedAll
  <2> QED
    BY <2>3 DEF AllThere
<1> HIDE DEF u, n, f
<1>12. Q!ToSet(u) = {s[p] : p \in S}
  BY <1>8, <1>9, <1>11 DEF Q!ToSet
<1> QED
  BY <1>2, <1>8, <1>9, <1>10, <1>12 DEF u, n

LEMMA OnlyIs ==
  ASSUME NEW s, Q!IsSeq(s), NEW T
  PROVE  Q!IsSeq(Q!Only(s, T)) /\ Q!ToSet(Q!Only(s, T)) = Q!ToSet(s) \cap T
<1> DEFINE S == {i \in DOMAIN s : s[i] \in T}
<1>1. S \in SUBSET DOMAIN s
  OBVIOUS
<1>2. {s[p] : p \in S} = Q!ToSet(s) \cap T
  BY DEF Q!ToSet
<1> HIDE DEF S
<1>3. Q!IsSeq(Q!Sifted(s, S)) /\ Q!ToSet(Q!Sifted(s, S)) = Q!ToSet(s) \cap T
  BY <1>1, <1>2, SiftedIs
<1> QED
  BY <1>3 DEF Q!Only, S

-----------------------------------------------------------------------------
LEMMA RemovedIs ==
  ASSUME NEW s, Q!IsSeq(s), NEW i \in DOMAIN s
  PROVE  Q!IsSeq(Q!RemoveAt(s, i)) /\ Len(Q!RemoveAt(s, i)) = Len(s) - 1
<1>1. DOMAIN s = 1 .. Len(s) /\ Len(s) \in Nat
  BY SeqDomain
<1>2. \A y \in 1 .. Len(s) : s[y] \in Q!ToSet(s)
  BY <1>1 DEF Q!ToSet
<1> DEFINE a == SubSeq(s, 1, i - 1)
           b == SubSeq(s, i + 1, Len(s))
<1>3. a \in Seq(Q!ToSet(s)) /\ Len(a) = i - 1
  <2>1. 1 \in Int /\ i - 1 \in Int /\ \A y \in 1 .. i - 1 : s[y] \in Q!ToSet(s)
    BY <1>1, <1>2
  <2>2. a \in Seq(Q!ToSet(s)) /\ Len(a) = IF 1 <= i - 1 THEN (i - 1) - 1 + 1 ELSE 0
    BY <2>1, SubSeqProperties
  <2> HIDE DEF a
  <2> QED
    BY <1>1, <2>2
<1>4. b \in Seq(Q!ToSet(s)) /\ Len(b) = Len(s) - i
  <2>1. i + 1 \in Int /\ Len(s) \in Int /\ \A y \in i + 1 .. Len(s) : s[y] \in Q!ToSet(s)
    BY <1>1, <1>2
  <2>2. b \in Seq(Q!ToSet(s)) /\ Len(b) = IF i + 1 <= Len(s) THEN Len(s) - (i + 1) + 1 ELSE 0
    BY <2>1, SubSeqProperties
  <2> HIDE DEF b
  <2> QED
    BY <1>1, <2>2
<1>5. Q!RemoveAt(s, i) = a \o b
  BY DEF Q!RemoveAt
<1> HIDE DEF a, b
<1>6. a \o b \in Seq(Q!ToSet(s)) /\ Len(a \o b) = (i - 1) + (Len(s) - i)
  <2>1. a \o b \in Seq(Q!ToSet(s)) /\ Len(a \o b) = Len(a) + Len(b)
    BY <1>3, <1>4, ConcatProperties
  <2> QED
    BY <1>3, <1>4, <2>1
<1>7. Q!IsSeq(a \o b)
  BY <1>6, SeqIf
<1> QED
  BY <1>1, <1>5, <1>6, <1>7

LEMMA HeldFinite ==
  ASSUME NEW s, Q!IsSeq(s)
  PROVE  IsFiniteSet(Q!ToSet(s)) /\ Cardinality(Q!ToSet(s)) \in Nat
<1> DEFINE f == [i \in DOMAIN s |-> s[i]]
<1>1. IsFiniteSet(DOMAIN s)
  BY SeqDomain
<1>2. f \in Surjection(DOMAIN s, Q!ToSet(s))
  BY DEF Surjection, Q!ToSet
<1> QED
  BY <1>1, <1>2, FS_Surjection, FS_CardinalityType

-----------------------------------------------------------------------------
(* Aliases.                                                                *)

\* A word put behind with a number is another one.
LEMMA Numbered ==
  ASSUME NEW word, Q!IsSeq(word), NEW k, NEW l
  PROVE  /\ Q!IsSeq(Append(word, k)) /\ Append(word, k) # word
         /\ Append(word, k) = Append(word, l) => k = l
<1>1. Len(word) \in Nat
  BY SeqDomain
<1>2. /\ Q!IsSeq(Append(word, k)) /\ Len(Append(word, k)) = Len(word) + 1
      /\ Append(word, k)[Len(word) + 1] = k
  BY AppendHolds
<1>3. Append(word, l)[Len(word) + 1] = l
  BY AppendHolds
<1> QED
  BY <1>1, <1>2, <1>3

\* _unique_alias finds a name that is not taken.
LEMMA UniqueIs ==
  ASSUME NEW word, Q!IsSeq(word), NEW taken, IsFiniteSet(taken)
  PROVE  Q!Unique(word, taken) \notin taken /\ Q!IsSeq(Q!Unique(word, taken))
<1>1. CASE word \notin taken
  BY <1>1 DEF Q!Unique
<1>2. CASE word \in taken
  <2> DEFINE n == Cardinality(taken)
             K == 2 .. n + 1
             free == {k \in K : Append(word, k) \notin taken}
             rest == taken \ {word}
             f == [k \in K |-> Append(word, k)]
  <2>1. n \in Nat /\ n # 0
    BY <1>2, FS_CardinalityType, FS_EmptySet
  <2>2. IsFiniteSet(rest) /\ Cardinality(rest) = n - 1
    BY <1>2, FS_RemoveElement
  <2>3. IsFiniteSet(K) /\ Cardinality(K) = n
    <3>1. PICK b : b = n + 1
      OBVIOUS
    <3>2. 2 \in Int /\ b \in Int /\ ~ 2 > b /\ b - 2 + 1 = n /\ K = 2 .. b
      BY <2>1, <3>1
    <3> HIDE DEF n, K
    <3>3. IsFiniteSet(2 .. b) /\ Cardinality(2 .. b) = b - 2 + 1
      BY <3>2, FS_Interval
    <3> QED
      BY <3>2, <3>3
  <2> HIDE DEF n
  <2>4. free # {}
    <3> SUFFICES ASSUME free = {} PROVE FALSE
      OBVIOUS
    <3>1. \A k \in K : Append(word, k) \in taken /\ Append(word, k) # word
      BY Numbered
    <3>2. f \in [K -> rest]
      BY <3>1
    <3> HIDE DEF K, rest
    <3>3. \A k, l \in K : f[k] = f[l] => k = l
      BY Numbered
    <3> HIDE DEF f
    <3>4. Cardinality(rest) < Cardinality(K)
      BY <2>1, <2>2, <2>3
    <3>5. \E k, l \in K : k # l /\ f[k] = f[l]
      BY <2>2, <2>3, <3>2, <3>4, FS_PigeonHole
    <3> QED
      BY <3>3, <3>5
  <2>5. free \in SUBSET Nat
    BY <2>1
  <2>6. Q!Least(free) \in free
    <3> HIDE DEF free
    <3> QED
      BY <2>4, <2>5, LeastIs
  <2>7. Q!Unique(word, taken) = Append(word, Q!Least(free))
    BY <1>2, SameCounted DEF Q!Unique, n
  <2>8. Append(word, Q!Least(free)) \notin taken
    BY <2>6
  <2> HIDE DEF free
  <2> QED
    BY <2>7, <2>8, Numbered
<1> QED
  BY <1>1, <1>2

\* What _instances makes of one more line.
Next1(lines, s, n) == Append(s, Q!Unique(Q!Wanted(lines[n]), Q!ToSet(s)))

\* The names of the first lines.
Called(lines, s, n) ==
  /\ Q!IsSeq(s) /\ Len(s) = n
  /\ \A i \in 1 .. n :
       /\ Q!IsSeq(s[i])
       /\ s[i] = Q!Unique(Q!Wanted(lines[i]), {s[j] : j \in 1 .. i - 1})
       /\ \A j \in 1 .. i - 1 : s[j] # s[i]

LEMMA CalledOn ==
  ASSUME NEW lines, NEW n \in Nat, NEW s, Called(lines, s, n), Q!IsSeq(Q!Wanted(lines[n + 1]))
  PROVE  Called(lines, Next1(lines, s, n + 1), n + 1)
<1> DEFINE w == Q!Unique(Q!Wanted(lines[n + 1]), Q!ToSet(s))
           u == Append(s, w)
<1>1. Q!IsSeq(s) /\ Len(s) = n /\ DOMAIN s = 1 .. n
  BY SeqDomain DEF Called
<1>2. w \notin Q!ToSet(s) /\ Q!IsSeq(w)
  BY <1>1, HeldFinite, UniqueIs
<1>3. /\ Q!IsSeq(u) /\ Len(u) = n + 1 /\ u[n + 1] = w
      /\ \A i \in 1 .. n : u[i] = s[i]
  <2> HIDE DEF w
  <2> QED
    BY <1>1, AppendHolds
<1>4. Q!ToSet(s) = {u[j] : j \in 1 .. n}
  BY <1>1, <1>3 DEF Q!ToSet
<1> HIDE DEF u
<1>5. ASSUME NEW i \in 1 .. n + 1
      PROVE  /\ Q!IsSeq(u[i])
             /\ u[i] = Q!Unique(Q!Wanted(lines[i]), {u[j] : j \in 1 .. i - 1})
             /\ \A j \in 1 .. i - 1 : u[j] # u[i]
  <2>1. CASE i = n + 1
    <3>1. i - 1 = n
      BY <2>1
    <3>2. u[i] = Q!Unique(Q!Wanted(lines[i]), {u[j] : j \in 1 .. i - 1})
      BY <1>3, <1>4, <2>1, <3>1
    <3>3. \A j \in 1 .. i - 1 : u[j] # u[i]
      BY <1>2, <1>3, <1>4, <2>1, <3>1
    <3> HIDE DEF w
    <3> QED
      BY <1>2, <1>3, <2>1, <3>2, <3>3
  <2>2. CASE i # n + 1
    <3>1. i \in 1 .. n /\ \A j \in 1 .. i - 1 : j \in 1 .. n
      BY <2>2
    <3>2. u[i] = s[i] /\ \A j \in 1 .. i - 1 : u[j] = s[j]
      BY <1>3, <3>1
    <3>3. {u[j] : j \in 1 .. i - 1} = {s[j] : j \in 1 .. i - 1}
      BY <3>2
    <3> QED
      BY <3>1, <3>2, <3>3 DEF Called
  <2> QED
    BY <2>1, <2>2
<1>6. Called(lines, u, n + 1)
  BY <1>3, <1>5 DEF Called
<1> QED
  BY <1>6 DEF u, Next1

\* _instances: a name for every line, each with an eye to the ones before it.
LEMMA AliasesCalled ==
  ASSUME NEW lines, Q!IsSeq(lines), \A i \in DOMAIN lines : Q!IsSeq(Q!Wanted(lines[i]))
  PROVE  Called(lines, Q!Aliases(lines), Len(lines))
<1> DEFINE N == Len(lines)
           First(f, m) == f = [n \in 0 .. m |-> IF n = 0 THEN << >> ELSE Next1(lines, f[n - 1], n)]
           T == {m \in Nat : \E f : First(f, m)}
           first == CHOOSE f : First(f, N)
<1>1. N \in Nat /\ DOMAIN lines = 1 .. N
  BY SeqDomain
<1>2. 0 \in T
  <2>1. First([n \in 0 .. 0 |-> << >>], 0)
    OBVIOUS
  <2> QED
    BY <2>1
<1>3. ASSUME NEW m \in T PROVE m + 1 \in T
  <2>1. PICK f : First(f, m)
    OBVIOUS
  <2> DEFINE g == [n \in 0 .. m + 1 |-> IF n = m + 1 THEN Next1(lines, f[m], n) ELSE f[n]]
  <2>2. ASSUME NEW n \in 0 .. m + 1
        PROVE  g[n] = IF n = 0 THEN << >> ELSE Next1(lines, g[n - 1], n)
    <3>1. CASE n = m + 1
      <4>1. n # 0 /\ n - 1 = m /\ m \in 0 .. m + 1 /\ m # m + 1
        BY <3>1
      <4>2. g[n] = Next1(lines, f[m], n) /\ g[m] = f[m]
        BY <3>1, <4>1
      <4> HIDE DEF g
      <4> QED
        BY <4>1, <4>2
    <3>2. CASE n # m + 1
      <4>1. n \in 0 .. m /\ (n # 0 => n - 1 \in 0 .. m + 1 /\ n - 1 # m + 1)
        BY <3>2
      <4>2. g[n] = f[n] /\ (n # 0 => g[n - 1] = f[n - 1])
        BY <3>2, <4>1
      <4>3. f[n] = IF n = 0 THEN << >> ELSE Next1(lines, f[n - 1], n)
        BY <2>1, <4>1
      <4> HIDE DEF g
      <4> QED
        BY <4>2, <4>3
    <3> QED
      BY <3>1, <3>2
  <2>3. g = [n \in 0 .. m + 1 |-> g[n]]
    OBVIOUS
  <2> HIDE DEF g
  <2>4. First(g, m + 1)
    BY <2>2, <2>3
  <2>5. m + 1 \in Nat
    OBVIOUS
  <2> HIDE DEF First
  <2> QED
    BY <2>4, <2>5
<1>4. N \in T
  <2> HIDE DEF T, N
  <2>1. T \in SUBSET Nat
    BY DEF T
  <2> QED
    BY <1>1, <1>2, <1>3, <2>1, FromZero
<1>5. First(first, N)
  BY <1>4
<1> HIDE DEF first
<1> DEFINE K == {m \in Nat : m \in 0 .. N => Called(lines, first[m], m)}
<1>6. 0 \in K
  <2>1. first[0] = << >>
    BY <1>1, <1>5
  <2>2. Called(lines, << >>, 0)
    BY NoneHolds DEF Called
  <2> QED
    BY <2>1, <2>2
<1>7. ASSUME NEW m \in K PROVE m + 1 \in K
  <2> SUFFICES ASSUME m + 1 \in 0 .. N PROVE Called(lines, first[m + 1], m + 1)
    OBVIOUS
  <2>1. m \in Nat /\ m \in 0 .. N /\ m + 1 # 0 /\ (m + 1) - 1 = m /\ m + 1 \in DOMAIN lines
    BY <1>1
  <2>2. first[m + 1] = Next1(lines, first[m], m + 1)
    BY <1>5, <2>1
  <2>3. Called(lines, first[m], m)
    BY <2>1
  <2>4. Called(lines, Next1(lines, first[m], m + 1), m + 1)
    BY <2>1, <2>3, CalledOn
  <2> QED
    BY <2>2, <2>4
<1>8. N \in K
  <2> HIDE DEF K, N
  <2>1. K \in SUBSET Nat
    BY DEF K
  <2> QED
    BY <1>1, <1>6, <1>7, <2>1, FromZero
<1>9. Called(lines, first[N], N)
  BY <1>1, <1>8
<1>10. Q!Aliases(lines) = first[N]
  BY DEF Q!Aliases, first, Next1
<1> QED
  BY <1>9, <1>10

-----------------------------------------------------------------------------
(* Columns, and the names they go by.                                      *)

IsCatalog(cat) ==
  /\ Q!IsSeq(cat) /\ cat # << >>
  /\ \A e \in Q!ToSet(cat) : Q!IsSeq(e.columns) /\ e.columns # << >>

LEMMA ColumnsThere ==
  ASSUME NEW cat, IsCatalog(cat), NEW t \in Q!Tables(cat)
  PROVE  /\ Q!IsSeq(Q!ColumnsOf(cat, t)) /\ 1 \in DOMAIN Q!ColumnsOf(cat, t)
         /\ Q!ToSet(Q!ColumnsOf(cat, t)) # {}
<1> DEFINE e == CHOOSE x \in Q!ToSet(cat) : x.table = t
<1>1. \E x \in Q!ToSet(cat) : x.table = t
  BY DEF Q!Tables, Q!ToSet
<1>2. e \in Q!ToSet(cat)
  BY <1>1
<1>3. Q!ColumnsOf(cat, t) = e.columns
  BY DEF Q!ColumnsOf
<1> HIDE DEF e
<1>4. Q!IsSeq(e.columns) /\ e.columns # << >>
  BY <1>2 DEF IsCatalog
<1>5. DOMAIN e.columns = 1 .. Len(e.columns) /\ Len(e.columns) \in Nat
  BY <1>4, SeqDomain
<1>6. Len(e.columns) # 0
  BY <1>4, EmptySeq DEF Q!IsSeq
<1>7. 1 \in DOMAIN e.columns
  BY <1>5, <1>6
<1> QED
  BY <1>3, <1>4, <1>7 DEF Q!ToSet

\* The columns of one source, under the name it goes by, and of several.
Of(cat, l, a) == {<<a, c>> : c \in Q!ToSet(Q!ColumnsOf(cat, l.table))}
Names(cat, lines, alias, I) == UNION {Of(cat, lines[i], alias[i]) : i \in I}

LEMMA OneOf ==
  ASSUME NEW cat, IsCatalog(cat), NEW l, l.table \in Q!Tables(cat), NEW a
  PROVE  /\ Of(cat, l, a) # {}
         /\ \A n \in Of(cat, l, a) :
              /\ n # << >> /\ n[1] = a /\ n[2] \in Q!ToSet(Q!ColumnsOf(cat, l.table))
              /\ Len(n) = 2
<1>1. Q!ToSet(Q!ColumnsOf(cat, l.table)) # {}
  BY ColumnsThere
<1>2. \A c : Len(<<a, c>>) = 2 /\ <<a, c>> # << >> /\ <<a, c>>[1] = a /\ <<a, c>>[2] = c
  OBVIOUS
<1> QED
  BY <1>1, <1>2 DEF Of

LEMMA QualifiedIs ==
  ASSUME NEW cat, IsCatalog(cat), NEW lines, Q!IsSeq(lines),
         \A i \in DOMAIN lines : lines[i].table \in Q!Tables(cat), NEW alias
  PROVE  /\ Q!IsSeq(Q!Qualified(cat, lines, alias))
         /\ Q!ToSet(Q!Qualified(cat, lines, alias)) = Names(cat, lines, alias, DOMAIN lines)
<1> DEFINE n == Len(lines)
           col(i) == Q!ColumnsOf(cat, lines[i].table)
           s(i) == [k \in DOMAIN col(i) |-> <<alias[i], col(i)[k]>>]
           ss == [i \in DOMAIN lines |-> s(i)]
<1>1. DOMAIN lines = 1 .. n /\ n \in Nat
  BY SeqDomain
<1>2. ASSUME NEW i \in 1 .. n
      PROVE  Q!IsSeq(s(i)) /\ Q!ToSet(s(i)) = Of(cat, lines[i], alias[i])
  <2>1. PICK c : c = col(i)
    OBVIOUS
  <2>2. Q!IsSeq(c)
    BY <1>1, <2>1, ColumnsThere
  <2>3. DOMAIN c = 1 .. Len(c) /\ Len(c) \in Nat
    BY <2>2, SeqDomain
  <2>4. s(i) = [k \in 1 .. Len(c) |-> <<alias[i], c[k]>>]
    BY <2>1, <2>3
  <2> HIDE DEF s, col
  <2>5. s(i) = [k \in 1 .. Len(c) |-> s(i)[k]]
    BY <2>4
  <2>6. Q!IsSeq(s(i))
    BY <2>3, <2>5, SeqOver
  <2>7. Q!ToSet(s(i)) = {<<alias[i], c[k]>> : k \in 1 .. Len(c)}
    BY <2>4 DEF Q!ToSet
  <2>8. Of(cat, lines[i], alias[i]) = {<<alias[i], c[k]>> : k \in 1 .. Len(c)}
    BY <2>1, <2>3 DEF Of, Q!ToSet, col
  <2> QED
    BY <2>6, <2>7, <2>8
<1>3. Q!Qualified(cat, lines, alias) = Q!FlattenSeq(ss)
  BY DEF Q!Qualified
<1> HIDE DEF s, col
<1>4. /\ ss = [i \in 1 .. n |-> ss[i]] /\ \A i \in 1 .. n : Q!IsSeq(ss[i])
      /\ \A i \in 1 .. n : Q!ToSet(ss[i]) = Of(cat, lines[i], alias[i])
  BY <1>1, <1>2
<1> HIDE DEF ss, n
<1>5. /\ Q!IsSeq(Q!FlattenSeq(ss))
      /\ Q!ToSet(Q!FlattenSeq(ss)) = UNION {Q!ToSet(ss[i]) : i \in 1 .. n}
  BY <1>1, <1>4, FlatHolds
<1>6. UNION {Q!ToSet(ss[i]) : i \in 1 .. n} = Names(cat, lines, alias, 1 .. n)
  BY <1>4 DEF Names
<1> QED
  BY <1>1, <1>3, <1>5, <1>6

\* What the choosers say.
LEMMA OfferedIs ==
  ASSUME NEW cat, IsCatalog(cat), NEW lines, Q!IsSeq(lines),
         \A i \in DOMAIN lines : lines[i].table \in Q!Tables(cat), NEW alias
  PROVE  /\ Q!IsSeq(Q!Offered(cat, lines, alias))
         /\ Q!ToSet(Q!Offered(cat, lines, alias))
              = {Q!Shown(n, lines) : n \in Names(cat, lines, alias, DOMAIN lines)}
<1>1. PICK names : names = Q!Qualified(cat, lines, alias)
  OBVIOUS
<1>2. Q!IsSeq(names) /\ Q!ToSet(names) = Names(cat, lines, alias, DOMAIN lines)
  BY <1>1, QualifiedIs
<1>3. DOMAIN names = 1 .. Len(names) /\ Len(names) \in Nat
  BY <1>2, SeqDomain
<1>4. PICK u : u = Q!Offered(cat, lines, alias)
  OBVIOUS
<1>5. u = [k \in 1 .. Len(names) |-> Q!Shown(names[k], lines)]
  BY <1>1, <1>3, <1>4 DEF Q!Offered
<1>6. u = [k \in 1 .. Len(names) |-> u[k]]
  BY <1>5
<1>7. Q!IsSeq(u)
  BY <1>3, <1>6, SeqOver
<1>8. Q!ToSet(u) = {Q!Shown(names[k], lines) : k \in 1 .. Len(names)}
  BY <1>5 DEF Q!ToSet
<1>9. Q!ToSet(names) = {names[k] : k \in 1 .. Len(names)}
  BY <1>3 DEF Q!ToSet
<1> QED
  BY <1>2, <1>4, <1>7, <1>8, <1>9

LEMMA RefillIs ==
  ASSUME NEW choices, Q!IsSeq(choices), NEW pick
  PROVE  /\ \/ Q!Refill(pick, choices) \in Q!ToSet(choices)
            \/ choices = << >> /\ Q!Refill(pick, choices) = << >>
         /\ pick \in Q!ToSet(choices) => Q!Refill(pick, choices) = pick
<1>1. Q!Contains(choices, pick) <=> pick \in Q!ToSet(choices)
  BY Containing
<1>2. choices # << >> => choices[1] \in Q!ToSet(choices)
  <2>1. DOMAIN choices = 1 .. Len(choices) /\ Len(choices) \in Nat
    BY SeqDomain
  <2>2. choices # << >> => Len(choices) # 0
    BY EmptySeq DEF Q!IsSeq
  <2> QED
    BY <2>1, <2>2 DEF Q!ToSet
<1> QED
  BY <1>1, <1>2 DEF Q!Refill, Q!Nothing

-----------------------------------------------------------------------------
(* The lines, and their conditions.                                        *)

IsOn(c) == c = [left |-> c.left, right |-> c.right, touched |-> c.touched]

IsLine(cat, l) ==
  /\ l = [row |-> l.row, table |-> l.table, typed |-> l.typed, kind |-> l.kind, on |-> l.on]
  /\ l.table \in Q!Tables(cat) /\ Q!IsSeq(l.typed) /\ Q!IsSeq(l.on)
  /\ \A c \in Q!ToSet(l.on) : IsOn(c)

Lines(cat, lines) ==
  /\ Q!IsSeq(lines) /\ lines # << >> /\ Len(lines) <= MaxJoins + 1
  /\ \A i \in DOMAIN lines : IsLine(cat, lines[i])
  /\ lines[1].row = 0
  /\ \A i \in DOMAIN lines : i # 1 => lines[i].row \in 1 .. MaxJoins /\ lines[i].on # << >>
  /\ \A i, j \in DOMAIN lines : lines[i].row = lines[j].row => i = j

\* The conditions of the line i: each side one of the columns it may name, or
\* nothing yet, and the first one complete.
Sided(cat, lines, alias, i, c) ==
  /\ IsOn(c)
  /\ c.left = << >> \/ c.left \in Names(cat, lines, alias, 1 .. i - 1)
  /\ c.right = << >> \/ c.right \in Of(cat, lines[i], alias[i])

Joins(cat, lines, alias, i, on) ==
  /\ Q!IsSeq(on) /\ on # << >> /\ on[1].left # << >> /\ on[1].right # << >>
  /\ \A c \in Q!ToSet(on) : Sided(cat, lines, alias, i, c)

LEMMA LinesAre ==
  ASSUME NEW cat, NEW lines, Lines(cat, lines)
  PROVE  /\ DOMAIN lines = 1 .. Len(lines) /\ Len(lines) \in Nat /\ Len(lines) # 0
         /\ 1 \in DOMAIN lines
         /\ \A i \in DOMAIN lines : lines[i].table \in Q!Tables(cat)
<1>1. DOMAIN lines = 1 .. Len(lines) /\ Len(lines) \in Nat
  BY SeqDomain DEF Lines
<1>2. Len(lines) # 0
  BY EmptySeq DEF Lines, Q!IsSeq
<1> QED
  BY <1>1, <1>2 DEF Lines, IsLine

LEMMA LeftIs ==
  ASSUME NEW cat, IsCatalog(cat), NEW lines, Lines(cat, lines), NEW alias, NEW i \in DOMAIN lines
  PROVE  /\ Q!IsSeq(Q!LeftOf(cat, lines, alias, i))
         /\ Q!ToSet(Q!LeftOf(cat, lines, alias, i)) = Names(cat, lines, alias, 1 .. i - 1)
         /\ i # 1 => Q!ToSet(Q!LeftOf(cat, lines, alias, i)) # {}
<1>1. /\ DOMAIN lines = 1 .. Len(lines) /\ Len(lines) \in Nat /\ 1 \in DOMAIN lines
      /\ \A j \in DOMAIN lines : lines[j].table \in Q!Tables(cat)
  BY LinesAre
<1>2. PICK s : s = SubSeq(lines, 1, i - 1)
  OBVIOUS
<1>3. /\ Q!IsSeq(s) /\ DOMAIN s = 1 .. i - 1
      /\ \A j \in 1 .. i - 1 : s[j] = lines[j] /\ j \in DOMAIN lines
  <2>1. 1 \in Int /\ i - 1 \in Int /\ \A j \in 1 .. i - 1 : lines[j] \in Q!ToSet(lines)
    BY <1>1 DEF Q!ToSet
  <2>2. /\ s \in Seq(Q!ToSet(lines)) /\ Len(s) = IF 1 <= i - 1 THEN (i - 1) - 1 + 1 ELSE 0
        /\ \A j \in 1 .. (i - 1) - 1 + 1 : s[j] = lines[1 + j - 1]
    BY <1>2, <2>1, SubSeqProperties
  <2>3. Len(s) = i - 1
    BY <1>1, <2>2
  <2>4. \A j \in 1 .. i - 1 : s[j] = lines[j] /\ j \in DOMAIN lines
    <3> SUFFICES ASSUME NEW j \in 1 .. i - 1 PROVE s[j] = lines[j] /\ j \in DOMAIN lines
      OBVIOUS
    <3>1. j \in 1 .. (i - 1) - 1 + 1 /\ 1 + j - 1 = j /\ j \in DOMAIN lines
      BY <1>1
    <3> QED
      BY <2>2, <3>1
  <2> QED
    BY <2>2, <2>3, <2>4, SeqIf
<1>4. \A j \in DOMAIN s : s[j].table \in Q!Tables(cat)
  BY <1>1, <1>3
<1>5. /\ Q!IsSeq(Q!Qualified(cat, s, alias))
      /\ Q!ToSet(Q!Qualified(cat, s, alias)) = Names(cat, s, alias, DOMAIN s)
  BY <1>3, <1>4, QualifiedIs
<1>6. Names(cat, s, alias, DOMAIN s) = Names(cat, lines, alias, 1 .. i - 1)
  BY <1>3 DEF Names
<1>7. ASSUME i # 1 PROVE Names(cat, lines, alias, 1 .. i - 1) # {}
  <2>1. 1 \in 1 .. i - 1
    BY <1>1, <1>7
  <2>2. Of(cat, lines[1], alias[1]) # {}
    BY <1>1, OneOf
  <2> QED
    BY <2>1, <2>2 DEF Names
<1> QED
  BY <1>2, <1>5, <1>6, <1>7 DEF Q!LeftOf

LEMMA RightIs ==
  ASSUME NEW cat, IsCatalog(cat), NEW lines, Lines(cat, lines), NEW alias, NEW i \in DOMAIN lines
  PROVE  /\ Q!IsSeq(Q!RightOf(cat, lines, alias, i))
         /\ Q!ToSet(Q!RightOf(cat, lines, alias, i)) = Of(cat, lines[i], alias[i])
         /\ Q!ToSet(Q!RightOf(cat, lines, alias, i)) # {}
<1>1. PICK s, a : s = <<lines[i]>> /\ a = <<alias[i]>>
  OBVIOUS
<1>2. Q!IsSeq(s) /\ Len(s) = 1 /\ s[1] = lines[i] /\ a[1] = alias[i]
  BY <1>1, OneHolds
<1>3. DOMAIN s = {1}
  BY <1>2, SeqDomain
<1>4. lines[i].table \in Q!Tables(cat)
  BY LinesAre
<1>5. \A j \in DOMAIN s : s[j].table \in Q!Tables(cat)
  BY <1>2, <1>3, <1>4
<1>6. /\ Q!IsSeq(Q!Qualified(cat, s, a))
      /\ Q!ToSet(Q!Qualified(cat, s, a)) = Names(cat, s, a, DOMAIN s)
  BY <1>2, <1>5, QualifiedIs
<1>7. Names(cat, s, a, DOMAIN s) = Of(cat, lines[i], alias[i])
  BY <1>2, <1>3 DEF Names
<1>8. Of(cat, lines[i], alias[i]) # {}
  BY <1>4, OneOf
<1> QED
  BY <1>1, <1>6, <1>7, <1>8 DEF Q!RightOf

\* A name is never the nothing of an empty chooser.
LEMMA NamesThere ==
  ASSUME NEW cat, IsCatalog(cat), NEW lines, Lines(cat, lines), NEW alias,
         NEW I \in SUBSET DOMAIN lines, NEW n \in Names(cat, lines, alias, I)
  PROVE  /\ n # << >> /\ Len(n) = 2
         /\ \E i \in I : /\ n[1] = alias[i]
                         /\ n[2] \in Q!ToSet(Q!ColumnsOf(cat, lines[i].table))
<1>1. PICK i \in I : n \in Of(cat, lines[i], alias[i])
  BY DEF Names
<1>2. lines[i].table \in Q!Tables(cat)
  BY LinesAre
<1> QED
  BY <1>1, <1>2, OneOf

\* The conditions a constraint suggests are a sequence.
LEMMA SuggestedIs ==
  ASSUME Q!BuilderAssumption, NEW cat, NEW lines, NEW alias, NEW i
  PROVE  Q!IsSeq(Q!Suggested(cat, lines, alias, i))
<1> DEFINE Earlier(t) == {l \in 1 .. i - 1 : lines[l].table = t}
           Here(fk) == fk.table = lines[i].table /\ Earlier(fk.ref) # {}
           There(fk) == fk.ref = lines[i].table /\ Earlier(fk.table) # {}
           relating == {k \in DOMAIN ForeignKeys : Here(ForeignKeys[k]) \/ There(ForeignKeys[k])}
           fk == ForeignKeys[Q!Least(relating)]
           one(p) == IF Here(fk)
                       THEN <<<<alias[Q!Least(Earlier(fk.ref))], fk.pairs[p][2]>>,
                              <<alias[i], fk.pairs[p][1]>>>>
                       ELSE <<<<alias[Q!Least(Earlier(fk.table))], fk.pairs[p][1]>>,
                              <<alias[i], fk.pairs[p][2]>>>>
           s == [p \in DOMAIN fk.pairs |-> one(p)]
<1>1. Q!Suggested(cat, lines, alias, i) = IF relating = {} THEN << >> ELSE s
  BY DEF Q!Suggested
<1>2. DOMAIN ForeignKeys = 1 .. Len(ForeignKeys) /\ Len(ForeignKeys) \in Nat
  BY SeqDomain DEF Q!BuilderAssumption
<1>3. relating \in SUBSET DOMAIN ForeignKeys
  OBVIOUS
<1> HIDE DEF relating, one
<1>4. ASSUME relating # {} PROVE Q!IsSeq(s)
  <2>1. relating \in SUBSET Nat
    BY <1>2, <1>3
  <2>2. Q!Least(relating) \in DOMAIN ForeignKeys
    BY <1>3, <1>4, <2>1, LeastIs
  <2>3. fk \in Q!ToSet(ForeignKeys)
    BY <2>2 DEF Q!ToSet
  <2>4. Q!IsSeq(fk.pairs)
    BY <2>3 DEF Q!BuilderAssumption
  <2> HIDE DEF fk
  <2>5. PICK p : p = fk.pairs
    OBVIOUS
  <2>6. DOMAIN p = 1 .. Len(p) /\ Len(p) \in Nat
    BY <2>4, <2>5, SeqDomain
  <2>7. s = [x \in 1 .. Len(p) |-> one(x)]
    BY <2>5, <2>6
  <2> HIDE DEF s
  <2>8. s = [x \in 1 .. Len(p) |-> s[x]]
    BY <2>7
  <2> QED
    BY <2>6, <2>8, SeqOver
<1> QED
  BY <1>1, <1>4, NoneHolds

\* What each condition becomes.
Filled(on, left, right, P) ==
  \A k \in DOMAIN P :
    /\ IsOn(P[k])
    /\ k \notin DOMAIN on => P[k].left = << >> /\ P[k].right = << >>
    /\ k \in DOMAIN on =>
         /\ P[k].left = on[k].left \/ P[k].left \in Q!ToSet(left)
         /\ P[k].right = on[k].right \/ P[k].right \in Q!ToSet(right)

LEMMA PrefilledAre ==
  ASSUME NEW on, Q!IsSeq(on), NEW conditions, Q!IsSeq(conditions), NEW left, Q!IsSeq(left),
         NEW right, Q!IsSeq(right), NEW P, P = Q!Prefilled(on, conditions, left, right)
  PROVE  Q!IsSeq(P) /\ DOMAIN P = DOMAIN conditions /\ Filled(on, left, right, P)
<1> DEFINE l(k) == IF on[k].left # << >> /\ Q!Contains(left, conditions[k][1])
                     THEN conditions[k][1] ELSE on[k].left
           r(k) == IF on[k].right # << >> /\ Q!Contains(right, conditions[k][2])
                     THEN conditions[k][2] ELSE on[k].right
           one(k) == IF k > Len(on) THEN Q!EmptyOn
                     ELSE [left |-> l(k), right |-> r(k), touched |-> on[k].touched]
<1>1. /\ DOMAIN on = 1 .. Len(on) /\ Len(on) \in Nat
      /\ DOMAIN conditions = 1 .. Len(conditions) /\ Len(conditions) \in Nat
  BY SeqDomain
<1>2. P = [k \in 1 .. Len(conditions) |-> one(k)]
  BY <1>1 DEF Q!Prefilled, Q!Nothing
<1>3. \A k : l(k) = on[k].left \/ l(k) \in Q!ToSet(left)
  BY Containing
<1>4. \A k : r(k) = on[k].right \/ r(k) \in Q!ToSet(right)
  BY Containing
<1> HIDE DEF l, r
<1>5. ASSUME NEW k \in 1 .. Len(conditions)
      PROVE  /\ IsOn(one(k))
             /\ k \notin DOMAIN on => one(k).left = << >> /\ one(k).right = << >>
             /\ k \in DOMAIN on => one(k).left = l(k) /\ one(k).right = r(k)
  <2>1. k \in DOMAIN on <=> ~ (k > Len(on))
    BY <1>1
  <2>2. CASE k > Len(on)
    BY <2>1, <2>2 DEF Q!EmptyOn, Q!Nothing, IsOn
  <2>3. CASE ~ (k > Len(on))
    BY <2>1, <2>3 DEF IsOn
  <2> QED
    BY <2>2, <2>3
<1> HIDE DEF one
<1>6. DOMAIN P = 1 .. Len(conditions) /\ \A k \in 1 .. Len(conditions) : P[k] = one(k)
  BY <1>2
<1>7. P = [k \in 1 .. Len(conditions) |-> P[k]]
  BY <1>2
<1>8. Q!IsSeq(P)
  BY <1>1, <1>7, SeqOver
<1>9. ASSUME NEW k \in DOMAIN P
      PROVE  /\ IsOn(P[k])
             /\ k \notin DOMAIN on => P[k].left = << >> /\ P[k].right = << >>
             /\ k \in DOMAIN on =>
                  /\ P[k].left = on[k].left \/ P[k].left \in Q!ToSet(left)
                  /\ P[k].right = on[k].right \/ P[k].right \in Q!ToSet(right)
  <2>1. k \in 1 .. Len(conditions) /\ P[k] = one(k)
    BY <1>6, <1>9
  <2>2. IsOn(P[k])
    BY <1>5, <2>1
  <2>3. k \notin DOMAIN on => P[k].left = << >> /\ P[k].right = << >>
    BY <1>5, <2>1
  <2>4. k \in DOMAIN on => P[k].left = l(k) /\ P[k].right = r(k)
    BY <1>5, <2>1
  <2> QED
    BY <1>3, <1>4, <2>2, <2>3, <2>4
<1> QED
  BY <1>1, <1>6, <1>8, <1>9 DEF Filled

LEMMA NotEmpty ==
  ASSUME NEW s, Q!IsSeq(s)
  PROVE  s # << >> <=> 1 \in DOMAIN s
<1>1. DOMAIN s = 1 .. Len(s) /\ Len(s) \in Nat
  BY SeqDomain
<1>2. s = << >> <=> Len(s) = 0
  BY EmptySeq DEF Q!IsSeq
<1> QED
  BY <1>1, <1>2

\* Prefilling leaves the first condition complete, and every side a name the
\* line may use.
LEMMA PrefilledJoins ==
  ASSUME NEW cat, IsCatalog(cat), NEW lines, Lines(cat, lines), NEW alias,
         NEW i \in DOMAIN lines, NEW on, Joins(cat, lines, alias, i, on),
         NEW conditions, Q!IsSeq(conditions), conditions # << >>,
         NEW left, left = Q!LeftOf(cat, lines, alias, i),
         NEW right, right = Q!RightOf(cat, lines, alias, i)
  PROVE  Joins(cat, lines, alias, i, Q!Prefilled(on, conditions, left, right))
<1>1. PICK P : P = Q!Prefilled(on, conditions, left, right)
  OBVIOUS
<1>2. Q!IsSeq(on) /\ on # << >> /\ on[1].left # << >> /\ on[1].right # << >>
  BY DEF Joins
<1>3. /\ Q!IsSeq(left) /\ Q!ToSet(left) = Names(cat, lines, alias, 1 .. i - 1)
      /\ Q!IsSeq(right) /\ Q!ToSet(right) = Of(cat, lines[i], alias[i])
  BY LeftIs, RightIs
<1>4. Q!IsSeq(P) /\ DOMAIN P = DOMAIN conditions /\ Filled(on, left, right, P)
  <2>1. Q!IsSeq(on) /\ Q!IsSeq(conditions) /\ Q!IsSeq(left) /\ Q!IsSeq(right)
    BY <1>2, <1>3
  <2> QED
    BY <1>1, <2>1, PrefilledAre
<1>5. 1 \in DOMAIN P /\ 1 \in DOMAIN on
  BY <1>2, <1>4, NotEmpty
<1>6. \A j \in 1 .. i - 1 : j \in DOMAIN lines
  BY LinesAre
<1>7. \A n \in Q!ToSet(left) : n # << >>
  BY <1>3, <1>6, NamesThere
<1>8. \A n \in Q!ToSet(right) : n # << >>
  BY <1>3, LinesAre, OneOf
<1>9. P[1].left # << >>
  BY <1>2, <1>4, <1>5, <1>7 DEF Filled
<1>10. P[1].right # << >>
  BY <1>2, <1>4, <1>5, <1>8 DEF Filled
<1>11. ASSUME NEW k \in DOMAIN P PROVE Sided(cat, lines, alias, i, P[k])
  <2>1. IsOn(P[k])
    BY <1>4 DEF Filled
  <2>2. CASE k \in DOMAIN on
    <3>1. Sided(cat, lines, alias, i, on[k])
      BY <2>2 DEF Joins, Q!ToSet
    <3>2. P[k].left = on[k].left \/ P[k].left \in Q!ToSet(left)
      BY <1>4, <2>2 DEF Filled
    <3>3. P[k].right = on[k].right \/ P[k].right \in Q!ToSet(right)
      BY <1>4, <2>2 DEF Filled
    <3> QED
      BY <1>3, <2>1, <3>1, <3>2, <3>3 DEF Sided
  <2>3. CASE k \notin DOMAIN on
    BY <1>4, <2>1, <2>3 DEF Filled, Sided
  <2> QED
    BY <2>2, <2>3
<1>12. P # << >>
  BY <1>4, <1>5, NotEmpty
<1>13. \A c \in Q!ToSet(P) : Sided(cat, lines, alias, i, c)
  BY <1>11 DEF Q!ToSet
<1> QED
  BY <1>1, <1>4, <1>9, <1>10, <1>12, <1>13 DEF Joins

\* The conditions of a line once its choosers are refilled: each side one of
\* the names it may use, and where there are earlier sources, all complete.
LEMMA SyncedOnIs ==
  ASSUME Q!BuilderAssumption, NEW cat, IsCatalog(cat), NEW lines, Lines(cat, lines), NEW alias,
         NEW i \in DOMAIN lines, NEW P, P = Q!SyncedOn(cat, lines, alias, i)
  PROVE  /\ Q!IsSeq(P) /\ \A c \in Q!ToSet(P) : IsOn(c)
         /\ i # 1 => Joins(cat, lines, alias, i, P)
<1> DEFINE left == Q!LeftOf(cat, lines, alias, i)
           right == Q!RightOf(cat, lines, alias, i)
           was == lines[i].on
           one(k) == [left |-> Q!Refill(was[k].left, left),
                      right |-> Q!Refill(was[k].right, right), touched |-> was[k].touched]
           on == [k \in DOMAIN was |-> one(k)]
           given == Q!Suggested(cat, lines, alias, i)
<1>1. /\ Q!IsSeq(left) /\ Q!ToSet(left) = Names(cat, lines, alias, 1 .. i - 1)
      /\ i # 1 => Q!ToSet(left) # {}
  BY LeftIs
<1>2. /\ Q!IsSeq(right) /\ Q!ToSet(right) = Of(cat, lines[i], alias[i])
      /\ Q!ToSet(right) # {}
  BY RightIs
<1>3. P = IF i = 1 \/ Q!Touched(on) \/ given = << >> THEN on
          ELSE Q!Prefilled(on, given, left, right)
  BY DEF Q!SyncedOn
<1>4. Q!IsSeq(was) /\ (i # 1 => was # << >>)
  BY DEF Lines, IsLine
<1>5. DOMAIN was = 1 .. Len(was) /\ Len(was) \in Nat
  BY <1>4, SeqDomain
<1>6. i # 1 => 1 \in DOMAIN was
  BY <1>4, NotEmpty
<1>7. ASSUME NEW x PROVE Q!Refill(x, left) = << >> \/ Q!Refill(x, left) \in Q!ToSet(left)
  <2> HIDE DEF left
  <2> QED
    BY <1>1, RefillIs
<1>8. ASSUME NEW x, i # 1 PROVE Q!Refill(x, left) \in Q!ToSet(left)
  <2>1. left # << >>
    BY <1>1, <1>8, NoneHolds
  <2> HIDE DEF left
  <2> QED
    BY <1>1, <2>1, RefillIs
<1>9. ASSUME NEW x PROVE Q!Refill(x, right) \in Q!ToSet(right)
  <2>1. right # << >>
    BY <1>2, NoneHolds
  <2> HIDE DEF right
  <2> QED
    BY <1>2, <2>1, RefillIs
<1>10. \A j \in 1 .. i - 1 : j \in DOMAIN lines
  BY LinesAre
<1>11. \A n \in Q!ToSet(left) : n # << >>
  BY <1>1, <1>10, NamesThere
<1>12. \A n \in Q!ToSet(right) : n # << >>
  BY <1>2, LinesAre, OneOf
<1>13. Q!IsSeq(given)
  BY SuggestedIs
<1> HIDE DEF left, right, given
<1>14. \A k : /\ IsOn(one(k)) /\ one(k).left = Q!Refill(was[k].left, left)
              /\ one(k).right = Q!Refill(was[k].right, right)
  BY DEF IsOn
<1>15. \A k : Sided(cat, lines, alias, i, one(k))
  <2> SUFFICES ASSUME NEW k PROVE Sided(cat, lines, alias, i, one(k))
    OBVIOUS
  <2> HIDE DEF one
  <2>1. one(k).left = << >> \/ one(k).left \in Names(cat, lines, alias, 1 .. i - 1)
    BY <1>1, <1>7, <1>14
  <2>2. one(k).right \in Of(cat, lines[i], alias[i])
    BY <1>2, <1>9, <1>14
  <2> QED
    BY <1>14, <2>1, <2>2 DEF Sided
<1> HIDE DEF one
<1>16. on = [k \in 1 .. Len(was) |-> one(k)]
  BY <1>5
<1>17. DOMAIN on = 1 .. Len(was) /\ \A k \in 1 .. Len(was) : on[k] = one(k)
  BY <1>16
<1>18. on = [k \in 1 .. Len(was) |-> on[k]]
  BY <1>16
<1> HIDE DEF on
<1>19. Q!IsSeq(on)
  BY <1>5, <1>18, SeqOver
<1>20. \A c \in Q!ToSet(on) : Sided(cat, lines, alias, i, c)
  BY <1>15, <1>17 DEF Q!ToSet
<1>21. ASSUME i # 1 PROVE Joins(cat, lines, alias, i, on)
  <2>1. 1 \in 1 .. Len(was) /\ on[1] = one(1)
    BY <1>5, <1>6, <1>17, <1>21
  <2>2. on # << >>
    BY <1>17, <1>19, <2>1, NotEmpty
  <2>3. on[1].left # << >>
    BY <1>8, <1>11, <1>14, <1>21, <2>1
  <2>4. on[1].right # << >>
    BY <1>9, <1>12, <1>14, <2>1
  <2> QED
    BY <1>19, <1>20, <2>2, <2>3, <2>4 DEF Joins
<1>22. CASE P = on
  <2>1. \A c \in Q!ToSet(P) : IsOn(c)
    BY <1>20, <1>22 DEF Sided
  <2> QED
    BY <1>19, <1>21, <1>22, <2>1
<1>23. CASE i # 1 /\ given # << >> /\ P = Q!Prefilled(on, given, left, right)
  <2>1. Joins(cat, lines, alias, i, on)
    BY <1>21, <1>23
  <2>2. Joins(cat, lines, alias, i, Q!Prefilled(on, given, left, right))
    BY <1>13, <1>23, <2>1, PrefilledJoins DEF left, right
  <2>3. Joins(cat, lines, alias, i, P)
    BY <1>23, <2>2
  <2> QED
    BY <2>3 DEF Joins, Sided
<1> QED
  BY <1>3, <1>22, <1>23

-----------------------------------------------------------------------------
(* What a sync makes of the sources.                                       *)

\* Lines that differ in their conditions alone.
Same(lines, new) ==
  /\ Q!IsSeq(new) /\ DOMAIN new = DOMAIN lines /\ Len(new) = Len(lines)
  /\ \A i \in DOMAIN lines :
       /\ new[i].row = lines[i].row /\ new[i].table = lines[i].table
       /\ new[i].typed = lines[i].typed /\ new[i].kind = lines[i].kind

LEMMA SameOf ==
  ASSUME NEW cat, NEW lines, NEW new, Same(lines, new), NEW alias
  PROVE  /\ \A i \in DOMAIN lines : Of(cat, new[i], alias[i]) = Of(cat, lines[i], alias[i])
         /\ \A I \in SUBSET DOMAIN lines : Names(cat, new, alias, I) = Names(cat, lines, alias, I)
<1>1. \A i \in DOMAIN lines : Of(cat, new[i], alias[i]) = Of(cat, lines[i], alias[i])
  BY DEF Same, Of
<1> QED
  BY <1>1 DEF Names

LEMMA SameSides ==
  ASSUME NEW cat, NEW lines, Lines(cat, lines), NEW new, Same(lines, new), NEW alias,
         NEW i \in DOMAIN lines, NEW on, Joins(cat, lines, alias, i, on)
  PROVE  Joins(cat, new, alias, i, on)
<1>1. 1 .. i - 1 \in SUBSET DOMAIN lines
  BY LinesAre
<1>2. Names(cat, new, alias, 1 .. i - 1) = Names(cat, lines, alias, 1 .. i - 1)
  <2>1. PICK I : I = 1 .. i - 1
    OBVIOUS
  <2>2. I \in SUBSET DOMAIN lines
    BY <1>1, <2>1
  <2>3. Names(cat, new, alias, I) = Names(cat, lines, alias, I)
    BY <2>2, SameOf
  <2> QED
    BY <2>1, <2>3
<1>3. Of(cat, new[i], alias[i]) = Of(cat, lines[i], alias[i])
  BY SameOf
<1>4. \A c : Sided(cat, lines, alias, i, c) => Sided(cat, new, alias, i, c)
  BY <1>2, <1>3 DEF Sided
<1> QED
  BY <1>4 DEF Joins

\* Other conditions are lines as before.
LEMMA SameLines ==
  ASSUME NEW cat, NEW lines, Lines(cat, lines), NEW new, Same(lines, new),
         \A i \in DOMAIN lines :
            /\ new[i] = [row |-> new[i].row, table |-> new[i].table, typed |-> new[i].typed,
                         kind |-> new[i].kind, on |-> new[i].on]
            /\ Q!IsSeq(new[i].on) /\ \A c \in Q!ToSet(new[i].on) : IsOn(c)
            /\ i # 1 => new[i].on # << >>
  PROVE  Lines(cat, new)
<1>1. \A i \in DOMAIN lines : IsLine(cat, new[i])
  BY DEF Lines, Same, IsLine
<1>2. 1 \in DOMAIN lines /\ Len(lines) \in Nat /\ Len(lines) # 0
  BY LinesAre
<1>3. new # << >>
  BY <1>2 DEF Same
<1>4. new[1].row = 0
  BY <1>2 DEF Lines, Same
<1>5. \A i \in DOMAIN new : i # 1 => new[i].row \in 1 .. MaxJoins /\ new[i].on # << >>
  BY DEF Lines, Same
<1>6. \A i, j \in DOMAIN new : new[i].row = new[j].row => i = j
  BY DEF Lines, Same
<1> QED
  BY <1>1, <1>3, <1>4, <1>5, <1>6 DEF Lines, Same

\* A name for each line.
Aliased(lines, alias) ==
  /\ alias = [i \in DOMAIN lines |-> alias[i]]
  /\ \A i \in DOMAIN lines : Q!IsSeq(alias[i]) /\ alias[i] # << >>
  /\ \A i, j \in DOMAIN lines : alias[i] = alias[j] => i = j

LEMMA WantedIs ==
  ASSUME NEW cat, NEW lines, Lines(cat, lines), NEW i \in DOMAIN lines
  PROVE  Q!IsSeq(Q!Wanted(lines[i])) /\ Q!Wanted(lines[i]) # << >>
<1>1. Q!IsSeq(lines[i].typed)
  BY DEF Lines, IsLine
<1>2. Q!IsSeq(<<lines[i].table>>) /\ <<lines[i].table>> # << >>
  BY OneHolds
<1> QED
  BY <1>1, <1>2 DEF Q!Wanted, Q!Untyped

LEMMA AliasesAre ==
  ASSUME NEW cat, NEW lines, Lines(cat, lines)
  PROVE  /\ Aliased(lines, Q!Aliases(lines))
         /\ \A i \in DOMAIN lines :
              Q!Aliases(lines)[i]
                = Q!Unique(Q!Wanted(lines[i]), {Q!Aliases(lines)[j] : j \in 1 .. i - 1})
<1>1. PICK s : s = Q!Aliases(lines)
  OBVIOUS
<1>2. DOMAIN lines = 1 .. Len(lines) /\ Len(lines) \in Nat
  BY LinesAre
<1>3. Q!IsSeq(lines)
  BY DEF Lines
<1>4. \A i \in DOMAIN lines : Q!IsSeq(Q!Wanted(lines[i])) /\ Q!Wanted(lines[i]) # << >>
  BY WantedIs
<1>5. Called(lines, s, Len(lines))
  BY <1>1, <1>3, <1>4, AliasesCalled
<1>6. /\ Q!IsSeq(s) /\ Len(s) = Len(lines)
      /\ \A i \in DOMAIN lines :
           /\ Q!IsSeq(s[i])
           /\ s[i] = Q!Unique(Q!Wanted(lines[i]), {s[j] : j \in 1 .. i - 1})
           /\ \A j \in 1 .. i - 1 : s[j] # s[i]
  BY <1>2, <1>5 DEF Called
<1>7. s = [i \in DOMAIN lines |-> s[i]]
  <2>1. s \in Seq(Q!ToSet(s))
    BY <1>6 DEF Q!IsSeq
  <2> QED
    BY <1>2, <1>6, <2>1
<1>8. \A i, j \in DOMAIN lines : s[i] = s[j] => i = j
  <2> SUFFICES ASSUME NEW i \in DOMAIN lines, NEW j \in DOMAIN lines, s[i] = s[j], i # j
               PROVE  FALSE
    OBVIOUS
  <2>1. i \in Nat /\ j \in Nat /\ i >= 1 /\ j >= 1
    BY <1>2
  <2>2. CASE i < j
    <3>1. i \in 1 .. j - 1
      BY <2>1, <2>2
    <3> QED
      BY <1>6, <3>1
  <2>3. CASE j < i
    <3>1. j \in 1 .. i - 1
      BY <2>1, <2>3
    <3> QED
      BY <1>6, <3>1
  <2> QED
    BY <2>1, <2>2, <2>3
<1>9. ASSUME NEW i \in DOMAIN lines PROVE s[i] # << >>
  <2>1. PICK w, taken : w = Q!Wanted(lines[i]) /\ taken = {s[j] : j \in 1 .. i - 1}
    OBVIOUS
  <2>2. s[i] = Q!Unique(w, taken) /\ Q!IsSeq(w) /\ w # << >>
    BY <1>4, <1>6, <2>1
  <2>3. \A k : Append(w, k) # << >>
    <3> SUFFICES ASSUME NEW k PROVE Append(w, k) # << >>
      OBVIOUS
    <3>1. Len(w) \in Nat
      BY <2>2, SeqDomain
    <3>2. Q!IsSeq(Append(w, k)) /\ 1 \in DOMAIN Append(w, k)
      BY <2>2, <3>1, AppendHolds
    <3> QED
      BY <3>2, NotEmpty
  <2> QED
    BY <2>2, <2>3 DEF Q!Unique
<1>10. Aliased(lines, s)
  BY <1>6, <1>7, <1>8, <1>9 DEF Aliased
<1>11. \A i \in DOMAIN lines : s[i] = Q!Unique(Q!Wanted(lines[i]), {s[j] : j \in 1 .. i - 1})
  BY <1>6
<1> QED
  BY <1>1, <1>10, <1>11

IsTab(t) ==
  t = [lines |-> t.lines, aliasOf |-> t.aliasOf, checked |-> t.checked, picks |-> t.picks,
       autoGroup |-> t.autoGroup]

\* The lines after a sync, and what they are called.
LEMMA SyncLines ==
  ASSUME Q!BuilderAssumption, NEW cat, IsCatalog(cat), NEW t, Lines(cat, t.lines),
         NEW u, u = Q!Sync(cat, t)
  PROVE  /\ IsTab(u) /\ Same(t.lines, u.lines) /\ Lines(cat, u.lines)
         /\ DOMAIN u.aliasOf = {l.row : l \in Q!ToSet(u.lines)}
         /\ Q!Named(u) = Q!Aliases(t.lines)
         /\ \A i \in DOMAIN u.lines : i # 1 => Joins(cat, u.lines, Q!Named(u), i, u.lines[i].on)
<1>1. PICK lines, alias : lines = t.lines /\ alias = Q!Aliases(lines)
  OBVIOUS
<1>2. PICK rows, calls : /\ rows = {l.row : l \in Q!ToSet(lines)}
                         /\ calls = [row \in rows |-> alias[CHOOSE i \in DOMAIN lines : lines[i].row = row]]
  OBVIOUS
<1> DEFINE on(i) == Q!SyncedOn(cat, lines, alias, i)
           line(i) == [row |-> lines[i].row, table |-> lines[i].table, typed |-> lines[i].typed,
                       kind |-> lines[i].kind, on |-> on(i)]
<1>3. /\ DOMAIN lines = 1 .. Len(lines) /\ Len(lines) \in Nat
      /\ \A i, j \in DOMAIN lines : lines[i].row = lines[j].row => i = j
  BY <1>1, LinesAre DEF Lines
<1>4. \A i \in DOMAIN lines : [lines[i] EXCEPT !.on = on(i)] = line(i)
  <2> SUFFICES ASSUME NEW i \in DOMAIN lines PROVE [lines[i] EXCEPT !.on = on(i)] = line(i)
    OBVIOUS
  <2>1. PICK l : l = lines[i]
    OBVIOUS
  <2>2. l = [row |-> l.row, table |-> l.table, typed |-> l.typed, kind |-> l.kind, on |-> l.on]
    BY <1>1, <2>1 DEF Lines, IsLine
  <2> HIDE DEF on
  <2>3. [l EXCEPT !.on = on(i)] = [row |-> l.row, table |-> l.table, typed |-> l.typed,
                                   kind |-> l.kind, on |-> on(i)]
    BY <2>2
  <2> QED
    BY <2>1, <2>3
<1>5. u = [lines |-> [i \in DOMAIN lines |-> [lines[i] EXCEPT !.on = on(i)]], aliasOf |-> calls,
           checked |-> u.checked, picks |-> u.picks, autoGroup |-> u.autoGroup]
  <2>1. Q!Sync(cat, t)
          = [lines |-> [i \in DOMAIN lines |-> [lines[i] EXCEPT !.on = on(i)]], aliasOf |-> calls,
             checked |-> Q!SyncedTicks(t.checked, Q!Qualified(cat, lines, alias),
                                       Q!Renames(t.aliasOf, lines, alias)),
             picks |-> Q!SyncedPicks(t.picks, Q!Offered(cat, lines, alias),
                                     Q!Renames(t.aliasOf, lines, alias)),
             autoGroup |-> t.autoGroup]
    BY <1>1, <1>2 DEF Q!Sync
  <2> HIDE DEF on
  <2> QED
    BY <2>1
<1> HIDE DEF on
<1>6. u.lines = [i \in DOMAIN lines |-> [lines[i] EXCEPT !.on = on(i)]] /\ u.aliasOf = calls
  BY <1>5
<1>7. u.lines = [i \in 1 .. Len(lines) |-> line(i)]
  BY <1>3, <1>4, <1>6
<1>8. IsTab(u)
  BY <1>5, <1>6 DEF IsTab
<1>9. \A i : /\ line(i).row = lines[i].row /\ line(i).table = lines[i].table
             /\ line(i).typed = lines[i].typed /\ line(i).kind = lines[i].kind
             /\ line(i).on = on(i)
  OBVIOUS
<1>10. \A i : line(i) = [row |-> line(i).row, table |-> line(i).table, typed |-> line(i).typed,
                         kind |-> line(i).kind, on |-> line(i).on]
  OBVIOUS
<1> HIDE DEF line
<1>11. PICK new : new = u.lines
  OBVIOUS
<1>12. DOMAIN new = DOMAIN lines /\ \A i \in DOMAIN lines : new[i] = line(i)
  BY <1>3, <1>7, <1>11
<1>13. Q!IsSeq(new) /\ Len(new) = Len(lines)
  <2>1. new = [i \in 1 .. Len(lines) |-> new[i]]
    BY <1>7, <1>11
  <2>2. Q!IsSeq(new)
    BY <1>3, <2>1, SeqOver
  <2>3. DOMAIN new = 1 .. Len(new) /\ Len(new) \in Nat
    BY <2>2, SeqDomain
  <2> QED
    BY <1>3, <1>12, <2>2, <2>3
<1>14. Same(lines, new)
  BY <1>9, <1>12, <1>13 DEF Same
<1>15. \A i \in DOMAIN lines :
         /\ Q!IsSeq(on(i)) /\ \A c \in Q!ToSet(on(i)) : IsOn(c)
         /\ i # 1 => Joins(cat, lines, alias, i, on(i))
  BY <1>1, SyncedOnIs DEF on
<1>16. Lines(cat, new)
  <2>1. \A i \in DOMAIN lines : i # 1 => on(i) # << >>
    BY <1>15 DEF Joins
  <2>2. ASSUME NEW i \in DOMAIN lines
        PROVE  /\ new[i] = [row |-> new[i].row, table |-> new[i].table, typed |-> new[i].typed,
                            kind |-> new[i].kind, on |-> new[i].on]
               /\ Q!IsSeq(new[i].on) /\ \A c \in Q!ToSet(new[i].on) : IsOn(c)
               /\ i # 1 => new[i].on # << >>
    <3>1. new[i] = line(i)
      BY <1>12
    <3>2. new[i].on = on(i)
      BY <1>9, <3>1
    <3>3. new[i] = [row |-> new[i].row, table |-> new[i].table, typed |-> new[i].typed,
                    kind |-> new[i].kind, on |-> new[i].on]
      BY <1>10, <3>1
    <3> QED
      BY <1>15, <2>1, <3>2, <3>3
  <2> QED
    BY <1>1, <1>14, <2>2, SameLines
<1>17. {l.row : l \in Q!ToSet(new)} = rows
  <2>1. {l.row : l \in Q!ToSet(new)} = {new[i].row : i \in DOMAIN lines}
    BY <1>12 DEF Q!ToSet
  <2>2. rows = {lines[i].row : i \in DOMAIN lines}
    BY <1>2 DEF Q!ToSet
  <2>3. \A i \in DOMAIN lines : new[i].row = lines[i].row
    BY <1>9, <1>12
  <2> QED
    BY <2>1, <2>2, <2>3
<1>18. DOMAIN calls = rows
  BY <1>2
<1>19. \A i \in DOMAIN lines : calls[lines[i].row] = alias[i]
  <2> SUFFICES ASSUME NEW i \in DOMAIN lines PROVE calls[lines[i].row] = alias[i]
    OBVIOUS
  <2>1. lines[i].row \in rows
    BY <1>2 DEF Q!ToSet
  <2>2. (CHOOSE j \in DOMAIN lines : lines[j].row = lines[i].row) = i
    BY <1>3
  <2> QED
    BY <1>2, <2>1, <2>2
<1>20. alias = [i \in DOMAIN lines |-> alias[i]]
  BY <1>1, AliasesAre DEF Aliased
<1>21. Q!Named(u) = alias
  <2>1. Q!Named(u) = [i \in DOMAIN new |-> u.aliasOf[new[i].row]]
    BY <1>11 DEF Q!Named
  <2>2. \A i \in DOMAIN lines : u.aliasOf[new[i].row] = alias[i]
    BY <1>6, <1>9, <1>12, <1>19
  <2> QED
    BY <1>12, <1>20, <2>1, <2>2
<1>22. \A i \in DOMAIN new : i # 1 => Joins(cat, new, alias, i, new[i].on)
  <2> SUFFICES ASSUME NEW i \in DOMAIN lines, i # 1 PROVE Joins(cat, new, alias, i, new[i].on)
    BY <1>12
  <2>1. new[i].on = on(i)
    BY <1>9, <1>12
  <2>2. Joins(cat, lines, alias, i, on(i))
    BY <1>15
  <2>3. Joins(cat, new, alias, i, on(i))
    BY <1>1, <1>14, <2>2, SameSides
  <2> QED
    BY <2>1, <2>3
<1> QED
  BY <1>1, <1>6, <1>8, <1>11, <1>14, <1>16, <1>17, <1>18, <1>21, <1>22

-----------------------------------------------------------------------------
(* What is picked from the sources.                                        *)

IsRow(a) == a = [fn |-> a.fn, column |-> a.column]

Picks(p) ==
  /\ p = [r \in Q!RowSection |-> p[r]]
  /\ \A r \in Q!RowSection : Q!IsSeq(p[r])
  /\ \A a \in Q!ToSet(p["aggregate"]) : IsRow(a)

\* The rows of the statement name what the choosers offer, or nothing.
Chosen(p, names) ==
  /\ \A n \in Q!ToSet(p["group"]) : n = << >> \/ n \in names
  /\ \A n \in Q!ToSet(p["sort"]) : n = << >> \/ n \in names \/ Len(n) = 3
  /\ \A a \in Q!ToSet(p["aggregate"]) :
       a.column \in names \cup {<< >>} \/ (a.column = Q!AllRows /\ a.fn = "COUNT")

LEMMA ValidIs ==
  ASSUME NEW aggregates, Q!IsSeq(aggregates)
  PROVE  /\ Q!IsSeq(Q!Valid(aggregates))
         /\ Q!ToSet(Q!Valid(aggregates)) = {a \in Q!ToSet(aggregates) : a.column # << >>}
<1> DEFINE S == {k \in DOMAIN aggregates : aggregates[k].column # << >>}
<1>1. Q!Valid(aggregates) = Q!Sifted(aggregates, S)
  BY DEF Q!Valid, Q!Nothing
<1>2. S \in SUBSET DOMAIN aggregates
  OBVIOUS
<1>3. {aggregates[k] : k \in S} = {a \in Q!ToSet(aggregates) : a.column # << >>}
  BY DEF Q!ToSet
<1> HIDE DEF S
<1> QED
  BY <1>1, <1>2, <1>3, SiftedIs

LEMMA LabelsAre ==
  ASSUME NEW aggregates, Q!IsSeq(aggregates)
  PROVE  /\ Q!IsSeq(Q!Labels(aggregates))
         /\ \A l \in Q!ToSet(Q!Labels(aggregates)) : Len(l) = 3
<1>1. PICK s, u : s = Q!Valid(aggregates) /\ u = Q!Labels(aggregates)
  OBVIOUS
<1>2. Q!IsSeq(s)
  BY <1>1, ValidIs
<1>3. DOMAIN s = 1 .. Len(s) /\ Len(s) \in Nat
  BY <1>2, SeqDomain
<1>4. u = [k \in 1 .. Len(s) |-> Q!Label(s[k])]
  BY <1>1, <1>3 DEF Q!Labels
<1>5. u = [k \in 1 .. Len(s) |-> u[k]]
  BY <1>4
<1>6. Q!IsSeq(u)
  BY <1>3, <1>5, SeqOver
<1>7. \A a : Len(Q!Label(a)) = 3
  BY DEF Q!Label
<1>8. \A l \in Q!ToSet(u) : \E a : l = Q!Label(a)
  BY <1>4 DEF Q!ToSet
<1> QED
  BY <1>1, <1>6, <1>7, <1>8

LEMMA CarriedIs ==
  ASSUME NEW choices, Q!IsSeq(choices), NEW pick, NEW renames
  PROVE  Q!Carried(pick, choices, renames) = << >> \/ Q!Carried(pick, choices, renames) \in Q!ToSet(choices)
<1>1. Q!Contains(choices, Q!Renamed(pick, renames)) <=> Q!Renamed(pick, renames) \in Q!ToSet(choices)
  BY Containing
<1>2. Q!Refill(pick, choices) = << >> \/ Q!Refill(pick, choices) \in Q!ToSet(choices)
  BY RefillIs
<1> QED
  BY <1>1, <1>2 DEF Q!Carried

LEMMA ChoicesAre ==
  ASSUME NEW names, Q!IsSeq(names), NEW fn
  PROVE  /\ Q!IsSeq(Q!AggregateChoices(fn, names))
         /\ Q!ToSet(Q!AggregateChoices(fn, names))
              = Q!ToSet(names) \cup (IF fn = "COUNT" THEN {Q!AllRows} ELSE {})
<1>1. Q!IsSeq(<<Q!AllRows>>) /\ Q!ToSet(<<Q!AllRows>>) = {Q!AllRows}
  BY OneHolds
<1>2. Q!IsSeq(<<Q!AllRows>> \o names)
  BY <1>1, SeqJoin
<1>3. Q!ToSet(<<Q!AllRows>> \o names) = {Q!AllRows} \cup Q!ToSet(names)
  BY <1>1, JoinHolds
<1> QED
  BY <1>2, <1>3 DEF Q!AggregateChoices

\* A sync leaves rows of what its choosers offer.
LEMMA SyncPicks ==
  ASSUME NEW p, Picks(p), NEW names, Q!IsSeq(names), NEW renames,
         NEW new, new = Q!SyncedPicks(p, names, renames)
  PROVE  Picks(new) /\ Chosen(new, Q!ToSet(names))
<1>1. PICK f, s, a, g, h : /\ f = p["filter"] /\ s = p["sort"] /\ a = p["aggregate"]
                           /\ g = p["group"] /\ h = p["having"]
  OBVIOUS
<1>2. Q!IsSeq(f) /\ Q!IsSeq(s) /\ Q!IsSeq(a) /\ Q!IsSeq(g) /\ Q!IsSeq(h)
  BY <1>1 DEF Picks, Q!RowSection
<1>3. PICK sorts : sorts = names \o Q!Labels(a)
  OBVIOUS
<1> DEFINE one(x) == [fn |-> x.fn, column |-> Q!Refill(x.column, Q!AggregateChoices(x.fn, names))]
           A == [k \in DOMAIN a |-> one(a[k])]
           F == [k \in DOMAIN f |-> Q!Carried(f[k], names, renames)]
           S == [k \in DOMAIN s |-> Q!Carried(s[k], sorts, renames)]
           G == [k \in DOMAIN g |-> Q!Refill(g[k], names)]
           H == [k \in DOMAIN h |-> Q!Refill(h[k], Q!Labels(A))]
<1>4. new = [r \in Q!RowSection |->
               CASE r = "filter" -> F [] r = "sort" -> S [] r = "aggregate" -> A
                 [] r = "group" -> G [] r = "having" -> H]
  <2>1. new = [r \in Q!RowSection |->
         CASE r = "filter" -> [k \in DOMAIN p[r] |-> Q!Carried(p[r][k], names, renames)]
           [] r = "sort" -> [k \in DOMAIN p[r] |-> Q!Carried(p[r][k], sorts, renames)]
           [] r = "aggregate" -> A
           [] r = "group" -> [k \in DOMAIN p[r] |-> Q!Refill(p[r][k], names)]
           [] r = "having" -> [k \in DOMAIN p[r] |-> Q!Refill(p[r][k], Q!Labels(A))]]
    BY <1>1, <1>3 DEF Q!SyncedPicks
  <2> HIDE DEF A
  <2> QED
    BY <1>1, <2>1 DEF Q!RowSection
<1>5. /\ new["filter"] = F /\ new["sort"] = S /\ new["aggregate"] = A
      /\ new["group"] = G /\ new["having"] = H
  <2> HIDE DEF A, F, S, G, H
  <2> QED
    BY <1>4 DEF Q!RowSection
<1>6. new = [r \in Q!RowSection |-> new[r]]
  <2> HIDE DEF A, F, S, G, H
  <2> QED
    BY <1>4
<1>7. /\ DOMAIN f = 1 .. Len(f) /\ Len(f) \in Nat /\ DOMAIN s = 1 .. Len(s) /\ Len(s) \in Nat
      /\ DOMAIN a = 1 .. Len(a) /\ Len(a) \in Nat /\ DOMAIN g = 1 .. Len(g) /\ Len(g) \in Nat
      /\ DOMAIN h = 1 .. Len(h) /\ Len(h) \in Nat
  BY <1>2, SeqDomain
<1>8. Q!IsSeq(F)
  <2>1. F = [k \in 1 .. Len(f) |-> F[k]]
    BY <1>7
  <2> HIDE DEF F
  <2> QED
    BY <1>7, <2>1, SeqOver
<1>9. Q!IsSeq(S)
  <2>1. S = [k \in 1 .. Len(s) |-> S[k]]
    BY <1>7
  <2> HIDE DEF S
  <2> QED
    BY <1>7, <2>1, SeqOver
<1>10. Q!IsSeq(A)
  <2>1. A = [k \in 1 .. Len(a) |-> A[k]]
    BY <1>7
  <2> HIDE DEF A
  <2> QED
    BY <1>7, <2>1, SeqOver
<1>11. Q!IsSeq(G)
  <2>1. G = [k \in 1 .. Len(g) |-> G[k]]
    BY <1>7
  <2> HIDE DEF G
  <2> QED
    BY <1>7, <2>1, SeqOver
<1>12. Q!IsSeq(H)
  <2>1. H = [k \in 1 .. Len(h) |-> H[k]]
    BY <1>7
  <2> HIDE DEF H
  <2> QED
    BY <1>7, <2>1, SeqOver
<1>13. Q!IsSeq(sorts)
  BY <1>2, <1>3, LabelsAre, SeqJoin
<1>14. Q!ToSet(sorts) = Q!ToSet(names) \cup Q!ToSet(Q!Labels(a))
  BY <1>2, <1>3, LabelsAre, JoinHolds
<1>15. \A x \in Q!ToSet(A) : IsRow(x)
  BY DEF Q!ToSet, IsRow
<1>16. \A r \in Q!RowSection : Q!IsSeq(new[r])
  <2> HIDE DEF A, F, S, G, H
  <2> QED
    BY <1>5, <1>8, <1>9, <1>10, <1>11, <1>12 DEF Q!RowSection
<1>17. Picks(new)
  <2> HIDE DEF A, F, S, G, H
  <2> QED
    BY <1>5, <1>6, <1>15, <1>16 DEF Picks
<1>18. \A n \in Q!ToSet(G) : n = << >> \/ n \in Q!ToSet(names)
  <2>1. \A n \in Q!ToSet(G) : \E x : n = Q!Refill(x, names)
    BY DEF Q!ToSet
  <2> QED
    BY <2>1, RefillIs
<1>19. \A n \in Q!ToSet(S) : n = << >> \/ n \in Q!ToSet(names) \/ Len(n) = 3
  <2>1. \A n \in Q!ToSet(S) : \E x : n = Q!Carried(x, sorts, renames)
    BY DEF Q!ToSet
  <2>2. \A n \in Q!ToSet(S) : n = << >> \/ n \in Q!ToSet(sorts)
    BY <1>13, <2>1, CarriedIs
  <2>3. \A l \in Q!ToSet(Q!Labels(a)) : Len(l) = 3
    BY <1>2, LabelsAre
  <2> HIDE DEF S
  <2> QED
    BY <1>14, <2>2, <2>3
<1>20. \A x \in Q!ToSet(A) : \/ x.column \in Q!ToSet(names) \cup {<< >>}
                             \/ x.column = Q!AllRows /\ x.fn = "COUNT"
  <2>1. \A x \in Q!ToSet(A) : \E y : x.column = Q!Refill(y, Q!AggregateChoices(x.fn, names))
    BY DEF Q!ToSet
  <2>2. ASSUME NEW y, NEW fn, NEW n, n = Q!Refill(y, Q!AggregateChoices(fn, names))
        PROVE  n \in Q!ToSet(names) \cup {<< >>} \/ (n = Q!AllRows /\ fn = "COUNT")
    <3>1. PICK c : c = Q!AggregateChoices(fn, names)
      OBVIOUS
    <3>2. Q!IsSeq(c) /\ Q!ToSet(c) = Q!ToSet(names) \cup (IF fn = "COUNT" THEN {Q!AllRows} ELSE {})
      BY <3>1, ChoicesAre
    <3>3. Q!Refill(y, c) = << >> \/ Q!Refill(y, c) \in Q!ToSet(c)
      BY <3>2, RefillIs
    <3> QED
      BY <2>2, <3>1, <3>2, <3>3
  <2> HIDE DEF A
  <2> QED
    BY <2>1, <2>2
<1>21. Chosen(new, Q!ToSet(names))
  <2> HIDE DEF A, F, S, G, H
  <2> QED
    BY <1>5, <1>18, <1>19, <1>20 DEF Chosen
<1> QED
  BY <1>17, <1>21

-----------------------------------------------------------------------------
(* A tab whose picks fit its sources.                                      *)

Fit(cat, t) ==
  /\ IsTab(t) /\ Lines(cat, t.lines) /\ Aliased(t.lines, Q!Named(t))
  /\ DOMAIN t.aliasOf = {l.row : l \in Q!ToSet(t.lines)}
  /\ \A i \in DOMAIN t.lines : i # 1 => Joins(cat, t.lines, Q!Named(t), i, t.lines[i].on)
  /\ Picks(t.picks) /\ Chosen(t.picks, Q!ToSet(Q!Offered(cat, t.lines, Q!Named(t))))

\* A sync makes any tab of well-formed widgets fit.
LEMMA SyncFits ==
  ASSUME Q!BuilderAssumption, NEW cat, IsCatalog(cat), NEW t, Lines(cat, t.lines), Picks(t.picks),
         NEW u, u = Q!Sync(cat, t)
  PROVE  Fit(cat, u)
<1>1. PICK lines, alias : lines = t.lines /\ alias = Q!Aliases(lines)
  OBVIOUS
<1>2. /\ IsTab(u) /\ Same(lines, u.lines) /\ Lines(cat, u.lines)
      /\ DOMAIN u.aliasOf = {l.row : l \in Q!ToSet(u.lines)} /\ Q!Named(u) = alias
      /\ \A i \in DOMAIN u.lines : i # 1 => Joins(cat, u.lines, alias, i, u.lines[i].on)
  BY <1>1, SyncLines
<1>3. PICK new : new = u.lines
  OBVIOUS
<1>4. Aliased(new, alias)
  <2>1. Aliased(lines, alias)
    BY <1>1, AliasesAre
  <2>2. DOMAIN new = DOMAIN lines
    BY <1>2, <1>3 DEF Same
  <2> QED
    BY <2>1, <2>2 DEF Aliased
<1>5. PICK names : names = Q!Offered(cat, lines, alias)
  OBVIOUS
<1>6. /\ Q!IsSeq(names)
      /\ Q!ToSet(names) = {Q!Shown(n, lines) : n \in Names(cat, lines, alias, DOMAIN lines)}
  BY <1>1, <1>5, LinesAre, OfferedIs DEF Lines
<1>7. Q!ToSet(Q!Offered(cat, new, alias))
         = {Q!Shown(n, new) : n \in Names(cat, new, alias, DOMAIN new)}
  <2>1. Q!IsSeq(new) /\ \A i \in DOMAIN new : new[i].table \in Q!Tables(cat)
    BY <1>2, <1>3, LinesAre DEF Lines
  <2> QED
    BY <2>1, OfferedIs
<1>8. Q!ToSet(Q!Offered(cat, new, alias)) = Q!ToSet(names)
  <2>1. Names(cat, new, alias, DOMAIN lines) = Names(cat, lines, alias, DOMAIN lines)
    BY <1>2, <1>3, SameOf
  <2>2. DOMAIN new = DOMAIN lines /\ Len(new) = Len(lines)
    BY <1>2, <1>3 DEF Same
  <2>3. \A n : Q!Shown(n, new) = Q!Shown(n, lines)
    BY <2>2 DEF Q!Shown
  <2> QED
    BY <1>6, <1>7, <2>1, <2>2, <2>3
<1>9. u.picks = Q!SyncedPicks(t.picks, names, Q!Renames(t.aliasOf, lines, alias))
  BY <1>1, <1>5 DEF Q!Sync
<1>10. Picks(u.picks) /\ Chosen(u.picks, Q!ToSet(names))
  BY <1>6, <1>9, SyncPicks
<1> QED
  BY <1>2, <1>3, <1>4, <1>8, <1>10 DEF Fit

-----------------------------------------------------------------------------
(* Edits of the widgets.                                                   *)

LEMMA SeqLike ==
  ASSUME NEW s, Q!IsSeq(s), NEW u, DOMAIN u = DOMAIN s, u = [j \in DOMAIN s |-> u[j]]
  PROVE  Q!IsSeq(u) /\ Len(u) = Len(s)
<1>1. DOMAIN s = 1 .. Len(s) /\ Len(s) \in Nat
  BY SeqDomain
<1>2. u = [j \in 1 .. Len(s) |-> u[j]]
  BY <1>1
<1>3. Q!IsSeq(u)
  BY <1>1, <1>2, SeqOver
<1>4. DOMAIN u = 1 .. Len(u) /\ Len(u) \in Nat
  BY <1>3, SeqDomain
<1> QED
  BY <1>1, <1>3, <1>4

LEMMA ReplacedIs ==
  ASSUME NEW s, Q!IsSeq(s), NEW k, NEW x, NEW u, u = [s EXCEPT ![k] = x]
  PROVE  /\ Q!IsSeq(u) /\ DOMAIN u = DOMAIN s /\ Len(u) = Len(s)
         /\ \A j \in DOMAIN s : u[j] = IF j = k THEN x ELSE s[j]
<1>1. DOMAIN u = DOMAIN s /\ u = [j \in DOMAIN s |-> u[j]]
  OBVIOUS
<1>2. \A j \in DOMAIN s : u[j] = IF j = k THEN x ELSE s[j]
  OBVIOUS
<1>3. Q!IsSeq(u) /\ Len(u) = Len(s)
  BY <1>1, SeqLike
<1> QED
  BY <1>1, <1>2, <1>3

\* Tabs that differ in their lines.
Relined(t, lines, u) ==
  /\ IsTab(u) /\ u.lines = lines
  /\ u.picks = t.picks /\ u.aliasOf = t.aliasOf /\ u.checked = t.checked

LEMMA LineSet ==
  ASSUME NEW cat, NEW t, IsTab(t), Lines(cat, t.lines), NEW i \in DOMAIN t.lines,
         NEW l, IsLine(cat, l), l.row = t.lines[i].row, i # 1 => l.on # << >>,
         NEW u, u = Q!WithLine(t, i, l)
  PROVE  Lines(cat, u.lines) /\ Relined(t, [t.lines EXCEPT ![i] = l], u)
<1>1. PICK s, v : s = t.lines /\ v = [s EXCEPT ![i] = l]
  OBVIOUS
<1>2. Relined(t, v, u)
  <2>1. u = [t EXCEPT !.lines = v]
    BY <1>1 DEF Q!WithLine
  <2> QED
    BY <2>1 DEF IsTab, Relined
<1>3. Q!IsSeq(s)
  BY <1>1 DEF Lines
<1>4. /\ Q!IsSeq(v) /\ DOMAIN v = DOMAIN s /\ Len(v) = Len(s)
      /\ \A j \in DOMAIN s : v[j] = IF j = i THEN l ELSE s[j]
  <2>1. v = [s EXCEPT ![i] = l]
    BY <1>1
  <2>2. DOMAIN v = DOMAIN s /\ \A j \in DOMAIN s : v[j] = IF j = i THEN l ELSE s[j]
    BY <2>1
  <2>3. v = [j \in DOMAIN s |-> v[j]]
    BY <2>1
  <2>4. Q!IsSeq(v) /\ Len(v) = Len(s)
    BY <1>3, <2>2, <2>3, SeqLike
  <2> QED
    BY <2>2, <2>4
<1>5. 1 \in DOMAIN s /\ Len(s) \in Nat /\ Len(s) # 0
  BY <1>1, LinesAre
<1>6. v # << >>
  BY <1>4, <1>5
<1>7. \A j \in DOMAIN v : IsLine(cat, v[j])
  BY <1>1, <1>4 DEF Lines
<1>8. \A j \in DOMAIN s : v[j].row = s[j].row
  BY <1>1, <1>4
<1>9. v[1].row = 0
  BY <1>1, <1>5, <1>8 DEF Lines
<1>10. \A j \in DOMAIN v : j # 1 => v[j].row \in 1 .. MaxJoins /\ v[j].on # << >>
  BY <1>1, <1>4, <1>8 DEF Lines
<1>11. \A j, k \in DOMAIN v : v[j].row = v[k].row => j = k
  BY <1>1, <1>4, <1>8 DEF Lines
<1>12. Len(v) <= MaxJoins + 1
  BY <1>1, <1>4 DEF Lines
<1>13. Lines(cat, v)
  BY <1>4, <1>6, <1>7, <1>9, <1>10, <1>11, <1>12 DEF Lines
<1>14. u.lines = v
  BY <1>2 DEF Relined
<1> QED
  BY <1>1, <1>2, <1>13, <1>14

LEMMA LineRemoved ==
  ASSUME Q!BuilderAssumption, NEW cat, NEW lines, Lines(cat, lines), NEW i \in DOMAIN lines, i # 1,
         NEW v, v = Q!RemoveAt(lines, i)
  PROVE  Lines(cat, v)
<1>1. DOMAIN lines = 1 .. Len(lines) /\ Len(lines) \in Nat /\ 1 \in DOMAIN lines /\ Q!IsSeq(lines)
  BY LinesAre DEF Lines
<1>2. Q!IsSeq(v) /\ Len(v) = Len(lines) - 1
  BY <1>1, RemovedIs
<1>3. \A x \in DOMAIN v :
        \/ x \in DOMAIN lines /\ x < i /\ v[x] = lines[x]
        \/ x + 1 \in DOMAIN lines /\ x >= i /\ v[x] = lines[x + 1]
  BY <1>1, RemovedFrom
<1>4. DOMAIN v = 1 .. Len(lines) - 1
  BY <1>2, SeqDomain
<1>5. i \in 2 .. Len(lines)
  BY <1>1
<1>6. 1 \in DOMAIN v /\ v[1] = lines[1]
  BY <1>1, <1>3, <1>4, <1>5
<1>7. v # << >>
  BY <1>2, <1>6, NotEmpty
<1>8. \A x \in DOMAIN v : IsLine(cat, v[x])
  BY <1>3 DEF Lines
<1>9. \A x \in DOMAIN v : x # 1 => v[x].row \in 1 .. MaxJoins /\ v[x].on # << >>
  <2> SUFFICES ASSUME NEW x \in DOMAIN v, x # 1
               PROVE  v[x].row \in 1 .. MaxJoins /\ v[x].on # << >>
    OBVIOUS
  <2>1. x \in Nat /\ x + 1 # 1
    BY <1>1, <1>4
  <2> QED
    BY <1>3, <2>1 DEF Lines
<1>10. \A x, y \in DOMAIN v : v[x].row = v[y].row => x = y
  <2> SUFFICES ASSUME NEW x \in DOMAIN v, NEW y \in DOMAIN v, v[x].row = v[y].row PROVE x = y
    OBVIOUS
  <2>1. x \in Nat /\ y \in Nat /\ i \in Nat
    BY <1>1, <1>4
  <2>2. PICK a \in DOMAIN lines :
         /\ v[x] = lines[a]
         /\ \/ a = x /\ x < i
            \/ a = x + 1 /\ x >= i
    BY <1>3
  <2>3. PICK b \in DOMAIN lines :
         /\ v[y] = lines[b]
         /\ \/ b = y /\ y < i
            \/ b = y + 1 /\ y >= i
    BY <1>3
  <2>4. a = b
    <3>1. lines[a].row = lines[b].row
      BY <2>2, <2>3
    <3> QED
      BY <3>1 DEF Lines
  <2> QED
    BY <2>1, <2>2, <2>3, <2>4
<1>11. Len(v) <= MaxJoins + 1
  <2>1. MaxJoins \in Nat /\ Len(lines) <= MaxJoins + 1
    BY DEF Lines, Q!BuilderAssumption
  <2> QED
    BY <1>1, <1>2, <2>1
<1>12. v[1].row = 0
  BY <1>6 DEF Lines
<1> QED
  BY <1>2, <1>7, <1>8, <1>9, <1>10, <1>11, <1>12 DEF Lines

\* While there is room for a line there is a row nobody has.
LEMMA FreeRow ==
  ASSUME Q!BuilderAssumption, NEW cat, NEW lines, Lines(cat, lines), Len(lines) <= MaxJoins,
         NEW row, row = Q!Least((1 .. MaxJoins) \ {l.row : l \in Q!ToSet(lines)})
  PROVE  row \in 1 .. MaxJoins /\ \A i \in DOMAIN lines : lines[i].row # row
<1> DEFINE used == {l.row : l \in Q!ToSet(lines)}
           free == (1 .. MaxJoins) \ used
<1>1. DOMAIN lines = 1 .. Len(lines) /\ Len(lines) \in Nat /\ MaxJoins \in Nat
  BY LinesAre DEF Q!BuilderAssumption
<1>2. \A i \in DOMAIN lines : lines[i].row \in used
  BY DEF Q!ToSet
<1>3. \A r \in used : \E i \in DOMAIN lines : lines[i].row = r
  BY DEF Q!ToSet
<1>4. 0 \in used
  <2>1. 1 \in DOMAIN lines /\ lines[1].row = 0
    BY LinesAre DEF Lines
  <2> QED
    BY <1>2, <2>1
<1> HIDE DEF used
<1>5. free # {}
  <2> SUFFICES ASSUME free = {} PROVE FALSE
    OBVIOUS
  <2> DEFINE I == 0 .. MaxJoins
             f == [r \in I |-> CHOOSE i \in DOMAIN lines : lines[i].row = r]
  <2>1. \A r \in I : r \in used
    BY <1>1, <1>4
  <2>2. \A r \in I : \E i \in DOMAIN lines : lines[i].row = r
    BY <1>3, <2>1
  <2>3. \A r \in I : f[r] \in DOMAIN lines /\ lines[f[r]].row = r
    BY <2>2
  <2>4. IsFiniteSet(I) /\ Cardinality(I) = MaxJoins - 0 + 1
    <3>1. 0 \in Int /\ MaxJoins \in Int /\ ~ (0 > MaxJoins)
      BY <1>1
    <3> QED
      BY <3>1, FS_Interval
  <2>5. IsFiniteSet(DOMAIN lines) /\ Cardinality(DOMAIN lines) = Len(lines)
    <3>1. PICK n : n = Len(lines)
      OBVIOUS
    <3>2. n \in Nat /\ DOMAIN lines = 1 .. n
      BY <1>1, <3>1
    <3>3. 1 \in Int /\ n \in Int /\ (1 > n => n = 0)
      BY <3>2
    <3>4. IsFiniteSet(1 .. n) /\ Cardinality(1 .. n) = IF 1 > n THEN 0 ELSE n - 1 + 1
      BY <3>3, FS_Interval
    <3> QED
      BY <3>1, <3>2, <3>3, <3>4
  <2>6. f \in [I -> DOMAIN lines]
    BY <2>3
  <2> HIDE DEF f, I, free
  <2>7. Cardinality(DOMAIN lines) < Cardinality(I)
    BY <1>1, <2>4, <2>5
  <2>8. \E x, y \in I : x # y /\ f[x] = f[y]
    BY <2>4, <2>5, <2>6, <2>7, FS_PigeonHole
  <2> QED
    BY <2>3, <2>8
<1>6. free \in SUBSET Nat
  BY <1>1
<1>7. Q!Least(free) \in free
  <2> HIDE DEF free
  <2> QED
    BY <1>5, <1>6, LeastIs
<1> QED
  BY <1>2, <1>7 DEF used

LEMMA LineAdded ==
  ASSUME Q!BuilderAssumption, NEW cat, NEW lines, Lines(cat, lines), Len(lines) <= MaxJoins,
         NEW l, IsLine(cat, l), l.on # << >>,
         l.row = Q!Least((1 .. MaxJoins) \ {x.row : x \in Q!ToSet(lines)}),
         NEW v, v = Append(lines, l)
  PROVE  Lines(cat, v)
<1>1. DOMAIN lines = 1 .. Len(lines) /\ Len(lines) \in Nat /\ 1 \in DOMAIN lines /\ Q!IsSeq(lines)
  BY LinesAre DEF Lines
<1>2. l.row \in 1 .. MaxJoins /\ \A i \in DOMAIN lines : lines[i].row # l.row
  BY FreeRow
<1>3. /\ Q!IsSeq(v) /\ Len(v) = Len(lines) + 1 /\ DOMAIN v = 1 .. Len(lines) + 1
      /\ \A i \in 1 .. Len(lines) : v[i] = lines[i]
      /\ v[Len(lines) + 1] = l
  BY <1>1, AppendHolds
<1>4. \A x \in DOMAIN v : \/ x \in DOMAIN lines /\ v[x] = lines[x]
                          \/ x = Len(lines) + 1 /\ v[x] = l
  <2> SUFFICES ASSUME NEW x \in DOMAIN v
               PROVE  \/ x \in DOMAIN lines /\ v[x] = lines[x]
                      \/ x = Len(lines) + 1 /\ v[x] = l
    OBVIOUS
  <2>1. x \in 1 .. Len(lines) \/ x = Len(lines) + 1
    BY <1>1, <1>3
  <2> QED
    BY <1>1, <1>3, <2>1
<1>5. 1 \in DOMAIN v /\ v[1] = lines[1]
  BY <1>1, <1>3
<1>6. v # << >>
  BY <1>3, <1>5, NotEmpty
<1>7. \A x \in DOMAIN v : IsLine(cat, v[x])
  BY <1>4 DEF Lines
<1>8. \A x \in DOMAIN v : x # 1 => v[x].row \in 1 .. MaxJoins /\ v[x].on # << >>
  BY <1>2, <1>4 DEF Lines
<1>9. \A x, y \in DOMAIN v : v[x].row = v[y].row => x = y
  <2> SUFFICES ASSUME NEW x \in DOMAIN v, NEW y \in DOMAIN v, v[x].row = v[y].row PROVE x = y
    OBVIOUS
  <2>1. CASE x \in DOMAIN lines /\ v[x] = lines[x] /\ y \in DOMAIN lines /\ v[y] = lines[y]
    BY <2>1 DEF Lines
  <2>2. CASE ~ (x \in DOMAIN lines /\ v[x] = lines[x] /\ y \in DOMAIN lines /\ v[y] = lines[y])
    BY <1>2, <1>4, <2>2
  <2> QED
    BY <2>1, <2>2
<1>10. Len(v) <= MaxJoins + 1
  <2>1. MaxJoins \in Nat
    BY DEF Q!BuilderAssumption
  <2> QED
    BY <1>1, <1>3, <2>1
<1>11. v[1].row = 0
  BY <1>5 DEF Lines
<1> QED
  BY <1>3, <1>6, <1>7, <1>8, <1>9, <1>10, <1>11 DEF Lines

\* Tabs that differ in the rows of one section.
Repicked(t, r, s, u) ==
  /\ IsTab(u) /\ u.lines = t.lines /\ u.aliasOf = t.aliasOf /\ u.checked = t.checked
  /\ u.picks[r] = s /\ \A o \in Q!RowSection : o # r => u.picks[o] = t.picks[o]

LEMMA RowsSet ==
  ASSUME NEW t, IsTab(t), Picks(t.picks), NEW r \in Q!RowSection, NEW s, Q!IsSeq(s),
         r = "aggregate" => \A a \in Q!ToSet(s) : IsRow(a),
         NEW u, u = Q!WithRows(t, r, s)
  PROVE  Picks(u.picks) /\ Repicked(t, r, s, u)
<1>1. PICK p, v : p = t.picks /\ v = [p EXCEPT ![r] = s]
  OBVIOUS
<1>2. u = [t EXCEPT !.picks = v]
  BY <1>1 DEF Q!WithRows
<1>3. u.picks = v /\ u.lines = t.lines /\ u.aliasOf = t.aliasOf /\ u.checked = t.checked
  BY <1>2 DEF IsTab
<1>4. IsTab(u)
  BY <1>2 DEF IsTab
<1>5. p = [x \in Q!RowSection |-> p[x]]
  BY <1>1 DEF Picks
<1>6. /\ v = [x \in Q!RowSection |-> v[x]] /\ v[r] = s
      /\ \A o \in Q!RowSection : o # r => v[o] = p[o]
  BY <1>1, <1>5
<1>7. \A o \in Q!RowSection : Q!IsSeq(v[o])
  BY <1>1, <1>6 DEF Picks
<1>8. \A a \in Q!ToSet(v["aggregate"]) : IsRow(a)
  <2>1. "aggregate" \in Q!RowSection
    BY DEF Q!RowSection
  <2> QED
    BY <1>1, <1>6, <2>1 DEF Picks
<1>9. Picks(v)
  BY <1>6, <1>7, <1>8 DEF Picks
<1> QED
  BY <1>1, <1>3, <1>4, <1>6, <1>9 DEF Repicked

QueryFits == IsCatalog(catalog) /\ Fit(catalog, builder)

LEMMA CatalogsFit ==
  ASSUME Q!BuilderAssumption, NEW cat \in Catalogs
  PROVE  IsCatalog(cat)
BY DEF Q!BuilderAssumption, IsCatalog

\* What an edit leaves the next sync: the names of the last one, the ticks, the
\* filters and the sorts, with whatever lines the edit made.
AsPicked(t) ==
  /\ t.aliasOf = builder.aliasOf /\ t.checked = builder.checked
  /\ t.picks["filter"] = builder.picks["filter"] /\ t.picks["sort"] = builder.picks["sort"]

Moved ==
  \E t : builder' = Q!Sync(catalog, t) /\ Lines(catalog, t.lines) /\ Picks(t.picks) /\ AsPicked(t)

\* An edit: the tab fits as before, and its sources stay, or move and sync.
Follows ==
  QueryFits' /\ catalog' = catalog /\ (builder'.lines = builder.lines \/ Moved)

\* An edit after which the tab syncs.
LEMMA RestructureFits ==
  ASSUME Q!BuilderAssumption, QueryFits, NEW t, Lines(catalog, t.lines), Picks(t.picks),
         AsPicked(t), Q!Restructure(t)
  PROVE  Follows
<1>1. builder' = Q!Sync(catalog, t) /\ catalog' = catalog
  BY DEF Q!Restructure, Q!Set
<1>2. Fit(catalog, builder')
  BY <1>1, SyncFits DEF QueryFits
<1>3. QueryFits'
  BY <1>1, <1>2 DEF QueryFits
<1> QED
  BY <1>1, <1>3 DEF Follows, Moved

LEMMA WithLineFits ==
  ASSUME Q!BuilderAssumption, QueryFits, NEW i \in DOMAIN builder.lines, NEW l, IsLine(catalog, l),
         l.row = builder.lines[i].row, i # 1 => l.on # << >>,
         Q!Restructure(Q!WithLine(builder, i, l))
  PROVE  Follows
<1>1. PICK u : u = Q!WithLine(builder, i, l)
  OBVIOUS
<1>2. IsTab(builder) /\ Lines(catalog, builder.lines) /\ Picks(builder.picks)
  BY DEF QueryFits, Fit
<1>3. Lines(catalog, u.lines)
  BY <1>1, <1>2, LineSet
<1>4. u.picks = builder.picks /\ u.aliasOf = builder.aliasOf /\ u.checked = builder.checked
  <2>1. Relined(builder, [builder.lines EXCEPT ![i] = l], u)
    BY <1>1, <1>2, LineSet
  <2> QED
    BY <2>1 DEF Relined
<1> QED
  BY <1>1, <1>2, <1>3, <1>4, RestructureFits DEF AsPicked

\* A line, one of its fields given another value.
LEMMA LineFields ==
  ASSUME NEW cat, NEW l, IsLine(cat, l), NEW x
  PROVE  /\ [l EXCEPT !.typed = x] = [row |-> l.row, table |-> l.table, typed |-> x,
                                      kind |-> l.kind, on |-> l.on]
         /\ [l EXCEPT !.kind = x] = [row |-> l.row, table |-> l.table, typed |-> l.typed,
                                     kind |-> x, on |-> l.on]
         /\ [l EXCEPT !.on = x] = [row |-> l.row, table |-> l.table, typed |-> l.typed,
                                   kind |-> l.kind, on |-> x]
<1>1. PICK a, b, c, d, e : a = l.row /\ b = l.table /\ c = l.typed /\ d = l.kind /\ e = l.on
  OBVIOUS
<1>2. l = [row |-> a, table |-> b, typed |-> c, kind |-> d, on |-> e]
  BY <1>1 DEF IsLine
<1>4. [l EXCEPT !.typed = x] = [row |-> a, table |-> b, typed |-> x, kind |-> d, on |-> e]
  BY <1>2
<1>5. [l EXCEPT !.kind = x] = [row |-> a, table |-> b, typed |-> c, kind |-> x, on |-> e]
  BY <1>2
<1>6. [l EXCEPT !.on = x] = [row |-> a, table |-> b, typed |-> c, kind |-> d, on |-> x]
  BY <1>2
<1> QED
  BY <1>1, <1>4, <1>5, <1>6

LEMMA LineTabled ==
  ASSUME NEW cat, NEW l, IsLine(cat, l), NEW x, NEW m, m = [l EXCEPT !.table = x]
  PROVE  m = [row |-> l.row, table |-> x, typed |-> l.typed, kind |-> l.kind, on |-> l.on]
<1>1. PICK a, b, c, d, e : a = l.row /\ b = l.table /\ c = l.typed /\ d = l.kind /\ e = l.on
  OBVIOUS
<1>2. l = [row |-> a, table |-> b, typed |-> c, kind |-> d, on |-> e]
  BY <1>1 DEF IsLine
<1>3. m = [row |-> a, table |-> x, typed |-> c, kind |-> d, on |-> e]
  BY <1>2
<1> QED
  BY <1>1, <1>3

LEMMA LineMoved ==
  ASSUME NEW cat, NEW l, IsLine(cat, l), NEW x, NEW y,
         NEW m, m = [l EXCEPT !.table = x, !.on = y]
  PROVE  m = [row |-> l.row, table |-> x, typed |-> l.typed, kind |-> l.kind, on |-> y]
<1>1. PICK a, b, c, d, e : a = l.row /\ b = l.table /\ c = l.typed /\ d = l.kind /\ e = l.on
  OBVIOUS
<1>2. l = [row |-> a, table |-> b, typed |-> c, kind |-> d, on |-> e]
  BY <1>1 DEF IsLine
<1>3. DOMAIN m = {"row", "table", "typed", "kind", "on"} /\ m = [f \in DOMAIN m |-> m[f]]
  BY <1>2
<1>4. m.row = a /\ m.table = x /\ m.typed = c /\ m.kind = d /\ m.on = y
  BY <1>2
<1> QED
  BY <1>1, <1>3, <1>4

LEMMA LineThere ==
  ASSUME QueryFits, NEW i \in DOMAIN builder.lines
  PROVE  /\ IsLine(catalog, builder.lines[i]) /\ (i # 1 => builder.lines[i].on # << >>)
         /\ Q!IsSeq(builder.lines[i].on) /\ \A c \in Q!ToSet(builder.lines[i].on) : IsOn(c)
BY DEF QueryFits, Fit, Lines, IsLine

LEMMA PickBaseFits ==
  ASSUME Q!BuilderAssumption, QueryFits, NEW t \in Q!Tables(catalog), Q!PickBase(t)
  PROVE  Follows
<1>1. 1 \in DOMAIN builder.lines
  BY LinesAre DEF QueryFits, Fit
<1>2. PICK l, m : l = builder.lines[1] /\ m = [l EXCEPT !.table = t]
  OBVIOUS
<1>3. IsLine(catalog, l)
  BY <1>1, <1>2, LineThere
<1>4. m = [row |-> l.row, table |-> t, typed |-> l.typed, kind |-> l.kind, on |-> l.on]
  BY <1>2, <1>3, LineTabled
<1>5. IsLine(catalog, m) /\ m.row = l.row
  BY <1>3, <1>4 DEF IsLine
<1>6. Q!Restructure(Q!WithLine(builder, 1, m))
  BY <1>2 DEF Q!PickBase
<1> QED
  BY <1>1, <1>2, <1>5, <1>6, WithLineFits

LEMMA TypeAliasFits ==
  ASSUME Q!BuilderAssumption, QueryFits, NEW i \in DOMAIN builder.lines,
         NEW word \in Word \cup {Q!Untyped}, Q!TypeAlias(i, word)
  PROVE  Follows
<1>1. Q!IsSeq(word)
  BY NoneHolds DEF Q!BuilderAssumption, Q!Untyped
<1>2. PICK l, m : l = builder.lines[i] /\ m = [l EXCEPT !.typed = word]
  OBVIOUS
<1>3. IsLine(catalog, l) /\ (i # 1 => l.on # << >>)
  BY <1>2, LineThere
<1>4. m = [row |-> l.row, table |-> l.table, typed |-> word, kind |-> l.kind, on |-> l.on]
  BY <1>2, <1>3, LineFields
<1>5. IsLine(catalog, m) /\ m.row = l.row /\ m.on = l.on
  BY <1>1, <1>3, <1>4 DEF IsLine
<1>6. Q!Restructure(Q!WithLine(builder, i, m))
  BY <1>2 DEF Q!TypeAlias
<1> QED
  BY <1>2, <1>3, <1>5, <1>6, WithLineFits

LEMMA PickKindFits ==
  ASSUME Q!BuilderAssumption, QueryFits, NEW i \in DOMAIN builder.lines, NEW kind,
         Q!PickKind(i, kind)
  PROVE  Follows
<1>2. PICK l, m : l = builder.lines[i] /\ m = [l EXCEPT !.kind = kind]
  OBVIOUS
<1>3. IsLine(catalog, l) /\ (i # 1 => l.on # << >>)
  BY <1>2, LineThere
<1>4. m = [row |-> l.row, table |-> l.table, typed |-> l.typed, kind |-> kind, on |-> l.on]
  BY <1>2, <1>3, LineFields
<1>5. IsLine(catalog, m) /\ m.row = l.row /\ m.on = l.on
  BY <1>3, <1>4 DEF IsLine
<1>6. Q!Restructure(Q!WithLine(builder, i, m))
  BY <1>2 DEF Q!PickKind
<1> QED
  BY <1>2, <1>3, <1>5, <1>6, WithLineFits

LEMMA PickTableFits ==
  ASSUME Q!BuilderAssumption, QueryFits, NEW i \in DOMAIN builder.lines,
         NEW t \in Q!Tables(catalog), Q!PickTable(i, t)
  PROVE  Follows
<1>1. PICK l : l = builder.lines[i]
  OBVIOUS
<1> DEFINE one(k) == [l.on[k] EXCEPT !.touched = FALSE]
<1>2. PICK on : on = [k \in DOMAIN l.on |-> one(k)]
  OBVIOUS
<1>3. /\ IsLine(catalog, l) /\ (i # 1 => l.on # << >>)
      /\ Q!IsSeq(l.on) /\ \A c \in Q!ToSet(l.on) : IsOn(c)
  BY <1>1, LineThere
<1>4. DOMAIN l.on = 1 .. Len(l.on) /\ Len(l.on) \in Nat
  BY <1>3, SeqDomain
<1>5. \A k \in DOMAIN l.on : IsOn(one(k))
  <2> SUFFICES ASSUME NEW k \in DOMAIN l.on PROVE IsOn(one(k))
    OBVIOUS
  <2>1. PICK c : c = l.on[k]
    OBVIOUS
  <2>2. c = [left |-> c.left, right |-> c.right, touched |-> c.touched]
    BY <1>3, <2>1 DEF Q!ToSet, IsOn
  <2>3. PICK a, b, e : a = c.left /\ b = c.right /\ e = c.touched
    OBVIOUS
  <2>4. c = [left |-> a, right |-> b, touched |-> e]
    BY <2>2, <2>3
  <2>5. PICK m : m = [c EXCEPT !.touched = FALSE]
    OBVIOUS
  <2>6. DOMAIN m = {"left", "right", "touched"} /\ m = [f \in DOMAIN m |-> m[f]]
    BY <2>4, <2>5
  <2> QED
    BY <2>1, <2>5, <2>6 DEF IsOn
<1> HIDE DEF one
<1>6. on = [k \in 1 .. Len(l.on) |-> on[k]] /\ DOMAIN on = DOMAIN l.on
  BY <1>2, <1>4
<1>7. Q!IsSeq(on)
  BY <1>4, <1>6, SeqOver
<1>8. \A c \in Q!ToSet(on) : IsOn(c)
  BY <1>2, <1>5 DEF Q!ToSet
<1>9. i # 1 => on # << >>
  BY <1>3, <1>6, <1>7, NotEmpty
<1>10. PICK m : m = [l EXCEPT !.table = t, !.on = on]
  OBVIOUS
<1>11. m = [row |-> l.row, table |-> t, typed |-> l.typed, kind |-> l.kind, on |-> on]
  BY <1>3, <1>10, LineMoved
<1>12. IsLine(catalog, m) /\ m.row = l.row /\ m.on = on
  BY <1>3, <1>7, <1>8, <1>11 DEF IsLine
<1>13. Q!Restructure(Q!WithLine(builder, i, m))
  BY <1>1, <1>2, <1>10 DEF Q!PickTable, one
<1> QED
  BY <1>1, <1>9, <1>12, <1>13, WithLineFits

LEMMA SetOnFits ==
  ASSUME Q!BuilderAssumption, QueryFits, NEW i \in DOMAIN builder.lines, NEW on, Q!IsSeq(on),
         on # << >>, \A c \in Q!ToSet(on) : IsOn(c), Q!SetOn(i, on)
  PROVE  Follows
<1>1. PICK l, m : l = builder.lines[i] /\ m = [l EXCEPT !.on = on]
  OBVIOUS
<1>2. IsLine(catalog, l)
  BY <1>1, LineThere
<1>3. m = [row |-> l.row, table |-> l.table, typed |-> l.typed, kind |-> l.kind, on |-> on]
  BY <1>1, <1>2, LineFields
<1>4. IsLine(catalog, m) /\ m.row = l.row /\ m.on = on
  BY <1>2, <1>3 DEF IsLine
<1>5. Q!Restructure(Q!WithLine(builder, i, m))
  BY <1>1 DEF Q!SetOn
<1> QED
  BY <1>1, <1>4, <1>5, WithLineFits

LEMMA AddOnFits ==
  ASSUME Q!BuilderAssumption, QueryFits, NEW i \in DOMAIN builder.lines, Q!AddOn(i)
  PROVE  Follows
<1>1. PICK on, c, v : /\ on = builder.lines[i].on /\ c = [Q!EmptyOn EXCEPT !.touched = TRUE]
                      /\ v = Append(on, c)
  OBVIOUS
<1>2. Q!IsSeq(on) /\ \A x \in Q!ToSet(on) : IsOn(x)
  BY <1>1, LineThere
<1>3. IsOn(c)
  BY <1>1 DEF Q!EmptyOn, IsOn
<1>4. Q!IsSeq(v) /\ Q!ToSet(v) = Q!ToSet(on) \cup {c} /\ DOMAIN v = 1 .. Len(on) + 1
  BY <1>1, <1>2, AppendHolds
<1>5. v # << >>
  <2>1. 1 \in DOMAIN v
    BY <1>2, <1>4, SeqDomain
  <2> QED
    BY <1>4, <2>1, NotEmpty
<1>6. Q!SetOn(i, v)
  BY <1>1 DEF Q!AddOn
<1> QED
  BY <1>2, <1>3, <1>4, <1>5, <1>6, SetOnFits

LEMMA RemoveOnFits ==
  ASSUME Q!BuilderAssumption, QueryFits, NEW i \in DOMAIN builder.lines,
         NEW k \in DOMAIN builder.lines[i].on, Q!RemoveOn(i, k)
  PROVE  Follows
<1>1. PICK on, v : on = builder.lines[i].on /\ v = Q!RemoveAt(on, k)
  OBVIOUS
<1>2. Q!IsSeq(on) /\ \A x \in Q!ToSet(on) : IsOn(x)
  BY <1>1, LineThere
<1>3. Len(on) > 1 /\ Len(on) \in Nat
  BY <1>1, <1>2, SeqDomain DEF Q!RemoveOn
<1>4. Q!IsSeq(v) /\ Len(v) = Len(on) - 1
  BY <1>1, <1>2, RemovedIs
<1>5. \A x \in DOMAIN v : \E y \in DOMAIN on : v[x] = on[y]
  BY <1>1, <1>2, RemovedFrom
<1>6. \A c \in Q!ToSet(v) : IsOn(c)
  BY <1>2, <1>5 DEF Q!ToSet
<1>7. v # << >>
  <2>1. 1 \in DOMAIN v
    BY <1>3, <1>4, SeqDomain
  <2> QED
    BY <1>4, <2>1, NotEmpty
<1>8. Q!SetOn(i, v)
  BY <1>1 DEF Q!RemoveOn
<1> QED
  BY <1>4, <1>6, <1>7, <1>8, SetOnFits

LEMMA PickOnFits ==
  ASSUME Q!BuilderAssumption, QueryFits, NEW i \in DOMAIN builder.lines,
         NEW k \in DOMAIN builder.lines[i].on, NEW side \in {"left", "right"}, Q!PickOn(i, k, side)
  PROVE  Follows
<1>1. PICK on : on = builder.lines[i].on
  OBVIOUS
<1>2. Q!IsSeq(on) /\ \A x \in Q!ToSet(on) : IsOn(x)
  BY <1>1, LineThere
<1>3. PICK n : Q!SetOn(i, [on EXCEPT ![k] = [on[k] EXCEPT ![side] = n, !.touched = TRUE]])
  BY <1>1 DEF Q!PickOn
<1>4. PICK c, d : c = on[k] /\ d = [c EXCEPT ![side] = n, !.touched = TRUE]
  OBVIOUS
<1>5. c = [left |-> c.left, right |-> c.right, touched |-> c.touched]
  BY <1>1, <1>2, <1>4 DEF Q!ToSet, IsOn
<1>6. IsOn(d)
  <2>1. CASE side = "left"
    <3>1. d = [left |-> n, right |-> c.right, touched |-> TRUE]
      BY <1>4, <1>5, <2>1
    <3> QED
      BY <3>1 DEF IsOn
  <2>2. CASE side = "right"
    <3>1. d = [left |-> c.left, right |-> n, touched |-> TRUE]
      BY <1>4, <1>5, <2>2
    <3> QED
      BY <3>1 DEF IsOn
  <2> QED
    BY <2>1, <2>2
<1>7. PICK v : v = [on EXCEPT ![k] = d]
  OBVIOUS
<1>8. /\ Q!IsSeq(v) /\ DOMAIN v = DOMAIN on
      /\ \A j \in DOMAIN on : v[j] = IF j = k THEN d ELSE on[j]
  BY <1>2, <1>7, ReplacedIs
<1>9. \A x \in Q!ToSet(v) : IsOn(x)
  BY <1>2, <1>6, <1>8 DEF Q!ToSet
<1>10. v # << >>
  BY <1>1, <1>8 DEF Q!EmptyOn
<1>11. Q!SetOn(i, v)
  BY <1>3, <1>4, <1>7
<1> QED
  BY <1>8, <1>9, <1>10, <1>11, SetOnFits

LEMMA BuilderThere ==
  ASSUME QueryFits
  PROVE  /\ IsTab(builder) /\ Lines(catalog, builder.lines) /\ Picks(builder.picks)
         /\ Q!IsSeq(builder.lines)
BY DEF QueryFits, Fit, Lines

LEMMA AddJoinFits ==
  ASSUME Q!BuilderAssumption, QueryFits, Q!AddJoin
  PROVE  Follows
<1>1. PICK lines, l : /\ lines = builder.lines
                      /\ l = [row |-> Q!Least((1 .. MaxJoins) \ {x.row : x \in Q!ToSet(lines)}),
                              table |-> catalog[1].table, typed |-> Q!Untyped,
                              kind |-> "INNER JOIN", on |-> <<Q!EmptyOn>>]
  OBVIOUS
<1>2. Len(lines) <= MaxJoins /\ Q!Restructure([builder EXCEPT !.lines = Append(lines, l)])
  BY <1>1 DEF Q!AddJoin
<1>3. IsTab(builder) /\ Lines(catalog, lines) /\ Picks(builder.picks)
  BY <1>1, BuilderThere
<1>4. catalog[1].table \in Q!Tables(catalog)
  <2>1. 1 \in DOMAIN catalog
    BY NotEmpty DEF QueryFits, IsCatalog
  <2> QED
    BY <2>1 DEF Q!Tables
<1>5. PICK on : on = <<Q!EmptyOn>>
  OBVIOUS
<1>6. Q!IsSeq(on) /\ on # << >> /\ \A c \in Q!ToSet(on) : IsOn(c)
  <2>1. Q!IsSeq(on) /\ Q!ToSet(on) = {Q!EmptyOn} /\ on # << >>
    BY <1>5, OneHolds
  <2>2. IsOn(Q!EmptyOn)
    BY DEF Q!EmptyOn, IsOn
  <2> QED
    BY <2>1, <2>2
<1>7. IsLine(catalog, l) /\ l.on # << >>
  <2>1. PICK row : row = Q!Least((1 .. MaxJoins) \ {x.row : x \in Q!ToSet(lines)})
    OBVIOUS
  <2>2. PICK table : table = catalog[1].table
    OBVIOUS
  <2>3. l = [row |-> row, table |-> table, typed |-> << >>, kind |-> "INNER JOIN", on |-> on]
    BY <1>1, <1>5, <2>1, <2>2 DEF Q!Untyped
  <2> QED
    BY <1>4, <1>6, <2>2, <2>3, NoneHolds DEF IsLine
<1>8. l.row = Q!Least((1 .. MaxJoins) \ {x.row : x \in Q!ToSet(lines)})
  BY <1>1
<1>9. PICK v : v = Append(lines, l)
  OBVIOUS
<1>10. Lines(catalog, v)
  BY <1>2, <1>3, <1>7, <1>8, <1>9, LineAdded
<1>11. PICK u : u = [builder EXCEPT !.lines = v]
  OBVIOUS
<1>12. u.lines = v /\ u.picks = builder.picks /\ AsPicked(u)
  BY <1>3, <1>11 DEF IsTab, AsPicked
<1>13. Q!Restructure(u)
  BY <1>2, <1>9, <1>11
<1> QED
  BY <1>3, <1>10, <1>12, <1>13, RestructureFits

LEMMA RemoveJoinFits ==
  ASSUME Q!BuilderAssumption, QueryFits, NEW i \in Q!Joined, Q!RemoveJoin(i)
  PROVE  Follows
<1>1. IsTab(builder) /\ Lines(catalog, builder.lines) /\ Picks(builder.picks)
  BY BuilderThere
<1>2. i \in DOMAIN builder.lines /\ i # 1
  BY <1>1, LinesAre DEF Q!Joined
<1>3. PICK v : v = Q!RemoveAt(builder.lines, i)
  OBVIOUS
<1>4. Lines(catalog, v)
  BY <1>1, <1>2, <1>3, LineRemoved
<1>5. PICK u : u = [builder EXCEPT !.lines = v]
  OBVIOUS
<1>6. u.lines = v /\ u.picks = builder.picks /\ AsPicked(u)
  BY <1>1, <1>5 DEF IsTab, AsPicked
<1>7. Q!Restructure(u)
  BY <1>3, <1>5 DEF Q!RemoveJoin
<1> QED
  BY <1>1, <1>4, <1>6, <1>7, RestructureFits

\* Other picks of the same sources fit too, if they are of what is offered.
LEMMA RepickedFits ==
  ASSUME NEW cat, NEW t, Fit(cat, t), NEW u, IsTab(u), u.lines = t.lines, u.aliasOf = t.aliasOf,
         Picks(u.picks), Chosen(u.picks, Q!ToSet(Q!Offered(cat, t.lines, Q!Named(t))))
  PROVE  Fit(cat, u)
<1>1. Q!Named(u) = Q!Named(t)
  BY DEF Q!Named
<1>2. /\ Lines(cat, u.lines) /\ Aliased(u.lines, Q!Named(u))
      /\ DOMAIN u.aliasOf = {l.row : l \in Q!ToSet(u.lines)}
  BY <1>1 DEF Fit
<1>3. \A i \in DOMAIN u.lines : i # 1 => Joins(cat, u.lines, Q!Named(u), i, u.lines[i].on)
  BY <1>1 DEF Fit
<1>4. Chosen(u.picks, Q!ToSet(Q!Offered(cat, u.lines, Q!Named(u))))
  BY <1>1
<1> QED
  BY <1>2, <1>3, <1>4 DEF Fit

LEMMA TickFits ==
  ASSUME QueryFits, NEW n, Q!Tick(n) \/ Q!Untick(n)
  PROVE  Follows
<1>1. PICK c : builder' = [builder EXCEPT !.checked = c] /\ catalog' = catalog
  BY DEF Q!Tick, Q!Untick, Q!Set
<1>2. Fit(catalog, builder) /\ IsTab(builder)
  BY DEF QueryFits, Fit
<1>3. PICK u : u = builder'
  OBVIOUS
<1>4. /\ IsTab(u) /\ u.lines = builder.lines /\ u.aliasOf = builder.aliasOf
      /\ u.picks = builder.picks
  BY <1>1, <1>2, <1>3 DEF IsTab
<1>5. Picks(u.picks) /\ Chosen(u.picks, Q!ToSet(Q!Offered(catalog, builder.lines, Q!Named(builder))))
  BY <1>2, <1>4 DEF Fit
<1>6. Fit(catalog, u)
  BY <1>2, <1>4, <1>5, RepickedFits
<1> QED
  BY <1>1, <1>3, <1>4, <1>6 DEF QueryFits, Follows

LEMMA ToggleFits ==
  ASSUME Q!BuilderAssumption, QueryFits, Q!ToggleAuto
  PROVE  Follows
<1>1. PICK b : b = ~ builder.autoGroup
  OBVIOUS
<1>2. PICK u : u = [builder EXCEPT !.autoGroup = b]
  OBVIOUS
<1>3. IsTab(builder) /\ Lines(catalog, builder.lines) /\ Picks(builder.picks)
  BY BuilderThere
<1>4. u.lines = builder.lines /\ u.picks = builder.picks /\ AsPicked(u)
  BY <1>2, <1>3 DEF IsTab, AsPicked
<1>5. Q!Restructure(u)
  BY <1>1, <1>2 DEF Q!ToggleAuto
<1> QED
  BY <1>3, <1>4, <1>5, RestructureFits

\* What the rows of a section may name is what the sources offer, and labels.
LEMMA SectionIs ==
  ASSUME QueryFits, NEW r
  PROVE  /\ Q!IsSeq(Q!SectionChoices(r))
         /\ r \notin {"sort", "having"} =>
              Q!ToSet(Q!SectionChoices(r))
                = Q!ToSet(Q!Offered(catalog, builder.lines, Q!Named(builder)))
         /\ r # "having" => \A n \in Q!ToSet(Q!SectionChoices(r)) :
              n \in Q!ToSet(Q!Offered(catalog, builder.lines, Q!Named(builder))) \/ Len(n) = 3
<1>1. PICK names, labels : /\ names = Q!Offered(catalog, builder.lines, Q!Named(builder))
                           /\ labels = Q!Labels(builder.picks["aggregate"])
  OBVIOUS
<1>2. Q!IsSeq(builder.picks["aggregate"])
  BY BuilderThere DEF Picks, Q!RowSection
<1>3. Q!IsSeq(labels) /\ \A l \in Q!ToSet(labels) : Len(l) = 3
  BY <1>1, <1>2, LabelsAre
<1>4. Q!IsSeq(names)
  <2>1. IsCatalog(catalog) /\ Q!IsSeq(builder.lines)
    BY BuilderThere DEF QueryFits
  <2>2. \A i \in DOMAIN builder.lines : builder.lines[i].table \in Q!Tables(catalog)
    BY BuilderThere, LinesAre
  <2> QED
    BY <1>1, <2>1, <2>2, OfferedIs
<1>5. Q!IsSeq(names \o labels)
  BY <1>3, <1>4, SeqJoin
<1>6. Q!ToSet(names \o labels) = Q!ToSet(names) \cup Q!ToSet(labels)
  BY <1>3, <1>4, JoinHolds
<1>7. Q!SectionChoices(r) = IF r = "having" THEN labels
                            ELSE IF r = "sort" THEN names \o labels ELSE names
  BY <1>1 DEF Q!SectionChoices
<1>8. Q!IsSeq(Q!SectionChoices(r))
  BY <1>3, <1>4, <1>5, <1>7
<1>9. r \notin {"sort", "having"} => Q!ToSet(Q!SectionChoices(r)) = Q!ToSet(names)
  BY <1>7
<1>10. ASSUME r # "having", NEW n \in Q!ToSet(Q!SectionChoices(r))
       PROVE  n \in Q!ToSet(names) \/ Len(n) = 3
  <2>1. n \in Q!ToSet(names) \cup Q!ToSet(labels)
    BY <1>6, <1>7, <1>10
  <2> QED
    BY <1>3, <1>10, <2>1
<1> QED
  BY <1>1, <1>8, <1>9, <1>10

LEMMA RowsFit ==
  ASSUME QueryFits, NEW r \in Q!RowSection, r # "aggregate", NEW s, Q!IsSeq(s),
         \A n \in Q!ToSet(s) : \/ n = << >> \/ n \in Q!ToSet(Q!SectionChoices(r))
                               \/ n \in Q!ToSet(builder.picks[r]),
         Q!Set(Q!WithRows(builder, r, s))
  PROVE  Follows
<1>1. PICK u, names : /\ u = Q!WithRows(builder, r, s)
                      /\ names = Q!ToSet(Q!Offered(catalog, builder.lines, Q!Named(builder)))
  OBVIOUS
<1>2. IsTab(builder) /\ Picks(builder.picks)
  BY BuilderThere
<1>3. r = "aggregate" => \A a \in Q!ToSet(s) : IsRow(a)
  OBVIOUS
<1>4. /\ Picks(u.picks) /\ IsTab(u)
      /\ u.picks[r] = s /\ \A o \in Q!RowSection : o # r => u.picks[o] = builder.picks[o]
      /\ u.lines = builder.lines /\ u.aliasOf = builder.aliasOf
  <2>1. Picks(u.picks) /\ Repicked(builder, r, s, u)
    BY <1>1, <1>2, <1>3, RowsSet
  <2> QED
    BY <2>1 DEF Repicked
<1>5. Chosen(builder.picks, names)
  BY <1>1 DEF QueryFits, Fit
<1>6. {"group", "sort", "aggregate"} \subseteq Q!RowSection
  BY DEF Q!RowSection
<1>7. \A n \in Q!ToSet(u.picks["group"]) : n = << >> \/ n \in names
  <2>1. CASE r = "group"
    <3>1. Q!ToSet(Q!SectionChoices(r)) = names
      BY <1>1, <2>1, SectionIs
    <3>2. \A n \in Q!ToSet(builder.picks["group"]) : n = << >> \/ n \in names
      BY <1>5 DEF Chosen
    <3> QED
      BY <1>4, <2>1, <3>1, <3>2
  <2>2. CASE r # "group"
    BY <1>4, <1>5, <1>6, <2>2 DEF Chosen
  <2> QED
    BY <2>1, <2>2
<1>8. \A n \in Q!ToSet(u.picks["sort"]) : n = << >> \/ n \in names \/ Len(n) = 3
  <2>1. CASE r = "sort"
    <3>1. \A n \in Q!ToSet(Q!SectionChoices(r)) : n \in names \/ Len(n) = 3
      BY <1>1, <2>1, SectionIs
    <3>2. \A n \in Q!ToSet(builder.picks["sort"]) : n = << >> \/ n \in names \/ Len(n) = 3
      BY <1>5 DEF Chosen
    <3> QED
      BY <1>4, <2>1, <3>1, <3>2
  <2>2. CASE r # "sort"
    BY <1>4, <1>5, <1>6, <2>2 DEF Chosen
  <2> QED
    BY <2>1, <2>2
<1>9. \A a \in Q!ToSet(u.picks["aggregate"]) :
        a.column \in names \cup {<< >>} \/ (a.column = Q!AllRows /\ a.fn = "COUNT")
  BY <1>4, <1>5, <1>6 DEF Chosen
<1>10. Chosen(u.picks, names)
  BY <1>7, <1>8, <1>9 DEF Chosen
<1>11. Fit(catalog, u)
  BY <1>1, <1>4, <1>10, RepickedFits DEF QueryFits
<1> QED
  BY <1>1, <1>4, <1>11 DEF Q!Set, QueryFits, Follows

LEMMA RowThere ==
  ASSUME QueryFits, NEW r \in Q!RowSection
  PROVE  Q!IsSeq(builder.picks[r])
BY BuilderThere DEF Picks

LEMMA AddRowFits ==
  ASSUME QueryFits, NEW r \in Q!RowSection, Q!AddRow(r)
  PROVE  Follows
<1>1. PICK s, x, v : /\ s = builder.picks[r] /\ x = Q!Refill(Q!Nothing, Q!SectionChoices(r))
                     /\ v = Append(s, x)
  OBVIOUS
<1>2. r # "aggregate" /\ Q!Set(Q!WithRows(builder, r, v))
  BY <1>1 DEF Q!AddRow
<1>3. Q!IsSeq(s) /\ Q!IsSeq(Q!SectionChoices(r))
  BY <1>1, RowThere, SectionIs
<1>4. Q!IsSeq(v) /\ Q!ToSet(v) = Q!ToSet(s) \cup {x}
  BY <1>1, <1>3, AppendHolds
<1>5. x = << >> \/ x \in Q!ToSet(Q!SectionChoices(r))
  BY <1>1, <1>3, RefillIs
<1> QED
  BY <1>1, <1>2, <1>4, <1>5, RowsFit

LEMMA RemoveRowFits ==
  ASSUME QueryFits, NEW r \in Q!RowSection, NEW k \in DOMAIN builder.picks[r], Q!RemoveRow(r, k)
  PROVE  Follows
<1>1. PICK s, v : s = builder.picks[r] /\ v = Q!RemoveAt(s, k)
  OBVIOUS
<1>2. r # "aggregate" /\ Q!Set(Q!WithRows(builder, r, v))
  BY <1>1 DEF Q!RemoveRow
<1>3. Q!IsSeq(s)
  BY <1>1, RowThere
<1>4. Q!IsSeq(v)
  BY <1>1, <1>3, RemovedIs
<1>5. \A x \in DOMAIN v : \E y \in DOMAIN s : v[x] = s[y]
  BY <1>1, <1>3, RemovedFrom
<1>6. \A n \in Q!ToSet(v) : n \in Q!ToSet(s)
  BY <1>5 DEF Q!ToSet
<1> QED
  BY <1>1, <1>2, <1>4, <1>6, RowsFit

LEMMA ChooseRowFits ==
  ASSUME QueryFits, NEW r \in Q!RowSection, NEW k \in DOMAIN builder.picks[r], Q!ChooseRow(r, k)
  PROVE  Follows
<1>1. PICK s : s = builder.picks[r]
  OBVIOUS
<1>2. r # "aggregate"
  BY DEF Q!ChooseRow
<1>3. PICK n \in Q!ToSet(Q!SectionChoices(r)) : Q!Set(Q!WithRows(builder, r, [s EXCEPT ![k] = n]))
  BY <1>1 DEF Q!ChooseRow
<1>4. PICK v : v = [s EXCEPT ![k] = n]
  OBVIOUS
<1>5. Q!IsSeq(s)
  BY <1>1, RowThere
<1>6. Q!IsSeq(v) /\ DOMAIN v = DOMAIN s /\ \A j \in DOMAIN s : v[j] = IF j = k THEN n ELSE s[j]
  BY <1>4, <1>5, ReplacedIs
<1>7. \A x \in Q!ToSet(v) : x = n \/ x \in Q!ToSet(s)
  BY <1>6 DEF Q!ToSet
<1> QED
  BY <1>1, <1>2, <1>3, <1>4, <1>6, <1>7, RowsFit

LEMMA NewAggregateIs == ASSUME NEW names PROVE IsRow(Q!NewAggregate(names))
BY DEF Q!NewAggregate, IsRow

\* The tab an aggregate is added to, before it syncs.
LEMMA AggregateAdded ==
  ASSUME Q!BuilderAssumption, NEW cat, IsCatalog(cat), NEW t, IsTab(t), Lines(cat, t.lines),
         Picks(t.picks), NEW u, u = Q!AddAggregateTo(cat, t)
  PROVE  Fit(cat, u) /\ Same(t.lines, u.lines)
<1>1. PICK s, a, v : /\ s = t.picks["aggregate"]
                     /\ a = Q!NewAggregate(Q!Offered(cat, t.lines, Q!Aliases(t.lines)))
                     /\ v = Append(s, a)
  OBVIOUS
<1>2. PICK w : w = Q!WithRows(t, "aggregate", v)
  OBVIOUS
<1>3. u = Q!Sync(cat, w)
  BY <1>1, <1>2 DEF Q!AddAggregateTo
<1>4. IsRow(a)
  BY <1>1, NewAggregateIs
<1>5. "aggregate" \in Q!RowSection
  BY DEF Q!RowSection
<1>6. Q!IsSeq(s) /\ \A x \in Q!ToSet(s) : IsRow(x)
  BY <1>1, <1>5 DEF Picks
<1>7. Q!IsSeq(v) /\ Q!ToSet(v) = Q!ToSet(s) \cup {a}
  BY <1>1, <1>6, AppendHolds
<1>8. \A x \in Q!ToSet(v) : IsRow(x)
  BY <1>4, <1>6, <1>7
<1>9. Picks(w.picks) /\ Repicked(t, "aggregate", v, w)
  BY <1>2, <1>5, <1>7, <1>8, RowsSet
<1>10. w.lines = t.lines
  BY <1>9 DEF Repicked
<1>11. Fit(cat, u)
  BY <1>3, <1>9, <1>10, SyncFits
<1>12. Same(t.lines, u.lines)
  BY <1>3, <1>9, <1>10, SyncLines
<1> QED
  BY <1>11, <1>12

LEMMA SetAggregatesFits ==
  ASSUME Q!BuilderAssumption, QueryFits, NEW s, Q!IsSeq(s), \A a \in Q!ToSet(s) : IsRow(a),
         Q!SetAggregates(s)
  PROVE  Follows
<1>1. PICK u : u = Q!WithRows(builder, "aggregate", s)
  OBVIOUS
<1>2. IsTab(builder) /\ Lines(catalog, builder.lines) /\ Picks(builder.picks)
  BY BuilderThere
<1>3. "aggregate" \in Q!RowSection
  BY DEF Q!RowSection
<1>4. Picks(u.picks) /\ Repicked(builder, "aggregate", s, u)
  BY <1>1, <1>2, <1>3, RowsSet
<1>5. u.lines = builder.lines /\ AsPicked(u)
  BY <1>4 DEF Repicked, AsPicked, Q!RowSection
<1>6. Q!Restructure(u)
  BY <1>1 DEF Q!SetAggregates
<1> QED
  BY <1>2, <1>4, <1>5, <1>6, RestructureFits

LEMMA AggregatesThere ==
  ASSUME QueryFits
  PROVE  /\ Q!IsSeq(builder.picks["aggregate"])
         /\ \A a \in Q!ToSet(builder.picks["aggregate"]) : IsRow(a)
BY BuilderThere DEF Picks, Q!RowSection

LEMMA AddAggregateFits ==
  ASSUME Q!BuilderAssumption, QueryFits, Q!AddAggregate
  PROVE  Follows
<1>1. PICK s, a, v : /\ s = builder.picks["aggregate"] /\ v = Append(s, a)
                     /\ a = Q!NewAggregate(Q!Offered(catalog, builder.lines,
                                                     Q!Aliases(builder.lines)))
  OBVIOUS
<1>2. Q!IsSeq(s) /\ \A x \in Q!ToSet(s) : IsRow(x)
  BY <1>1, AggregatesThere
<1>3. Q!IsSeq(v) /\ Q!ToSet(v) = Q!ToSet(s) \cup {a}
  BY <1>1, <1>2, AppendHolds
<1>4. \A x \in Q!ToSet(v) : IsRow(x)
  BY <1>1, <1>2, <1>3, NewAggregateIs
<1>5. Q!SetAggregates(v)
  BY <1>1 DEF Q!AddAggregate, Q!AddAggregateTo, Q!SetAggregates, Q!Restructure
<1> QED
  BY <1>3, <1>4, <1>5, SetAggregatesFits

LEMMA RemoveAggregateFits ==
  ASSUME Q!BuilderAssumption, QueryFits, NEW k \in DOMAIN builder.picks["aggregate"],
         Q!RemoveAggregate(k)
  PROVE  Follows
<1>1. PICK s, v : s = builder.picks["aggregate"] /\ v = Q!RemoveAt(s, k)
  OBVIOUS
<1>2. Q!IsSeq(s) /\ \A a \in Q!ToSet(s) : IsRow(a)
  BY <1>1, AggregatesThere
<1>3. Q!IsSeq(v)
  BY <1>1, <1>2, RemovedIs
<1>4. \A x \in DOMAIN v : \E y \in DOMAIN s : v[x] = s[y]
  BY <1>1, <1>2, RemovedFrom
<1>5. \A a \in Q!ToSet(v) : IsRow(a)
  BY <1>2, <1>4 DEF Q!ToSet
<1>6. Q!SetAggregates(v)
  BY <1>1 DEF Q!RemoveAggregate
<1> QED
  BY <1>3, <1>5, <1>6, SetAggregatesFits

LEMMA ReplaceAggregateFits ==
  ASSUME Q!BuilderAssumption, QueryFits, NEW k, NEW fn, NEW n,
         Q!SetAggregates([builder.picks["aggregate"] EXCEPT ![k] = [fn |-> fn, column |-> n]])
  PROVE  Follows
<1>1. PICK s, a, v : /\ s = builder.picks["aggregate"] /\ a = [fn |-> fn, column |-> n]
                     /\ v = [s EXCEPT ![k] = a]
  OBVIOUS
<1>2. Q!IsSeq(s) /\ \A x \in Q!ToSet(s) : IsRow(x)
  BY <1>1, AggregatesThere
<1>3. IsRow(a)
  BY <1>1 DEF IsRow
<1>4. Q!IsSeq(v) /\ DOMAIN v = DOMAIN s /\ \A j \in DOMAIN s : v[j] = IF j = k THEN a ELSE s[j]
  BY <1>1, <1>2, ReplacedIs
<1>5. \A x \in Q!ToSet(v) : IsRow(x)
  BY <1>2, <1>3, <1>4 DEF Q!ToSet
<1>6. Q!SetAggregates(v)
  BY <1>1
<1> QED
  BY <1>4, <1>5, <1>6, SetAggregatesFits

\* An edit of a tab that fits leaves one that fits.
LEMMA EditFits ==
  ASSUME Q!BuilderAssumption, QueryFits, Q!Edit
  PROVE  Follows
<1>1. ASSUME NEW t \in Q!Tables(catalog), Q!PickBase(t) PROVE Follows
  BY <1>1, PickBaseFits
<1>2. \A i \in Q!Joined : i \in DOMAIN builder.lines /\ i # 1
  BY BuilderThere, LinesAre DEF Q!Joined
<1>3. ASSUME NEW t \in Q!Tables(catalog), NEW i \in Q!Joined, Q!PickTable(i, t) PROVE Follows
  BY <1>2, <1>3, PickTableFits
<1>4. ASSUME NEW i \in DOMAIN builder.lines, NEW word \in Word \cup {Q!Untyped},
             Q!TypeAlias(i, word)
      PROVE  Follows
  BY <1>4, TypeAliasFits
<1>5. ASSUME NEW i \in Q!Joined, Q!RemoveJoin(i) PROVE Follows
  BY <1>5, RemoveJoinFits
<1>6. ASSUME NEW i \in Q!Joined, Q!AddOn(i) PROVE Follows
  BY <1>2, <1>6, AddOnFits
<1>7. ASSUME NEW i \in Q!Joined, NEW kind \in Kind, Q!PickKind(i, kind) PROVE Follows
  BY <1>2, <1>7, PickKindFits
<1>8. ASSUME NEW i \in Q!Joined, NEW k \in DOMAIN builder.lines[i].on, Q!RemoveOn(i, k)
      PROVE  Follows
  BY <1>2, <1>8, RemoveOnFits
<1>9. ASSUME NEW i \in Q!Joined, NEW k \in DOMAIN builder.lines[i].on,
             NEW side \in {"left", "right"}, Q!PickOn(i, k, side)
      PROVE  Follows
  BY <1>2, <1>9, PickOnFits
<1>10. ASSUME NEW n, Q!Tick(n) \/ Q!Untick(n) PROVE Follows
  BY <1>10, TickFits
<1>11. ASSUME NEW r \in Q!RowSection, Q!AddRow(r) PROVE Follows
  BY <1>11, AddRowFits
<1>12. ASSUME NEW r \in Q!RowSection, NEW k \in DOMAIN builder.picks[r],
              Q!RemoveRow(r, k) \/ Q!ChooseRow(r, k)
       PROVE  Follows
  BY <1>12, RemoveRowFits, ChooseRowFits
<1>13. ASSUME NEW k \in DOMAIN builder.picks["aggregate"], Q!RemoveAggregate(k) PROVE Follows
  BY <1>13, RemoveAggregateFits
<1>14. ASSUME NEW k \in DOMAIN builder.picks["aggregate"], Q!PickAggregated(k) PROVE Follows
  <2>1. PICK n : Q!SetAggregates([builder.picks["aggregate"] EXCEPT ![k] =
                   [fn |-> builder.picks["aggregate"][k].fn, column |-> n]])
    BY <1>14 DEF Q!PickAggregated
  <2> QED
    BY <2>1, ReplaceAggregateFits
<1>15. ASSUME NEW k \in DOMAIN builder.picks["aggregate"], NEW fn, Q!PickFunction(k, fn)
       PROVE  Follows
  <2>1. PICK n : n = Q!Refill(builder.picks["aggregate"][k].column,
                              Q!AggregateChoices(fn, Q!SectionChoices("group")))
    OBVIOUS
  <2>2. Q!SetAggregates([builder.picks["aggregate"] EXCEPT ![k] = [fn |-> fn, column |-> n]])
    BY <1>15, <2>1 DEF Q!PickFunction
  <2> QED
    BY <2>2, ReplaceAggregateFits
<1>16. CASE Q!AddJoin
  BY <1>16, AddJoinFits
<1>17. CASE Q!AddAggregate \/ Q!ToggleAuto
  BY <1>17, AddAggregateFits, ToggleFits
<1> QED
  BY <1>1, <1>3, <1>4, <1>5, <1>6, <1>7, <1>8, <1>9, <1>10, <1>11, <1>12, <1>13, <1>14, <1>15,
     <1>16, <1>17 DEF Q!Edit

-----------------------------------------------------------------------------
(* The statement of a tab that fits.                                       *)

\* The conditions a join is saved with: complete ones, each between an earlier
\* source and its own.
LEMMA ConditionsAre ==
  ASSUME NEW cat, NEW lines, NEW alias, NEW i, Joins(cat, lines, alias, i, lines[i].on),
         NEW P, P = Q!Conditions(lines[i])
  PROVE  /\ Q!IsSeq(P) /\ (lines[i].kind = "CROSS JOIN" \/ P # << >>)
         /\ \A c \in Q!ToSet(P) : /\ c[1] \in Names(cat, lines, alias, 1 .. i - 1)
                                  /\ c[2] \in Of(cat, lines[i], alias[i])
<1>1. PICK on : on = lines[i].on
  OBVIOUS
<1>2. /\ Q!IsSeq(on) /\ on # << >> /\ on[1].left # << >> /\ on[1].right # << >>
      /\ \A c \in Q!ToSet(on) : Sided(cat, lines, alias, i, c)
  BY <1>1 DEF Joins
<1> DEFINE S == {k \in DOMAIN on : on[k].left # << >> /\ on[k].right # << >>}
           complete == Q!Sifted(on, S)
           one(c) == <<c.left, c.right>>
           pairs == [k \in DOMAIN complete |-> one(complete[k])]
<1>3. P = IF lines[i].kind = "CROSS JOIN" THEN << >> ELSE pairs
  BY <1>1 DEF Q!Conditions, Q!Nothing
<1>4. S \in SUBSET DOMAIN on /\ 1 \in S
  BY <1>2, NotEmpty
<1>5. \A k \in S : /\ on[k].left \in Names(cat, lines, alias, 1 .. i - 1)
                   /\ on[k].right \in Of(cat, lines[i], alias[i])
  BY <1>2 DEF Q!ToSet, Sided
<1> HIDE DEF S
<1>6. Q!IsSeq(complete) /\ Q!ToSet(complete) = {on[k] : k \in S}
  BY <1>2, <1>4, SiftedIs
<1> HIDE DEF complete
<1>7. complete # << >>
  BY <1>4, <1>6, NoneHolds
<1>8. DOMAIN complete = 1 .. Len(complete) /\ Len(complete) \in Nat /\ 1 \in DOMAIN complete
  BY <1>6, <1>7, SeqDomain, NotEmpty
<1>9. pairs = [k \in 1 .. Len(complete) |-> pairs[k]]
  BY <1>8
<1>10. Q!IsSeq(pairs) /\ pairs # << >>
  <2>1. 1 \in DOMAIN pairs
    BY <1>8
  <2> HIDE DEF pairs
  <2>2. Q!IsSeq(pairs)
    BY <1>8, <1>9, SeqOver
  <2> QED
    BY <2>1, <2>2, NotEmpty
<1>11. \A c : one(c)[1] = c.left /\ one(c)[2] = c.right
  OBVIOUS
<1> HIDE DEF one
<1>12. \A c \in Q!ToSet(pairs) : \E x \in Q!ToSet(complete) : c = one(x)
  BY DEF Q!ToSet
<1> HIDE DEF pairs
<1>13. \A c \in Q!ToSet(pairs) : /\ c[1] \in Names(cat, lines, alias, 1 .. i - 1)
                                 /\ c[2] \in Of(cat, lines[i], alias[i])
  BY <1>5, <1>6, <1>11, <1>12
<1>14. CASE P = << >> /\ lines[i].kind = "CROSS JOIN"
  BY <1>14, NoneHolds
<1>15. CASE P = pairs
  BY <1>10, <1>13, <1>15
<1> QED
  BY <1>3, <1>14, <1>15

\* All lines but the first, by their places.
LEMMA AllBuilt ==
  ASSUME NEW n \in Nat, n # 0, NEW s, s = [i \in 1 .. n |-> i]
  PROVE  Q!Sifted(s, 2 .. n) = [k \in 1 .. n - 1 |-> k + 1]
<1> DEFINE S == 2 .. n
<1>1. \A i \in S : Cardinality({k \in S : k <= i}) = i - 1
  <2> SUFFICES ASSUME NEW i \in S PROVE Cardinality({k \in S : k <= i}) = i - 1
    OBVIOUS
  <2>1. {k \in S : k <= i} = 2 .. i
    OBVIOUS
  <2>2. 2 \in Int /\ i \in Int /\ ~ (2 > i)
    OBVIOUS
  <2>3. Cardinality(2 .. i) = i - 2 + 1
    BY <2>2, FS_Interval
  <2>4. i - 2 + 1 = i - 1
    BY <2>2
  <2> HIDE DEF S
  <2> QED
    BY <2>1, <2>3, <2>4
<1>2. \A i \in S : Q!Rank(S, i) = i - 1
  <2> HIDE DEF S
  <2> QED
    BY <1>1, SameCounted DEF Q!Rank
<1>3. Cardinality(S) = n - 1
  <2>1. 2 \in Int /\ n \in Int
    OBVIOUS
  <2>2. Cardinality(2 .. n) = IF 2 > n THEN 0 ELSE n - 2 + 1
    BY <2>1, FS_Interval
  <2> QED
    BY <2>2
<1>4. \A k \in 1 .. n - 1 : (CHOOSE i \in S : Q!Rank(S, i) = k) = k + 1
  <2> SUFFICES ASSUME NEW k \in 1 .. n - 1
               PROVE  (CHOOSE i \in S : Q!Rank(S, i) = k) = k + 1
    OBVIOUS
  <2>1. k + 1 \in S /\ \A i \in S : i - 1 = k <=> i = k + 1
    OBVIOUS
  <2>2. k + 1 \in S /\ \A i \in S : Q!Rank(S, i) = k <=> i = k + 1
    BY <1>2, <2>1
  <2> HIDE DEF S
  <2> QED
    BY <2>2
<1>5. \A k \in 1 .. n - 1 : s[k + 1] = k + 1
  OBVIOUS
<1>6. Q!Sifted(s, S) = [k \in 1 .. Cardinality(S) |-> s[CHOOSE i \in S : Q!Rank(S, i) = k]]
  BY SameCounted DEF Q!Sifted
<1> HIDE DEF S
<1>7. Q!Sifted(s, S) = [k \in 1 .. n - 1 |-> k + 1]
  <2>1. Q!Sifted(s, S) = [k \in 1 .. n - 1 |-> s[CHOOSE i \in S : Q!Rank(S, i) = k]]
    BY <1>3, <1>6
  <2>2. \A k \in 1 .. n - 1 : s[CHOOSE i \in S : Q!Rank(S, i) = k] = k + 1
    BY <1>4, <1>5
  <2> QED
    BY <2>1, <2>2
<1> QED
  BY <1>7 DEF S

LEMMA FoundIs ==
  ASSUME NEW s, Q!IsSeq(s)
  PROVE  Q!IsSeq(Q!Found(s)) /\ Q!ToSet(Q!Found(s)) = Q!ToSet(s) \ {<< >>}
<1>1. PICK T : T = Q!ToSet(s) \ {<< >>}
  OBVIOUS
<1>2. Q!Found(s) = Q!Only(s, T)
  BY <1>1 DEF Q!Found, Q!Nothing
<1>3. Q!IsSeq(Q!Only(s, T)) /\ Q!ToSet(Q!Only(s, T)) = Q!ToSet(s) \cap T
  BY OnlyIs
<1> QED
  BY <1>1, <1>2, <1>3

\* What the statement shows of the names of its sources.
Seen(cat, lines, alias) == {Q!Shown(n, lines) : n \in Names(cat, lines, alias, DOMAIN lines)}

LEMMA PlainIs ==
  ASSUME NEW cat, IsCatalog(cat), NEW t, Lines(cat, t.lines), NEW alias,
         NEW P, P = Q!Plain(cat, t, alias)
  PROVE  Q!IsSeq(P) /\ Q!ToSet(P) \subseteq Seen(cat, t.lines, alias)
<1>1. PICK lines, q, s : /\ lines = t.lines /\ q = Q!Qualified(cat, lines, alias)
                         /\ s = Q!Only(q, t.checked)
  OBVIOUS
<1>2. Q!IsSeq(q) /\ Q!ToSet(q) = Names(cat, lines, alias, DOMAIN lines)
  BY <1>1, LinesAre, QualifiedIs DEF Lines
<1>3. Q!IsSeq(s) /\ Q!ToSet(s) \subseteq Names(cat, lines, alias, DOMAIN lines)
  BY <1>1, <1>2, OnlyIs
<1>4. DOMAIN s = 1 .. Len(s) /\ Len(s) \in Nat
  BY <1>3, SeqDomain
<1>5. P = [k \in 1 .. Len(s) |-> Q!Shown(s[k], lines)]
  BY <1>1, <1>4 DEF Q!Plain
<1>6. P = [k \in 1 .. Len(s) |-> P[k]]
  BY <1>5
<1>7. Q!IsSeq(P)
  BY <1>4, <1>6, SeqOver
<1>8. \A x \in Q!ToSet(P) : \E n \in Q!ToSet(s) : x = Q!Shown(n, lines)
  BY <1>4, <1>5 DEF Q!ToSet
<1> QED
  BY <1>1, <1>3, <1>7, <1>8 DEF Seen

LEMMA GroupingIs ==
  ASSUME NEW cat, IsCatalog(cat), NEW t, Lines(cat, t.lines), NEW alias,
         Q!IsSeq(t.picks["group"]),
         \A n \in Q!ToSet(t.picks["group"]) : n = << >> \/ n \in Seen(cat, t.lines, alias),
         NEW P, P = Q!Grouping(cat, t, alias)
  PROVE  Q!IsSeq(P) /\ Q!ToSet(P) \subseteq Seen(cat, t.lines, alias)
<1>1. PICK g, f, p : /\ g = t.picks["group"] /\ f = Q!Found(g) /\ p = Q!Plain(cat, t, alias)
  OBVIOUS
<1>2. PICK e : e = IF t.autoGroup /\ Q!Labels(t.picks["aggregate"]) # << >> THEN p ELSE << >>
  OBVIOUS
<1>3. PICK both : both = f \o e
  OBVIOUS
<1>4. Q!IsSeq(f) /\ Q!ToSet(f) \subseteq Seen(cat, t.lines, alias)
  BY <1>1, FoundIs
<1>5. Q!IsSeq(p) /\ Q!ToSet(p) \subseteq Seen(cat, t.lines, alias)
  BY <1>1, PlainIs
<1>6. Q!IsSeq(e) /\ Q!ToSet(e) \subseteq Seen(cat, t.lines, alias)
  BY <1>2, <1>5, NoneHolds
<1>7. Q!IsSeq(both)
  BY <1>3, <1>4, <1>6, SeqJoin
<1>8. Q!ToSet(both) \subseteq Seen(cat, t.lines, alias)
  BY <1>3, <1>4, <1>6, JoinHolds
<1> DEFINE S == {k \in DOMAIN both : \A l \in 1 .. k - 1 : both[l] # both[k]}
<1>9. P = Q!Sifted(both, S)
  BY <1>1, <1>2, <1>3 DEF Q!Grouping
<1>10. S \in SUBSET DOMAIN both
  OBVIOUS
<1>11. {both[k] : k \in S} \subseteq Q!ToSet(both)
  BY DEF Q!ToSet
<1> HIDE DEF S
<1>12. Q!IsSeq(Q!Sifted(both, S)) /\ Q!ToSet(Q!Sifted(both, S)) = {both[k] : k \in S}
  BY <1>7, <1>10, SiftedIs
<1> QED
  BY <1>8, <1>9, <1>11, <1>12

\* A statement about the sources `lines`, called `alias`.
Model(cat, lines, alias, m) ==
  /\ m.source.table = lines[1].table /\ m.source.alias = alias[1]
  /\ Q!IsSeq(m.joins) /\ DOMAIN m.joins = 1 .. Len(lines) - 1
  /\ \A k \in 1 .. Len(lines) - 1 :
       /\ m.joins[k].table = lines[k + 1].table /\ m.joins[k].alias = alias[k + 1]
       /\ m.joins[k].kind = lines[k + 1].kind /\ m.joins[k].on = Q!Conditions(lines[k + 1])
  /\ Q!IsSeq(m.ticked) /\ Q!ToSet(m.ticked) \subseteq Names(cat, lines, alias, DOMAIN lines)
  /\ Q!IsSeq(m.aggregates)
  /\ \A a \in Q!ToSet(m.aggregates) : IsRow(a) /\ a.column \in Seen(cat, lines, alias) \cup {Q!AllRows}
  /\ Q!IsSeq(m.where) /\ Q!ToSet(m.where) \subseteq Seen(cat, lines, alias)
  /\ Q!IsSeq(m.groupBy) /\ Q!ToSet(m.groupBy) \subseteq Seen(cat, lines, alias)
  /\ Q!IsSeq(m.having) /\ Q!IsSeq(m.orderBy)
  /\ \A n \in Q!ToSet(m.orderBy) : Len(n) = 2 => n \in Seen(cat, lines, alias)

LEMMA ModelIs ==
  ASSUME NEW cat, IsCatalog(cat), NEW t, Fit(cat, t), NEW m, m = Q!QueryModel(cat, t)
  PROVE  Model(cat, t.lines, Q!Named(t), m)
<1>1. PICK lines, alias, p : lines = t.lines /\ alias = Q!Named(t) /\ p = t.picks
  OBVIOUS
<1>2. PICK names, labels, q : /\ names = Q!Offered(cat, lines, alias)
                              /\ labels = Q!Labels(p["aggregate"])
                              /\ q = Q!Qualified(cat, lines, alias)
  OBVIOUS
<1> DEFINE n == Len(lines)
           built == {i \in 2 .. n : lines[i].kind = "CROSS JOIN" \/ Q!Conditions(lines[i]) # << >>}
           joined == Q!Sifted([i \in DOMAIN lines |-> i], built)
           one(i) == [table |-> lines[i].table, alias |-> alias[i], kind |-> lines[i].kind,
                      on |-> Q!Conditions(lines[i])]
           joins == [k \in DOMAIN joined |-> one(joined[k])]
           source == [table |-> lines[1].table, alias |-> alias[1]]
<1>3. m = [source |-> source, joins |-> joins, ticked |-> Q!Only(q, t.checked),
           aggregates |-> Q!Valid(p["aggregate"]), where |-> Q!Only(p["filter"], Q!ToSet(names)),
           groupBy |-> Q!Grouping(cat, t, alias), having |-> Q!Only(p["having"], Q!ToSet(labels)),
           orderBy |-> Q!Found(p["sort"])]
  BY <1>1, <1>2 DEF Q!QueryModel
<1>4. /\ Lines(cat, lines) /\ Picks(p) /\ Chosen(p, Q!ToSet(names))
      /\ \A i \in DOMAIN lines : i # 1 => Joins(cat, lines, alias, i, lines[i].on)
  BY <1>1, <1>2 DEF Fit
<1>5. DOMAIN lines = 1 .. n /\ n \in Nat /\ n # 0 /\ Q!IsSeq(lines)
  BY <1>4, LinesAre DEF Lines
<1>6. built = 2 .. n
  <2>1. \A i \in 2 .. n : lines[i].kind = "CROSS JOIN" \/ Q!Conditions(lines[i]) # << >>
    <3> SUFFICES ASSUME NEW i \in 2 .. n
                 PROVE  lines[i].kind = "CROSS JOIN" \/ Q!Conditions(lines[i]) # << >>
      OBVIOUS
    <3>1. i \in DOMAIN lines /\ i # 1
      BY <1>5
    <3>2. Joins(cat, lines, alias, i, lines[i].on)
      BY <1>4, <3>1
    <3> QED
      BY <3>2, ConditionsAre
  <2> QED
    BY <2>1
<1>7. joined = [k \in 1 .. n - 1 |-> k + 1]
  <2>1. PICK s : s = [i \in DOMAIN lines |-> i]
    OBVIOUS
  <2>2. s = [i \in 1 .. n |-> i]
    BY <1>5, <2>1
  <2> HIDE DEF n, built
  <2>3. Q!Sifted(s, 2 .. n) = [k \in 1 .. n - 1 |-> k + 1]
    BY <1>5, <2>2, AllBuilt
  <2> QED
    BY <1>6, <2>1, <2>3
<1> HIDE DEF joined, n
<1>8. DOMAIN joins = 1 .. n - 1 /\ \A k \in 1 .. n - 1 : joins[k] = one(k + 1)
  BY <1>7
<1>9. Q!IsSeq(joins)
  <2>1. joins = [k \in 1 .. n - 1 |-> joins[k]]
    BY <1>7
  <2>2. n - 1 \in Nat
    BY <1>5
  <2> HIDE DEF joins
  <2> QED
    BY <2>1, <2>2, SeqOver
<1>10. /\ source.table = lines[1].table /\ source.alias = alias[1]
       /\ \A i : /\ one(i).table = lines[i].table /\ one(i).alias = alias[i]
                 /\ one(i).kind = lines[i].kind /\ one(i).on = Q!Conditions(lines[i])
  OBVIOUS
<1> HIDE DEF joins, one, source
<1>11. /\ m.source = source /\ m.joins = joins /\ m.ticked = Q!Only(q, t.checked)
       /\ m.aggregates = Q!Valid(p["aggregate"]) /\ m.where = Q!Only(p["filter"], Q!ToSet(names))
       /\ m.groupBy = Q!Grouping(cat, t, alias) /\ m.having = Q!Only(p["having"], Q!ToSet(labels))
       /\ m.orderBy = Q!Found(p["sort"])
  BY <1>3
<1>12. Q!ToSet(names) = Seen(cat, lines, alias) /\ Q!IsSeq(names)
  BY <1>2, <1>4, <1>5, LinesAre, OfferedIs DEF Seen
<1>13. Q!IsSeq(q) /\ Q!ToSet(q) = Names(cat, lines, alias, DOMAIN lines)
  BY <1>2, <1>4, <1>5, LinesAre, QualifiedIs
<1>14. /\ Q!IsSeq(p["filter"]) /\ Q!IsSeq(p["sort"]) /\ Q!IsSeq(p["aggregate"])
       /\ Q!IsSeq(p["group"]) /\ Q!IsSeq(p["having"])
       /\ \A a \in Q!ToSet(p["aggregate"]) : IsRow(a)
  BY <1>4 DEF Picks, Q!RowSection
<1>15. Q!IsSeq(m.ticked) /\ Q!ToSet(m.ticked) \subseteq Names(cat, lines, alias, DOMAIN lines)
  BY <1>11, <1>13, OnlyIs
<1>16. Q!IsSeq(m.aggregates)
  BY <1>11, <1>14, ValidIs
<1>17. \A a \in Q!ToSet(m.aggregates) :
         IsRow(a) /\ a.column \in Seen(cat, lines, alias) \cup {Q!AllRows}
  <2>1. Q!ToSet(m.aggregates) = {a \in Q!ToSet(p["aggregate"]) : a.column # << >>}
    BY <1>11, <1>14, ValidIs
  <2>2. \A a \in Q!ToSet(p["aggregate"]) :
          a.column \in Seen(cat, lines, alias) \cup {<< >>, Q!AllRows}
    BY <1>4, <1>12 DEF Chosen
  <2> QED
    BY <1>14, <2>1, <2>2
<1>18. Q!IsSeq(m.where) /\ Q!ToSet(m.where) \subseteq Seen(cat, lines, alias)
  BY <1>11, <1>12, <1>14, OnlyIs
<1>19. Q!IsSeq(m.groupBy) /\ Q!ToSet(m.groupBy) \subseteq Seen(cat, lines, alias)
  <2>1. \A x \in Q!ToSet(t.picks["group"]) : x = << >> \/ x \in Seen(cat, t.lines, alias)
    BY <1>1, <1>4, <1>12 DEF Chosen
  <2>2. Q!IsSeq(t.picks["group"]) /\ Lines(cat, t.lines)
    BY <1>1, <1>4, <1>14
  <2> QED
    BY <1>1, <1>11, <2>1, <2>2, GroupingIs
<1>20. Q!IsSeq(m.having)
  BY <1>11, <1>14, OnlyIs
<1>21. Q!IsSeq(m.orderBy)
  BY <1>11, <1>14, FoundIs
<1>22. \A x \in Q!ToSet(m.orderBy) : Len(x) = 2 => x \in Seen(cat, lines, alias)
  <2>1. Q!ToSet(m.orderBy) \subseteq Q!ToSet(p["sort"])
    BY <1>11, <1>14, FoundIs
  <2>2. Len(<< >>) = 0
    OBVIOUS
  <2> QED
    BY <1>4, <1>12, <2>1, <2>2 DEF Chosen
<1>23. m.source.table = lines[1].table /\ m.source.alias = alias[1]
  BY <1>10, <1>11
<1>24. Q!IsSeq(m.joins) /\ DOMAIN m.joins = 1 .. n - 1
  BY <1>8, <1>9, <1>11
<1>25. \A k \in 1 .. n - 1 :
         /\ m.joins[k].table = lines[k + 1].table /\ m.joins[k].alias = alias[k + 1]
         /\ m.joins[k].kind = lines[k + 1].kind /\ m.joins[k].on = Q!Conditions(lines[k + 1])
  BY <1>8, <1>10, <1>11
<1>26. Model(cat, lines, alias, m)
  BY <1>15, <1>16, <1>17, <1>18, <1>19, <1>20, <1>21, <1>22, <1>23, <1>24, <1>25 DEF Model, n
<1> QED
  BY <1>1, <1>26

LEMMA SameLength ==
  ASSUME NEW n \in Nat, NEW k \in Nat, 1 .. n = 1 .. k
  PROVE  n = k
<1>1. n = 0 \/ n \in 1 .. k
  OBVIOUS
<1>2. k = 0 \/ k \in 1 .. n
  OBVIOUS
<1> QED
  BY <1>1, <1>2

\* The sources of a statement are the lines it was made of.
LEMMA SourcesAre ==
  ASSUME NEW cat, NEW lines, Lines(cat, lines), NEW alias, NEW m, Model(cat, lines, alias, m),
         NEW s, s = Q!Sources(m)
  PROVE  /\ Q!IsSeq(s) /\ DOMAIN s = DOMAIN lines /\ Len(s) = Len(lines)
         /\ \A i \in DOMAIN lines : s[i].table = lines[i].table /\ s[i].alias = alias[i]
         /\ s[1] = m.source /\ \A k \in DOMAIN m.joins : s[k + 1] = m.joins[k]
<1>1. PICK a, b : a = <<m.source>> /\ b = m.joins
  OBVIOUS
<1>2. s = a \o b
  BY <1>1 DEF Q!Sources
<1>3. Q!IsSeq(a) /\ Len(a) = 1 /\ a[1] = m.source
  BY <1>1, OneHolds
<1>4. Q!IsSeq(b) /\ DOMAIN b = 1 .. Len(lines) - 1
  BY <1>1 DEF Model
<1>5. DOMAIN lines = 1 .. Len(lines) /\ Len(lines) \in Nat /\ Len(lines) # 0
  BY LinesAre
<1>6. Len(b) = Len(lines) - 1 /\ DOMAIN a = {1}
  <2>1. DOMAIN b = 1 .. Len(b) /\ Len(b) \in Nat
    BY <1>4, SeqDomain
  <2>2. DOMAIN a = 1 .. 1
    BY <1>3, SeqDomain
  <2>3. PICK x, y : x = Len(b) /\ y = Len(lines) - 1
    OBVIOUS
  <2>4. x \in Nat /\ y \in Nat
    BY <1>5, <2>1, <2>3
  <2>5. DOMAIN b = 1 .. x /\ DOMAIN b = 1 .. y
    BY <1>4, <2>1, <2>3
  <2>6. x = y
    BY <2>4, <2>5, SameLength
  <2> QED
    BY <2>2, <2>3, <2>6
<1>7. Q!IsSeq(s) /\ Len(s) = Len(a) + Len(b)
  <2>1. Q!IsSeq(a) /\ Q!IsSeq(b)
    BY <1>3, <1>4
  <2>2. Q!IsSeq(a \o b)
    BY <2>1, SeqJoin
  <2>3. Len(a \o b) = Len(a) + Len(b)
    BY <2>1, SeqJoin
  <2> QED
    BY <1>2, <2>2, <2>3
<1>8. \A i \in DOMAIN a : s[i] = a[i]
  BY <1>2, <1>3, <1>4, SeqJoin
<1>9. \A i \in DOMAIN b : s[Len(a) + i] = b[i]
  <2>1. Q!IsSeq(a) /\ Q!IsSeq(b)
    BY <1>3, <1>4
  <2>2. \A i \in DOMAIN b : (a \o b)[Len(a) + i] = b[i]
    BY <2>1, SeqJoin
  <2> QED
    BY <1>2, <2>2
<1>10. s[1] = m.source /\ \A k \in DOMAIN m.joins : s[k + 1] = m.joins[k]
  <2>1. \A k \in DOMAIN b : s[k + 1] = b[k]
    <3> SUFFICES ASSUME NEW k \in DOMAIN b PROVE s[k + 1] = b[k]
      OBVIOUS
    <3>1. Len(a) + k = k + 1
      BY <1>3, <1>4, <1>5
    <3> QED
      BY <1>9, <3>1
  <2> QED
    BY <1>1, <1>3, <1>6, <1>8, <2>1
<1>11. Len(s) = Len(lines)
  BY <1>3, <1>5, <1>6, <1>7
<1>12. DOMAIN s = DOMAIN lines
  BY <1>5, <1>7, <1>11, SeqDomain
<1>13. ASSUME NEW i \in DOMAIN lines PROVE s[i].table = lines[i].table /\ s[i].alias = alias[i]
  <2>1. CASE i = 1
    BY <1>10, <2>1 DEF Model
  <2>2. CASE i # 1
    <3>1. PICK k : k = i - 1
      OBVIOUS
    <3>2. k \in 1 .. Len(lines) - 1 /\ k + 1 = i
      BY <1>5, <2>2, <3>1
    <3>3. s[i] = m.joins[k] /\ m.joins[k].table = lines[i].table /\ m.joins[k].alias = alias[i]
      BY <1>1, <1>4, <1>10, <3>2 DEF Model
    <3> QED
      BY <3>3
  <2> QED
    BY <2>1, <2>2
<1> QED
  BY <1>7, <1>10, <1>11, <1>12, <1>13

\* A name is a column of the source k.
At(cat, sources, n, k) ==
  /\ n[1] = sources[k].alias \/ (n[1] = << >> /\ Len(sources) = 1)
  /\ Q!Contains(Q!ColumnsOf(cat, sources[k].table), n[2])

LEMMA NamedAt ==
  ASSUME NEW cat, IsCatalog(cat), NEW lines, Lines(cat, lines), NEW alias, NEW m,
         Model(cat, lines, alias, m), NEW I \in SUBSET DOMAIN lines,
         NEW n \in Names(cat, lines, alias, I)
  PROVE  \E k \in I : At(cat, Q!Sources(m), n, k)
<1>1. PICK s : s = Q!Sources(m)
  OBVIOUS
<1>2. \A i \in DOMAIN lines : s[i].table = lines[i].table /\ s[i].alias = alias[i]
  BY <1>1, SourcesAre
<1>3. PICK k \in I : n[1] = alias[k] /\ n[2] \in Q!ToSet(Q!ColumnsOf(cat, lines[k].table))
  BY NamesThere
<1>4. s[k].table = lines[k].table /\ s[k].alias = alias[k]
  BY <1>2
<1>5. Q!IsSeq(Q!ColumnsOf(cat, lines[k].table))
  BY LinesAre, ColumnsThere
<1>6. Q!Contains(Q!ColumnsOf(cat, lines[k].table), n[2])
  BY <1>3, <1>5, Containing
<1>7. At(cat, s, n, k)
  BY <1>3, <1>4, <1>6 DEF At
<1> QED
  BY <1>1, <1>7

LEMMA SeenAt ==
  ASSUME NEW cat, IsCatalog(cat), NEW lines, Lines(cat, lines), NEW alias, NEW m,
         Model(cat, lines, alias, m), NEW n \in Seen(cat, lines, alias)
  PROVE  \E k \in DOMAIN Q!Sources(m) : At(cat, Q!Sources(m), n, k)
<1>1. PICK s : s = Q!Sources(m)
  OBVIOUS
<1>2. DOMAIN s = DOMAIN lines /\ Len(s) = Len(lines)
  BY <1>1, SourcesAre
<1>3. PICK x \in Names(cat, lines, alias, DOMAIN lines) : n = Q!Shown(x, lines)
  BY DEF Seen
<1>4. PICK k \in DOMAIN lines : At(cat, s, x, k)
  BY <1>1, NamedAt
<1>5. CASE Len(lines) > 1
  BY <1>1, <1>2, <1>3, <1>4, <1>5 DEF Q!Shown
<1>6. CASE ~ (Len(lines) > 1)
  <2>1. n = <<<< >>, x[2]>>
    BY <1>3, <1>6 DEF Q!Shown
  <2>2. n[1] = << >> /\ n[2] = x[2]
    BY <2>1
  <2>3. Len(s) = 1
    BY <1>2, <1>6, LinesAre
  <2>4. At(cat, s, n, k)
    BY <1>4, <2>2, <2>3 DEF At
  <2> QED
    BY <1>1, <1>2, <2>4
<1> QED
  BY <1>5, <1>6

\* A tab that fits describes a statement that stands on its own.
LEMMA FitResolves ==
  ASSUME QueryFits
  PROVE  Q!StatementResolves
<1>1. PICK lines, alias, m : /\ lines = builder.lines /\ alias = Q!Named(builder)
                             /\ m = Q!QueryModel(catalog, builder)
  OBVIOUS
<1>2. PICK s : s = Q!Sources(m)
  OBVIOUS
<1> DEFINE One(n, from) ==
             \E k \in from : /\ n[1] = s[k].alias \/ (n[1] = << >> /\ Len(s) = 1)
                             /\ Q!Contains(Q!ColumnsOf(catalog, s[k].table), n[2])
           named == Q!ToSet(m.ticked) \cup Q!ToSet(m.where) \cup Q!ToSet(m.groupBy)
                      \cup ({a.column : a \in Q!ToSet(m.aggregates)} \ {Q!AllRows})
                      \cup {n \in Q!ToSet(m.orderBy) : Len(n) = 2}
<1>3. /\ IsCatalog(catalog) /\ Lines(catalog, lines) /\ Aliased(lines, alias)
      /\ \A i \in DOMAIN lines : i # 1 => Joins(catalog, lines, alias, i, lines[i].on)
  BY <1>1 DEF QueryFits, Fit
<1>4. Model(catalog, lines, alias, m)
  BY <1>1, ModelIs DEF QueryFits
<1>5. /\ DOMAIN s = DOMAIN lines /\ Len(s) = Len(lines)
      /\ \A i \in DOMAIN lines : s[i].alias = alias[i]
  BY <1>2, <1>3, <1>4, SourcesAre
<1>6. DOMAIN lines = 1 .. Len(lines) /\ Len(lines) \in Nat
  BY <1>3, LinesAre
<1>7. \A i, j \in DOMAIN s : s[i].alias = s[j].alias => i = j
  BY <1>3, <1>5 DEF Aliased
<1>8. ASSUME NEW I \in SUBSET DOMAIN lines, NEW n \in Names(catalog, lines, alias, I)
      PROVE  One(n, I)
  <2>1. PICK k \in I : At(catalog, s, n, k)
    BY <1>2, <1>3, <1>4, NamedAt
  <2> QED
    BY <2>1 DEF At
<1>9. ASSUME NEW n \in Seen(catalog, lines, alias) PROVE One(n, DOMAIN s)
  <2>1. PICK k \in DOMAIN s : At(catalog, s, n, k)
    BY <1>2, <1>3, <1>4, SeenAt
  <2> QED
    BY <2>1 DEF At
<1> HIDE DEF One
<1>10. ASSUME NEW n \in named PROVE One(n, DOMAIN s)
  <2>1. CASE n \in Q!ToSet(m.ticked)
    <3>1. n \in Names(catalog, lines, alias, DOMAIN lines)
      BY <1>4, <2>1 DEF Model
    <3> QED
      BY <1>5, <1>8, <3>1
  <2>2. CASE n \in Q!ToSet(m.where) \cup Q!ToSet(m.groupBy)
    <3>1. n \in Seen(catalog, lines, alias)
      BY <1>4, <2>2 DEF Model
    <3> QED
      BY <1>9, <3>1
  <2>3. CASE n \in {a.column : a \in Q!ToSet(m.aggregates)} \ {Q!AllRows}
    <3>1. n \in Seen(catalog, lines, alias)
      BY <1>4, <2>3 DEF Model
    <3> QED
      BY <1>9, <3>1
  <2>4. CASE n \in {x \in Q!ToSet(m.orderBy) : Len(x) = 2}
    <3>1. n \in Seen(catalog, lines, alias)
      BY <1>4, <2>4 DEF Model
    <3> QED
      BY <1>9, <3>1
  <2> QED
    BY <2>1, <2>2, <2>3, <2>4
<1>11. ASSUME NEW k \in DOMAIN m.joins, NEW on \in Q!ToSet(m.joins[k].on)
       PROVE  One(on[1], 1 .. k) /\ One(on[2], {k + 1})
  <2>1. k \in 1 .. Len(lines) - 1 /\ m.joins[k].on = Q!Conditions(lines[k + 1])
    BY <1>4 DEF Model
  <2>2. PICK i : i = k + 1
    OBVIOUS
  <2>3. i \in DOMAIN lines /\ i # 1 /\ i - 1 = k /\ k \in Nat
    BY <1>6, <2>1, <2>2
  <2>4. on \in Q!ToSet(Q!Conditions(lines[i]))
    BY <2>1, <2>2
  <2>5. Joins(catalog, lines, alias, i, lines[i].on)
    BY <1>3, <2>3
  <2>6. on[1] \in Names(catalog, lines, alias, 1 .. i - 1) /\ on[2] \in Of(catalog, lines[i], alias[i])
    BY <2>4, <2>5, ConditionsAre
  <2>7. 1 .. k \in SUBSET DOMAIN lines
    BY <1>6, <2>1
  <2>8. One(on[1], 1 .. k)
    BY <1>8, <2>3, <2>6, <2>7
  <2>9. on[2] \in Names(catalog, lines, alias, {i}) /\ {i} \in SUBSET DOMAIN lines
    BY <2>3, <2>6 DEF Names
  <2>10. One(on[2], {i})
    BY <1>8, <2>9
  <2> QED
    BY <2>2, <2>8, <2>10
<1> HIDE DEF named
<1>12. /\ \A i, j \in DOMAIN s : s[i].alias = s[j].alias => i = j
       /\ \A n \in named : One(n, DOMAIN s)
       /\ \A k \in DOMAIN m.joins : \A on \in Q!ToSet(m.joins[k].on) :
            One(on[1], 1 .. k) /\ One(on[2], {k + 1})
  BY <1>7, <1>10, <1>11
<1> QED
  BY <1>1, <1>2, <1>12 DEF Q!StatementResolves, One, named

-----------------------------------------------------------------------------
(* A tab that is restored.                                                 *)

LEMMA FreshFits ==
  ASSUME Q!BuilderAssumption, NEW cat, IsCatalog(cat), NEW t \in Q!Tables(cat)
  PROVE  /\ Fit(cat, Q!Fresh(cat, t))
         /\ DOMAIN Q!Fresh(cat, t).aliasOf = {0} /\ Q!Fresh(cat, t).aliasOf[0] = <<t>>
         /\ Q!Fresh(cat, t).picks["aggregate"] = << >>
<1>1. PICK b, lines : b = Q!Base(t) /\ lines = <<b>>
  OBVIOUS
<1>2. PICK u : u = [lines |-> lines, aliasOf |-> << >>, checked |-> {}, picks |-> Q!NoPicks,
                    autoGroup |-> TRUE]
  OBVIOUS
<1>3. u.lines = lines /\ u.picks = Q!NoPicks /\ Q!Fresh(cat, t) = Q!Sync(cat, u)
  BY <1>1, <1>2 DEF Q!Fresh
<1>4. b = [row |-> 0, table |-> t, typed |-> << >>, kind |-> "FROM", on |-> << >>]
  BY <1>1 DEF Q!Base, Q!Untyped
<1>5. IsLine(cat, b) /\ b.row = 0
  BY <1>4, NoneHolds DEF IsLine
<1>6. Q!IsSeq(lines) /\ Len(lines) = 1 /\ lines[1] = b
  BY <1>1, OneHolds
<1>7. DOMAIN lines = {1} /\ lines # << >>
  <2>1. DOMAIN lines = 1 .. 1
    BY <1>6, SeqDomain
  <2>2. 1 \in DOMAIN lines
    BY <2>1
  <2> QED
    BY <1>6, <2>1, <2>2, NotEmpty
<1>8. Lines(cat, lines)
  <2>1. MaxJoins \in Nat
    BY DEF Q!BuilderAssumption
  <2>2. Len(lines) <= MaxJoins + 1
    BY <1>6, <2>1
  <2>3. \A i \in DOMAIN lines : i = 1 /\ IsLine(cat, lines[i])
    BY <1>5, <1>6, <1>7
  <2> QED
    BY <1>5, <1>6, <1>7, <2>2, <2>3 DEF Lines
<1>9. Picks(Q!NoPicks)
  <2>1. Q!NoPicks = [r \in Q!RowSection |-> Q!NoPicks[r]]
    BY DEF Q!NoPicks
  <2>2. \A r \in Q!RowSection : Q!NoPicks[r] = << >>
    BY DEF Q!NoPicks
  <2>3. "aggregate" \in Q!RowSection
    BY DEF Q!RowSection
  <2> QED
    BY <2>1, <2>2, <2>3, NoneHolds DEF Picks
<1>10. PICK f, s, a : f = Q!Sync(cat, u) /\ s = f.lines /\ a = Q!Aliases(lines)
  OBVIOUS
<1>11. Fit(cat, f)
  BY <1>3, <1>8, <1>9, <1>10, SyncFits
<1>12. Same(lines, s) /\ DOMAIN f.aliasOf = {l.row : l \in Q!ToSet(s)} /\ Q!Named(f) = a
  BY <1>3, <1>8, <1>10, SyncLines
<1>13. DOMAIN s = {1} /\ s[1].row = 0
  BY <1>5, <1>6, <1>7, <1>12 DEF Same
<1>14. DOMAIN f.aliasOf = {0}
  <2>1. Q!ToSet(s) = {s[1]}
    BY <1>13 DEF Q!ToSet
  <2> QED
    BY <1>12, <1>13, <2>1
<1>15. a[1] = <<t>>
  <2>1. PICK x : x = {a[j] : j \in 1 .. 1 - 1}
    OBVIOUS
  <2>2. x = {}
    BY <2>1
  <2>3. a[1] = Q!Unique(Q!Wanted(lines[1]), x)
    BY <1>7, <1>8, <1>10, <2>1, AliasesAre
  <2>4. Q!Wanted(lines[1]) = <<t>>
    BY <1>4, <1>6 DEF Q!Wanted, Q!Untyped
  <2> QED
    BY <2>2, <2>3, <2>4 DEF Q!Unique
<1>16. f.aliasOf[0] = <<t>>
  <2>1. Q!Named(f) = [j \in DOMAIN s |-> f.aliasOf[s[j].row]]
    BY <1>10 DEF Q!Named
  <2>2. a[1] = f.aliasOf[s[1].row]
    BY <1>12, <1>13, <2>1
  <2> QED
    BY <1>13, <1>15, <2>2
<1>17. f.picks["aggregate"] = << >>
  <2>1. PICK p, n, r : /\ p = Q!NoPicks /\ n = Q!Offered(cat, lines, a)
                       /\ r = Q!Renames(u.aliasOf, lines, a)
    OBVIOUS
  <2>2. f.picks = Q!SyncedPicks(p, n, r)
    BY <1>3, <1>10, <2>1 DEF Q!Sync
  <2>3. p["aggregate"] = << >>
    BY <2>1 DEF Q!NoPicks, Q!RowSection
  <2>4. DOMAIN << >> = {}
    BY NoneHolds, SeqDomain
  <2>5. f.picks["aggregate"]
          = [k \in DOMAIN p["aggregate"] |->
               [fn |-> p["aggregate"][k].fn,
                column |-> Q!Refill(p["aggregate"][k].column,
                                    Q!AggregateChoices(p["aggregate"][k].fn, n))]]
    BY <2>2 DEF Q!SyncedPicks, Q!RowSection
  <2>6. PICK g : g = f.picks["aggregate"]
    OBVIOUS
  <2>7. g = [k \in 1 .. 0 |-> g[k]]
    BY <2>3, <2>4, <2>5, <2>6
  <2>8. Q!IsSeq(g) /\ DOMAIN g = {}
    <3>1. DOMAIN g = {}
      BY <2>7
    <3>2. 0 \in Nat
      OBVIOUS
    <3> QED
      BY <2>7, <3>1, <3>2, SeqOver
  <2> QED
    BY <2>6, <2>8, NotEmpty
<1> QED
  BY <1>3, <1>10, <1>11, <1>14, <1>16, <1>17

\* Lines that are typed apart are called what is typed.
LEMMA AliasesTyped ==
  ASSUME NEW cat, NEW lines, Lines(cat, lines),
         \A i \in DOMAIN lines : lines[i].typed # << >>,
         \A i, j \in DOMAIN lines : lines[i].typed = lines[j].typed => i = j
  PROVE  \A i \in DOMAIN lines : Q!Aliases(lines)[i] = lines[i].typed
<1>1. PICK s : s = Q!Aliases(lines)
  OBVIOUS
<1>2. DOMAIN lines = 1 .. Len(lines) /\ Len(lines) \in Nat
  BY LinesAre
<1>3. \A i \in DOMAIN lines :
        s[i] = Q!Unique(Q!Wanted(lines[i]), {s[j] : j \in 1 .. i - 1})
  BY <1>1, AliasesAre
<1>4. \A i \in DOMAIN lines : Q!Wanted(lines[i]) = lines[i].typed
  BY DEF Q!Wanted, Q!Untyped
<1> DEFINE bad == {i \in DOMAIN lines : s[i] # lines[i].typed}
<1>5. bad = {}
  <2> SUFFICES ASSUME bad # {} PROVE FALSE
    OBVIOUS
  <2>1. bad \in SUBSET Nat
    BY <1>2
  <2>2. PICK i : i \in bad /\ \A j \in bad : i <= j
    <3> HIDE DEF bad
    <3> QED
      BY <2>1, LeastIs
  <2>3. i \in DOMAIN lines /\ i \in Nat
    BY <1>2, <2>2
  <2>4. \A j \in 1 .. i - 1 : j \in DOMAIN lines /\ j \notin bad /\ j # i
    BY <1>2, <2>2, <2>3
  <2>5. \A j \in 1 .. i - 1 : s[j] # lines[i].typed
    BY <2>3, <2>4
  <2>6. PICK taken : taken = {s[j] : j \in 1 .. i - 1}
    OBVIOUS
  <2>7. lines[i].typed \notin taken
    BY <2>5, <2>6
  <2>8. s[i] = Q!Unique(lines[i].typed, taken)
    BY <1>3, <1>4, <2>3, <2>6
  <2>9. s[i] = lines[i].typed
    BY <2>7, <2>8 DEF Q!Unique
  <2> QED
    BY <2>2, <2>9
<1> QED
  BY <1>1, <1>5

\* A join whose alias and conditions are all there.
Whole(cat, m, known, j) ==
  /\ j.alias \in known
  /\ \A k \in DOMAIN j.on : \A side \in 1 .. 2 :
       Q!RestoredColumn(cat, m, known, j.on[k][side]) # Q!Nothing

\* The aliases that stay known have their tables; all of them do if every join
\* is whole.
LEMMA KnownIs ==
  ASSUME NEW cat, NEW m, Q!IsSeq(m.joins)
  PROVE  /\ Q!Known(cat, m)
              \subseteq {s.alias : s \in {x \in Q!ToSet(Q!Sources(m)) : x.table \in Q!Tables(cat)}}
         /\ \A full :
              /\ full = {s.alias : s \in {x \in Q!ToSet(Q!Sources(m)) : x.table \in Q!Tables(cat)}}
              /\ \A j \in Q!ToSet(m.joins) : Whole(cat, m, full, j)
              => Q!Known(cat, m) = full
<1> DEFINE N == Len(m.joins)
           resolved == {s.alias : s \in {x \in Q!ToSet(Q!Sources(m)) : x.table \in Q!Tables(cat)}}
           whole(known, j) ==
             /\ j.alias \in known
             /\ \A k \in DOMAIN j.on : \A side \in 1 .. 2 :
                  Q!RestoredColumn(cat, m, known, j.on[k][side]) # Q!Nothing
           step(known, n) == IF whole(known, m.joins[n]) THEN known
                             ELSE known \ {m.joins[n].alias}
           First(f, k) == f = [n \in 0 .. k |-> IF n = 0 THEN resolved
                                                ELSE IF whole(f[n - 1], m.joins[n]) THEN f[n - 1]
                                                ELSE f[n - 1] \ {m.joins[n].alias}]
           left == CHOOSE f : First(f, N)
           T == {k \in Nat : \E f : First(f, k)}
<1>1. N \in Nat
  BY SeqDomain
<1>2. Q!Known(cat, m) = left[N]
  BY DEF Q!Known, left, N, First, whole, resolved
<1> HIDE DEF resolved, whole
<1>3. 0 \in T
  <2>1. First([n \in 0 .. 0 |-> resolved], 0)
    OBVIOUS
  <2> QED
    BY <2>1
<1>4. ASSUME NEW k \in T PROVE k + 1 \in T
  <2>1. PICK f : First(f, k)
    OBVIOUS
  <2> DEFINE g == [n \in 0 .. k + 1 |-> IF n = k + 1 THEN step(f[k], n) ELSE f[n]]
  <2>2. ASSUME NEW n \in 0 .. k + 1
        PROVE  g[n] = IF n = 0 THEN resolved ELSE step(g[n - 1], n)
    <3>1. CASE n = k + 1
      <4>1. n # 0 /\ n - 1 = k /\ k \in 0 .. k + 1 /\ k # k + 1
        BY <3>1
      <4>2. g[n] = step(f[k], n) /\ g[k] = f[k]
        BY <3>1, <4>1
      <4> HIDE DEF g, step
      <4> QED
        BY <4>1, <4>2
    <3>2. CASE n # k + 1
      <4>1. n \in 0 .. k /\ (n # 0 => n - 1 \in 0 .. k + 1 /\ n - 1 # k + 1)
        BY <3>2
      <4>2. g[n] = f[n] /\ (n # 0 => g[n - 1] = f[n - 1])
        BY <3>2, <4>1
      <4>3. f[n] = IF n = 0 THEN resolved ELSE step(f[n - 1], n)
        BY <2>1, <4>1
      <4> HIDE DEF g, step
      <4> QED
        BY <4>2, <4>3
    <3> QED
      BY <3>1, <3>2
  <2>3. g = [n \in 0 .. k + 1 |-> g[n]]
    OBVIOUS
  <2> HIDE DEF g
  <2>4. First(g, k + 1)
    BY <2>2, <2>3
  <2>5. k + 1 \in Nat
    OBVIOUS
  <2> HIDE DEF First
  <2> QED
    BY <2>4, <2>5
<1>5. N \in T
  <2> HIDE DEF T, N
  <2>1. T \in SUBSET Nat
    BY DEF T
  <2> QED
    BY <1>1, <1>3, <1>4, <2>1, FromZero
<1>6. First(left, N)
  BY <1>5
<1> HIDE DEF left
<1> DEFINE K == {k \in Nat : k \in 0 .. N => left[k] \subseteq resolved}
<1>7. 0 \in K
  BY <1>1, <1>6
<1>8. ASSUME NEW k \in K PROVE k + 1 \in K
  <2> SUFFICES ASSUME k + 1 \in 0 .. N PROVE left[k + 1] \subseteq resolved
    OBVIOUS
  <2>1. k \in Nat /\ k \in 0 .. N /\ k + 1 # 0 /\ (k + 1) - 1 = k
    BY <1>1
  <2>2. left[k + 1] = step(left[k], k + 1)
    BY <1>6, <2>1
  <2>3. left[k] \subseteq resolved
    BY <2>1
  <2> QED
    BY <2>2, <2>3
<1>9. N \in K
  <2> HIDE DEF K, N
  <2>1. K \in SUBSET Nat
    BY DEF K
  <2> QED
    BY <1>1, <1>7, <1>8, <2>1, FromZero
<1>10. left[N] \subseteq resolved
  BY <1>1, <1>9
<1> HIDE DEF K
\* And nothing is dropped of a statement whose joins are whole.
<1>11. ASSUME \A j \in Q!ToSet(m.joins) : Whole(cat, m, resolved, j)
       PROVE  left[N] = resolved
  <2> DEFINE M == {k \in Nat : k \in 0 .. N => left[k] = resolved}
  <2>1. 0 \in M
    BY <1>1, <1>6
  <2>2. ASSUME NEW k \in M PROVE k + 1 \in M
    <3> SUFFICES ASSUME k + 1 \in 0 .. N PROVE left[k + 1] = resolved
      OBVIOUS
    <3>1. k \in Nat /\ k \in 0 .. N /\ k + 1 # 0 /\ (k + 1) - 1 = k /\ k + 1 \in 1 .. N
      BY <1>1
    <3>2. left[k + 1] = step(left[k], k + 1)
      BY <1>6, <3>1
    <3>3. left[k] = resolved
      BY <3>1
    <3>4. m.joins[k + 1] \in Q!ToSet(m.joins)
      BY <3>1, SeqDomain DEF N, Q!ToSet
    <3>5. Whole(cat, m, resolved, m.joins[k + 1])
      BY <1>11, <3>4
    <3>6. whole(resolved, m.joins[k + 1])
      BY <3>5 DEF Whole, whole
    <3> QED
      BY <3>2, <3>3, <3>6
  <2>3. N \in M
    <3> HIDE DEF M, N
    <3>1. M \in SUBSET Nat
      BY DEF M
    <3> QED
      BY <1>1, <2>1, <2>2, <3>1, FromZero
  <2> QED
    BY <1>1, <2>3
<1>12. ASSUME NEW full, full = resolved, \A j \in Q!ToSet(m.joins) : Whole(cat, m, full, j)
       PROVE  Q!Known(cat, m) = full
  BY <1>2, <1>11, <1>12
<1> QED
  BY <1>2, <1>10, <1>12 DEF resolved

\* Lines called apart.
Typed(lines) ==
  /\ \A i \in DOMAIN lines : lines[i].typed # << >>
  /\ \A i, j \in DOMAIN lines : lines[i].typed = lines[j].typed => i = j

\* The lines a statement is restored to: a source of it each, called what it
\* was called, whose table is there.
LEMMA RestoredLinesAre ==
  ASSUME Q!BuilderAssumption, NEW old, NEW lines, Lines(old, lines), NEW alias,
         Aliased(lines, alias), NEW m, Model(old, lines, alias, m),
         NEW cat, m.source.table \in Q!Tables(cat),
         NEW r, r = Q!RestoredLines(cat, m, Q!Known(cat, m))
  PROVE  /\ Lines(cat, r) /\ Typed(r)
         /\ \A i \in DOMAIN r : i # 1 => \E j \in Q!ToSet(m.joins) : r[i].typed = j.alias
<1>1. PICK known, joins : known = Q!Known(cat, m) /\ joins = m.joins
  OBVIOUS
<1>2. /\ DOMAIN lines = 1 .. Len(lines) /\ Len(lines) \in Nat /\ Len(lines) # 0
      /\ 1 \in DOMAIN lines
  BY LinesAre
<1>3. Q!IsSeq(joins) /\ DOMAIN joins = 1 .. Len(lines) - 1
  BY <1>1 DEF Model
<1> DEFINE S == {k \in DOMAIN joins : joins[k].alias \in known}
<1>4. PICK kept : kept = Q!Sifted(joins, S)
  OBVIOUS
<1>5. S \in SUBSET DOMAIN joins
  OBVIOUS
<1>6. \A p \in S : joins[p].alias \in known
  OBVIOUS
<1> HIDE DEF S
<1>7. /\ Q!IsSeq(kept) /\ IsFiniteSet(S) /\ Len(kept) = Cardinality(S) /\ Cardinality(S) \in Nat
      /\ \A i \in DOMAIN kept : \E p \in S : Q!Rank(S, p) = i /\ kept[i] = joins[p]
  BY <1>3, <1>4, <1>5, SiftedIs
<1>8. DOMAIN kept = 1 .. Len(kept) /\ Len(kept) \in Nat
  BY <1>7, SeqDomain
<1>9. Len(kept) <= MaxJoins
  <2>1. PICK n : n = Len(lines) - 1
    OBVIOUS
  <2>2. n \in Nat /\ DOMAIN joins = 1 .. n
    BY <1>2, <1>3, <2>1
  <2>3. 1 \in Int /\ n \in Int
    BY <2>2
  <2>4. IsFiniteSet(1 .. n) /\ Cardinality(1 .. n) = IF 1 > n THEN 0 ELSE n - 1 + 1
    BY <2>3, FS_Interval
  <2>5. S \in SUBSET (1 .. n)
    BY <1>5, <2>2
  <2>6. Cardinality(S) <= Cardinality(1 .. n)
    BY <2>4, <2>5, FS_Subset
  <2>7. Cardinality(1 .. n) = n
    BY <2>2, <2>4
  <2>8. Len(lines) <= MaxJoins + 1 /\ MaxJoins \in Nat
    BY DEF Lines, Q!BuilderAssumption
  <2> QED
    BY <1>2, <1>7, <2>1, <2>6, <2>7, <2>8
<1>10. \A p \in DOMAIN joins :
         /\ p + 1 \in DOMAIN lines /\ p + 1 # 1 /\ joins[p].alias = alias[p + 1]
         /\ joins[p].table = lines[p + 1].table
  BY <1>1, <1>2, <1>3 DEF Model
<1>11. /\ \A i \in DOMAIN lines : Q!IsSeq(alias[i]) /\ alias[i] # << >>
       /\ \A i, j \in DOMAIN lines : alias[i] = alias[j] => i = j
  BY DEF Aliased
\* What is kept has its table.
<1>12. \A p \in S : joins[p].table \in Q!Tables(cat)
  <2> SUFFICES ASSUME NEW p \in S PROVE joins[p].table \in Q!Tables(cat)
    OBVIOUS
  <2>1. PICK s : s = Q!Sources(m)
    OBVIOUS
  <2>2. known \subseteq {x.alias : x \in {y \in Q!ToSet(s) : y.table \in Q!Tables(cat)}}
    BY <1>1, <1>3, <2>1, KnownIs
  <2>3. PICK x \in Q!ToSet(s) : x.table \in Q!Tables(cat) /\ x.alias = joins[p].alias
    BY <1>6, <2>2
  <2>4. /\ DOMAIN s = DOMAIN lines
        /\ \A i \in DOMAIN lines : s[i].table = lines[i].table /\ s[i].alias = alias[i]
    BY <2>1, SourcesAre
  <2>5. PICK i \in DOMAIN lines : x = s[i]
    BY <2>3, <2>4 DEF Q!ToSet
  <2>6. p \in DOMAIN joins
    BY <1>5
  <2>7. alias[i] = alias[p + 1] /\ p + 1 \in DOMAIN lines
    BY <1>10, <2>3, <2>4, <2>5, <2>6
  <2>8. i = p + 1
    BY <1>11, <2>7
  <2> QED
    BY <1>10, <2>3, <2>4, <2>5, <2>6, <2>8
<1> DEFINE one(k) == [row |-> k, table |-> kept[k].table, typed |-> kept[k].alias,
                      kind |-> kept[k].kind, on |-> <<Q!EmptyOn>>]
           opening == [Q!Base(m.source.table) EXCEPT !.typed = m.source.alias]
<1>13. PICK a, b : a = <<opening>> /\ b = [k \in DOMAIN kept |-> one(k)]
  OBVIOUS
<1>14. r = a \o b
  BY <1>1, <1>4, <1>13 DEF Q!RestoredLines, S
<1>15. m.source.table \in Q!Tables(cat) /\ m.source.alias = alias[1]
  BY DEF Model
<1>16. PICK s1, t1 : s1 = m.source.alias /\ t1 = m.source.table
  OBVIOUS
<1>17. opening = [row |-> 0, table |-> t1, typed |-> s1, kind |-> "FROM", on |-> << >>]
  BY <1>16 DEF Q!Base
<1> HIDE DEF opening
<1>18. IsLine(cat, opening) /\ opening.row = 0 /\ opening.typed = alias[1]
  BY <1>2, <1>11, <1>15, <1>16, <1>17, NoneHolds DEF IsLine
<1>19. PICK on : on = <<Q!EmptyOn>>
  OBVIOUS
<1>20. Q!IsSeq(on) /\ on # << >> /\ \A c \in Q!ToSet(on) : IsOn(c)
  <2>1. Q!IsSeq(on) /\ Q!ToSet(on) = {Q!EmptyOn} /\ on # << >>
    BY <1>19, OneHolds
  <2>2. IsOn(Q!EmptyOn)
    BY DEF Q!EmptyOn, IsOn
  <2> QED
    BY <2>1, <2>2
<1>21. \A k : /\ one(k).row = k /\ one(k).table = kept[k].table /\ one(k).typed = kept[k].alias
              /\ one(k).on = on
              /\ one(k) = [row |-> one(k).row, table |-> one(k).table, typed |-> one(k).typed,
                           kind |-> one(k).kind, on |-> one(k).on]
  BY <1>19
<1> HIDE DEF one
<1>22. \A k \in DOMAIN kept : \E p \in S :
         /\ Q!Rank(S, p) = k /\ one(k).table = joins[p].table /\ one(k).typed = alias[p + 1]
         /\ p + 1 \in DOMAIN lines /\ p + 1 # 1 /\ one(k).typed = joins[p].alias
         /\ p \in DOMAIN joins
  <2> SUFFICES ASSUME NEW k \in DOMAIN kept
               PROVE  \E p \in S :
                 /\ Q!Rank(S, p) = k /\ one(k).table = joins[p].table /\ one(k).typed = alias[p + 1]
                 /\ p + 1 \in DOMAIN lines /\ p + 1 # 1 /\ one(k).typed = joins[p].alias
                 /\ p \in DOMAIN joins
    OBVIOUS
  <2>1. PICK p \in S : Q!Rank(S, p) = k /\ kept[k] = joins[p]
    BY <1>7
  <2>2. p \in DOMAIN joins
    BY <1>5
  <2>3. one(k).table = joins[p].table /\ one(k).typed = joins[p].alias
    BY <1>21, <2>1
  <2> QED
    BY <1>10, <2>1, <2>2, <2>3
<1>23. \A k \in DOMAIN kept : IsLine(cat, one(k)) /\ one(k).on # << >>
  <2> SUFFICES ASSUME NEW k \in DOMAIN kept PROVE IsLine(cat, one(k)) /\ one(k).on # << >>
    OBVIOUS
  <2>1. one(k).table \in Q!Tables(cat) /\ Q!IsSeq(one(k).typed)
    BY <1>11, <1>12, <1>22
  <2> QED
    BY <1>20, <1>21, <2>1 DEF IsLine
<1>24. Q!IsSeq(a) /\ Len(a) = 1 /\ a[1] = opening
  BY <1>13, OneHolds
<1>25. b = [k \in 1 .. Len(kept) |-> b[k]] /\ DOMAIN b = DOMAIN kept /\ \A k \in DOMAIN b : b[k] = one(k)
  BY <1>8, <1>13
<1>26. Q!IsSeq(b)
  BY <1>8, <1>25, SeqOver
<1>27. Len(b) = Len(kept)
  <2>1. DOMAIN b = 1 .. Len(b) /\ Len(b) \in Nat
    BY <1>26, SeqDomain
  <2>2. DOMAIN b = 1 .. Len(kept)
    BY <1>8, <1>25
  <2> QED
    BY <1>8, <2>1, <2>2, SameLength
<1>28. Q!IsSeq(r)
  BY <1>14, <1>24, <1>26, SeqJoin
<1>29. Len(r) = Len(a) + Len(b)
  BY <1>14, <1>24, <1>26, SeqJoin
<1>30. DOMAIN r = 1 .. Len(kept) + 1 /\ Len(r) = Len(kept) + 1
  BY <1>8, <1>24, <1>27, <1>28, <1>29, SeqDomain
<1>31. \A i \in DOMAIN a : r[i] = a[i]
  BY <1>14, <1>24, <1>26, SeqJoin
<1>32. \A i \in DOMAIN b : r[Len(a) + i] = b[i]
  <2>1. Q!IsSeq(a) /\ Q!IsSeq(b)
    BY <1>24, <1>26
  <2>2. \A i \in DOMAIN b : (a \o b)[Len(a) + i] = b[i]
    BY <2>1, SeqJoin
  <2> QED
    BY <1>14, <2>2
<1>33. r[1] = opening
  <2>1. 1 \in DOMAIN a
    BY <1>24, SeqDomain
  <2> QED
    BY <1>24, <1>31, <2>1
<1>34. \A i \in DOMAIN r : i # 1 => i - 1 \in DOMAIN kept /\ r[i] = one(i - 1)
  <2> SUFFICES ASSUME NEW i \in DOMAIN r, i # 1
               PROVE  i - 1 \in DOMAIN kept /\ r[i] = one(i - 1)
    OBVIOUS
  <2>1. PICK k : k = i - 1
    OBVIOUS
  <2>2. k \in DOMAIN kept /\ Len(a) + k = i
    BY <1>8, <1>24, <1>30, <2>1
  <2>3. r[Len(a) + k] = one(k)
    BY <1>25, <1>32, <2>2
  <2> QED
    BY <2>1, <2>2, <2>3
<1>35. 1 \in DOMAIN r /\ \A i \in DOMAIN r : i \in Nat
  BY <1>8, <1>30
<1>36. \A i \in DOMAIN r : IsLine(cat, r[i])
  BY <1>18, <1>23, <1>33, <1>34
<1>37. r # << >>
  BY <1>28, <1>35, NotEmpty
<1>38. Len(r) <= MaxJoins + 1
  <2>1. MaxJoins \in Nat
    BY DEF Q!BuilderAssumption
  <2> QED
    BY <1>8, <1>9, <1>30, <2>1
<1>39. \A i \in DOMAIN r : i # 1 => r[i].row = i - 1 /\ r[i].row \in 1 .. MaxJoins /\ r[i].on # << >>
  <2> SUFFICES ASSUME NEW i \in DOMAIN r, i # 1
               PROVE  r[i].row = i - 1 /\ r[i].row \in 1 .. MaxJoins /\ r[i].on # << >>
    OBVIOUS
  <2>1. MaxJoins \in Nat
    BY DEF Q!BuilderAssumption
  <2>2. i - 1 \in DOMAIN kept /\ r[i] = one(i - 1)
    BY <1>34
  <2>3. r[i].row = i - 1 /\ r[i].on # << >>
    BY <1>21, <1>23, <2>2
  <2>4. i - 1 \in 1 .. MaxJoins
    BY <1>8, <1>9, <2>1, <2>2
  <2> QED
    BY <2>3, <2>4
<1>40. \A i, j \in DOMAIN r : r[i].row = r[j].row => i = j
  <2> SUFFICES ASSUME NEW i \in DOMAIN r, NEW j \in DOMAIN r, r[i].row = r[j].row PROVE i = j
    OBVIOUS
  <2>1. i \in Nat /\ j \in Nat
    BY <1>35
  <2>2. r[i].row = i - 1
    BY <1>18, <1>33, <1>39
  <2>3. r[j].row = j - 1
    BY <1>18, <1>33, <1>39
  <2>4. i - 1 = j - 1
    BY <2>2, <2>3
  <2> QED
    BY <2>1, <2>4
<1>41. r[1].row = 0
  BY <1>18, <1>33
<1>42. Lines(cat, r)
  BY <1>28, <1>36, <1>37, <1>38, <1>39, <1>40, <1>41 DEF Lines
\* And they are called apart.
<1>43. \A i \in DOMAIN r : i # 1 => \E p \in S :
         /\ Q!Rank(S, p) = i - 1 /\ r[i].typed = alias[p + 1] /\ p + 1 \in DOMAIN lines
         /\ p + 1 # 1 /\ r[i].typed = joins[p].alias /\ p \in DOMAIN joins
  BY <1>22, <1>34
<1>44. r[1].typed = alias[1]
  BY <1>18, <1>33
<1>45. \A i \in DOMAIN r : r[i].typed # << >>
  BY <1>2, <1>11, <1>43, <1>44
<1>46. \A i, j \in DOMAIN r : r[i].typed = r[j].typed => i = j
  <2> SUFFICES ASSUME NEW i \in DOMAIN r, NEW j \in DOMAIN r, r[i].typed = r[j].typed PROVE i = j
    OBVIOUS
  <2>1. CASE i = 1 /\ j = 1
    BY <2>1
  <2>2. CASE i = 1 /\ j # 1
    <3>1. PICK p \in S : r[j].typed = alias[p + 1] /\ p + 1 \in DOMAIN lines /\ p + 1 # 1
      BY <1>43, <2>2
    <3>2. alias[1] = alias[p + 1]
      BY <1>44, <2>2, <3>1
    <3> QED
      BY <1>2, <1>11, <3>1, <3>2
  <2>3. CASE i # 1 /\ j = 1
    <3>1. PICK p \in S : r[i].typed = alias[p + 1] /\ p + 1 \in DOMAIN lines /\ p + 1 # 1
      BY <1>43, <2>3
    <3>2. alias[1] = alias[p + 1]
      BY <1>44, <2>3, <3>1
    <3> QED
      BY <1>2, <1>11, <3>1, <3>2
  <2>4. CASE i # 1 /\ j # 1
    <3>1. PICK p \in S : /\ Q!Rank(S, p) = i - 1 /\ r[i].typed = alias[p + 1]
                         /\ p + 1 \in DOMAIN lines /\ p \in DOMAIN joins
      BY <1>43, <2>4
    <3>2. PICK q \in S : /\ Q!Rank(S, q) = j - 1 /\ r[j].typed = alias[q + 1]
                         /\ q + 1 \in DOMAIN lines /\ q \in DOMAIN joins
      BY <1>43, <2>4
    <3>3. p + 1 = q + 1
      BY <1>11, <3>1, <3>2
    <3>4. p = q
      BY <1>2, <1>3, <3>1, <3>2, <3>3
    <3>5. i - 1 = j - 1
      BY <3>1, <3>2, <3>4
    <3> QED
      BY <1>35, <3>5
  <2> QED
    BY <2>1, <2>2, <2>3, <2>4
<1>47. Typed(r)
  BY <1>45, <1>46 DEF Typed
<1>48. \A i \in DOMAIN r : i # 1 => \E j \in Q!ToSet(m.joins) : r[i].typed = j.alias
  <2> SUFFICES ASSUME NEW i \in DOMAIN r, i # 1
               PROVE  \E j \in Q!ToSet(m.joins) : r[i].typed = j.alias
    OBVIOUS
  <2>1. PICK p \in DOMAIN joins : r[i].typed = joins[p].alias
    BY <1>43
  <2>2. joins[p] \in Q!ToSet(m.joins)
    BY <1>1 DEF Q!ToSet
  <2> QED
    BY <2>1, <2>2
<1> QED
  BY <1>42, <1>47, <1>48

LEMMA SameAgain ==
  ASSUME NEW a, NEW b, NEW c, Same(a, b), Same(b, c)
  PROVE  Same(a, c)
BY DEF Same

\* A tab on the way to being restored: its lines are the restored ones.
Restoring(cat, r, t) ==
  IsTab(t) /\ Lines(cat, t.lines) /\ Picks(t.picks) /\ Same(r, t.lines)

LEMMA AggregateRestored ==
  ASSUME Q!BuilderAssumption, NEW cat, IsCatalog(cat), NEW r, NEW t, Restoring(cat, r, t),
         NEW a, IsRow(a), NEW v, v = Q!RestoredAggregate(cat, t, a)
  PROVE  Restoring(cat, r, v)
<1>1. PICK u, k, s, x : /\ u = Q!AddAggregateTo(cat, t) /\ k = Len(t.picks["aggregate"]) + 1
                        /\ s = u.picks["aggregate"] /\ x = [s EXCEPT ![k] = a]
  OBVIOUS
<1>2. v = Q!WithRows(u, "aggregate", x)
  BY <1>1 DEF Q!RestoredAggregate
<1>3. Fit(cat, u) /\ Same(t.lines, u.lines)
  BY <1>1, AggregateAdded DEF Restoring
<1>4. IsTab(u) /\ Picks(u.picks) /\ Lines(cat, u.lines)
  BY <1>3 DEF Fit
<1>5. "aggregate" \in Q!RowSection
  BY DEF Q!RowSection
<1>6. Q!IsSeq(s) /\ \A y \in Q!ToSet(s) : IsRow(y)
  BY <1>1, <1>4, <1>5 DEF Picks
<1>7. Q!IsSeq(x) /\ DOMAIN x = DOMAIN s /\ \A j \in DOMAIN s : x[j] = IF j = k THEN a ELSE s[j]
  BY <1>1, <1>6, ReplacedIs
<1>8. \A y \in Q!ToSet(x) : IsRow(y)
  BY <1>6, <1>7 DEF Q!ToSet
<1>9. Picks(v.picks) /\ Repicked(u, "aggregate", x, v)
  BY <1>2, <1>4, <1>5, <1>7, <1>8, RowsSet
<1>10. IsTab(v) /\ v.lines = u.lines
  BY <1>9 DEF Repicked
<1>11. Same(t.lines, v.lines) /\ Same(r, t.lines)
  BY <1>3, <1>10 DEF Restoring
<1>12. Same(r, v.lines)
  BY <1>11, SameAgain
<1> QED
  BY <1>4, <1>9, <1>10, <1>12 DEF Restoring

\* The tab before its two last syncs.
LEMMA RestoredPicksAre ==
  ASSUME Q!BuilderAssumption, NEW cat, IsCatalog(cat), NEW m, m.source.table \in Q!Tables(cat),
         Q!IsSeq(m.aggregates), \A a \in Q!ToSet(m.aggregates) : IsRow(a),
         Q!IsSeq(m.where), Q!IsSeq(m.groupBy), Q!IsSeq(m.having), Q!IsSeq(m.orderBy),
         NEW r, r = Q!RestoredLines(cat, m, Q!Known(cat, m)), Lines(cat, r),
         NEW p, p = Q!RestoredPicks(cat, m)
  PROVE  Lines(cat, p.lines) /\ Picks(p.picks) /\ Same(r, p.lines)
<1> DEFINE known == Q!Known(cat, m)
           Back(n) == IF Q!RestoredColumn(cat, m, known, n) = Q!Nothing THEN Q!Nothing
                      ELSE Q!Shown(Q!RestoredColumn(cat, m, known, n), Q!RestoredLines(cat, m, known))
           Counted(n) == IF n = Q!AllRows THEN n ELSE Back(n)
           Backed(names) == Q!Found([k \in DOMAIN names |-> Back(names[k])])
           counted == [k \in DOMAIN m.aggregates |->
                         [m.aggregates[k] EXCEPT !.column = Counted(m.aggregates[k].column)]]
           kept == Q!Valid(counted)
           N == Len(kept)
           start == [Q!Fresh(cat, m.source.table) EXCEPT !.lines = Q!RestoredLines(cat, m, known)]
           First(f, k) == f = [n \in 0 .. k |-> IF n = 0 THEN start
                                                ELSE Q!RestoredAggregate(cat, f[n - 1], kept[n])]
           first == CHOOSE f : First(f, N)
           t == first[N]
           Labelled(l) == IF /\ Q!Contains(Q!Labels(m.aggregates), l) /\ Counted(Tail(l)) # Q!Nothing
                             /\ Q!Contains(Q!Labels(kept), <<l[1], Counted(Tail(l))[1], Counted(Tail(l))[2]>>)
                            THEN <<l[1], Counted(Tail(l))[1], Counted(Tail(l))[2]>> ELSE Q!Nothing
           ordered(n) == IF Len(n) = 3 THEN Labelled(n) ELSE Back(n)
           had == [k \in DOMAIN m.having |-> Labelled(m.having[k])]
           sorted == [k \in DOMAIN m.orderBy |-> ordered(m.orderBy[k])]
           ticks == {Q!RestoredColumn(cat, m, known, n) : n \in Q!ToSet(m.ticked)} \ {Q!Nothing}
           pick(x) == CASE x = "group" -> Backed(m.groupBy)
                        [] x = "filter" -> Backed(m.where)
                        [] x = "having" -> Q!Found(had)
                        [] x = "sort" -> Q!Found(sorted)
                        [] x = "aggregate" -> t.picks[x]
           picks == [x \in Q!RowSection |-> pick(x)]
           T == {k \in Nat : \E f : First(f, k)}
           K == {k \in Nat : k \in 0 .. N => Restoring(cat, r, first[k])}
<1>1. p = [t EXCEPT !.checked = ticks, !.autoGroup = Backed(m.groupBy) = << >>, !.picks = picks]
  BY DEF Q!RestoredPicks
<1> HIDE DEF Back, Counted, Backed, Labelled, ordered, ticks
<1>2. Q!IsSeq(counted) /\ \A a \in Q!ToSet(counted) : IsRow(a)
  <2>1. PICK n : n = Len(m.aggregates)
    OBVIOUS
  <2>2. n \in Nat /\ DOMAIN m.aggregates = 1 .. n
    BY <2>1, SeqDomain
  <2>3. Q!IsSeq(counted)
    <3>1. counted = [k \in 1 .. n |-> counted[k]]
      BY <2>2
    <3> HIDE DEF counted
    <3> QED
      BY <2>2, <3>1, SeqOver
  <2>4. ASSUME NEW k \in DOMAIN m.aggregates PROVE IsRow(counted[k])
    <3>1. PICK a, x : a = m.aggregates[k] /\ x = Counted(m.aggregates[k].column)
      OBVIOUS
    <3>2. IsRow(a)
      BY <3>1 DEF Q!ToSet
    <3>3. PICK f : f = a.fn
      OBVIOUS
    <3>4. a = [fn |-> f, column |-> a.column]
      BY <3>2, <3>3 DEF IsRow
    <3>5. PICK y : y = a.column
      OBVIOUS
    <3>6. counted[k] = [a EXCEPT !.column = x]
      BY <3>1
    <3>7. [a EXCEPT !.column = x] = [fn |-> f, column |-> x]
      BY <3>4, <3>5
    <3> QED
      BY <3>6, <3>7 DEF IsRow
  <2>5. DOMAIN counted = DOMAIN m.aggregates
    OBVIOUS
  <2> HIDE DEF counted
  <2> QED
    BY <2>3, <2>4, <2>5 DEF Q!ToSet
<1> HIDE DEF counted
<1>3. Q!IsSeq(kept) /\ \A n \in DOMAIN kept : IsRow(kept[n])
  <2>1. Q!IsSeq(kept) /\ Q!ToSet(kept) \subseteq Q!ToSet(counted)
    BY <1>2, ValidIs
  <2> HIDE DEF kept
  <2> QED
    BY <1>2, <2>1 DEF Q!ToSet
<1> HIDE DEF kept
<1>4. N \in Nat /\ DOMAIN kept = 1 .. N
  BY <1>3, SeqDomain
<1> HIDE DEF N
<1>5. Restoring(cat, r, start)
  <2>1. PICK f : f = Q!Fresh(cat, m.source.table)
    OBVIOUS
  <2>2. Fit(cat, f)
    BY <2>1, FreshFits
  <2>3. IsTab(f) /\ Picks(f.picks)
    BY <2>2 DEF Fit
  <2>4. start = [f EXCEPT !.lines = r]
    BY <2>1
  <2> HIDE DEF start
  <2>5. PICK a, b, c, d : a = f.aliasOf /\ b = f.checked /\ c = f.picks /\ d = f.autoGroup
    OBVIOUS
  <2>6. start = [lines |-> r, aliasOf |-> a, checked |-> b, picks |-> c, autoGroup |-> d]
    BY <2>3, <2>4, <2>5 DEF IsTab
  <2>7. IsTab(start) /\ start.lines = r /\ start.picks = f.picks
    BY <2>5, <2>6 DEF IsTab
  <2>8. Same(r, r)
    BY DEF Same, Lines
  <2> QED
    BY <2>3, <2>7, <2>8 DEF Restoring
<1> HIDE DEF start
<1>6. 0 \in T
  <2>1. First([n \in 0 .. 0 |-> start], 0)
    OBVIOUS
  <2> QED
    BY <2>1
<1>7. ASSUME NEW k \in T PROVE k + 1 \in T
  <2>1. PICK f : First(f, k)
    OBVIOUS
  <2> DEFINE step(x, n) == Q!RestoredAggregate(cat, x, kept[n])
             g == [n \in 0 .. k + 1 |-> IF n = k + 1 THEN step(f[k], n) ELSE f[n]]
  <2>2. ASSUME NEW n \in 0 .. k + 1
        PROVE  g[n] = IF n = 0 THEN start ELSE step(g[n - 1], n)
    <3>1. CASE n = k + 1
      <4>1. n # 0 /\ n - 1 = k /\ k \in 0 .. k + 1 /\ k # k + 1
        BY <3>1
      <4>2. g[n] = step(f[k], n) /\ g[k] = f[k]
        BY <3>1, <4>1
      <4> HIDE DEF g, step
      <4> QED
        BY <4>1, <4>2
    <3>2. CASE n # k + 1
      <4>1. n \in 0 .. k /\ (n # 0 => n - 1 \in 0 .. k + 1 /\ n - 1 # k + 1)
        BY <3>2
      <4>2. g[n] = f[n] /\ (n # 0 => g[n - 1] = f[n - 1])
        BY <3>2, <4>1
      <4>3. f[n] = IF n = 0 THEN start ELSE step(f[n - 1], n)
        BY <2>1, <4>1
      <4> HIDE DEF g, step
      <4> QED
        BY <4>2, <4>3
    <3> QED
      BY <3>1, <3>2
  <2>3. g = [n \in 0 .. k + 1 |-> g[n]]
    OBVIOUS
  <2> HIDE DEF g
  <2>4. First(g, k + 1)
    BY <2>2, <2>3
  <2>5. k + 1 \in Nat
    OBVIOUS
  <2> HIDE DEF First
  <2> QED
    BY <2>4, <2>5
<1>8. N \in T
  <2> HIDE DEF T
  <2>1. T \in SUBSET Nat
    BY DEF T
  <2> QED
    BY <1>4, <1>6, <1>7, <2>1, FromZero
<1>9. First(first, N)
  BY <1>8
<1> HIDE DEF first
<1>10. 0 \in K
  BY <1>4, <1>5, <1>9
<1>11. ASSUME NEW k \in K PROVE k + 1 \in K
  <2> SUFFICES ASSUME k + 1 \in 0 .. N PROVE Restoring(cat, r, first[k + 1])
    OBVIOUS
  <2>1. k \in Nat /\ k \in 0 .. N /\ k + 1 # 0 /\ (k + 1) - 1 = k /\ k + 1 \in 1 .. N
    BY <1>4
  <2>2. first[k + 1] = Q!RestoredAggregate(cat, first[k], kept[k + 1])
    BY <1>9, <2>1
  <2>3. Restoring(cat, r, first[k]) /\ IsRow(kept[k + 1])
    BY <1>3, <1>4, <2>1
  <2> HIDE DEF First, T, K
  <2> QED
    BY <2>2, <2>3, AggregateRestored
<1>12. N \in K
  <2> HIDE DEF K
  <2>1. K \in SUBSET Nat
    BY DEF K
  <2> QED
    BY <1>4, <1>10, <1>11, <2>1, FromZero
<1>13. Restoring(cat, r, t)
  BY <1>4, <1>12
<1> HIDE DEF t, First, T, K
<1>14. IsTab(t) /\ Lines(cat, t.lines) /\ Picks(t.picks) /\ Same(r, t.lines)
  BY <1>13 DEF Restoring
\* What is picked of a section is found among what was.
<1>15. ASSUME NEW names, Q!IsSeq(names) PROVE Q!IsSeq(Backed(names))
  <2> DEFINE s == [k \in DOMAIN names |-> Back(names[k])]
  <2>1. PICK n : n = Len(names)
    OBVIOUS
  <2>2. n \in Nat /\ DOMAIN names = 1 .. n
    BY <1>15, <2>1, SeqDomain
  <2>3. s = [k \in 1 .. n |-> s[k]]
    BY <2>2
  <2>4. Backed(names) = Q!Found(s)
    BY DEF Backed
  <2> HIDE DEF s
  <2>5. Q!IsSeq(s)
    BY <2>2, <2>3, SeqOver
  <2> QED
    BY <2>4, <2>5, FoundIs
<1>16. Q!IsSeq(had)
  <2>1. PICK n : n = Len(m.having)
    OBVIOUS
  <2>2. n \in Nat /\ DOMAIN m.having = 1 .. n
    BY <2>1, SeqDomain
  <2>3. had = [k \in 1 .. n |-> had[k]]
    BY <2>2
  <2> HIDE DEF had
  <2> QED
    BY <2>2, <2>3, SeqOver
<1>17. Q!IsSeq(sorted)
  <2>1. PICK n : n = Len(m.orderBy)
    OBVIOUS
  <2>2. n \in Nat /\ DOMAIN m.orderBy = 1 .. n
    BY <2>1, SeqDomain
  <2>3. sorted = [k \in 1 .. n |-> sorted[k]]
    BY <2>2
  <2> HIDE DEF sorted
  <2> QED
    BY <2>2, <2>3, SeqOver
<1> HIDE DEF had, sorted
<1>18. PICK fg, ff, fh, fs : /\ fg = Backed(m.groupBy) /\ ff = Backed(m.where)
                             /\ fh = Q!Found(had) /\ fs = Q!Found(sorted)
  OBVIOUS
<1>19. Q!IsSeq(fg) /\ Q!IsSeq(ff)
  BY <1>15, <1>18
<1>20. Q!IsSeq(fh) /\ Q!IsSeq(fs)
  BY <1>16, <1>17, <1>18, FoundIs
<1>21. /\ picks["group"] = fg /\ picks["filter"] = ff /\ picks["having"] = fh
       /\ picks["sort"] = fs /\ picks["aggregate"] = t.picks["aggregate"]
  BY <1>18 DEF Q!RowSection
<1>22. picks = [x \in Q!RowSection |-> picks[x]]
  <2> HIDE DEF pick
  <2> QED
    OBVIOUS
<1> HIDE DEF pick, picks
<1>23. /\ Q!IsSeq(t.picks["aggregate"])
       /\ \A a \in Q!ToSet(t.picks["aggregate"]) : IsRow(a)
  BY <1>14 DEF Picks, Q!RowSection
<1>24. \A x \in Q!RowSection : Q!IsSeq(picks[x])
  BY <1>19, <1>20, <1>21, <1>23 DEF Q!RowSection
<1>25. Picks(picks)
  BY <1>21, <1>22, <1>23, <1>24 DEF Picks
<1>26. p.lines = t.lines /\ p.picks = picks
  <2>1. PICK v : v = (Backed(m.groupBy) = << >>)
    OBVIOUS
  <2>2. p = [t EXCEPT !.checked = ticks, !.autoGroup = v, !.picks = picks]
    BY <1>1, <2>1
  <2>3. DOMAIN t = {"lines", "aliasOf", "checked", "picks", "autoGroup"}
    BY <1>14 DEF IsTab
  <2> HIDE DEF Restoring
  <2> QED
    BY <2>2, <2>3
<1> QED
  BY <1>14, <1>25, <1>26

\* The line an alias of the statement was read from: its conditions are a
\* sequence.
LEMMA SavedOn ==
  ASSUME NEW old, NEW was, Fit(old, was), NEW m, m = Q!QueryModel(old, was),
         Model(old, was.lines, Q!Named(was), m), NEW j \in Q!ToSet(m.joins)
  PROVE  Q!IsSeq(j.on)
<1>1. PICK lines, alias : lines = was.lines /\ alias = Q!Named(was)
  OBVIOUS
<1>2. Lines(old, lines) /\ \A i \in DOMAIN lines : i # 1 => Joins(old, lines, alias, i, lines[i].on)
  BY <1>1 DEF Fit
<1>3. DOMAIN lines = 1 .. Len(lines) /\ Len(lines) \in Nat
  BY <1>2, LinesAre
<1>4. /\ DOMAIN m.joins = 1 .. Len(lines) - 1
      /\ \A k \in 1 .. Len(lines) - 1 : m.joins[k].on = Q!Conditions(lines[k + 1])
  BY <1>1 DEF Model
<1>5. PICK k \in 1 .. Len(lines) - 1 : j = m.joins[k]
  BY <1>4 DEF Q!ToSet
<1>6. k + 1 \in DOMAIN lines /\ k + 1 # 1
  BY <1>3
<1>7. PICK i : i = k + 1
  OBVIOUS
<1>8. Joins(old, lines, alias, i, lines[i].on) /\ j.on = Q!Conditions(lines[i])
  BY <1>2, <1>4, <1>5, <1>6, <1>7
<1> QED
  BY <1>8, ConditionsAre

\* The ON conditions of a line that is restored.
LEMMA RestoredOnIs ==
  ASSUME NEW cat, IsCatalog(cat), NEW t, Lines(cat, t.lines), NEW alias, alias = Q!Named(t),
         NEW i \in DOMAIN t.lines, Joins(cat, t.lines, alias, i, t.lines[i].on),
         NEW m, NEW j \in Q!ToSet(m.joins), j.alias = alias[i],
         \A x \in Q!ToSet(m.joins) : Q!IsSeq(x.on),
         NEW P, P = Q!RestoredOn(cat, m, t, i)
  PROVE  Q!IsSeq(P) /\ P # << >> /\ \A c \in Q!ToSet(P) : IsOn(c)
<1>1. PICK on, lines : on = Q!Refilled(cat, m, t, i) /\ lines = t.lines
  OBVIOUS
<1>2. PICK s : s = (CHOOSE x \in Q!ToSet(m.joins) : x.alias = alias[i]).on
  OBVIOUS
<1>3. Q!IsSeq(s)
  BY <1>2
<1>4. on = IF s = << >> THEN lines[i].on
           ELSE Q!Prefilled(lines[i].on, s, Q!LeftOf(cat, lines, alias, i),
                            Q!RightOf(cat, lines, alias, i))
  BY <1>1, <1>2 DEF Q!Refilled
<1>5. Joins(cat, lines, alias, i, on)
  <2>1. PICK left, right : left = Q!LeftOf(cat, lines, alias, i)
                           /\ right = Q!RightOf(cat, lines, alias, i)
    OBVIOUS
  <2>2. CASE s = << >>
    BY <1>1, <1>4, <2>2
  <2>3. CASE s # << >>
    <3>1. PICK before : before = lines[i].on
      OBVIOUS
    <3>2. Joins(cat, lines, alias, i, before) /\ Lines(cat, lines) /\ i \in DOMAIN lines
      BY <1>1, <3>1
    <3>3. Joins(cat, lines, alias, i, Q!Prefilled(before, s, left, right))
      BY <1>3, <2>1, <2>3, <3>2, PrefilledJoins
    <3> QED
      BY <1>4, <2>1, <2>3, <3>1, <3>3
  <2> QED
    BY <2>2, <2>3
<1>6. Q!IsSeq(on) /\ on # << >> /\ \A c \in Q!ToSet(on) : IsOn(c)
  BY <1>5 DEF Joins, Sided
<1>7. P = [k \in DOMAIN on |-> [on[k] EXCEPT !.touched = TRUE]]
  BY <1>1 DEF Q!RestoredOn
<1>8. PICK n : n = Len(on)
  OBVIOUS
<1>9. n \in Nat /\ DOMAIN on = 1 .. n
  BY <1>6, <1>8, SeqDomain
<1>10. P = [k \in 1 .. n |-> P[k]] /\ DOMAIN P = DOMAIN on
  BY <1>7, <1>9
<1>11. Q!IsSeq(P)
  BY <1>9, <1>10, SeqOver
<1>12. P # << >>
  BY <1>6, <1>10, <1>11, NotEmpty
<1>13. ASSUME NEW k \in DOMAIN on PROVE IsOn(P[k])
  <2>1. PICK c : c = on[k]
    OBVIOUS
  <2>2. IsOn(c)
    BY <1>6, <2>1 DEF Q!ToSet
  <2>3. PICK a, b, d : a = c.left /\ b = c.right /\ d = c.touched
    OBVIOUS
  <2>4. c = [left |-> a, right |-> b, touched |-> d]
    BY <2>2, <2>3 DEF IsOn
  <2>5. P[k] = [c EXCEPT !.touched = TRUE]
    BY <1>7, <2>1
  <2>6. P[k] = [left |-> a, right |-> b, touched |-> TRUE]
    BY <2>4, <2>5
  <2> QED
    BY <2>6 DEF IsOn
<1> QED
  BY <1>10, <1>11, <1>12, <1>13 DEF Q!ToSet

\* A tab that is restored from the statement of one that fits its catalog fits
\* the catalog there is now.
LEMMA RestoredFits ==
  ASSUME Q!BuilderAssumption, NEW old, IsCatalog(old), NEW was, Fit(old, was),
         NEW m, m = Q!QueryModel(old, was), NEW cat, IsCatalog(cat),
         NEW new, new = Q!RestoredTab(cat, m)
  PROVE  Fit(cat, new)
<1>1. Model(old, was.lines, Q!Named(was), m)
  BY ModelIs
<1>2. CASE m.source.table \notin Q!Tables(cat)
  <2>1. PICK t : t = cat[1].table
    OBVIOUS
  <2>2. t \in Q!Tables(cat)
    <3>1. 1 \in DOMAIN cat
      BY NotEmpty DEF IsCatalog
    <3> QED
      BY <2>1, <3>1 DEF Q!Tables
  <2>3. new = Q!Fresh(cat, t)
    BY <1>2, <2>1 DEF Q!RestoredTab
  <2> QED
    BY <2>2, <2>3, FreshFits
<1>3. CASE m.source.table \in Q!Tables(cat)
  <2>1. PICK r, p, t : /\ r = Q!RestoredLines(cat, m, Q!Known(cat, m))
                       /\ p = Q!RestoredPicks(cat, m) /\ t = Q!Sync(cat, p)
    OBVIOUS
  <2>2. PICK lines, alias : lines = was.lines /\ alias = Q!Named(was)
    OBVIOUS
  <2>3. Lines(old, lines) /\ Aliased(lines, alias) /\ Model(old, lines, alias, m)
    BY <1>1, <2>2 DEF Fit
  <2>4. /\ Lines(cat, r) /\ Typed(r)
        /\ \A i \in DOMAIN r : i # 1 => \E j \in Q!ToSet(m.joins) : r[i].typed = j.alias
    BY <1>3, <2>1, <2>3, RestoredLinesAre
  <2>5. /\ Q!IsSeq(m.aggregates) /\ \A a \in Q!ToSet(m.aggregates) : IsRow(a)
        /\ Q!IsSeq(m.where) /\ Q!IsSeq(m.groupBy) /\ Q!IsSeq(m.having) /\ Q!IsSeq(m.orderBy)
    BY <2>3 DEF Model
  <2>6. Lines(cat, p.lines) /\ Picks(p.picks) /\ Same(r, p.lines)
    BY <1>3, <2>1, <2>4, <2>5, RestoredPicksAre
  <2>7. Fit(cat, t)
    BY <2>1, <2>6, SyncFits
  <2>8. PICK called : called = Q!Named(t)
    OBVIOUS
  <2>9. /\ Same(p.lines, t.lines) /\ called = Q!Aliases(p.lines) /\ Lines(cat, t.lines)
        /\ \A i \in DOMAIN t.lines : i # 1 => Joins(cat, t.lines, called, i, t.lines[i].on)
    BY <2>1, <2>6, <2>8, SyncLines
  <2>10. DOMAIN p.lines = DOMAIN r /\ DOMAIN t.lines = DOMAIN r
    BY <2>6, <2>9 DEF Same
  <2>11. \A i \in DOMAIN p.lines : called[i] = p.lines[i].typed
    <3>1. \A i \in DOMAIN r : p.lines[i].typed = r[i].typed
      BY <2>6 DEF Same
    <3>2. /\ \A i \in DOMAIN p.lines : p.lines[i].typed # << >>
          /\ \A i, j \in DOMAIN p.lines : p.lines[i].typed = p.lines[j].typed => i = j
      BY <2>4, <2>10, <3>1 DEF Typed
    <3> QED
      BY <2>6, <2>9, <3>2, AliasesTyped
  <2>12. \A i \in DOMAIN t.lines : i # 1 => \E j \in Q!ToSet(m.joins) : j.alias = called[i]
    <3>1. \A i \in DOMAIN r : p.lines[i].typed = r[i].typed
      BY <2>6 DEF Same
    <3> QED
      BY <2>4, <2>10, <2>11, <3>1
  <2>13. \A x \in Q!ToSet(m.joins) : Q!IsSeq(x.on)
    BY <1>1, SavedOn
  <2> DEFINE joined(i) == [t.lines[i] EXCEPT !.on = Q!RestoredOn(cat, m, t, i)]
             next == [i \in DOMAIN t.lines |-> IF i = 1 THEN t.lines[i] ELSE joined(i)]
  <2>14. new = Q!Sync(cat, [t EXCEPT !.lines = next])
    BY <1>3, <2>1 DEF Q!RestoredTab
  <2>15. \A i \in DOMAIN t.lines : IsLine(cat, t.lines[i])
    BY <2>9 DEF Lines
  <2>16. ASSUME NEW i \in DOMAIN t.lines, i # 1
         PROVE  /\ joined(i) = [row |-> t.lines[i].row, table |-> t.lines[i].table,
                                typed |-> t.lines[i].typed, kind |-> t.lines[i].kind,
                                on |-> joined(i).on]
                /\ Q!IsSeq(joined(i).on) /\ joined(i).on # << >>
                /\ \A c \in Q!ToSet(joined(i).on) : IsOn(c)
    <3>1. PICK l, on : l = t.lines[i] /\ on = Q!RestoredOn(cat, m, t, i)
      OBVIOUS
    <3>2. joined(i) = [row |-> l.row, table |-> l.table, typed |-> l.typed, kind |-> l.kind,
                       on |-> on]
      <4>1. joined(i) = [l EXCEPT !.on = on]
        BY <3>1
      <4>2. IsLine(cat, l)
        BY <2>15, <3>1
      <4> HIDE DEF joined
      <4> QED
        BY <4>1, <4>2, LineFields
    <3>3. PICK j \in Q!ToSet(m.joins) : j.alias = called[i]
      BY <2>12, <2>16
    <3>4. Joins(cat, t.lines, called, i, t.lines[i].on)
      BY <2>9, <2>16
    <3>5. Q!IsSeq(on) /\ on # << >> /\ \A c \in Q!ToSet(on) : IsOn(c)
      BY <2>8, <2>9, <2>13, <3>1, <3>3, <3>4, RestoredOnIs
    <3> HIDE DEF joined
    <3>6. joined(i).on = on
      BY <3>2
    <3> QED
      BY <3>1, <3>2, <3>5, <3>6
  <2>17. DOMAIN next = DOMAIN t.lines
    OBVIOUS
  <2>18. \A i \in DOMAIN t.lines : next[i] = IF i = 1 THEN t.lines[i] ELSE joined(i)
    OBVIOUS
  <2>19. next = [i \in DOMAIN t.lines |-> next[i]]
    OBVIOUS
  <2> HIDE DEF next, joined
  <2>20. DOMAIN t.lines = 1 .. Len(t.lines) /\ Len(t.lines) \in Nat
    BY <2>9, LinesAre
  <2>21. PICK n : n = Len(t.lines)
    OBVIOUS
  <2>22. Q!IsSeq(next)
    <3>1. n \in Nat /\ next = [i \in 1 .. n |-> next[i]]
      BY <2>19, <2>20, <2>21
    <3> QED
      BY <3>1, SeqOver
  <2>23. Len(next) = Len(t.lines)
    <3>1. DOMAIN next = 1 .. Len(next) /\ Len(next) \in Nat
      BY <2>22, SeqDomain
    <3> QED
      BY <2>17, <2>20, <3>1, SameLength
  <2>24. \A i \in DOMAIN t.lines :
           /\ next[i].row = t.lines[i].row /\ next[i].table = t.lines[i].table
           /\ next[i].typed = t.lines[i].typed /\ next[i].kind = t.lines[i].kind
    BY <2>16, <2>18
  <2>25. Same(t.lines, next)
    BY <2>17, <2>22, <2>23, <2>24 DEF Same
  <2>26. \A i \in DOMAIN t.lines :
            /\ next[i] = [row |-> next[i].row, table |-> next[i].table, typed |-> next[i].typed,
                         kind |-> next[i].kind, on |-> next[i].on]
            /\ Q!IsSeq(next[i].on) /\ \A c \in Q!ToSet(next[i].on) : IsOn(c)
            /\ i # 1 => next[i].on # << >>
    <3> SUFFICES ASSUME NEW i \in DOMAIN t.lines
                 PROVE  /\ next[i] = [row |-> next[i].row, table |-> next[i].table,
                                      typed |-> next[i].typed, kind |-> next[i].kind,
                                      on |-> next[i].on]
                        /\ Q!IsSeq(next[i].on) /\ \A c \in Q!ToSet(next[i].on) : IsOn(c)
                        /\ i # 1 => next[i].on # << >>
      OBVIOUS
    <3>1. CASE i = 1
      BY <2>15, <2>18, <3>1 DEF IsLine
    <3>2. CASE i # 1
      BY <2>16, <2>18, <2>24, <3>2
    <3> QED
      BY <3>1, <3>2
  <2>27. Lines(cat, next)
    BY <2>9, <2>25, <2>26, SameLines
  <2>28. PICK u : u = [t EXCEPT !.lines = next]
    OBVIOUS
  <2>29. IsTab(t) /\ Picks(t.picks)
    BY <2>7 DEF Fit
  <2>30. u.lines = next /\ u.picks = t.picks
    <3>1. DOMAIN t = {"lines", "aliasOf", "checked", "picks", "autoGroup"}
      BY <2>29 DEF IsTab
    <3> QED
      BY <2>28, <3>1
  <2>31. Lines(cat, u.lines) /\ Picks(u.picks) /\ new = Q!Sync(cat, u)
    BY <2>14, <2>27, <2>28, <2>29, <2>30
  <2> QED
    BY <2>31, SyncFits
<1> QED
  BY <1>2, <1>3

-----------------------------------------------------------------------------
(* Every step.                                                             *)

LEMMA QueryInit ==
  ASSUME Q!BuilderAssumption, Q!Init
  PROVE  QueryFits
<1>1. IsCatalog(catalog)
  BY CatalogsFit DEF Q!Init
<1>2. PICK t \in Q!Tables(catalog) : builder = Q!Fresh(catalog, t)
  BY DEF Q!Init
<1> QED
  BY <1>1, <1>2, FreshFits DEF QueryFits

LEMMA ReopenFits ==
  ASSUME Q!BuilderAssumption, QueryFits, NEW cat \in Catalogs, Q!Reopen(cat)
  PROVE  QueryFits'
<1>1. PICK m, new : m = Q!QueryModel(catalog, builder) /\ new = Q!RestoredTab(cat, m)
  OBVIOUS
<1>2. catalog' = cat /\ builder' = new
  BY <1>1 DEF Q!Reopen
<1>3. IsCatalog(catalog) /\ Fit(catalog, builder) /\ IsCatalog(cat)
  BY CatalogsFit DEF QueryFits
<1>4. Fit(cat, new)
  BY <1>1, <1>3, RestoredFits
<1> QED
  BY <1>2, <1>3, <1>4 DEF QueryFits

LEMMA QueryStep ==
  ASSUME Q!BuilderAssumption, QueryFits, [Q!Next]_(Q!vars)
  PROVE  QueryFits'
<1>1. CASE UNCHANGED Q!vars
  BY <1>1 DEF Q!vars, QueryFits
<1>2. CASE Q!Edit
  BY <1>2, EditFits DEF Follows
<1>3. CASE \E cat \in Catalogs : Q!Reopen(cat)
  BY <1>3, ReopenFits
<1> QED
  BY <1>1, <1>2, <1>3 DEF Q!Next

\* The statement the widgets describe stands on its own: distinct aliases, and
\* every column it names is a column of exactly one source, an ON's left of an
\* earlier one, whatever was added, removed, renamed and restored, in any
\* order, from whatever database (_sync_state, query_model, _restore_model).
THEOREM StatementStands == Q!Spec => []Q!StatementResolves
<1>1. Q!BuilderAssumption
  BY InstanceAssumption
<1>2. Q!Init => QueryFits
  BY <1>1, QueryInit
<1>3. QueryFits /\ [Q!Next]_(Q!vars) => QueryFits'
  BY <1>1, QueryStep
<1>4. QueryFits => Q!StatementResolves
  BY FitResolves
<1> QED
  BY <1>2, <1>3, <1>4, PTL DEF Q!Spec

-----------------------------------------------------------------------------
(* What is picked from a source that stays follows its name.               *)

\* The names of the last sync, which are told apart by the lines' rows.
Recalled(lines, aliasOf, was) ==
  /\ DOMAIN aliasOf = {l.row : l \in Q!ToSet(lines)}
  /\ Aliased(lines, was) /\ \A i \in DOMAIN lines : was[i] = aliasOf[lines[i].row]

\* Each tick, filter and sort of t that is n is new in u.
Following(t, u, n, new) ==
  /\ n \in t.checked => new \in u.checked
  /\ \A r \in {"filter", "sort"} : \A k \in DOMAIN t.picks[r] :
       t.picks[r][k] = n => u.picks[r][k] = new

Goes(renames, old, new) == \A c : Q!Renamed(<<old, c>>, renames) = <<new, c>>

\* A column of a source goes by its new name.
LEMMA RenamedIs ==
  ASSUME NEW cat, NEW lines, Lines(cat, lines), NEW aliasOf, NEW was, Recalled(lines, aliasOf, was),
         NEW new, Lines(cat, new), NEW now, NEW i \in DOMAIN lines, NEW j \in DOMAIN new,
         new[j].row = lines[i].row, NEW renames, renames = Q!Renames(aliasOf, new, now)
  PROVE  Goes(renames, was[i], now[j])
<1> DEFINE moved == {k \in DOMAIN new : /\ new[k].row \in DOMAIN aliasOf
                                        /\ aliasOf[new[k].row] # now[k]}
           A == {aliasOf[new[k].row] : k \in moved}
           R == [a \in A |-> now[CHOOSE k \in moved : aliasOf[new[k].row] = a]]
<1> SUFFICES ASSUME NEW c PROVE Q!Renamed(<<was[i], c>>, renames) = <<now[j], c>>
  BY DEF Goes
<1>1. renames = R
  BY DEF Q!Renames
<1>2. new[j].row \in DOMAIN aliasOf /\ aliasOf[new[j].row] = was[i]
  BY DEF Recalled, Q!ToSet
\* No other line went by that name.
<1>3. ASSUME NEW k \in moved, aliasOf[new[k].row] = was[i] PROVE k = j
  <2>1. PICK l \in DOMAIN lines : new[k].row = lines[l].row
    BY DEF Recalled, Q!ToSet
  <2>2. was[l] = was[i]
    BY <1>3, <2>1 DEF Recalled
  <2>3. l = i
    BY <2>2 DEF Recalled, Aliased
  <2>4. new[k].row = new[j].row
    BY <2>1, <2>3
  <2> QED
    BY <2>4 DEF Lines
<1>4. PICK n : n = <<was[i], c>>
  OBVIOUS
<1>5. Len(n) = 2 /\ n[1] = was[i] /\ n[2] = c
  BY <1>4
<1>6. CASE now[j] # was[i]
  <2>1. j \in moved
    BY <1>2, <1>6
  <2>2. was[i] \in A
    BY <1>2, <2>1
  <2>3. (CHOOSE k \in moved : aliasOf[new[k].row] = was[i]) = j
    <3> HIDE DEF moved
    <3> QED
      BY <1>2, <1>3, <2>1
  <2>4. R[was[i]] = now[j] /\ was[i] \in DOMAIN R
    <3> HIDE DEF moved, A
    <3> QED
      BY <2>2, <2>3
  <2> HIDE DEF R
  <2> QED
    BY <1>1, <1>4, <1>5, <2>4 DEF Q!Renamed
<1>7. CASE now[j] = was[i]
  <2>1. was[i] \notin A
    <3> SUFFICES ASSUME was[i] \in A PROVE FALSE
      OBVIOUS
    <3>1. PICK k \in moved : aliasOf[new[k].row] = was[i]
      OBVIOUS
    <3>2. k = j
      BY <1>3, <3>1
    <3> QED
      BY <1>2, <1>7, <3>1, <3>2
  <2>2. DOMAIN R = A
    OBVIOUS
  <2> HIDE DEF R, A
  <2> QED
    BY <1>1, <1>4, <1>5, <1>7, <2>1, <2>2 DEF Q!Renamed
<1> QED
  BY <1>6, <1>7

\* A row that named it goes on naming it.
LEMMA CarriedTo ==
  ASSUME NEW choices, Q!IsSeq(choices), NEW renames, NEW n, NEW new \in Q!ToSet(choices),
         Q!Renamed(n, renames) = new
  PROVE  Q!Carried(n, choices, renames) = new
<1>1. Q!Contains(choices, new)
  BY Containing
<1>2. CASE DOMAIN renames # {}
  BY <1>1, <1>2 DEF Q!Carried
<1>3. CASE DOMAIN renames = {}
  <2>1. n = new
    BY <1>3 DEF Q!Renamed
  <2>2. Q!Refill(n, choices) = n
    BY <2>1, RefillIs
  <2> QED
    BY <1>3, <2>1, <2>2 DEF Q!Carried
<1> QED
  BY <1>2, <1>3

\* What a sync leaves of the ticks, the filters and the sorts of a tab with
\* several sources: each name of a column is what it was renamed to.
LEMMA SyncFollows ==
  ASSUME Q!BuilderAssumption, NEW cat, IsCatalog(cat), NEW t, Lines(cat, t.lines), Picks(t.picks),
         Len(t.lines) > 1, NEW u, u = Q!Sync(cat, t), NEW alias, alias = Q!Aliases(t.lines),
         NEW renames, renames = Q!Renames(t.aliasOf, t.lines, alias),
         NEW n, NEW new, new = Q!Renamed(n, renames),
         new \in Names(cat, t.lines, alias, DOMAIN t.lines)
  PROVE  Following(t, u, n, new)
<1>1. PICK lines, names : lines = t.lines /\ names = Q!Offered(cat, lines, alias)
  OBVIOUS
<1>2. PICK qualified : qualified = Q!Qualified(cat, lines, alias)
  OBVIOUS
<1>3. Q!IsSeq(lines) /\ \A i \in DOMAIN lines : lines[i].table \in Q!Tables(cat)
  BY <1>1, LinesAre DEF Lines
<1>4. new \in Q!ToSet(qualified)
  BY <1>1, <1>2, <1>3, QualifiedIs
<1>5. Q!IsSeq(names) /\ new \in Q!ToSet(names)
  <2>1. /\ Q!IsSeq(names)
        /\ Q!ToSet(names) = {Q!Shown(x, lines) : x \in Names(cat, lines, alias, DOMAIN lines)}
    BY <1>1, <1>3, OfferedIs
  <2>2. Q!Shown(new, lines) = new
    BY <1>1 DEF Q!Shown
  <2> QED
    BY <1>1, <2>1, <2>2
<1>6. u.checked = Q!SyncedTicks(t.checked, qualified, renames)
  BY <1>1, <1>2 DEF Q!Sync
<1>7. n \in t.checked => new \in u.checked
  BY <1>4, <1>6 DEF Q!SyncedTicks
<1>8. u.picks = Q!SyncedPicks(t.picks, names, renames)
  BY <1>1 DEF Q!Sync
<1>9. PICK labels, sorts : labels = Q!Labels(t.picks["aggregate"]) /\ sorts = names \o labels
  OBVIOUS
<1>10. Q!IsSeq(labels)
  BY <1>9, LabelsAre DEF Picks, Q!RowSection
<1>11. Q!IsSeq(sorts)
  BY <1>5, <1>9, <1>10, SeqJoin
<1>12. new \in Q!ToSet(sorts)
  <2>1. Q!ToSet(sorts) = Q!ToSet(names) \cup Q!ToSet(labels)
    BY <1>5, <1>9, <1>10, JoinHolds
  <2> QED
    BY <1>5, <2>1
<1>13. PICK f, s : f = t.picks["filter"] /\ s = t.picks["sort"]
  OBVIOUS
<1>14. u.picks["filter"] = [k \in DOMAIN f |-> Q!Carried(f[k], names, renames)]
  BY <1>8, <1>13 DEF Q!SyncedPicks, Q!RowSection
<1>15. u.picks["sort"] = [k \in DOMAIN s |-> Q!Carried(s[k], sorts, renames)]
  BY <1>8, <1>9, <1>13 DEF Q!SyncedPicks, Q!RowSection
<1>16. \A k \in DOMAIN f : f[k] = n => u.picks["filter"][k] = new
  BY <1>5, <1>14, CarriedTo
<1>17. \A k \in DOMAIN s : s[k] = n => u.picks["sort"][k] = new
  BY <1>11, <1>12, <1>15, CarriedTo
<1> QED
  BY <1>7, <1>13, <1>16, <1>17 DEF Following

\* A step that moves the sources, seen from a source that stays.
LEMMA PicksFollow ==
  ASSUME Q!BuilderAssumption, QueryFits, Moved,
         Len(builder.lines) > 1, Len(builder'.lines) > 1,
         NEW i \in DOMAIN builder.lines, NEW j \in DOMAIN builder'.lines,
         builder'.lines[j].row = builder.lines[i].row,
         builder'.lines[j].table = builder.lines[i].table,
         NEW c \in Q!ToSet(Q!ColumnsOf(catalog, builder.lines[i].table)),
         NEW n, n = <<Q!Named(builder)[i], c>>,
         NEW new, new = <<Q!Named(builder')[j], c>>
  PROVE  Following(builder, builder', n, new)
<1>1. PICK t : builder' = Q!Sync(catalog, t) /\ Lines(catalog, t.lines) /\ Picks(t.picks) /\ AsPicked(t)
  BY DEF Moved
<1>2. PICK u, alias, renames, was, aliasOf :
        /\ u = builder' /\ alias = Q!Aliases(t.lines) /\ was = Q!Named(builder)
        /\ renames = Q!Renames(t.aliasOf, t.lines, alias) /\ aliasOf = builder.aliasOf
  OBVIOUS
<1>3. IsCatalog(catalog) /\ Fit(catalog, builder)
  BY DEF QueryFits
<1>4. Same(t.lines, u.lines) /\ Q!Named(u) = alias
  BY <1>1, <1>2, <1>3, SyncLines
<1>5. /\ j \in DOMAIN t.lines /\ Len(t.lines) > 1
      /\ t.lines[j].row = builder.lines[i].row /\ t.lines[j].table = builder.lines[i].table
  BY <1>2, <1>4 DEF Same
<1>6. Lines(catalog, builder.lines)
  BY <1>3 DEF Fit
<1>7. Recalled(builder.lines, aliasOf, was)
  BY <1>2, <1>3 DEF Fit, Recalled, Q!Named
<1>8. renames = Q!Renames(aliasOf, t.lines, alias)
  BY <1>1, <1>2 DEF AsPicked
<1>9. Q!Renamed(<<was[i], c>>, renames) = <<alias[j], c>>
  <2>1. PICK lines, after : lines = builder.lines /\ after = t.lines
    OBVIOUS
  <2>2. Lines(catalog, lines) /\ Lines(catalog, after) /\ Recalled(lines, aliasOf, was)
    BY <1>1, <1>6, <1>7, <2>1
  <2>3. i \in DOMAIN lines /\ j \in DOMAIN after /\ after[j].row = lines[i].row
    BY <1>5, <2>1
  <2>4. renames = Q!Renames(aliasOf, after, alias)
    BY <1>8, <2>1
  <2>5. Goes(renames, was[i], alias[j])
    BY <2>2, <2>3, <2>4, RenamedIs
  <2> QED
    BY <2>5 DEF Goes
<1>10. new = Q!Renamed(n, renames) /\ new = <<alias[j], c>>
  BY <1>2, <1>4, <1>9
<1>11. new \in Names(catalog, t.lines, alias, DOMAIN t.lines)
  BY <1>5, <1>10 DEF Names, Of
<1>12. Following(t, u, n, new)
  <2>1. PICK x, y, lines : x = n /\ y = new /\ lines = t.lines
    OBVIOUS
  <2>2. y = Q!Renamed(x, renames) /\ y \in Names(catalog, lines, alias, DOMAIN lines)
    BY <1>10, <1>11, <2>1
  <2>3. Following(t, u, x, y)
    BY <1>1, <1>2, <1>3, <1>5, <2>1, <2>2, SyncFollows
  <2> QED
    BY <2>1, <2>3
<1>13. t.checked = builder.checked /\ \A r \in {"filter", "sort"} : t.picks[r] = builder.picks[r]
  BY <1>1 DEF AsPicked
<1> QED
  BY <1>2, <1>12, <1>13 DEF Following

LEMMA EditReopens == Q!Edit => reopened' = reopened
BY DEF Q!Edit, Q!PickBase, Q!PickTable, Q!TypeAlias, Q!AddJoin, Q!RemoveJoin, Q!AddOn, Q!PickKind,
       Q!RemoveOn, Q!PickOn, Q!SetOn, Q!Tick, Q!Untick, Q!AddRow, Q!RemoveRow, Q!ChooseRow,
       Q!AddAggregate, Q!ToggleAuto, Q!RemoveAggregate, Q!PickAggregated, Q!PickFunction,
       Q!SetAggregates, Q!Restructure, Q!Set

\* With the count of restorings, which tells a restoring from an edit.
QueryInv == QueryFits /\ reopened \in Nat

LEMMA QueryInvariant ==
  ASSUME Q!BuilderAssumption
  PROVE  /\ Q!Init => QueryInv
         /\ QueryInv /\ [Q!Next]_(Q!vars) => QueryInv'
<1>1. Q!Init => QueryInv
  BY QueryInit DEF QueryInv, Q!Init
<1>2. ASSUME QueryInv, [Q!Next]_(Q!vars) PROVE QueryInv'
  <2>1. QueryFits'
    BY <1>2, QueryStep DEF QueryInv
  <2>2. CASE UNCHANGED Q!vars
    BY <1>2, <2>1, <2>2 DEF QueryInv, Q!vars
  <2>3. CASE Q!Edit
    BY <1>2, <2>1, <2>3, EditReopens DEF QueryInv
  <2>4. CASE \E cat \in Catalogs : Q!Reopen(cat)
    BY <1>2, <2>1, <2>4 DEF QueryInv, Q!Reopen
  <2> QED
    BY <1>2, <2>2, <2>3, <2>4 DEF Q!Next
<1> QED
  BY <1>1, <1>2

\* Whatever the user does to the sources of a query of several, a source that
\* stays keeps its ticks, and the filters and sorts that name one of its
\* columns go on naming it under its new name (_renames, _sync_state).
THEOREM PicksStay == Q!Spec => Q!SurvivorsKeepPicks
<1>1. Q!BuilderAssumption
  BY InstanceAssumption
<1> DEFINE old(i, c) == <<Q!Named(builder)[i], c>>
           new(j, c) == <<Q!Named(builder')[j], c>>
           Kept(s, c) ==
             /\ old(s[1], c) \in builder.checked => new(s[2], c) \in builder'.checked
             /\ \A r \in {"filter", "sort"} : \A k \in DOMAIN builder.picks[r] :
                  builder.picks[r][k] = old(s[1], c) => builder'.picks[r][k] = new(s[2], c)
<1>2. ASSUME QueryInv, Q!Next, Q!Structural, NEW s \in Q!Surviving,
             NEW c \in Q!ToSet(Q!ColumnsOf(catalog, builder.lines[s[1]].table))
      PROVE  Kept(s, c)
  <2>1. /\ reopened' = reopened /\ builder'.lines # builder.lines
        /\ Len(builder.lines) > 1 /\ Len(builder'.lines) > 1
    BY <1>2 DEF Q!Structural
  <2>2. ~ \E cat \in Catalogs : Q!Reopen(cat)
    BY <1>2, <2>1 DEF QueryInv, Q!Reopen
  <2>3. QueryFits /\ Q!Edit
    BY <1>2, <2>2 DEF QueryInv, Q!Next
  <2>4. Moved
    BY <1>1, <2>1, <2>3, EditFits DEF Follows
  <2>5. PICK i, j : i = s[1] /\ j = s[2]
    OBVIOUS
  <2>6. /\ i \in DOMAIN builder.lines /\ j \in DOMAIN builder'.lines
        /\ builder'.lines[j].row = builder.lines[i].row
        /\ builder'.lines[j].table = builder.lines[i].table
    BY <1>2, <2>5 DEF Q!Surviving
  <2>7. PICK x, y : x = old(i, c) /\ y = new(j, c)
    OBVIOUS
  <2>8. c \in Q!ToSet(Q!ColumnsOf(catalog, builder.lines[i].table))
    BY <1>2, <2>5
  <2>9. Following(builder, builder', x, y)
    BY <1>1, <2>1, <2>3, <2>4, <2>6, <2>7, <2>8, PicksFollow
  <2> HIDE DEF old, new
  <2> QED
    BY <2>5, <2>7, <2>9 DEF Following
<1> DEFINE Held == Q!Structural => \A s \in Q!Surviving :
                     \A c \in Q!ToSet(Q!ColumnsOf(catalog, builder.lines[s[1]].table)) : Kept(s, c)
<1>3. QueryInv /\ [Q!Next]_(Q!vars) => [Held]_(Q!vars)
  <2> HIDE DEF Kept
  <2> QED
    BY <1>2
<1>4. (Q!Spec => [][Held]_(Q!vars)) => (Q!Spec => Q!SurvivorsKeepPicks)
  BY DEF Q!SurvivorsKeepPicks
<1> HIDE DEF Held
<1>5. Q!Init => QueryInv
  BY <1>1, QueryInvariant
<1>6. QueryInv /\ [Q!Next]_(Q!vars) => QueryInv'
  BY <1>1, QueryInvariant
<1>7. Q!Spec => [][Held]_(Q!vars)
  BY <1>3, <1>5, <1>6, PTL DEF Q!Spec
<1> QED
  BY <1>4, <1>7

-----------------------------------------------------------------------------
(* A tab that is closed and restored from its own statement, in the        *)
(* catalog it was made in.                                                 *)

\* What is sifted that has nothing to lose.
LEMMA SameSeq ==
  ASSUME NEW s, Q!IsSeq(s), NEW u, Q!IsSeq(u), DOMAIN s = DOMAIN u,
         \A i \in DOMAIN s : s[i] = u[i]
  PROVE  s = u
<1>1. PICK S, T : S = Q!ToSet(s) /\ T = Q!ToSet(u)
  OBVIOUS
<1>2. s \in [1 .. Len(s) -> S] /\ u \in [1 .. Len(u) -> T]
  BY <1>1, LenProperties DEF Q!IsSeq
<1>3. s = [i \in DOMAIN s |-> s[i]] /\ u = [i \in DOMAIN u |-> u[i]]
  BY <1>2
<1> QED
  BY <1>3

LEMMA SiftedWhole ==
  ASSUME NEW s, Q!IsSeq(s), NEW S, S = DOMAIN s
  PROVE  Q!Sifted(s, S) = s
<1>1. PICK u, n : u = Q!Sifted(s, S) /\ n = Len(s)
  OBVIOUS
<1>2. n \in Nat /\ S = 1 .. n
  BY <1>1, SeqDomain
<1>3. /\ Q!IsSeq(u) /\ Len(u) = Cardinality(S)
      /\ \A i \in DOMAIN u : \E p \in S : Q!Rank(S, p) = i /\ u[i] = s[p]
  BY <1>1, SiftedIs
<1>4. Cardinality(S) = n
  <2>1. 1 \in Int /\ n \in Int
    BY <1>2
  <2>2. Cardinality(1 .. n) = IF 1 > n THEN 0 ELSE n - 1 + 1
    BY <2>1, FS_Interval
  <2>3. Cardinality(1 .. n) = n
    BY <1>2, <2>2
  <2> QED
    BY <1>2, <2>3
<1>5. ASSUME NEW p \in S PROVE Q!Rank(S, p) = p
  <2>1. {k \in S : k <= p} = 1 .. p /\ p \in Int /\ 1 <= p
    BY <1>2
  <2>2. Cardinality(1 .. p) = p
    <3>1. 1 \in Int /\ p \in Int
      BY <2>1
    <3>2. Cardinality(1 .. p) = IF 1 > p THEN 0 ELSE p - 1 + 1
      BY <3>1, FS_Interval
    <3> QED
      BY <2>1, <3>2
  <2> QED
    BY <2>1, <2>2, SameCounted DEF Q!Rank
<1>6. DOMAIN u = S
  BY <1>2, <1>3, <1>4, SeqDomain
<1>7. \A i \in DOMAIN u : u[i] = s[i]
  BY <1>3, <1>5
<1> QED
  BY <1>1, <1>3, <1>6, <1>7, SameSeq

LEMMA OnlyWhole ==
  ASSUME NEW s, Q!IsSeq(s), NEW T, Q!ToSet(s) \subseteq T
  PROVE  Q!Only(s, T) = s
<1>1. PICK S : S = {i \in DOMAIN s : s[i] \in T}
  OBVIOUS
<1>2. S = DOMAIN s
  BY <1>1 DEF Q!ToSet
<1> QED
  BY <1>1, <1>2, SiftedWhole DEF Q!Only

\* Sifted again by what was kept, it keeps the same.
LEMMA OnlyAgain ==
  ASSUME NEW s, Q!IsSeq(s), NEW T
  PROVE  Q!Only(s, Q!ToSet(Q!Only(s, T))) = Q!Only(s, T)
<1>1. PICK U : U = Q!ToSet(Q!Only(s, T))
  OBVIOUS
<1>2. U = Q!ToSet(s) \cap T
  BY <1>1, OnlyIs
<1>3. {i \in DOMAIN s : s[i] \in U} = {i \in DOMAIN s : s[i] \in T}
  BY <1>2 DEF Q!ToSet
<1>4. Q!Only(s, U) = Q!Only(s, T)
  BY <1>3 DEF Q!Only
<1> QED
  BY <1>1, <1>4

LEMMA FoundWhole ==
  ASSUME NEW s, Q!IsSeq(s), << >> \notin Q!ToSet(s)
  PROVE  Q!Found(s) = s
<1>1. PICK T : T = Q!ToSet(s) \ {<< >>}
  OBVIOUS
<1>2. Q!ToSet(s) \subseteq T
  BY <1>1
<1>3. Q!Found(s) = Q!Only(s, T)
  BY <1>1 DEF Q!Found, Q!Nothing
<1> QED
  BY <1>2, <1>3, OnlyWhole

LEMMA ValidWhole ==
  ASSUME NEW s, Q!IsSeq(s), \A a \in Q!ToSet(s) : a.column # << >>
  PROVE  Q!Valid(s) = s
<1>1. PICK S : S = {k \in DOMAIN s : s[k].column # << >>}
  OBVIOUS
<1>2. S = DOMAIN s
  BY <1>1 DEF Q!ToSet
<1> QED
  BY <1>1, <1>2, SiftedWhole DEF Q!Valid, Q!Nothing

Distinct(s) == \A i, j \in DOMAIN s : s[i] = s[j] => i = j
Firsts(s) == {k \in DOMAIN s : \A l \in 1 .. k - 1 : s[l] # s[k]}

LEMMA FirstsDistinct ==
  ASSUME NEW s, Q!IsSeq(s), NEW u, u = Q!Sifted(s, Firsts(s))
  PROVE  Q!IsSeq(u) /\ Distinct(u)
<1>1. PICK S : S = Firsts(s)
  OBVIOUS
<1>2. S \in SUBSET DOMAIN s /\ \A k \in S : \A l \in 1 .. k - 1 : s[l] # s[k]
  BY <1>1 DEF Firsts
<1>3. /\ Q!IsSeq(u)
      /\ \A i \in DOMAIN u : \E p \in S : Q!Rank(S, p) = i /\ u[i] = s[p]
  BY <1>1, <1>2, SiftedIs
<1>4. DOMAIN s = 1 .. Len(s) /\ Len(s) \in Nat
  BY SeqDomain
<1>5. ASSUME NEW i \in DOMAIN u, NEW j \in DOMAIN u, u[i] = u[j] PROVE i = j
  <2>1. PICK p \in S : Q!Rank(S, p) = i /\ u[i] = s[p]
    BY <1>3
  <2>2. PICK q \in S : Q!Rank(S, q) = j /\ u[j] = s[q]
    BY <1>3
  <2>3. s[p] = s[q]
    BY <1>5, <2>1, <2>2
  <2>4. p \in Nat /\ q \in Nat /\ p >= 1 /\ q >= 1
    BY <1>2, <1>4
  <2>5. p \notin 1 .. q - 1 /\ q \notin 1 .. p - 1
    BY <1>2, <2>3
  <2>6. p = q
    BY <2>4, <2>5
  <2> QED
    BY <2>1, <2>2, <2>6
<1> QED
  BY <1>3, <1>5 DEF Distinct

LEMMA FirstsWhole ==
  ASSUME NEW s, Q!IsSeq(s), Distinct(s)
  PROVE  Q!Sifted(s, Firsts(s)) = s
<1>1. DOMAIN s = 1 .. Len(s) /\ Len(s) \in Nat
  BY SeqDomain
<1>2. ASSUME NEW k \in DOMAIN s, NEW l \in 1 .. k - 1 PROVE s[l] # s[k]
  <2>1. l \in DOMAIN s /\ l # k
    BY <1>1
  <2> QED
    BY <2>1 DEF Distinct
<1>3. Firsts(s) = DOMAIN s
  BY <1>2 DEF Firsts
<1> QED
  BY <1>3, SiftedWhole

-----------------------------------------------------------------------------
(* A sync of a tab whose rows name what the choosers offer.                *)

\* What an aggregate may be of.
Countable(a, names) == a.column \in names \/ (a.column = Q!AllRows /\ a.fn = "COUNT")

LEMMA SettledAggregate ==
  ASSUME NEW names, Q!IsSeq(names), NEW a, IsRow(a), Countable(a, Q!ToSet(names))
  PROVE  [fn |-> a.fn, column |-> Q!Refill(a.column, Q!AggregateChoices(a.fn, names))] = a
<1>1. PICK c, x, f : c = Q!AggregateChoices(f, names) /\ x = a.column /\ f = a.fn
  OBVIOUS
<1>2. Q!IsSeq(c) /\ Q!ToSet(c) = Q!ToSet(names) \cup (IF f = "COUNT" THEN {Q!AllRows} ELSE {})
  BY <1>1, ChoicesAre
<1>3. x \in Q!ToSet(c)
  BY <1>1, <1>2 DEF Countable
<1>4. Q!Refill(x, c) = x
  BY <1>2, <1>3, RefillIs
<1> QED
  BY <1>1, <1>4 DEF IsRow

\* The rows of every section name what its choosers offer.
Settled(p, names) ==
  /\ \A a \in Q!ToSet(p["aggregate"]) : Countable(a, names)
  /\ Q!ToSet(p["filter"]) \subseteq names /\ Q!ToSet(p["group"]) \subseteq names
  /\ Q!ToSet(p["having"]) \subseteq Q!ToSet(Q!Labels(p["aggregate"]))
  /\ Q!ToSet(p["sort"]) \subseteq names \cup Q!ToSet(Q!Labels(p["aggregate"]))

LEMMA SettledRows ==
  ASSUME NEW p, Picks(p), NEW names, Q!IsSeq(names), NEW renames,
         \A a \in Q!ToSet(p["aggregate"]) : Countable(a, Q!ToSet(names))
  PROVE  Q!SyncedPicks(p, names, renames)["aggregate"] = p["aggregate"]
<1>1. PICK s : s = p["aggregate"]
  OBVIOUS
<1>2. Q!IsSeq(s) /\ \A a \in Q!ToSet(s) : IsRow(a)
  BY <1>1 DEF Picks, Q!RowSection
<1> DEFINE one(a) == [fn |-> a.fn, column |-> Q!Refill(a.column, Q!AggregateChoices(a.fn, names))]
<1>3. Q!SyncedPicks(p, names, renames)["aggregate"] = [k \in DOMAIN s |-> one(s[k])]
  BY <1>1 DEF Q!SyncedPicks, Q!RowSection
<1>4. ASSUME NEW k \in DOMAIN s PROVE one(s[k]) = s[k]
  <2>1. PICK a : a = s[k]
    OBVIOUS
  <2>2. IsRow(a) /\ Countable(a, Q!ToSet(names))
    BY <1>1, <1>2, <2>1 DEF Q!ToSet
  <2>3. one(a) = a
    BY <2>2, SettledAggregate
  <2> QED
    BY <2>1, <2>3
<1> HIDE DEF one
<1>5. [k \in DOMAIN s |-> one(s[k])] = [k \in DOMAIN s |-> s[k]]
  BY <1>4
<1>6. s = [k \in DOMAIN s |-> s[k]]
  BY <1>2, LenProperties DEF Q!IsSeq
<1> QED
  BY <1>1, <1>3, <1>5, <1>6

LEMMA CarriedAll ==
  ASSUME NEW s, Q!IsSeq(s), NEW choices, Q!IsSeq(choices), NEW renames,
         Q!ToSet(s) \subseteq Q!ToSet(choices),
         \A n \in Q!ToSet(s) : Q!Renamed(n, renames) = n
  PROVE  [k \in DOMAIN s |-> Q!Carried(s[k], choices, renames)] = s
<1>1. ASSUME NEW k \in DOMAIN s PROVE Q!Carried(s[k], choices, renames) = s[k]
  <2>1. PICK n : n = s[k]
    OBVIOUS
  <2>2. n \in Q!ToSet(choices) /\ Q!Renamed(n, renames) = n
    BY <2>1 DEF Q!ToSet
  <2> QED
    BY <2>1, <2>2, CarriedTo
<1>2. s = [k \in DOMAIN s |-> s[k]]
  BY LenProperties DEF Q!IsSeq
<1> QED
  BY <1>1, <1>2

LEMMA RefillAll ==
  ASSUME NEW s, Q!IsSeq(s), NEW choices, Q!IsSeq(choices), Q!ToSet(s) \subseteq Q!ToSet(choices)
  PROVE  [k \in DOMAIN s |-> Q!Refill(s[k], choices)] = s
<1>1. ASSUME NEW k \in DOMAIN s PROVE Q!Refill(s[k], choices) = s[k]
  <2>1. PICK n : n = s[k]
    OBVIOUS
  <2>2. n \in Q!ToSet(choices)
    BY <2>1 DEF Q!ToSet
  <2> QED
    BY <2>1, <2>2, RefillIs
<1>2. s = [k \in DOMAIN s |-> s[k]]
  BY LenProperties DEF Q!IsSeq
<1> QED
  BY <1>1, <1>2

\* A sync leaves them alone, if it renames none of them.
LEMMA SettledPicks ==
  ASSUME NEW p, Picks(p), NEW names, Q!IsSeq(names), NEW renames, Settled(p, Q!ToSet(names)),
         \A n \in Q!ToSet(names) : Q!Renamed(n, renames) = n
  PROVE  Q!SyncedPicks(p, names, renames) = p
<1>1. PICK f, s, a, g, h : /\ f = p["filter"] /\ s = p["sort"] /\ a = p["aggregate"]
                           /\ g = p["group"] /\ h = p["having"]
  OBVIOUS
<1>2. Q!IsSeq(f) /\ Q!IsSeq(s) /\ Q!IsSeq(a) /\ Q!IsSeq(g) /\ Q!IsSeq(h)
  BY <1>1 DEF Picks, Q!RowSection
<1>3. PICK labels, sorts : labels = Q!Labels(a) /\ sorts = names \o labels
  OBVIOUS
<1>4. Q!IsSeq(labels) /\ \A l \in Q!ToSet(labels) : Len(l) = 3
  BY <1>2, <1>3, LabelsAre
<1>5. Q!IsSeq(sorts) /\ Q!ToSet(sorts) = Q!ToSet(names) \cup Q!ToSet(labels)
  BY <1>3, <1>4, SeqJoin, JoinHolds
<1>6. /\ Q!ToSet(f) \subseteq Q!ToSet(names) /\ Q!ToSet(g) \subseteq Q!ToSet(names)
      /\ Q!ToSet(h) \subseteq Q!ToSet(labels) /\ Q!ToSet(s) \subseteq Q!ToSet(sorts)
      /\ \A x \in Q!ToSet(p["aggregate"]) : Countable(x, Q!ToSet(names))
  BY <1>1, <1>3, <1>5 DEF Settled
<1>7. PICK A : A = [k \in DOMAIN a |-> [fn |-> a[k].fn,
                      column |-> Q!Refill(a[k].column, Q!AggregateChoices(a[k].fn, names))]]
  OBVIOUS
<1>8. PICK q : q = Q!SyncedPicks(p, names, renames)
  OBVIOUS
<1> DEFINE F == [k \in DOMAIN f |-> Q!Carried(f[k], names, renames)]
           S == [k \in DOMAIN s |-> Q!Carried(s[k], sorts, renames)]
           G == [k \in DOMAIN g |-> Q!Refill(g[k], names)]
           H == [k \in DOMAIN h |-> Q!Refill(h[k], Q!Labels(A))]
<1>9. q = [r \in Q!RowSection |->
             CASE r = "filter" -> [k \in DOMAIN p[r] |-> Q!Carried(p[r][k], names, renames)]
               [] r = "sort" -> [k \in DOMAIN p[r] |-> Q!Carried(p[r][k], sorts, renames)]
               [] r = "aggregate" -> A
               [] r = "group" -> [k \in DOMAIN p[r] |-> Q!Refill(p[r][k], names)]
               [] r = "having" -> [k \in DOMAIN p[r] |-> Q!Refill(p[r][k], Q!Labels(A))]]
  BY <1>1, <1>3, <1>7, <1>8 DEF Q!SyncedPicks
<1>10. /\ q["filter"] = F /\ q["sort"] = S /\ q["aggregate"] = A
       /\ q["group"] = G /\ q["having"] = H
  BY <1>1, <1>9 DEF Q!RowSection
<1>11. q = [r \in Q!RowSection |-> q[r]]
  <2> DEFINE v(r) ==
        CASE r = "filter" -> [k \in DOMAIN p[r] |-> Q!Carried(p[r][k], names, renames)]
          [] r = "sort" -> [k \in DOMAIN p[r] |-> Q!Carried(p[r][k], sorts, renames)]
          [] r = "aggregate" -> A
          [] r = "group" -> [k \in DOMAIN p[r] |-> Q!Refill(p[r][k], names)]
          [] r = "having" -> [k \in DOMAIN p[r] |-> Q!Refill(p[r][k], Q!Labels(A))]
  <2>1. q = [r \in Q!RowSection |-> v(r)]
    BY <1>9
  <2> HIDE DEF v
  <2> QED
    BY <2>1
<1>12. A = a
  BY <1>1, <1>6, <1>8, <1>10, SettledRows
<1>13. ASSUME NEW n, Len(n) = 3 PROVE Q!Renamed(n, renames) = n
  BY <1>13 DEF Q!Renamed
<1>14. \A n \in Q!ToSet(sorts) : Q!Renamed(n, renames) = n
  BY <1>4, <1>5, <1>13
<1>15. F = f
  BY <1>2, <1>6, CarriedAll
<1>16. S = s
  BY <1>2, <1>5, <1>6, <1>14, CarriedAll
<1>17. G = g
  BY <1>2, <1>6, RefillAll
<1>18. H = h
  BY <1>2, <1>3, <1>4, <1>6, <1>12, RefillAll
<1>19. \A r \in Q!RowSection : q[r] = p[r]
  BY <1>1, <1>10, <1>12, <1>15, <1>16, <1>17, <1>18 DEF Q!RowSection
<1>20. p = [r \in Q!RowSection |-> p[r]]
  BY DEF Picks
<1> QED
  BY <1>8, <1>11, <1>19, <1>20

-----------------------------------------------------------------------------
(* The columns and the sources of a statement, looked up again.            *)

Every(lines, alias) == {alias[i] : i \in DOMAIN lines}

LEMMA ColumnAgain ==
  ASSUME NEW cat, IsCatalog(cat), NEW lines, Lines(cat, lines), NEW alias, Aliased(lines, alias),
         NEW m, Model(cat, lines, alias, m), NEW known, known = Every(lines, alias),
         NEW i \in DOMAIN lines, NEW c \in Q!ToSet(Q!ColumnsOf(cat, lines[i].table)),
         NEW a, a = alias[i] \/ (a = << >> /\ i = 1), NEW n, n = <<a, c>>
  PROVE  Q!RestoredColumn(cat, m, known, n) = <<alias[i], c>>
<1>1. Len(n) = 2 /\ n[1] = a /\ n[2] = c
  OBVIOUS
<1>2. PICK s, b : s = Q!Sources(m) /\ b = alias[i]
  OBVIOUS
<1>3. /\ DOMAIN s = DOMAIN lines /\ s[i].table = lines[i].table /\ s[i].alias = b
      /\ m.source.alias = alias[1]
  BY <1>2, SourcesAre DEF Model
<1>4. b # << >> /\ b \in known
  BY <1>2 DEF Aliased, Every
<1>5. b = IF n[1] = << >> THEN m.source.alias ELSE n[1]
  BY <1>1, <1>2, <1>3, <1>4
<1>6. Q!IsSeq(Q!ColumnsOf(cat, lines[i].table))
  BY LinesAre, ColumnsThere
<1>7. Q!Contains(Q!ColumnsOf(cat, s[i].table), n[2])
  BY <1>1, <1>3, <1>6, Containing
<1>8. s[i] \in {x \in Q!ToSet(s) : x.alias = b}
  BY <1>3 DEF Q!ToSet
<1>9. \E x \in {y \in Q!ToSet(s) : y.alias = b} : Q!Contains(Q!ColumnsOf(cat, x.table), n[2])
  BY <1>7, <1>8
<1>10. Q!RestoredColumn(cat, m, known, n)
         = IF Len(n) = 2 /\ b \in known
              /\ \E x \in {y \in Q!ToSet(s) : y.alias = b} :
                   Q!Contains(Q!ColumnsOf(cat, x.table), n[2])
             THEN <<b, n[2]>> ELSE Q!Nothing
  BY <1>2, <1>5 DEF Q!RestoredColumn
<1>11. Q!RestoredColumn(cat, m, known, n) = <<b, n[2]>>
  BY <1>1, <1>4, <1>9, <1>10
<1> QED
  BY <1>1, <1>2, <1>11

LEMMA NameAgain ==
  ASSUME NEW cat, IsCatalog(cat), NEW lines, Lines(cat, lines), NEW alias, Aliased(lines, alias),
         NEW m, Model(cat, lines, alias, m), NEW known, known = Every(lines, alias),
         NEW n \in Names(cat, lines, alias, DOMAIN lines)
  PROVE  Q!RestoredColumn(cat, m, known, n) = n
<1>1. PICK i \in DOMAIN lines : n \in Of(cat, lines[i], alias[i])
  BY DEF Names
<1>2. PICK c \in Q!ToSet(Q!ColumnsOf(cat, lines[i].table)) : n = <<alias[i], c>>
  BY <1>1 DEF Of
<1>3. PICK a : a = alias[i]
  OBVIOUS
<1>4. n = <<a, c>> /\ (a = alias[i] \/ (a = << >> /\ i = 1))
  BY <1>2, <1>3
<1>5. Q!RestoredColumn(cat, m, known, n) = <<alias[i], c>>
  BY <1>4, ColumnAgain
<1> QED
  BY <1>2, <1>5

LEMMA SeenAgain ==
  ASSUME NEW cat, IsCatalog(cat), NEW lines, Lines(cat, lines), NEW alias, Aliased(lines, alias),
         NEW m, Model(cat, lines, alias, m), NEW known, known = Every(lines, alias),
         NEW n \in Seen(cat, lines, alias), NEW r, Len(r) = Len(lines)
  PROVE  /\ Q!RestoredColumn(cat, m, known, n) # << >>
         /\ Q!Shown(Q!RestoredColumn(cat, m, known, n), r) = n
<1>1. PICK x \in Names(cat, lines, alias, DOMAIN lines) : n = Q!Shown(x, lines)
  BY DEF Seen
<1>2. Len(x) = 2 /\ x # << >>
  BY NamesThere
<1>3. CASE Len(lines) > 1
  <2>1. n = x
    BY <1>1, <1>3 DEF Q!Shown
  <2>2. Q!RestoredColumn(cat, m, known, n) = n
    BY <2>1, NameAgain
  <2>3. Q!Shown(n, r) = n
    BY <1>3 DEF Q!Shown
  <2> QED
    BY <1>2, <2>1, <2>2, <2>3
<1>4. CASE ~ (Len(lines) > 1)
  <2>1. DOMAIN lines = {1}
    <3>1. DOMAIN lines = 1 .. Len(lines) /\ Len(lines) \in Nat /\ Len(lines) # 0
      BY LinesAre
    <3>2. Len(lines) = 1
      BY <1>4, <3>1
    <3> QED
      BY <3>1, <3>2
  <2>2. PICK c \in Q!ToSet(Q!ColumnsOf(cat, lines[1].table)) : x = <<alias[1], c>>
    BY <2>1 DEF Names, Of
  <2>3. PICK a, i : a = << >> /\ i = 1
    OBVIOUS
  <2>4. n = <<a, c>>
    <3>1. x[2] = c
      BY <2>2
    <3>2. n = <<<< >>, x[2]>>
      BY <1>1, <1>4 DEF Q!Shown
    <3> QED
      BY <2>3, <3>1, <3>2
  <2>5. Q!RestoredColumn(cat, m, known, n) = <<alias[i], c>>
    <3>1. i \in DOMAIN lines /\ c \in Q!ToSet(Q!ColumnsOf(cat, lines[i].table))
      BY <2>1, <2>2, <2>3
    <3>2. a = alias[i] \/ (a = << >> /\ i = 1)
      BY <2>3
    <3> QED
      BY <2>4, <3>1, <3>2, ColumnAgain
  <2>6. PICK y : y = <<alias[i], c>>
    OBVIOUS
  <2>7. y # << >> /\ y[2] = c
    BY <2>6
  <2>8. Q!Shown(y, r) = <<<< >>, y[2]>>
    BY <1>4 DEF Q!Shown
  <2> QED
    BY <2>3, <2>4, <2>5, <2>6, <2>7, <2>8
<1> QED
  BY <1>3, <1>4

\* A statement about a catalog that has not changed loses no source.
LEMMA KnownAll ==
  ASSUME NEW cat, IsCatalog(cat), NEW was, Fit(cat, was), NEW lines, lines = was.lines,
         NEW alias, alias = Q!Named(was), NEW m, Model(cat, lines, alias, m)
  PROVE  Q!Known(cat, m) = Every(lines, alias)
<1>1. /\ Lines(cat, lines) /\ Aliased(lines, alias)
      /\ \A i \in DOMAIN lines : i # 1 => Joins(cat, lines, alias, i, lines[i].on)
  BY DEF Fit
<1>2. DOMAIN lines = 1 .. Len(lines) /\ Len(lines) \in Nat
      /\ \A i \in DOMAIN lines : lines[i].table \in Q!Tables(cat)
  BY <1>1, LinesAre
<1>3. PICK s : s = Q!Sources(m)
  OBVIOUS
<1>4. /\ DOMAIN s = DOMAIN lines
      /\ \A i \in DOMAIN lines : s[i].table = lines[i].table /\ s[i].alias = alias[i]
  BY <1>1, <1>3, SourcesAre
<1>5. PICK full : full = {x.alias : x \in {y \in Q!ToSet(s) : y.table \in Q!Tables(cat)}}
  OBVIOUS
<1>6. full = Every(lines, alias)
  <2>1. \A i \in DOMAIN lines : s[i] \in {y \in Q!ToSet(s) : y.table \in Q!Tables(cat)}
    BY <1>2, <1>4 DEF Q!ToSet
  <2>2. \A y \in Q!ToSet(s) : \E i \in DOMAIN lines : y = s[i]
    BY <1>4 DEF Q!ToSet
  <2>3. \A x \in full : \E i \in DOMAIN lines : x = alias[i]
    BY <1>4, <1>5, <2>2
  <2>4. \A i \in DOMAIN lines : alias[i] \in full
    BY <1>4, <1>5, <2>1
  <2> QED
    BY <2>3, <2>4 DEF Every
<1>7. Q!IsSeq(m.joins) /\ DOMAIN m.joins = 1 .. Len(lines) - 1
  BY DEF Model
<1>8. ASSUME NEW j \in Q!ToSet(m.joins) PROVE Whole(cat, m, full, j)
  <2>1. PICK k \in DOMAIN m.joins : j = m.joins[k]
    BY DEF Q!ToSet
  <2>2. PICK i : i = k + 1
    OBVIOUS
  <2>3. i \in DOMAIN lines /\ i # 1 /\ k \in 1 .. Len(lines) - 1
    BY <1>2, <1>7, <2>2
  <2>4. j.alias = alias[i] /\ j.on = Q!Conditions(lines[i])
    BY <2>1, <2>2, <2>3 DEF Model
  <2>5. PICK P : P = Q!Conditions(lines[i])
    OBVIOUS
  <2>6. Joins(cat, lines, alias, i, lines[i].on)
    BY <1>1, <2>3
  <2>7. \A c \in Q!ToSet(P) : /\ c[1] \in Names(cat, lines, alias, 1 .. i - 1)
                              /\ c[2] \in Of(cat, lines[i], alias[i])
    BY <2>5, <2>6, ConditionsAre
  <2>8. \A n \in Names(cat, lines, alias, 1 .. i - 1) : n \in Names(cat, lines, alias, DOMAIN lines)
    BY <1>2, <2>3 DEF Names
  <2>9. \A n \in Of(cat, lines[i], alias[i]) : n \in Names(cat, lines, alias, DOMAIN lines)
    BY <2>3 DEF Names
  <2>10. ASSUME NEW n \in Names(cat, lines, alias, DOMAIN lines)
         PROVE  Q!RestoredColumn(cat, m, full, n) # Q!Nothing
    <3>1. DOMAIN lines \in SUBSET DOMAIN lines
      OBVIOUS
    <3>2. n # << >>
      BY <1>1, <3>1, NamesThere
    <3>3. Q!RestoredColumn(cat, m, full, n) = n
      BY <1>1, <1>6, NameAgain
    <3> QED
      BY <3>2, <3>3 DEF Q!Nothing
  <2>11. ASSUME NEW p \in DOMAIN j.on, NEW side \in 1 .. 2
         PROVE  Q!RestoredColumn(cat, m, full, j.on[p][side]) # Q!Nothing
    <3>1. j.on[p] \in Q!ToSet(P)
      BY <2>4, <2>5 DEF Q!ToSet
    <3>2. side = 1 \/ side = 2
      OBVIOUS
    <3>3. j.on[p][side] \in Names(cat, lines, alias, DOMAIN lines)
      BY <2>7, <2>8, <2>9, <3>1, <3>2
    <3> QED
      BY <2>10, <3>3
  <2>12. j.alias \in full
    BY <1>6, <2>3, <2>4 DEF Every
  <2> QED
    BY <2>11, <2>12 DEF Whole
<1>9. Q!Known(cat, m) = full
  BY <1>3, <1>5, <1>7, <1>8, KnownIs
<1> QED
  BY <1>6, <1>9

\* The lines `new` are those of a statement read again.
Again(lines, alias, new) ==
  /\ Q!IsSeq(new) /\ DOMAIN new = DOMAIN lines /\ Len(new) = Len(lines)
  /\ \A i \in DOMAIN lines :
       /\ new[i].table = lines[i].table /\ new[i].typed = alias[i]
       /\ i # 1 => new[i].kind = lines[i].kind

LEMMA RestoredAgain ==
  ASSUME NEW cat, IsCatalog(cat), NEW lines, Lines(cat, lines), NEW alias,
         NEW m, Model(cat, lines, alias, m), NEW known, known = Every(lines, alias),
         NEW r, r = Q!RestoredLines(cat, m, known)
  PROVE  Again(lines, alias, r)
<1>1. PICK joins, n : joins = m.joins /\ n = Len(lines)
  OBVIOUS
<1>2. DOMAIN lines = 1 .. n /\ n \in Nat /\ n # 0
  BY <1>1, LinesAre
<1>3. /\ Q!IsSeq(joins) /\ DOMAIN joins = 1 .. n - 1
      /\ m.source.table = lines[1].table /\ m.source.alias = alias[1]
      /\ \A k \in 1 .. n - 1 :
           /\ joins[k].table = lines[k + 1].table /\ joins[k].alias = alias[k + 1]
           /\ joins[k].kind = lines[k + 1].kind
  BY <1>1 DEF Model
<1>4. PICK S : S = {k \in DOMAIN joins : joins[k].alias \in known}
  OBVIOUS
<1>5. S = DOMAIN joins
  <2>1. \A k \in 1 .. n - 1 : k + 1 \in DOMAIN lines
    BY <1>2
  <2>2. \A k \in 1 .. n - 1 : joins[k].alias \in known
    BY <1>3, <2>1 DEF Every
  <2> QED
    BY <1>3, <1>4, <2>2
<1>6. Q!Sifted(joins, S) = joins
  BY <1>3, <1>5, SiftedWhole
<1> DEFINE top == [Q!Base(m.source.table) EXCEPT !.typed = m.source.alias]
           one(k) == [row |-> k, table |-> joins[k].table, typed |-> joins[k].alias,
                      kind |-> joins[k].kind, on |-> <<Q!EmptyOn>>]
           rest == [k \in DOMAIN joins |-> one(k)]
           full == <<top>> \o rest
<1>7. r = full
  BY <1>1, <1>4, <1>6 DEF Q!RestoredLines
<1>8. top.table = lines[1].table /\ top.typed = alias[1]
  BY <1>3 DEF Q!Base
<1>9. \A k \in 1 .. n - 1 : /\ one(k).table = lines[k + 1].table /\ one(k).typed = alias[k + 1]
                            /\ one(k).kind = lines[k + 1].kind
  BY <1>3
<1> HIDE DEF top, one
<1>10. DOMAIN rest = 1 .. n - 1 /\ \A k \in 1 .. n - 1 : rest[k] = one(k)
  BY <1>3
<1>11. Q!IsSeq(rest) /\ Len(rest) = n - 1
  <2>1. rest = [k \in 1 .. n - 1 |-> rest[k]] /\ n - 1 \in Nat
    BY <1>2, <1>3
  <2> HIDE DEF rest
  <2>2. Q!IsSeq(rest)
    BY <2>1, SeqOver
  <2>3. DOMAIN rest = 1 .. Len(rest) /\ Len(rest) \in Nat
    BY <2>2, SeqDomain
  <2>4. PICK x, y : x = Len(rest) /\ y = n - 1
    OBVIOUS
  <2>5. 1 .. x = 1 .. y /\ x \in Nat /\ y \in Nat
    BY <1>10, <2>1, <2>3, <2>4
  <2>6. x = y
    BY <2>5, SameLength
  <2> QED
    BY <2>2, <2>4, <2>6
<1> HIDE DEF rest
<1>12. PICK a : a = <<top>>
  OBVIOUS
<1>13. Q!IsSeq(a) /\ Len(a) = 1 /\ a[1] = top
  BY <1>12, OneHolds
<1>14. DOMAIN a = 1 .. 1
  BY <1>13, SeqDomain
<1>15. /\ Q!IsSeq(a \o rest) /\ Len(a \o rest) = 1 + (n - 1)
       /\ \A i \in DOMAIN a : (a \o rest)[i] = a[i]
       /\ \A i \in DOMAIN rest : (a \o rest)[Len(a) + i] = rest[i]
  <2>1. PICK b : b = rest
    OBVIOUS
  <2>2. Q!IsSeq(b) /\ Q!IsSeq(a)
    BY <1>11, <1>13, <2>1
  <2>3. Q!IsSeq(a \o b) /\ Len(a \o b) = Len(a) + Len(b)
    BY <2>2, SeqJoin
  <2>4. \A i \in DOMAIN a : (a \o b)[i] = a[i]
    BY <2>2, SeqJoin
  <2>5. \A i \in DOMAIN b : (a \o b)[Len(a) + i] = b[i]
    BY <2>2, SeqJoin
  <2> QED
    BY <1>11, <1>13, <2>1, <2>3, <2>4, <2>5
<1>16. r = a \o rest
  BY <1>7, <1>12
<1>17. Q!IsSeq(r) /\ Len(r) = n
  BY <1>2, <1>15, <1>16
<1>18. DOMAIN r = 1 .. n
  BY <1>17, SeqDomain
<1>19. r[1] = top
  BY <1>13, <1>14, <1>15, <1>16
<1>20. \A k \in 1 .. n - 1 : r[1 + k] = one(k)
  BY <1>10, <1>13, <1>15, <1>16
<1>21. ASSUME NEW i \in DOMAIN lines
       PROVE  /\ r[i].table = lines[i].table /\ r[i].typed = alias[i]
              /\ i # 1 => r[i].kind = lines[i].kind
  <2>1. CASE i = 1
    BY <1>8, <1>19, <2>1
  <2>2. CASE i # 1
    <3>1. PICK k : k = i - 1
      OBVIOUS
    <3>2. k \in 1 .. n - 1 /\ i = k + 1 /\ i = 1 + k
      BY <1>2, <2>2, <3>1
    <3>3. r[i] = one(k)
      BY <1>20, <3>2
    <3> QED
      BY <1>9, <3>2, <3>3
  <2> QED
    BY <2>1, <2>2
<1> QED
  BY <1>1, <1>2, <1>17, <1>18, <1>21 DEF Again

LEMMA AgainSame ==
  ASSUME NEW lines, NEW alias, NEW r, Again(lines, alias, r), NEW new, Same(r, new)
  PROVE  Again(lines, alias, new)
BY DEF Again, Same

\* They are called what they were called, and have the columns they had.
LEMMA AgainCalled ==
  ASSUME NEW cat, IsCatalog(cat), NEW lines, Lines(cat, lines), NEW alias, Aliased(lines, alias),
         NEW new, Lines(cat, new), Again(lines, alias, new)
  PROVE  /\ Q!Aliases(new) = alias
         /\ Q!Qualified(cat, new, alias) = Q!Qualified(cat, lines, alias)
         /\ Q!Offered(cat, new, alias) = Q!Offered(cat, lines, alias)
         /\ \A n : Q!Shown(n, new) = Q!Shown(n, lines)
         /\ \A I \in SUBSET DOMAIN lines : Names(cat, new, alias, I) = Names(cat, lines, alias, I)
         /\ \A i \in DOMAIN lines : Of(cat, new[i], alias[i]) = Of(cat, lines[i], alias[i])
<1>1. /\ DOMAIN new = DOMAIN lines /\ Len(new) = Len(lines)
      /\ \A i \in DOMAIN lines : new[i].table = lines[i].table /\ new[i].typed = alias[i]
  BY DEF Again
<1>2. Q!Aliases(new) = alias
  <2>1. PICK a : a = Q!Aliases(new)
    OBVIOUS
  <2>2. /\ \A i \in DOMAIN new : new[i].typed # << >>
        /\ \A i, j \in DOMAIN new : new[i].typed = new[j].typed => i = j
    BY <1>1 DEF Aliased
  <2>3. \A i \in DOMAIN new : a[i] = new[i].typed
    BY <2>1, <2>2, AliasesTyped
  <2>4. a = [i \in DOMAIN new |-> a[i]]
    BY <2>1, AliasesAre DEF Aliased
  <2>5. alias = [i \in DOMAIN lines |-> alias[i]]
    BY DEF Aliased
  <2>6. \A i \in DOMAIN lines : a[i] = alias[i]
    BY <1>1, <2>3
  <2> QED
    BY <1>1, <2>1, <2>4, <2>5, <2>6
<1>3. Q!Qualified(cat, new, alias) = Q!Qualified(cat, lines, alias)
  <2> DEFINE s(t, a) == [k \in DOMAIN Q!ColumnsOf(cat, t) |-> <<a, Q!ColumnsOf(cat, t)[k]>>]
  <2>1. /\ Q!Qualified(cat, new, alias) = Q!FlattenSeq([i \in DOMAIN new |-> s(new[i].table, alias[i])])
        /\ Q!Qualified(cat, lines, alias)
             = Q!FlattenSeq([i \in DOMAIN lines |-> s(lines[i].table, alias[i])])
    BY DEF Q!Qualified
  <2> HIDE DEF s
  <2>2. [i \in DOMAIN new |-> s(new[i].table, alias[i])]
          = [i \in DOMAIN lines |-> s(lines[i].table, alias[i])]
    BY <1>1
  <2> QED
    BY <2>1, <2>2
<1>4. \A n : Q!Shown(n, new) = Q!Shown(n, lines)
  BY <1>1 DEF Q!Shown
<1>5. Q!Offered(cat, new, alias) = Q!Offered(cat, lines, alias)
  <2>1. PICK q : q = Q!Qualified(cat, lines, alias)
    OBVIOUS
  <2>2. /\ Q!Offered(cat, new, alias) = [k \in DOMAIN q |-> Q!Shown(q[k], new)]
        /\ Q!Offered(cat, lines, alias) = [k \in DOMAIN q |-> Q!Shown(q[k], lines)]
    BY <1>3, <2>1 DEF Q!Offered
  <2> QED
    BY <1>4, <2>2
<1>6. \A i \in DOMAIN lines : Of(cat, new[i], alias[i]) = Of(cat, lines[i], alias[i])
  BY <1>1 DEF Of
<1>7. \A I \in SUBSET DOMAIN lines : Names(cat, new, alias, I) = Names(cat, lines, alias, I)
  BY <1>6 DEF Names
<1> QED
  BY <1>2, <1>3, <1>4, <1>5, <1>6, <1>7

\* No source is renamed whose old name a source goes by now.
Harmless(new, aliasOf, alias) ==
  \A i \in DOMAIN new :
    (new[i].row \in DOMAIN aliasOf /\ aliasOf[new[i].row] # alias[i]) =>
      /\ aliasOf[new[i].row] # << >>
      /\ \A j \in DOMAIN new : alias[j] # aliasOf[new[i].row]

LEMMA Unrenamed ==
  ASSUME NEW cat, IsCatalog(cat), NEW new, Lines(cat, new), NEW aliasOf, NEW alias,
         Harmless(new, aliasOf, alias), NEW renames, renames = Q!Renames(aliasOf, new, alias)
  PROVE  /\ \A n \in Names(cat, new, alias, DOMAIN new) : Q!Renamed(n, renames) = n
         /\ \A n \in Seen(cat, new, alias) : Q!Renamed(n, renames) = n
<1> DEFINE moved == {k \in DOMAIN new : /\ new[k].row \in DOMAIN aliasOf
                                        /\ aliasOf[new[k].row] # alias[k]}
           A == {aliasOf[new[k].row] : k \in moved}
<1>1. DOMAIN renames = A
  BY DEF Q!Renames
<1>2. \A a \in A : a # << >> /\ \A j \in DOMAIN new : alias[j] # a
  BY DEF Harmless
<1> HIDE DEF A
<1>3. ASSUME NEW n, n[1] = << >> \/ \E j \in DOMAIN new : n[1] = alias[j]
      PROVE  Q!Renamed(n, renames) = n
  <2>1. n[1] \notin DOMAIN renames
    BY <1>1, <1>2, <1>3
  <2> QED
    BY <2>1 DEF Q!Renamed
<1>4. ASSUME NEW n \in Names(cat, new, alias, DOMAIN new)
      PROVE  \E j \in DOMAIN new : n[1] = alias[j]
  <2>1. DOMAIN new \in SUBSET DOMAIN new
    OBVIOUS
  <2> QED
    BY <2>1, NamesThere
<1>5. ASSUME NEW n \in Seen(cat, new, alias)
      PROVE  n[1] = << >> \/ \E j \in DOMAIN new : n[1] = alias[j]
  <2>1. PICK x \in Names(cat, new, alias, DOMAIN new) : n = Q!Shown(x, new)
    BY DEF Seen
  <2>2. CASE Len(new) > 1
    BY <1>4, <2>1, <2>2 DEF Q!Shown
  <2>3. CASE ~ (Len(new) > 1)
    <3>1. n = <<<< >>, x[2]>>
      BY <2>1, <2>3 DEF Q!Shown
    <3> QED
      BY <3>1
  <2> QED
    BY <2>2, <2>3
<1> QED
  BY <1>3, <1>4, <1>5

\* A tab on the way to being restored: its sources are the statement's, and its
\* aggregates may be of what they are of.
Ready(cat, lines, alias, t) ==
  /\ IsTab(t) /\ Lines(cat, t.lines) /\ Again(lines, alias, t.lines)
  /\ Picks(t.picks) /\ Harmless(t.lines, t.aliasOf, alias)
  /\ \A a \in Q!ToSet(t.picks["aggregate"]) : Countable(a, Seen(cat, lines, alias))

\* A sync leaves the sources what they are and the aggregates of what they are.
LEMMA SyncReady ==
  ASSUME Q!BuilderAssumption, NEW cat, IsCatalog(cat), NEW lines, Lines(cat, lines), NEW alias,
         Aliased(lines, alias), NEW t, Ready(cat, lines, alias, t), NEW u, u = Q!Sync(cat, t)
  PROVE  /\ Ready(cat, lines, alias, u) /\ Q!Named(u) = alias
         /\ Same(t.lines, u.lines)
         /\ u.picks["aggregate"] = t.picks["aggregate"] /\ u.autoGroup = t.autoGroup
         /\ \A i \in DOMAIN lines : i # 1 => Joins(cat, u.lines, alias, i, u.lines[i].on)
<1>1. PICK new, renames, names : /\ new = t.lines /\ renames = Q!Renames(t.aliasOf, new, alias)
                                 /\ names = Q!Offered(cat, lines, alias)
  OBVIOUS
<1>2. /\ Lines(cat, new) /\ Again(lines, alias, new) /\ Picks(t.picks)
      /\ Harmless(new, t.aliasOf, alias)
  BY <1>1 DEF Ready
<1>3. Q!Aliases(new) = alias /\ Q!Offered(cat, new, alias) = names
  BY <1>1, <1>2, AgainCalled
<1>4. /\ IsTab(u) /\ Same(new, u.lines) /\ Lines(cat, u.lines)
      /\ DOMAIN u.aliasOf = {l.row : l \in Q!ToSet(u.lines)} /\ Q!Named(u) = alias
      /\ \A i \in DOMAIN u.lines : i # 1 => Joins(cat, u.lines, alias, i, u.lines[i].on)
  BY <1>1, <1>2, <1>3, SyncLines
<1>5. Fit(cat, u)
  BY <1>1, <1>2, SyncFits
<1>6. Picks(u.picks)
  BY <1>5 DEF Fit
<1>7. Again(lines, alias, u.lines)
  BY <1>2, <1>4, AgainSame
<1>8. Harmless(u.lines, u.aliasOf, alias)
  <2>1. Q!Named(u) = [i \in DOMAIN u.lines |-> u.aliasOf[u.lines[i].row]]
    BY DEF Q!Named
  <2>2. \A i \in DOMAIN u.lines : u.aliasOf[u.lines[i].row] = alias[i]
    BY <1>4, <2>1
  <2> QED
    BY <2>2 DEF Harmless
<1>9. Q!IsSeq(names) /\ Q!ToSet(names) = Seen(cat, lines, alias)
  BY <1>1, LinesAre, OfferedIs DEF Lines, Seen
<1>10. u.picks = Q!SyncedPicks(t.picks, names, renames) /\ u.autoGroup = t.autoGroup
  BY <1>1, <1>3 DEF Q!Sync
<1>11. \A a \in Q!ToSet(t.picks["aggregate"]) : Countable(a, Q!ToSet(names))
  BY <1>9 DEF Ready
<1>12. u.picks["aggregate"] = t.picks["aggregate"]
  <2>1. PICK p : p = t.picks
    OBVIOUS
  <2>2. Picks(p) /\ \A a \in Q!ToSet(p["aggregate"]) : Countable(a, Q!ToSet(names))
    BY <1>2, <1>11, <2>1
  <2>3. Q!SyncedPicks(p, names, renames)["aggregate"] = p["aggregate"]
    BY <1>9, <2>2, SettledRows
  <2> QED
    BY <1>10, <2>1, <2>3
<1>13. \A a \in Q!ToSet(u.picks["aggregate"]) : Countable(a, Seen(cat, lines, alias))
  BY <1>12 DEF Ready
<1>14. DOMAIN u.lines = DOMAIN lines
  BY <1>7 DEF Again
<1>15. Ready(cat, lines, alias, u)
  BY <1>4, <1>6, <1>7, <1>8, <1>13 DEF Ready
<1> QED
  BY <1>1, <1>4, <1>10, <1>12, <1>14, <1>15

\* And what is picked of them what it is.
LEMMA SyncSettled ==
  ASSUME Q!BuilderAssumption, NEW cat, IsCatalog(cat), NEW lines, Lines(cat, lines), NEW alias,
         Aliased(lines, alias), NEW t, Ready(cat, lines, alias, t),
         t.checked \subseteq Names(cat, lines, alias, DOMAIN lines),
         Settled(t.picks, Seen(cat, lines, alias)), NEW u, u = Q!Sync(cat, t)
  PROVE  u.checked = t.checked /\ u.picks = t.picks
<1>1. PICK new, renames, names, q :
        /\ new = t.lines /\ renames = Q!Renames(t.aliasOf, new, alias)
        /\ names = Q!Offered(cat, lines, alias) /\ q = Q!Qualified(cat, lines, alias)
  OBVIOUS
<1>2. /\ Lines(cat, new) /\ Again(lines, alias, new) /\ Picks(t.picks)
      /\ Harmless(new, t.aliasOf, alias)
  BY <1>1 DEF Ready
<1>3. /\ Q!Aliases(new) = alias /\ Q!Offered(cat, new, alias) = names
      /\ Q!Qualified(cat, new, alias) = q
  BY <1>1, <1>2, AgainCalled
<1>4. Names(cat, new, alias, DOMAIN new) = Names(cat, lines, alias, DOMAIN lines)
  <2>1. DOMAIN new = DOMAIN lines
    BY <1>2 DEF Again
  <2>2. \A I \in SUBSET DOMAIN lines : Names(cat, new, alias, I) = Names(cat, lines, alias, I)
    BY <1>2, AgainCalled
  <2> QED
    BY <2>1, <2>2
<1>5. Seen(cat, new, alias) = Seen(cat, lines, alias)
  <2>1. \A n : Q!Shown(n, new) = Q!Shown(n, lines)
    BY <1>2, AgainCalled
  <2> QED
    BY <1>4, <2>1 DEF Seen
<1>6. Q!IsSeq(names) /\ Q!ToSet(names) = Seen(cat, lines, alias)
  BY <1>1, LinesAre, OfferedIs DEF Lines, Seen
<1>7. Q!ToSet(q) = Names(cat, lines, alias, DOMAIN lines)
  BY <1>1, LinesAre, QualifiedIs DEF Lines
<1>8. /\ \A n \in Names(cat, new, alias, DOMAIN new) : Q!Renamed(n, renames) = n
      /\ \A n \in Seen(cat, new, alias) : Q!Renamed(n, renames) = n
  BY <1>1, <1>2, Unrenamed
<1>9. /\ u.picks = Q!SyncedPicks(t.picks, names, renames)
      /\ u.checked = Q!SyncedTicks(t.checked, q, renames)
  BY <1>1, <1>3 DEF Q!Sync
<1>10. u.checked = t.checked
  <2>1. \A n \in t.checked : Q!Renamed(n, renames) = n /\ n \in Q!ToSet(q)
    BY <1>4, <1>7, <1>8
  <2> QED
    BY <1>9, <2>1 DEF Q!SyncedTicks
<1>11. Settled(t.picks, Q!ToSet(names)) /\ \A n \in Q!ToSet(names) : Q!Renamed(n, renames) = n
  BY <1>5, <1>6, <1>8
<1>12. u.picks = t.picks
  <2>1. PICK p : p = t.picks
    OBVIOUS
  <2>2. Q!SyncedPicks(p, names, renames) = p
    BY <1>2, <1>6, <1>11, <2>1, SettledPicks
  <2> QED
    BY <1>9, <2>1, <2>2
<1> QED
  BY <1>10, <1>12

\* A tab whose aggregates are replaced by ones that may be there is still ready.
LEMMA ReadyWith ==
  ASSUME NEW cat, NEW lines, NEW alias, NEW t, Ready(cat, lines, alias, t),
         NEW s, Q!IsSeq(s), \A y \in Q!ToSet(s) : IsRow(y) /\ Countable(y, Seen(cat, lines, alias)),
         NEW u, u = Q!WithRows(t, "aggregate", s)
  PROVE  Ready(cat, lines, alias, u) /\ u.picks["aggregate"] = s /\ u.lines = t.lines
<1>1. IsTab(t) /\ Picks(t.picks)
  BY DEF Ready
<1>2. "aggregate" \in Q!RowSection
  BY DEF Q!RowSection
<1>3. Picks(u.picks) /\ Repicked(t, "aggregate", s, u)
  BY <1>1, <1>2, RowsSet
<1>4. IsTab(u) /\ u.lines = t.lines /\ u.aliasOf = t.aliasOf /\ u.picks["aggregate"] = s
  BY <1>3 DEF Repicked
<1> QED
  BY <1>3, <1>4 DEF Ready

LEMMA NewCounts ==
  ASSUME Q!BuilderAssumption, NEW names, Q!IsSeq(names), NEW b, b = Q!NewAggregate(names)
  PROVE  IsRow(b) /\ b.fn = "COUNT" /\ b.column = Q!AllRows
<1>1. PICK c, one : c = Q!AggregateChoices("COUNT", names) /\ one = <<Q!AllRows>>
  OBVIOUS
<1>2. b = [fn |-> "COUNT", column |-> c[1]]
  BY <1>1 DEF Q!NewAggregate, Q!BuilderAssumption
<1>3. Q!IsSeq(one) /\ Len(one) = 1 /\ one[1] = Q!AllRows
  BY <1>1, OneHolds
<1>4. DOMAIN one = 1 .. 1
  BY <1>3, SeqDomain
<1>5. \A i \in DOMAIN one : (one \o names)[i] = one[i]
  BY <1>3, SeqJoin
<1>6. c = one \o names
  BY <1>1 DEF Q!AggregateChoices
<1>7. c[1] = Q!AllRows
  BY <1>3, <1>4, <1>5, <1>6
<1> QED
  BY <1>2, <1>7 DEF IsRow

\* An aggregate is added, behind those that are there.
LEMMA AggregateAgain ==
  ASSUME Q!BuilderAssumption, NEW cat, IsCatalog(cat), NEW lines, Lines(cat, lines), NEW alias,
         Aliased(lines, alias), NEW t, Ready(cat, lines, alias, t),
         NEW a, IsRow(a), Countable(a, Seen(cat, lines, alias)),
         NEW v, v = Q!RestoredAggregate(cat, t, a)
  PROVE  Ready(cat, lines, alias, v) /\ v.picks["aggregate"] = Append(t.picks["aggregate"], a)
<1>1. PICK names : names = Q!Offered(cat, t.lines, Q!Aliases(t.lines))
  OBVIOUS
<1>2. PICK s, b, x, w, u : /\ s = t.picks["aggregate"] /\ b = Q!NewAggregate(names)
                           /\ x = Append(s, b) /\ w = Q!WithRows(t, "aggregate", x)
                           /\ u = Q!AddAggregateTo(cat, t)
  OBVIOUS
<1>3. PICK n : n = Len(s)
  OBVIOUS
<1>4. "aggregate" \in Q!RowSection
  BY DEF Q!RowSection
<1>5. /\ Picks(t.picks) /\ Lines(cat, t.lines)
      /\ \A y \in Q!ToSet(s) : Countable(y, Seen(cat, lines, alias))
  BY <1>2 DEF Ready
<1>6. Q!IsSeq(s) /\ \A y \in Q!ToSet(s) : IsRow(y)
  BY <1>2, <1>4, <1>5 DEF Picks
<1>7. Q!IsSeq(names)
  BY <1>1, <1>5, LinesAre, OfferedIs DEF Lines
<1>8. IsRow(b) /\ Countable(b, Seen(cat, lines, alias))
  BY <1>2, <1>7, NewCounts DEF Countable
<1>9. /\ Q!IsSeq(x) /\ Len(x) = n + 1 /\ DOMAIN x = 1 .. n + 1 /\ Q!ToSet(x) = Q!ToSet(s) \cup {b}
      /\ \A i \in 1 .. n : x[i] = s[i]
  BY <1>2, <1>3, <1>6, AppendHolds
<1>10. \A y \in Q!ToSet(x) : IsRow(y) /\ Countable(y, Seen(cat, lines, alias))
  BY <1>5, <1>6, <1>8, <1>9
<1>11. Ready(cat, lines, alias, w) /\ w.picks["aggregate"] = x
  <2>1. Q!IsSeq(x) /\ w = Q!WithRows(t, "aggregate", x)
    BY <1>2, <1>9
  <2> QED
    BY <1>10, <2>1, ReadyWith
<1>12. u = Q!Sync(cat, w)
  BY <1>1, <1>2 DEF Q!AddAggregateTo
<1>13. Ready(cat, lines, alias, u) /\ u.picks["aggregate"] = x
  BY <1>11, <1>12, SyncReady
<1>14. PICK z, k : z = [x EXCEPT ![k] = a] /\ k = n + 1
  OBVIOUS
<1>15. v = Q!WithRows(u, "aggregate", z)
  BY <1>2, <1>3, <1>13, <1>14 DEF Q!RestoredAggregate
<1>16. Q!IsSeq(z) /\ DOMAIN z = DOMAIN x /\ \A j \in DOMAIN x : z[j] = IF j = k THEN a ELSE x[j]
  BY <1>9, <1>14, ReplacedIs
<1>17. \A y \in Q!ToSet(z) : y = a \/ y \in Q!ToSet(x)
  BY <1>16 DEF Q!ToSet
<1>18. \A y \in Q!ToSet(z) : IsRow(y) /\ Countable(y, Seen(cat, lines, alias))
  BY <1>10, <1>17
<1>19. Ready(cat, lines, alias, v) /\ v.picks["aggregate"] = z
  BY <1>13, <1>15, <1>16, <1>18, ReadyWith
<1>20. z = Append(s, a)
  <2>1. PICK y : y = Append(s, a)
    OBVIOUS
  <2>2. /\ Q!IsSeq(y) /\ DOMAIN y = 1 .. n + 1 /\ y[n + 1] = a
        /\ \A i \in 1 .. n : y[i] = s[i]
    BY <1>3, <1>6, <2>1, AppendHolds
  <2>3. n \in Nat
    BY <1>3, <1>6, SeqDomain
  <2>4. \A i \in DOMAIN z : i = n + 1 \/ (i \in 1 .. n /\ i # n + 1)
    BY <1>9, <1>16, <2>3
  <2>5. \A i \in DOMAIN z : z[i] = y[i]
    BY <1>9, <1>14, <1>16, <2>2, <2>4
  <2>6. DOMAIN z = DOMAIN y
    BY <1>9, <1>16, <2>2
  <2> QED
    BY <1>16, <2>1, <2>2, <2>5, <2>6, SameSeq
<1> QED
  BY <1>2, <1>19, <1>20

LEMMA SeenThere ==
  ASSUME NEW cat, IsCatalog(cat), NEW lines, Lines(cat, lines), NEW alias,
         NEW n \in Seen(cat, lines, alias) \cup {Q!AllRows}
  PROVE  Len(n) = 2 /\ n # << >> /\ n = <<n[1], n[2]>>
<1>1. CASE n = Q!AllRows
  <2>1. n = <<<< >>, "*">>
    BY <1>1 DEF Q!AllRows
  <2> QED
    BY <2>1
<1>2. CASE n \in Seen(cat, lines, alias)
  <2>1. PICK x \in Names(cat, lines, alias, DOMAIN lines) : n = Q!Shown(x, lines)
    BY <1>2 DEF Seen
  <2>2. PICK i \in DOMAIN lines : x \in Of(cat, lines[i], alias[i])
    BY DEF Names
  <2>3. PICK c : x = <<alias[i], c>>
    BY <2>2 DEF Of
  <2>4. PICK a, b : n = <<a, b>>
    BY <2>1, <2>3 DEF Q!Shown
  <2> QED
    BY <2>4
<1> QED
  BY <1>1, <1>2

\* The label of an aggregate tells what it is of.
LEMMA LabelOf ==
  ASSUME NEW a, NEW n, n = a.column, n = <<n[1], n[2]>>, NEW l, l = Q!Label(a)
  PROVE  Tail(l) = n /\ l = <<l[1], n[1], n[2]>> /\ Len(l) = 3
<1>1. PICK x, y, f : x = n[1] /\ y = n[2] /\ f = <<a.fn>>
  OBVIOUS
<1>2. l = <<f, x, y>>
  BY <1>1 DEF Q!Label
<1>3. Tail(l) = <<x, y>> /\ l[1] = f /\ Len(l) = 3
  BY <1>2
<1> QED
  BY <1>1, <1>2, <1>3

LEMMA LabelFrom ==
  ASSUME NEW s, Q!IsSeq(s), NEW l \in Q!ToSet(Q!Labels(s))
  PROVE  \E a \in Q!ToSet(s) : l = Q!Label(a)
<1>1. PICK v : v = Q!Valid(s)
  OBVIOUS
<1>2. Q!ToSet(v) \subseteq Q!ToSet(s)
  BY <1>1, ValidIs
<1>3. Q!Labels(s) = [k \in DOMAIN v |-> Q!Label(v[k])]
  BY <1>1 DEF Q!Labels
<1>4. PICK k \in DOMAIN v : l = Q!Label(v[k])
  BY <1>3 DEF Q!ToSet
<1> QED
  BY <1>2, <1>4 DEF Q!ToSet

\* What restoring looks up: it is all there.
Saved(cat, lines, alias, m) ==
  /\ \A a \in Q!ToSet(m.aggregates) : Countable(a, Seen(cat, lines, alias))
  /\ Q!ToSet(m.having) \subseteq Q!ToSet(Q!Labels(m.aggregates))
  /\ Q!ToSet(m.orderBy) \subseteq Seen(cat, lines, alias) \cup Q!ToSet(Q!Labels(m.aggregates))

\* The base is not opened under a name that another source goes by.
OwnName(lines, alias) ==
  alias[1] # <<lines[1].table>> => \A j \in DOMAIN lines : alias[j] # <<lines[1].table>>

\* The tab is opened at the statement's base, and given its lines.
Opened(cat, b, lines) == [Q!Fresh(cat, b) EXCEPT !.lines = lines]

LEMMA StartReady ==
  ASSUME Q!BuilderAssumption, NEW cat, IsCatalog(cat), NEW lines, Lines(cat, lines), NEW alias,
         OwnName(lines, alias), NEW r, Lines(cat, r), Again(lines, alias, r),
         NEW t, t = Opened(cat, lines[1].table, r)
  PROVE  Ready(cat, lines, alias, t) /\ t.picks["aggregate"] = << >>
<1>1. 1 \in DOMAIN lines /\ lines[1].table \in Q!Tables(cat)
  BY LinesAre
<1>2. PICK b, f : b = lines[1].table /\ f = Q!Fresh(cat, b)
  OBVIOUS
<1>3. /\ Fit(cat, f) /\ DOMAIN f.aliasOf = {0} /\ f.aliasOf[0] = <<b>>
      /\ f.picks["aggregate"] = << >>
  BY <1>1, <1>2, FreshFits
<1>4. IsTab(f) /\ Picks(f.picks)
  BY <1>3 DEF Fit
<1>5. PICK x, c, p, d : x = f.aliasOf /\ c = f.checked /\ p = f.picks /\ d = f.autoGroup
  OBVIOUS
<1>6. t = [lines |-> r, aliasOf |-> x, checked |-> c, picks |-> p, autoGroup |-> d]
  <2>1. t = [f EXCEPT !.lines = r]
    BY <1>2 DEF Opened
  <2> QED
    BY <1>4, <1>5, <2>1 DEF IsTab
<1>7. IsTab(t) /\ t.lines = r /\ t.picks = p /\ t.aliasOf = x
  BY <1>6 DEF IsTab
<1>8. Harmless(r, x, alias)
  <2> SUFFICES ASSUME NEW i \in DOMAIN r, r[i].row \in DOMAIN x, x[r[i].row] # alias[i]
               PROVE  x[r[i].row] # << >> /\ \A j \in DOMAIN r : alias[j] # x[r[i].row]
    BY DEF Harmless
  <2>1. r[i].row = 0 /\ x[r[i].row] = <<b>>
    BY <1>3, <1>5
  <2>2. i = 1
    <3>1. \A k \in DOMAIN r : k # 1 => r[k].row \in 1 .. MaxJoins
      BY DEF Lines
    <3>2. MaxJoins \in Nat
      BY DEF Q!BuilderAssumption
    <3>3. 0 \notin 1 .. MaxJoins
      BY <3>2
    <3> QED
      BY <2>1, <3>1, <3>3
  <2>3. alias[1] # <<b>>
    BY <2>1, <2>2
  <2>4. \A j \in DOMAIN r : alias[j] # <<b>>
    BY <1>2, <2>3 DEF OwnName, Again
  <2>5. <<b>> # << >>
    OBVIOUS
  <2> QED
    BY <2>1, <2>4, <2>5
<1>9. t.picks["aggregate"] = << >>
  BY <1>3, <1>5, <1>7
<1>10. \A a \in Q!ToSet(t.picks["aggregate"]) : Countable(a, Seen(cat, lines, alias))
  BY <1>9, NoneHolds
<1> QED
  BY <1>4, <1>5, <1>7, <1>8, <1>9, <1>10 DEF Ready

\* The aggregates, added one after the other.
LEMMA AggregatesAgain ==
  ASSUME Q!BuilderAssumption, NEW cat, IsCatalog(cat), NEW lines, Lines(cat, lines), NEW alias,
         Aliased(lines, alias), NEW start, Ready(cat, lines, alias, start),
         start.picks["aggregate"] = << >>,
         NEW kept, Q!IsSeq(kept),
         \A a \in Q!ToSet(kept) : IsRow(a) /\ Countable(a, Seen(cat, lines, alias)),
         NEW N, N = Len(kept),
         NEW first, first = [n \in 0 .. N |-> IF n = 0 THEN start
                               ELSE Q!RestoredAggregate(cat, first[n - 1], kept[n])]
  PROVE  Ready(cat, lines, alias, first[N]) /\ first[N].picks["aggregate"] = kept
<1>1. N \in Nat /\ DOMAIN kept = 1 .. N
  BY SeqDomain
<1>2. \A n \in 1 .. N : IsRow(kept[n]) /\ Countable(kept[n], Seen(cat, lines, alias))
  BY <1>1 DEF Q!ToSet
<1> DEFINE Upto(t, k) ==
             /\ Ready(cat, lines, alias, t) /\ Q!IsSeq(t.picks["aggregate"])
             /\ DOMAIN t.picks["aggregate"] = 1 .. k
             /\ \A i \in 1 .. k : t.picks["aggregate"][i] = kept[i]
           K == {k \in Nat : k \in 0 .. N => Upto(first[k], k)}
<1>3. first[0] = start /\ \A n \in 1 .. N : first[n] = Q!RestoredAggregate(cat, first[n - 1], kept[n])
  <2>1. 0 \in 0 .. N /\ \A n \in 1 .. N : n \in 0 .. N /\ n # 0
    BY <1>1
  <2> QED
    BY <2>1
<1>4. Upto(start, 0)
  <2>1. Q!IsSeq(<< >>) /\ DOMAIN << >> = 1 .. 0
    BY NoneHolds, SeqDomain
  <2>2. \A i \in 1 .. 0 : start.picks["aggregate"][i] = kept[i]
    OBVIOUS
  <2> QED
    BY <2>1, <2>2
<1>5. ASSUME NEW k \in Nat, k + 1 \in 1 .. N, NEW t, Upto(t, k),
             NEW v, v = Q!RestoredAggregate(cat, t, kept[k + 1])
      PROVE  Upto(v, k + 1)
  <2>1. PICK s, a, x : /\ s = t.picks["aggregate"] /\ a = kept[k + 1] /\ x = v.picks["aggregate"]
    OBVIOUS
  <2>2. Ready(cat, lines, alias, t)
    BY <1>5
  <2>3. IsRow(a) /\ Countable(a, Seen(cat, lines, alias))
    BY <1>2, <1>5, <2>1
  <2>4. Ready(cat, lines, alias, v) /\ x = Append(s, a)
    <3> HIDE DEF Upto
    <3>1. v = Q!RestoredAggregate(cat, t, a)
      BY <1>5, <2>1
    <3> QED
      BY <2>1, <2>2, <2>3, <3>1, AggregateAgain
  <2>5. Q!IsSeq(s) /\ DOMAIN s = 1 .. k /\ \A i \in 1 .. k : s[i] = kept[i]
    BY <1>5, <2>1
  <2>6. Len(s) = k
    <3>1. PICK y : y = Len(s)
      OBVIOUS
    <3>2. y \in Nat /\ 1 .. y = 1 .. k
      BY <2>5, <3>1, SeqDomain
    <3>3. y = k
      BY <3>2, SameLength
    <3> QED
      BY <3>1, <3>3
  <2>7. /\ Q!IsSeq(x) /\ DOMAIN x = 1 .. k + 1 /\ x[k + 1] = a
        /\ \A i \in 1 .. k : x[i] = s[i]
    BY <2>4, <2>5, <2>6, AppendHolds
  <2>8. \A i \in 1 .. k + 1 : x[i] = kept[i]
    BY <2>1, <2>5, <2>7
  <2> QED
    BY <2>1, <2>4, <2>7, <2>8
<1>6. 0 \in K
  <2> HIDE DEF Upto
  <2> QED
    BY <1>3, <1>4
<1>7. ASSUME NEW k \in K PROVE k + 1 \in K
  <2> HIDE DEF Upto
  <2> SUFFICES ASSUME k + 1 \in 0 .. N PROVE Upto(first[k + 1], k + 1)
    OBVIOUS
  <2>1. k \in Nat /\ k \in 0 .. N /\ (k + 1) - 1 = k /\ k + 1 \in 1 .. N
    BY <1>1
  <2>2. Upto(first[k], k)
    BY <2>1
  <2>3. first[k + 1] = Q!RestoredAggregate(cat, first[k], kept[k + 1])
    BY <1>3, <2>1
  <2> HIDE DEF K
  <2> QED
    BY <1>5, <2>1, <2>2, <2>3
<1>8. N \in K
  <2> HIDE DEF K
  <2>1. K \in SUBSET Nat
    BY DEF K
  <2> QED
    BY <1>1, <1>6, <1>7, <2>1, FromZero
<1>9. Upto(first[N], N)
  <2> HIDE DEF Upto
  <2> QED
    BY <1>1, <1>8
<1>10. PICK s : s = first[N].picks["aggregate"]
  OBVIOUS
<1>11. Q!IsSeq(s) /\ DOMAIN s = DOMAIN kept /\ \A i \in DOMAIN s : s[i] = kept[i]
  BY <1>1, <1>9, <1>10
<1>12. s = kept
  BY <1>11, SameSeq
<1> QED
  BY <1>9, <1>10, <1>12

\* Adding aggregates one after the other has a result.
Adding(cat, start, kept, N, f) ==
  f = [n \in 0 .. N |-> IF n = 0 THEN start ELSE Q!RestoredAggregate(cat, f[n - 1], kept[n])]

LEMMA AddedAll ==
  ASSUME NEW cat, NEW start, NEW kept, NEW N \in Nat
  PROVE  \E f : Adding(cat, start, kept, N, f)
<1> DEFINE First(f, k) == f = [n \in 0 .. k |-> IF n = 0 THEN start
                                                ELSE Q!RestoredAggregate(cat, f[n - 1], kept[n])]
           T == {k \in Nat : \E f : First(f, k)}
<1>6. 0 \in T
  <2>1. First([n \in 0 .. 0 |-> start], 0)
    OBVIOUS
  <2> QED
    BY <2>1
<1>7. ASSUME NEW k \in T PROVE k + 1 \in T
  <2>1. PICK f : First(f, k)
    OBVIOUS
  <2> DEFINE step(x, n) == Q!RestoredAggregate(cat, x, kept[n])
             g == [n \in 0 .. k + 1 |-> IF n = k + 1 THEN step(f[k], n) ELSE f[n]]
  <2>2. ASSUME NEW n \in 0 .. k + 1
        PROVE  g[n] = IF n = 0 THEN start ELSE step(g[n - 1], n)
    <3>1. CASE n = k + 1
      <4>1. n # 0 /\ n - 1 = k /\ k \in 0 .. k + 1 /\ k # k + 1
        BY <3>1
      <4>2. g[n] = step(f[k], n) /\ g[k] = f[k]
        BY <3>1, <4>1
      <4> HIDE DEF g, step
      <4> QED
        BY <4>1, <4>2
    <3>2. CASE n # k + 1
      <4>1. n \in 0 .. k /\ (n # 0 => n - 1 \in 0 .. k + 1 /\ n - 1 # k + 1)
        BY <3>2
      <4>2. g[n] = f[n] /\ (n # 0 => g[n - 1] = f[n - 1])
        BY <3>2, <4>1
      <4>3. f[n] = IF n = 0 THEN start ELSE step(f[n - 1], n)
        BY <2>1, <4>1
      <4> HIDE DEF g, step
      <4> QED
        BY <4>2, <4>3
    <3> QED
      BY <3>1, <3>2
  <2>3. g = [n \in 0 .. k + 1 |-> g[n]]
    OBVIOUS
  <2> HIDE DEF g
  <2>4. First(g, k + 1)
    BY <2>2, <2>3
  <2>5. k + 1 \in Nat
    OBVIOUS
  <2> HIDE DEF First
  <2> QED
    BY <2>4, <2>5
<1>8. N \in T
  <2> HIDE DEF T
  <2>1. T \in SUBSET Nat
    BY DEF T
  <2> QED
    BY <1>6, <1>7, <2>1, FromZero
<1> QED
  BY <1>8 DEF Adding

\* What restoring makes of a statement about what is there: the same picks.
LEMMA RestoredPicksAgain ==
  ASSUME Q!BuilderAssumption, NEW cat, IsCatalog(cat), NEW lines, Lines(cat, lines), NEW alias,
         Aliased(lines, alias), NEW m, Model(cat, lines, alias, m),
         Q!Known(cat, m) = Every(lines, alias), Saved(cat, lines, alias, m),
         OwnName(lines, alias),
         NEW r, r = Q!RestoredLines(cat, m, Q!Known(cat, m)), Lines(cat, r),
         Again(lines, alias, r), NEW p, p = Q!RestoredPicks(cat, m)
  PROVE  /\ Ready(cat, lines, alias, p)
         /\ p.checked = Q!ToSet(m.ticked) /\ p.autoGroup = (m.groupBy = << >>)
         /\ p.picks["group"] = m.groupBy /\ p.picks["filter"] = m.where
         /\ p.picks["having"] = m.having /\ p.picks["sort"] = m.orderBy
         /\ p.picks["aggregate"] = m.aggregates
<1> DEFINE known == Q!Known(cat, m)
           Back(n) == IF Q!RestoredColumn(cat, m, known, n) = Q!Nothing THEN Q!Nothing
                      ELSE Q!Shown(Q!RestoredColumn(cat, m, known, n), Q!RestoredLines(cat, m, known))
           Counted(n) == IF n = Q!AllRows THEN n ELSE Back(n)
           Backed(names) == Q!Found([k \in DOMAIN names |-> Back(names[k])])
           counted == [k \in DOMAIN m.aggregates |->
                         [m.aggregates[k] EXCEPT !.column = Counted(m.aggregates[k].column)]]
           kept == Q!Valid(counted)
           N == Len(kept)
           start == [Q!Fresh(cat, m.source.table) EXCEPT !.lines = Q!RestoredLines(cat, m, known)]
           First(f, k) == f = [n \in 0 .. k |-> IF n = 0 THEN start
                                                ELSE Q!RestoredAggregate(cat, f[n - 1], kept[n])]
           first == CHOOSE f : First(f, N)
           t == first[N]
           Labelled(l) == IF /\ Q!Contains(Q!Labels(m.aggregates), l) /\ Counted(Tail(l)) # Q!Nothing
                             /\ Q!Contains(Q!Labels(kept), <<l[1], Counted(Tail(l))[1], Counted(Tail(l))[2]>>)
                            THEN <<l[1], Counted(Tail(l))[1], Counted(Tail(l))[2]>> ELSE Q!Nothing
           ordered(n) == IF Len(n) = 3 THEN Labelled(n) ELSE Back(n)
           had == [k \in DOMAIN m.having |-> Labelled(m.having[k])]
           sorted == [k \in DOMAIN m.orderBy |-> ordered(m.orderBy[k])]
           ticks == {Q!RestoredColumn(cat, m, known, n) : n \in Q!ToSet(m.ticked)} \ {Q!Nothing}
           pick(x) == CASE x = "group" -> Backed(m.groupBy)
                        [] x = "filter" -> Backed(m.where)
                        [] x = "having" -> Q!Found(had)
                        [] x = "sort" -> Q!Found(sorted)
                        [] x = "aggregate" -> t.picks[x]
           picks == [x \in Q!RowSection |-> pick(x)]
<1>1. p = [t EXCEPT !.checked = ticks, !.autoGroup = Backed(m.groupBy) = << >>, !.picks = picks]
  BY DEF Q!RestoredPicks
<1> HIDE DEF First, first, t, pick, picks
<1>2. PICK seen, labels : seen = Seen(cat, lines, alias) /\ labels = Q!Labels(m.aggregates)
  OBVIOUS
<1>3. /\ Q!IsSeq(m.aggregates)
      /\ \A a \in Q!ToSet(m.aggregates) : IsRow(a) /\ a.column \in seen \cup {Q!AllRows}
      /\ Q!IsSeq(m.where) /\ Q!ToSet(m.where) \subseteq seen
      /\ Q!IsSeq(m.groupBy) /\ Q!ToSet(m.groupBy) \subseteq seen
      /\ Q!IsSeq(m.having) /\ Q!IsSeq(m.orderBy)
      /\ Q!ToSet(m.ticked) \subseteq Names(cat, lines, alias, DOMAIN lines)
      /\ m.source.table = lines[1].table
  BY <1>2 DEF Model
<1>4. /\ \A a \in Q!ToSet(m.aggregates) : Countable(a, seen)
      /\ Q!ToSet(m.having) \subseteq Q!ToSet(labels)
      /\ Q!ToSet(m.orderBy) \subseteq seen \cup Q!ToSet(labels)
  BY <1>2 DEF Saved
<1>5. \A n \in seen \cup {Q!AllRows} : Len(n) = 2 /\ n # << >> /\ n = <<n[1], n[2]>>
  BY <1>2, SeenThere
<1>6. \A n \in seen : Back(n) = n
  <2> SUFFICES ASSUME NEW n \in seen PROVE Back(n) = n
    OBVIOUS
  <2>1. Len(r) = Len(lines) /\ n \in Seen(cat, lines, alias)
    BY <1>2 DEF Again
  <2>2. PICK e : e = Every(lines, alias) /\ e = known
    OBVIOUS
  <2>3. PICK x : x = Q!RestoredColumn(cat, m, e, n)
    OBVIOUS
  <2>4. x # << >> /\ Q!Shown(x, r) = n
    BY <2>1, <2>2, <2>3, SeenAgain
  <2>5. Q!RestoredColumn(cat, m, known, n) = x /\ Q!RestoredLines(cat, m, known) = r
    BY <2>2, <2>3
  <2> HIDE DEF known
  <2> QED
    BY <2>4, <2>5 DEF Q!Nothing
<1>7. ticks = Q!ToSet(m.ticked)
  <2>1. ASSUME NEW n \in Q!ToSet(m.ticked)
        PROVE  Q!RestoredColumn(cat, m, known, n) = n /\ n # << >>
    <3>1. n \in Names(cat, lines, alias, DOMAIN lines) /\ DOMAIN lines \in SUBSET DOMAIN lines
      BY <1>3
    <3>2. PICK e : e = Every(lines, alias) /\ e = known
      OBVIOUS
    <3>3. Q!RestoredColumn(cat, m, e, n) = n
      BY <3>1, <3>2, NameAgain
    <3>4. n # << >>
      BY <3>1, NamesThere
    <3> QED
      BY <3>2, <3>3, <3>4
  <2> HIDE DEF known
  <2> QED
    BY <2>1 DEF Q!Nothing
<1> HIDE DEF Back, ticks
<1>8. \A n \in seen \cup {Q!AllRows} : Counted(n) = n
  BY <1>6
<1> HIDE DEF Counted
<1>9. ASSUME NEW names, Q!IsSeq(names), Q!ToSet(names) \subseteq seen
      PROVE  Backed(names) = names
  <2> DEFINE s == [k \in DOMAIN names |-> Back(names[k])]
  <2>1. \A k \in DOMAIN names : names[k] \in seen
    BY <1>9 DEF Q!ToSet
  <2>2. DOMAIN s = DOMAIN names /\ \A k \in DOMAIN names : s[k] = names[k]
    BY <1>6, <2>1
  <2>3. s = [k \in DOMAIN names |-> s[k]]
    OBVIOUS
  <2>4. Backed(names) = Q!Found(s)
    BY DEF Backed
  <2> HIDE DEF s
  <2>5. Q!IsSeq(s)
    BY <1>9, <2>2, <2>3, SeqLike
  <2>6. s = names
    BY <1>9, <2>2, <2>5, SameSeq
  <2>7. << >> \notin Q!ToSet(names)
    BY <1>5, <1>9
  <2>8. Q!Found(names) = names
    BY <1>9, <2>7, FoundWhole
  <2> QED
    BY <2>4, <2>6, <2>8
<1> HIDE DEF Backed
<1>10. counted = m.aggregates
  <2>1. ASSUME NEW k \in DOMAIN m.aggregates PROVE counted[k] = m.aggregates[k]
    <3>1. PICK a, x : a = m.aggregates[k] /\ x = a.column
      OBVIOUS
    <3>2. IsRow(a) /\ x \in seen \cup {Q!AllRows}
      BY <1>3, <3>1 DEF Q!ToSet
    <3>3. Counted(m.aggregates[k].column) = x
      BY <1>8, <3>1, <3>2
    <3>4. counted[k] = [a EXCEPT !.column = x]
      BY <3>1, <3>3
    <3>5. PICK f : f = a.fn
      OBVIOUS
    <3>6. a = [fn |-> f, column |-> x]
      BY <3>1, <3>2, <3>5 DEF IsRow
    <3>7. [a EXCEPT !.column = x] = [fn |-> f, column |-> x]
      BY <3>6
    <3> QED
      BY <3>1, <3>4, <3>6, <3>7
  <2>2. DOMAIN counted = DOMAIN m.aggregates /\ counted = [k \in DOMAIN m.aggregates |-> counted[k]]
    OBVIOUS
  <2> HIDE DEF counted
  <2>3. Q!IsSeq(counted)
    BY <1>3, <2>2, SeqLike
  <2> QED
    BY <1>3, <2>1, <2>2, <2>3, SameSeq
<1> HIDE DEF counted
<1>11. kept = m.aggregates
  <2>1. \A a \in Q!ToSet(m.aggregates) : a.column # << >>
    BY <1>3, <1>5
  <2>2. PICK s : s = m.aggregates
    OBVIOUS
  <2>3. Q!Valid(s) = s
    BY <1>3, <2>1, <2>2, ValidWhole
  <2> QED
    BY <1>10, <2>2, <2>3
<1> HIDE DEF kept
<1>12. N \in Nat
  BY <1>3, <1>11, SeqDomain
<1>13. Ready(cat, lines, alias, start) /\ start.picks["aggregate"] = << >>
  <2>1. start = Opened(cat, lines[1].table, r)
    BY <1>3 DEF Opened
  <2> HIDE DEF start
  <2> QED
    BY <2>1, StartReady
<1> HIDE DEF N, start
<1>14. First(first, N)
  <2>1. \E f : First(f, N)
    <3>1. PICK f : Adding(cat, start, kept, N, f)
      BY <1>12, AddedAll
    <3> QED
      BY <3>1 DEF Adding, First
  <2> HIDE DEF First
  <2> QED
    BY <2>1 DEF first
<1>15. Ready(cat, lines, alias, t) /\ t.picks["aggregate"] = m.aggregates
  <2>1. PICK s : s = m.aggregates
    OBVIOUS
  <2>2. Q!IsSeq(s) /\ \A a \in Q!ToSet(s) : IsRow(a) /\ Countable(a, Seen(cat, lines, alias))
    BY <1>2, <1>3, <1>4, <2>1
  <2>3. N = Len(s)
    BY <1>11, <2>1 DEF N
  <2>4. PICK v : v = first
    OBVIOUS
  <2>5. v = [n \in 0 .. N |-> IF n = 0 THEN start ELSE Q!RestoredAggregate(cat, v[n - 1], s[n])]
    BY <1>11, <1>14, <2>1, <2>4 DEF First
  <2>6. Ready(cat, lines, alias, v[N]) /\ v[N].picks["aggregate"] = s
    BY <1>13, <2>2, <2>3, <2>5, AggregatesAgain
  <2> QED
    BY <2>1, <2>4, <2>6 DEF t
<1>16. Q!IsSeq(labels) /\ \A l \in Q!ToSet(labels) : Len(l) = 3
  BY <1>2, <1>3, LabelsAre
<1>17. \A l \in Q!ToSet(labels) : Labelled(l) = l
  <2> SUFFICES ASSUME NEW l \in Q!ToSet(labels) PROVE Labelled(l) = l
    OBVIOUS
  <2>1. PICK a \in Q!ToSet(m.aggregates) : l = Q!Label(a)
    BY <1>2, <1>3, LabelFrom
  <2>2. PICK n : n = a.column
    OBVIOUS
  <2>3. n \in seen \cup {Q!AllRows}
    BY <1>3, <2>1, <2>2
  <2>4. n = <<n[1], n[2]>> /\ n # << >> /\ Counted(n) = n
    BY <1>5, <1>8, <2>3
  <2>5. Tail(l) = n /\ l = <<l[1], n[1], n[2]>>
    BY <2>1, <2>2, <2>4, LabelOf
  <2>6. Q!Contains(labels, l)
    BY <1>16, Containing
  <2>7. Counted(Tail(l)) = n
    BY <2>4, <2>5
  <2>8. <<l[1], Counted(Tail(l))[1], Counted(Tail(l))[2]>> = l
    BY <2>5, <2>7
  <2>9. Q!Contains(Q!Labels(kept), l) /\ Q!Contains(Q!Labels(m.aggregates), l)
    BY <1>2, <1>11, <2>6
  <2>10. Counted(Tail(l)) # Q!Nothing
    BY <2>4, <2>7 DEF Q!Nothing
  <2> QED
    BY <2>8, <2>9, <2>10
<1> HIDE DEF Labelled
<1>18. Q!Found(had) = m.having
  <2>1. PICK s : s = m.having
    OBVIOUS
  <2>2. Q!IsSeq(s) /\ \A k \in DOMAIN s : s[k] \in Q!ToSet(labels)
    BY <1>3, <1>4, <2>1 DEF Q!ToSet
  <2>3. DOMAIN had = DOMAIN s /\ \A k \in DOMAIN s : had[k] = s[k]
    BY <1>17, <2>1, <2>2
  <2>4. had = [k \in DOMAIN s |-> had[k]]
    BY <2>1
  <2> HIDE DEF had
  <2>5. Q!IsSeq(had)
    BY <2>2, <2>3, <2>4, SeqLike
  <2>6. had = s
    BY <2>2, <2>3, <2>5, SameSeq
  <2>7. << >> \notin Q!ToSet(s)
    <3>1. Len(<< >>) # 3
      OBVIOUS
    <3> QED
      BY <1>16, <2>2, <3>1 DEF Q!ToSet
  <2>8. Q!Found(s) = s
    BY <2>2, <2>7, FoundWhole
  <2> QED
    BY <2>1, <2>6, <2>8
<1>19. Q!Found(sorted) = m.orderBy
  <2>1. PICK s : s = m.orderBy
    OBVIOUS
  <2>2. Q!IsSeq(s) /\ \A k \in DOMAIN s : s[k] \in seen \cup Q!ToSet(labels)
    BY <1>3, <1>4, <2>1 DEF Q!ToSet
  <2>3. ASSUME NEW n \in seen \cup Q!ToSet(labels) PROVE ordered(n) = n /\ n # << >>
    <3>1. CASE n \in seen
      BY <1>5, <1>6, <3>1
    <3>2. CASE n \in Q!ToSet(labels)
      BY <1>16, <1>17, <3>2
    <3> QED
      BY <3>1, <3>2
  <2>4. DOMAIN sorted = DOMAIN s /\ sorted = [k \in DOMAIN s |-> sorted[k]]
    BY <2>1
  <2>5. \A k \in DOMAIN s : sorted[k] = s[k]
    <3> HIDE DEF ordered
    <3> QED
      BY <2>1, <2>2, <2>3
  <2> HIDE DEF sorted, ordered
  <2>6. Q!IsSeq(sorted)
    BY <2>2, <2>4, SeqLike
  <2>7. sorted = s
    BY <2>2, <2>4, <2>5, <2>6, SameSeq
  <2>8. << >> \notin Q!ToSet(s)
    BY <2>2, <2>3 DEF Q!ToSet
  <2>9. Q!Found(s) = s
    BY <2>2, <2>8, FoundWhole
  <2> QED
    BY <2>1, <2>7, <2>9
<1> HIDE DEF had, sorted, ordered
<1>20. Backed(m.groupBy) = m.groupBy /\ Backed(m.where) = m.where
  BY <1>3, <1>9
<1>21. /\ picks["group"] = m.groupBy /\ picks["filter"] = m.where
       /\ picks["having"] = m.having /\ picks["sort"] = m.orderBy
       /\ picks["aggregate"] = m.aggregates
  <2>1. /\ pick("group") = m.groupBy /\ pick("filter") = m.where
        /\ pick("having") = m.having /\ pick("sort") = m.orderBy
        /\ pick("aggregate") = m.aggregates
    BY <1>15, <1>18, <1>19, <1>20 DEF pick
  <2> QED
    BY <2>1 DEF picks, Q!RowSection
<1>22. picks = [x \in Q!RowSection |-> picks[x]]
  BY DEF picks
<1>23. Picks(picks)
  BY <1>3, <1>21, <1>22 DEF Picks, Q!RowSection
<1>24. /\ IsTab(t) /\ Lines(cat, t.lines) /\ Again(lines, alias, t.lines)
       /\ Harmless(t.lines, t.aliasOf, alias)
  BY <1>15 DEF Ready
<1>25. PICK ls, of, v : ls = t.lines /\ of = t.aliasOf /\ v = (m.groupBy = << >>)
  OBVIOUS
<1>26. p = [lines |-> ls, aliasOf |-> of, checked |-> Q!ToSet(m.ticked), picks |-> picks,
            autoGroup |-> v]
  <2>1. p = [t EXCEPT !.checked = Q!ToSet(m.ticked), !.autoGroup = v, !.picks = picks]
    BY <1>1, <1>7, <1>20, <1>25
  <2>2. PICK c, q, d : c = t.checked /\ q = t.picks /\ d = t.autoGroup
    OBVIOUS
  <2>3. t = [lines |-> ls, aliasOf |-> of, checked |-> c, picks |-> q, autoGroup |-> d]
    BY <1>24, <1>25, <2>2 DEF IsTab
  <2> QED
    BY <2>1, <2>3
<1>27. /\ IsTab(p) /\ p.lines = ls /\ p.aliasOf = of /\ p.checked = Q!ToSet(m.ticked)
       /\ p.picks = picks /\ p.autoGroup = v
  BY <1>26 DEF IsTab
<1>28. \A a \in Q!ToSet(p.picks["aggregate"]) : Countable(a, Seen(cat, lines, alias))
  BY <1>2, <1>4, <1>21, <1>27
<1>29. Ready(cat, lines, alias, p)
  BY <1>23, <1>24, <1>25, <1>27, <1>28 DEF Ready
<1> QED
  BY <1>21, <1>25, <1>27, <1>29

\* The parts of a statement.
SourceOf(lines, alias) == [table |-> lines[1].table, alias |-> alias[1]]
JoinOf(lines, alias, i) ==
  [table |-> lines[i].table, alias |-> alias[i], kind |-> lines[i].kind,
   on |-> Q!Conditions(lines[i])]
JoinsOf(lines, alias) == [k \in 1 .. Len(lines) - 1 |-> JoinOf(lines, alias, k + 1)]
IsModel(m) ==
  m = [source |-> m.source, joins |-> m.joins, ticked |-> m.ticked, aggregates |-> m.aggregates,
       where |-> m.where, groupBy |-> m.groupBy, having |-> m.having, orderBy |-> m.orderBy]

LEMMA PartsAre ==
  ASSUME NEW cat, IsCatalog(cat), NEW t, Fit(cat, t), NEW m, m = Q!QueryModel(cat, t),
         NEW lines, lines = t.lines, NEW alias, alias = Q!Named(t), NEW p, p = t.picks
  PROVE  /\ IsModel(m) /\ m.source = SourceOf(lines, alias) /\ m.joins = JoinsOf(lines, alias)
         /\ m.ticked = Q!Only(Q!Qualified(cat, lines, alias), t.checked)
         /\ m.aggregates = Q!Valid(p["aggregate"])
         /\ m.where = Q!Only(p["filter"], Q!ToSet(Q!Offered(cat, lines, alias)))
         /\ m.groupBy = Q!Grouping(cat, t, alias)
         /\ m.having = Q!Only(p["having"], Q!ToSet(Q!Labels(p["aggregate"])))
         /\ m.orderBy = Q!Found(p["sort"])
<1>2. PICK names, labels, q : /\ names = Q!Offered(cat, lines, alias)
                              /\ labels = Q!Labels(p["aggregate"])
                              /\ q = Q!Qualified(cat, lines, alias)
  OBVIOUS
<1> DEFINE n == Len(lines)
           built == {i \in 2 .. n : lines[i].kind = "CROSS JOIN" \/ Q!Conditions(lines[i]) # << >>}
           joined == Q!Sifted([i \in DOMAIN lines |-> i], built)
           joins == [k \in DOMAIN joined |-> JoinOf(lines, alias, joined[k])]
<1>3. m = [source |-> SourceOf(lines, alias), joins |-> joins, ticked |-> Q!Only(q, t.checked),
           aggregates |-> Q!Valid(p["aggregate"]), where |-> Q!Only(p["filter"], Q!ToSet(names)),
           groupBy |-> Q!Grouping(cat, t, alias), having |-> Q!Only(p["having"], Q!ToSet(labels)),
           orderBy |-> Q!Found(p["sort"])]
  BY <1>2 DEF Q!QueryModel, SourceOf, JoinOf
<1>4. /\ Lines(cat, lines)
      /\ \A i \in DOMAIN lines : i # 1 => Joins(cat, lines, alias, i, lines[i].on)
  BY DEF Fit
<1>5. DOMAIN lines = 1 .. n /\ n \in Nat /\ n # 0 /\ Q!IsSeq(lines)
  BY <1>4, LinesAre DEF Lines
<1>6. built = 2 .. n
  <2>1. \A i \in 2 .. n : lines[i].kind = "CROSS JOIN" \/ Q!Conditions(lines[i]) # << >>
    <3> SUFFICES ASSUME NEW i \in 2 .. n
                 PROVE  lines[i].kind = "CROSS JOIN" \/ Q!Conditions(lines[i]) # << >>
      OBVIOUS
    <3>1. i \in DOMAIN lines /\ i # 1
      BY <1>5
    <3>2. Joins(cat, lines, alias, i, lines[i].on)
      BY <1>4, <3>1
    <3> QED
      BY <3>2, ConditionsAre
  <2> QED
    BY <2>1
<1>7. joined = [k \in 1 .. n - 1 |-> k + 1]
  <2>1. PICK s : s = [i \in DOMAIN lines |-> i]
    OBVIOUS
  <2>2. s = [i \in 1 .. n |-> i]
    BY <1>5, <2>1
  <2> HIDE DEF n, built
  <2>3. Q!Sifted(s, 2 .. n) = [k \in 1 .. n - 1 |-> k + 1]
    BY <1>5, <2>2, AllBuilt
  <2> QED
    BY <1>6, <2>1, <2>3
<1> HIDE DEF joined
<1>8. joins = JoinsOf(lines, alias)
  BY <1>7 DEF JoinsOf
<1> HIDE DEF joins, n
<1>9. /\ m.source = SourceOf(lines, alias) /\ m.joins = joins /\ m.ticked = Q!Only(q, t.checked)
      /\ m.aggregates = Q!Valid(p["aggregate"]) /\ m.where = Q!Only(p["filter"], Q!ToSet(names))
      /\ m.groupBy = Q!Grouping(cat, t, alias) /\ m.having = Q!Only(p["having"], Q!ToSet(labels))
      /\ m.orderBy = Q!Found(p["sort"])
  BY <1>3
<1>10. IsModel(m)
  BY <1>3 DEF IsModel
<1> QED
  BY <1>2, <1>8, <1>9, <1>10

\* What restoring reads back right: not one of the cases of Misread.
Readable(m, auto) ==
  /\ m.source.alias # <<m.source.table>> =>
       \A j \in Q!ToSet(m.joins) : j.alias # <<m.source.table>>
  /\ \A j \in Q!ToSet(m.joins) : ~ (Len(j.on) > 1)
  /\ \A n \in Q!ToSet(m.orderBy) : Len(n) = 3 => Q!Contains(Q!Labels(m.aggregates), n)
  /\ m.groupBy = << >> => auto \/ m.ticked = << >> \/ m.aggregates = << >>

\* The labels of the aggregates that have a column are all labels.
LEMMA LabelsWhole ==
  ASSUME NEW s, Q!IsSeq(s)
  PROVE  Q!Labels(Q!Valid(s)) = Q!Labels(s)
<1>1. PICK v : v = Q!Valid(s)
  OBVIOUS
<1>2. Q!IsSeq(v) /\ \A a \in Q!ToSet(v) : a.column # << >>
  BY <1>1, ValidIs
<1>3. Q!Valid(v) = v
  BY <1>2, ValidWhole
<1> QED
  BY <1>1, <1>3 DEF Q!Labels

\* All that a statement names is there when it is read again.
LEMMA ModelSaved ==
  ASSUME NEW cat, IsCatalog(cat), NEW t, Fit(cat, t), NEW m, m = Q!QueryModel(cat, t),
         Readable(m, t.autoGroup), NEW lines, lines = t.lines, NEW alias, alias = Q!Named(t)
  PROVE  Saved(cat, lines, alias, m) /\ OwnName(lines, alias)
<1>1. PICK p : p = t.picks
  OBVIOUS
<1>2. /\ Lines(cat, lines) /\ Picks(p) /\ Chosen(p, Q!ToSet(Q!Offered(cat, lines, alias)))
  BY <1>1 DEF Fit
<1>3. Q!ToSet(Q!Offered(cat, lines, alias)) = Seen(cat, lines, alias)
  BY <1>2, LinesAre, OfferedIs DEF Seen, Lines
<1>4. /\ m.source = SourceOf(lines, alias) /\ m.aggregates = Q!Valid(p["aggregate"])
      /\ m.having = Q!Only(p["having"], Q!ToSet(Q!Labels(p["aggregate"])))
      /\ m.orderBy = Q!Found(p["sort"])
  BY <1>1, PartsAre
<1>5. Q!IsSeq(p["aggregate"]) /\ Q!IsSeq(p["having"]) /\ Q!IsSeq(p["sort"])
  BY <1>2 DEF Picks, Q!RowSection
<1>6. Q!Labels(m.aggregates) = Q!Labels(p["aggregate"])
  BY <1>4, <1>5, LabelsWhole
<1>7. \A a \in Q!ToSet(m.aggregates) : Countable(a, Seen(cat, lines, alias))
  <2>1. Q!ToSet(m.aggregates) = {a \in Q!ToSet(p["aggregate"]) : a.column # << >>}
    BY <1>4, <1>5, ValidIs
  <2> QED
    BY <1>2, <1>3, <2>1 DEF Chosen, Countable
<1>8. Q!ToSet(m.having) \subseteq Q!ToSet(Q!Labels(m.aggregates))
  <2>1. PICK T : T = Q!ToSet(Q!Labels(p["aggregate"]))
    OBVIOUS
  <2>2. Q!ToSet(Q!Only(p["having"], T)) \subseteq T
    BY <1>5, OnlyIs
  <2> QED
    BY <1>4, <1>6, <2>1, <2>2
<1>9. Q!ToSet(m.orderBy) \subseteq Seen(cat, lines, alias) \cup Q!ToSet(Q!Labels(m.aggregates))
  <2>1. Q!ToSet(m.orderBy) = Q!ToSet(p["sort"]) \ {<< >>}
    BY <1>4, <1>5, FoundIs
  <2>2. \A n \in Q!ToSet(m.orderBy) : n \in Seen(cat, lines, alias) \/ Len(n) = 3
    BY <1>2, <1>3, <2>1 DEF Chosen
  <2>3. Q!IsSeq(Q!Labels(m.aggregates))
    BY <1>5, <1>6, LabelsAre
  <2>4. \A n \in Q!ToSet(m.orderBy) : Len(n) = 3 => n \in Q!ToSet(Q!Labels(m.aggregates))
    BY <2>3, Containing DEF Readable
  <2> QED
    BY <2>2, <2>4
<1>10. m.source.alias = alias[1] /\ m.source.table = lines[1].table
  BY <1>4 DEF SourceOf
<1>11. OwnName(lines, alias)
  <2> SUFFICES ASSUME alias[1] # <<lines[1].table>>, NEW j \in DOMAIN lines
               PROVE  alias[j] # <<lines[1].table>>
    BY DEF OwnName
  <2>1. DOMAIN lines = 1 .. Len(lines) /\ Len(lines) \in Nat
    BY <1>2, LinesAre
  <2>2. CASE j = 1
    BY <2>2
  <2>3. CASE j # 1
    <3>1. PICK k : k = j - 1
      OBVIOUS
    <3>2. k \in 1 .. Len(lines) - 1 /\ j = k + 1
      BY <2>1, <2>3, <3>1
    <3>3. Model(cat, lines, alias, m)
      BY ModelIs
    <3>4. m.joins[k] \in Q!ToSet(m.joins) /\ m.joins[k].alias = alias[j]
      BY <3>2, <3>3 DEF Model, Q!ToSet
    <3> QED
      BY <1>10, <3>4 DEF Readable
  <2> QED
    BY <2>2, <2>3
<1> QED
  BY <1>7, <1>8, <1>9, <1>11 DEF Saved

\* What is grouped by is listed once.
LEMMA GroupedOnce ==
  ASSUME NEW cat, IsCatalog(cat), NEW t, Lines(cat, t.lines), NEW alias,
         Q!IsSeq(t.picks["group"]), NEW g, g = Q!Grouping(cat, t, alias)
  PROVE  Distinct(g)
<1>1. PICK f, p, e, full :
        /\ f = Q!Found(t.picks["group"]) /\ p = Q!Plain(cat, t, alias)
        /\ e = IF t.autoGroup /\ Q!Labels(t.picks["aggregate"]) # << >> THEN p ELSE << >>
        /\ full = f \o e
  OBVIOUS
<1>2. Q!IsSeq(f) /\ Q!IsSeq(e)
  BY <1>1, FoundIs, PlainIs, NoneHolds
<1>3. Q!IsSeq(full)
  BY <1>1, <1>2, SeqJoin
<1>4. g = Q!Sifted(full, Firsts(full))
  BY <1>1 DEF Q!Grouping, Firsts
<1> QED
  BY <1>3, <1>4, FirstsDistinct

\* Grouping by what was grouped by, and by what is ticked if that was nothing.
LEMMA GroupedAgain ==
  ASSUME NEW cat, NEW was, NEW alias, NEW g, g = Q!Grouping(cat, was, alias),
         Q!IsSeq(g), Distinct(g), << >> \notin Q!ToSet(g), Q!IsSeq(was.picks["group"]),
         NEW p, p = Q!Plain(cat, was, alias), Q!IsSeq(p),
         NEW labels, labels = Q!Labels(was.picks["aggregate"]),
         g = << >> => was.autoGroup \/ p = << >> \/ labels = << >>,
         NEW new, Q!Plain(cat, new, alias) = p, Q!Labels(new.picks["aggregate"]) = labels,
         new.autoGroup = (g = << >>), new.picks["group"] = g
  PROVE  Q!Grouping(cat, new, alias) = g
<1>1. PICK e : e = IF g = << >> /\ labels # << >> THEN p ELSE << >>
  OBVIOUS
<1>2. Q!Found(g) = g
  BY FoundWhole
<1>3. PICK full : full = g \o e
  OBVIOUS
<1>4. Q!Grouping(cat, new, alias) = Q!Sifted(full, Firsts(full))
  <2>1. e = IF new.autoGroup /\ Q!Labels(new.picks["aggregate"]) # << >>
              THEN Q!Plain(cat, new, alias) ELSE << >>
    BY <1>1
  <2>2. full = Q!Found(new.picks["group"])
                \o (IF new.autoGroup /\ Q!Labels(new.picks["aggregate"]) # << >>
                      THEN Q!Plain(cat, new, alias) ELSE << >>)
    BY <1>2, <1>3, <2>1
  <2> QED
    BY <2>2 DEF Q!Grouping, Firsts
<1>5. e = << >>
  <2> SUFFICES ASSUME e # << >> PROVE FALSE
    OBVIOUS
  <2>1. g = << >> /\ labels # << >> /\ p # << >> /\ was.autoGroup
    BY <1>1
  <2>2. PICK f, had : f = Q!Found(was.picks["group"]) /\ had = f \o p
    OBVIOUS
  <2>3. g = Q!Sifted(had, Firsts(had))
    <3>1. had = Q!Found(was.picks["group"])
                  \o (IF was.autoGroup /\ Q!Labels(was.picks["aggregate"]) # << >>
                        THEN Q!Plain(cat, was, alias) ELSE << >>)
      BY <2>1, <2>2
    <3> QED
      BY <3>1 DEF Q!Grouping, Firsts
  <2>4. Q!IsSeq(f)
    BY <2>2, FoundIs
  <2>5. Q!IsSeq(had) /\ Q!ToSet(had) = Q!ToSet(f) \cup Q!ToSet(p)
    BY <2>2, <2>4, SeqJoin, JoinHolds
  <2>6. p[1] \in Q!ToSet(p)
    <3>1. 1 \in DOMAIN p
      BY <2>1, NotEmpty
    <3> QED
      BY <3>1 DEF Q!ToSet
  <2>7. had # << >>
    BY <2>5, <2>6, NoneHolds
  <2>8. 1 \in DOMAIN had
    BY <2>5, <2>7, NotEmpty
  <2>9. 1 \in Firsts(had) /\ Firsts(had) \in SUBSET DOMAIN had
    BY <2>8 DEF Firsts
  <2>10. PICK F : F = Firsts(had)
    OBVIOUS
  <2>11. Q!ToSet(Q!Sifted(had, F)) = {had[k] : k \in F}
    BY <2>5, <2>9, <2>10, SiftedIs
  <2>12. had[1] \in Q!ToSet(g)
    BY <2>3, <2>9, <2>10, <2>11
  <2> QED
    BY <2>1, <2>12, NoneHolds
<1>6. full = g
  <2>1. g \in Seq(Q!ToSet(g))
    BY DEF Q!IsSeq
  <2>2. g \o << >> = g
    BY <2>1, ConcatEmptySeq
  <2> QED
    BY <1>3, <1>5, <2>2
<1>7. Q!Sifted(g, Firsts(g)) = g
  BY FirstsWhole
<1> QED
  BY <1>4, <1>6, <1>7

LEMMA OnePlace == 1 .. 1 = {1}
OBVIOUS

\* An ON condition.
Equated(a, b, touched) == [left |-> a, right |-> b, touched |-> touched]

LEMMA EquatedIs ==
  ASSUME NEW a, NEW b, NEW d, NEW x, x = Equated(a, b, d)
  PROVE  IsOn(x) /\ x.left = a /\ x.right = b /\ x.touched = d
BY DEF Equated, IsOn

\* The entries of a function of one place.
LEMMA OneOnly ==
  ASSUME NEW s, Q!IsSeq(s), NEW x, DOMAIN s = {1}, s[1] = x
  PROVE  s = <<x>>
<1>1. PICK u : u = <<x>>
  OBVIOUS
<1>2. Q!IsSeq(u) /\ Len(u) = 1 /\ u[1] = x
  BY <1>1, OneHolds
<1>3. DOMAIN u = {1}
  BY <1>2, SeqDomain
<1> QED
  BY <1>1, <1>2, <1>3, SameSeq

\* What is sifted from <<x>> whole.
LEMMA OnlyPlace ==
  ASSUME NEW x, NEW s, s = <<x>>
  PROVE  Q!IsSeq(s) /\ Len(s) = 1 /\ s[1] = x /\ DOMAIN s = {1}
<1>1. Q!IsSeq(s) /\ Len(s) = 1 /\ s[1] = x
  BY OneHolds
<1> QED
  BY <1>1, SeqDomain

\* A condition that was set.
Given(a, b) == [left |-> a, right |-> b, touched |-> TRUE]

\* A condition that the user has set, and that may still be, stays.
LEMMA SyncedOnKept ==
  ASSUME NEW cat, IsCatalog(cat), NEW lines, Lines(cat, lines), NEW alias,
         NEW i \in DOMAIN lines, NEW a \in Names(cat, lines, alias, 1 .. i - 1),
         NEW b \in Of(cat, lines[i], alias[i]), NEW x, x = Given(a, b),
         lines[i].on = <<x>>
  PROVE  Q!SyncedOn(cat, lines, alias, i) = <<x>>
<1>1. PICK left, right, was, given :
        /\ left = Q!LeftOf(cat, lines, alias, i) /\ right = Q!RightOf(cat, lines, alias, i)
        /\ was = <<x>> /\ given = Q!Suggested(cat, lines, alias, i)
  OBVIOUS
<1> DEFINE one(k) == [left |-> Q!Refill(was[k].left, left),
                      right |-> Q!Refill(was[k].right, right), touched |-> was[k].touched]
           on == [k \in DOMAIN was |-> one(k)]
<1>2. Q!SyncedOn(cat, lines, alias, i)
        = IF i = 1 \/ Q!Touched(on) \/ given = << >> THEN on
          ELSE Q!Prefilled(on, given, left, right)
  BY <1>1 DEF Q!SyncedOn
<1>3. Q!IsSeq(left) /\ a \in Q!ToSet(left) /\ Q!IsSeq(right) /\ b \in Q!ToSet(right)
  BY <1>1, LeftIs, RightIs
<1>4. Q!Refill(a, left) = a /\ Q!Refill(b, right) = b
  BY <1>3, RefillIs
<1>5. x.left = a /\ x.right = b /\ x.touched = TRUE
  BY DEF Given
<1>6. DOMAIN was = {1} /\ was[1] = x
  BY <1>1, OnlyPlace
<1>7. one(1) = x
  BY <1>4, <1>5, <1>6 DEF Given
<1> HIDE DEF one
<1>8. DOMAIN on = {1} /\ on[1] = x
  BY <1>6, <1>7
<1>9. on = [k \in 1 .. 1 |-> on[k]]
  BY <1>6, OnePlace
<1> HIDE DEF on
<1>10. on = <<x>>
  <2>1. Q!IsSeq(on)
    BY <1>9, SeqOver
  <2> QED
    BY <1>8, <2>1, OneOnly
<1>11. Q!Touched(on)
  BY <1>5, <1>8 DEF Q!Touched
<1> QED
  BY <1>2, <1>10, <1>11

\* The one condition that is restored: both sides are offered.
LEMMA PrefilledAgain ==
  ASSUME NEW cat, IsCatalog(cat), NEW lines, Lines(cat, lines), NEW alias,
         NEW i \in DOMAIN lines, NEW on, Joins(cat, lines, alias, i, on),
         NEW a \in Names(cat, lines, alias, 1 .. i - 1), NEW b \in Of(cat, lines[i], alias[i]),
         NEW c, c[1] = a, c[2] = b, NEW s, s = <<c>>,
         NEW left, left = Q!LeftOf(cat, lines, alias, i),
         NEW right, right = Q!RightOf(cat, lines, alias, i),
         NEW P, P = Q!Prefilled(on, s, left, right)
  PROVE  DOMAIN P = {1} /\ P[1] = Equated(a, b, on[1].touched)
<1>1. Q!IsSeq(left) /\ a \in Q!ToSet(left) /\ Q!IsSeq(right) /\ b \in Q!ToSet(right)
  BY LeftIs, RightIs
<1>2. Q!Contains(left, a) /\ Q!Contains(right, b)
  BY <1>1, Containing
<1>3. Q!IsSeq(on) /\ on # << >> /\ on[1].left # << >> /\ on[1].right # << >>
  BY DEF Joins
<1>4. ~ (1 > Len(on))
  <2>1. 1 \in DOMAIN on
    BY <1>3, NotEmpty
  <2>2. DOMAIN on = 1 .. Len(on) /\ Len(on) \in Nat
    BY <1>3, SeqDomain
  <2> QED
    BY <2>1, <2>2
<1>5. DOMAIN s = {1} /\ s[1] = c
  BY OnlyPlace
<1> DEFINE v(k) == IF k > Len(on) THEN Q!EmptyOn
                   ELSE [left |-> IF on[k].left # Q!Nothing /\ Q!Contains(left, s[k][1])
                                    THEN s[k][1] ELSE on[k].left,
                         right |-> IF on[k].right # Q!Nothing /\ Q!Contains(right, s[k][2])
                                    THEN s[k][2] ELSE on[k].right,
                         touched |-> on[k].touched]
<1>6. P = [k \in DOMAIN s |-> v(k)]
  BY DEF Q!Prefilled
<1>7. v(1) = Equated(a, b, on[1].touched)
  BY <1>2, <1>3, <1>4, <1>5 DEF Equated, Q!Nothing
<1> HIDE DEF v
<1> QED
  BY <1>5, <1>6, <1>7

\* A condition is saved as its two sides.
LEMMA PairIs ==
  ASSUME NEW l, NEW c \in Q!ToSet(Q!Conditions(l))
  PROVE  c = <<c[1], c[2]>> /\ l.kind # "CROSS JOIN"
<1>1. l.kind # "CROSS JOIN"
  BY NoneHolds DEF Q!Conditions
<1> DEFINE complete == Q!Sifted(l.on, {k \in DOMAIN l.on : /\ l.on[k].left # Q!Nothing
                                                           /\ l.on[k].right # Q!Nothing})
<1>2. Q!Conditions(l) = [k \in DOMAIN complete |-> <<complete[k].left, complete[k].right>>]
  BY <1>1 DEF Q!Conditions
<1> HIDE DEF complete
<1>3. PICK k \in DOMAIN complete : c = <<complete[k].left, complete[k].right>>
  BY <1>2 DEF Q!ToSet
<1> QED
  BY <1>1, <1>3

\* The condition of a line with one.
LEMMA ConditionOf ==
  ASSUME NEW l, l.kind # "CROSS JOIN", NEW a, a # << >>, NEW b, b # << >>, NEW x,
         x = Equated(a, b, TRUE), l.on = <<x>>, NEW c, c = <<a, b>>
  PROVE  Q!Conditions(l) = <<c>>
<1>1. PICK on : on = <<x>>
  OBVIOUS
<1>2. Q!IsSeq(on) /\ DOMAIN on = {1} /\ on[1] = x /\ x.left = a /\ x.right = b
  <2>1. Q!IsSeq(on) /\ DOMAIN on = {1} /\ on[1] = x
    BY <1>1, OnlyPlace
  <2>2. x.left = a /\ x.right = b
    BY DEF Equated
  <2> QED
    BY <2>1, <2>2
<1> DEFINE S == {k \in DOMAIN on : on[k].left # << >> /\ on[k].right # << >>}
<1>3. S = DOMAIN on
  BY <1>2
<1>4. Q!Sifted(on, S) = on
  <2> HIDE DEF S
  <2> QED
    BY <1>2, <1>3, SiftedWhole
<1>5. PICK u : u = Q!Conditions(l)
  OBVIOUS
<1>6. u = [k \in DOMAIN on |-> <<on[k].left, on[k].right>>]
  BY <1>1, <1>4, <1>5 DEF Q!Conditions, Q!Nothing
<1> HIDE DEF S
<1>7. DOMAIN u = {1} /\ u[1] = c /\ u = [k \in 1 .. 1 |-> u[k]]
  BY <1>2, <1>6, OnePlace
<1>8. Q!IsSeq(u)
  BY <1>7, SeqOver
<1> QED
  BY <1>5, <1>7, <1>8, OneOnly

LEMMA TouchedIs ==
  ASSUME NEW a, NEW b, NEW d, NEW e, e = [left |-> a, right |-> b, touched |-> d],
         NEW x, x = [e EXCEPT !.touched = TRUE]
  PROVE  x = [left |-> a, right |-> b, touched |-> TRUE]
OBVIOUS

\* The conditions P that are restored of the saved ones, s: the one the line i
\* has, or none.
OnAgain(cat, lines, alias, i, s, P) ==
  \/ s = << >> /\ lines[i].kind = "CROSS JOIN"
  \/ \E a \in Names(cat, lines, alias, 1 .. i - 1), b \in Of(cat, lines[i], alias[i]) :
       /\ s = <<<<a, b>>>> /\ P = <<Equated(a, b, TRUE)>>
       /\ lines[i].kind # "CROSS JOIN"

LEMMA RestoredOnAgain ==
  ASSUME NEW cat, IsCatalog(cat), NEW lines, Lines(cat, lines), NEW alias,
         Aliased(lines, alias), NEW m, Model(cat, lines, alias, m),
         \A j \in Q!ToSet(m.joins) : ~ (Len(j.on) > 1),
         NEW t, Ready(cat, lines, alias, t), Q!Named(t) = alias,
         NEW i \in DOMAIN lines, i # 1, Joins(cat, lines, alias, i, lines[i].on),
         Joins(cat, t.lines, alias, i, t.lines[i].on),
         NEW P, P = Q!RestoredOn(cat, m, t, i), NEW s, s = Q!Conditions(lines[i])
  PROVE  OnAgain(cat, lines, alias, i, s, P)
<1>1. DOMAIN lines = 1 .. Len(lines) /\ Len(lines) \in Nat
  BY LinesAre
<1>2. PICK k : k = i - 1
  OBVIOUS
<1>3. k \in 1 .. Len(lines) - 1 /\ k + 1 = i
  BY <1>1, <1>2
<1>4. /\ Q!IsSeq(m.joins) /\ DOMAIN m.joins = 1 .. Len(lines) - 1
      /\ \A x \in 1 .. Len(lines) - 1 : m.joins[x].alias = alias[x + 1]
      /\ m.joins[k].on = s
  BY <1>3 DEF Model
<1>5. PICK j : j = m.joins[k]
  OBVIOUS
<1>6. j \in Q!ToSet(m.joins) /\ j.alias = alias[i] /\ j.on = s
  BY <1>3, <1>4, <1>5 DEF Q!ToSet
<1>7. (CHOOSE x \in Q!ToSet(m.joins) : x.alias = alias[i]) = j
  <2>1. ASSUME NEW x \in Q!ToSet(m.joins), x.alias = alias[i] PROVE x = j
    <3>1. PICK y \in 1 .. Len(lines) - 1 : x = m.joins[y]
      BY <1>4 DEF Q!ToSet
    <3>2. y + 1 \in DOMAIN lines /\ alias[y + 1] = alias[i]
      BY <1>1, <1>4, <2>1, <3>1
    <3>3. y + 1 = i
      BY <3>2 DEF Aliased
    <3>4. y = k
      BY <1>2, <3>1, <3>3
    <3> QED
      BY <1>5, <3>1, <3>4
  <2> QED
    BY <1>6, <2>1
<1>8. /\ Q!IsSeq(s) /\ (lines[i].kind = "CROSS JOIN" \/ s # << >>)
      /\ \A c \in Q!ToSet(s) : /\ c[1] \in Names(cat, lines, alias, 1 .. i - 1)
                               /\ c[2] \in Of(cat, lines[i], alias[i])
  BY ConditionsAre
<1>9. CASE s = << >>
  BY <1>8, <1>9 DEF OnAgain
<1>10. CASE s # << >>
  <2>1. PICK a, b, c, new : a = c[1] /\ b = c[2] /\ c = s[1] /\ new = t.lines
    OBVIOUS
  <2>2. DOMAIN s = {1}
    <3>1. DOMAIN s = 1 .. Len(s) /\ Len(s) \in Nat /\ 1 \in DOMAIN s
      BY <1>8, <1>10, SeqDomain, NotEmpty
    <3>2. ~ (Len(s) > 1)
      BY <1>6
    <3>3. Len(s) = 1
      BY <3>1, <3>2
    <3> QED
      BY <3>1, <3>3, OnePlace
  <2>3. s = <<c>>
    BY <1>8, <2>1, <2>2, OneOnly
  <2>4. c \in Q!ToSet(s)
    BY <2>1, <2>2 DEF Q!ToSet
  <2>5. a \in Names(cat, lines, alias, 1 .. i - 1) /\ b \in Of(cat, lines[i], alias[i])
    BY <1>8, <2>1, <2>4
  <2>6. c = <<a, b>> /\ lines[i].kind # "CROSS JOIN"
    <3>1. c = <<c[1], c[2]>> /\ lines[i].kind # "CROSS JOIN"
      BY <2>4, PairIs
    <3> QED
      BY <2>1, <3>1
  <2>7. Lines(cat, new) /\ Again(lines, alias, new) /\ i \in DOMAIN new
    BY <2>1 DEF Ready, Again
  <2>8. a \in Names(cat, new, alias, 1 .. i - 1) /\ b \in Of(cat, new[i], alias[i])
    <3>1. PICK I : I = 1 .. i - 1
      OBVIOUS
    <3>2. I \in SUBSET DOMAIN lines
      BY <1>1, <3>1
    <3>3. /\ Names(cat, new, alias, I) = Names(cat, lines, alias, I)
          /\ Of(cat, new[i], alias[i]) = Of(cat, lines[i], alias[i])
      BY <2>7, <3>2, AgainCalled
    <3> QED
      BY <2>5, <3>1, <3>3
  <2>9. PICK on, left, right, was :
          /\ on = Q!Refilled(cat, m, t, i) /\ left = Q!LeftOf(cat, new, alias, i)
          /\ right = Q!RightOf(cat, new, alias, i) /\ was = new[i].on
    OBVIOUS
  <2>10. on = Q!Prefilled(was, s, left, right)
    BY <1>6, <1>7, <1>10, <2>1, <2>9 DEF Q!Refilled
  <2>11. Joins(cat, new, alias, i, was)
    BY <2>1, <2>9
  <2>12. PICK d : d = was[1].touched
    OBVIOUS
  <2>13. DOMAIN on = {1} /\ on[1] = Equated(a, b, d)
    <3>1. c[1] = a /\ c[2] = b
      BY <2>1
    <3>2. left = Q!LeftOf(cat, new, alias, i) /\ right = Q!RightOf(cat, new, alias, i)
      BY <2>9
    <3>3. DOMAIN on = {1} /\ on[1] = Equated(a, b, was[1].touched)
      BY <2>3, <2>7, <2>8, <2>10, <2>11, <3>1, <3>2, PrefilledAgain
    <3> QED
      BY <2>12, <3>3
  <2>14. P = [x \in DOMAIN on |-> [on[x] EXCEPT !.touched = TRUE]]
    BY <2>9 DEF Q!RestoredOn
  <2>15. DOMAIN P = {1} /\ P[1] = Equated(a, b, TRUE)
    <3>1. PICK e : e = Equated(a, b, d)
      OBVIOUS
    <3>2. PICK x : x = [e EXCEPT !.touched = TRUE]
      OBVIOUS
    <3>3. DOMAIN P = {1} /\ P[1] = x
      BY <2>13, <2>14, <3>1, <3>2
    <3>4. e = [left |-> a, right |-> b, touched |-> d]
      BY <3>1 DEF Equated
    <3>5. x = [left |-> a, right |-> b, touched |-> TRUE]
      BY <3>2, <3>4, TouchedIs
    <3>6. x = Equated(a, b, TRUE)
      BY <3>5 DEF Equated
    <3> QED
      BY <3>3, <3>6
  <2>16. P = [x \in 1 .. 1 |-> P[x]]
    BY <2>13, <2>14, OnePlace
  <2>17. Q!IsSeq(P)
    BY <2>16, SeqOver
  <2>18. PICK e : e = Equated(a, b, TRUE)
    OBVIOUS
  <2>19. P = <<e>>
    BY <2>15, <2>17, <2>18, OneOnly
  <2> QED
    BY <2>3, <2>5, <2>6, <2>18, <2>19 DEF OnAgain
<1> QED
  BY <1>9, <1>10

\* The picks of a statement that is read again are settled.
LEMMA SavedSettled ==
  ASSUME NEW cat, NEW lines, NEW alias, NEW m, Model(cat, lines, alias, m),
         Saved(cat, lines, alias, m), NEW p, p["group"] = m.groupBy, p["filter"] = m.where,
         p["having"] = m.having, p["sort"] = m.orderBy, p["aggregate"] = m.aggregates
  PROVE  Settled(p, Seen(cat, lines, alias))
BY DEF Settled, Saved, Model

\* Lines that are given other conditions but for the base.
WithOn(lines, on) ==
  [i \in DOMAIN lines |-> IF i = 1 THEN lines[i] ELSE [lines[i] EXCEPT !.on = on[i]]]

LEMMA Rejoined ==
  ASSUME NEW cat, NEW lines, Lines(cat, lines), NEW on,
         \A i \in DOMAIN lines : i # 1 =>
            Q!IsSeq(on[i]) /\ on[i] # << >> /\ \A c \in Q!ToSet(on[i]) : IsOn(c),
         NEW next, next = WithOn(lines, on)
  PROVE  /\ Same(lines, next) /\ Lines(cat, next)
         /\ \A i \in DOMAIN lines : i # 1 => next[i].on = on[i]
<1> DEFINE joined(i) == [lines[i] EXCEPT !.on = on[i]]
<1>15. \A i \in DOMAIN lines : IsLine(cat, lines[i])
  BY DEF Lines
<1>16. ASSUME NEW i \in DOMAIN lines
       PROVE  joined(i) = [row |-> lines[i].row, table |-> lines[i].table,
                           typed |-> lines[i].typed, kind |-> lines[i].kind, on |-> on[i]]
  <2>1. PICK l, x : l = lines[i] /\ x = on[i]
    OBVIOUS
  <2>2. IsLine(cat, l)
    BY <1>15, <2>1
  <2>3. joined(i) = [l EXCEPT !.on = x]
    BY <2>1
  <2> HIDE DEF joined
  <2>4. joined(i) = [row |-> l.row, table |-> l.table, typed |-> l.typed, kind |-> l.kind, on |-> x]
    BY <2>2, <2>3, LineFields
  <2> QED
    BY <2>1, <2>4
<1>17. DOMAIN next = DOMAIN lines
  BY DEF WithOn
<1>18. \A i \in DOMAIN lines : next[i] = IF i = 1 THEN lines[i] ELSE joined(i)
  BY DEF WithOn
<1>19. next = [i \in DOMAIN lines |-> next[i]]
  BY DEF WithOn
<1> HIDE DEF joined
<1>20. DOMAIN lines = 1 .. Len(lines) /\ Len(lines) \in Nat
  BY LinesAre
<1>21. PICK n : n = Len(lines)
  OBVIOUS
<1>22. Q!IsSeq(next)
  <2>1. n \in Nat /\ next = [i \in 1 .. n |-> next[i]]
    BY <1>19, <1>20, <1>21
  <2> QED
    BY <2>1, SeqOver
<1>23. Len(next) = Len(lines)
  <2>1. DOMAIN next = 1 .. Len(next) /\ Len(next) \in Nat
    BY <1>22, SeqDomain
  <2> QED
    BY <1>17, <1>20, <2>1, SameLength
<1>24. \A i \in DOMAIN lines :
         /\ next[i].row = lines[i].row /\ next[i].table = lines[i].table
         /\ next[i].typed = lines[i].typed /\ next[i].kind = lines[i].kind
         /\ i # 1 => next[i].on = on[i]
  <2> SUFFICES ASSUME NEW i \in DOMAIN lines
               PROVE  /\ next[i].row = lines[i].row /\ next[i].table = lines[i].table
                      /\ next[i].typed = lines[i].typed /\ next[i].kind = lines[i].kind
                      /\ i # 1 => next[i].on = on[i]
    OBVIOUS
  <2>1. CASE i = 1
    BY <1>18, <2>1
  <2>2. CASE i # 1
    <3>1. PICK a, b, c, d, x : /\ a = lines[i].row /\ b = lines[i].table /\ c = lines[i].typed
                               /\ d = lines[i].kind /\ x = on[i]
      OBVIOUS
    <3>2. next[i] = [row |-> a, table |-> b, typed |-> c, kind |-> d, on |-> x]
      BY <1>16, <1>18, <2>2, <3>1
    <3>3. /\ next[i].row = a /\ next[i].table = b /\ next[i].typed = c /\ next[i].kind = d
          /\ next[i].on = x
      BY <3>2
    <3> QED
      BY <3>1, <3>3
  <2> QED
    BY <2>1, <2>2
<1>25. Same(lines, next)
  BY <1>17, <1>22, <1>23, <1>24 DEF Same
<1>26. \A i \in DOMAIN lines :
         /\ next[i] = [row |-> next[i].row, table |-> next[i].table, typed |-> next[i].typed,
                       kind |-> next[i].kind, on |-> next[i].on]
         /\ Q!IsSeq(next[i].on) /\ \A c \in Q!ToSet(next[i].on) : IsOn(c)
         /\ i # 1 => next[i].on # << >>
  <2> SUFFICES ASSUME NEW i \in DOMAIN lines
               PROVE  /\ next[i] = [row |-> next[i].row, table |-> next[i].table,
                                    typed |-> next[i].typed, kind |-> next[i].kind,
                                    on |-> next[i].on]
                      /\ Q!IsSeq(next[i].on) /\ \A c \in Q!ToSet(next[i].on) : IsOn(c)
                      /\ i # 1 => next[i].on # << >>
    OBVIOUS
  <2>1. CASE i = 1
    BY <1>15, <1>18, <2>1 DEF IsLine
  <2>2. CASE i # 1
    <3>1. next[i].on = on[i]
      BY <1>24, <2>2
    <3>2. Q!IsSeq(on[i]) /\ on[i] # << >> /\ \A c \in Q!ToSet(on[i]) : IsOn(c)
      BY <2>2
    <3>3. next[i] = [row |-> lines[i].row, table |-> lines[i].table, typed |-> lines[i].typed,
                     kind |-> lines[i].kind, on |-> on[i]]
      BY <1>16, <1>18, <2>2
    <3>4. next[i] = [row |-> next[i].row, table |-> next[i].table, typed |-> next[i].typed,
                     kind |-> next[i].kind, on |-> next[i].on]
      BY <1>24, <3>1, <3>3
    <3> QED
      BY <3>1, <3>2, <3>4
  <2> QED
    BY <2>1, <2>2
<1>27. Lines(cat, next)
  BY <1>25, <1>26, SameLines
<1> QED
  BY <1>24, <1>25, <1>27

LEMMA SyncedLine ==
  ASSUME NEW cat, NEW t, Lines(cat, t.lines), NEW i \in DOMAIN t.lines, NEW u, u = Q!Sync(cat, t)
  PROVE  u.lines[i].on = Q!SyncedOn(cat, t.lines, Q!Aliases(t.lines), i)
<1>1. PICK lines, alias, l, x :
        /\ lines = t.lines /\ alias = Q!Aliases(lines) /\ l = lines[i]
        /\ x = Q!SyncedOn(cat, lines, alias, i)
  OBVIOUS
<1>2. u.lines = [k \in DOMAIN lines |-> [lines[k] EXCEPT !.on = Q!SyncedOn(cat, lines, alias, k)]]
  BY <1>1 DEF Q!Sync
<1>3. u.lines[i] = [l EXCEPT !.on = x]
  BY <1>1, <1>2
<1>4. IsLine(cat, l)
  BY <1>1 DEF Lines
<1>5. PICK v : v = u.lines[i]
  OBVIOUS
<1>6. v = [row |-> l.row, table |-> l.table, typed |-> l.typed, kind |-> l.kind, on |-> x]
  BY <1>3, <1>4, <1>5, LineFields
<1>7. v.on = x
  BY <1>6
<1> QED
  BY <1>1, <1>5, <1>7

\* The widgets describe what the statement says.
Described(t, m) ==
  /\ t.checked = Q!ToSet(m.ticked) /\ t.autoGroup = (m.groupBy = << >>)
  /\ t.picks["group"] = m.groupBy /\ t.picks["filter"] = m.where
  /\ t.picks["having"] = m.having /\ t.picks["sort"] = m.orderBy
  /\ t.picks["aggregate"] = m.aggregates

\* They still do after a sync.
LEMMA SyncDescribed ==
  ASSUME Q!BuilderAssumption, NEW cat, IsCatalog(cat), NEW lines, Lines(cat, lines), NEW alias,
         Aliased(lines, alias), NEW m, Model(cat, lines, alias, m), Saved(cat, lines, alias, m),
         NEW t, Ready(cat, lines, alias, t), Described(t, m), NEW u, u = Q!Sync(cat, t)
  PROVE  /\ Ready(cat, lines, alias, u) /\ Described(u, m) /\ Q!Named(u) = alias
         /\ Same(t.lines, u.lines)
         /\ \A i \in DOMAIN lines : i # 1 => Joins(cat, u.lines, alias, i, u.lines[i].on)
<1>1. PICK p : p = t.picks
  OBVIOUS
<1>2. /\ p["group"] = m.groupBy /\ p["filter"] = m.where /\ p["having"] = m.having
      /\ p["sort"] = m.orderBy /\ p["aggregate"] = m.aggregates
  BY <1>1 DEF Described
<1>3. Settled(p, Seen(cat, lines, alias))
  BY <1>2, SavedSettled
<1>4. t.checked \subseteq Names(cat, lines, alias, DOMAIN lines)
  BY DEF Described, Model
<1>5. /\ Ready(cat, lines, alias, u) /\ Q!Named(u) = alias /\ Same(t.lines, u.lines)
      /\ u.autoGroup = t.autoGroup
      /\ \A i \in DOMAIN lines : i # 1 => Joins(cat, u.lines, alias, i, u.lines[i].on)
  BY SyncReady
<1>6. u.checked = t.checked /\ u.picks = t.picks
  BY <1>1, <1>3, <1>4, SyncSettled
<1>7. Described(u, m)
  BY <1>5, <1>6 DEF Described
<1> QED
  BY <1>5, <1>7

\* A tab that is restored from a catalog that has not changed has the sources,
\* the picks and the conditions of the statement.
LEMMA RestoredTabIs ==
  ASSUME Q!BuilderAssumption, NEW cat, IsCatalog(cat), NEW was, Fit(cat, was),
         NEW m, m = Q!QueryModel(cat, was), Readable(m, was.autoGroup),
         NEW lines, lines = was.lines, NEW alias, alias = Q!Named(was),
         NEW new, new = Q!RestoredTab(cat, m)
  PROVE  /\ Ready(cat, lines, alias, new) /\ Described(new, m) /\ Q!Named(new) = alias
         /\ \A i \in DOMAIN lines : i # 1 => Q!Conditions(new.lines[i]) = Q!Conditions(lines[i])
<1>1. /\ Lines(cat, lines) /\ Aliased(lines, alias)
      /\ \A i \in DOMAIN lines : i # 1 => Joins(cat, lines, alias, i, lines[i].on)
  BY DEF Fit
<1>2. Model(cat, lines, alias, m)
  BY ModelIs
<1>3. Q!Known(cat, m) = Every(lines, alias)
  BY <1>2, KnownAll
<1>4. Saved(cat, lines, alias, m) /\ OwnName(lines, alias)
  BY ModelSaved
<1>5. m.source.table \in Q!Tables(cat)
  BY <1>1, <1>2, LinesAre DEF Model
<1>6. PICK r, p, t : /\ r = Q!RestoredLines(cat, m, Q!Known(cat, m))
                     /\ p = Q!RestoredPicks(cat, m) /\ t = Q!Sync(cat, p)
  OBVIOUS
<1>7. Lines(cat, r)
  BY <1>1, <1>2, <1>5, <1>6, RestoredLinesAre
<1>8. Again(lines, alias, r)
  BY <1>1, <1>2, <1>3, <1>6, RestoredAgain
<1>9. Ready(cat, lines, alias, p) /\ Described(p, m)
  BY <1>1, <1>2, <1>3, <1>4, <1>6, <1>7, <1>8, RestoredPicksAgain DEF Described
<1>10. /\ Ready(cat, lines, alias, t) /\ Described(t, m) /\ Q!Named(t) = alias
       /\ \A i \in DOMAIN lines : i # 1 => Joins(cat, t.lines, alias, i, t.lines[i].on)
  BY <1>1, <1>2, <1>4, <1>6, <1>9, SyncDescribed
<1>11. /\ IsTab(t) /\ Lines(cat, t.lines) /\ Again(lines, alias, t.lines) /\ Picks(t.picks)
       /\ Harmless(t.lines, t.aliasOf, alias) /\ DOMAIN t.lines = DOMAIN lines
       /\ \A a \in Q!ToSet(t.picks["aggregate"]) : Countable(a, Seen(cat, lines, alias))
  BY <1>10 DEF Ready, Again
\* The conditions are put back.
<1>12. PICK on : on = [i \in DOMAIN t.lines |-> Q!RestoredOn(cat, m, t, i)]
  OBVIOUS
<1>13. PICK next : next = WithOn(t.lines, on)
  OBVIOUS
<1>14. new = Q!Sync(cat, [t EXCEPT !.lines = next])
  <2>1. next = [i \in DOMAIN t.lines |->
                  IF i = 1 THEN t.lines[i]
                  ELSE [t.lines[i] EXCEPT !.on = Q!RestoredOn(cat, m, t, i)]]
    BY <1>12, <1>13 DEF WithOn
  <2> QED
    BY <1>5, <1>6, <2>1 DEF Q!RestoredTab
<1>15. ASSUME NEW i \in DOMAIN t.lines, i # 1
       PROVE  Q!IsSeq(on[i]) /\ on[i] # << >> /\ \A c \in Q!ToSet(on[i]) : IsOn(c)
  <2>1. \A x \in Q!ToSet(m.joins) : Q!IsSeq(x.on)
    BY <1>2, SavedOn
  <2>2. PICK k : k = i - 1
    OBVIOUS
  <2>3. k \in 1 .. Len(lines) - 1 /\ k + 1 = i
    BY <1>1, <1>11, <1>15, <2>2, LinesAre
  <2>4. PICK j : j = m.joins[k]
    OBVIOUS
  <2>5. j \in Q!ToSet(m.joins) /\ j.alias = alias[i]
    BY <1>2, <2>3, <2>4 DEF Model, Q!ToSet
  <2>6. PICK P : P = Q!RestoredOn(cat, m, t, i)
    OBVIOUS
  <2>7. Joins(cat, t.lines, alias, i, t.lines[i].on)
    BY <1>10, <1>11, <1>15
  <2>8. Q!IsSeq(P) /\ P # << >> /\ \A c \in Q!ToSet(P) : IsOn(c)
    BY <1>10, <1>11, <2>1, <2>5, <2>6, <2>7, RestoredOnIs
  <2> QED
    BY <1>12, <2>6, <2>8
<1>16. /\ Same(t.lines, next) /\ Lines(cat, next)
       /\ \A i \in DOMAIN t.lines : i # 1 => next[i].on = on[i]
  BY <1>11, <1>13, <1>15, Rejoined
<1>17. Again(lines, alias, next)
  BY <1>11, <1>16, AgainSame
<1>18. PICK x, c, q, d, u : /\ x = t.aliasOf /\ c = t.checked /\ q = t.picks /\ d = t.autoGroup
                            /\ u = [t EXCEPT !.lines = next]
  OBVIOUS
<1>19. u = [lines |-> next, aliasOf |-> x, checked |-> c, picks |-> q, autoGroup |-> d]
  BY <1>11, <1>18 DEF IsTab
<1>20. /\ IsTab(u) /\ u.lines = next /\ u.aliasOf = t.aliasOf /\ u.checked = t.checked
       /\ u.picks = t.picks /\ u.autoGroup = t.autoGroup
  BY <1>18, <1>19 DEF IsTab
<1>21. Harmless(next, t.aliasOf, alias)
  <2>1. DOMAIN next = DOMAIN t.lines /\ \A i \in DOMAIN next : next[i].row = t.lines[i].row
    BY <1>16 DEF Same
  <2> QED
    BY <1>11, <2>1 DEF Harmless
<1>22. Ready(cat, lines, alias, u)
  BY <1>11, <1>16, <1>17, <1>20, <1>21 DEF Ready
<1>23. Described(u, m)
  BY <1>10, <1>20 DEF Described
<1>24. /\ Ready(cat, lines, alias, new) /\ Described(new, m) /\ Q!Named(new) = alias
  BY <1>1, <1>2, <1>4, <1>14, <1>18, <1>22, <1>23, SyncDescribed
\* And stay.
<1>25. ASSUME NEW i \in DOMAIN lines, i # 1
       PROVE  Q!Conditions(new.lines[i]) = Q!Conditions(lines[i])
  <2>1. PICK P, s, l : /\ P = Q!RestoredOn(cat, m, t, i) /\ s = Q!Conditions(lines[i])
                       /\ l = new.lines[i]
    OBVIOUS
  <2>2. next[i].on = P
    BY <1>11, <1>12, <1>16, <1>25, <2>1
  <2>3. l.kind = lines[i].kind
    BY <1>24, <1>25, <2>1 DEF Ready, Again
  <2>4. OnAgain(cat, lines, alias, i, s, P)
    <3>1. Joins(cat, lines, alias, i, lines[i].on) /\ Joins(cat, t.lines, alias, i, t.lines[i].on)
      BY <1>1, <1>10, <1>25
    <3>2. \A j \in Q!ToSet(m.joins) : ~ (Len(j.on) > 1)
      BY DEF Readable
    <3>3. Lines(cat, lines) /\ Aliased(lines, alias) /\ Ready(cat, lines, alias, t) /\ Q!Named(t) = alias
      BY <1>1, <1>10
    <3>4. P = Q!RestoredOn(cat, m, t, i) /\ s = Q!Conditions(lines[i])
      BY <2>1
    <3> QED
      BY <1>2, <1>25, <3>1, <3>2, <3>3, <3>4, RestoredOnAgain
  <2>5. CASE s = << >> /\ lines[i].kind = "CROSS JOIN"
    BY <2>1, <2>3, <2>5 DEF Q!Conditions
  <2>6. CASE \E a \in Names(cat, lines, alias, 1 .. i - 1), b \in Of(cat, lines[i], alias[i]) :
               /\ s = <<<<a, b>>>> /\ P = <<Equated(a, b, TRUE)>>
               /\ lines[i].kind # "CROSS JOIN"
    <3>1. PICK a \in Names(cat, lines, alias, 1 .. i - 1), b \in Of(cat, lines[i], alias[i]) :
            /\ s = <<<<a, b>>>> /\ P = <<Equated(a, b, TRUE)>>
            /\ lines[i].kind # "CROSS JOIN"
      BY <2>6
    <3>2. PICK e, z : e = Equated(a, b, TRUE) /\ z = <<a, b>>
      OBVIOUS
    <3>3. 1 .. i - 1 \in SUBSET DOMAIN lines
      BY <1>1, LinesAre
    <3>4. a \in Names(cat, next, alias, 1 .. i - 1) /\ b \in Of(cat, next[i], alias[i])
      <4>1. PICK I : I = 1 .. i - 1
        OBVIOUS
      <4>2. /\ Names(cat, next, alias, I) = Names(cat, lines, alias, I)
            /\ Of(cat, next[i], alias[i]) = Of(cat, lines[i], alias[i])
        BY <1>1, <1>16, <1>17, <3>3, <4>1, AgainCalled
      <4> QED
        BY <3>1, <4>1, <4>2
    <3>5. i \in DOMAIN next /\ next[i].on = <<e>>
      BY <1>17, <2>2, <3>1, <3>2 DEF Again
    <3>6. Q!SyncedOn(cat, next, alias, i) = <<e>>
      <4>1. e = Given(a, b)
        BY <3>2 DEF Equated, Given
      <4>2. Lines(cat, next)
        BY <1>16
      <4> QED
        BY <3>4, <3>5, <4>1, <4>2, SyncedOnKept
    <3>7. Q!Aliases(next) = alias
      BY <1>1, <1>16, <1>17, AgainCalled
    <3>8. l.on = <<e>>
      <4>1. new.lines[i].on = Q!SyncedOn(cat, u.lines, Q!Aliases(u.lines), i)
        <5>1. Lines(cat, u.lines) /\ i \in DOMAIN u.lines
          BY <1>16, <1>20, <3>5
        <5>2. new = Q!Sync(cat, u)
          BY <1>14, <1>18
        <5> QED
          BY <5>1, <5>2, SyncedLine
      <4> QED
        BY <1>20, <2>1, <3>6, <3>7, <4>1
    <3>9. a # << >> /\ b # << >>
      <4>1. PICK I : I = 1 .. i - 1
        OBVIOUS
      <4>2. I \in SUBSET DOMAIN lines /\ a \in Names(cat, lines, alias, I)
        BY <3>1, <3>3, <4>1
      <4>3. a # << >>
        BY <1>1, <4>2, NamesThere
      <4>4. b # << >>
        <5>1. lines[i].table \in Q!Tables(cat)
          BY <1>1, <1>25, LinesAre
        <5>2. PICK l2, al : l2 = lines[i] /\ al = alias[i]
          OBVIOUS
        <5>3. b \in Of(cat, l2, al) /\ l2.table \in Q!Tables(cat)
          BY <3>1, <5>1, <5>2
        <5> QED
          BY <5>3, OneOf
      <4> QED
        BY <4>3, <4>4
    <3>10. Q!Conditions(l) = <<z>>
      BY <2>3, <3>1, <3>2, <3>8, <3>9, ConditionOf
    <3> QED
      BY <2>1, <3>1, <3>2, <3>10
  <2> QED
    BY <2>4, <2>5, <2>6 DEF OnAgain
<1> QED
  BY <1>24, <1>25

\* Columns as the tab shows them.
ShownAll(s, lines) == [k \in DOMAIN s |-> Q!Shown(s[k], lines)]

\* The same ticks are shown the same.
LEMMA PlainAgain ==
  ASSUME NEW cat, NEW alias, NEW was, NEW new, NEW q, q = Q!Qualified(cat, was.lines, alias),
         Q!IsSeq(q), Q!Qualified(cat, new.lines, alias) = q,
         NEW s, s = Q!Only(q, was.checked), new.checked = Q!ToSet(s),
         \A n : Q!Shown(n, new.lines) = Q!Shown(n, was.lines)
  PROVE  /\ Q!Only(q, new.checked) = s
         /\ Q!Plain(cat, new, alias) = Q!Plain(cat, was, alias)
         /\ s = << >> => Q!Plain(cat, was, alias) = << >>
<1>1. Q!Only(q, new.checked) = s
  BY OnlyAgain
<1>2. Q!Plain(cat, was, alias) = ShownAll(s, was.lines)
  BY DEF Q!Plain, ShownAll
<1>3. Q!Plain(cat, new, alias) = ShownAll(s, new.lines)
  BY <1>1 DEF Q!Plain, ShownAll
<1>4. ShownAll(s, new.lines) = ShownAll(s, was.lines)
  BY DEF ShownAll
<1>5. ASSUME s = << >>
      PROVE  ShownAll(s, was.lines) = << >>
  BY <1>5 DEF ShownAll
<1> QED
  BY <1>1, <1>2, <1>3, <1>4, <1>5

\* The same lines are joined the same.
LEMMA JoinsAgain ==
  ASSUME NEW lines, DOMAIN lines = 1 .. Len(lines), Len(lines) \in Nat, NEW alias, NEW new,
         Again(lines, alias, new),
         \A i \in DOMAIN lines : i # 1 => Q!Conditions(new[i]) = Q!Conditions(lines[i])
  PROVE  JoinsOf(new, alias) = JoinsOf(lines, alias)
<1>1. ASSUME NEW k \in 1 .. Len(lines) - 1
      PROVE  JoinOf(new, alias, k + 1) = JoinOf(lines, alias, k + 1)
  <2>1. PICK i : i = k + 1
    OBVIOUS
  <2>2. i \in DOMAIN lines /\ i # 1
    BY <1>1, <2>1
  <2>3. new[i].table = lines[i].table /\ new[i].kind = lines[i].kind
    BY <2>2 DEF Again
  <2>4. Q!Conditions(new[i]) = Q!Conditions(lines[i])
    BY <2>2
  <2>5. JoinOf(new, alias, i) = JoinOf(lines, alias, i)
    BY <2>3, <2>4 DEF JoinOf
  <2> QED
    BY <2>1, <2>5
<1>2. Len(new) = Len(lines)
  BY DEF Again
<1> HIDE DEF JoinOf
<1> QED
  BY <1>1, <1>2 DEF JoinsOf

\* What the statement is grouped by is what it was grouped by.
LEMMA RestoredGroups ==
  ASSUME NEW cat, IsCatalog(cat), NEW was, Fit(cat, was), NEW alias, alias = Q!Named(was),
         NEW m, m = Q!QueryModel(cat, was), Readable(m, was.autoGroup),
         NEW new, Described(new, m), Q!Plain(cat, new, alias) = Q!Plain(cat, was, alias),
         m.ticked = << >> => Q!Plain(cat, was, alias) = << >>
  PROVE  Q!Grouping(cat, new, alias) = m.groupBy
<1>1. PICK g, p, labels : /\ g = m.groupBy /\ p = Q!Plain(cat, was, alias)
                          /\ labels = Q!Labels(was.picks["aggregate"])
  OBVIOUS
<1>2. /\ Lines(cat, was.lines) /\ Picks(was.picks)
  BY DEF Fit
<1>3. g = Q!Grouping(cat, was, alias) /\ m.aggregates = Q!Valid(was.picks["aggregate"])
  <2>1. PICK lines, picks : lines = was.lines /\ picks = was.picks
    OBVIOUS
  <2>2. m.groupBy = Q!Grouping(cat, was, alias) /\ m.aggregates = Q!Valid(picks["aggregate"])
    BY <2>1, PartsAre
  <2> QED
    BY <1>1, <2>1, <2>2
<1>4. Q!IsSeq(was.picks["group"]) /\ Q!IsSeq(was.picks["aggregate"])
  BY <1>2 DEF Picks, Q!RowSection
<1>5. Q!IsSeq(p)
  BY <1>1, <1>2, PlainIs
<1>6. Distinct(g)
  BY <1>2, <1>3, <1>4, GroupedOnce
<1>7. Q!IsSeq(g) /\ Q!ToSet(g) \subseteq Seen(cat, was.lines, alias)
  BY <1>1, ModelIs DEF Model
<1>8. << >> \notin Q!ToSet(g)
  <2>1. \A n \in Q!ToSet(g) : n # << >>
    BY <1>2, <1>7, SeenThere
  <2> QED
    BY <2>1
<1>9. Q!Labels(m.aggregates) = labels
  BY <1>1, <1>3, <1>4, LabelsWhole
<1>10. g = << >> => was.autoGroup \/ p = << >> \/ labels = << >>
  <2>1. m.aggregates = << >> => labels = << >>
    <3> SUFFICES ASSUME m.aggregates = << >> PROVE labels = << >>
      OBVIOUS
    <3>1. PICK v : v = Q!Valid(m.aggregates)
      OBVIOUS
    <3>2. Q!IsSeq(m.aggregates) /\ \A a \in Q!ToSet(m.aggregates) : a.column # << >>
      BY NoneHolds
    <3>3. v = << >>
      BY <3>1, <3>2, ValidWhole
    <3>4. Q!Labels(m.aggregates) = [k \in DOMAIN v |-> Q!Label(v[k])]
      BY <3>1 DEF Q!Labels
    <3> QED
      BY <1>9, <3>3, <3>4
  <2> QED
    BY <1>1, <2>1 DEF Readable
<1>11. Q!Labels(new.picks["aggregate"]) = labels
  BY <1>9 DEF Described
<1>12. new.autoGroup = (g = << >>) /\ new.picks["group"] = g
  BY <1>1 DEF Described
<1>13. Q!Plain(cat, new, alias) = p
  BY <1>1
<1>14. Q!Grouping(cat, new, alias) = g
  BY <1>1, <1>3, <1>4, <1>5, <1>6, <1>7, <1>8, <1>10, <1>11, <1>12, <1>13, GroupedAgain
<1> QED
  BY <1>1, <1>14

\* A query that is read back right, from the catalog it was made in, is the
\* query that was saved.
LEMMA RestoredSame ==
  ASSUME Q!BuilderAssumption, NEW cat, IsCatalog(cat), NEW was, Fit(cat, was),
         NEW m, m = Q!QueryModel(cat, was), Readable(m, was.autoGroup),
         NEW new, new = Q!RestoredTab(cat, m)
  PROVE  Q!QueryModel(cat, new) = m
<1>1. PICK lines, alias, p, s, r, n :
        /\ lines = was.lines /\ alias = Q!Named(was) /\ p = was.picks
        /\ s = new.lines /\ r = new.picks /\ n = Q!QueryModel(cat, new)
  OBVIOUS
<1>2. Fit(cat, new)
  BY RestoredFits
<1>3. /\ Lines(cat, lines) /\ Aliased(lines, alias) /\ Picks(p)
  BY <1>1 DEF Fit
<1>4. /\ Ready(cat, lines, alias, new) /\ Described(new, m) /\ Q!Named(new) = alias
      /\ \A i \in DOMAIN lines : i # 1 => Q!Conditions(s[i]) = Q!Conditions(lines[i])
  BY <1>1, RestoredTabIs
<1>5. Lines(cat, s) /\ Again(lines, alias, s)
  BY <1>1, <1>4 DEF Ready
<1>6. PICK q, names : q = Q!Qualified(cat, lines, alias) /\ names = Q!Offered(cat, lines, alias)
  OBVIOUS
<1>7. /\ Q!Qualified(cat, s, alias) = q /\ Q!Offered(cat, s, alias) = names
      /\ \A x : Q!Shown(x, s) = Q!Shown(x, lines)
  BY <1>3, <1>5, <1>6, AgainCalled
\* The parts of the two statements.
<1>8. /\ IsModel(m) /\ m.source = SourceOf(lines, alias) /\ m.joins = JoinsOf(lines, alias)
      /\ m.ticked = Q!Only(q, was.checked) /\ m.aggregates = Q!Valid(p["aggregate"])
      /\ m.where = Q!Only(p["filter"], Q!ToSet(names))
      /\ m.having = Q!Only(p["having"], Q!ToSet(Q!Labels(p["aggregate"])))
      /\ m.orderBy = Q!Found(p["sort"])
  BY <1>1, <1>6, PartsAre
<1>9. /\ IsModel(n) /\ n.source = SourceOf(s, alias) /\ n.joins = JoinsOf(s, alias)
      /\ n.ticked = Q!Only(q, new.checked) /\ n.aggregates = Q!Valid(r["aggregate"])
      /\ n.where = Q!Only(r["filter"], Q!ToSet(names))
      /\ n.groupBy = Q!Grouping(cat, new, alias)
      /\ n.having = Q!Only(r["having"], Q!ToSet(Q!Labels(r["aggregate"])))
      /\ n.orderBy = Q!Found(r["sort"])
  BY <1>1, <1>2, <1>4, <1>7, PartsAre
<1>10. /\ r["group"] = m.groupBy /\ r["filter"] = m.where /\ r["having"] = m.having
       /\ r["sort"] = m.orderBy /\ r["aggregate"] = m.aggregates
  BY <1>1, <1>4 DEF Described
<1>11. /\ Q!IsSeq(p["aggregate"]) /\ Q!IsSeq(p["filter"]) /\ Q!IsSeq(p["having"])
       /\ Q!IsSeq(p["sort"])
  BY <1>3 DEF Picks, Q!RowSection
<1>12. n.source = m.source
  <2>1. s[1].table = lines[1].table
    BY <1>3, <1>5, LinesAre DEF Again
  <2> QED
    BY <1>8, <1>9, <2>1 DEF SourceOf
<1>13. n.joins = m.joins
  <2>1. DOMAIN lines = 1 .. Len(lines) /\ Len(lines) \in Nat
    BY <1>3, LinesAre
  <2> QED
    BY <1>4, <1>5, <1>8, <1>9, <2>1, JoinsAgain
<1>14. Q!IsSeq(q)
  BY <1>3, <1>6, LinesAre, QualifiedIs DEF Lines
<1>15. /\ Q!Only(q, new.checked) = m.ticked
       /\ Q!Plain(cat, new, alias) = Q!Plain(cat, was, alias)
       /\ m.ticked = << >> => Q!Plain(cat, was, alias) = << >>
  <2>1. new.checked = Q!ToSet(m.ticked)
    BY <1>4 DEF Described
  <2> QED
    BY <1>1, <1>6, <1>7, <1>8, <1>14, <2>1, PlainAgain
<1>16. n.ticked = m.ticked
  BY <1>9, <1>15
<1>17. n.groupBy = m.groupBy
  BY <1>1, <1>4, <1>9, <1>15, RestoredGroups
<1>18. n.aggregates = m.aggregates
  <2>1. Q!IsSeq(m.aggregates) /\ \A a \in Q!ToSet(m.aggregates) : a.column # << >>
    BY <1>8, <1>11, ValidIs
  <2> QED
    BY <1>9, <1>10, <2>1, ValidWhole
<1>19. n.where = m.where
  <2>1. PICK T : T = Q!ToSet(names)
    OBVIOUS
  <2>2. Q!IsSeq(m.where) /\ Q!ToSet(m.where) \subseteq T
    BY <1>8, <1>11, <2>1, OnlyIs
  <2> QED
    BY <1>9, <1>10, <2>1, <2>2, OnlyWhole
<1>20. n.having = m.having
  <2>1. PICK T : T = Q!ToSet(Q!Labels(p["aggregate"]))
    OBVIOUS
  <2>2. Q!IsSeq(m.having) /\ Q!ToSet(m.having) \subseteq T
    BY <1>8, <1>11, <2>1, OnlyIs
  <2>3. Q!ToSet(Q!Labels(r["aggregate"])) = T
    BY <1>8, <1>10, <1>11, <2>1, LabelsWhole
  <2> QED
    BY <1>9, <1>10, <2>2, <2>3, OnlyWhole
<1>21. n.orderBy = m.orderBy
  <2>1. Q!IsSeq(m.orderBy) /\ << >> \notin Q!ToSet(m.orderBy)
    BY <1>8, <1>11, FoundIs
  <2> QED
    BY <1>9, <1>10, <2>1, FoundWhole
<1>22. n = m
  BY <1>8, <1>9, <1>12, <1>13, <1>16, <1>17, <1>18, <1>19, <1>20, <1>21 DEF IsModel
<1> QED
  BY <1>1, <1>22

\* A query that is none of the cases of Misread comes back as it was saved
\* when its tab is closed and restored (_restore_model, query_model).
THEOREM QueryComesBack == Q!Spec => Q!ReopenKeepsQuery
<1>1. Q!BuilderAssumption
  BY InstanceAssumption
<1>2. ASSUME QueryInv, Q!Next, reopened' # reopened, catalog' = catalog,
             NEW m, m = Q!QueryModel(catalog, builder), ~ Q!Misread(m)
      PROVE  Q!QueryModel(catalog', builder') = m
  <2>1. ~ Q!Edit
    BY <1>2, EditReopens
  <2>2. PICK cat \in Catalogs : Q!Reopen(cat)
    BY <1>2, <2>1 DEF Q!Next
  <2>3. catalog' = cat /\ builder' = Q!RestoredTab(cat, m)
    BY <1>2, <2>2 DEF Q!Reopen
  <2>4. IsCatalog(catalog) /\ Fit(catalog, builder)
    BY <1>2 DEF QueryInv, QueryFits
  <2>5. Readable(m, builder.autoGroup)
    BY <1>2 DEF Q!Misread, Readable
  <2>6. PICK new : new = builder'
    OBVIOUS
  <2>7. new = Q!RestoredTab(catalog, m)
    BY <1>2, <2>3, <2>6
  <2>8. Q!QueryModel(catalog, new) = m
    BY <1>1, <1>2, <2>4, <2>5, <2>7, RestoredSame
  <2> QED
    BY <1>2, <2>6, <2>8
<1> DEFINE m == Q!QueryModel(catalog, builder)
           Held == (reopened' # reopened /\ catalog' = catalog) =>
                      Q!Misread(m) \/ Q!QueryModel(catalog', builder') = m
<1>3. QueryInv /\ [Q!Next]_(Q!vars) => [Held]_(Q!vars)
  BY <1>2
<1>4. (Q!Spec => [][Held]_(Q!vars)) => (Q!Spec => Q!ReopenKeepsQuery)
  BY DEF Q!ReopenKeepsQuery
<1> HIDE DEF Held
<1>5. Q!Init => QueryInv
  BY <1>1, QueryInvariant
<1>6. QueryInv /\ [Q!Next]_(Q!vars) => QueryInv'
  BY <1>1, QueryInvariant
<1>7. Q!Spec => [][Held]_(Q!vars)
  BY <1>3, <1>5, <1>6, PTL DEF Q!Spec
<1> QED
  BY <1>4, <1>7

-----------------------------------------------------------------------------
(* The builder side by side with the other parts, which leave its state    *)
(* alone.                                                                  *)

LEMMA QueryPart == MCSpec => Q!Spec
<1>1. MCInit => Q!Init
  BY DEF MCInit, FirstTable
<1>2. [MCNext]_allVars => [Q!Next]_(Q!vars)
  BY DEF MCNext, allVars, queryVars, Q!vars
<1> QED
  BY <1>1, <1>2, PTL DEF MCSpec, Q!Spec

\* The property StatementResolves of the run: the statement stands on its own.
COROLLARY TableStatementStands == MCSpec => []StatementResolves
<1>1. Q!StatementResolves => StatementResolves
  BY DEF StatementResolves
<1> QED
  BY <1>1, StatementStands, QueryPart, PTL

\* The property SurvivorsKeepPicks of the run: what is picked stays with its
\* source.
COROLLARY TablePicksStay == MCSpec => SurvivorsKeepPicks
BY PicksStay, QueryPart, PTL DEF SurvivorsKeepPicks

\* The property ReopenKeepsQuery of the run: a tab that is restored has the
\* query it was closed with.
COROLLARY TableReopens == MCSpec => ReopenKeepsQuery
BY QueryComesBack, QueryPart, PTL DEF ReopenKeepsQuery
=============================================================================
