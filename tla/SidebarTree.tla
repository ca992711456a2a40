---------------------------- MODULE SidebarTree ----------------------------
(***************************************************************************)
(* The schema sidebar (frontend/sidebar.py): rows that load their children *)
(* when they are expanded, Refresh, and the walk that reveals the object   *)
(* of the active tab.                                                      *)
(*                                                                         *)
(* Two levels stand for the path of the tree: a connection's row, whose    *)
(* listing brings one folder, and the folder, whose listing brings the     *)
(* objects.  Rows are objects: a listing of a connection makes a new       *)
(* folder, and what still loads the old one fills a row nobody sees.  A    *)
(* list store tells its listener of every change at once, so emptying or   *)
(* filling a store runs the walk that waits on it in the middle of the     *)
(* caller: the operators on the record `tree' follow the code's order.     *)
(***************************************************************************)
EXTENDS Naturals, FiniteSets

CONSTANTS
  Conn,        \* connections of the workspace
  Thread,      \* bound: loads in flight at a time
  MaxVersion   \* bound: changes of a server's schema

Nowhere == "nowhere"

\* What the constants are, assumed where the module is instantiated.
TreeAssumption ==
  /\ Conn # {} /\ Nowhere \notin Conn /\ IsFiniteSet(Conn)
  /\ MaxVersion \in Nat /\ IsFiniteSet(Thread)

Level   == {"conn", "folder"}
Node    == Conn \X Level
Ids     == 1 .. 2 * (Cardinality(Conn) + Cardinality(Thread)) + 2
Version == 0 .. MaxVersion
Empty   == MaxVersion + 1    \* what a store holds: no rows,
Note    == MaxVersion + 2    \* "Loading...",
Failure == MaxVersion + 3    \* "(failed to load)", or a listing

VARIABLES
  tree,     \* the rows, the loads, the walk
  version,  \* the server's schema, by number of changes
  cached,   \* the oldest schema the connection's catalog cache may answer
  stale     \* _stale_catalogs: connections to invalidate before reading

vars == <<tree, version, cached, stale>>

Idle    == [step |-> "idle"]
Row     == [id : {0} \cup Ids, loaded : BOOLEAN, loading : BOOLEAN,
            open : BOOLEAN, shown : 0 .. Failure, want : Version,
            tainted : BOOLEAN]
NoRow   == [id |-> 0, loaded |-> FALSE, loading |-> FALSE, open |-> FALSE,
            shown |-> Empty, want |-> 0, tainted |-> FALSE]
NewRow(i) == [NoRow EXCEPT !.id = i]

\* The types, and: a folder's row stands under a connection that is listed.
TypeOK ==
  /\ DOMAIN tree = {"row", "job", "target", "armed", "wait",
                    "selected"}
  /\ tree.row \in [Node -> Row]
  /\ tree.job \in [Thread -> {Idle} \cup
       [step : {"asked", "marked", "opened", "failed"}, of : Node, id : Ids,
        crossed : BOOLEAN] \cup
       [step : {"read"}, of : Node, id : Ids, crossed : BOOLEAN,
        found : Version]]
  /\ tree.target \in Conn \cup {Nowhere}
  /\ tree.armed \in BOOLEAN
  /\ tree.wait \in {0} \cup Ids
  /\ \A n \in Node : n[2] = "folder" /\ tree.row[n].id # 0
       => tree.row[<<n[1], "conn">>].shown \in Version
  /\ tree.selected \in Conn \cup {Nowhere}
  /\ version \in [Conn -> Version]
  /\ cached \in [Conn -> Version]
  /\ stale \subseteq Conn

ConnRow(n) == <<n[1], "conn">>
Folder(n)  == <<n[1], "folder">>

\* A row object that nothing refers to any more is free to be used again.
InUse(t) == {t.row[n].id : n \in Node} \cup {t.wait}
            \cup {t.job[h].id : h \in {h \in Thread : t.job[h] # Idle}}
FreshId(t) == CHOOSE i \in Ids \ InUse(t) : TRUE
FreeThreads(t) == {h \in Thread : t.job[h] = Idle}
Loads(t, n) == {h \in Thread : t.job[h] # Idle /\ t.job[h].id = t.row[n].id}

FirstIds == CHOOSE f \in [Conn -> 1 .. Cardinality(Conn)] :
              \A c, d \in Conn : f[c] = f[d] => c = d

Init ==
  /\ tree = [row |-> [n \in Node |-> IF n[2] = "conn"
                       THEN NewRow(FirstIds[n[1]]) ELSE NoRow],
             job |-> [h \in Thread |-> Idle], target |-> Nowhere,
             armed |-> FALSE, wait |-> 0, selected |-> Nowhere]
  /\ version = [c \in Conn |-> 0]
  /\ cached = [c \in Conn |-> 0]
  /\ stale = {}

-----------------------------------------------------------------------------
(***************************************************************************)
(* What a row's store and its load go through.                             *)
(***************************************************************************)

Exists(t, n) == t.row[n].id # 0

Put(t, n, r)  == [t EXCEPT !.row = [t.row EXCEPT ![n] = r]]
Give(t, h, j) == [t EXCEPT !.job = [t.job EXCEPT ![h] = j]]

\* The tree model has a row for a node only under expanded parents.
Visible(t, n) == Exists(t, n) /\ (n[2] = "folder" => t.row[ConnRow(n)].open)

\* store.remove_all(): the rows of the level below go with their folder.
Cleared(t, n) ==
  LET bare == Put(t, n, [t.row[n] EXCEPT !.shown = Empty])
  IN  IF n[2] = "conn" THEN Put(bare, Folder(n), NoRow) ELSE bare

\* A load begins: the loading row, and a worker thread.
Begun(t, n) ==
  Give(Put(Cleared(t, n), n, [t.row[n] EXCEPT !.loading = TRUE, !.shown = Note]),
       CHOOSE h \in FreeThreads(t) : TRUE,
       [step |-> "asked", of |-> n, id |-> t.row[n].id, crossed |-> FALSE])

Loaded(t, n) ==
  IF t.row[n].loaded \/ t.row[n].loading THEN t ELSE Begun(t, n)

\* _follow_into(): expand and load the node, and wait if that takes time.
Into(t, n) ==
  IF t.row[n].loaded THEN t
  ELSE LET shown == Put(t, n, [t.row[n] EXCEPT !.open = t.row[n].open \/ Visible(t, n)])
       IN  [Loaded(shown, n) EXCEPT !.wait = IF t.wait = 0 THEN t.row[n].id ELSE t.wait]

\* _follow_step(): one pass down the path.  Only a row of the model can be
\* selected: one in a collapsed folder is passed over.
Walked(t) ==
  LET n == <<t.target, "conn">>
      f == <<t.target, "folder">>
      top == Into(t, n)
      low == Into(top, f)
  IN  IF t.target = Nowhere THEN t
      ELSE IF ~Exists(t, n) THEN t
      ELSE IF ~top.row[n].loaded \/ ~Exists(top, f) THEN top
      ELSE IF low.row[f].loaded /\ low.row[f].shown \in Version
              /\ Visible(low, f) /\ low.row[f].open
           THEN [low EXCEPT !.selected = t.target] ELSE low

\* items-changed on the store of row object i runs the walk that waits on it.
Signalled(t, i) ==
  IF t.wait = i THEN Walked([t EXCEPT !.wait = 0]) ELSE t

\* remove_all() and append(), with what listens to them.
Emptied(t, n) ==
  IF t.row[n].shown = Empty THEN t
  ELSE Signalled(Cleared(t, n), t.row[n].id)
Filled(t, n, rows) ==
  LET put == Put(t, n, [t.row[n] EXCEPT !.shown = rows])
  IN  Signalled(IF n[2] = "conn" /\ rows \in Version
                THEN Put(put, Folder(n),
                         [NewRow(FreshId(t)) EXCEPT !.want = t.row[n].want,
                                                    !.tainted = t.row[n].tainted])
                ELSE put, t.row[n].id)

\* _load_children() outside the walk.
LoadChildren(t, n) ==
  IF t.row[n].loaded \/ t.row[n].loading THEN t
  ELSE LET begun == Begun(t, n)
       IN  Signalled(begun, t.row[n].id)

-----------------------------------------------------------------------------
(***************************************************************************)
(* The user and the window, on the main loop.                              *)
(***************************************************************************)

\* Room for the load of an action, and for that of a walk it may wake.
Room == Cardinality(FreeThreads(tree)) > (IF tree.wait = 0 THEN 0 ELSE 1)

Expand(n) ==
  /\ Room
  /\ Visible(tree, n) /\ ~tree.row[n].open
  /\ tree' = LoadChildren(Put(tree, n, [tree.row[n] EXCEPT !.open = TRUE]), n)
  /\ UNCHANGED <<version, cached, stale>>

\* Collapsing a row drops the model's rows under it, and their expansion.
Collapse(n) ==
  /\ Visible(tree, n) /\ tree.row[n].open
  /\ tree' = LET shut == Put(tree, n, [tree.row[n] EXCEPT !.open = FALSE])
             IN  Put(shut, Folder(n), [shut.row[Folder(n)] EXCEPT !.open = FALSE])
  /\ UNCHANGED <<version, cached, stale>>

\* reload_connection() and refresh_node(): forget, and load an open row anew.
Refreshed(t, n) ==
  LET forgot == Put(t, n, [t.row[n] EXCEPT !.loaded = FALSE, !.loading = FALSE,
                                           !.want = version[n[1]],
                                           !.tainted = Loads(t, n) # {}])
      empty == Emptied(forgot, n)
  IN  IF Visible(empty, n) /\ empty.row[n].open
      THEN LoadChildren(empty, n) ELSE empty
Refresh(n) ==
  /\ Room
  /\ Exists(tree, n)
  /\ tree' = Refreshed(tree, n)
  /\ stale' = stale \cup {n[1]}
  /\ UNCHANGED <<version, cached>>

RemoveProfile(c) ==
  /\ Exists(tree, <<c, "conn">>)
  /\ tree' = Put(Put(tree, <<c, "folder">>, NoRow), <<c, "conn">>, NoRow)
  /\ UNCHANGED <<version, cached, stale>>

AddProfile(c) ==
  /\ ~Exists(tree, <<c, "conn">>)
  /\ tree' = Put(tree, <<c, "conn">>, NewRow(FreshId(tree)))
  /\ UNCHANGED <<version, cached, stale>>

\* reveal_object(): the walk under way is forgotten, a new one is timed.
Reveal(c) ==
  /\ c = Nowhere => tree.target # Nowhere
  /\ tree' = [tree EXCEPT !.wait = 0, !.target = c, !.armed = (c # Nowhere),
                          !.selected = IF c = Nowhere THEN Nowhere ELSE tree.selected]
  /\ UNCHANGED <<version, cached, stale>>

FollowTimeout ==
  /\ Room
  /\ tree.armed
  /\ tree' = Walked([tree EXCEPT !.armed = FALSE])
  /\ UNCHANGED <<version, cached, stale>>

-----------------------------------------------------------------------------
(***************************************************************************)
(* The worker threads, and what they hand to the main loop.                *)
(***************************************************************************)

Step(h, from, to) ==
  /\ tree.job[h].step = from
  /\ tree' = Give(tree, h, [tree.job[h] EXCEPT !.step = to])

\* Mutant: the mark is taken and the catalog not invalidated.
TakeMark_Forgets(h) ==
  /\ Step(h, "asked", "opened")
  /\ tree.job[h].of[1] \in stale
  /\ stale' = stale \ {tree.job[h].of[1]}
  /\ UNCHANGED <<version, cached>>

\* _connector(): a pending Refresh is taken up by whoever comes first.
TakeMark(h) ==
  /\ Step(h, "asked", "marked")
  /\ tree.job[h].of[1] \in stale
  /\ stale' = stale \ {tree.job[h].of[1]}
  /\ UNCHANGED <<version, cached>>

NoMark(h) ==
  LET c == tree.job[h].of[1]
  IN  /\ tree.job[h].step = "asked"
      /\ c \notin stale
      /\ tree' = Give(tree, h, [tree.job[h] EXCEPT
           !.step = "opened",
           !.crossed = \E g \in Thread : /\ tree.job[g].step = "marked"
                                         /\ tree.job[g].of[1] = c])
      /\ UNCHANGED <<version, cached, stale>>

Invalidate(h) ==
  /\ Step(h, "marked", "opened")
  /\ cached' = [cached EXCEPT ![tree.job[h].of[1]] = version[tree.job[h].of[1]]]
  /\ UNCHANGED <<version, stale>>

\* The catalog may answer from its cache, or ask the server.
Read(h) ==
  LET j == tree.job[h]
  IN  /\ j.step = "opened"
      /\ \E v \in cached[j.of[1]] .. version[j.of[1]] :
           tree' = Give(tree, h, [step |-> "read", of |-> j.of, id |-> j.id,
                                  crossed |-> j.crossed, found |-> v])
      /\ UNCHANGED <<version, cached, stale>>

\* Connecting fails, or a listing.
Fail(h) ==
  /\ tree.job[h].step \in {"asked", "opened"}
  /\ tree' = Give(tree, h, [tree.job[h] EXCEPT !.step = "failed"])
  /\ UNCHANGED <<version, cached, stale>>

\* done(): the row is loaded before its store is emptied and filled.
Done(h) ==
  LET j == tree.job[h]
      free == Give(tree, h, Idle)
      row == tree.row[j.of]
      loaded == Put(free, j.of, [row EXCEPT !.loading = FALSE, !.loaded = TRUE,
                                            !.tainted = row.tainted \/ j.crossed])
  IN  /\ j.step = "read"
      /\ tree' = IF tree.row[j.of].id = j.id
                 THEN Filled(Emptied(loaded, j.of), j.of, j.found)
                 ELSE Signalled(free, j.id)
      /\ UNCHANGED <<version, cached, stale>>

\* Mutant: loading is not reset.
Failed_KeepsLoading(h) ==
  LET j == tree.job[h]
      free == Give(tree, h, Idle)
  IN  /\ j.step = "failed"
      /\ tree' = IF tree.row[j.of].id = j.id
                 THEN Filled(Emptied(free, j.of), j.of, Failure)
                 ELSE Signalled(free, j.id)
      /\ UNCHANGED <<version, cached, stale>>

\* failed(): loaded is left as it is.
Failed(h) ==
  LET j == tree.job[h]
      free == Give(tree, h, Idle)
      told == Put(free, j.of, [tree.row[j.of] EXCEPT !.loading = FALSE])
  IN  /\ j.step = "failed"
      /\ tree' = IF tree.row[j.of].id = j.id
                 THEN Filled(Emptied(told, j.of), j.of, Failure)
                 ELSE Signalled(free, j.id)
      /\ UNCHANGED <<version, cached, stale>>

\* Somebody changes the schema.
Change(c) ==
  /\ version[c] < MaxVersion
  /\ version' = [version EXCEPT ![c] = @ + 1]
  /\ UNCHANGED <<tree, cached, stale>>

Work(h) == TakeMark(h) \/ NoMark(h) \/ Invalidate(h) \/ Read(h) \/ Fail(h)
Land(h) == Done(h) \/ Failed(h)

Next ==
  \/ \E n \in Node : Expand(n) \/ Collapse(n) \/ Refresh(n)
  \/ \E c \in Conn : RemoveProfile(c) \/ AddProfile(c) \/ Change(c)
  \/ \E c \in Conn \cup {Nowhere} : Reveal(c)
  \/ FollowTimeout
  \/ \E h \in Thread : Work(h) \/ Land(h)

Spec == Init /\ [][Next]_vars

-----------------------------------------------------------------------------
(***************************************************************************)
(* Properties.                                                             *)
(***************************************************************************)

\* What a row shows as loaded is its listing, and one read after the last
\* Refresh of it (or of the connection above it), however the loads of
\* the connection's rows share the one mark that invalidates its catalog.
\* Two races are named: a Refresh while an earlier load of the row was still
\* under way, and a load that found the mark taken but the catalog not yet
\* invalidated.
RefreshedRows ==
  \A n \in Node :
    LET r == tree.row[n]
    IN  r.loaded /\ ~r.tainted => r.shown \in Version /\ r.shown >= r.want

\* A row that says it is loading has a load under way that will tell.
SpinnerHasLoad ==
  \A n \in Node :
    (tree.row[n].loading \/ tree.row[n].shown = Note) => Loads(tree, n) # {}
=============================================================================
