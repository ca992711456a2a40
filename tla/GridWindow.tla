----------------------------- MODULE GridWindow -----------------------------
(***************************************************************************)
(* The window of rows a table tab shows (frontend/data_grid.py, TableTab): *)
(* reload, paging buttons, scrolling past the bottom and "load all for the *)
(* chart".                                                                 *)
(*                                                                         *)
(* Every load runs on a thread of its own (run_async) and its answer is    *)
(* handled on the main loop whenever it comes: answers may come in any     *)
(* order.  A request carries what the tab held when it was sent.           *)
(*                                                                         *)
(* Rows are numbered in the order the page plan gives them; a filter       *)
(* selects some of them, and stands for the sort as well.  The table does  *)
(* not change under the tab, so that every repeated or skipped row is the  *)
(* tab's own doing.                                                        *)
(***************************************************************************)
EXTENDS Integers, Sequences, FiniteSets

CONSTANTS
  Filter,      \* filter and sort settings the user tries
  Rows,        \* Filter -> sequence of the rows it selects
  PageSize,    \* PAGE_SIZE
  Cap,         \* chart_max_rows
  Paging,      \* ways of paging tried: "keyset" hands on a cursor, "offset" none
  Request,     \* slots for requests in flight
  MaxShown     \* bound: the user goes no further down than this

ASSUME WindowAssumption ==
  /\ Rows \in [Filter -> Seq(Nat \ {0})]
  /\ \A f \in Filter : \A i, j \in DOMAIN Rows[f] : i < j => Rows[f][i] < Rows[f][j]
  /\ PageSize \in Nat \ {0}
  /\ Cap \in Nat /\ MaxShown \in Nat
  /\ Paging \subseteq {"keyset", "offset"}

VARIABLES
  paging,    \* the table's page plan, which does not change
  filter,    \* _filters and _order_by
  offset,    \* _offset
  base,      \* _base_offset
  loaded,    \* _loaded_rows
  more,      \* _loading_more
  all,       \* _loading_all
  cursor,    \* _cursor: the row to go on from, 0 for None
  nextOn,    \* sensitivity of the Next button
  prevOn,    \* sensitivity of the Previous button
  grid,      \* the rows on the screen
  sent,      \* requests in flight
  sound      \* history: since the last reload sent with nothing in flight,
             \* nothing was sent with anything in flight, and no reload failed

tab  == <<filter, offset, base, loaded, more, all, cursor, nextOn, prevOn>>
vars == <<paging, tab, grid, sent, sound>>

None == [kind |-> "none"]
Loads == [kind : {"reload", "more", "all"}, filter : Filter, offset : Nat,
          cursor : Nat]

TypeOK ==
  /\ paging \in Paging
  /\ sound \in BOOLEAN
  /\ filter \in Filter
  /\ offset \in Nat /\ base \in Nat /\ loaded \in Nat /\ cursor \in Nat
  /\ more \in BOOLEAN /\ all \in BOOLEAN
  /\ nextOn \in BOOLEAN /\ prevOn \in BOOLEAN
  /\ grid \in Seq(Nat \ {0})
  /\ sent \in [Request -> Loads \cup {None}]

AtRest == \A q \in Request : sent[q] = None
NotTooFar == Len(grid) <= MaxShown /\ base + loaded <= MaxShown

-----------------------------------------------------------------------------
(***************************************************************************)
(* Connector.fetch_rows, and the loop around it that loads the rest.       *)
(***************************************************************************)
\* The rows a query leaves out: those the cursor's comparison refuses, or the
\* first o.  Rows come in order, so either way they are the first ones.
Before(f, o, c) ==
  IF c # 0 THEN Cardinality({i \in DOMAIN Rows[f] : Rows[f][i] <= c}) ELSE o

After(f, o, c) == SubSeq(Rows[f], Before(f, o, c) + 1, Len(Rows[f]))

FetchRows(f, o, c) ==
  LET rest == After(f, o, c)
  IN SubSeq(rest, 1, IF Len(rest) < PageSize THEN Len(rest) ELSE PageSize)

\* The cursor a page hands on: its last row, where it was paged by key.
CursorOf(page) == IF paging = "keyset" /\ page # <<>> THEN page[Len(page)] ELSE 0

\* The last page of a full load may be empty, and then has no cursor.
LastCursor(rows) ==
  IF Len(rows) % PageSize = 0 THEN 0 ELSE CursorOf(rows)

-----------------------------------------------------------------------------
Init ==
  /\ paging \in Paging
  /\ sound = TRUE
  /\ filter \in Filter
  /\ offset = 0 /\ base = 0 /\ loaded = 0 /\ cursor = 0
  /\ more = FALSE /\ all = FALSE
  /\ nextOn = TRUE /\ prevOn = TRUE
  /\ grid = <<>>
  /\ \E q \in Request :
       sent = [p \in Request |->
                 IF p = q THEN [kind |-> "reload", filter |-> filter,
                                offset |-> 0, cursor |-> 0]
                          ELSE None]

\* reload(): a fresh window at `o`.  What is on the screen stays there.
Reload(q, f, o) ==
  /\ sent[q] = None
  /\ filter' = f
  /\ offset' = o
  /\ base' = o
  /\ loaded' = 0
  /\ more' = FALSE
  /\ cursor' = 0
  /\ sent' = [sent EXCEPT ![q] = [kind |-> "reload", filter |-> f,
                                  offset |-> o, cursor |-> 0]]
  /\ sound' = AtRest
  /\ UNCHANGED <<all, nextOn, prevOn, grid>>

\* Filter panel, sort panel, header menu, Clear, saved filters.
ApplyFilters(q) == \E f \in Filter : Reload(q, f, 0)
Refresh(q)      == Reload(q, filter, offset)
OnNext(q)       ==
  /\ offset < MaxShown
  /\ nextOn
  /\ Reload(q, filter, offset + PageSize)
OnPrev(q)       ==
  /\ prevOn
  /\ Reload(q, filter, IF offset < PageSize THEN 0 ELSE offset - PageSize)

\* Scrolling to the bottom.
LoadMore(q) ==
  /\ NotTooFar
  /\ sent[q] = None
  /\ ~ more
  /\ nextOn
  /\ more' = TRUE
  /\ sent' = [sent EXCEPT ![q] = [kind |-> "more", filter |-> filter,
                                  offset |-> base + loaded, cursor |-> cursor]]
  /\ sound' = (sound /\ AtRest)
  /\ UNCHANGED <<filter, offset, base, loaded, all, cursor, nextOn, prevOn, grid>>

\* Mutant: the rest is loaded from the start of the window.
LoadAll_FromBase(q) ==
  /\ NotTooFar
  /\ sent[q] = None
  /\ ~ all
  /\ all' = TRUE
  /\ sent' = [sent EXCEPT ![q] = [kind |-> "all", filter |-> filter,
                                  offset |-> base, cursor |-> 0]]
  /\ sound' = (sound /\ AtRest)
  /\ UNCHANGED <<filter, offset, base, loaded, more, cursor, nextOn, prevOn, grid>>

\* Mutant: a second click is taken while the first load is running.
LoadAll_Unguarded(q) ==
  /\ NotTooFar
  /\ sent[q] = None
  /\ all' = TRUE
  /\ sent' = [sent EXCEPT ![q] = [kind |-> "all", filter |-> filter,
                                  offset |-> base + loaded, cursor |-> cursor]]
  /\ sound' = (sound /\ AtRest)
  /\ UNCHANGED <<filter, offset, base, loaded, more, cursor, nextOn, prevOn, grid>>

\* "Load all" on the chart side.
LoadAll(q) ==
  /\ NotTooFar
  /\ sent[q] = None
  /\ ~ all
  /\ all' = TRUE
  /\ sent' = [sent EXCEPT ![q] = [kind |-> "all", filter |-> filter,
                                  offset |-> base + loaded, cursor |-> cursor]]
  /\ sound' = (sound /\ AtRest)
  /\ UNCHANGED <<filter, offset, base, loaded, more, cursor, nextOn, prevOn, grid>>

Clear(q) == sent' = [sent EXCEPT ![q] = None]

\* reload's done: the page replaces the grid.
Reloaded(q) ==
  /\ sent[q].kind = "reload"
  /\ LET page == FetchRows(sent[q].filter, sent[q].offset, 0)
     IN /\ grid' = page
        /\ loaded' = Len(page)
        /\ cursor' = CursorOf(page)
        /\ nextOn' = (Len(page) = PageSize)
  /\ prevOn' = (sent[q].offset > 0)
  /\ Clear(q)
  /\ UNCHANGED <<filter, offset, base, more, all, sound>>

\* Mutant: _offset is left at the page the window began with.
LoadedMore_KeepsOffset(q) ==
  /\ sent[q].kind = "more"
  /\ more' = FALSE
  /\ LET page == FetchRows(sent[q].filter, sent[q].offset, sent[q].cursor)
     IN /\ grid' = grid \o page
        /\ loaded' = loaded + Len(page)
        /\ cursor' = CursorOf(page)
        /\ nextOn' = (Len(page) = PageSize)
  /\ Clear(q)
  /\ UNCHANGED <<filter, offset, base, all, prevOn, sound>>

\* _load_more's done: the page is appended.
LoadedMore(q) ==
  /\ sent[q].kind = "more"
  /\ more' = FALSE
  /\ LET page == FetchRows(sent[q].filter, sent[q].offset, sent[q].cursor)
     IN /\ grid' = grid \o page
        /\ loaded' = loaded + Len(page)
        /\ cursor' = CursorOf(page)
        /\ nextOn' = (Len(page) = PageSize)
  /\ offset' = sent[q].offset
  /\ Clear(q)
  /\ UNCHANGED <<filter, base, all, prevOn, sound>>

\* _load_all_for_chart's done: everything is appended, or, past the cap,
\* nothing is.
LoadedAll(q) ==
  /\ sent[q].kind = "all"
  /\ all' = FALSE
  /\ LET rest == After(sent[q].filter, sent[q].offset, sent[q].cursor)
     IN IF loaded + Len(rest) > Cap
          THEN UNCHANGED <<grid, loaded, cursor, nextOn>>
          ELSE /\ grid' = grid \o rest
               /\ loaded' = loaded + Len(rest)
               /\ cursor' = LastCursor(rest)
               /\ nextOn' = FALSE
  /\ Clear(q)
  /\ UNCHANGED <<filter, offset, base, more, prevOn, sound>>

\* Mutant: a failed scroll leaves _loading_more set.
LoadFailed_Stuck(q) ==
  /\ sent[q] # None
  /\ all' = IF sent[q].kind = "all" THEN FALSE ELSE all
  /\ Clear(q)
  /\ sound' = (sound /\ sent[q].kind # "reload")
  /\ UNCHANGED <<filter, offset, base, loaded, more, cursor, nextOn, prevOn, grid>>

\* The load raised: an error is shown, the grid is as it was.
LoadFailed(q) ==
  /\ sent[q] # None
  /\ more' = IF sent[q].kind = "more" THEN FALSE ELSE more
  /\ all' = IF sent[q].kind = "all" THEN FALSE ELSE all
  /\ Clear(q)
  /\ sound' = (sound /\ sent[q].kind # "reload")
  /\ UNCHANGED <<filter, offset, base, loaded, cursor, nextOn, prevOn, grid>>

Answer(q) == Reloaded(q) \/ LoadedMore(q) \/ LoadedAll(q) \/ LoadFailed(q)

Act(q) ==
  \/ ApplyFilters(q) \/ Refresh(q) \/ OnNext(q) \/ OnPrev(q)
  \/ LoadMore(q) \/ LoadAll(q)

Next == UNCHANGED paging /\ \E q \in Request : Act(q) \/ Answer(q)

Spec == Init /\ [][Next]_vars

-----------------------------------------------------------------------------
(***************************************************************************)
(* Properties.                                                             *)
(***************************************************************************)

\* Whatever happened before, after a reload that nothing overtook what the
\* tab shows at rest is one unbroken stretch of the rows the filter selects,
\* and it knows which: no row of another filter, none twice, none skipped.
OneWindow ==
  AtRest /\ sound =>
    /\ loaded = Len(grid)
    /\ \A i \in 1 .. loaded : /\ base + i \in DOMAIN Rows[filter]
                             /\ grid[i] = Rows[filter][base + i]

\* "The following page starts exactly after the last row shown": Next, and
\* the next scroll by key or by offset, all go on from there.
NextFollows ==
  AtRest /\ sound /\ nextOn =>
    /\ offset + PageSize = base + loaded
    /\ FetchRows(filter, base + loaded, cursor) =
         FetchRows(filter, offset + PageSize, 0)

\* A tab at rest is not stuck loading: scrolling and "load all" work again.
NotStuck == AtRest => ~ more /\ ~ all

\* At most one "load all" runs at a time, whatever reloads happen meanwhile.
OneLoadAll ==
  \A p, q \in Request : sent[p].kind = "all" /\ sent[q].kind = "all" => p = q
=============================================================================
