---------------------------- MODULE DashboardTab ----------------------------
(***************************************************************************)
(* An open dashboard (frontend/dashboard_tab.py) over its TOML file        *)
(* (backend/dashboards.py): cells that name saved queries, one sweep at a  *)
(* time over the dashboard's own connection, and what changes under it:    *)
(* the layout, the saved queries, the file.                                *)
(***************************************************************************)
EXTENDS Naturals, Sequences, SequencesExt

CONSTANTS
  Query,      \* names of saved queries
  MaxCells,   \* bound: cells of the dashboard
  MaxText,    \* bound: times a saved query is written anew
  MaxHand     \* bound: edits of the file by hand

\* What the constants are, assumed where the module is instantiated.
DashboardAssumption ==
  MaxCells \in Nat /\ MaxText \in Nat /\ MaxHand \in Nat

VARIABLES
  board,    \* Dashboard: its cells' queries in order, its interval
  file,     \* the same, on disk
  changed,  \* the file was edited by hand and the watcher has not seen it
  hand,     \* how often that happened
  text,     \* saved queries: the version of the SQL, or Gone
  card,     \* the cells on the grid: the query bound, what is shown
  sweep,    \* the worker: what it has to run, what it has answered
  current,  \* the sweep's generation is the tab's
  running, timer, paused, closed,
  conn      \* the connection: opening, ready, held, closing, closed, failed

vars == <<board, file, changed, hand, text, card, sweep, current, running,
          timer, paused, closed, conn>>

Gone       == MaxText + 1
Cells      == UNION {[1 .. n -> Query] : n \in 0 .. MaxCells}
Definition == [cells : Cells, interval : {0, 1}]
Sql        == [query : Query, text : 0 .. MaxText]
Nothing    == [kind |-> "never"]
Refreshing == [kind |-> "refreshing"]
Problem    == [kind |-> "problem"]
Message    == [kind |-> "message"]   \* the statement failed
Drawn(sql) == [kind |-> "drawn", sql |-> sql]
Shown      == {Nothing, Refreshing, Problem, Message} \cup
              [kind : {"drawn"}, sql : Sql]
Card       == [query : Query, text : 0 .. Gone, shown : Shown]

\* The types, and: there is a card for each cell.
TypeOK ==
  /\ board \in Definition /\ file \in Definition
  /\ {changed, current, running, timer, paused, closed} \subseteq BOOLEAN
  /\ hand \in 0 .. MaxHand
  /\ text \in [Query -> 0 .. Gone]
  /\ \A i \in DOMAIN card : card[i] \in Card
  /\ Len(card) = Len(board.cells)
  /\ DOMAIN sweep = {"todo", "told"}
  /\ sweep.todo \subseteq [at : 1 .. MaxCells, sql : Sql]
  /\ sweep.told \subseteq [at : 1 .. MaxCells, sql : Sql, ok : BOOLEAN]
  /\ conn \in {"opening", "ready", "refused", "held", "closing", "closed",
               "failed"}

-----------------------------------------------------------------------------
\* bind(): a cell whose query is gone says so.
Bound(cells) ==
  [i \in DOMAIN cells |->
     [query |-> cells[i], text |-> text'[cells[i]],
      shown |-> IF text'[cells[i]] = Gone THEN Problem ELSE Nothing]]

\* _rebuild(): new cards, and what the sweep brings is not for them.
Rebuild == card' = Bound(board'.cells)

\* The cells a refresh will run, one after the other: all, or one.
Plan(cards, only) ==
  {[at |-> i, sql |-> [query |-> cards[i].query, text |-> cards[i].text]] :
     i \in {i \in only : cards[i].text # Gone}}
IsNext(r, cells) == r \in cells /\ \A s \in cells : r.at <= s.at
NoSweep == [todo |-> {}, told |-> {}]

Marked(cards, only) ==
  [i \in DOMAIN cards |->
     IF i \notin only THEN cards[i]
     ELSE [cards[i] EXCEPT !.shown = IF cards[i].text = Gone THEN Problem
                                     ELSE Refreshing]]

\* refresh_now() on these cards; nothing while a sweep is running.
RefreshOf(cards, only) ==
  LET plan == Plan(cards, only)
  IN  IF conn # "held" \/ closed \/ running
      THEN card' = cards /\ UNCHANGED <<sweep, running>>
      ELSE /\ card' = Marked(cards, only)
           /\ running' = (plan # {})
           /\ sweep' = [todo |-> plan, told |-> {}]

All(cards) == DOMAIN cards

Init ==
  /\ board \in {[cells |-> c, interval |-> 0] : c \in {<<>>} \cup [1 .. 1 -> Query]}
  /\ file = board /\ changed = FALSE /\ hand = 0
  /\ text = [q \in Query |-> 0]
  /\ card = [i \in DOMAIN board.cells |->
               [query |-> board.cells[i], text |-> 0, shown |-> Nothing]]
  /\ sweep = NoSweep
  /\ current = FALSE /\ running = FALSE /\ timer = FALSE
  /\ paused = FALSE /\ closed = FALSE /\ conn = "opening"

-----------------------------------------------------------------------------
(***************************************************************************)
(* The connection and the timer.                                           *)
(***************************************************************************)

StartTimer == timer' = (board.interval > 0 /\ ~paused /\ ~closed)

Connect ==
  /\ conn = "opening"
  /\ conn' \in {"ready", "refused"}
  /\ UNCHANGED <<board, file, changed, hand, text, card, sweep, current,
                 running, timer, paused, closed>>

\* Mutant: a tab closed meanwhile keeps the connection.
Opened_WhenClosed ==
  /\ conn = "ready"
  /\ conn' = "held"
  /\ UNCHANGED <<timer, card, sweep, running, current>>
  /\ UNCHANGED <<board, file, changed, hand, text, paused, closed>>

Opened ==
  /\ conn = "ready"
  /\ IF closed
     THEN /\ conn' = "closing"
          /\ UNCHANGED <<timer, card, sweep, running, current>>
     ELSE /\ conn' = "held"
          /\ StartTimer
          /\ running' = (Plan(card, All(card)) # {})
          /\ sweep' = [todo |-> Plan(card, All(card)), told |-> {}]
          /\ card' = Marked(card, All(card))
          /\ current' = TRUE
  /\ UNCHANGED <<board, file, changed, hand, text, paused, closed>>

\* _fail(): the message stands in every cell.
Refused ==
  /\ conn = "refused"
  /\ conn' = "failed"
  /\ card' = [i \in DOMAIN card |-> [card[i] EXCEPT !.shown = Message]]
  /\ UNCHANGED <<board, file, changed, hand, text, sweep, current, running,
                 timer, paused, closed>>

Shutdown ==
  /\ ~closed
  /\ closed' = TRUE /\ timer' = FALSE
  /\ conn' = IF conn = "held" THEN "closing" ELSE conn
  /\ UNCHANGED <<board, file, changed, hand, text, card, sweep, current,
                 running, paused>>

Close ==
  /\ conn = "closing"
  /\ conn' = "closed"
  /\ UNCHANGED <<board, file, changed, hand, text, card, sweep, current,
                 running, timer, paused, closed>>

-----------------------------------------------------------------------------
(***************************************************************************)
(* Refreshing.                                                             *)
(***************************************************************************)

Refresh(only) ==
  /\ ~closed
  /\ RefreshOf(card, only)
  /\ current' = IF running THEN current ELSE TRUE
  /\ UNCHANGED <<board, file, changed, hand, text, timer, paused, closed,
                 conn>>

Tick ==
  /\ timer
  /\ RefreshOf(card, All(card))
  /\ current' = IF running THEN current ELSE TRUE
  /\ UNCHANGED <<board, file, changed, hand, text, timer, paused, closed,
                 conn>>

\* The worker runs the next statement; one that raises is told and passed.
RunCell ==
  \E r \in sweep.todo, ok \in BOOLEAN :
    /\ IsNext(r, sweep.todo)
    /\ ok => conn \in {"held", "closing"}
    /\ sweep' = [todo |-> sweep.todo \ {r},
                 told |-> sweep.told \cup {[at |-> r.at, sql |-> r.sql, ok |-> ok]}]
    /\ UNCHANGED <<board, file, changed, hand, text, card, current, running,
                   timer, paused, closed, conn>>

Told(r) ==
  /\ IsNext(r, sweep.told)
  /\ sweep' = [sweep EXCEPT !.told = @ \ {r}]
  /\ UNCHANGED <<board, file, changed, hand, text, current, running, timer,
                 paused, closed, conn>>

\* Mutant: the generation is not looked at.
CellTold_AnyGeneration(r) ==
  /\ Told(r)
  /\ card' = IF closed \/ r.at \notin DOMAIN card THEN card
             ELSE [card EXCEPT ![r.at].shown =
                     IF r.ok THEN Drawn(r.sql) ELSE Message]

\* Mutant: a cell that fails is not told.
CellTold_FailureSilent(r) ==
  /\ Told(r)
  /\ card' = IF closed \/ ~current \/ r.at \notin DOMAIN card \/ ~r.ok THEN card
             ELSE [card EXCEPT ![r.at].shown = Drawn(r.sql)]

\* _cell_done() and _cell_failed().
CellTold(r) ==
  /\ Told(r)
  /\ card' = IF closed \/ ~current \/ r.at \notin DOMAIN card THEN card
             ELSE [card EXCEPT ![r.at].shown =
                     IF r.ok THEN Drawn(r.sql) ELSE Message]

SweepDone ==
  /\ running /\ sweep = NoSweep
  /\ running' = FALSE
  /\ UNCHANGED <<board, file, changed, hand, text, card, sweep, current,
                 timer, paused, closed, conn>>

TogglePause ==
  /\ ~closed
  /\ paused' = ~paused
  /\ IF paused
     THEN /\ timer' = (board.interval > 0)
          /\ RefreshOf(card, All(card))
          /\ current' = IF running THEN current ELSE TRUE
     ELSE timer' = FALSE /\ UNCHANGED <<card, sweep, running, current>>
  /\ UNCHANGED <<board, file, changed, hand, text, closed, conn>>

-----------------------------------------------------------------------------
(***************************************************************************)
(* Editing: every edit is written at once, over what is there.             *)
(***************************************************************************)

Persist == file' = board' /\ changed' = FALSE

IntervalChanged ==
  /\ ~closed
  /\ board' = [board EXCEPT !.interval = 1 - @]
  /\ Persist
  /\ timer' = IF paused THEN timer ELSE board'.interval > 0
  /\ UNCHANGED <<hand, text, card, sweep, current, running, paused, closed,
                 conn>>

\* What Resize, Move and Add do with the cells; the grid is laid out anew and
\* every cell refreshed, unless a sweep is running.
Edits(cells) ==
  {cells} \cup {Append(cells, q) : q \in Query \ ToSet(cells)}
          \cup {[cells EXCEPT ![i] = cells[i + 1], ![i + 1] = cells[i]] :
                 i \in 1 .. Len(cells) - 1}

EditCells ==
  /\ ~closed
  /\ \E c \in Edits(board.cells) :
       /\ Len(c) \in 1 .. MaxCells
       /\ board' = [board EXCEPT !.cells = c]
  /\ Persist
  /\ UNCHANGED text
  /\ RefreshOf(Bound(board'.cells), All(board'.cells))
  /\ current' = ~running
  /\ UNCHANGED <<hand, timer, paused, closed, conn>>

\* Mutant: the cell goes from the grid, not from the file.
RemoveCell_NotSaved(i) ==
  /\ ~closed
  /\ board' = [board EXCEPT !.cells = RemoveAt(@, i)]
  /\ UNCHANGED <<file, changed, text>>
  /\ Rebuild
  /\ current' = FALSE
  /\ UNCHANGED <<hand, sweep, running, timer, paused, closed, conn>>

RemoveCell(i) ==
  /\ ~closed
  /\ board' = [board EXCEPT !.cells = RemoveAt(@, i)]
  /\ Persist
  /\ UNCHANGED text
  /\ Rebuild
  /\ current' = FALSE
  /\ UNCHANGED <<hand, sweep, running, timer, paused, closed, conn>>

\* A saved query is written anew, or removed, in any window.
QueriesChanged(q) ==
  /\ ~closed /\ text[q] # Gone
  /\ text' = [text EXCEPT ![q] = @ + 1]
  /\ UNCHANGED board
  /\ RefreshOf(Bound(board.cells), All(board.cells))
  /\ current' = ~running
  /\ UNCHANGED <<file, changed, hand, timer, paused, closed, conn>>

\* The file is edited by hand; the watcher sees it at its next poll, unless
\* the tab has written over it by then.
HandEdit ==
  /\ ~closed /\ hand < MaxHand
  /\ file' \in Definition \ {file}
  /\ hand' = hand + 1 /\ changed' = TRUE
  /\ UNCHANGED <<board, text, card, sweep, current, running, timer, paused,
                 closed, conn>>

\* _on_store_changed(): a definition read anew is adopted and laid out.
Poll ==
  /\ changed /\ ~closed
  /\ changed' = FALSE
  /\ board' = file
  /\ UNCHANGED text
  /\ Rebuild
  /\ current' = FALSE
  /\ UNCHANGED <<file, hand, sweep, running, timer, paused, closed, conn>>

Next ==
  \/ Connect \/ Opened \/ Refused \/ Shutdown \/ Close
  \/ Refresh(All(card)) \/ \E i \in DOMAIN card : Refresh({i})
  \/ Tick \/ RunCell \/ SweepDone \/ TogglePause
  \/ \E r \in sweep.told : CellTold(r)
  \/ IntervalChanged \/ EditCells
  \/ \E i \in DOMAIN card : RemoveCell(i)
  \/ \E q \in Query : QueriesChanged(q)
  \/ HandEdit \/ Poll

Spec == Init /\ [][Next]_vars

-----------------------------------------------------------------------------
\* What a cell draws is the answer to the statement it is bound to now,
\* however the cells and the saved queries changed while the sweep ran.
DrawnIsOwn ==
  \A i \in DOMAIN card :
    card[i].shown.kind = "drawn" =>
      card[i].shown.sql = [query |-> card[i].query, text |-> card[i].text]

\* A cell says it is refreshing only while the sweep has still to tell it.
RefreshingEnds ==
  ~closed => \A i \in DOMAIN card :
    card[i].shown = Refreshing =>
      \E r \in sweep.todo \cup sweep.told : r.at = i

\* Every edit is on disk at once, an edit by hand not yet seen apart.
FileIsBoard == ~changed => file = board

\* A closed tab holds no connection once its opening is over, and its timer
\* is stopped; a paused one does not poll, nor one with interval 0 unless
\* the file was edited by hand.
NobodyLooks ==
  /\ closed => conn # "held" /\ ~timer
  /\ timer => ~paused /\ (board.interval > 0 \/ hand > 0)
=============================================================================
