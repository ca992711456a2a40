------------------------------ MODULE WindowTabs ------------------------------
(* The tabs of a workspace's window (frontend/window.py): opening and        *)
(* focusing them, moving them out into windows of their own and back,        *)
(* closing them one by one or all of a connection, closing the window, the   *)
(* workspace file they are saved to and restored from, and the transactions  *)
(* of their connections, which closing a console must not leave behind.      *)
(*                                                                           *)
(* A step is a handler of the main loop, or what a worker does.  Both docked *)
(* panes count as one place: a split is never saved.  An "object" tab stands *)
(* for the kinds there is one of per object (table, monitor, users...), a    *)
(* "tool" tab for those that are not saved (backups, history).  Adding and   *)
(* removing connections is in Connectors.                                    *)
EXTENDS Integers, FiniteSets

CONSTANTS
  Profile,     \* the workspace's connections: profile objects, edited in place
  Name,        \* names a connection may have
  NoName,
  Tab,         \* the widgets tabs are made of
  MaxRenames,  \* bounds: connections renamed,
  MaxBegins,   \* transactions begun,
  MaxJobs      \* and rollbacks in flight on a connection

\* What the constants are, assumed where the module is instantiated.
TabsAssumption ==
  /\ NoName \notin Name
  /\ IsFiniteSet(Tab)
  /\ MaxRenames \in Nat /\ MaxBegins \in Nat /\ MaxJobs \in Nat

VARIABLES
  name,     \* the profiles' names, all different
  tab,      \* the open tabs, each a record (Card)
  related,  \* {}, or the confirmation of Close all related tabs
  window,   \* "open", "asking", "leaving" or "closed"
  leaving,  \* the names the confirmed close still rolls back
  file,     \* the tabs in the workspace file
  txn,      \* names whose session has a transaction open
  begins,   \* BEGINs on their way: pairs of a tab and a profile
  rolling,  \* rollbacks on their way, for each name
  renames, begun,
  \* history: the saved tabs there were when the window went, those of them
  \* in pop-outs when it was closed rather than killed, whether a name in the
  \* file was stale by then; and the names with a transaction that outlived
  \* its console in one of the ways OpenIsVisible excuses
  was, gone, stale, excused

vars == <<name, tab, related, window, leaving, file, txn, begins, rolling,
          renames, begun, was, gone, stale, excused>>

Kind == {"object", "console", "tool"}
Card == [kind : Kind, prof : Profile, key : Name \cup {NoName}, out : BOOLEAN,
         dirty : BOOLEAN, asked : Name \cup {NoName}]

Open == DOMAIN tab
Conn(t) == name[tab[t].prof]

\* tab_state() of every tab in every pane, pop-outs included.
Entry(cards, t) == [tab |-> t, kind |-> cards[t].kind, conn |-> name[cards[t].prof]]
Entries_Docked(cards) ==
  {Entry(cards, t) : t \in {u \in DOMAIN cards : cards[u].kind # "tool" /\ ~ cards[u].out}}
Entries(cards) == {Entry(cards, t) : t \in {u \in DOMAIN cards : cards[u].kind # "tool"}}

\* What a restart should bring back: which object, which console.
Held(cards) ==
  {<<cards[t].kind, cards[t].prof, IF cards[t].kind = "console" THEN {t} ELSE {}>> :
     t \in {u \in DOMAIN cards : cards[u].kind # "tool"}}

SaveState(cards) == file' = Entries(cards) /\ stale' = FALSE
NotSaved  == UNCHANGED <<file, stale>>

Init ==
  /\ name \in [Profile -> Name]
  /\ \A p, q \in Profile : name[p] = name[q] => p = q
  /\ tab = [t \in {} |-> t] /\ related = {} /\ window = "open" /\ leaving = {}
  /\ file = {} /\ txn = {} /\ begins = {} /\ rolling = [n \in Name |-> 0]
  /\ renames = 0 /\ begun = 0
  /\ was = {} /\ gone = {} /\ stale = FALSE /\ excused = {}

\* The main window takes input unless a dialog covers it, and every dialog is
\* presented on it; a pop-out always does.
MainAwake == /\ window \in {"open", "leaving"} /\ related = {}
             /\ \A t \in Open : tab[t].asked = NoName
Awake(t)  == MainAwake \/ (window # "closed" /\ tab[t].out)

\* A widget not in use: nothing still speaks of it.
Unused(t) ==
  /\ t \notin Open
  /\ \A b \in begins : b[1] # t
  /\ \A r \in related : t \notin DOMAIN r.pages

-----------------------------------------------------------------------------
(* Opening, focusing, moving.                                              *)

Others == UNCHANGED <<name, related, window, leaving, txn, begins, rolling,
                      renames, begun, was, gone, excused>>

WithTab(t, card) == [u \in Open \cup {t} |-> IF u = t THEN card ELSE tab[u]]

\* _append_tab, then _place_new_page with Shift held or Open (Window).
Append(t, k, p, key, out) ==
  /\ Unused(t)
  /\ tab' = WithTab(t, [kind |-> k, prof |-> p, key |-> key, out |-> out,
                        dirty |-> FALSE, asked |-> NoName])
  /\ SaveState(tab') /\ Others

\* open_table, open_monitor and the like: _focus_tab goes by the name the
\* connection had when the tab was opened.  With no tab of that key a new one
\* is made; with one, Open (Window) moves it out and a plain open shows it.
Keyed(k, key) == {t \in Open : tab[t].kind = k /\ tab[t].key = key}

OpenObject(t, p, out) ==
  /\ MainAwake /\ Keyed("object", name[p]) = {}
  /\ Append(t, "object", p, name[p], out)

OpenTool(t, p, out) ==
  /\ MainAwake /\ Keyed("tool", NoName) = {}
  /\ Append(t, "tool", p, NoName, out)

NewConsole(t, p, out) == MainAwake /\ Append(t, "console", p, NoName, out)

\* Move to New Window, Open (Window) on an open tab, Move Back, a drag.
\* A tab whose close is being asked about stays where it is.
Move(t) ==
  /\ Awake(t) /\ tab[t].asked = NoName
  /\ tab' = [tab EXCEPT ![t].out = ~ @]
  /\ SaveState(tab') /\ Others

\* Typing in a console or a grid: nothing is saved.
Type(t) ==
  /\ Awake(t) /\ tab[t].kind # "tool"
  /\ tab' = [tab EXCEPT ![t].dirty = TRUE]
  /\ NotSaved /\ Others

\* The console's dropdown: on_connection_changed saves.  A transaction left
\* behind is not asked about.
Switch(t, p) ==
  /\ Awake(t) /\ tab[t].kind = "console" /\ p # tab[t].prof
  /\ tab' = [tab EXCEPT ![t].prof = p]
  /\ excused' = excused \cup (txn \cap {Conn(t)})
  /\ SaveState(tab')
  /\ UNCHANGED <<name, related, window, leaving, txn, begins, rolling, renames,
                 begun, was, gone>>

\* _connection_edited: the profile is changed in place, the workspace saved
\* with the tabs it has recorded, the connector under the old name dropped.
\* Tabs keep their keys.  The dropdown of a console on it changes its item,
\* which saves the tabs as they are now.
Rename(p, n) ==
  /\ MainAwake /\ renames < MaxRenames
  /\ \A q \in Profile : name[q] # n
  /\ name' = [name EXCEPT ![p] = n]
  /\ IF \E t \in Open : tab[t].kind = "console" /\ tab[t].prof = p
     THEN file' = {[e EXCEPT !.conn = name'[tab[e.tab].prof]] : e \in Entries(tab)}
          /\ stale' = FALSE
     ELSE stale' = (stale \/ \E e \in file : e.conn = name[p]) /\ UNCHANGED file
  /\ txn' = txn \ {name[p]} /\ excused' = excused \ {name[p]}
  /\ renames' = renames + 1
  /\ UNCHANGED <<tab, related, window, leaving, begins, rolling, begun, was, gone>>

-----------------------------------------------------------------------------
(* Transactions.  The session of a name is every tab's on that name.       *)

Sessions == UNCHANGED <<name, tab, related, window, file, renames, was, gone, stale>>

Begin(t) ==
  /\ Awake(t) /\ tab[t].kind = "console" /\ begun < MaxBegins
  /\ begins' = begins \cup {<<t, tab[t].prof>>} /\ begun' = begun + 1
  /\ UNCHANGED <<leaving, txn, rolling, excused>> /\ Sessions

\* The worker's BEGIN, which looks its session up now, or fails.
BeginRuns(b) ==
  /\ begins' = begins \ {b}
  /\ txn' = txn \cup {name[b[2]]}
  /\ excused' =
       IF name[b[2]] \in txn \/ (b[1] \in Open /\ tab[b[1]].prof = b[2])
       THEN excused ELSE excused \cup {name[b[2]]}
  /\ UNCHANGED <<leaving, rolling, begun>> /\ Sessions

BeginFails(b) ==
  /\ begins' = begins \ {b}
  /\ UNCHANGED <<leaving, txn, rolling, begun, excused>> /\ Sessions

\* Commit or Rollback in a console.
End(t) ==
  /\ Awake(t) /\ tab[t].kind = "console" /\ Conn(t) \in txn
  /\ txn' = txn \ {Conn(t)} /\ excused' = excused \ {Conn(t)}
  /\ UNCHANGED <<leaving, begins, rolling, begun>> /\ Sessions

\* _rollback_connections of a closed console.
RollBack(n) ==
  /\ rolling[n] > 0
  /\ rolling' = [rolling EXCEPT ![n] = @ - 1]
  /\ \/ txn' = txn \ {n} /\ excused' = excused \ {n}
     \/ txn' = txn /\ excused' = excused \cup (txn \cap {n})  \* refused
  /\ UNCHANGED <<leaving, begins, begun>> /\ Sessions

-----------------------------------------------------------------------------
(* Closing tabs.                                                           *)

\* open_transaction_connection: the console's connection, if its session has
\* a transaction open, whichever console began it.
Guard_Dirty(t) ==
  IF tab[t].kind = "console" /\ Conn(t) \in txn /\ tab[t].dirty THEN Conn(t) ELSE NoName
Guard(t) == IF tab[t].kind = "console" /\ Conn(t) \in txn THEN Conn(t) ELSE NoName

\* close_page on each of a set of tabs: _on_close_page holds back a console
\* whose connection has a transaction open, unless all tabs of that
\* connection are closing (c).  A page that is being asked about is skipped.
CloseEach(S, c) ==
  LET asks == {t \in S : Guard(t) \notin {NoName, c}}
      ends == {t \in S : Guard(t) = c /\ c # NoName}
  IN  /\ \A n \in Name : n = c => rolling[n] + Cardinality(ends) <= MaxJobs
      /\ tab' = [t \in Open \ (S \ asks) |->
                   IF t \in asks THEN [tab[t] EXCEPT !.asked = Guard(t)] ELSE tab[t]]
      /\ rolling' = [n \in Name |->
                       IF n = c THEN rolling[n] + Cardinality(ends) ELSE rolling[n]]
      /\ IF S = asks THEN NotSaved ELSE SaveState(tab')

Closable == {t \in Open : tab[t].asked = NoName}

\* A tab's close button, the tab menu's three bulk closes, Close All Tabs, a
\* pop-out's own close button.
ClosePages(S) ==
  /\ S # {} /\ \A t \in S : Awake(t)
  /\ CloseEach(S, NoName)
  /\ UNCHANGED <<name, related, window, leaving, txn, begins, renames, begun,
                 was, gone, excused>>

\* The answer to "Close the console anyway and roll it back?": it rolls back
\* the connection the console was on when it was asked.
Respond(t) ==
  LET n == tab[t].asked
  IN  /\ n # NoName
      /\ \/ /\ tab' = [tab EXCEPT ![t].asked = NoName]
            /\ NotSaved /\ UNCHANGED <<rolling, excused>>
         \/ /\ rolling[n] < MaxJobs
            /\ rolling' = [rolling EXCEPT ![n] = @ + 1]
            /\ tab' = [u \in Open \ {t} |-> tab[u]] /\ SaveState(tab')
            /\ excused' = excused \cup (txn \cap ({Conn(t)} \ {n}))
      /\ UNCHANGED <<name, related, window, leaving, txn, begins, renames, begun,
                     was, gone>>

\* Close all related tabs: at once, or after one confirmation that lists the
\* tabs with work never written.
Related(p) == {t \in Open : Conn(t) = name[p]}

CloseRelated(p) ==
  /\ MainAwake /\ related = {} /\ Related(p) # {}
  /\ IF \E t \in Related(p) : tab[t].dirty
     THEN /\ related' = {[prof |-> p, pages |-> [t \in Related(p) |-> tab[t].out]]}
          /\ NotSaved /\ UNCHANGED <<tab, rolling>>
     ELSE /\ CloseEach(Related(p) \cap Closable, name[p]) /\ UNCHANGED related
  /\ UNCHANGED <<name, window, leaving, txn, begins, renames, begun, was, gone, excused>>

\* Cancel, or Save or Discard: the pages found then are closed, each in the
\* pane it was found in.
RespondRelated ==
  /\ window # "closed"
  /\ \E r \in related :
       \/ NotSaved /\ UNCHANGED <<tab, rolling>>
       \/ CloseEach({t \in DOMAIN r.pages \cap Closable : tab[t].out = r.pages[t]},
                    name[r.prof])
  /\ related' = {}
  /\ UNCHANGED <<name, window, leaving, txn, begins, renames, begun, was, gone, excused>>

-----------------------------------------------------------------------------
(* The window: closing it, losing it, opening it again.                    *)

RequestClose ==
  /\ window = "open" /\ window' = "asking" /\ SaveState(tab)
  /\ UNCHANGED <<name, tab, related, leaving, txn, begins, rolling, renames,
                 begun, was, gone, excused>>

KeepOpen ==
  /\ window = "asking" /\ window' = "open"
  /\ UNCHANGED <<name, tab, related, leaving, file, txn, begins, rolling,
                 renames, begun, was, gone, stale, excused>>

\* What is left when the process has gone.
Gone ==
  /\ window' = "closed" /\ was' = Held(tab)
  /\ tab' = [t \in {} |-> t] /\ related' = {} /\ leaving' = {} /\ txn' = {}
  /\ begins' = {} /\ rolling' = [n \in Name |-> 0] /\ excused' = {}
  /\ UNCHANGED <<name, renames, begun>>

\* finish(): pop-outs are dropped from the list and destroyed, and the
\* close-request that follows saves the tabs of the panes that are left.
Finish ==
  /\ Gone
  /\ file' = Entries([t \in {u \in Open : ~ tab[u].out} |-> tab[t]]) /\ stale' = FALSE
  /\ gone' = Held(tab) \ Held([t \in {u \in Open : ~ tab[u].out} |-> tab[t]])

Confirm ==
  /\ window = "asking"
  /\ IF txn = {} THEN Finish
     ELSE /\ window' = "leaving" /\ leaving' = txn
          /\ UNCHANGED <<name, tab, related, file, txn, begins, rolling, renames,
                         begun, was, gone, stale, excused>>

\* The worker rolls the sessions back one by one; the first that refuses ends
\* it, and the window closes all the same.
LeaveNext(n) ==
  /\ window = "leaving" /\ n \in leaving
  /\ txn' = txn \ {n} /\ excused' = excused \ {n} /\ leaving' = leaving \ {n}
  /\ UNCHANGED <<begins, rolling, begun>> /\ Sessions

Leave == window = "leaving" /\ Finish

Die ==
  /\ window # "closed" /\ Gone /\ gone' = {} /\ UNCHANGED <<file, stale>>

\* _restore_tabs: an object whose connection is not there is left out, and one
\* that is open already is only focused, so that each key has one tab; a
\* console comes back in any case, on the first connection there is.
Found(e)     == e.kind = "console" \/ \E p \in Profile : name[p] = e.conn
SameKey(d, e) == d = e \/ (d.kind = "object" /\ e.kind = "object" /\ d.conn = e.conn)

Restored(e, first) ==
  [kind |-> e.kind,
   prof |-> IF \E p \in Profile : name[p] = e.conn
            THEN CHOOSE p \in Profile : name[p] = e.conn ELSE first,
   key  |-> IF e.kind = "object" THEN e.conn ELSE NoName,
   out  |-> FALSE, dirty |-> FALSE, asked |-> NoName]

Start ==
  /\ window = "closed" /\ window' = "open"
  /\ \E S \in SUBSET {e \in file : Found(e)}, first \in Profile :
       /\ \A e \in file : Found(e) => \E d \in S : SameKey(d, e)
       /\ \A d, e \in S : SameKey(d, e) => d = e
       /\ tab' = [t \in {e.tab : e \in S} |->
                   Restored(CHOOSE e \in S : e.tab = t, first)]
  /\ was' = {} /\ gone' = {}
  /\ UNCHANGED <<name, related, leaving, file, txn, begins, rolling, renames,
                 begun, stale, excused>>

-----------------------------------------------------------------------------
Next ==
  \/ \E t \in Tab, p \in Profile, out \in BOOLEAN :
       OpenObject(t, p, out) \/ OpenTool(t, p, out) \/ NewConsole(t, p, out)
  \/ \E t \in Open : Move(t) \/ Type(t) \/ Begin(t) \/ End(t) \/ Respond(t)
  \/ \E t \in Open, p \in Profile : Switch(t, p)
  \/ \E p \in Profile, n \in Name : Rename(p, n)
  \/ \E b \in begins : BeginRuns(b) \/ BeginFails(b)
  \/ \E n \in Name : RollBack(n) \/ LeaveNext(n)
  \/ \E S \in SUBSET Closable : ClosePages(S)
  \/ \E p \in Profile : CloseRelated(p)
  \/ RespondRelated \/ RequestClose \/ KeepOpen \/ Confirm \/ Leave \/ Die \/ Start

Spec == Init /\ [][Next]_vars

-----------------------------------------------------------------------------
TypeOK ==
  /\ name \in [Profile -> Name] /\ Open \subseteq Tab /\ tab \in [Open -> Card]
  /\ window \in {"open", "asking", "leaving", "closed"}
  /\ leaving \subseteq Name /\ txn \subseteq Name /\ excused \subseteq Name
  /\ begins \subseteq Tab \X Profile /\ rolling \in [Name -> Nat]
  /\ file \subseteq [tab : Tab, kind : {"object", "console"}, conn : Name]
  /\ stale \in BOOLEAN /\ renames \in Nat /\ begun \in Nat

\* A window that is opened again shows the tabs there were when it went,
\* closed or killed: every move, close, switch and restore leaves a file that
\* says so.  Apart from two things the code does lose, whatever "on reopen
\* every tab is restored into the main window" (window.py:63-64) says: the
\* tabs in pop-outs when the window is closed (gone), and what the file has
\* under a name its connection no longer has when the process dies (stale).
ReopensAsLeft ==
  [][window = "closed" /\ window' = "open" /\ ~ stale => Held(tab') = was \ gone]_vars

\* A transaction that is open is in front of somebody: a console is on its
\* connection, or the rollback of one that was is on its way, however tabs are
\* closed.  Except where the console was switched to another connection (also
\* while it was asked about, in a pop-out), was closed before its BEGIN ran,
\* or its rollback was refused (excused).
OpenIsVisible ==
  \A n \in txn \ excused :
    \/ \E t \in Open : tab[t].kind = "console" /\ Conn(t) = n
    \/ rolling[n] > 0
    \/ n \in leaving
=============================================================================
