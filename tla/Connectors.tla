----------------------------- MODULE Connectors -----------------------------
(***************************************************************************)
(* The pool of open connectors of a window (frontend/window.py): opening   *)
(* one on demand, disconnecting, and editing or removing a connection      *)
(* under the tabs that use it.                                             *)
(*                                                                         *)
(* The pool is keyed by the profile's name.  A tab on another database of  *)
(* the same server works on a copy of the profile with a name of its own   *)
(* (a "derived" profile: sidebar.database_profile, the console's           *)
(* _active_profile), and so has a connector of its own.                    *)
(* Worker threads hold the pool's lock while they connect; the main loop   *)
(* takes it to drop an entry, and waits for it.  What a worker has to tell *)
(* the main loop is posted with GLib.idle_add.                             *)
(***************************************************************************)
EXTENDS Naturals, Sequences, FiniteSets

CONSTANTS
  Profile,       \* connections the workspace has or is given later
  Initial,       \* those it has at first
  Name,          \* names of connections
  Tab,           \* tabs, each with at most one worker at a time
  MaxEdits,      \* bound: edits of one connection
  MaxSessions    \* bound: sessions opened in all

Unnamed == "unnamed"
Nobody  == "nobody"

ASSUME PoolAssumption ==
  /\ Initial \subseteq Profile /\ Profile # {}
  /\ Unnamed \notin Name /\ Nobody \notin Tab
  /\ MaxEdits \in Nat /\ MaxSessions \in Nat

VARIABLES
  name,      \* a profile's name; Unnamed: not added yet
  version,   \* its connection details, by number of edits
  live,      \* workspace.connections
  tab,       \* what each tab is on, and where its worker is
  pool,      \* _connectors, by key; 0: absent
  session,   \* every session ever opened
  lock,      \* holder of _connectors_lock, or Nobody
  ui,        \* the main loop: free, or waiting to drop an old name
  posted,    \* set_connected(name, True) waiting for the main loop
  dot,       \* the sidebar's status dot, by name
  tainted,   \* history: names whose entry was stored by a worker whose
             \* profile was renamed or removed since it asked
  crossed    \* history: names dropped while set_connected was posted

vars == <<name, version, live, tab, pool, session, lock, ui, posted, dot,
          tainted, crossed>>

Free     == [pc |-> "free"]
NoTab    == [pc |-> "closed"]
Sessions == 1 .. MaxSessions
Kinds    == {"own", "derived"}
Key      == Name \X Kinds

TypeOK ==
  /\ name \in [Profile -> Name \cup {Unnamed}]
  /\ version \in [Profile -> 0 .. MaxEdits]
  /\ live \subseteq Profile
  /\ tab \in [Tab -> {NoTab} \cup
       [pc : {"idle", "ask", "connect"}, on : Profile, kind : Kinds,
        name : Name, version : 0 .. MaxEdits, renamed : BOOLEAN]]
  /\ pool \in [Key -> 0 .. MaxSessions]
  /\ session \in [Sessions ->
       [st : {"unused", "open", "closing", "closed"}, of : Profile,
        version : 0 .. MaxEdits]]
  /\ lock \in Tab \cup {Nobody}
  /\ ui \in {Free} \cup [pc : {"drop"}, old : Name, on : Profile]
  /\ posted \in Seq(Name)
  /\ dot \in [Name -> BOOLEAN]
  /\ tainted \subseteq Name
  /\ crossed \subseteq Name

Init ==
  /\ name \in [Profile -> Name \cup {Unnamed}]
  /\ \A p \in Profile : name[p] = Unnamed <=> p \notin Initial
  /\ \A p, q \in Initial : name[p] = name[q] => p = q
  /\ version = [p \in Profile |-> 0]
  /\ live = Initial
  /\ tab = [t \in Tab |-> NoTab]
  /\ pool = [k \in Key |-> 0]
  /\ session = [i \in Sessions |->
       [st |-> "unused", of |-> CHOOSE p \in Profile : TRUE, version |-> 0]]
  /\ lock = Nobody
  /\ ui = Free
  /\ posted = <<>>
  /\ dot = [n \in Name |-> FALSE]
  /\ tainted = {}
  /\ crossed = {}

-----------------------------------------------------------------------------
(***************************************************************************)
(* Tabs and their workers.                                                 *)
(***************************************************************************)

\* A tab is opened on a connection, or on another database of it: then it
\* has a copy of the profile as it is now.
Open(t, p, kind) ==
  /\ ui = Free
  /\ tab[t] = NoTab
  /\ p \in live
  /\ tab' = [tab EXCEPT ![t] = [pc |-> "idle", on |-> p, kind |-> kind,
                               name |-> name[p], version |-> version[p],
                               renamed |-> FALSE]]
  /\ UNCHANGED <<name, version, live, pool, session, lock, ui, posted, dot,
                 tainted, crossed>>

\* A load, a run or Reconnect: run_async(lambda: ensure_connector(profile)).
\* Tabs of a removed connection are left standing, and may ask again.
Ask(t) ==
  /\ ui = Free
  /\ tab[t].pc = "idle"
  /\ tab' = [tab EXCEPT ![t].pc = "ask"]
  /\ UNCHANGED <<name, version, live, pool, session, lock, ui, posted, dot,
                 tainted, crossed>>

\* The key is read off the profile each time it is needed.
KeyOf(t) == <<IF tab[t].kind = "own" THEN name[tab[t].on] ELSE tab[t].name,
              tab[t].kind>>

\* ensure_connector takes the lock and finds the connector ...
Hit(t) ==
  /\ tab[t].pc = "ask"
  /\ lock = Nobody
  /\ pool[KeyOf(t)] # 0
  /\ tab' = [tab EXCEPT ![t].pc = "idle"]
  /\ UNCHANGED <<name, version, live, pool, session, lock, ui, posted, dot,
                 tainted, crossed>>

\* ... or connects with the details the profile has now, keeping the lock.
Miss(t) ==
  /\ tab[t].pc = "ask"
  /\ lock = Nobody
  /\ pool[KeyOf(t)] = 0
  /\ lock' = t
  /\ tab' = [tab EXCEPT ![t] =
               [tab[t] EXCEPT !.pc = "connect",
                              !.renamed = FALSE,
                              !.version = IF tab[t].kind = "own"
                                            THEN version[tab[t].on]
                                            ELSE tab[t].version]]
  /\ UNCHANGED <<name, version, live, pool, session, ui, posted, dot, tainted,
                 crossed>>

Unused(i) == session[i].st = "unused" /\ \A j \in 1 .. i - 1 : session[j].st # "unused"

\* connect() returned: stored under the name the profile has by now.
Connected(t) ==
  /\ tab[t].pc = "connect"
  /\ \E i \in Sessions :
       /\ Unused(i)
       /\ session' = [session EXCEPT ![i] = [st |-> "open", of |-> tab[t].on,
                                            version |-> tab[t].version]]
       /\ pool' = [pool EXCEPT ![KeyOf(t)] = i]
  /\ IF tab[t].kind = "own"
       THEN /\ posted' = Append(posted, name[tab[t].on])
            /\ tainted' = IF tab[t].renamed \/ tab[t].on \notin live
                            THEN tainted \cup {name[tab[t].on]}
                            ELSE tainted
       ELSE UNCHANGED <<posted, tainted>>
  /\ lock' = Nobody
  /\ tab' = [tab EXCEPT ![t].pc = "idle"]
  /\ UNCHANGED <<name, version, live, ui, dot, crossed>>

ConnectFails(t) ==
  /\ tab[t].pc = "connect"
  /\ lock' = Nobody
  /\ tab' = [tab EXCEPT ![t].pc = "idle"]
  /\ UNCHANGED <<name, version, live, pool, session, ui, posted, dot, tainted,
                 crossed>>

\* connector.close() on a thread of its own.
Close(i) ==
  /\ session[i].st = "closing"
  /\ session' = [session EXCEPT ![i].st = "closed"]
  /\ UNCHANGED <<name, version, live, tab, pool, lock, ui, posted, dot,
                 tainted, crossed>>

-----------------------------------------------------------------------------
(***************************************************************************)
(* The main loop.                                                          *)
(***************************************************************************)

NoteDrop(n) ==
  /\ tainted' = tainted \ {n}
  /\ crossed' = IF \E j \in DOMAIN posted : posted[j] = n
                  THEN crossed \cup {n} ELSE crossed \ {n}

\* Mutant: the connector is forgotten and not closed.
Drop_NotClosed(n) ==
  /\ lock = Nobody
  /\ pool' = [pool EXCEPT ![<<n, "own">>] = 0]
  /\ dot' = [dot EXCEPT ![n] = FALSE]
  /\ NoteDrop(n)
  /\ UNCHANGED session

\* Mutant: the connector is closed and left in the pool.
Drop_NotPopped(n) ==
  LET i == pool[<<n, "own">>]
  IN /\ lock = Nobody
     /\ session' = IF i = 0 THEN session ELSE [session EXCEPT ![i].st = "closing"]
     /\ dot' = [dot EXCEPT ![n] = FALSE]
     /\ NoteDrop(n)
     /\ UNCHANGED pool

\* Mutant: the dot is left to whoever connects next.
Drop_KeepsDot(n) ==
  LET i == pool[<<n, "own">>]
  IN /\ lock = Nobody
     /\ pool' = [pool EXCEPT ![<<n, "own">>] = 0]
     /\ session' = IF i = 0 THEN session ELSE [session EXCEPT ![i].st = "closing"]
     /\ NoteDrop(n)
     /\ UNCHANGED dot

\* _drop_connector, once the lock is free.
Drop(n) ==
  LET i == pool[<<n, "own">>]
  IN /\ lock = Nobody
     /\ pool' = [pool EXCEPT ![<<n, "own">>] = 0]
     /\ session' = IF i = 0 THEN session ELSE [session EXCEPT ![i].st = "closing"]
     /\ dot' = [dot EXCEPT ![n] = FALSE]
     /\ NoteDrop(n)

\* The connection menu's Disconnect (the runs it cancels: QueryConsole).
Disconnect(p) ==
  /\ ui = Free
  /\ p \in live
  /\ pool[<<name[p], "own">>] # 0
  /\ Drop(name[p])
  /\ UNCHANGED <<name, version, live, tab, lock, ui, posted>>

\* unique_connection_name, among the other connections.
Available(n, p) == \A q \in live \ {p} : name[q] # n

\* _connection_edited: the profile is changed in place at once ...
Edit(p, n) ==
  /\ ui = Free
  /\ p \in live
  /\ version[p] < MaxEdits
  /\ Available(n, p)
  /\ name' = [name EXCEPT ![p] = n]
  /\ version' = [version EXCEPT ![p] = @ + 1]
  /\ tab' = [t \in Tab |->
               IF tab[t].pc = "connect" /\ tab[t].on = p /\ n # name[p]
                 THEN [tab[t] EXCEPT !.renamed = TRUE] ELSE tab[t]]
  /\ ui' = [pc |-> "drop", old |-> name[p], on |-> p]
  /\ UNCHANGED <<live, pool, session, lock, posted, dot, tainted, crossed>>

\* Mutant: the connector is looked for under the new name.
EditDrop_NewName ==
  /\ ui # Free
  /\ Drop(name[ui.on])
  /\ ui' = Free
  /\ UNCHANGED <<name, version, live, tab, lock, posted>>

\* ... and the connector of its old name dropped, and the row made anew.
EditDrop ==
  /\ ui # Free
  /\ Drop(ui.old)
  /\ ui' = Free
  /\ UNCHANGED <<name, version, live, tab, lock, posted>>

Remove(p) ==
  /\ ui = Free
  /\ p \in live
  /\ live' = live \ {p}
  /\ Drop(name[p])
  /\ UNCHANGED <<name, version, tab, lock, ui, posted>>

\* Mutant: the name is added where the connection should be.
Add_ByName(p, n) ==
  /\ ui = Free
  /\ name[p] = Unnamed
  /\ Available(n, p)
  /\ live' = live \cup {n}
  /\ name' = [name EXCEPT ![p] = n]
  /\ UNCHANGED <<version, tab, pool, session, lock, ui, posted, dot, tainted,
                 crossed>>

Add(p, n) ==
  /\ ui = Free
  /\ name[p] = Unnamed
  /\ Available(n, p)
  /\ live' = live \cup {p}
  /\ name' = [name EXCEPT ![p] = n]
  /\ UNCHANGED <<version, tab, pool, session, lock, ui, posted, dot, tainted,
                 crossed>>

\* set_connected(name, True), on the row that has this name, if any.
SetConnected ==
  /\ ui = Free
  /\ posted # <<>>
  /\ posted' = Tail(posted)
  /\ dot' = [dot EXCEPT ![Head(posted)] = \E p \in live : name[p] = Head(posted)]
  /\ UNCHANGED <<name, version, live, tab, pool, session, lock, ui, tainted,
                 crossed>>

Worker(t) == Hit(t) \/ Miss(t) \/ Connected(t) \/ ConnectFails(t)

Next ==
  \/ \E t \in Tab :
       \/ \E p \in Profile, kind \in Kinds : Open(t, p, kind)
       \/ Ask(t)
       \/ Worker(t)
  \/ \E i \in Sessions : Close(i)
  \/ \E p \in Profile : Disconnect(p) \/ Remove(p)
  \/ \E p \in Profile, n \in Name : Edit(p, n) \/ Add(p, n)
  \/ EditDrop
  \/ SetConnected

Spec == Init /\ [][Next]_vars

-----------------------------------------------------------------------------
(***************************************************************************)
(* Properties.                                                             *)
(***************************************************************************)

Current(p, kind) ==
  LET i == pool[<<name[p], kind>>]
  IN i # 0 => session[i].of = p /\ session[i].version = version[p]

\* What ensure_connector hands to a tab on the connection itself is a
\* session of that connection with the details it has now, unless a worker
\* stored it whose profile was renamed or removed meanwhile.
OwnIsCurrent ==
  ui = Free => \A p \in live : name[p] \notin tainted => Current(p, "own")

\* "Tabs already open on this connection ... pick up the new details next
\* time they connect" (_connection_edited), those on its other databases
\* included.
EditsReachEveryTab ==
  ui = Free => \A p \in live, k \in Kinds : name[p] \notin tainted => Current(p, k)

\* No session of a connection the workspace still has is forgotten: it is
\* in the pool, or being closed.
NoneForgotten ==
  \A i \in Sessions :
    session[i].st = "open" /\ session[i].of \in live => \E k \in Key : pool[k] = i

\* Nothing in the pool is closed, or about to be.
PooledIsOpen == \A k \in Key : pool[k] # 0 => session[pool[k]].st = "open"

\* Once what was posted has been handled, the dot of a connection tells
\* whether it is connected, unless it was dropped with the news of its
\* connecting still posted.
DotIsTrue ==
  ui = Free /\ posted = <<>> =>
    \A p \in live : name[p] \notin tainted \cup crossed =>
      (dot[name[p]] <=> pool[<<name[p], "own">>] # 0)
=============================================================================
