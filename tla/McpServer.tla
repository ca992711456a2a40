------------------------------ MODULE McpServer ------------------------------
(* The MCP tab (frontend/mcp_tab.py) and the servers it runs                  *)
(* (backend/mcp/server.py): starting one on a worker, its connectors opened   *)
(* one by one, the thread that serves, calls, and the three ways it is        *)
(* stopped: the Stop button, closing the tab, closing the window.             *)
(*                                                                            *)
(* The connectors of an instance are numbered.  What a call may read is not   *)
(* modelled, nor are the token and the log.                                   *)
EXTENDS Integers, FiniteSets

CONSTANTS
  Conns,     \* how many connections the server exposes
  MaxStarts, \* bounds: servers started,
  MaxCalls   \* and calls made

\* What the constants are, assumed where the module is instantiated.
McpAssumption == Conns \in Nat \ {0} /\ MaxStarts \in Nat /\ MaxCalls \in Nat

Instance == 1 .. MaxStarts

VARIABLES
  tab,       \* "open", "asking" (the close is held back) or "gone"
  page,      \* "config" or "running"
  startable, \* the Start button
  own,       \* the tab's _instance, 0 when there is none
  inst,      \* Instance -> [st, conns, at, served, thread, call]
  ui,        \* the instance the main loop is stopping and waits for, or 0
  stopping,  \* the instances a worker stops
  posted,    \* results on their way to the main loop
  begun, calls,
  \* history: instances the tab or the window was closed over before they had
  \* started; connectors whose SET was refused; whether Stop was pressed with
  \* a stop under way
  deserted, leaked, twice

vars == <<tab, page, startable, own, inst, ui, stopping, posted, begun, calls,
          deserted, leaked, twice>>

Init ==
  /\ tab = "open" /\ page = "config" /\ startable = TRUE /\ own = 0
  /\ inst = [i \in Instance |->
               [st |-> "none", conns |-> {}, at |-> 0, served |-> FALSE,
                thread |-> "none", call |-> FALSE]]
  /\ ui = 0 /\ stopping = {} /\ posted = {} /\ begun = 0 /\ calls = 0
  /\ deserted = {} /\ leaked = {} /\ twice = FALSE

\* The main loop is free, and the tab's window takes input.
Awake == tab = "open" /\ ui = 0

-----------------------------------------------------------------------------
(* The tab.                                                                *)

\* _on_start_clicked.
StartClicked ==
  /\ Awake /\ page = "config" /\ startable /\ begun < MaxStarts
  /\ begun' = begun + 1 /\ own' = begun + 1 /\ startable' = FALSE
  /\ inst' = [inst EXCEPT ![begun + 1].st = "opening"]
  /\ UNCHANGED <<tab, page, ui, stopping, posted, calls, deserted, leaked, twice>>

\* _on_stop_clicked: the worker it starts has the instance to stop.
StopClicked ==
  /\ Awake /\ page = "running"
  /\ own' = 0
  /\ IF own = 0
     THEN /\ page' = "config" /\ twice' = TRUE /\ UNCHANGED stopping
     ELSE /\ stopping' = stopping \cup {own} /\ UNCHANGED <<page, twice>>
  /\ UNCHANGED <<tab, startable, inst, ui, posted, begun, calls, deserted, leaked>>

\* What a worker posted is handled; on a tab that is gone it shows nothing.
Started(i) ==
  /\ ui = 0 /\ <<"started", i>> \in posted /\ posted' = posted \ {<<"started", i>>}
  /\ startable' = TRUE /\ page' = "running"
  /\ UNCHANGED <<tab, own, inst, ui, stopping, begun, calls, deserted, leaked, twice>>

StartFailed(i) ==
  /\ ui = 0 /\ <<"failed", i>> \in posted /\ posted' = posted \ {<<"failed", i>>}
  /\ startable' = TRUE /\ own' = 0
  /\ UNCHANGED <<tab, page, inst, ui, stopping, begun, calls, deserted, leaked, twice>>

Stopped(i) ==
  /\ ui = 0 /\ <<"stopped", i>> \in posted /\ posted' = posted \ {<<"stopped", i>>}
  /\ page' = "config"
  /\ UNCHANGED <<tab, startable, own, inst, ui, stopping, begun, calls, deserted,
                 leaked, twice>>

-----------------------------------------------------------------------------
(* McpInstance.stop: its server is told to exit and waited for, five       *)
(* seconds at most; then the connectors are closed, in use or not.         *)

Told(i) ==
  [inst EXCEPT ![i] =
     [inst[i] EXCEPT !.served = FALSE,
                     !.thread = IF inst[i].served /\ @ = "up" THEN "exiting" ELSE @]]

\* stop_instance on the main loop, which waits: closing the tab after the
\* question, or the window.  Without a server up yet there is nothing to wait
\* for, and the start that is under way goes on.
StopHere(i) == ui' = i /\ inst' = Told(i)

\* The tab is closed: _on_close_page asks when a server is running.
Starting(i) == inst[i].st \in {"opening", "booting"}

CloseTab ==
  /\ Awake
  /\ IF own # 0 /\ inst[own].served
     THEN tab' = "asking" /\ UNCHANGED deserted
     ELSE /\ tab' = "gone"
          /\ deserted' = deserted \cup {i \in Instance : i = own /\ Starting(i)}
  /\ UNCHANGED <<page, startable, own, inst, ui, stopping, posted, begun, calls,
                 leaked, twice>>

KeepOpen ==
  /\ tab = "asking" /\ ui = 0 /\ tab' = "open"
  /\ UNCHANGED <<page, startable, own, inst, ui, stopping, posted, begun, calls,
                 deserted, leaked, twice>>

StopAndClose_Drops ==
  /\ tab = "asking" /\ ui = 0 /\ tab' = "gone"
  /\ UNCHANGED <<page, startable, own, inst, ui, stopping, posted, begun, calls,
                 deserted, leaked, twice>>

StopAndClose ==
  /\ tab = "asking" /\ ui = 0 /\ tab' = "gone"
  /\ StopHere(own)
  /\ UNCHANGED <<page, startable, own, stopping, posted, begun, calls, deserted,
                 leaked, twice>>

\* finish() of the window stops whatever the tab has.
CloseWindow ==
  /\ tab # "gone" /\ ui = 0 /\ tab' = "gone"
  /\ IF own = 0 THEN UNCHANGED <<ui, inst, deserted>>
     ELSE /\ StopHere(own)
          /\ deserted' = deserted \cup {i \in {own} : Starting(i)}
  /\ UNCHANGED <<page, startable, own, stopping, posted, begun, calls, leaked, twice>>

\* The worker of the Stop button gets to its first lines.
StopBegins(i) ==
  /\ i \in stopping /\ inst[i].served /\ inst' = Told(i)
  /\ UNCHANGED <<tab, page, startable, own, ui, stopping, posted, begun, calls,
                 deserted, leaked, twice>>

\* The thread has ended, there is none, or the five seconds are over.
Joined(i) ==
  /\ ~ inst[i].served /\ i \in stopping \cup {ui}
  /\ inst' = [inst EXCEPT ![i].conns = {}]
  /\ \/ /\ i = ui /\ ui' = 0 /\ UNCHANGED <<stopping, posted>>
     \/ /\ i \in stopping /\ stopping' = stopping \ {i}
        /\ posted' = posted \cup {<<"stopped", i>>} /\ UNCHANGED ui
  /\ UNCHANGED <<tab, page, startable, own, begun, calls, deserted, leaked, twice>>

-----------------------------------------------------------------------------
(* McpInstance.start, on its worker.                                       *)

Others == UNCHANGED <<tab, page, startable, own, ui, stopping, begun, calls,
                      deserted, twice>>

Failed(i, rec) ==
  /\ inst' = [inst EXCEPT ![i] = [rec EXCEPT !.st = "failed", !.conns = {}]]
  /\ posted' = posted \cup {<<"failed", i>>}

\* _open_connectors, one by one.  A connector is known to the instance only
\* once its session has been made read-only.
Open(i) ==
  /\ inst[i].st = "opening"
  /\ inst' = [inst EXCEPT ![i] =
                [inst[i] EXCEPT !.conns = @ \cup {inst[i].at + 1}, !.at = @ + 1,
                                !.st = IF inst[i].at + 1 = Conns THEN "booting" ELSE @]]
  /\ UNCHANGED <<posted, leaked>> /\ Others

OpenFails(i) ==
  /\ inst[i].st = "opening" /\ Failed(i, inst[i])
  /\ \/ UNCHANGED leaked
     \/ leaked' = leaked \cup {<<i, inst[i].at + 1>>}  \* the SET was refused
  /\ Others

\* uvicorn's thread: it starts, serves, or cannot listen.
Boot(i) ==
  /\ inst[i].st = "booting" /\ inst[i].thread = "none"
  /\ inst' = [inst EXCEPT ![i].thread = "starting"]
  /\ UNCHANGED <<posted, leaked>> /\ Others

ThreadUp(i) ==
  /\ inst[i].thread = "starting"
  /\ \E to \in {"up", "over"} : inst' = [inst EXCEPT ![i].thread = to]
  /\ UNCHANGED <<posted, leaked>> /\ Others

Serving(i) ==
  /\ inst[i].st = "booting" /\ inst[i].thread = "up"
  /\ inst' = [inst EXCEPT ![i] = [inst[i] EXCEPT !.st = "serving", !.served = TRUE]]
  /\ posted' = posted \cup {<<"started", i>>}
  /\ UNCHANGED leaked /\ Others

\* The thread ended, or ten seconds went by: then it is told to exit.
BootFails(i) ==
  /\ inst[i].st = "booting" /\ inst[i].thread \in {"starting", "over"}
  /\ Failed(i, [inst[i] EXCEPT !.thread = IF @ = "starting" THEN "exiting" ELSE @])
  /\ UNCHANGED leaked /\ Others

\* A thread told to exit first lets the call under way end.
ThreadEnds(i) ==
  /\ inst[i].thread = "exiting" /\ ~ inst[i].call
  /\ inst' = [inst EXCEPT ![i].thread = "over"]
  /\ UNCHANGED <<posted, leaked>> /\ Others

\* A call, one at a time under the instance's lock.
Call(i) ==
  /\ calls < MaxCalls /\ calls' = calls + 1
  /\ inst[i].thread = "up" /\ ~ inst[i].call /\ inst[i].conns # {}
  /\ inst' = [inst EXCEPT ![i].call = TRUE]
  /\ UNCHANGED <<tab, page, startable, own, ui, stopping, posted, begun, deserted,
                 leaked, twice>>

CallEnds(i) ==
  /\ inst[i].call /\ inst' = [inst EXCEPT ![i].call = FALSE]
  /\ UNCHANGED <<posted, leaked>> /\ Others

-----------------------------------------------------------------------------
Next ==
  \/ StartClicked \/ StopClicked \/ CloseTab \/ KeepOpen \/ StopAndClose \/ CloseWindow
  \/ \E i \in Instance :
       \/ Started(i) \/ StartFailed(i) \/ Stopped(i) \/ StopBegins(i) \/ Joined(i)
       \/ Open(i) \/ OpenFails(i) \/ Boot(i) \/ ThreadUp(i) \/ Serving(i) \/ BootFails(i)
       \/ ThreadEnds(i) \/ Call(i) \/ CallEnds(i)

Spec == Init /\ [][Next]_vars

-----------------------------------------------------------------------------
Rec == [st : {"none", "opening", "booting", "serving", "failed"},
        conns : SUBSET (1 .. Conns), at : 0 .. Conns, served : BOOLEAN,
        thread : {"none", "starting", "up", "exiting", "over"}, call : BOOLEAN]

TypeOK ==
  /\ tab \in {"open", "asking", "gone"} /\ page \in {"config", "running"}
  /\ startable \in BOOLEAN /\ own \in 0 .. begun /\ begun \in 0 .. MaxStarts
  /\ inst \in [Instance -> Rec] /\ ui \in Instance \cup {0}
  /\ stopping \subseteq Instance
  /\ posted \subseteq {"started", "failed", "stopped"} \X Instance
  /\ calls \in Nat /\ deserted \subseteq Instance
  /\ leaked \subseteq Instance \X (1 .. Conns) /\ twice \in BOOLEAN

\* "an instance runs until stop() (the tab closing) shuts it down", and "on any
\* failure nothing is left running" (server.py:7-8, 94-95): a server that runs,
\* or is about to, and a connector that is open, belong to an instance that is
\* being started, is its open tab's, or is being stopped, in whatever order
\* starts, stops, failures and closes come.  Apart from the instances closed
\* over while they started (deserted), and once Stop has been pressed again
\* while a stop is under way: its end then turns the page over the next server,
\* and Start forgets that one.
Owned(i) == Starting(i) \/ (own = i /\ tab # "gone") \/ i \in stopping \/ ui = i
Held(i)  == inst[i].thread \in {"starting", "up"} \/ inst[i].conns # {}

NothingUnowned ==
  ~ twice => \A i \in Instance \ deserted : Held(i) => Owned(i)
=============================================================================
