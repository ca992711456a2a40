----------------------------- MODULE MonitorTab -----------------------------
(***************************************************************************)
(* The monitoring dashboard of a connection (frontend/monitor_tab.py) and  *)
(* the counters it draws (backend/db/metrics.py): a connection of its own, *)
(* two timers, one sample at a time, and the tab closing under all of it.  *)
(***************************************************************************)
EXTENDS Naturals, FiniteSets

CONSTANTS
  MaxCount,    \* bound: what a counter of the server reaches
  MaxRestarts  \* bound: restarts of the server

\* What the constants are, assumed where the module is instantiated.
MonitorAssumption == MaxCount \in Nat /\ MaxRestarts \in Nat

VARIABLES
  opening,   \* the worker of _open
  held,      \* _connector is set
  session,   \* the connection, as the server has it
  closed, paused, sampling, storing,
  live, disk,   \* the timers are armed
  jobs,      \* samples under way or waiting for the main loop
  sizes,     \* the storage query
  server,    \* a cumulative counter, and how often it was reset
  previous,  \* the counter in the last sample of Series
  restarted, \* Series.restarted
  failing,   \* history: the last outcome shown is a failure, and the user
             \* has done nothing since
  overlap    \* history: a sample was asked for while the tab opened

vars == <<opening, held, session, closed, paused, sampling, storing, live,
          disk, jobs, sizes, server, previous, restarted, failing, overlap>>

Count == 0 .. MaxCount
None  == MaxCount + 1
Job   == [by : {"open", "refresh"}, step : {"asked", "failed"}]
         \cup [by : {"open", "refresh"}, step : {"sampled"}, count : Count]

TypeOK ==
  /\ opening \in {"connect", "probe", "sample", "done"}
  /\ session \in {"none", "open", "closing", "closed"}
  /\ {held, closed, paused, sampling, storing, live, disk, restarted, failing,
      overlap} \subseteq BOOLEAN
  /\ jobs \subseteq Job
  /\ sizes \in {"none", "asked", "told"}
  /\ server \in [count : Count, restarts : 0 .. MaxRestarts]
  /\ previous \in Count \cup {None}

Init ==
  /\ opening = "connect" /\ session = "none"
  /\ held = FALSE /\ closed = FALSE /\ paused = FALSE
  /\ sampling = FALSE /\ storing = FALSE /\ live = FALSE /\ disk = FALSE
  /\ jobs = {} /\ sizes = "none"
  /\ server = [count |-> 0, restarts |-> 0]
  /\ previous = None
  /\ restarted = FALSE /\ failing = FALSE /\ overlap = FALSE

-----------------------------------------------------------------------------
\* Mutant: a sample is asked for while another is under way.
RefreshNow_Eager ==
  IF ~held \/ closed THEN UNCHANGED <<sampling, jobs, overlap>>
  ELSE /\ sampling' = TRUE
       /\ jobs' = jobs \cup {[by |-> "refresh", step |-> "asked"]}
       /\ UNCHANGED overlap

\* A sample's and the storage panel's request; nothing while one is under
\* way.
RefreshNow ==
  IF ~held \/ sampling \/ closed THEN UNCHANGED <<sampling, jobs, overlap>>
  ELSE /\ sampling' = TRUE
       /\ jobs' = jobs \cup {[by |-> "refresh", step |-> "asked"]}
       /\ overlap' = (overlap \/ opening # "done"
                              \/ \E j \in jobs : j.by = "open")

LoadStorage ==
  IF ~held \/ storing \/ closed THEN UNCHANGED <<storing, sizes>>
  ELSE storing' = TRUE /\ sizes' = "asked"

StartTimers ==
  /\ live' = ~(closed \/ paused)
  /\ disk' = ~(closed \/ paused)
StopTimers == live' = FALSE /\ disk' = FALSE

\* Series.add: a counter that went backwards starts the lines again.
Add(count) ==
  /\ previous' = count
  /\ restarted' = (previous # None /\ count < previous)

\* _open, in the worker: connect, keep the connection, probe, sample.
Connect ==
  /\ opening = "connect"
  /\ \/ /\ session' = "open" /\ held' = TRUE /\ opening' = "probe"
        /\ UNCHANGED jobs
     \/ /\ opening' = "done"
        /\ jobs' = jobs \cup {[by |-> "open", step |-> "failed"]}
        /\ UNCHANGED <<session, held>>
  /\ UNCHANGED <<closed, paused, sampling, storing, live, disk, sizes, server,
                 previous, restarted, failing, overlap>>

\* The probe reports and never raises.
Probe ==
  /\ opening = "probe"
  /\ opening' = "sample"
  /\ jobs' = jobs \cup {[by |-> "open", step |-> "asked"]}
  /\ UNCHANGED <<held, session, closed, paused, sampling, storing, live, disk,
                 sizes, server, previous, restarted, failing, overlap>>

\* The statements of a sample, on the tab's connection.
Sample(j) ==
  /\ j \in jobs /\ j.step = "asked"
  /\ opening' = IF j.by = "open" THEN "done" ELSE opening
  /\ \/ /\ session \in {"open", "closing"}
        /\ jobs' = (jobs \ {j}) \cup
             {[by |-> j.by, step |-> "sampled", count |-> server.count]}
     \/ jobs' = (jobs \ {j}) \cup {[by |-> j.by, step |-> "failed"]}
  /\ UNCHANGED <<held, session, closed, paused, sampling, storing, live, disk,
                 sizes, server, previous, restarted, failing, overlap>>

\* _open's done().
Opened(j) ==
  /\ j \in jobs /\ j.by = "open" /\ j.step = "sampled"
  /\ jobs' = jobs \ {j}
  /\ IF closed THEN UNCHANGED <<live, disk, storing, sizes, previous,
                                restarted, failing>>
     ELSE /\ Add(j.count) /\ StartTimers /\ LoadStorage
          /\ failing' = FALSE
  /\ UNCHANGED <<opening, held, session, closed, paused, sampling, server,
                 overlap>>

\* _failed(): the banner.
OpenFailed(j) ==
  /\ j \in jobs /\ j.by = "open" /\ j.step = "failed"
  /\ jobs' = jobs \ {j}
  /\ UNCHANGED <<opening, held, session, closed, paused, sampling, storing,
                 live, disk, sizes, server, previous, restarted, failing,
                 overlap>>

\* refresh_now's done() and failed().
Refreshed(j) ==
  /\ j \in jobs /\ j.by = "refresh" /\ j.step = "sampled"
  /\ jobs' = jobs \ {j}
  /\ sampling' = FALSE
  /\ IF closed THEN UNCHANGED <<previous, restarted, failing>>
     ELSE Add(j.count) /\ failing' = FALSE
  /\ UNCHANGED <<opening, held, session, closed, paused, storing, live, disk,
                 sizes, server, overlap>>

\* Mutant: the timers go on after a failure.
RefreshFailed_KeepsPolling(j) ==
  /\ j \in jobs /\ j.by = "refresh" /\ j.step = "failed"
  /\ jobs' = jobs \ {j}
  /\ sampling' = FALSE
  /\ failing' = TRUE
  /\ UNCHANGED <<opening, held, session, closed, paused, storing, live, disk,
                 sizes, server, previous, restarted, overlap>>

RefreshFailed(j) ==
  /\ j \in jobs /\ j.by = "refresh" /\ j.step = "failed"
  /\ jobs' = jobs \ {j}
  /\ sampling' = FALSE
  /\ StopTimers
  /\ failing' = TRUE
  /\ UNCHANGED <<opening, held, session, closed, paused, storing, sizes,
                 server, previous, restarted, overlap>>

\* The storage query is answered or refused, and shown.
StorageTold ==
  /\ sizes = "asked"
  /\ sizes' = "told"
  /\ storing' = FALSE
  /\ UNCHANGED <<opening, held, session, closed, paused, sampling, live, disk,
                 jobs, server, previous, restarted, failing, overlap>>

-----------------------------------------------------------------------------
LiveTick ==
  /\ live /\ held /\ ~sampling
  /\ RefreshNow
  /\ UNCHANGED <<opening, held, session, closed, paused, storing, live, disk,
                 sizes, server, previous, restarted, failing>>

StorageTick ==
  /\ disk /\ held /\ ~storing
  /\ LoadStorage
  /\ UNCHANGED <<opening, held, session, closed, paused, sampling, live, disk,
                 jobs, server, previous, restarted, failing, overlap>>

\* The Refresh button; also what a cancelled or ended session is followed by.
Refresh ==
  /\ ~closed
  /\ RefreshNow
  /\ failing' = FALSE
  /\ UNCHANGED <<opening, held, session, closed, paused, storing, live, disk,
                 sizes, server, previous, restarted>>

TogglePause ==
  /\ ~closed
  /\ paused' = ~paused
  /\ IF paused THEN live' = TRUE /\ disk' = TRUE /\ RefreshNow
     ELSE StopTimers /\ UNCHANGED <<sampling, jobs, overlap>>
  /\ failing' = FALSE
  /\ UNCHANGED <<opening, held, session, closed, storing, sizes, server,
                 previous, restarted>>

IntervalChanged ==
  /\ ~closed
  /\ IF paused THEN UNCHANGED <<live, disk>> ELSE StartTimers
  /\ failing' = FALSE
  /\ UNCHANGED <<opening, held, session, closed, paused, sampling, storing,
                 jobs, sizes, server, previous, restarted, overlap>>

\* shutdown(): the tab is closed.  A connection that is still being opened
\* is not held yet.
Shutdown ==
  /\ ~closed
  /\ closed' = TRUE
  /\ StopTimers
  /\ held' = FALSE
  /\ session' = IF held THEN "closing" ELSE session
  /\ UNCHANGED <<opening, paused, sampling, storing, jobs, sizes, server,
                 previous, restarted, failing, overlap>>

CloseSession ==
  /\ session = "closing"
  /\ session' = "closed"
  /\ UNCHANGED <<opening, held, closed, paused, sampling, storing, live, disk,
                 jobs, sizes, server, previous, restarted, failing, overlap>>

ServerWorks ==
  /\ server.count < MaxCount
  /\ server' = [server EXCEPT !.count = @ + 1]
  /\ UNCHANGED <<opening, held, session, closed, paused, sampling, storing,
                 live, disk, jobs, sizes, previous, restarted, failing,
                 overlap>>

\* The server is restarted, or its statistics are reset.
ServerRestarts ==
  /\ server.restarts < MaxRestarts
  /\ server' = [count |-> 0, restarts |-> server.restarts + 1]
  /\ UNCHANGED <<opening, held, session, closed, paused, sampling, storing,
                 live, disk, jobs, sizes, previous, restarted, failing,
                 overlap>>

Next ==
  \/ Connect \/ Probe \/ StorageTold \/ CloseSession
  \/ \E j \in Job : Sample(j) \/ Opened(j) \/ OpenFailed(j) \/ Refreshed(j)
                    \/ RefreshFailed(j)
  \/ LiveTick \/ StorageTick \/ Refresh \/ TogglePause \/ IntervalChanged
  \/ Shutdown \/ ServerWorks \/ ServerRestarts

Spec == Init /\ [][Next]_vars

-----------------------------------------------------------------------------
\* A paused tab, a closed one, and one whose last refresh failed ("Stop, and
\* say why") have no timer running, whichever answers are still on their way
\* when they come to be so.
NobodyLooksNobodyPolls == paused \/ closed \/ failing => ~live /\ ~disk

\* The lines start again only after the server's counters really did, as
\* long as no sample was asked for while the tab was opening.
NoFalseRestart == restarted /\ ~overlap => server.restarts > 0
=============================================================================
