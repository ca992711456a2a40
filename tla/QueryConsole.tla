---------------------------- MODULE QueryConsole ----------------------------
(***************************************************************************)
(* Runs of the query consoles (frontend/query_console.py, QueryConsole):   *)
(* starting a run, superseding it by another, Cancel, and what comes back. *)
(*                                                                         *)
(* A run is a worker thread that connects, sends its statements one by one *)
(* under the connector's lock, reads whether a transaction is open and     *)
(* posts its outcome to the main loop.  Ctrl+Enter and the transaction     *)
(* buttons start a run whether or not one is in flight, so a console may   *)
(* have several, of which the last is the current one; consoles on one     *)
(* connection share its session.                                           *)
(***************************************************************************)
EXTENDS Naturals, Sequences, FiniteSets

CONSTANTS
  Console,      \* open consoles
  Connection,   \* connections, each with one pooled session
  Script,       \* what may be run: sequences of "begin", "end", "plain"
  MaxRuns       \* bound: runs started in all

ASSUME ConsoleAssumption ==
  /\ MaxRuns \in Nat
  /\ Script \subseteq Seq({"begin", "end", "plain"}) \ {<<>>}

VARIABLES
  selected,   \* the connection dropdown
  state,      \* _state
  jobId,      \* _job_id: the current run
  published,  \* _job_connector: the connection Cancel reaches
  shown,      \* the run whose outcomes fill the results area, 0 for none
  badge,      \* the "Transaction open" banner and buttons
  started,    \* bound: how many runs have been started
  run,        \* every run's worker thread
  holder,     \* who holds the connector lock of each connection
  tx          \* the session of each connection is in a transaction

\* History: read by the properties only.
VARIABLES
  cancelled,  \* runs Cancel was pressed for
  defied,     \* those of them that went on to the rest of their script
  extra,      \* statements a run began after it was superseded
  sound       \* consoles whose badge nothing overlapped: see Lone

console == <<selected, state, jobId, published, shown, badge, started>>
server  == <<holder, tx>>
history == <<cancelled, defied, extra, sound>>
vars    == <<console, run, server, history>>

None   == "none"
Runs   == 1 .. MaxRuns
Unused == [pc |-> "unused"]
Ended  == [pc |-> "over"]
Thread == [pc : {"connect", "send", "exec", "peek", "done", "failed"},
           on : Connection, script : Script, next : Nat, open : BOOLEAN]

InFlight(c, n) == run[c][n].pc \notin {"unused", "over"}
Quiet          == \A c \in Console, n \in Runs : ~ InFlight(c, n)
Superseded(c, n) == jobId[c] # n

TypeOK ==
  /\ selected \in [Console -> Connection]
  /\ state \in [Console -> {"idle", "running", "cancelling"}]
  /\ jobId \in [Console -> 0 .. MaxRuns]
  /\ published \in [Console -> Connection \cup {None}]
  /\ shown \in [Console -> 0 .. MaxRuns]
  /\ badge \in [Console -> BOOLEAN]
  /\ started \in 0 .. MaxRuns
  /\ run \in [Console -> [Runs -> Thread \cup {Unused, Ended}]]
  /\ \A c \in Console, n \in Runs : run[c][n].pc \in {"connect", "send", "exec"} =>
       run[c][n].next \in 1 .. Len(run[c][n].script)
  /\ holder \in [Connection -> (Console \X Runs) \cup {<<>>}]
  /\ tx \in [Connection -> BOOLEAN]
  /\ cancelled \subseteq Console \X Runs
  /\ defied \subseteq cancelled
  /\ extra \in [Console -> [Runs -> Nat]]
  /\ sound \subseteq Console

Init ==
  /\ selected \in [Console -> Connection]
  /\ state = [c \in Console |-> "idle"]
  /\ jobId = [c \in Console |-> 0]
  /\ published = [c \in Console |-> None]
  /\ shown = [c \in Console |-> 0]
  /\ badge = [c \in Console |-> FALSE]
  /\ started = 0
  /\ run = [c \in Console |-> [n \in Runs |-> Unused]]
  /\ holder = [k \in Connection |-> <<>>]
  /\ tx = [k \in Connection |-> FALSE]
  /\ cancelled = {}
  /\ defied = {}
  /\ extra = [c \in Console |-> [n \in Runs |-> 0]]
  /\ sound = Console

-----------------------------------------------------------------------------
(***************************************************************************)
(* The main loop: what the user does.                                      *)
(***************************************************************************)

\* The dropdown: refresh_transaction_badge peeks at the session.
Select(c, k) ==
  /\ k # selected[c]
  /\ selected' = [selected EXCEPT ![c] = k]
  /\ badge' = [badge EXCEPT ![c] = tx[k]]
  /\ sound' = IF Quiet THEN sound \cup {c} ELSE sound \ {c}
  /\ UNCHANGED <<state, jobId, published, shown, started, run, server,
                 cancelled, defied, extra>>

\* _start_statements, _enter_running.
Start(c, s) ==
  /\ started < MaxRuns
  /\ started' = started + 1
  /\ jobId' = [jobId EXCEPT ![c] = @ + 1]
  /\ state' = [state EXCEPT ![c] = "running"]
  /\ published' = [published EXCEPT ![c] = None]
  /\ run' = [run EXCEPT ![c][jobId[c] + 1] =
               [pc |-> "connect", on |-> selected[c], script |-> s,
                next |-> 1, open |-> FALSE]]
  /\ sound' = IF Quiet THEN {c} ELSE {}
  /\ UNCHANGED <<selected, shown, badge, server, cancelled, defied, extra>>

\* Mutant: Cancel is taken with nothing running.
Cancel_Always(c) ==
  /\ state' = [state EXCEPT ![c] = "cancelling"]
  /\ cancelled' = cancelled \cup {<<c, jobId[c]>>}
  /\ UNCHANGED <<selected, jobId, published, shown, badge, started, run, server,
                 defied, extra, sound>>

\* _cancel: connector.cancel() interrupts what the published connection is
\* running, or comes too late; either is one of that statement's outcomes.
Cancel(c) ==
  /\ state[c] = "running"
  /\ state' = [state EXCEPT ![c] = "cancelling"]
  /\ cancelled' = cancelled \cup {<<c, jobId[c]>>}
  /\ UNCHANGED <<selected, jobId, published, shown, badge, started, run, server,
                 defied, extra, sound>>

-----------------------------------------------------------------------------
(***************************************************************************)
(* The worker thread of a run: work().                                     *)
(***************************************************************************)
Goto(c, n, pc) == run' = [run EXCEPT ![c][n].pc = pc]

\* ensure_connector, then the connector is published for _cancel.
Connect(c, n) ==
  /\ run[c][n].pc = "connect"
  /\ Goto(c, n, "send")
  /\ published' = [published EXCEPT ![c] = run[c][n].on]
  /\ UNCHANGED <<selected, state, jobId, shown, badge, started, server, history>>

ConnectFails(c, n) ==
  /\ run[c][n].pc = "connect"
  /\ Goto(c, n, "failed")
  /\ UNCHANGED <<console, server, history>>

\* connector.execute takes the connector lock for one statement.
Send(c, n) ==
  /\ run[c][n].pc = "send"
  /\ holder[run[c][n].on] = <<>>
  /\ holder' = [holder EXCEPT ![run[c][n].on] = <<c, n>>]
  /\ Goto(c, n, "exec")
  /\ defied' = IF run[c][n].next > 1 THEN defied \cup ({<<c, n>>} \cap cancelled)
                                     ELSE defied
  /\ extra' = IF Superseded(c, n) THEN [extra EXCEPT ![c][n] = @ + 1] ELSE extra
  /\ UNCHANGED <<console, tx, cancelled, sound>>

\* What a statement that went through makes of the session.
TxAfter(statement, open) ==
  CASE statement = "begin" -> TRUE
    [] statement = "end"   -> FALSE
    [] OTHER               -> open

Release(c, n) == holder' = [holder EXCEPT ![run[c][n].on] = <<>>]

\* Mutant: the script is never stopped.
StatementOk_RunsOn(c, n) ==
  LET r == run[c][n]
  IN /\ r.pc = "exec"
     /\ Release(c, n)
     /\ tx' = [tx EXCEPT ![r.on] = TxAfter(r.script[r.next], @)]
     /\ run' = [run EXCEPT ![c][n] =
                  [r EXCEPT !.next = @ + 1,
                            !.pc = IF r.next = Len(r.script) THEN "peek" ELSE "send"]]
     /\ UNCHANGED <<console, history>>

\* The statement went through; a superseded script stops here.
StatementOk(c, n) ==
  LET r == run[c][n]
  IN /\ r.pc = "exec"
     /\ Release(c, n)
     /\ tx' = [tx EXCEPT ![r.on] = TxAfter(r.script[r.next], @)]
     /\ run' = [run EXCEPT ![c][n] =
                  [r EXCEPT !.next = @ + 1,
                            !.pc = IF r.next = Len(r.script) \/ Superseded(c, n)
                                     THEN "peek" ELSE "send"]]
     /\ UNCHANGED <<console, history>>

\* It raised, by itself or interrupted: the script ends.
StatementFails(c, n) ==
  /\ run[c][n].pc = "exec"
  /\ Release(c, n)
  /\ Goto(c, n, "peek")
  /\ UNCHANGED <<console, tx, history>>

\* connector.in_transaction(), without the lock.
Peek(c, n) ==
  /\ run[c][n].pc = "peek"
  /\ run' = [run EXCEPT ![c][n] =
               [@ EXCEPT !.pc = "done", !.open = tx[run[c][n].on]]]
  /\ UNCHANGED <<console, server, history>>

-----------------------------------------------------------------------------
(***************************************************************************)
(* The main loop: what comes back, through _finish_job.                    *)
(***************************************************************************)
Over(c, n) == run' = [run EXCEPT ![c][n] = Ended]

ToIdle(c) ==
  /\ state' = [state EXCEPT ![c] = "idle"]
  /\ published' = [published EXCEPT ![c] = None]

\* A newer run has started: the answer is dropped.
DropStale(c, n) ==
  /\ run[c][n].pc \in {"done", "failed"}
  /\ Superseded(c, n)
  /\ Over(c, n)
  /\ UNCHANGED <<console, server, history>>

\* Mutant: a stale run's answer ends the current run.
Done_AnyJob(c, n) ==
  /\ run[c][n].pc = "done"
  /\ state[c] # "cancelling"
  /\ Over(c, n)
  /\ ToIdle(c)
  /\ shown' = [shown EXCEPT ![c] = n]
  /\ badge' = [badge EXCEPT ![c] = run[c][n].open]
  /\ UNCHANGED <<selected, jobId, started, server, history>>

\* done: the outcomes are shown.
Done(c, n) ==
  /\ run[c][n].pc = "done"
  /\ ~ Superseded(c, n)
  /\ state[c] # "cancelling"
  /\ Over(c, n)
  /\ ToIdle(c)
  /\ shown' = [shown EXCEPT ![c] = n]
  /\ badge' = [badge EXCEPT ![c] = run[c][n].open]
  /\ UNCHANGED <<selected, jobId, started, server, history>>

\* Mutant: a cancelled run leaves the badge as it was.
Refreshed_NotWhenCancelled(c, n) ==
  /\ run[c][n].pc \in {"done", "failed"}
  /\ ~ Superseded(c, n)
  /\ run[c][n].pc = "done" => state[c] = "cancelling"
  /\ Over(c, n)
  /\ ToIdle(c)
  /\ badge' = IF state[c] = "cancelling" THEN badge
              ELSE [badge EXCEPT ![c] = tx[selected[c]]]
  /\ UNCHANGED <<selected, jobId, shown, started, server, history>>

\* Mutant: a run that could not connect leaves the console running.
Refreshed_OnlyCancelled(c, n) ==
  /\ run[c][n].pc \in {"done", "failed"}
  /\ ~ Superseded(c, n)
  /\ run[c][n].pc = "done" => state[c] = "cancelling"
  /\ Over(c, n)
  /\ IF state[c] = "cancelling" THEN ToIdle(c) ELSE UNCHANGED <<state, published>>
  /\ badge' = [badge EXCEPT ![c] = tx[selected[c]]]
  /\ UNCHANGED <<selected, jobId, shown, started, server, history>>

\* A cancelled run, or one that could not connect: refresh_transaction_badge
\* peeks at the selected connection, and nothing is shown.
Refreshed(c, n) ==
  /\ run[c][n].pc \in {"done", "failed"}
  /\ ~ Superseded(c, n)
  /\ run[c][n].pc = "done" => state[c] = "cancelling"
  /\ Over(c, n)
  /\ ToIdle(c)
  /\ badge' = [badge EXCEPT ![c] = tx[selected[c]]]
  /\ UNCHANGED <<selected, jobId, shown, started, server, history>>

Work(c, n) ==
  \/ Connect(c, n) \/ ConnectFails(c, n)
  \/ Send(c, n) \/ StatementOk(c, n) \/ StatementFails(c, n) \/ Peek(c, n)
  \/ DropStale(c, n) \/ Done(c, n) \/ Refreshed(c, n)

Act(c) ==
  \/ \E k \in Connection : Select(c, k)
  \/ \E s \in Script : Start(c, s)
  \/ Cancel(c)

Next == \E c \in Console : Act(c) \/ \E n \in Runs : Work(c, n)

Spec == Init /\ [][Next]_vars

\* Threads go on, statements end and the main loop handles what was posted
\* to it.
FairSpec == Spec /\ \A c \in Console, n \in Runs : WF_vars(Work(c, n))

-----------------------------------------------------------------------------
(***************************************************************************)
(* Properties.                                                             *)
(***************************************************************************)

\* "A run that is cancelled -- or one you supersede by starting another --
\* never puts its rows in the grid, even if the server finishes it anyway"
\* (docs/getting-started.md).
NoStaleRows ==
  [][\A c \in Console : shown'[c] # shown[c] =>
       shown'[c] = jobId[c] /\ <<c, shown'[c]>> \notin cancelled]_vars

\* A superseded script sends at most the statement it was about to send.
SupersededStops == \A c \in Console, n \in Runs : extra[c][n] <= 1

\* With one run at a time over all consoles and the dropdown left alone
\* meanwhile, the badge of the console that ran last tells whether its
\* connection has a transaction open, however the run ended.
BadgeIsTrue == Quiet => \A c \in sound : badge[c] = tx[selected[c]]

\* A console never stays busy: every run it starts, cancelled, superseded
\* or failed, gives it back.
EveryRunReturns == \A c \in Console : state[c] # "idle" ~> state[c] = "idle"

\* "A cancel between statements stops the script here rather than running
\* the rest of it" (the comment in work()): a run that was cancelled does
\* not begin another statement of its script.
CancelStopsScript == defied = {}
=============================================================================
