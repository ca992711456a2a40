----------------------------- MODULE MCSessions -----------------------------
(* The pool of connectors, and the tabs that keep one at work: the monitor  *)
(* (MonitorTab), a dashboard (DashboardTab) and the table designer          *)
(* (TableDesigner), side by side: part tells which of them moves, so that   *)
(* one run asks the questions of all.  The designer's column names are      *)
(* interchangeable, so the table starts with two given ones.                *)
EXTENDS MCConnectors

CONSTANTS
  MaxCount, MaxRestarts,                      \* MonitorTab
  Query, MaxCells, MaxText, MaxHand,          \* DashboardTab
  ColumnName, NoColumnName, MaxFormEdits, MaxApplies  \* TableDesigner

VARIABLES
  part,
  opening, held, ownSession, gone, idle, sampling, storing, liveTimer, disk,
  samples, sizes, server, previous, restarted, failing, overlap,
  board, file, changed, hand, text, card, sweep, currentSweep, running,
  timer, paused, closed, conn,
  dialect, table, backup, saved, enforced, current, rows, pk, index, jobs,
  edits, applies

monitorVars == <<opening, held, ownSession, gone, idle, sampling, storing,
                 liveTimer, disk, samples, sizes, server, previous, restarted,
                 failing, overlap>>
boardVars   == <<board, file, changed, hand, text, card, sweep, currentSweep,
                 running, timer, paused, closed, conn>>
designVars  == <<dialect, table, backup, saved, enforced, current, rows, pk,
                 index, jobs, edits, applies>>
allVars     == <<part, vars, monitorVars, boardVars, designVars>>

M == INSTANCE MonitorTab WITH session <- ownSession, closed <- gone,
       paused <- idle, live <- liveTimer, jobs <- samples
B == INSTANCE DashboardTab WITH current <- currentSweep
D == INSTANCE TableDesigner WITH Name <- ColumnName, NoName <- NoColumnName,
       MaxEdits <- MaxFormEdits

ASSUME InstanceAssumption ==
  M!MonitorAssumption /\ B!DashboardAssumption /\ D!NoNameAssumption

FirstColumns == [i \in DOMAIN rows |-> rows[i].name] = <<"a", "b">>
EmptyBoard   == board.cells = <<>>
PlainTable   == dialect = "sqlite" /\ index = {} /\ pk = {} /\ ~ D!Holed(table, {"b"})
OldNames     == \A p \in Initial : name[p] = "a"

\* The parts that do not move are in one of their initial states; the pool's
\* two names are interchangeable.
MCInit ==
  /\ Init /\ M!Init /\ B!Init /\ D!Init /\ OldNames /\ FirstColumns
  /\ \/ part \in {"pool", "monitor"} /\ EmptyBoard /\ PlainTable
     \/ part = "board" /\ PlainTable
     \/ part = "designer" /\ EmptyBoard

MCNext ==
  \/ part = "pool" /\ Next /\ UNCHANGED <<part, monitorVars, boardVars, designVars>>
  \/ part = "monitor" /\ M!Next /\ UNCHANGED <<part, vars, boardVars, designVars>>
  \/ part = "board" /\ B!Next /\ UNCHANGED <<part, vars, monitorVars, designVars>>
  \/ part = "designer" /\ D!Next /\ UNCHANGED <<part, vars, monitorVars, boardVars>>

MCSpec == MCInit /\ [][MCNext]_allVars

\* Nothing is polled for a tab nobody looks at: MonitorTab's
\* NobodyLooksNobodyPolls and DashboardTab's NobodyLooks.  A part that does
\* not move stays where it was when it was the one to move, so each property
\* is asked of the states its own part reaches.
NobodyLooks ==
  /\ part = "monitor" => M!NobodyLooksNobodyPolls
  /\ part = "board" => B!NobodyLooks

\* The properties of MonitorTab, DashboardTab and TableDesigner, stated there.
NoFalseRestart == part = "monitor" => M!NoFalseRestart
DrawnIsOwn == part = "board" => B!DrawnIsOwn
RefreshingEnds == part = "board" => B!RefreshingEnds
FileIsBoard == part = "board" => B!FileIsBoard
LossIsFlagged == part = "designer" => D!LossIsFlagged
HalfwayRollsBack == part = "designer" => D!HalfwayRollsBack
PlanMigrates == part = "designer" => D!PlanMigrates
=============================================================================
