------------------------------ MODULE GridEdits ------------------------------
(***************************************************************************)
(* Unsaved edits of a table tab (frontend/data_grid.py, TableTab): typing, *)
(* adding and deleting rows, the review dialog, Save, Refresh, and the     *)
(* save that closing a connection's tabs asks for.                         *)
(*                                                                         *)
(* A save and a reload each run on a thread of their own and come back to  *)
(* the main loop when they are done.  A batch lands whole or not at all    *)
(* (module RowBatch); one statement that matches no row fails it.          *)
(***************************************************************************)
EXTENDS Naturals, FiniteSets

CONSTANTS
  Stored,        \* rows the table has at first
  Added,         \* rows the user may add
  Slot,          \* saves and reloads in flight
  MaxCopies,     \* bound: how often a row may be inserted
  Closable,      \* TRUE: the connection's tabs may be closed with "Save"
  WriteMayFail,  \* TRUE: the server may refuse a batch
  ReloadMayFail  \* TRUE: a reload may fail

Row == Stored \cup Added

\* What the constants are, assumed where the module is instantiated.
EditsAssumption ==
  /\ Stored \cap Added = {}
  /\ MaxCopies \in Nat \ {0}
  /\ {Closable, WriteMayFail, ReloadMayFail} \subseteq BOOLEAN

VARIABLES
  item,     \* the grid's row items: not shown, loaded, or blank
  pending,  \* _pending, by kind
  review,   \* the batch the preview dialog was opened with, or none
  job,      \* saves and reloads in flight
  closed,   \* the tab is gone
  copies,   \* the table: how many rows of it are row r
  asked,    \* history: what the user asked of r and has not taken back
  stale,    \* history: the last reload failed
  hasty     \* history: the user did something during a save or a reload

grid == <<item, pending, review, closed>>
vars == <<grid, job, copies, asked, stale, hasty>>

\* An "empty" insert has no cell filled in yet; apply_changes refuses it.
Kinds   == {"none", "update", "empty", "insert", "delete"}
Nothing == [r \in Row |-> "none"]
\* A batch is what _pending_updates lists.  "astray" is an UPDATE or DELETE
\* whose key was read off a blank row: it matches no row of the table.
Batches == [Row -> Kinds \cup {"astray"}]
Idle    == [kind |-> "idle", batch |-> Nothing, seen |-> {}]
Jobs    == [kind : {"idle", "save", "saved", "failed", "closing", "reload", "read"},
            batch : Batches, seen : SUBSET Row]

TypeOK ==
  /\ item \in [Row -> {"absent", "loaded", "blank"}]
  /\ pending \in [Row -> Kinds]
  /\ review \in Batches
  /\ job \in [Slot -> Jobs]
  /\ closed \in BOOLEAN
  /\ copies \in [Row -> 0..MaxCopies]
  /\ asked \in [Row -> Kinds]
  /\ stale \in BOOLEAN
  /\ hasty \in BOOLEAN

AtRest  == \A q \in Slot : job[q].kind = "idle"
\* The preview dialog is modal.
MayAct  == ~ closed /\ review = Nothing

PendingUpdates ==
  [r \in Row |-> IF pending[r] \in {"update", "delete"} /\ item[r] = "blank"
                   THEN "astray" ELSE pending[r]]

Init ==
  /\ item = [r \in Row |-> IF r \in Stored THEN "loaded" ELSE "absent"]
  /\ pending = Nothing
  /\ review = Nothing
  /\ job = [q \in Slot |-> Idle]
  /\ closed = FALSE
  /\ copies = [r \in Row |-> IF r \in Stored THEN 1 ELSE 0]
  /\ asked = Nothing
  /\ stale = FALSE
  /\ hasty = FALSE

-----------------------------------------------------------------------------
(***************************************************************************)
(* The user.                                                               *)
(***************************************************************************)
SetPending(r, kind) ==
  /\ pending' = [pending EXCEPT ![r] = kind]
  /\ asked' = [asked EXCEPT ![r] = kind]

\* A cell is typed over: in a row of the table an UPDATE, in an added row
\* part of its INSERT.
CommitEdit(r) ==
  /\ MayAct
  /\ item[r] # "absent"
  /\ pending[r] # "delete"
  /\ SetPending(r, IF pending[r] \in {"empty", "insert"} THEN "insert" ELSE "update")
  /\ UNCHANGED <<item, review, closed, job, copies, stale>>

InsertRow(r) ==
  /\ MayAct
  /\ r \in Added
  /\ item[r] = "absent"
  /\ item' = [item EXCEPT ![r] = "blank"]
  /\ SetPending(r, "empty")
  /\ UNCHANGED <<review, closed, job, copies, stale>>

\* Deleting an added row takes its insert back; the blank row stays shown.
DeleteRow(r) ==
  /\ MayAct
  /\ item[r] # "absent"
  /\ pending[r] # "delete"
  /\ SetPending(r, IF pending[r] \in {"empty", "insert"} THEN "none" ELSE "delete")
  /\ UNCHANGED <<item, review, closed, job, copies, stale>>

\* Save opens the preview on the batch as it is now.
SaveClicked ==
  /\ MayAct
  /\ pending # Nothing
  /\ review' = PendingUpdates
  /\ UNCHANGED <<item, pending, closed, job, copies, asked, stale>>

CancelReview ==
  /\ review # Nothing
  /\ review' = Nothing
  /\ UNCHANGED <<item, pending, closed, job, copies, asked, stale>>

\* Mutant: the edits leave the pending list when the save is sent.
ExecuteUpdates_Forgets(q) ==
  /\ review # Nothing
  /\ job[q] = Idle
  /\ job' = [job EXCEPT ![q] = [Idle EXCEPT !.kind = "save", !.batch = review]]
  /\ review' = Nothing
  /\ pending' = Nothing
  /\ UNCHANGED <<item, closed, copies, asked, stale>>

ExecuteUpdates(q) ==
  /\ review # Nothing
  /\ job[q] = Idle
  /\ job' = [job EXCEPT ![q] = [Idle EXCEPT !.kind = "save", !.batch = review]]
  /\ review' = Nothing
  /\ UNCHANGED <<item, pending, closed, copies, asked, stale>>

\* "Refresh (discards unsaved edits)": they go when the reload comes back.
Refresh(q) ==
  /\ MayAct
  /\ job[q] = Idle
  /\ job' = [job EXCEPT ![q] = [Idle EXCEPT !.kind = "reload"]]
  /\ asked' = Nothing
  /\ UNCHANGED <<grid, copies, stale>>

\* Close all related tabs, answered "Save": the write is sent and the tab
\* goes at once.
CloseSaving(q) ==
  /\ Closable
  /\ MayAct
  /\ pending # Nothing
  /\ job[q] = Idle
  /\ job' = [job EXCEPT ![q] = [Idle EXCEPT !.kind = "closing",
                                            !.batch = PendingUpdates]]
  /\ pending' = Nothing
  /\ closed' = TRUE
  /\ UNCHANGED <<item, review, copies, asked, stale>>

-----------------------------------------------------------------------------
(***************************************************************************)
(* The threads, and their answers on the main loop.                        *)
(***************************************************************************)
Matches(b) ==
  \A r \in Row : /\ b[r] \notin {"astray", "empty"}
                 /\ b[r] \in {"update", "delete"} => copies[r] > 0

Applied(b) ==
  [r \in Row |-> CASE b[r] = "insert" -> copies[r] + 1
                   [] b[r] = "delete" -> copies[r] - 1
                   [] OTHER           -> copies[r]]

\* apply_changes lands.
Write(q) ==
  LET b == job[q].batch
  IN /\ job[q].kind \in {"save", "closing"}
     /\ Matches(b)
     /\ \A r \in Row : Applied(b)[r] <= MaxCopies
     /\ copies' = Applied(b)
     /\ asked' = [r \in Row |-> IF b[r] = asked[r] THEN "none" ELSE asked[r]]
     /\ job' = [job EXCEPT ![q] = IF job[q].kind = "save"
                                    THEN [Idle EXCEPT !.kind = "saved"] ELSE Idle]
     /\ UNCHANGED <<grid, stale>>

\* apply_changes rolled back.
WriteFails(q) ==
  /\ job[q].kind \in {"save", "closing"}
  /\ WriteMayFail \/ ~ Matches(job[q].batch)
  /\ job' = [job EXCEPT ![q] = IF job[q].kind = "save"
                                 THEN [Idle EXCEPT !.kind = "failed"] ELSE Idle]
  /\ UNCHANGED <<grid, copies, asked, stale>>

\* Mutant: a save that landed does not reload.
SaveDone_NoReload(q) ==
  /\ job[q].kind \in {"saved", "failed"}
  /\ pending' = IF job[q].kind = "saved" THEN Nothing ELSE pending
  /\ job' = [job EXCEPT ![q] = Idle]
  /\ UNCHANGED <<item, review, closed, copies, asked, stale>>

\* Mutant: nor does it touch the pending list.
SaveDone_Keeps(q) ==
  /\ job[q].kind \in {"saved", "failed"}
  /\ job' = [job EXCEPT ![q] = Idle]
  /\ UNCHANGED <<grid, copies, asked, stale>>

\* _execute_updates' done reloads; its failed leaves the edits pending.
SaveDone(q) ==
  /\ job[q].kind \in {"saved", "failed"}
  /\ job' = [job EXCEPT ![q] = IF job[q].kind = "saved"
                                 THEN [Idle EXCEPT !.kind = "reload"] ELSE Idle]
  /\ UNCHANGED <<grid, copies, asked, stale>>

Read(q) ==
  /\ job[q].kind = "reload"
  /\ job' = [job EXCEPT ![q] = [Idle EXCEPT !.kind = "read",
                                            !.seen = {r \in Row : copies[r] > 0}]]
  /\ UNCHANGED <<grid, copies, asked, stale>>

\* reload's done: new row items, and no edit is pending any more.
Reloaded(q) ==
  /\ job[q].kind = "read"
  /\ item' = [r \in Row |-> IF r \in job[q].seen THEN "loaded" ELSE "absent"]
  /\ pending' = Nothing
  /\ job' = [job EXCEPT ![q] = Idle]
  /\ stale' = FALSE
  /\ UNCHANGED <<review, closed, copies, asked>>

\* reload's failed: an error is shown, the tab is as it was.
ReloadFails(q) ==
  /\ ReloadMayFail
  /\ job[q].kind = "reload"
  /\ job' = [job EXCEPT ![q] = Idle]
  /\ stale' = TRUE
  /\ UNCHANGED <<grid, copies, asked>>

User ==
  \/ \E r \in Row : CommitEdit(r) \/ InsertRow(r) \/ DeleteRow(r)
  \/ SaveClicked
  \/ CancelReview
  \/ \E q \in Slot : ExecuteUpdates(q) \/ Refresh(q) \/ CloseSaving(q)

Worker(q) ==
  \/ Write(q) \/ WriteFails(q) \/ SaveDone(q)
  \/ Read(q) \/ Reloaded(q) \/ ReloadFails(q)

Next ==
  \/ User /\ hasty' = (hasty \/ ~ AtRest)
  \/ \E q \in Slot : Worker(q) /\ UNCHANGED hasty

Spec == Init /\ [][Next]_vars

-----------------------------------------------------------------------------
(***************************************************************************)
(* Properties.                                                             *)
(***************************************************************************)

\* "An added row is written as one INSERT" (_PendingRow's docstring): none is
\* written twice, though a failed save, a cancelled review or a close may be
\* tried again, unless the user acts while a save or reload is running or the
\* last reload failed.
AddedOnce ==
  [][\A r \in Added : copies'[r] > 1 => copies[r] > 1 \/ stale \/ hasty]_vars

\* The edits on r are pending, or on their way to the table.
Kept(r) ==
  \/ pending[r] = asked[r]
  \/ \E q \in Slot : /\ job[q].kind \in {"save", "closing"}
                     /\ job[q].batch[r] # "none"

\* An edit the user made and did not take back is kept until it is written,
\* after a failed save or a failed reload too, as long as the tab is open and
\* the user waits for what is running.
KeptWhileOpen == ~ closed /\ ~ hasty => \A r \in Row : asked[r] # "none" => Kept(r)

\* With nothing pending, nothing in flight and the last reload a success,
\* for a user who waited for each, the rows on the screen that carry a key are the rows of the table.
ScreenIsTable ==
  AtRest /\ ~ closed /\ ~ stale /\ ~ hasty /\ pending = Nothing =>
    \A r \in Row : (item[r] = "loaded") <=> (copies[r] > 0)
=============================================================================
