------------------------------ MODULE RowBatch ------------------------------
(***************************************************************************)
(* Batches of row changes on one connection: apply_changes (a grid's       *)
(* Save), insert_many (an import) and _locate_row (which row of a failed   *)
(* import is the bad one), in backend/db/base.py.                          *)
(*                                                                         *)
(* A batch is a sequence of statements: in_transaction(), BEGIN or a       *)
(* SAVEPOINT, the operations, then COMMIT / RELEASE, or ROLLBACK /         *)
(* ROLLBACK TO when one failed.  The connector lock is held for one        *)
(* statement, so each statement is one action; the console of the same     *)
(* connection sends statements of its own.  With Serial the other actors   *)
(* wait for a batch to end, as a user watching the Save does; without it   *)
(* they interleave, as the pooled connector lets them.                     *)
(*                                                                         *)
(* The session is a stack: what BEGIN and each SAVEPOINT would restore.    *)
(* What the servers make of a statement in the wrong place differs with    *)
(* the engine.                                                             *)
(***************************************************************************)
EXTENDS Naturals, Sequences, FiniteSets

CONSTANTS
  Thread,         \* worker threads, each applying one batch
  Ops,            \* operations of a batch (rows or chunks of an import)
  UserRow,        \* row changes the user makes outside any batch
  Engines,        \* engines tried: "sqlite", "postgres", "mysql"
  Kinds,          \* for each, the kinds of batch: "save", "load", "replace"
  Serial,         \* TRUE: nobody else uses the connection during a batch
  Refusing        \* engines whose COMMIT is refused (a deferred constraint)

\* What the constants are, assumed where the module is instantiated.
BatchAssumption ==
  /\ Ops \in Nat \ {0}
  /\ Engines \subseteq {"sqlite", "postgres", "mysql"}
  /\ Kinds \in [Engines -> SUBSET {"save", "load", "replace"}]
  /\ Serial \in BOOLEAN
  /\ Refusing \subseteq Engines

VARIABLES
  engine,    \* the connector's engine, which does not change
  db,        \* the session: [rows, stack, aborted]
  pc,        \* where each batch is
  kind,      \* what it is
  joined,    \* the user's transaction was open when it looked
  next,      \* the operation to run next
  locate,    \* it failed in a way _locate_row explains
  outcome,   \* "none", "ok" or "error"
  snap       \* history: the rows when it began

batch == <<pc, kind, joined, next, locate, outcome, snap>>
vars  == <<engine, db, batch>>

BatchPC == {"idle", "open", "before", "ops", "unwind", "probe", "probeopen",
            "proberow", "probeback", "proberel", "done"}

Batch(t) == {t} \X (1 .. Ops)
Row      == UserRow \cup UNION {Batch(t) : t \in Thread}
Names    == {"tx", "sqlide_apply", "sqlide_import", "sqlide_probe"}
Layer    == [name : Names, before : SUBSET Row]
Session  == [rows : SUBSET Row, stack : Seq(Layer), aborted : BOOLEAN]

Active(t) == pc[t] \notin {"idle", "done"}
Free      == Serial => \A t \in Thread : ~ Active(t)

TypeOK ==
  /\ engine \in Engines
  /\ db \in Session
  /\ pc \in [Thread -> BatchPC]
  /\ kind \in [Thread -> {"save", "load", "replace"}]
  /\ joined \in [Thread -> BOOLEAN]
  /\ next \in [Thread -> 1 .. Ops + 1]
  /\ locate \in [Thread -> BOOLEAN]
  /\ outcome \in [Thread -> {"none", "ok", "error"}]
  /\ snap \in [Thread -> SUBSET Row]

Init ==
  /\ engine \in Engines
  /\ db \in [rows : SUBSET UserRow, stack : {<<>>}, aborted : {FALSE}]
  /\ pc = [t \in Thread |-> "idle"]
  /\ kind = [t \in Thread |-> "save"]
  /\ joined = [t \in Thread |-> FALSE]
  /\ next = [t \in Thread |-> 1]
  /\ locate = [t \in Thread |-> FALSE]
  /\ outcome = [t \in Thread |-> "none"]
  /\ snap = [t \in Thread |-> {}]

-----------------------------------------------------------------------------
(***************************************************************************)
(* The servers: each statement gives [ok, db].                             *)
(***************************************************************************)
InTransaction(d) == d.stack # <<>>

Ok(d) == [ok |-> TRUE, db |-> d]

\* PostgreSQL refuses everything after an error until a rollback.
Err(d) == [ok |-> FALSE,
           db |-> IF engine = "postgres" /\ InTransaction(d)
                    THEN [d EXCEPT !.aborted = TRUE] ELSE d]

Unless(d, result) == IF d.aborted THEN Err(d) ELSE result

Push(d, n) == [d EXCEPT !.stack = Append(@, [name |-> n, before |-> d.rows])]

Closed(rows) == [rows |-> rows, stack |-> <<>>, aborted |-> FALSE]

SqlBegin(d) ==
  Unless(d, IF ~ InTransaction(d) THEN Ok(Push(d, "tx"))
            ELSE CASE engine = "sqlite" -> Err(d)
                   [] engine = "postgres" -> Ok(d)
                   [] engine = "mysql" -> Ok(Push(Closed(d.rows), "tx")))

\* The layers called n, and the innermost of them.
Depths(d, n) == {i \in DOMAIN d.stack : d.stack[i].name = n}
Depth(d, n)  == CHOOSE i \in Depths(d, n) : \A j \in Depths(d, n) : j <= i

\* A second savepoint of one name shadows the first; MySQL replaces it, so
\* that there is one of each name at most.
Replaced(d, n) ==
  LET i == CHOOSE i \in Depths(d, n) : TRUE
  IN IF Depths(d, n) = {} THEN d.stack
     ELSE SubSeq(d.stack, 1, i - 1) \o SubSeq(d.stack, i + 1, Len(d.stack))

SqlSavepoint(d, n) ==
  Unless(d, CASE engine = "mysql" /\ ~ InTransaction(d) -> Ok(d)
              [] engine = "mysql" /\ InTransaction(d) ->
                   Ok(Push([d EXCEPT !.stack = Replaced(d, n)], n))
              [] engine = "postgres" /\ ~ InTransaction(d) -> Err(d)
              [] OTHER -> Ok(Push(d, n)))

SqlRollbackTo(d, n) ==
  IF Depths(d, n) = {} THEN Err(d)
  ELSE Ok([rows |-> d.stack[Depth(d, n)].before,
           stack |-> SubSeq(d.stack, 1, Depth(d, n)),
           aborted |-> FALSE])

SqlRelease(d, n) ==
  Unless(d, IF Depths(d, n) = {} THEN Err(d)
            ELSE Ok([d EXCEPT !.stack = SubSeq(@, 1, Depth(d, n) - 1)]))

\* COMMIT or ROLLBACK where there is nothing to end.
NothingOpen(d) == IF engine = "sqlite" THEN Err(d) ELSE Ok(d)

SqlRollback(d) ==
  IF InTransaction(d) THEN Ok(Closed(d.stack[1].before)) ELSE NothingOpen(d)

\* Committing an aborted transaction rolls it back, and says nothing.
SqlCommit(d) ==
  IF InTransaction(d) /\ ~ d.aborted THEN Ok(Closed(d.rows)) ELSE SqlRollback(d)

\* A refused COMMIT: SQLite keeps the transaction open, the others end it.
SqlCommitRefused(d) ==
  [ok |-> FALSE,
   db |-> IF engine = "sqlite" THEN d ELSE SqlRollback(d).db]

SqlWrite(d, S) == Unless(d, Ok([d EXCEPT !.rows = @ \cup S]))

\* truncate_sql: TRUNCATE commits implicitly on MySQL.
SqlEmpty(d) ==
  Unless(d, IF engine = "mysql" THEN Ok(Closed({}))
            ELSE Ok([d EXCEPT !.rows = {}]))

-----------------------------------------------------------------------------
(***************************************************************************)
(* A batch.                                                                *)
(***************************************************************************)
Savepoint(t) == IF kind[t] = "save" THEN "sqlide_apply" ELSE "sqlide_import"

Goto(t, p) == pc' = [pc EXCEPT ![t] = p]

End(t, result) ==
  /\ Goto(t, "done")
  /\ outcome' = [outcome EXCEPT ![t] = result]

\* apply_changes / insert_many up to `joined = self.in_transaction()`.
Start(t, k) ==
  /\ pc[t] = "idle"
  /\ Free
  /\ Goto(t, "open")
  /\ kind' = [kind EXCEPT ![t] = k]
  /\ joined' = [joined EXCEPT ![t] = InTransaction(db)]
  /\ snap' = [snap EXCEPT ![t] = db.rows]
  /\ UNCHANGED <<engine, db, next, locate, outcome>>

\* BEGIN, or SAVEPOINT inside the user's transaction; a failure is raised.
OpenBatch(t) ==
  /\ pc[t] = "open"
  /\ LET r == IF joined[t] THEN SqlSavepoint(db, Savepoint(t)) ELSE SqlBegin(db)
     IN /\ db' = r.db
        /\ \/ /\ r.ok
              /\ Goto(t, IF kind[t] = "replace" THEN "before" ELSE "ops")
              /\ UNCHANGED outcome
           \/ ~ r.ok /\ End(t, "error")
  /\ UNCHANGED <<kind, joined, next, locate, snap>>

\* `before`, the statement of a replacing import that empties the table.
EmptyTable(t) ==
  /\ pc[t] = "before"
  /\ LET r == SqlEmpty(db)
     IN db' = r.db /\ Goto(t, IF r.ok THEN "ops" ELSE "unwind")
  /\ UNCHANGED <<kind, joined, next, locate, outcome, snap>>

\* One operation of a Save, or one chunk of an import, goes through.
RunOp(t) ==
  /\ pc[t] = "ops"
  /\ next[t] <= Ops
  /\ LET r == SqlWrite(db, {<<t, next[t]>>})
     IN /\ db' = r.db
        /\ \/ r.ok /\ next' = [next EXCEPT ![t] = @ + 1] /\ UNCHANGED <<pc, locate>>
           \/ /\ ~ r.ok
              /\ Goto(t, "unwind")
              /\ locate' = [locate EXCEPT ![t] = kind[t] # "save"]
              /\ UNCHANGED next
  /\ UNCHANGED <<kind, joined, outcome, snap>>

\* It raises: a Save's statement leaves nothing, a chunk may leave a part.
RunOpRaises(t) ==
  /\ pc[t] = "ops"
  /\ next[t] <= Ops
  /\ \E S \in SUBSET {<<t, next[t]>>} :
       /\ kind[t] = "save" => S = {}
       /\ db' = Err(SqlWrite(db, S).db).db
  /\ Goto(t, "unwind")
  /\ locate' = [locate EXCEPT ![t] = kind[t] # "save"]
  /\ UNCHANGED <<kind, joined, next, outcome, snap>>

\* An UPDATE or DELETE of a Save matched no row, or more than one.
RowcountMismatch(t) ==
  /\ pc[t] = "ops"
  /\ kind[t] = "save"
  /\ next[t] <= Ops
  /\ \E S \in SUBSET {<<t, next[t]>>} : db' = SqlWrite(db, S).db
  /\ Goto(t, "unwind")
  /\ UNCHANGED <<kind, joined, next, locate, outcome, snap>>

\* The user stops an import; polled between chunks.
Cancel(t) ==
  /\ pc[t] = "ops"
  /\ kind[t] # "save"
  /\ next[t] <= Ops
  /\ Goto(t, "unwind")
  /\ UNCHANGED <<db, kind, joined, next, locate, outcome, snap>>

\* Mutant: the whole transaction is rolled back, the user's included.
Unwind_Everything(t) ==
  /\ pc[t] = "unwind"
  /\ db' = SqlRollback(db).db
  /\ IF locate[t] THEN Goto(t, "probe") /\ UNCHANGED outcome ELSE End(t, "error")
  /\ UNCHANGED <<kind, joined, next, locate, snap>>

\* Mutant: a failed batch is tried again from its start.
Unwind_Retries(t) ==
  /\ pc[t] = "unwind"
  /\ db' = (IF joined[t] THEN SqlRollbackTo(db, Savepoint(t))
                         ELSE SqlRollback(db)).db
  /\ Goto(t, "open")
  /\ UNCHANGED <<kind, joined, next, locate, outcome, snap>>

\* The first failure undoes the batch; an error while undoing is dropped.
Unwind(t) ==
  /\ pc[t] = "unwind"
  /\ db' = (IF joined[t] THEN SqlRollbackTo(db, Savepoint(t))
                         ELSE SqlRollback(db)).db
  /\ IF locate[t] THEN Goto(t, "probe") /\ UNCHANGED outcome ELSE End(t, "error")
  /\ UNCHANGED <<kind, joined, next, locate, snap>>

\* RELEASE or COMMIT, after the try: a failure here is raised as it is.
Finish(t) ==
  /\ pc[t] = "ops"
  /\ next[t] > Ops
  /\ LET r == IF joined[t] THEN SqlRelease(db, Savepoint(t)) ELSE SqlCommit(db)
     IN db' = r.db /\ End(t, IF r.ok THEN "ok" ELSE "error")
  /\ UNCHANGED <<kind, joined, next, locate, snap>>

CommitRefused(t) ==
  /\ engine \in Refusing
  /\ pc[t] = "ops"
  /\ next[t] > Ops
  /\ ~ joined[t]
  /\ InTransaction(db)
  /\ db' = SqlCommitRefused(db).db
  /\ End(t, "error")
  /\ UNCHANGED <<kind, joined, next, locate, snap>>

\* _locate_row: look again whether a transaction is open ...
ProbeStart(t) ==
  /\ pc[t] = "probe"
  /\ Goto(t, "probeopen")
  /\ joined' = [joined EXCEPT ![t] = InTransaction(db)]
  /\ UNCHANGED <<db, kind, next, locate, outcome, snap>>

\* ... open one to be thrown away ...
ProbeOpen(t) ==
  /\ pc[t] = "probeopen"
  /\ LET r == IF joined[t] THEN SqlSavepoint(db, "sqlide_probe") ELSE SqlBegin(db)
     IN /\ db' = r.db
        /\ \/ r.ok /\ Goto(t, "proberow") /\ UNCHANGED outcome
           \/ ~ r.ok /\ End(t, "error")
  /\ UNCHANGED <<kind, joined, next, locate, snap>>

\* ... replay the chunk row by row, up to the bad one or to the end ...
ProbeRow(t) ==
  /\ pc[t] = "proberow"
  /\ \E S \in SUBSET {<<t, next[t]>>} :
       db' \in {SqlWrite(db, S).db, Err(SqlWrite(db, S).db).db}
  /\ Goto(t, "probeback")
  /\ UNCHANGED <<kind, joined, next, locate, outcome, snap>>

\* ... and roll back whatever happened.
ProbeBack(t) ==
  /\ pc[t] = "probeback"
  /\ LET r == IF joined[t] THEN SqlRollbackTo(db, "sqlide_probe")
                           ELSE SqlRollback(db)
     IN /\ db' = r.db
        /\ IF joined[t] /\ r.ok THEN Goto(t, "proberel") /\ UNCHANGED outcome
                                ELSE End(t, "error")
  /\ UNCHANGED <<kind, joined, next, locate, snap>>

ProbeRelease(t) ==
  /\ pc[t] = "proberel"
  /\ db' = SqlRelease(db, "sqlide_probe").db
  /\ End(t, "error")
  /\ UNCHANGED <<kind, joined, next, locate, snap>>

Continue(t) ==
  /\ UNCHANGED engine
  /\ \/ OpenBatch(t) \/ EmptyTable(t)
     \/ RunOp(t) \/ RunOpRaises(t) \/ RowcountMismatch(t) \/ Cancel(t)
     \/ Unwind(t) \/ Finish(t) \/ CommitRefused(t)
     \/ ProbeStart(t) \/ ProbeOpen(t) \/ ProbeRow(t) \/ ProbeBack(t)
     \/ ProbeRelease(t)

BatchStep(t) == (\E k \in Kinds[engine] : Start(t, k)) \/ Continue(t)

-----------------------------------------------------------------------------
(***************************************************************************)
(* The user's statements on the same connection, one execute() each.       *)
(***************************************************************************)
UserBegin    == Free /\ db' = SqlBegin(db).db /\ UNCHANGED batch
UserCommit   == Free /\ db' = SqlCommit(db).db /\ UNCHANGED batch
UserRollback == Free /\ db' = SqlRollback(db).db /\ UNCHANGED batch
UserWrite    == /\ Free
                /\ \E u \in UserRow : db' = SqlWrite(db, {u}).db
                /\ UNCHANGED batch
UserError    == Free /\ db' = Err(db).db /\ UNCHANGED batch

UserStep ==
  /\ UNCHANGED engine
  /\ UserBegin \/ UserCommit \/ UserRollback \/ UserWrite \/ UserError

Next == (\E t \in Thread : BatchStep(t)) \/ UserStep

Spec == Init /\ [][Next]_vars

\* A worker thread that has begun a batch goes on with it.
FairSpec == Spec /\ \A t \in Thread : WF_vars(Continue(t))

-----------------------------------------------------------------------------
(***************************************************************************)
(* Properties.                                                             *)
(***************************************************************************)

\* The promise of apply_changes and insert_many, AtomicSave: seen from
\* outside a batch is one step that lands everything or changes nothing,
\* and never ends, undoes or opens the user's transaction.  While a batch
\* runs, what it began from is what counts.
Began    == {t \in Thread : Active(t)}
SeenRows == IF Began = {} THEN db.rows ELSE snap[CHOOSE t \in Began : TRUE]
Restore  == IF InTransaction(db) /\ \A t \in Began : joined[t]
              THEN {db.stack[1].before} ELSE {}

Promise == INSTANCE AtomicSave WITH rows <- SeenRows, restore <- Restore

Atomic == Promise!Spec

\* "Everything in operations lands or nothing does": whatever else happens
\* on the connection, a finished batch is there whole or not at all, and a
\* failed one is not there.
AllOrNothing ==
  \A t \in Thread : pc[t] = "done" =>
    \/ Batch(t) \cap db.rows = {}
    \/ outcome[t] = "ok" /\ Batch(t) \subseteq db.rows

\* No batch hangs: each one that begins comes to an outcome.
EveryBatchEnds == \A t \in Thread : Active(t) ~> outcome[t] # "none"
=============================================================================
