----------------------------- MODULE AtomicSave -----------------------------
(***************************************************************************)
(* What Connector.apply_changes and insert_many promise: a batch of row    *)
(* operations lands whole or leaves nothing behind, in one step, and the   *)
(* transaction a user has open on the connection is neither ended nor      *)
(* undone by it.                                                           *)
(***************************************************************************)
CONSTANTS
  Thread,      \* worker threads, each applying one batch
  Row,         \* row changes
  Batch(_)     \* the row changes of a thread's batch

VARIABLES
  rows,        \* what the connection sees
  restore,     \* what ROLLBACK restores: {} or {one set of rows}
  outcome      \* what each thread's batch came to

vars == <<rows, restore, outcome>>

Init ==
  /\ rows \subseteq Row
  /\ restore = {}
  /\ outcome = [t \in Thread |-> "none"]

\* The batch lands; a replacing load empties the table first.
Land(t) ==
  /\ outcome[t] = "none"
  /\ outcome' = [outcome EXCEPT ![t] = "ok"]
  /\ rows' \in {rows \cup Batch(t), Batch(t)}
  /\ UNCHANGED restore

Fail(t) ==
  /\ outcome[t] = "none"
  /\ outcome' = [outcome EXCEPT ![t] = "error"]
  /\ UNCHANGED <<rows, restore>>

\* The user's own statements.
Write ==
  /\ rows' \subseteq Row
  /\ rows \subseteq rows'
  /\ UNCHANGED <<restore, outcome>>

Begin ==
  /\ restore' = {rows}
  /\ UNCHANGED <<rows, outcome>>

End ==
  /\ restore # {}
  /\ restore' = {}
  /\ rows' \in {rows} \cup restore
  /\ UNCHANGED outcome

Next ==
  \/ \E t \in Thread : Land(t) \/ Fail(t)
  \/ Write \/ Begin \/ End

Spec == Init /\ [][Next]_vars
=============================================================================
