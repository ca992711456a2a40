---------------------------- MODULE MCStatements ----------------------------
(* What runs on a session: the scripts of two consoles and the batches of   *)
(* two threads (RowBatch), side by side: part tells which of them moves, so *)
(* that one run asks both questions.  TRUNCATE commits on MySQL, so a       *)
(* replacing load is left out there.                                        *)
EXTENDS MCQueryConsole

CONSTANTS Batcher, Ops, UserRow, Engines, Kinds, Serial, Refusing

VARIABLES part, engine, db, pc, kind, joined, next, locate, outcome, snap

batchVars == <<engine, db, pc, kind, joined, next, locate, outcome, snap>>
allVars   == <<part, vars, batchVars>>

B == INSTANCE RowBatch WITH Thread <- Batcher

ASSUME InstanceAssumption == B!BatchAssumption

AllKinds == {"save", "load", "replace"}
MCKinds == [e \in Engines |-> IF e = "mysql" THEN AllKinds \ {"replace"}
                                            ELSE AllKinds]

Scripting == part = "scripts" /\ Next /\ UNCHANGED <<part, batchVars>>
Batching  == part = "batches" /\ B!Next /\ UNCHANGED <<part, vars>>

\* The part that does not move is in one of its initial states.
MCInit ==
  /\ Init /\ B!Init
  /\ \/ part = "scripts" /\ engine = "sqlite" /\ db.rows = {}
     \/ part = "batches" /\ selected = CHOOSE s \in [Console -> Connection] : TRUE

MCFairSpec ==
  /\ MCInit /\ [][Scripting \/ Batching]_allVars
  /\ \A c \in Console, n \in Runs :
       WF_allVars(part = "scripts" /\ Work(c, n) /\ UNCHANGED <<part, batchVars>>)
  /\ \A t \in Batcher :
       WF_allVars(part = "batches" /\ B!Continue(t) /\ UNCHANGED <<part, vars>>)

\* RowBatch's properties, stated there: a batch lands whole or not at all;
\* every batch that was begun ends.
Atomic == B!Atomic
EveryBatchEnds == B!EveryBatchEnds
=============================================================================
