----------------------------- MODULE MCRowBatch -----------------------------
(* Saves of two operations, on a connection somebody else uses too.        *)
EXTENDS RowBatch, TLC

Saves == [e \in Engines |-> {"save"}]
=============================================================================
