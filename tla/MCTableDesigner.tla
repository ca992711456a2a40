--------------------------- MODULE MCTableDesigner ---------------------------
(* The designer alone.  The table starts with two columns; the third name   *)
(* is what one is renamed to, or a new column gets.  Two edits are enough   *)
(* to force a rebuild and one more change beside it, two plans for one to   *)
(* run into what the other left.                                            *)
EXTENDS TableDesigner, TLC

Symmetry == Permutations(Name)
=============================================================================
