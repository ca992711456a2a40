---------------------------- MODULE MCConnectors ----------------------------
(* One connection, a second one added later, two names: enough for a name   *)
(* to change hands while a tab still has it.                                *)
EXTENDS Connectors, TLC

Symmetry == Permutations(Tab)
=============================================================================
