---------------------------- MODULE MCGridWindow ----------------------------
(* Small instances of GridWindow: rows, of which the narrow filter keeps    *)
(* every other one and the empty one none, in pages of two.                 *)
EXTENDS GridWindow, TLC

CONSTANT Size     \* rows in the table

MCRows ==
  [f \in Filter |-> CASE f = "wide"   -> [i \in 1..Size |-> i]
                      [] f = "narrow" -> [i \in 1..(Size \div 2) |-> 2 * i]
                      [] OTHER        -> <<>>]

Symmetry == Permutations(Request)
=============================================================================
