------------------------------ MODULE MCBackups ------------------------------
(* Two jobs, two workers; the workers are interchangeable.                  *)
EXTENDS Backups, TLC

CONSTANTS j1, j2, w1, w2

Symmetry == Permutations({w1, w2})

\* The slug of j1 and a dash begin the slug of j2: "db" and "db-prod".
OnePrefix == {<<j1, j2>>}
=============================================================================
