--------------------------- MODULE MCCatalogCache ---------------------------
(* Small instances of CatalogCache: threads are interchangeable in the      *)
(* safety runs.                                                             *)
EXTENDS CatalogCache, TLC

Symmetry == Permutations(Reader) \cup Permutations(Writer)
=============================================================================
