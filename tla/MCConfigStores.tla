--------------------------- MODULE MCConfigStores ---------------------------
(* The two files alone: three saves are enough to empty a document, write   *)
(* it again and be read at the next start.                                  *)
EXTENDS ConfigStores, TLC
=============================================================================
