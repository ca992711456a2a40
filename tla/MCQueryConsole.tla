--------------------------- MODULE MCQueryConsole ---------------------------
(* Two consoles that may share a session; a script of two statements is the *)
(* shortest that can be stopped between statements.                         *)
EXTENDS QueryConsole

MCScripts == {<<"begin">>, <<"plain", "end">>}
=============================================================================
