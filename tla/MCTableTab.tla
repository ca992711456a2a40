----------------------------- MODULE MCTableTab -----------------------------
(* The tabs that show rows: a table's pages, the edits that wait to be      *)
(* saved (GridEdits), and the visual query builder (QueryBuilder), side by  *)
(* side: part tells which of them moves, so that one run asks the questions *)
(* of all.  The requests in flight are interchangeable.                     *)
EXTENDS MCGridWindow

CONSTANTS
  Stored, Added, MaxCopies, Closable, WriteMayFail, ReloadMayFail,  \* GridEdits
  Catalogs, ForeignKeys, Word, Function, Kind,                      \* QueryBuilder
  MaxJoins, MaxPicks, MaxEdits, MaxReopened

VARIABLES
  part, item, pending, review, job, closed, copies, asked, stale, hasty,
  catalog, builder, edits, reopened

editVars  == <<item, pending, review, job, closed, copies, asked, stale, hasty>>
queryVars == <<catalog, builder, edits, reopened>>
allVars   == <<part, vars, editVars, queryVars>>

E == INSTANCE GridEdits WITH Slot <- Request
Q == INSTANCE QueryBuilder WITH tab <- builder

\* Two tables, with a key of one to itself and a composite one between them,
\* and the same database after the first was dropped and the other altered.
FullSchema == <<[table |-> "p", columns |-> <<"id", "n">>],
            [table |-> "q", columns |-> <<"k", "id">>]>>
AlteredSchema  == <<[table |-> "q", columns |-> <<"id">>]>>
BuilderCatalogs == {FullSchema, AlteredSchema}
BuilderKeys ==
  <<[table |-> "p", ref |-> "p", pairs |-> <<<<"n", "id">>>>],
    [table |-> "q", ref |-> "p", pairs |-> <<<<"k", "id">>, <<"id", "n">>>>]>>
BuilderWords == {<<"q">>}
BuilderFunctions == <<"COUNT", "MAX">>

ASSUME InstanceAssumption == E!EditsAssumption /\ Q!BuilderAssumption

\* The parts that do not move are in one of their initial states.
FirstWindow == Init /\ paging = "keyset" /\ filter = "wide"
FirstTable  == Q!Init /\ catalog = FullSchema /\ builder.lines[1].table = "p"

MCInit ==
  \/ part = "window" /\ Init /\ E!Init /\ FirstTable
  \/ part = "edits" /\ FirstWindow /\ E!Init /\ FirstTable
  \/ part = "query" /\ FirstWindow /\ E!Init /\ Q!Init

MCNext ==
  \/ part = "window" /\ Next /\ UNCHANGED <<part, editVars, queryVars>>
  \/ part = "edits" /\ E!Next /\ UNCHANGED <<part, vars, queryVars>>
  \/ part = "query" /\ Q!Next /\ UNCHANGED <<part, vars, editVars>>

MCSpec == MCInit /\ [][MCNext]_allVars

\* GridEdits' properties, stated there: edits last until they are saved, the
\* screen shows the table, an added row is added once.
KeptWhileOpen == E!KeptWhileOpen
ScreenIsTable == E!ScreenIsTable
AddedOnce == E!AddedOnce

\* QueryBuilder's properties, stated there: what is picked stays with its
\* source, the statement stands on its own, and a saved query comes back.
SurvivorsKeepPicks == Q!SurvivorsKeepPicks
StatementResolves == part = "query" => Q!StatementResolves
ReopenKeepsQuery == Q!ReopenKeepsQuery
=============================================================================
