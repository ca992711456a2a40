----------------------------- MODULE MCCatalogs -----------------------------
(* What is known of a server's catalog: the cache that names are validated  *)
(* against, and the sidebar's tree (SidebarTree), side by side: part tells  *)
(* which of them moves, so that one run asks both questions.  The tree      *)
(* keeps its own, coarser, picture of the cache.                            *)
EXTENDS MCCatalogCache

CONSTANTS Conn, Thread, MaxVersion

VARIABLES part, tree, version, treeCached, stale

treeVars == <<tree, version, treeCached, stale>>
allVars  == <<part, vars, treeVars>>

T == INSTANCE SidebarTree WITH cached <- treeCached

ASSUME InstanceAssumption == T!TreeAssumption

\* The part that does not move is in one of its initial states.
MCInit ==
  /\ Init /\ T!Init
  /\ \/ part = "cache"
     \/ part = "tree" /\ \A s \in Scope, l \in Listing : objects[s][l] = {}

MCNext ==
  \/ part = "cache" /\ Next /\ UNCHANGED <<part, treeVars>>
  \/ part = "tree" /\ T!Next /\ UNCHANGED <<part, vars>>

MCSpec == MCInit /\ [][MCNext]_allVars

\* SidebarTree's properties, stated there: a loaded row is its listing, read
\* after the last Refresh; a row that is loading has a load under way.
RefreshedRows == T!RefreshedRows
SpinnerHasLoad == T!SpinnerHasLoad
=============================================================================
