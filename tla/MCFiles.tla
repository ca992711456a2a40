------------------------------ MODULE MCFiles -------------------------------
(* What outlives a step of the application, and at times the application:   *)
(* the backup jobs and their runs, the settings and connections             *)
(* (ConfigStores), the tabs of a window (WindowTabs), the MCP server it     *)
(* runs (McpServer) and the language servers it starts (LanguageServers),   *)
(* side by side: part tells which of them moves, so that one run asks the   *)
(* questions of all.  Names are interchangeable, so the window starts with  *)
(* two given ones; workers, tabs and editors are, too, and share their      *)
(* model values.                                                            *)
EXTENDS MCBackups

CONSTANTS
  MaxWork,                                                \* Backups
  Theme, Default, Binding, Profile, MaxHand, MaxSteps,    \* ConfigStores
  Name, NoName, Tab, MaxRenames, MaxBegins, MaxJobs,      \* WindowTabs
  Conns, MaxStarts, MaxCalls,                             \* McpServer
  Console, Key, MaxAsks, MaxProcs                         \* LanguageServers

VARIABLES
  part, settings, document, unseen, connections, listed, hands, saves,
  name, tab, related, window, leaving, layout, txn, begins, rolling, renames,
  opened, was, gone, outdated, excused,
  mcpTab, page, startable, own, inst, ui, stopping, posted, started, calls,
  deserted, leaked, twice,
  asked, popup, req, server, starting, proc, closing

configVars == <<settings, document, unseen, connections, listed, hands, saves>>
windowVars == <<name, tab, related, window, leaving, layout, txn, begins, rolling,
                renames, opened, was, gone, outdated, excused>>
mcpVars    == <<mcpTab, page, startable, own, inst, ui, stopping, posted, started,
                calls, deserted, leaked, twice>>
lspVars    == <<asked, popup, req, server, starting, proc, closing>>
allVars    == <<part, vars, configVars, windowVars, mcpVars, lspVars>>

C == INSTANCE ConfigStores WITH file <- document, stale <- unseen
W == INSTANCE WindowTabs WITH file <- layout, stale <- outdated, begun <- opened
P == INSTANCE McpServer WITH tab <- mcpTab, begun <- started
L == INSTANCE LanguageServers

ASSUME InstanceAssumption ==
  /\ C!DefaultAssumption /\ W!TabsAssumption
  /\ P!McpAssumption /\ L!LspAssumption

FirstNames == name = CHOOSE f \in [Profile -> Name] :
                         \A p, q \in Profile : f[p] = f[q] => p = q

\* The parts that do not move are in one of their initial states.
MCInit ==
  /\ Init /\ C!Init /\ W!Init /\ FirstNames /\ P!Init /\ L!Init
  /\ \/ part = "backups" /\ connections = <<>> /\ file.jobs = {j1}
     \/ part = "config" /\ file.jobs = {}
     \/ part \in {"window", "mcp", "lsp"} /\ connections = <<>> /\ file.jobs = {}

\* Bound: the more jobs there are, the fewer runs begin.
FewEnough == Cardinality(ids') + begun' <= MaxWork

MCNext ==
  \/ /\ part = "backups" /\ Next /\ FewEnough
     /\ UNCHANGED <<part, configVars, windowVars, mcpVars, lspVars>>
  \/ /\ part = "config" /\ C!Next
     /\ UNCHANGED <<part, vars, windowVars, mcpVars, lspVars>>
  \/ /\ part = "window" /\ W!Next
     /\ UNCHANGED <<part, vars, configVars, mcpVars, lspVars>>
  \/ /\ part = "mcp" /\ P!Next
     /\ UNCHANGED <<part, vars, configVars, windowVars, lspVars>>
  \/ /\ part = "lsp" /\ L!Next
     /\ UNCHANGED <<part, vars, configVars, windowVars, mcpVars>>

MCSpec == MCInit /\ [][MCNext]_allVars

\* ConfigStores' properties, stated there: the store and its file agree, and
\* what a save does not know survives it.  The part that does not move stays
\* where it was when it was the one to move.
StoresAgree == part = "config" => C!SettingsAgree /\ C!ConnectionsAgree
ForeignSurvive == C!ForeignSurvive

\* The properties of WindowTabs, McpServer and LanguageServers, stated there.
ReopensAsLeft == W!ReopensAsLeft
OpenIsVisible == part = "window" => W!OpenIsVisible
NothingUnowned == part = "mcp" => P!NothingUnowned
OffersAreForTheText == L!OffersAreForTheText
NeverRestarted == part = "lsp" => L!NeverRestarted
=============================================================================
