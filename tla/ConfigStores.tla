----------------------------- MODULE ConfigStores -----------------------------
(***************************************************************************)
(* Two stores over files a person may edit: settings.toml                  *)
(* (backend/settings.py, followed by the FileWatcher of backend/config.py) *)
(* and a workspace's connections.toml (backend/workspaces.py, read once).  *)
(* Everything runs on the main loop; write_text truncates the file and     *)
(* fills it, and the process may die in between.                           *)
(*                                                                         *)
(* The settings are one scalar, `theme`, and one table, `keymap`; a        *)
(* connection is its name.                                                 *)
(***************************************************************************)
EXTENDS TomlMerge

CONSTANTS
    Theme,      \* values of `theme`, of which Default is one
    Default,
    Binding,    \* values of a key binding
    Profile,    \* names of connections
    MaxHand,    \* bound: edits by hand
    MaxSteps    \* bound: saves

\* What the constants are, assumed where the module is instantiated.
DefaultAssumption == Default \in Theme

VARIABLES
    settings,     \* SettingsStore.settings: [theme, keymap]
    file,         \* settings.toml
    stale,        \* its stamp is not the one the watcher knows
    connections,  \* Workspace.connections, as names
    listed,       \* connections.toml
    hands, saves

vars == <<settings, file, stale, connections, listed, hands, saves>>

Maps(K, V) == UNION {[S -> V] : S \in SUBSET K}
Keymaps == Maps({"quit"}, Binding)

\* Settings.from_dict: a missing or unknown value is its default.
LoadSettings(doc) ==
    LET D == Parse(doc)
        theme == IF "theme" \in DOMAIN D.scalars THEN D.scalars["theme"] ELSE Default
    IN  [theme |-> IF theme \in Theme THEN theme ELSE Default,
         keymap |-> IF "keymap" \in DOMAIN D.tables THEN D.tables["keymap"] ELSE Empty]

SettingsData(s) ==
    [scalars |-> [n \in {"theme"} |-> s.theme],
     tables |-> [n \in {"keymap"} |-> s.keymap], arrays |-> Empty]

\* _is_table_array is false of an empty list: it is written as a scalar.
ConnectionData(cs) ==
    IF cs = << >>
      THEN [NoTables EXCEPT !.scalars = [n \in {"connection"} |-> "[]"]]
      ELSE [NoTables EXCEPT !.arrays =
              [n \in {"connection"} |->
                 [i \in DOMAIN cs |-> [k \in {"name"} |-> cs[i]]]]]

\* WorkspaceStore._read
LoadConnections(doc) ==
    LET D == Parse(doc)
    IN  IF "connection" \in DOMAIN D.arrays
          THEN [i \in DOMAIN D.arrays["connection"] |-> D.arrays["connection"][i]["name"]]
          ELSE << >>

\* A first start, and a workspace created empty or brought with a profile.
Init ==
    /\ file = << >> /\ settings = LoadSettings(file) /\ stale = FALSE
    /\ connections \in {<< >>} \cup {<<p>> : p \in Profile}
    /\ listed = Dumps(ConnectionData(connections))
    /\ hands = 0 /\ saves = 0

-----------------------------------------------------------------------------

\* SettingsStore.update and _write, from a preferences page.
Update ==
    /\ saves < MaxSteps /\ saves' = saves + 1
    /\ \E t \in Theme, m \in Keymaps :
         /\ settings' = [theme |-> t, keymap |-> m]
         /\ settings' # settings
    /\ file' = Merge(file, SettingsData(settings'))
    /\ stale' = FALSE                  \* config.watcher.forget
    /\ UNCHANGED <<connections, listed, hands>>

\* FileWatcher.poll on the application's timer: reload.
Poll ==
    /\ stale
    /\ stale' = FALSE
    /\ settings' = LoadSettings(file)
    /\ UNCHANGED <<file, connections, listed, hands, saves>>

\* Someone edits settings.toml: a value (right or wrong), a line taken out, a
\* key or a table the application does not know, a comment.
HandEdit ==
    /\ hands < MaxHand /\ hands' = hands + 1
    /\ \/ \E i \in DOMAIN file, v \in Theme \cup {"mauve"} :
            file[i].n = "theme" /\ file' = [file EXCEPT ![i].v = v]
       \/ \E i \in DOMAIN file : file' = RemoveAt(file, i)
       \/ \E i \in 1..(Len(file) + 1) :
            \/ file' = InsertAt(file, i, Comment("note"))
            \/ /\ \A j \in 1..(i - 1) : ~IsHeader(file[j])
               /\ file' = InsertAt(file, i, KeyLine("future", "x"))
       \/ file' = file \o << Line("table", "future_table", ""), KeyLine("x", "x") >>
    /\ Valid(file')
    /\ stale' = TRUE
    /\ UNCHANGED <<settings, connections, listed, saves>>

\* WorkspaceStore.save after add_connection or remove_connection.
Connect ==
    /\ saves < MaxSteps /\ saves' = saves + 1
    /\ \/ \E p \in Profile : p \notin ToSet(connections) /\ connections' = Append(connections, p)
       \/ \E i \in DOMAIN connections : connections' = RemoveAt(connections, i)
    /\ listed' = Merge(listed, ConnectionData(connections'))
    /\ UNCHANGED <<settings, file, stale, hands>>

\* The next start reads both files again.
Restarted ==
    /\ settings' = LoadSettings(file')
    /\ connections' = LoadConnections(listed')
    /\ stale' = FALSE

Restart == UNCHANGED <<file, listed, hands, saves>> /\ Restarted

\* The process dies inside write_text: a prefix is on disk.
Die ==
    /\ saves < MaxSteps /\ saves' = saves + 1
    /\ LET whole == Merge(file, SettingsData(settings))
       IN  \E n \in 0..Len(whole) : file' = SubSeq(whole, 1, n)
    /\ UNCHANGED <<listed, hands>>
    /\ Restarted

Next == Update \/ Poll \/ HandEdit \/ Connect \/ Restart \/ Die

Spec == Init /\ [][Next]_vars

-----------------------------------------------------------------------------

\* The settings have their shape; both documents are lines of known kinds.
TypeOK ==
    /\ settings.theme \in Theme
    /\ \A l \in ToSet(file) \cup ToSet(listed) : l.k \in {"key", "comment", "table", "array"}
    /\ stale \in BOOLEAN
    /\ ToSet(connections) \subseteq Profile

\* The file and the store say the same whenever no edit waits for the
\* watcher: what the application writes over a document a person arranged is
\* read back as what it meant, whatever was in the way.
SettingsAgree == ~stale => Valid(file) /\ LoadSettings(file) = settings

\* "Every comment and blank line, the order of the keys already in the file,
\* anything in the file the app doesn't know about": what a save does not
\* know in the head it leaves as it was and where it was, in the head, and
\* what it knows makes no line it would not.
Foreign(l) == l.k = "comment" \/ l.n # "theme"
ForeignSurvive ==
    [][Update => \A i \in DOMAIN Head1(file) :
           /\ i \in DOMAIN Before(file')
           /\ IF Foreign(file[i]) THEN file'[i] = file[i] ELSE ~Foreign(file'[i])]_vars

\* The same of the connections, as long as the file was never written with
\* an empty list.
ConnectionsAgree ==
    (~\E l \in ToSet(listed) : l = KeyLine("connection", "[]"))
        => LoadConnections(listed) = connections

\* "Restarting opens what was saved": the file of the workspace reads back
\* as the connections it was saved with.
SavedIsLoaded == LoadConnections(listed) = connections

=============================================================================
