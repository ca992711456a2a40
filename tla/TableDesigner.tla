----------------------------- MODULE TableDesigner -----------------------------
(***************************************************************************)
(* The table designer in alter mode (sqlide/frontend/table_designer.py):   *)
(* the form over a loaded table, the plan of TablePlan computed from it,   *)
(* and the worker that runs the plan one statement at a time on a server   *)
(* that may refuse any of them.  The server is external: each engine's     *)
(* ALTER TABLE as the planner's own notes describe it.                     *)
(*                                                                         *)
(* A server column records in `of` whose rows it holds (the name of the    *)
(* column the table was loaded with, or NoName for one born empty), in     *)
(* `holes` whether some of them are NULL.  Rows are never written here.    *)
(***************************************************************************)
EXTENDS TablePlan

CONSTANTS
    MaxEdits,     \* bound: form edits
    MaxApplies    \* bound: plans run

VARIABLES
    dialect,
    table,        \* the server: columns, primary key, indexes, the visible table
    backup,       \* the server: the renamed-away table of a rebuild, or NoTable
    saved,        \* the server: what ROLLBACK restores, or NoTable
    enforced,     \* PRAGMA foreign_keys of the shared connection
    current,      \* TableDesignerTab._current
    rows,         \* _rows: the column rows
    pk,           \* the columns chosen in the PRIMARY KEY row ({}: no row)
    index,        \* the index row: {} or one of [name, col, unique]
    jobs,         \* the workers of _execute, in the order they were started
    edits, applies

server == <<table, backup, saved, enforced>>
form == <<rows, pk, index>>
vars == <<dialect, server, current, form, jobs, edits, applies>>

NoTable == [cols |-> {}, key |-> {}, idx |-> {}]
Idle == [todo |-> << >>, warned |-> FALSE, before |-> NoTable,
         from |-> Model(<< >>, {}, {}), target |-> Model(<< >>, {}, {}), rows |-> << >>,
         alone |-> TRUE]
Job == 1..MaxApplies
Running == {k \in Job : jobs[k] # Idle}

SCol == [name : Name, of : Name \cup {NoName}, holes : BOOLEAN, null : BOOLEAN, dflt : BOOLEAN]
Row == [loaded : Name \cup {NoName}, name : Name \cup {NoName},
        null : BOOLEAN, pk : BOOLEAN, dflt : BOOLEAN]
Ix == [name : {"ix"}, col : Name \cup {NoName}, unique : BOOLEAN]

SNames(t) == {c.name : c \in t.cols}
SColumn(t, n) == CHOOSE c \in t.cols : c.name = n
Replace(t, n, c) == [t EXCEPT !.cols = (@ \ {SColumn(t, n)}) \cup {c}]

-----------------------------------------------------------------------------
(* TableModel.from_provider and _populate.                                 *)

\* What the catalog tells: neither a default nor the primary key's own
\* constraint.
Loaded(t, order) ==
    Model([i \in DOMAIN order |->
              LET c == SColumn(t, order[i])
              IN  [name |-> c.name, null |-> c.null, pk |-> c.name \in t.key,
                   dflt |-> FALSE, from |-> NoName]],
          {}, t.idx)

RowOf(c) == [loaded |-> c.name, name |-> c.name, null |-> c.null,
             pk |-> c.pk, dflt |-> c.dflt]
Flagged(rs) == {r.name : r \in {x \in ToSet(rs) : x.pk}}

Init ==
    /\ dialect \in Dialects
    /\ \E a, b \in Name, holes, key \in BOOLEAN, ix \in {{}, {"plain"}} :
         /\ a # b
         /\ LET A == [name |-> a, of |-> a, holes |-> FALSE, null |-> ~key, dflt |-> FALSE]
                B == [name |-> b, of |-> b, holes |-> holes, null |-> TRUE, dflt |-> TRUE]
                t == [cols |-> {A, B}, key |-> IF key THEN {a} ELSE {},
                      idx |-> IF ix = {} THEN {} ELSE {[name |-> "ix", col |-> b, unique |-> FALSE]}]
                m == Loaded(t, <<a, b>>)
            IN  /\ table = t /\ current = m
                /\ rows = [i \in DOMAIN m.cols |-> RowOf(m.cols[i])]
                /\ pk = Flagged(rows)            \* _columns_to_pk
                /\ index = m.idx
    /\ backup = NoTable /\ saved = NoTable /\ enforced = TRUE
    /\ jobs = [k \in Job |-> Idle]
    /\ edits = 0 /\ applies = 0

-----------------------------------------------------------------------------
(* The form.                                                               *)

FormNames(rs) == {r.name : r \in ToSet(rs)} \ {NoName}

\* _refresh: set_available drops from every chooser a column renamed away.
Available(rs, chosen, ix) ==
    /\ pk' = chosen \cap FormNames(rs)
    /\ index' = {[i EXCEPT !.col = IF @ \in FormNames(rs) THEN @ ELSE NoName] : i \in ix}

EditForm(rs, chosen, ix) ==
    /\ edits < MaxEdits
    /\ edits' = edits + 1
    /\ rows' = rs
    /\ Available(rs, chosen, ix)
    /\ UNCHANGED <<dialect, server, current, jobs, applies>>

RenameRow(i, n) ==
    /\ rows[i].name # n
    /\ EditForm([rows EXCEPT ![i].name = n], pk, index)

SetNullable(i) ==
    /\ ~rows[i].pk                     \* the check box is insensitive
    /\ EditForm([rows EXCEPT ![i].null = ~@], pk, index)

SetDefault(i) == EditForm([rows EXCEPT ![i].dflt = ~@], pk, index)

AddRow(n, null) ==
    /\ n \notin FormNames(rows)
    /\ EditForm(Append(rows, [loaded |-> NoName, name |-> n, null |-> null,
                              pk |-> FALSE, dflt |-> FALSE]), pk, index)

\* _remove_row; the last one is cleared instead.
RemoveRow(i) ==
    IF Len(rows) = 1
      THEN /\ rows[i].name # NoName
           /\ EditForm([rows EXCEPT ![i] =
                          [rows[i] EXCEPT !.name = NoName, !.dflt = FALSE,
                                          !.pk = FALSE, !.null = TRUE]], {}, index)
            ELSE EditForm(RemoveAt(rows, i), pk, index)

MoveRow(i) ==
    /\ i < Len(rows)
    /\ EditForm([rows EXCEPT ![i] = rows[i + 1], ![i + 1] = rows[i]], pk, index)

\* _on_pk_toggled: a key column is NOT NULL; _columns_to_pk mirrors the boxes.
TogglePk(i) ==
    LET rs == [rows EXCEPT ![i] =
                 [rows[i] EXCEPT !.pk = ~@, !.null = IF rows[i].pk THEN @ ELSE FALSE]]
    IN  EditForm(rs, Flagged(rs) \ {NoName}, index)

\* _constraint_changed: _pk_to_columns mirrors the row's choice.
PickPk(S) ==
    /\ pk # {} /\ S # pk
    /\ EditForm([i \in DOMAIN rows |->
                    [rows[i] EXCEPT !.pk = rows[i].name \in S,
                                    !.null = IF rows[i].name \in S THEN FALSE ELSE @]],
                S, index)

EditIndex ==
    \/ index = {} /\ \E n \in FormNames(rows), u \in BOOLEAN :
            EditForm(rows, pk, {[name |-> "ix", col |-> n, unique |-> u]})
    \/ index # {} /\ EditForm(rows, pk, {})
    \/ \E i \in index, n \in FormNames(rows) :
            i.col # n /\ EditForm(rows, pk, {[i EXCEPT !.col = n]})
    \/ \E i \in index : EditForm(rows, pk, {[i EXCEPT !.unique = ~@]})

\* _ColumnRow.column and TableDesignerTab.model.
\* Mutant: the row forgets the name it was loaded under.
ColumnOf_NoRename(r) ==
    [name |-> r.name, null |-> r.null, pk |-> r.pk, dflt |-> r.dflt, from |-> NoName]

ColumnOf(r) ==
    [name |-> r.name, null |-> r.null, pk |-> r.pk, dflt |-> r.dflt,
     from |-> IF r.loaded # NoName /\ r.loaded # r.name THEN r.loaded ELSE NoName]

FormModel ==
    LET named == Picked(rows, {i \in DOMAIN rows : rows[i].name # NoName})
    IN  Model([i \in DOMAIN named |-> ColumnOf(named[i])],
              {pk} \ {{}}, {i \in index : i.col # NoName})

\* _problem
Complete ==
    /\ FormNames(rows) # {}
    /\ \A i, j \in DOMAIN rows : i # j /\ rows[i].name = rows[j].name => rows[i].name = NoName
    /\ \A i \in DOMAIN rows : rows[i].name = NoName => ~rows[i].dflt
    /\ \A i \in index : i.col # NoName

Statements == Plan(current, FormModel, dialect)

-----------------------------------------------------------------------------
(* Running a plan.  A job keeps, beside the statements left, what the      *)
(* properties speak of: the table, the model and the form it began from,   *)
(* dropped (Unwatched) once it is not the only one running.                *)

\* _on_create_clicked and the dialog's Apply: _execute.  Nothing keeps a
\* second plan from starting while one runs.
Unwatched(j) == [Idle EXCEPT !.todo = j.todo, !.alone = FALSE]

Apply ==
    /\ applies < MaxApplies
    /\ applies' = applies + 1
    /\ Complete
    /\ LET plan == Statements
           new == [todo |-> plan, warned |-> Destructive(plan),
                   before |-> table, from |-> current, target |-> FormModel,
                   rows |-> rows, alone |-> TRUE]
       IN  /\ plan # << >>              \* _nothing_to_do
           /\ jobs' = [k \in Job |->
                          IF k = applies' THEN IF Running = {} THEN new ELSE Unwatched(new)
                          ELSE IF k \in Running THEN Unwatched(jobs[k]) ELSE Idle]
    /\ UNCHANGED <<dialect, server, current, form, edits>>

SameServer == UNCHANGED <<backup, saved, enforced>>
Fresh(c) == [name |-> c.name, of |-> NoName, holes |-> ~c.dflt, null |-> c.null, dflt |-> c.dflt]
Holed(t, S) == \E n \in S : SColumn(t, n).holes
Renamed(S, a, b) == {IF x = a THEN b ELSE x : x \in S}

\* A created table: no rows yet, so nothing in it has holes.
Created(m) ==
    [cols |-> {[Fresh(c) EXCEPT !.holes = FALSE, !.null = c.null /\ c.name \notin PrimaryKey(m)]
                   : c \in ToSet(m.cols)},
     key |-> PrimaryKey(m), idx |-> {}]

\* ALTER TABLE ... on the visible table, in the engine `dialect`.
Alter(t, s) ==
    CASE s.op = "add" ->
           [cols |-> t.cols \cup {Fresh(s.arg)}, key |-> t.key, idx |-> t.idx]
      [] s.op = "rename" ->
           LET c == SColumn(t, s.arg[1])
           IN  [cols |-> (t.cols \ {c}) \cup {[c EXCEPT !.name = s.arg[2]]},
                key |-> Renamed(t.key, s.arg[1], s.arg[2]),
                idx |-> {[i EXCEPT !.col = IF @ = s.arg[1] THEN s.arg[2] ELSE @] : i \in t.idx}]
      [] s.op = "change" ->
           LET c == SColumn(t, s.arg[1])
               n == s.arg[2]
           IN  [cols |-> (t.cols \ {c}) \cup
                         {[c EXCEPT !.name = n.name, !.null = n.null, !.dflt = n.dflt]},
                key |-> Renamed(t.key, c.name, n.name),
                idx |-> {[i EXCEPT !.col = IF @ = c.name THEN n.name ELSE @] : i \in t.idx}]
      [] s.op = "set_null" -> Replace(t, s.arg[1], [SColumn(t, s.arg[1]) EXCEPT !.null = s.arg[2]])
      [] s.op = "set_default" -> Replace(t, s.arg[1], [SColumn(t, s.arg[1]) EXCEPT !.dflt = s.arg[2]])
      [] s.op = "drop" ->
           [cols |-> t.cols \ {SColumn(t, s.arg)}, key |-> t.key \ {s.arg},
            idx |-> {i \in t.idx : i.col # s.arg}]
      [] s.op = "add_key" ->
           [t EXCEPT !.key = s.arg,
                     !.cols = {[c EXCEPT !.null = @ /\ c.name \notin s.arg] : c \in @}]
      [] s.op = "drop_index" -> [t EXCEPT !.idx = {i \in @ : i.name # s.arg.name}]
      [] s.op = "create_index" -> [t EXCEPT !.idx = @ \cup {s.arg}]

\* Whether the engine takes it: names that exist, names that are free, and
\* rows that do not stand in the way.
Accepts(t, s) ==
    CASE s.op = "add" -> s.arg.name \notin SNames(t)
                         /\ (dialect = "mysql" \/ s.arg.null \/ s.arg.dflt)
      [] s.op = "rename" -> s.arg[1] \in SNames(t) /\ s.arg[2] \notin SNames(t)
      [] s.op = "change" -> /\ s.arg[1] \in SNames(t)
                            /\ s.arg[2].name \in {s.arg[1]} \cup (Name \ SNames(t))
                            /\ ~s.arg[2].null => ~SColumn(t, s.arg[1]).holes
      [] s.op = "set_null" -> /\ s.arg[1] \in SNames(t)
                              /\ s.arg[2] => s.arg[1] \notin t.key
                              /\ ~s.arg[2] => ~SColumn(t, s.arg[1]).holes
      [] s.op = "set_default" -> s.arg[1] \in SNames(t)
      [] s.op = "drop" -> s.arg \in SNames(t) /\ t.cols # {SColumn(t, s.arg)}
      [] s.op = "add_key" -> t.key = {} /\ s.arg \subseteq SNames(t) /\ ~Holed(t, s.arg)
      [] s.op = "drop_index" -> \E i \in t.idx : i.name = s.arg.name
      [] s.op = "create_index" -> s.arg.col \in SNames(t) /\ ~\E i \in t.idx : i.name = s.arg.name

\* Duplicates are not tracked: a unique index may be refused whatever the plan.
MayRefuse(s) == s.op = "create_index" /\ s.arg.unique

\* INSERT INTO the new table ... SELECT ... FROM the backup.
Copied(pairs) ==
    LET Source(n) == SColumn(backup, (CHOOSE p \in pairs : p[1] = n)[2])
        carried == {p[1] : p \in pairs}
    IN  [table EXCEPT !.cols =
           {IF c.name \in carried
              THEN [c EXCEPT !.of = Source(c.name).of, !.holes = Source(c.name).holes]
              ELSE [c EXCEPT !.holes = ~c.dflt] : c \in @}]

Next1(s) ==
    CASE s.op = "fk_off" ->       \* a no-op inside a transaction
           /\ enforced' = (saved # NoTable /\ enforced)
           /\ UNCHANGED <<table, backup, saved>>
      [] s.op = "fk_on" ->
           /\ enforced' = (saved = NoTable \/ enforced)
           /\ UNCHANGED <<table, backup, saved>>
      [] s.op = "begin" -> saved = NoTable /\ saved' = table /\ UNCHANGED <<table, backup, enforced>>
      [] s.op = "commit" -> saved # NoTable /\ saved' = NoTable /\ UNCHANGED <<table, backup, enforced>>
      [] s.op = "rename_table" ->
           /\ backup = NoTable /\ table # NoTable
           /\ backup' = table /\ table' = NoTable /\ UNCHANGED <<saved, enforced>>
      [] s.op = "create" ->
           /\ table = NoTable /\ table' = Created(s.arg) /\ UNCHANGED <<backup, saved, enforced>>
      [] s.op = "copy" ->
           /\ \A p \in s.arg : p[2] \in SNames(backup)
           /\ \A c \in Copied(s.arg).cols : c.holes => c.null
           /\ table' = Copied(s.arg) /\ UNCHANGED <<backup, saved, enforced>>
      [] s.op = "drop_backup" -> backup' = NoTable /\ UNCHANGED <<table, saved, enforced>>
      [] OTHER -> table # NoTable /\ Accepts(table, s) /\ table' = Alter(table, s) /\ SameServer

\* One turn of the worker's loop: connector.execute(sql) succeeded.
RunStatement(k) ==
    /\ jobs[k].todo # << >>
    /\ Next1(Head(jobs[k].todo))
    /\ jobs' = [jobs EXCEPT ![k].todo = Tail(@)]
    /\ UNCHANGED <<dialect, current, form, edits, applies>>

\* connector.execute(sql) raised: the rest is not run, nothing is undone.
Refused(k) ==
    /\ jobs[k].todo # << >>
    /\ MayRefuse(Head(jobs[k].todo)) \/ ~ENABLED RunStatement(k)
    /\ jobs' = [jobs EXCEPT ![k] = Idle]
    /\ UNCHANGED <<dialect, server, current, form, edits, applies>>

\* done: the form as it is now is what the next plan starts from.
Done(k) ==
    /\ k \in Running /\ jobs[k].todo = << >>
    /\ jobs' = [jobs EXCEPT ![k] = Idle]
    /\ current' = FormModel
    /\ UNCHANGED <<dialect, server, form, edits, applies>>

\* ROLLBACK from a console on the same connection.
RollBack ==
    /\ Running = {} /\ saved # NoTable
    /\ table' = saved /\ backup' = NoTable /\ saved' = NoTable
    /\ UNCHANGED <<enforced, dialect, current, form, jobs, edits, applies>>

Edit ==
    \/ \E i \in DOMAIN rows :
         \/ \E n \in Name : RenameRow(i, n)
         \/ SetNullable(i) \/ SetDefault(i) \/ RemoveRow(i) \/ MoveRow(i) \/ TogglePk(i)
    \/ \E n \in Name, null \in BOOLEAN : AddRow(n, null)
    \/ \E S \in SUBSET FormNames(rows) : PickPk(S)
    \/ EditIndex

Next ==
    \/ Edit \/ Apply \/ RollBack
    \/ \E k \in Job : RunStatement(k) \/ Refused(k) \/ Done(k)

Spec == Init /\ [][Next]_vars

-----------------------------------------------------------------------------

Whole(t) == /\ t.cols \subseteq SCol /\ t.key \subseteq SNames(t)
            /\ \A c, d \in t.cols : c.name = d.name => c = d

\* The shapes of the state; a column name is unique in every table.
TypeOK ==
    /\ dialect \in Dialects
    /\ Whole(table) /\ Whole(backup) /\ Whole(saved)
    /\ enforced \in BOOLEAN
    /\ rows \in Seq(Row) /\ pk \subseteq Name /\ index \subseteq Ix
    /\ edits \in 0..MaxEdits /\ applies \in 0..MaxApplies

Contents(t) == {c.of : c \in t.cols} \ {NoName}

\* The plan was made against the table as it is.
Accurate(j) == NamesOf(j.from) = SNames(j.before)

\* Plans that have just run to their end, with no other one beside them.
Ended == {k \in Running : jobs[k].todo = << >> /\ jobs[k].alone}

\* What the confirmation dialog leads with is true: an accurate plan that
\* ran to its end and took some column's rows away was shown as
\* destructive, whatever the form was turned into, through renames, swaps
\* and rebuilds.
LossIsFlagged ==
    \A k \in Ended :
        (Accurate(jobs[k]) /\ ~Contents(jobs[k].before) \subseteq Contents(table))
            => jobs[k].warned

\* While a rebuild has the table renamed away, or half copied, ROLLBACK
\* brings it back as it was: nothing of a rebuild is committed before its end.
HalfwayRollsBack ==
    (backup # NoTable \/ table = NoTable)
        => saved # NoTable

\* The plan's premises: it started from the table as it is, reuses no name
\* that the same form takes away from another column, and its check boxes and
\* its PRIMARY KEY row name the same key (renaming a column through another's
\* name parts them).
FreshStart(j) ==
    /\ Accurate(j)
    /\ {c.name : c \in {x \in ToSet(j.target.cols) : x.pk}} = UNION j.target.keys
    /\ \A c \in ToSet(j.from.cols) : SColumn(j.before, c.name).null = c.null
    /\ \A i \in DOMAIN j.rows :
         LET r == j.rows[i]
         IN  /\ r.loaded # NoName => r.loaded \in NamesOf(j.from)
             /\ r.name \in NamesOf(j.from) => r.loaded = r.name

\* A plan with those premises that ran to its end left the table the form
\* describes: its columns, their nullability, and under each the rows of
\* the column it was loaded from, or none.
PlanMigrates ==
    \A k \in Ended : FreshStart(jobs[k]) =>
        /\ SNames(table) = NamesOf(jobs[k].target)
        /\ \A c \in ToSet(jobs[k].target.cols) :
             SColumn(table, c.name).null = (c.null /\ c.name \notin PrimaryKey(jobs[k].target))
        /\ \A r \in ToSet(jobs[k].rows) :
             r.name # NoName =>
                SColumn(table, r.name).of =
                   IF r.loaded = NoName THEN NoName
                   ELSE SColumn(jobs[k].before, r.loaded).of

\* "A failed rebuild must not leave the table renamed": when no plan runs,
\* the shared connection is out of the rebuild's transaction and enforces
\* foreign keys again.
RebuildAllOrNothing == Running = {} => saved = NoTable /\ enforced

=============================================================================
