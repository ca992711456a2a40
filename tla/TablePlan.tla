------------------------------- MODULE TablePlan -------------------------------
(***************************************************************************)
(* The migration planner of sqlide/backend/db/table_model.py: the          *)
(* classified statements that turn one table model into another.  Pure     *)
(* operators; TableDesigner runs what they return.                         *)
(*                                                                         *)
(* A model is [cols, keys, idx]: its columns in order, the column sets of  *)
(* its unnamed PRIMARY KEY constraints, and its named indexes.  A column   *)
(* carries `from`, the name it was loaded under where the form renamed it. *)
(* Types, collations, comments, options, schemas and the other constraint  *)
(* kinds are left out: like `null` and `dflt` they are attributes a plan   *)
(* compares and restates.                                                  *)
(***************************************************************************)
EXTENDS Naturals, Sequences, FiniteSets, SequencesExt

CONSTANTS
    Name,      \* column names
    NoName     \* the empty string

\* What the constants are, assumed where the module is instantiated.
NoNameAssumption == NoName \notin Name

Dialects == {"postgres", "mysql", "sqlite"}

\* Preset dialects: what ALTER TABLE can do in place.
AltersInPlace(d) == d # "sqlite"      \* can_drop/modify_column, can_alter_constraint
Changes(d) == d = "mysql"             \* rename_column_style "change", modify_style "mysql"

Model(cols, keys, idx) == [cols |-> cols, keys |-> keys, idx |-> idx]
NamesOf(m) == {c.name : c \in ToSet(m.cols)}
Column(m, n) == CHOOSE c \in ToSet(m.cols) : c.name = n
NoColumn == [name |-> NoName]

\* The entries of a sequence that are at the places S, in their order (counted,
\* not SelectSeq, of which nothing can be proved).
Rank(S, i) == Cardinality({k \in S : k <= i})
Picked(s, S) == [n \in 1 .. Cardinality(S) |-> s[CHOOSE i \in S : Rank(S, i) = n]]

\* TableModel.primary_key: the flags, or an explicit constraint.
PrimaryKey(m) ==
    LET flagged == {c.name : c \in {x \in ToSet(m.cols) : x.pk}}
    IN  IF flagged # {} THEN flagged ELSE UNION m.keys

\* _matched: the column of `cur` that `col` is a changed version of.
Matched(cur, col) ==
    IF col.from \in NamesOf(cur) THEN Column(cur, col.from)
    ELSE IF col.name \in NamesOf(cur) THEN Column(cur, col.name)
    ELSE NoColumn

Found(cur, col) == Matched(cur, col) # NoColumn

\* _kept: the names, in `cur`, of the columns that survive.
Kept(cur, target) ==
    {Matched(cur, c).name : c \in {x \in ToSet(target.cols) : Found(cur, x)}}

ColumnChanged(old, new) == old.null # new.null \/ old.dflt # new.dflt
Tightened(old, new) == old.null /\ ~new.null

\* _needs_rebuild
NeedsRebuild(cur, target, d) ==
    /\ ~AltersInPlace(d)
    /\ \/ NamesOf(cur) \ Kept(cur, target) # {}
       \/ \E c \in ToSet(target.cols) :
            Found(cur, c) /\ ColumnChanged(Matched(cur, c), c)
       \/ cur.keys # target.keys
       \/ PrimaryKey(cur) # PrimaryKey(target)

\* One statement: what it does (`op` and its arguments) and its class.
Stmt(op, arg, class) == [op |-> op, arg |-> arg, class |-> class]

OneEach(S, Of(_)) == LET s == SetToSeq(S) IN [i \in DOMAIN s |-> Of(s[i])]
ForColumns(cols, Of(_)) == FlattenSeq([i \in DOMAIN cols |-> Of(cols[i])])

\* _rebuild_plan: rename, create, copy, drop, indexes.
RebuildPlan(cur, target) ==
    LET carried == {<<c.name, Matched(cur, c).name>> :
                       c \in {x \in ToSet(target.cols) : Found(cur, x)}}
        dropped == NamesOf(cur) \ Kept(cur, target)
    IN  << Stmt("rename_table", NoName, "rewrite"),
           Stmt("create", target, "rewrite") >>
        \o (IF carried = {} THEN << >> ELSE << Stmt("copy", carried, "rewrite") >>)
        \o << Stmt("drop_backup", NoName,
                   IF dropped # {} THEN "destructive" ELSE "rewrite") >>
        \o OneEach(target.idx, LAMBDA i : Stmt("create_index", i, "safe"))

\* _wrapped: what makes the rebuild atomic.
\* Mutant: the prologue is left out.
Wrapped_Bare(stmts) == stmts \o << Stmt("commit", NoName, "safe"), Stmt("fk_on", NoName, "safe") >>
Wrapped(stmts) ==
    << Stmt("fk_off", NoName, "safe"), Stmt("begin", NoName, "safe") >>
    \o stmts
    \o << Stmt("commit", NoName, "safe"), Stmt("fk_on", NoName, "safe") >>

\* _modify_column: MySQL restates the whole definition (and its name), the
\* others change one attribute at a time.
ModifyColumn(old, new, d) ==
    IF Changes(d)
      THEN << Stmt("change", <<old.name, new>>,
                   IF Tightened(old, new) THEN "may_fail" ELSE "rewrite") >>
      ELSE (IF old.null = new.null THEN << >>
            ELSE << Stmt("set_null", <<new.name, new.null>>,
                         IF Tightened(old, new) THEN "may_fail" ELSE "safe") >>)
           \o (IF old.dflt = new.dflt THEN << >>
               ELSE << Stmt("set_default", <<new.name, new.dflt>>, "safe") >>)

\* _add_column
AddColumn(col) ==
    Stmt("add", col, IF ~col.null /\ ~col.dflt THEN "may_fail" ELSE "safe")

\* The loop of _alter_plan over the target's columns.
AlterColumn(cur, col, d) ==
    LET old == Matched(cur, col)
        renamed == old.name # col.name
    IN  IF old = NoColumn THEN << AddColumn(col) >>
        ELSE (IF renamed /\ ~Changes(d)
                THEN << Stmt("rename", <<old.name, col.name>>, "safe") >> ELSE << >>)
             \o (IF (renamed /\ Changes(d)) \/ ColumnChanged(old, col)
                   THEN ModifyColumn(old, col, d) ELSE << >>)

\* _constraint_statements: an unnamed key has nothing to be dropped by.
ConstraintStatements(cur, target) ==
    OneEach(target.keys \ cur.keys, LAMBDA k : Stmt("add_key", k, "may_fail"))

\* _index_statements: indexes are told apart by name alone.
IndexStatements(cur, target) ==
    LET IxNames(m) == {i.name : i \in m.idx}
    IN  OneEach({i \in cur.idx : i.name \notin IxNames(target)},
                LAMBDA i : Stmt("drop_index", i, "safe"))
        \o OneEach({i \in target.idx : i.name \notin IxNames(cur)},
                   LAMBDA i : Stmt("create_index", i, IF i.unique THEN "may_fail" ELSE "safe"))

\* _alter_plan
\* Mutant: a dropped column is not called destructive.
AlterPlan_SafeDrop(cur, target, d) ==
    LET dropped == Picked(cur.cols,
                          {i \in DOMAIN cur.cols : cur.cols[i].name \notin Kept(cur, target)})
    IN  ForColumns(target.cols, LAMBDA c : AlterColumn(cur, c, d))
        \o [i \in DOMAIN dropped |-> Stmt("drop", dropped[i].name, "rewrite")]
        \o ConstraintStatements(cur, target) \o IndexStatements(cur, target)
AlterPlan(cur, target, d) ==
    LET dropped == Picked(cur.cols,
                          {i \in DOMAIN cur.cols : cur.cols[i].name \notin Kept(cur, target)})
    IN  ForColumns(target.cols, LAMBDA c : AlterColumn(cur, c, d))
        \o [i \in DOMAIN dropped |-> Stmt("drop", dropped[i].name, "destructive")]
        \o ConstraintStatements(cur, target)
        \o IndexStatements(cur, target)

\* plan, for a table that exists.
Plan(cur, target, d) ==
    IF NeedsRebuild(cur, target, d) THEN Wrapped(RebuildPlan(cur, target))
    ELSE AlterPlan(cur, target, d)

\* worst: whether the most dangerous class of a plan is "destructive".
Destructive(stmts) == \E i \in DOMAIN stmts : stmts[i].class = "destructive"

=============================================================================
