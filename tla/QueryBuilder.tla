---------------------------- MODULE QueryBuilder ----------------------------
(***************************************************************************)
(* The visual query builder (sqlide/frontend/query_builder.py): its        *)
(* sources, each a table under an alias, what the user picked from their   *)
(* columns, _sync_state, which re-derives every chooser after each         *)
(* structural edit, the statement the widgets describe (query_model), and  *)
(* a tab that is closed and restored from it.                              *)
(*                                                                         *)
(* An alias is a sequence: a word and, for each time it had to shift, the  *)
(* number put behind it.  A column's name is <<alias, column>>, the alias  *)
(* empty where the tab shows it bare, and an aggregate's label is          *)
(* <<<<function>>, alias, column>>.  The pick of a chooser that offers     *)
(* nothing is Nothing.  Filter groups are flat: a group does to each of    *)
(* its conditions what it would do to one.  A table has columns.  Values,  *)
(* operators, raw expressions, the aggregates' own aliases, DISTINCT and   *)
(* LIMIT are left out.                                                     *)
(***************************************************************************)
EXTENDS Integers, Sequences, FiniteSets, SequencesExt

CONSTANTS
  Catalogs,    \* what the catalog may list: sequences of [table, columns]
  ForeignKeys, \* sequence of constraints [table, ref, pairs]
  Word,        \* what the user types as an alias
  Function,    \* sequence of the aggregates, "COUNT" first
  Kind,        \* the engine's join kinds, "INNER JOIN" among them
  MaxJoins,    \* bound: join lines
  MaxPicks,    \* bound: ticks and rows of the other sections
  MaxEdits,    \* bound: steps, the restoring ones included
  MaxReopened  \* bound: how often the tab is closed and restored

IsSeq(s) == s \in Seq(ToSet(s))

BuilderAssumption ==
  /\ \A cat \in Catalogs : /\ IsSeq(cat) /\ cat # <<>>
                           /\ \A e \in ToSet(cat) : IsSeq(e.columns) /\ e.columns # <<>>
  /\ IsSeq(ForeignKeys) /\ \A fk \in ToSet(ForeignKeys) : IsSeq(fk.pairs)
  /\ \A word \in Word : IsSeq(word)
  /\ "INNER JOIN" \in Kind /\ Function[1] = "COUNT"
  /\ MaxJoins \in Nat

VARIABLES
  catalog,   \* what the tab loaded
  tab,       \* the widgets: the sources and what is picked from them
  edits,     \* bound: steps taken
  reopened   \* bound: times restored

vars == <<catalog, tab, edits, reopened>>

Untyped == <<>>
Nothing == <<>>
AllRows == <<<<>>, "*">>
RowSection == {"filter", "sort", "aggregate", "group", "having"}

\* The entries of a sequence at the places S, and those that are in a set, in
\* their order (counted, not SelectSeq, of which nothing can be proved).
Least(S) == CHOOSE k \in S : \A l \in S : k <= l
Rank(S, i) == Cardinality({k \in S : k <= i})
Sifted(s, S) == [n \in 1 .. Cardinality(S) |-> s[CHOOSE i \in S : Rank(S, i) = n]]
Only(s, T) == Sifted(s, {i \in DOMAIN s : s[i] \in T})
Found(names) == Only(names, ToSet(names) \ {Nothing})

Tables(cat) == {cat[i].table : i \in DOMAIN cat}
ColumnsOf(cat, t) == (CHOOSE e \in ToSet(cat) : e.table = t).columns

\* A source: the base (row 0, kind "FROM") or a join line.
Base(t) == [row |-> 0, table |-> t, typed |-> Untyped, kind |-> "FROM", on |-> <<>>]
EmptyOn == [left |-> Nothing, right |-> Nothing, touched |-> FALSE]
NoPicks == [r \in RowSection |-> <<>>]

-----------------------------------------------------------------------------
(***************************************************************************)
(* Aliases: _instances, _unique_alias, _renames.                           *)
(***************************************************************************)

Unique(word, taken) ==
  IF word \notin taken THEN word
  ELSE Append(word, Least({k \in 2 .. Cardinality(taken) + 1 : Append(word, k) \notin taken}))

Wanted(l) == IF l.typed # Untyped THEN l.typed ELSE <<l.table>>

Aliases(lines) ==
  LET first[n \in 0 .. Len(lines)] ==
        IF n = 0 THEN <<>>
        ELSE LET taken == first[n - 1]
             IN  Append(taken, Unique(Wanted(lines[n]), ToSet(taken)))
  IN  first[Len(lines)]

\* {old alias: new alias} of the sources that go by another name now; aliasOf
\* is what each was called after the last sync.
Renames(aliasOf, lines, alias) ==
  LET moved == {i \in DOMAIN lines : /\ lines[i].row \in DOMAIN aliasOf
                                     /\ aliasOf[lines[i].row] # alias[i]}
      was   == {aliasOf[lines[i].row] : i \in moved}
  IN  [a \in was |-> alias[CHOOSE i \in moved : aliasOf[lines[i].row] = a]]

Renamed(name, renames) ==
  IF Len(name) = 2 /\ name[1] \in DOMAIN renames
    THEN <<renames[name[1]], name[2]>> ELSE name

Qualified(cat, lines, alias) ==
  FlattenSeq([i \in DOMAIN lines |->
    LET columns == ColumnsOf(cat, lines[i].table)
    IN  [k \in DOMAIN columns |-> <<alias[i], columns[k]>>]])

\* _display_name, _display_columns: bare while there is one source.
Shown(name, lines) == IF Len(lines) > 1 THEN name ELSE <<<<>>, name[2]>>
Offered(cat, lines, alias) ==
  LET names == Qualified(cat, lines, alias)
  IN  [k \in DOMAIN names |-> Shown(names[k], lines)]

\* A DropDown that is given new choices keeps its pick if it is one of them and
\* selects the first one if not.
Refill(pick, choices) ==
  IF Contains(choices, pick) THEN pick
  ELSE IF choices = <<>> THEN Nothing ELSE choices[1]

-----------------------------------------------------------------------------
(***************************************************************************)
(* _sync_state.                                                            *)
(***************************************************************************)

\* _relation_for: the first constraint between line i and an earlier source.
Suggested(cat, lines, alias, i) ==
  LET Earlier(t) == {l \in 1 .. i - 1 : lines[l].table = t}
      Here(fk)  == fk.table = lines[i].table /\ Earlier(fk.ref) # {}
      There(fk) == fk.ref = lines[i].table /\ Earlier(fk.table) # {}
      relating  == {k \in DOMAIN ForeignKeys : Here(ForeignKeys[k]) \/ There(ForeignKeys[k])}
      fk == ForeignKeys[Least(relating)]
  IN  IF relating = {} THEN <<>>
      ELSE [p \in DOMAIN fk.pairs |->
              LET pair == fk.pairs[p]
              IN  IF Here(fk)
                    THEN <<<<alias[Least(Earlier(fk.ref))], pair[2]>>, <<alias[i], pair[1]>>>>
                    ELSE <<<<alias[Least(Earlier(fk.table))], pair[1]>>, <<alias[i], pair[2]>>>>]

\* _JoinRow.prefill: as many conditions as given.  A condition that is added
\* has choosers with nothing in them yet, so nothing can be picked in it.
Prefilled(on, conditions, left, right) ==
  [k \in DOMAIN conditions |->
     IF k > Len(on) THEN EmptyOn
     ELSE [left |-> IF on[k].left # Nothing /\ Contains(left, conditions[k][1])
                      THEN conditions[k][1] ELSE on[k].left,
           right |-> IF on[k].right # Nothing /\ Contains(right, conditions[k][2])
                      THEN conditions[k][2] ELSE on[k].right,
           touched |-> on[k].touched]]

Touched(on) == \E k \in DOMAIN on : on[k].touched

\* Mutant: a line is offered its own columns on the left too.
LeftOf_Own(cat, lines, alias, i) == Qualified(cat, SubSeq(lines, 1, i), alias)

LeftOf(cat, lines, alias, i) == Qualified(cat, SubSeq(lines, 1, i - 1), alias)

RightOf(cat, lines, alias, i) == Qualified(cat, <<lines[i]>>, <<alias[i]>>)

\* set_choices looks an alias map up by column names, so it renames nothing.
SyncedOn(cat, lines, alias, i) ==
  LET left  == LeftOf(cat, lines, alias, i)
      right == RightOf(cat, lines, alias, i)
      on == [k \in DOMAIN lines[i].on |->
               [left |-> Refill(lines[i].on[k].left, left),
                right |-> Refill(lines[i].on[k].right, right),
                touched |-> lines[i].on[k].touched]]
      suggested == Suggested(cat, lines, alias, i)
  IN  IF i = 1 \/ Touched(on) \/ suggested = <<>> THEN on
      ELSE Prefilled(on, suggested, left, right)

\* A row of the filter or the sort section: refilled, then renamed.
Carried(pick, choices, renames) ==
  IF DOMAIN renames # {} /\ Contains(choices, Renamed(pick, renames))
    THEN Renamed(pick, renames) ELSE Refill(pick, choices)

\* _AggregateRow: COUNT alone may take "*" for a column.
AggregateChoices(fn, names) == IF fn = "COUNT" THEN <<AllRows>> \o names ELSE names
Valid(aggregates) == Sifted(aggregates, {k \in DOMAIN aggregates : aggregates[k].column # Nothing})
Label(a) == <<<<a.fn>>, a.column[1], a.column[2]>>
Labels(aggregates) ==
  LET valid == Valid(aggregates)
  IN  [k \in DOMAIN valid |-> Label(valid[k])]

\* Mutant: ticks are not carried through a rename.
SyncedTicks_Dropped(checked, qualified, renames) == checked \cap ToSet(qualified)

SyncedTicks(checked, qualified, renames) ==
  {Renamed(n, renames) : n \in checked} \cap ToSet(qualified)

\* The sort section is offered the labels of the aggregates as they were
\* before their own columns are refilled.
SyncedPicks(picks, names, renames) ==
  LET sorts == names \o Labels(picks["aggregate"])
      aggregates == [k \in DOMAIN picks["aggregate"] |->
                       LET a == picks["aggregate"][k]
                       IN  [fn |-> a.fn, column |-> Refill(a.column, AggregateChoices(a.fn, names))]]
  IN  [r \in RowSection |->
         CASE r = "filter" -> [k \in DOMAIN picks[r] |-> Carried(picks[r][k], names, renames)]
           [] r = "sort" -> [k \in DOMAIN picks[r] |-> Carried(picks[r][k], sorts, renames)]
           [] r = "aggregate" -> aggregates
           [] r = "group" -> [k \in DOMAIN picks[r] |-> Refill(picks[r][k], names)]
           [] r = "having" -> [k \in DOMAIN picks[r] |-> Refill(picks[r][k], Labels(aggregates))]]

Sync(cat, t) ==
  LET alias   == Aliases(t.lines)
      renames == Renames(t.aliasOf, t.lines, alias)
      names   == Offered(cat, t.lines, alias)
  IN  [lines |-> [i \in DOMAIN t.lines |->
                    [t.lines[i] EXCEPT !.on = SyncedOn(cat, t.lines, alias, i)]],
       aliasOf |-> [row \in {l.row : l \in ToSet(t.lines)} |->
                      alias[CHOOSE i \in DOMAIN t.lines : t.lines[i].row = row]],
       checked |-> SyncedTicks(t.checked, Qualified(cat, t.lines, alias), renames),
       picks |-> SyncedPicks(t.picks, names, renames),
       autoGroup |-> t.autoGroup]

\* What the sources are called since the last sync, which is what the choosers
\* offer.
Named(t) == [i \in DOMAIN t.lines |-> t.aliasOf[t.lines[i].row]]

-----------------------------------------------------------------------------
(***************************************************************************)
(* query_model: the statement the widgets describe.                        *)
(***************************************************************************)

\* _JoinRow.conditions
Conditions(l) ==
  IF l.kind = "CROSS JOIN" THEN <<>>
  ELSE LET complete == Sifted(l.on, {k \in DOMAIN l.on : /\ l.on[k].left # Nothing
                                                           /\ l.on[k].right # Nothing})
       IN  [k \in DOMAIN complete |-> <<complete[k].left, complete[k].right>>]

\* _plain_projections and _grouping_columns.
Plain(cat, t, alias) ==
  LET ticked == Only(Qualified(cat, t.lines, alias), t.checked)
  IN  [k \in DOMAIN ticked |-> Shown(ticked[k], t.lines)]

Grouping(cat, t, alias) ==
  LET all == Found(t.picks["group"])
               \o (IF t.autoGroup /\ Labels(t.picks["aggregate"]) # <<>>
                     THEN Plain(cat, t, alias) ELSE <<>>)
  IN  Sifted(all, {k \in DOMAIN all : \A l \in 1 .. k - 1 : all[l] # all[k]})

\* A join line without a condition is not part of the query yet.
QueryModel(cat, t) ==
  LET alias == Named(t)
      names == Offered(cat, t.lines, alias)
      labels == Labels(t.picks["aggregate"])
      built == {i \in 2 .. Len(t.lines) :
                  t.lines[i].kind = "CROSS JOIN" \/ Conditions(t.lines[i]) # <<>>}
      joined == Sifted([i \in DOMAIN t.lines |-> i], built)
  IN  [source |-> [table |-> t.lines[1].table, alias |-> alias[1]],
       joins |-> [k \in DOMAIN joined |->
                    [table |-> t.lines[joined[k]].table, alias |-> alias[joined[k]],
                     kind |-> t.lines[joined[k]].kind, on |-> Conditions(t.lines[joined[k]])]],
       ticked |-> Only(Qualified(cat, t.lines, alias), t.checked),
       aggregates |-> Valid(t.picks["aggregate"]),
       where |-> Only(t.picks["filter"], ToSet(names)),
       groupBy |-> Grouping(cat, t, alias),
       having |-> Only(t.picks["having"], ToSet(labels)),
       orderBy |-> Found(t.picks["sort"])]

-----------------------------------------------------------------------------
(***************************************************************************)
(* A tab that opens, and _restore_model.                                   *)
(***************************************************************************)

\* A tab with another line, or other rows in a section.
WithLine(t, i, l) == [t EXCEPT !.lines = [t.lines EXCEPT ![i] = l]]
WithRows(t, r, s) == [t EXCEPT !.picks = [t.picks EXCEPT ![r] = s]]

Fresh(cat, t) ==
  Sync(cat, [lines |-> <<Base(t)>>, aliasOf |-> <<>>, checked |-> {}, picks |-> NoPicks,
             autoGroup |-> TRUE])

Sources(m) == <<m.source>> \o m.joins

\* _restored_column: the qualified name of a saved column that is still there,
\* Nothing for one that is not.  `known` are the aliases whose tables are.
RestoredColumn(cat, m, known, name) ==
  LET alias == IF name[1] = <<>> THEN m.source.alias ELSE name[1]
      of    == {s \in ToSet(Sources(m)) : s.alias = alias}
  IN  IF Len(name) = 2 /\ alias \in known
         /\ \E s \in of : Contains(ColumnsOf(cat, s.table), name[2])
        THEN <<alias, name[2]>> ELSE Nothing

\* The aliases left after the joins that lost their table or one of their
\* conditions are dropped, one after the other.
Known(cat, m) ==
  LET resolved == {s.alias : s \in {x \in ToSet(Sources(m)) : x.table \in Tables(cat)}}
      whole(known, j) ==
        /\ j.alias \in known
        /\ \A k \in DOMAIN j.on : \A side \in 1 .. 2 :
             RestoredColumn(cat, m, known, j.on[k][side]) # Nothing
      left[n \in 0 .. Len(m.joins)] ==
        IF n = 0 THEN resolved
        ELSE IF whole(left[n - 1], m.joins[n]) THEN left[n - 1]
        ELSE left[n - 1] \ {m.joins[n].alias}
  IN  left[Len(m.joins)]

RestoredLines(cat, m, known) ==
  LET kept == Sifted(m.joins, {k \in DOMAIN m.joins : m.joins[k].alias \in known})
  IN  <<[Base(m.source.table) EXCEPT !.typed = m.source.alias]>>
        \o [k \in DOMAIN kept |->
              [row |-> k, table |-> kept[k].table, typed |-> kept[k].alias,
               kind |-> kept[k].kind, on |-> <<EmptyOn>>]]

\* _JoinRow.restore_on
Refilled(cat, m, t, i) ==
  LET alias == Named(t)
      saved == (CHOOSE j \in ToSet(m.joins) : j.alias = alias[i]).on
  IN  IF saved = <<>> THEN t.lines[i].on
      ELSE Prefilled(t.lines[i].on, saved,
                     LeftOf(cat, t.lines, alias, i), RightOf(cat, t.lines, alias, i))

\* Mutant: the line is not marked as the user's own.
RestoredOn_Untouched(cat, m, t, i) == Refilled(cat, m, t, i)

RestoredOn(cat, m, t, i) ==
  LET on == Refilled(cat, m, t, i) IN [k \in DOMAIN on |-> [on[k] EXCEPT !.touched = TRUE]]

\* A row that is added, and an aggregate as restoring adds it: the tab syncs
\* before the row is given its column.
NewAggregate(names) ==
  [fn |-> Function[1], column |-> AggregateChoices(Function[1], names)[1]]

AddAggregateTo(cat, t) ==
  LET names == Offered(cat, t.lines, Aliases(t.lines))
  IN  Sync(cat, WithRows(t, "aggregate", Append(t.picks["aggregate"], NewAggregate(names))))

RestoredAggregate(cat, t, a) ==
  LET u == AddAggregateTo(cat, t)
  IN  WithRows(u, "aggregate", [u.picks["aggregate"] EXCEPT ![Len(t.picks["aggregate"]) + 1] = a])

\* Everything but the ON conditions, before the two last syncs.
RestoredPicks(cat, m) ==
  LET known == Known(cat, m)
      lines == RestoredLines(cat, m, known)
      Back(n) == LET name == RestoredColumn(cat, m, known, n)
                 IN  IF name = Nothing THEN Nothing ELSE Shown(name, lines)
      Counted(n) == IF n = AllRows THEN n ELSE Back(n)
      all(names) == Found([k \in DOMAIN names |-> Back(names[k])])
      aggregates == Valid([k \in DOMAIN m.aggregates |->
                             [m.aggregates[k] EXCEPT !.column = Counted(@)]])
      first[n \in 0 .. Len(aggregates)] ==
        IF n = 0 THEN [Fresh(cat, m.source.table) EXCEPT !.lines = lines]
        ELSE RestoredAggregate(cat, first[n - 1], aggregates[n])
      t == first[Len(aggregates)]
      Labelled(l) ==
        LET column == Counted(Tail(l))
            label  == <<l[1], column[1], column[2]>>
        IN  IF Contains(Labels(m.aggregates), l) /\ column # Nothing
               /\ Contains(Labels(aggregates), label) THEN label ELSE Nothing
      ordered(n) == IF Len(n) = 3 THEN Labelled(n) ELSE Back(n)
  IN  [t EXCEPT
         !.checked = {RestoredColumn(cat, m, known, n) : n \in ToSet(m.ticked)} \ {Nothing},
         !.autoGroup = all(m.groupBy) = <<>>,
         !.picks = [r \in RowSection |->
            CASE r = "group" -> all(m.groupBy)
              [] r = "filter" -> all(m.where)
              [] r = "having" -> Found([k \in DOMAIN m.having |-> Labelled(m.having[k])])
              [] r = "sort" -> Found([k \in DOMAIN m.orderBy |-> ordered(m.orderBy[k])])
              [] r = "aggregate" -> t.picks[r]]]

\* The ON conditions go in once the choosers are filled.
RestoredTab(cat, m) ==
  IF m.source.table \notin Tables(cat) THEN Fresh(cat, cat[1].table)
  ELSE LET t == Sync(cat, RestoredPicks(cat, m))
       IN  Sync(cat, [t EXCEPT !.lines = [i \in DOMAIN t.lines |->
              IF i = 1 THEN t.lines[i]
              ELSE [t.lines[i] EXCEPT !.on = RestoredOn(cat, m, t, i)]]])

-----------------------------------------------------------------------------
(***************************************************************************)
(* What the user does.                                                     *)
(***************************************************************************)

Init ==
  /\ catalog \in Catalogs
  /\ \E t \in Tables(catalog) : tab = Fresh(catalog, t)
  /\ edits = 0 /\ reopened = 0

\* An edit after which the tab does not sync, and one after which it does.
Set(t) ==
  /\ edits' = edits + 1
  /\ tab' = t
  /\ UNCHANGED <<catalog, reopened>>

Restructure(t) == Set(Sync(catalog, t))

Joined == 2 .. Len(tab.lines)

PickBase(t) ==
  /\ t # tab.lines[1].table
  /\ Restructure(WithLine(tab, 1, [tab.lines[1] EXCEPT !.table = t]))

TypeAlias(i, word) ==
  /\ word # tab.lines[i].typed
  /\ Restructure(WithLine(tab, i, [tab.lines[i] EXCEPT !.typed = word]))

AddJoin ==
  /\ Len(tab.lines) <= MaxJoins
  /\ LET line == [row |-> Least((1 .. MaxJoins) \ {l.row : l \in ToSet(tab.lines)}),
                  table |-> catalog[1].table, typed |-> Untyped, kind |-> "INNER JOIN",
                  on |-> <<EmptyOn>>]
     IN  Restructure([tab EXCEPT !.lines = Append(tab.lines, line)])

RemoveJoin(i) == Restructure([tab EXCEPT !.lines = RemoveAt(tab.lines, i)])

\* Another table: what the user chose to join by is forgotten.
PickTable(i, t) ==
  /\ t # tab.lines[i].table
  /\ LET l == tab.lines[i]
     IN  Restructure(WithLine(tab, i, [l EXCEPT
           !.table = t, !.on = [k \in DOMAIN l.on |-> [l.on[k] EXCEPT !.touched = FALSE]]]))

PickKind(i, kind) ==
  /\ kind # tab.lines[i].kind
  /\ Restructure(WithLine(tab, i, [tab.lines[i] EXCEPT !.kind = kind]))

SetOn(i, on) ==
  /\ tab.lines[i].kind # "CROSS JOIN"
  /\ Restructure(WithLine(tab, i, [tab.lines[i] EXCEPT !.on = on]))

AddOn(i) == SetOn(i, Append(tab.lines[i].on, [EmptyOn EXCEPT !.touched = TRUE]))

RemoveOn(i, k) ==
  /\ Len(tab.lines[i].on) > 1
  /\ SetOn(i, RemoveAt(tab.lines[i].on, k))

PickOn(i, k, side) ==
  LET names == IF side = "left" THEN LeftOf(catalog, tab.lines, Named(tab), i)
               ELSE RightOf(catalog, tab.lines, Named(tab), i)
      on == tab.lines[i].on
  IN  /\ on[k][side] # Nothing
      /\ \E n \in ToSet(names) \ {on[k][side]} :
           SetOn(i, [on EXCEPT ![k] = [on[k] EXCEPT ![side] = n, !.touched = TRUE]])

Picked ==
  Cardinality(tab.checked) + Cardinality(UNION {{r} \X DOMAIN tab.picks[r] : r \in RowSection})

Tick(n) ==
  /\ n \notin tab.checked /\ Picked < MaxPicks
  /\ Set([tab EXCEPT !.checked = tab.checked \cup {n}])

Untick(n) == n \in tab.checked /\ Set([tab EXCEPT !.checked = tab.checked \ {n}])

ToggleAuto == Restructure([tab EXCEPT !.autoGroup = ~ tab.autoGroup])

\* What the rows of a section may name.
SectionChoices(r) ==
  LET names  == Offered(catalog, tab.lines, Named(tab))
      labels == Labels(tab.picks["aggregate"])
  IN  IF r = "having" THEN labels ELSE IF r = "sort" THEN names \o labels ELSE names

AddRow(r) ==
  /\ r # "aggregate" /\ Picked < MaxPicks
  /\ Set(WithRows(tab, r, Append(tab.picks[r], Refill(Nothing, SectionChoices(r)))))

RemoveRow(r, k) ==
  /\ r # "aggregate"
  /\ Set(WithRows(tab, r, RemoveAt(tab.picks[r], k)))

ChooseRow(r, k) ==
  /\ r # "aggregate" /\ tab.picks[r][k] # Nothing
  /\ \E n \in ToSet(SectionChoices(r)) \ {tab.picks[r][k]} :
       Set(WithRows(tab, r, [tab.picks[r] EXCEPT ![k] = n]))

AddAggregate ==
  /\ Picked < MaxPicks
  /\ Set(AddAggregateTo(catalog, tab))

SetAggregates(s) == Restructure(WithRows(tab, "aggregate", s))

RemoveAggregate(k) == SetAggregates(RemoveAt(tab.picks["aggregate"], k))

PickFunction(k, fn) ==
  LET a == tab.picks["aggregate"][k]
  IN  /\ fn # a.fn
      /\ SetAggregates([tab.picks["aggregate"] EXCEPT ![k] =
           [fn |-> fn, column |-> Refill(a.column, AggregateChoices(fn, SectionChoices("group")))]])

PickAggregated(k) ==
  LET a == tab.picks["aggregate"][k]
  IN  \E n \in ToSet(AggregateChoices(a.fn, SectionChoices("group"))) \ {a.column} :
        SetAggregates([tab.picks["aggregate"] EXCEPT ![k] = [fn |-> a.fn, column |-> n]])

\* The tab is closed, its query saved, and restored, maybe on a database that
\* has changed.
Reopen(cat) ==
  /\ reopened < MaxReopened /\ edits < MaxEdits
  /\ reopened' = reopened + 1 /\ edits' = edits + 1
  /\ catalog' = cat
  /\ tab' = RestoredTab(cat, QueryModel(catalog, tab))

Edit ==
  /\ edits < MaxEdits
  /\ \/ \E t \in Tables(catalog) : PickBase(t) \/ \E i \in Joined : PickTable(i, t)
     \/ \E i \in DOMAIN tab.lines : \E word \in Word \cup {Untyped} : TypeAlias(i, word)
     \/ AddJoin
     \/ \E i \in Joined :
          \/ RemoveJoin(i) \/ AddOn(i)
          \/ \E kind \in Kind : PickKind(i, kind)
          \/ \E k \in DOMAIN tab.lines[i].on :
               RemoveOn(i, k) \/ \E side \in {"left", "right"} : PickOn(i, k, side)
     \/ \E n \in ToSet(Qualified(catalog, tab.lines, Named(tab))) : Tick(n) \/ Untick(n)
     \/ \E r \in RowSection :
          AddRow(r) \/ \E k \in DOMAIN tab.picks[r] : RemoveRow(r, k) \/ ChooseRow(r, k)
     \/ AddAggregate \/ ToggleAuto
     \/ \E k \in DOMAIN tab.picks["aggregate"] :
          RemoveAggregate(k) \/ PickAggregated(k) \/ \E fn \in ToSet(Function) : PickFunction(k, fn)

Next == Edit \/ \E cat \in Catalogs : Reopen(cat)

Spec == Init /\ [][Next]_vars

-----------------------------------------------------------------------------
(***************************************************************************)
(* Properties.                                                             *)
(***************************************************************************)

\* The sources that stay what they were through a step.
Surviving ==
  {e \in (DOMAIN tab.lines) \X (DOMAIN tab'.lines) :
     /\ tab'.lines[e[2]].row = tab.lines[e[1]].row
     /\ tab'.lines[e[2]].table = tab.lines[e[1]].table}

\* A step that gives the sources other names or another order of lines, of a
\* tab with several before and after it.
Structural ==
  /\ reopened' = reopened
  /\ Len(tab.lines) > 1 /\ Len(tab'.lines) > 1
  /\ tab'.lines # tab.lines

\* "An alias the user edits must not quietly drop the columns that named it"
\* (_renames): whatever the user does to the sources of a query of several, a
\* source that stays keeps its ticks, and the filters and sorts that name one
\* of its columns go on naming that column of that source, whatever it is now
\* called.
SurvivorsKeepPicks ==
  [][ Structural =>
        LET was == Named(tab)
            now == Named(tab')
        IN  \A s \in Surviving : \A c \in ToSet(ColumnsOf(catalog, tab.lines[s[1]].table)) :
              LET old == <<was[s[1]], c>>
                  new == <<now[s[2]], c>>
              IN  /\ old \in tab.checked => new \in tab'.checked
                  /\ \A r \in {"filter", "sort"} : \A k \in DOMAIN tab.picks[r] :
                       tab.picks[r][k] = old => tab'.picks[r][k] = new
    ]_vars

\* The statement stands on its own: its aliases are distinct; every column it
\* selects, filters, groups, aggregates or sorts by is a column of exactly one
\* source it names, and so is each side of an ON, the left of an earlier
\* source, the right of its own.  A sort by an aggregate is left out: it may
\* name one that is no longer there.
StatementResolves ==
  LET m == QueryModel(catalog, tab)
      sources == Sources(m)
      One(name, from) ==
        \E k \in from : /\ name[1] = sources[k].alias \/ (name[1] = <<>> /\ Len(sources) = 1)
                        /\ Contains(ColumnsOf(catalog, sources[k].table), name[2])
      named == ToSet(m.ticked) \cup ToSet(m.where) \cup ToSet(m.groupBy)
                 \cup ({a.column : a \in ToSet(m.aggregates)} \ {AllRows})
                 \cup {n \in ToSet(m.orderBy) : Len(n) = 2}
  IN  /\ \A i, j \in DOMAIN sources : sources[i].alias = sources[j].alias => i = j
      /\ \A n \in named : One(n, DOMAIN sources)
      /\ \A k \in DOMAIN m.joins : \A on \in ToSet(m.joins[k].on) :
           One(on[1], 1 .. k) /\ One(on[2], {k + 1})

\* What restoring gets wrong: the base was opened under its table's name, which
\* the first sync then takes another source's picks for; a join's conditions
\* after the first; a sort by an aggregate that is not there; and grouping the
\* user switched off, which is on again when no column is grouped by.
Misread(m) ==
  \/ m.source.alias # <<m.source.table>> /\ \E j \in ToSet(m.joins) : j.alias = <<m.source.table>>
  \/ \E j \in ToSet(m.joins) : Len(j.on) > 1
  \/ \E n \in ToSet(m.orderBy) : Len(n) = 3 /\ ~ Contains(Labels(m.aggregates), n)
  \/ ~ tab.autoGroup /\ m.groupBy = <<>> /\ m.ticked # <<>> /\ m.aggregates # <<>>

\* A query that is none of these comes back, from a database that is what it
\* was, as the query that was saved.
ReopenKeepsQuery ==
  [][ (reopened' # reopened /\ catalog' = catalog) =>
        LET m == QueryModel(catalog, tab) IN Misread(m) \/ QueryModel(catalog', tab') = m
    ]_vars
=============================================================================
