------------------------------- MODULE TomlMerge -------------------------------
(***************************************************************************)
(* sqlide/backend/tomlwrite.py: the document a store's data is written     *)
(* over, line by line.  A line is a `key = value`, a comment, a [table]    *)
(* header or an [[array]] header; blank lines, quoting and layout are left *)
(* out.  The data is three functions: scalars, tables (each a function),   *)
(* and arrays of tables (each a non-empty sequence of functions).          *)
(***************************************************************************)
EXTENDS Naturals, Sequences, FiniteSets, SequencesExt

Line(k, n, v) == [k |-> k, n |-> n, v |-> v]
KeyLine(n, v) == Line("key", n, v)
Comment(n) == Line("comment", n, "")
IsHeader(l) == l.k \in {"table", "array"}

Empty == [x \in {} |-> x]
NoTables == [scalars |-> Empty, tables |-> Empty, arrays |-> Empty]

KeyLines(f) == LET s == SetToSeq(DOMAIN f) IN [i \in DOMAIN s |-> KeyLine(s[i], f[s[i]])]

\* _table_lines
TableLines(name, f, kind) == << Line(kind, name, "") >> \o KeyLines(f)

AllTables(D) ==
    LET s == SetToSeq(DOMAIN D.tables)
    IN  FlattenSeq([i \in DOMAIN s |-> TableLines(s[i], D.tables[s[i]], "table")])
ArrayLines(D, name) ==
    FlattenSeq([i \in DOMAIN D.arrays[name] |-> TableLines(name, D.arrays[name][i], "array")])

\* dumps
Dumps(D) ==
    LET s == SetToSeq(DOMAIN D.arrays)
    IN  KeyLines(D.scalars) \o AllTables(D)
        \o FlattenSeq([i \in DOMAIN s |-> ArrayLines(D, s[i])])

\* _split: where the headers are, where the head ends, and the comments that
\* lead the first section.  Only the first section has a lead: after it every
\* line goes to the body of the section it is in.
Headers(doc) == {i \in DOMAIN doc : IsHeader(doc[i])}
First(doc) == CHOOSE h \in Headers(doc) : \A g \in Headers(doc) : h <= g
Before(doc) == IF Headers(doc) = {} THEN doc ELSE SubSeq(doc, 1, First(doc) - 1)
HeadEnd(doc) ==
    IF Headers(doc) = {} THEN Len(doc)
    ELSE CHOOSE n \in 0 .. First(doc) - 1 :
           /\ n # 0 => doc[n].k # "comment"
           /\ \A i \in n + 1 .. First(doc) - 1 : doc[i].k = "comment"
Head1(doc) == SubSeq(doc, 1, HeadEnd(doc))
Lead(doc, h) ==
    IF h = First(doc) THEN SubSeq(doc, HeadEnd(doc) + 1, h - 1) ELSE << >>

\* _rewrite_head
\* Mutant: a key the application does not know is dropped.
RewriteHead_Drops(head, scalars) ==
    SelectSeq([i \in DOMAIN head |->
        IF head[i].k = "key" /\ head[i].n \in DOMAIN scalars
          THEN KeyLine(head[i].n, scalars[head[i].n]) ELSE head[i]],
        LAMBDA l : l.k # "key" \/ l.n \in DOMAIN scalars)

RewriteHead(head, scalars) ==
    [i \in DOMAIN head |->
        IF head[i].k = "key" /\ head[i].n \in DOMAIN scalars
          THEN KeyLine(head[i].n, scalars[head[i].n]) ELSE head[i]]

Written(head) == {l.n : l \in {x \in ToSet(head) : x.k = "key"}}
Without(f, S) == [x \in DOMAIN f \ S |-> f[x]]

\* merge: a section the data has is written anew in its place, the first of
\* an array's with every entry; one it does not have is dropped.
Section(doc, D, h) ==
    LET name == doc[h].n
        again == \E g \in Headers(doc) : g < h /\ doc[g].n = name
    IN  IF name \in DOMAIN D.tables
          THEN Lead(doc, h) \o TableLines(name, D.tables[name], "table")
        ELSE IF name \in DOMAIN D.arrays /\ ~again
          THEN Lead(doc, h) \o ArrayLines(D, name)
        ELSE << >>

Sections(doc, D) ==
    FlattenSeq([i \in DOMAIN doc |-> IF IsHeader(doc[i]) THEN Section(doc, D, i) ELSE << >>])
Rest(doc, D) ==
    LET named == {doc[h].n : h \in Headers(doc)}
    IN  [scalars |-> Empty, tables |-> Without(D.tables, named),
         arrays |-> Without(D.arrays, named)]
NewKeys(doc, D) == KeyLines(Without(D.scalars, Written(Head1(doc))))

\* Mutant: a new scalar is appended after the sections.
Merge_ScalarsLast(doc, D) ==
    IF doc = << >> THEN Dumps(D)
    ELSE RewriteHead(Head1(doc), D.scalars) \o Sections(doc, D) \o NewKeys(doc, D)
         \o Dumps(Rest(doc, D))

Merge(doc, D) ==
    IF doc = << >> THEN Dumps(D)
    ELSE RewriteHead(Head1(doc), D.scalars) \o NewKeys(doc, D) \o Sections(doc, D)
         \o Dumps(Rest(doc, D))

-----------------------------------------------------------------------------
(* tomllib: what a document says, and whether it says anything at all.     *)

\* The header line i is under (0: the head).
Under(doc, i) ==
    LET hs == {h \in 1..i : IsHeader(doc[h])}
    IN  IF hs = {} THEN 0 ELSE CHOOSE h \in hs : \A g \in hs : g <= h
KeysUnder(doc, h) == {i \in DOMAIN doc : doc[i].k = "key" /\ Under(doc, i) = h}

Valid(doc) ==
    /\ \A i, j \in DOMAIN doc :
         /\ (i # j /\ doc[i].k = "key" /\ doc[j].k = "key" /\ Under(doc, i) = Under(doc, j))
                => doc[i].n # doc[j].n
         /\ (i # j /\ IsHeader(doc[i]) /\ IsHeader(doc[j]) /\ doc[i].n = doc[j].n)
                => doc[i].k = "array" /\ doc[j].k = "array"
         /\ (doc[i].k = "key" /\ Under(doc, i) = 0 /\ IsHeader(doc[j]))
                => doc[i].n # doc[j].n

NamedBy(doc, S) == {doc[i].n : i \in S}
Body(doc, h) ==
    [n \in NamedBy(doc, KeysUnder(doc, h)) |->
        doc[CHOOSE i \in KeysUnder(doc, h) : doc[i].n = n].v]

\* load_toml: a document that is not TOML is an empty one.
HeadersOf(doc, kind) == {h \in DOMAIN doc : doc[h].k = kind}
Tables(doc) ==
    [n \in NamedBy(doc, HeadersOf(doc, "table")) |->
       Body(doc, CHOOSE h \in HeadersOf(doc, "table") : doc[h].n = n)]
Entries(doc, n) == {h \in HeadersOf(doc, "array") : doc[h].n = n}
Nth(S, e) == CHOOSE h \in S : Cardinality({g \in S : g <= h}) = e
Arrays(doc) ==
    [n \in NamedBy(doc, HeadersOf(doc, "array")) |->
       [e \in 1 .. Cardinality(Entries(doc, n)) |-> Body(doc, Nth(Entries(doc, n), e))]]
Parse(doc) ==
    IF ~Valid(doc) THEN NoTables
    ELSE [scalars |-> Body(doc, 0), tables |-> Tables(doc), arrays |-> Arrays(doc)]

=============================================================================
