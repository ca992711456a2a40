---------------------------- MODULE ServersProofs ---------------------------
(* Theorems about the servers the application runs and asks: the language   *)
(* servers (LanguageServers, here L), for editors, questions, locks and     *)
(* processes of any number; and its own MCP servers (McpServer, here P),    *)
(* for starts, connections and calls of any number; and of the              *)
(* specification MCFiles runs.                                              *)
EXTENDS MCFiles, Integers, TLAPS

-----------------------------------------------------------------------------
(* The language servers.                                                   *)

Message == [op : {"text"}, text : L!Request] \cup [op : {"ask"}, id : Nat]
Answer  == [id : Nat, items : SUBSET (L!Request \cup {L!NoOne})]

ReqShape ==
  [pc : {"none", "lookup", "starting", "wait", "sync", "send", "answer",
         "posted", "over"},
   key : Key \cup {L!NoOne}, proc : Nat, id : Nat,
   got : SUBSET (L!Request \cup {L!NoOne})]

ProcShape ==
  [of : Key \cup {L!NoOne}, st : {"unborn", "up", "dead"},
   doc : L!Request \cup {L!NoOne}, inbox : Seq(Message), outbox : Seq(Answer),
   lock : L!Request \cup {L!NoOne}, ids : Nat, pending : SUBSET Nat]

Shapes ==
  /\ popup \in [Console -> SUBSET (L!Request \cup {L!NoOne})]
  /\ req \in [L!Request -> ReqShape]
  /\ proc \in [L!Proc -> ProcShape]
  /\ server \in [Key -> {L!Absent, L!Off} \cup L!Proc]

Placed == {"starting", "wait", "sync", "send", "answer"}
Holds  == {"sync", "send", "answer"}

Text(r) == [op |-> "text", text |-> r]

\* No message carries a number that was not given yet.
Numbered(x) ==
  /\ \A i \in 1 .. Len(x.inbox) : x.inbox[i].op = "ask" => x.inbox[i].id <= x.ids
  /\ \A i \in 1 .. Len(x.outbox) : x.outbox[i].id <= x.ids

\* The process x, once it has read what it was sent, has the text of r.
LastText(x, r) ==
  x.st = "up" =>
    IF Len(x.inbox) = 0 THEN x.doc = r ELSE x.inbox[Len(x.inbox)] = Text(r)

\* Its answer to the question n, given or to be given, is about the text of r.
Answered(x, r, n) ==
  /\ n <= x.ids
  /\ \A i \in 1 .. Len(x.outbox) : x.outbox[i].id = n => x.outbox[i].items \subseteq {r}
  /\ \A i \in 1 .. Len(x.inbox) : x.inbox[i].op = "ask" /\ x.inbox[i].id = n =>
       IF i = 1 THEN x.doc = r ELSE x.inbox[i - 1] = Text(r)

\* A request beyond the lookup has a process that was started, and holds its
\* lock from before its text is sent until it is over: so nobody else's text
\* comes between its own and the answer.
Good(r) ==
  /\ req[r].got \subseteq {r}
  /\ req[r].pc \in {"lookup", "starting"} => req[r].key \in Key
  /\ req[r].pc \in Placed =>
       req[r].proc \in L!Proc /\ proc[req[r].proc].st # "unborn"
  /\ req[r].pc \in Holds => proc[req[r].proc].lock = r
  /\ req[r].pc = "send" => LastText(proc[req[r].proc], r)
  /\ req[r].pc = "answer" => Answered(proc[req[r].proc], r, req[r].id)

Known == \A k \in Key : server[k] \in L!Proc => proc[server[k]].st # "unborn"

\* From x to y a process keeps its lock, and its messages in their order.
Steady(x, y) ==
  /\ y \in ProcShape /\ (x.st # "unborn" => y.st # "unborn") /\ y.lock = x.lock
  /\ Numbered(x) => Numbered(y)
  /\ \A r \in L!Request : LastText(x, r) => LastText(y, r)
  /\ \A r \in L!Request, n \in Nat : Answered(x, r, n) => Answered(y, r, n)

Served(x, y) ==
  LET m == Head(x.inbox)
  IN  \/ m.op = "text" /\ y = [x EXCEPT !.inbox = Tail(@), !.doc = m.text]
      \/ /\ m.op # "text"
         /\ \E items \in {{}, {x.doc}} :
              y = [x EXCEPT !.inbox = Tail(@),
                            !.outbox = Append(@, [id |-> m.id, items |-> items])]

LspInv ==
  /\ Shapes
  /\ Known
  /\ \A p \in L!Proc : Numbered(proc[p])
  /\ \A r \in L!Request : Good(r)

LEMMA RequestIsSome ==
  ASSUME NEW r \in L!Request
  PROVE  r # L!NoOne /\ r = <<r[1], r[2]>> /\ r[1] \in Console
<1>1. PICK c \in Console, n \in 1 .. MaxAsks : r = <<c, n>>
  BY DEF L!Request
<1>2. r[1] = c /\ r[2] = n /\ Len(r) = 2
  BY <1>1
<1> QED
  BY <1>1, <1>2 DEF L!NoOne

LEMMA LspInit ==
  ASSUME L!Init
  PROVE  LspInv
<1> USE DEF L!Init
<1>1. L!Idle \in ReqShape /\ L!Unborn \in ProcShape
  BY DEF L!Idle, ReqShape, L!Unborn, ProcShape
<1>2. Shapes
  BY <1>1 DEF Shapes
<1>3. Known
  BY DEF Known, L!Absent, L!Proc
<1>4. \A p \in L!Proc : Numbered(proc[p])
  BY DEF L!Unborn, Numbered
<1>5. \A r \in L!Request : Good(r)
  BY DEF Good, L!Idle, Placed, Holds
<1> QED
  BY <1>2, <1>3, <1>4, <1>5 DEF LspInv

-----------------------------------------------------------------------------
(* What happens to one process.                                            *)

\* Reading its oldest message.
LEMMA ServeStep ==
  ASSUME NEW x \in ProcShape, x.st = "up", x.inbox # <<>>, NEW y, Served(x, y)
  PROVE  Steady(x, y)
<1> DEFINE in == x.inbox
           out == x.outbox
           m == Head(in)
<1>1. in \in Seq(Message) /\ out \in Seq(Answer) /\ x.ids \in Nat
  BY DEF ProcShape
<1>2. Len(in) \in Nat /\ Len(in) > 0 /\ m = in[1] /\ m \in Message
  BY <1>1
<1>3. Tail(in) \in Seq(Message) /\ Len(Tail(in)) = Len(in) - 1
      /\ \A i \in 1 .. Len(in) - 1 : Tail(in)[i] = in[i + 1]
  BY <1>1, <1>2
<1>4. CASE m.op = "text" /\ y = [x EXCEPT !.inbox = Tail(@), !.doc = m.text]
  <2>1. m.text \in L!Request
    BY <1>2, <1>4 DEF Message
  <2>2. y \in ProcShape /\ y.st = x.st /\ y.lock = x.lock /\ y.inbox = Tail(in)
        /\ y.outbox = out /\ y.doc = m.text /\ y.ids = x.ids
    BY <1>3, <1>4, <2>1 DEF ProcShape
  <2>3. Numbered(x) => Numbered(y)
    BY <1>2, <1>3, <2>2 DEF Numbered
  <2>4. \A r \in L!Request : LastText(x, r) => LastText(y, r)
    <3> SUFFICES ASSUME NEW r \in L!Request, LastText(x, r) PROVE LastText(y, r)
      OBVIOUS
    <3>1. in[Len(in)] = Text(r)
      BY <1>2 DEF LastText
    <3>2. CASE Len(in) = 1
      <4>1. y.doc = r
        BY <1>2, <2>2, <3>1, <3>2 DEF Text
      <4> QED
        BY <1>3, <2>2, <3>2, <4>1 DEF LastText
    <3>3. CASE Len(in) # 1
      <4>1. PICK n \in Nat : n = Len(in)
        BY <1>2
      <4>0. n > 0 /\ n # 1
        BY <1>2, <3>3, <4>1
      <4>2. n > 1 /\ n - 1 \in 1 .. n - 1 /\ (n - 1) + 1 = n
        BY <4>0
      <4>3. Tail(in)[n - 1] = in[n]
        BY <1>3, <4>1, <4>2
      <4>4. Len(y.inbox) = n - 1 /\ y.inbox[n - 1] = Text(r)
        BY <1>3, <2>2, <3>1, <4>1, <4>3
      <4> QED
        BY <4>2, <4>4 DEF LastText
    <3> QED
      BY <3>2, <3>3
  <2>5. \A r \in L!Request, n \in Nat : Answered(x, r, n) => Answered(y, r, n)
    <3> SUFFICES ASSUME NEW r \in L!Request, NEW n \in Nat, Answered(x, r, n)
                 PROVE  Answered(y, r, n)
      OBVIOUS
    <3>1. ASSUME NEW i \in 1 .. Len(y.inbox), y.inbox[i].op = "ask", y.inbox[i].id = n
          PROVE  IF i = 1 THEN y.doc = r ELSE y.inbox[i - 1] = Text(r)
      <4>1. i + 1 \in 1 .. Len(in) /\ in[i + 1] = y.inbox[i] /\ i + 1 # 1
        BY <1>2, <1>3, <2>2, <3>1
      <4>2. in[i] = Text(r)
        BY <1>2, <3>1, <4>1 DEF Answered
      <4>3. CASE i = 1
        BY <1>2, <2>2, <4>2, <4>3 DEF Text
      <4>4. CASE i # 1
        <5>1. i - 1 \in 1 .. Len(in) - 1 /\ (i - 1) + 1 = i
          BY <1>2, <1>3, <2>2, <4>4
        <5> QED
          BY <1>3, <2>2, <4>2, <4>4, <5>1
      <4> QED
        BY <4>3, <4>4
    <3> QED
      BY <2>2, <3>1 DEF Answered
  <2> QED
    BY <2>2, <2>3, <2>4, <2>5 DEF Steady
<1>5. ASSUME m.op # "text", NEW items \in {{}, {x.doc}},
             y = [x EXCEPT !.inbox = Tail(@),
                           !.outbox = Append(@, [id |-> m.id, items |-> items])]
      PROVE  Steady(x, y)
  <2> DEFINE a == [id |-> m.id, items |-> items]
  <2>1. m.op = "ask" /\ m.id \in Nat /\ a \in Answer
    BY <1>2, <1>5 DEF Message, Answer, ProcShape
  <2>2. Append(out, a) \in Seq(Answer) /\ Len(Append(out, a)) = Len(out) + 1
        /\ Append(out, a)[Len(out) + 1] = a
        /\ \A i \in 1 .. Len(out) : Append(out, a)[i] = out[i]
    BY <1>1, <2>1
  <2>3. y \in ProcShape /\ y.st = x.st /\ y.lock = x.lock /\ y.inbox = Tail(in)
        /\ y.outbox = Append(out, a) /\ y.doc = x.doc /\ y.ids = x.ids
    BY <1>3, <1>5, <2>2 DEF ProcShape
  <2>4. \A i \in 1 .. Len(y.outbox) : i \in 1 .. Len(out) \/ y.outbox[i] = a
    BY <1>1, <2>2, <2>3
  <2>5. Numbered(x) => Numbered(y)
    <3> SUFFICES ASSUME Numbered(x) PROVE Numbered(y)
      OBVIOUS
    <3>1. \A i \in 1 .. Len(y.inbox) : y.inbox[i].op = "ask" => y.inbox[i].id <= y.ids
      <4> TAKE i \in 1 .. Len(y.inbox)
      <4>1. i + 1 \in 1 .. Len(in) /\ y.inbox[i] = in[i + 1]
        BY <1>2, <1>3, <2>3
      <4> QED
        BY <2>3, <4>1 DEF Numbered
    <3>2. m.id <= x.ids
      BY <1>2, <2>1 DEF Numbered
    <3>3. \A i \in 1 .. Len(y.outbox) : y.outbox[i].id <= y.ids
      <4> TAKE i \in 1 .. Len(y.outbox)
      <4>1. CASE i \in 1 .. Len(out)
        BY <2>2, <2>3, <4>1 DEF Numbered
      <4>2. CASE y.outbox[i] = a
        BY <2>3, <3>2, <4>2
      <4> QED
        BY <2>4, <4>1, <4>2
    <3> QED
      BY <3>1, <3>3 DEF Numbered
  <2>6. \A r \in L!Request : LastText(x, r) => LastText(y, r)
    BY <1>2, <1>3, <1>5, <2>3 DEF LastText, Text
  <2>7. \A r \in L!Request, n \in Nat : Answered(x, r, n) => Answered(y, r, n)
    <3> SUFFICES ASSUME NEW r \in L!Request, NEW n \in Nat, Answered(x, r, n)
                 PROVE  Answered(y, r, n)
      OBVIOUS
    <3>1. ASSUME NEW i \in 1 .. Len(y.inbox), y.inbox[i].op = "ask", y.inbox[i].id = n
          PROVE  IF i = 1 THEN y.doc = r ELSE y.inbox[i - 1] = Text(r)
      <4>1. i + 1 \in 1 .. Len(in) /\ in[i + 1] = y.inbox[i] /\ i + 1 # 1
        BY <1>2, <1>3, <2>3, <3>1
      <4>2. in[i] = Text(r)
        BY <1>2, <3>1, <4>1 DEF Answered
      <4>3. i # 1
        BY <1>2, <1>5, <4>2 DEF Text
      <4>4. i - 1 \in 1 .. Len(in) - 1 /\ (i - 1) + 1 = i
        BY <1>2, <1>3, <2>3, <4>3
      <4> QED
        BY <1>3, <2>3, <4>2, <4>3, <4>4
    <3>2. m.id = n => items \subseteq {r}
      BY <1>2, <1>5, <2>1 DEF Answered
    <3>3. \A i \in 1 .. Len(y.outbox) :
            y.outbox[i].id = n => y.outbox[i].items \subseteq {r}
      BY <2>2, <2>3, <2>4, <3>2 DEF Answered
    <3> QED
      BY <2>3, <3>1, <3>3 DEF Answered
  <2> QED
    BY <2>3, <2>5, <2>6, <2>7 DEF Steady
<1> QED
  BY <1>4, <1>5 DEF Served

\* Dying: what it was sent is gone, and the end of what it wrote.
LEMMA DieStep ==
  ASSUME NEW x \in ProcShape, NEW n \in 0 .. Len(x.outbox), NEW y,
         y = [x EXCEPT !.st = "dead", !.doc = L!NoOne, !.inbox = <<>>,
                       !.outbox = SubSeq(@, 1, n)]
  PROVE  Steady(x, y)
<1> DEFINE out == x.outbox
<1>1. out \in Seq(Answer) /\ Len(out) \in Nat /\ n \in Nat /\ n <= Len(out)
  BY DEF ProcShape
<1>2. SubSeq(out, 1, n) \in Seq(Answer) /\ Len(SubSeq(out, 1, n)) = n
      /\ \A i \in 1 .. n : SubSeq(out, 1, n)[i] = out[i] /\ i \in 1 .. Len(out)
  BY <1>1
<1>3. y \in ProcShape /\ y.st = "dead" /\ y.lock = x.lock /\ y.inbox = <<>>
      /\ y.outbox = SubSeq(out, 1, n) /\ y.ids = x.ids
  <2>1. <<>> \in Seq(Message) /\ "dead" \in {"unborn", "up", "dead"}
        /\ L!NoOne \in L!Request \cup {L!NoOne}
    OBVIOUS
  <2>2. y.st = "dead" /\ y.lock = x.lock /\ y.inbox = <<>> /\ y.doc = L!NoOne
        /\ y.outbox = SubSeq(out, 1, n) /\ y.ids = x.ids
    BY <1>2 DEF ProcShape
  <2>3. y \in ProcShape
    BY <1>2, <2>1 DEF ProcShape
  <2> QED
    BY <2>2, <2>3
<1> QED
  BY <1>2, <1>3 DEF Steady, Numbered, LastText, Answered

\* Being read from.
LEMMA ReadStep ==
  ASSUME NEW x \in ProcShape, x.outbox # <<>>, NEW y \in ProcShape,
         y.inbox = x.inbox, y.doc = x.doc, y.st = x.st, y.ids = x.ids,
         y.outbox = Tail(x.outbox)
  PROVE  /\ Numbered(x) => Numbered(y)
         /\ \A r \in L!Request : LastText(x, r) => LastText(y, r)
         /\ \A r \in L!Request, k \in Nat :
              Answered(x, r, k) =>
                /\ Answered(y, r, k)
                /\ Head(x.outbox).id = k => Head(x.outbox).items \subseteq {r}
<1> DEFINE out == x.outbox
<1>1. out \in Seq(Answer) /\ Len(out) \in Nat /\ Len(out) > 0 /\ Head(out) = out[1]
  BY DEF ProcShape
<1>2. Len(Tail(out)) = Len(out) - 1
      /\ \A i \in 1 .. Len(out) - 1 : Tail(out)[i] = out[i + 1] /\ i + 1 \in 1 .. Len(out)
  BY <1>1
<1>3. 1 \in 1 .. Len(out)
  BY <1>1
<1> QED
  BY <1>1, <1>2, <1>3 DEF Numbered, LastText, Answered

\* Being sent a text.
LEMMA TextStep ==
  ASSUME NEW x \in ProcShape, NEW r \in L!Request, NEW y,
         y = [x EXCEPT !.inbox = Append(@, Text(r))]
  PROVE  /\ y \in ProcShape /\ y.st = x.st /\ y.lock = x.lock
         /\ Numbered(x) => Numbered(y)
         /\ LastText(y, r)
<1> DEFINE in == x.inbox
<1>1. in \in Seq(Message) /\ Len(in) \in Nat /\ Text(r) \in Message
  BY DEF ProcShape, Message, Text
<1>2. Append(in, Text(r)) \in Seq(Message)
      /\ Len(Append(in, Text(r))) = Len(in) + 1
      /\ Append(in, Text(r))[Len(in) + 1] = Text(r)
      /\ \A i \in 1 .. Len(in) : Append(in, Text(r))[i] = in[i]
  BY <1>1
<1>3. y \in ProcShape /\ y.st = x.st /\ y.lock = x.lock /\ y.outbox = x.outbox
      /\ y.inbox = Append(in, Text(r)) /\ y.ids = x.ids
  BY <1>2 DEF ProcShape
<1>4. LastText(y, r)
  BY <1>1, <1>2, <1>3 DEF LastText
<1>5. ASSUME Numbered(x) PROVE Numbered(y)
  <2>1. \A i \in 1 .. Len(y.inbox) : i \in 1 .. Len(in) \/ y.inbox[i] = Text(r)
    BY <1>1, <1>2, <1>3
  <2> QED
    BY <1>2, <1>3, <1>5, <2>1 DEF Numbered, Text
<1> QED
  BY <1>3, <1>4, <1>5

\* Being asked, right after its text.
LEMMA AskStep ==
  ASSUME NEW x \in ProcShape, NEW r \in L!Request, x.st = "up",
         LastText(x, r), Numbered(x), NEW n, n = x.ids + 1, NEW y,
         y = [x EXCEPT !.inbox = Append(@, [op |-> "ask", id |-> n]),
                       !.ids = n, !.pending = @ \cup {n}]
  PROVE  /\ y \in ProcShape /\ y.st = x.st /\ y.lock = x.lock
         /\ Numbered(y) /\ Answered(y, r, n)
<1> DEFINE in == x.inbox
           q == [op |-> "ask", id |-> n]
<1>1. in \in Seq(Message) /\ Len(in) \in Nat /\ x.ids \in Nat /\ n \in Nat
      /\ q \in Message /\ x.outbox \in Seq(Answer)
  BY DEF ProcShape, Message
<1>2. Append(in, q) \in Seq(Message) /\ Len(Append(in, q)) = Len(in) + 1
      /\ Append(in, q)[Len(in) + 1] = q
      /\ \A i \in 1 .. Len(in) : Append(in, q)[i] = in[i]
  BY <1>1
<1>3. y \in ProcShape /\ y.st = x.st /\ y.lock = x.lock /\ y.outbox = x.outbox
      /\ y.inbox = Append(in, q) /\ y.ids = n /\ y.doc = x.doc
  <2>1. x.pending \cup {n} \in SUBSET Nat
    BY <1>1 DEF ProcShape
  <2>2. y \in ProcShape
    BY <1>1, <1>2, <2>1 DEF ProcShape
  <2> QED
    BY <1>2, <2>2 DEF ProcShape
<1>4. \A i \in 1 .. Len(y.outbox) : y.outbox[i].id <= x.ids /\ y.outbox[i].id \in Nat
  <2> TAKE i \in 1 .. Len(y.outbox)
  <2>1. i \in 1 .. Len(x.outbox) /\ y.outbox[i] = x.outbox[i]
    BY <1>3
  <2>2. x.outbox[i] \in Answer
    BY <1>1, <2>1
  <2>3. x.outbox[i].id <= x.ids
    BY <2>1 DEF Numbered
  <2> QED
    BY <2>1, <2>2, <2>3 DEF Answer
<1>5. \A i \in 1 .. Len(y.inbox) :
        y.inbox[i].op = "ask" =>
          \/ i \in 1 .. Len(in) /\ y.inbox[i].id <= x.ids /\ y.inbox[i].id \in Nat
          \/ i = Len(in) + 1 /\ y.inbox[i].id = n
  <2> TAKE i \in 1 .. Len(y.inbox)
  <2>1. i \in 1 .. Len(in) \/ i = Len(in) + 1
    BY <1>1, <1>2, <1>3
  <2>2. CASE i = Len(in) + 1
    BY <1>2, <1>3, <2>2
  <2>3. ASSUME i \in 1 .. Len(in), y.inbox[i].op = "ask"
        PROVE  y.inbox[i].id <= x.ids /\ y.inbox[i].id \in Nat
    <3>1. y.inbox[i] = in[i] /\ in[i] \in Message
      BY <1>1, <1>2, <1>3, <2>3
    <3> QED
      BY <2>3, <3>1 DEF Numbered, Message
  <2> QED
    BY <2>1, <2>2, <2>3
<1>6. Numbered(y)
  <2>1. \A k \in Nat : k <= x.ids => k <= n
    BY <1>1
  <2>2. \A i \in 1 .. Len(y.outbox) : y.outbox[i].id <= n
    BY <1>4, <2>1
  <2>3. ASSUME NEW i \in 1 .. Len(y.inbox), y.inbox[i].op = "ask"
        PROVE  y.inbox[i].id <= n
    BY <1>1, <1>5, <2>1, <2>3
  <2> QED
    BY <1>3, <2>2, <2>3 DEF Numbered
<1>7. ASSUME NEW i \in 1 .. Len(y.inbox), y.inbox[i].op = "ask", y.inbox[i].id = n
      PROVE  IF i = 1 THEN y.doc = r ELSE y.inbox[i - 1] = Text(r)
  <2>1. i = Len(in) + 1
    BY <1>1, <1>5, <1>7
  <2>2. CASE Len(in) = 0
    BY <1>3, <2>1, <2>2 DEF LastText
  <2>3. CASE Len(in) # 0
    <3>1. i # 1 /\ i - 1 = Len(in) /\ Len(in) \in 1 .. Len(in)
      BY <1>1, <2>1, <2>3
    <3> QED
      BY <1>2, <1>3, <2>3, <3>1 DEF LastText
  <2> QED
    BY <2>2, <2>3
<1>8. Answered(y, r, n)
  BY <1>1, <1>3, <1>4, <1>7 DEF Answered
<1> QED
  BY <1>3, <1>6, <1>8

-----------------------------------------------------------------------------
(* Every step preserves the invariant.                                     *)

\* A request that does not move stays good if its process is left alone, or
\* keeps its lock, and its messages in their order.
LEMMA StaysGood ==
  ASSUME Shapes, NEW r \in L!Request, Good(r), req'[r] = req[r],
         NEW x, x = proc[req[r].proc], NEW y, y = proc'[req[r].proc],
         req[r].pc \in Placed =>
           \/ y = x
           \/ /\ y.st # "unborn"
              /\ req[r].pc \in Holds =>
                   /\ y.lock = r
                   /\ LastText(x, r) => LastText(y, r)
                   /\ \A n \in Nat : Answered(x, r, n) => Answered(y, r, n)
  PROVE  Good(r)'
<1>1. req[r].id \in Nat
  BY DEF Shapes, ReqShape
<1>2. /\ req'[r].got \subseteq {r}
      /\ req'[r].pc \in {"lookup", "starting"} => req'[r].key \in Key
      /\ req'[r].pc \in Placed =>
           req'[r].proc \in L!Proc /\ proc'[req'[r].proc].st # "unborn"
  BY DEF Good
<1>3. req'[r].pc \in Holds => proc'[req'[r].proc].lock = r
  BY DEF Good, Holds, Placed
<1>4. req'[r].pc = "send" => LastText(y, r)
  BY DEF Good, Holds, Placed
<1>5. req'[r].pc = "answer" => Answered(y, r, req[r].id)
  BY <1>1 DEF Good, Holds, Placed
<1> QED
  BY <1>2, <1>3, <1>4, <1>5 DEF Good, LastText, Answered

\* A worker's own step, that changes no process.
LEMMA WorkerStep ==
  ASSUME LspInv, UNCHANGED proc,
         popup' \in [Console -> SUBSET (L!Request \cup {L!NoOne})],
         req' \in [L!Request -> ReqShape], server' \in [Key -> {L!Absent, L!Off} \cup L!Proc],
         \A k \in Key : \/ server'[k] \in {L!Absent, L!Off, server[k]}
                        \/ server'[k] \in L!Proc /\ proc[server'[k]].st # "unborn",
         \A r \in L!Request : req'[r] = req[r] \/ Good(r)'
  PROVE  LspInv'
<1>1. Shapes'
  BY DEF LspInv, Shapes
<1>2. Known'
  BY DEF LspInv, Known, L!Absent, L!Off, L!Proc
<1>3. \A p \in L!Proc : Numbered(proc[p])'
  BY DEF LspInv, Numbered
<1>4. \A r \in L!Request : Good(r)'
  <2> TAKE r \in L!Request
  <2>1. CASE req'[r] = req[r]
    BY <2>1, StaysGood DEF LspInv
  <2> QED
    BY <2>1
<1> QED
  BY <1>1, <1>2, <1>3, <1>4 DEF LspInv

\* A step of the process p to y, or upon it, leaves the request r alone.
Undisturbed(r, p, y) ==
  /\ req'[r] = req[r]
  /\ req[r].pc \in Holds /\ req[r].proc = p =>
       /\ y.lock = r
       /\ LastText(proc[p], r) => LastText(y, r)
       /\ \A n \in Nat : Answered(proc[p], r, n) => Answered(y, r, n)

LEMMA ProcessStep ==
  ASSUME LspInv, UNCHANGED <<popup, server>>, req' \in [L!Request -> ReqShape],
         NEW p \in L!Proc, NEW y \in ProcShape, proc' = [proc EXCEPT ![p] = y],
         proc[p].st # "unborn" => y.st # "unborn", Numbered(y),
         \A r \in L!Request : Good(r)' \/ Undisturbed(r, p, y)
  PROVE  LspInv'
<1>0. proc \in [L!Proc -> ProcShape] /\ Shapes
  BY DEF LspInv, Shapes
<1>1. proc'[p] = y /\ proc' \in [L!Proc -> ProcShape]
      /\ \A q \in L!Proc : q # p => proc'[q] = proc[q]
  BY <1>0
<1>2. Shapes'
  BY <1>0, <1>1 DEF Shapes
<1>3. Known'
  BY <1>1 DEF LspInv, Known
<1>4. \A q \in L!Proc : Numbered(proc[q])'
  <2> TAKE q \in L!Proc
  <2>1. CASE q = p
    BY <1>1, <2>1 DEF Numbered
  <2>2. CASE q # p
    BY <1>1, <2>2 DEF LspInv, Numbered
  <2> QED
    BY <2>1, <2>2
<1>5. \A r \in L!Request : Good(r)'
  <2> TAKE r \in L!Request
  <2>1. CASE ~ Good(r)'
    <3>1. Good(r) /\ Undisturbed(r, p, y) /\ req'[r] = req[r]
      BY <2>1 DEF LspInv, Undisturbed
    <3>2. req[r].pc \in Placed => req[r].proc \in L!Proc
      BY <3>1 DEF Good
    <3>3. req[r].pc \in Placed /\ req[r].proc # p => proc'[req[r].proc] = proc[req[r].proc]
      BY <1>1, <3>2
    <3>4. req[r].pc \in Placed /\ req[r].proc = p => y.st # "unborn"
      BY <3>1 DEF Good
    <3> QED
      BY <1>0, <1>1, <2>1, <3>1, <3>3, <3>4, StaysGood DEF Undisturbed
  <2> QED
    BY <2>1
<1> QED
  BY <1>2, <1>3, <1>4, <1>5 DEF LspInv

\* A request that has been answered, or is over, needs nothing.
LEMMA PostedIsGood ==
  ASSUME NEW r \in L!Request, NEW items, items \subseteq {r}
  PROVE  /\ [L!Idle EXCEPT !.pc = "posted", !.got = items] \in ReqShape
         /\ req'[r] = [L!Idle EXCEPT !.pc = "posted", !.got = items] => Good(r)'
BY DEF L!Idle, ReqShape, Good, Placed, Holds, L!NoOne

LEMMA EditorSteps ==
  ASSUME LspInv,
         \/ \E c \in Console : L!Hide(c) \/ \E k \in Key : L!Ask(c, k)
         \/ \E r \in L!Request : L!Show(r)
  PROVE  LspInv'
<1> USE DEF LspInv, Shapes
<1>1. ASSUME NEW c \in Console, NEW k \in Key, L!Ask(c, k) PROVE LspInv'
  <2> DEFINE n == [L!Idle EXCEPT !.pc = "lookup", !.key = k]
  <2>1. n \in ReqShape
    BY DEF L!Idle, ReqShape
  <2>2. req' \in [L!Request -> ReqShape] /\ \A r \in L!Request : req'[r] \in {req[r], n}
    BY <1>1, <2>1 DEF L!Ask
  <2>3. \A r \in L!Request : req'[r] = n => Good(r)'
    BY DEF Good, L!Idle, Placed, Holds
  <2> HIDE DEF n
  <2> QED
    BY <1>1, <2>2, <2>3, WorkerStep DEF L!Ask
<1>2. ASSUME NEW c \in Console, L!Hide(c) PROVE LspInv'
  <2>1. popup' \in [Console -> SUBSET (L!Request \cup {L!NoOne})]
    BY <1>2 DEF L!Hide
  <2> QED
    BY <1>2, <2>1, WorkerStep DEF L!Hide
<1>3. ASSUME NEW r \in L!Request, L!Show(r) PROVE LspInv'
  <2> DEFINE n == [L!Idle EXCEPT !.pc = "over"]
  <2>1. n \in ReqShape
    BY DEF L!Idle, ReqShape
  <2>2. req' \in [L!Request -> ReqShape] /\ \A x \in L!Request : req'[x] \in {req[x], n}
    BY <1>3, <2>1 DEF L!Show
  <2>3. \A x \in L!Request : req'[x] = n => Good(x)'
    BY DEF Good, L!Idle, Placed, Holds
  <2>4. req[r].got \in SUBSET (L!Request \cup {L!NoOne})
    BY DEF ReqShape
  <2>5. popup' \in [Console -> SUBSET (L!Request \cup {L!NoOne})]
    BY <1>3, <2>4 DEF L!Show
  <2> HIDE DEF n
  <2> QED
    BY <1>3, <2>2, <2>3, <2>5, WorkerStep DEF L!Show
<1> QED
  BY <1>1, <1>2, <1>3

\* The request r is posted with nothing, and nothing else of the requests moves.
LEMMA PostedEmpty ==
  ASSUME LspInv, NEW r \in L!Request, req' = L!Posted(r, {})
  PROVE  /\ req' \in [L!Request -> ReqShape]
         /\ \A x \in L!Request : req'[x] = req[x] \/ x = r
         /\ Good(r)'
<1>1. [L!Idle EXCEPT !.pc = "posted", !.got = {}] \in ReqShape
  BY PostedIsGood
<1>2. req'[r] = [L!Idle EXCEPT !.pc = "posted", !.got = {}]
  BY DEF LspInv, Shapes, L!Posted
<1> QED
  BY <1>1, <1>2, PostedIsGood DEF LspInv, Shapes, L!Posted

LEMMA ManagerSteps ==
  ASSUME LspInv, NEW r \in L!Request,
         L!Lookup(r) \/ L!NoCommand(r) \/ L!Started(r) \/ L!StartFails(r)
  PROVE  LspInv'
<1> USE DEF LspInv, Shapes
<1>0. Good(r) /\ req[r] \in ReqShape
  OBVIOUS
<1>1. CASE L!Lookup(r)
  <2> DEFINE k == req[r].key
             s == server[k]
  <2>1. k \in Key
    BY <1>0, <1>1 DEF L!Lookup, Good
  <2>2. CASE s # L!Off /\ proc[s].st = "up"
    <3>1. s \in L!Proc /\ s \in Nat /\ proc[s].st # "unborn"
      BY <1>1, <2>1, <2>2 DEF L!Lookup, L!Proc, L!Absent, L!Off
    <3>2. req' = [req EXCEPT ![r] = [req[r] EXCEPT !.pc = "wait", !.proc = s]]
          /\ UNCHANGED server
      BY <1>1, <2>2 DEF L!Lookup
    <3>3. req' \in [L!Request -> ReqShape] /\ req'[r].pc = "wait" /\ req'[r].proc = s
          /\ req'[r].got = req[r].got /\ \A x \in L!Request : x # r => req'[x] = req[x]
      BY <1>0, <3>1, <3>2 DEF ReqShape
    <3>4. Good(r)'
      BY <1>0, <1>1, <3>1, <3>3 DEF Good, Placed, Holds, L!Lookup
    <3> QED
      BY <1>1, <3>2, <3>3, <3>4, WorkerStep DEF L!Lookup
  <2>3. CASE ~ (s # L!Off /\ proc[s].st = "up")
    <3>1. req' = L!Posted(r, {}) /\ server' = [server EXCEPT ![k] = L!Off]
      BY <1>1, <2>3 DEF L!Lookup
    <3>2. server' \in [Key -> {L!Absent, L!Off} \cup L!Proc]
          /\ \A x \in Key : server'[x] \in {L!Absent, L!Off, server[x]}
      BY <3>1
    <3> QED
      BY <1>1, <3>1, <3>2, PostedEmpty, WorkerStep DEF L!Lookup
  <2> QED
    BY <2>2, <2>3
<1>2. CASE L!NoCommand(r)
  <2>1. server' \in [Key -> {L!Absent, L!Off} \cup L!Proc]
        /\ \A x \in Key : server'[x] \in {L!Absent, L!Off, server[x]}
    BY <1>2 DEF L!NoCommand
  <2> QED
    BY <1>2, <2>1, PostedEmpty, WorkerStep DEF L!NoCommand
<1>3. CASE L!Started(r)
  <2> DEFINE s == req[r].proc
  <2>1. s \in L!Proc /\ proc[s].st # "unborn"
    BY <1>0, <1>3 DEF L!Started, Good, Placed
  <2>2. server' \in [Key -> {L!Absent, L!Off} \cup L!Proc]
        /\ \A x \in Key : server'[x] \in {s, server[x]}
    BY <1>3, <2>1 DEF L!Started
  <2>3. req' \in [L!Request -> ReqShape] /\ req'[r].pc = "wait" /\ req'[r].proc = s
        /\ req'[r].got = req[r].got /\ \A x \in L!Request : x # r => req'[x] = req[x]
    BY <1>0, <1>3 DEF L!Started, ReqShape
  <2>4. Good(r)'
    BY <1>0, <1>3, <2>1, <2>3 DEF Good, Placed, Holds, L!Started
  <2> HIDE DEF s
  <2> QED
    BY <1>3, <2>1, <2>2, <2>3, <2>4, WorkerStep DEF L!Started
<1>4. CASE L!StartFails(r)
  <2>1. server' \in [Key -> {L!Absent, L!Off} \cup L!Proc]
        /\ \A x \in Key : server'[x] \in {L!Absent, L!Off, server[x]}
    BY <1>4 DEF L!StartFails
  <2> QED
    BY <1>4, <2>1, PostedEmpty, WorkerStep DEF L!StartFails
<1> QED
  BY <1>1, <1>2, <1>3, <1>4

LEMMA StartStep ==
  ASSUME LspInv, NEW r \in L!Request, NEW p \in L!Proc, L!Start(r, p)
  PROVE  LspInv'
<1> USE DEF LspInv, Shapes
<1> DEFINE k == req[r].key
           y == [proc[p] EXCEPT !.of = k, !.st = "up"]
<1>0. Good(r) /\ req[r] \in ReqShape /\ k \in Key /\ p \in Nat
      /\ proc[p] \in ProcShape /\ proc[p].st = "unborn" /\ Numbered(proc[p])
  BY DEF L!Start, Good, L!Born, ProcShape, L!Proc
<1>1. y \in ProcShape /\ y.st = "up" /\ Numbered(y)
  BY <1>0 DEF ProcShape, Numbered
<1>2. proc' = [proc EXCEPT ![p] = y] /\ proc'[p] = y
  BY <1>0 DEF L!Start
<1>3. req' \in [L!Request -> ReqShape] /\ req'[r].pc = "starting" /\ req'[r].proc = p
      /\ req'[r].got = req[r].got /\ req'[r].key = k
      /\ \A x \in L!Request : x # r => req'[x] = req[x]
  BY <1>0 DEF ReqShape, L!Start
<1> HIDE DEF y
<1>4. Good(r)'
  BY <1>0, <1>1, <1>2, <1>3 DEF Good, Placed, Holds
<1>5. \A x \in L!Request : ~ (req[x].pc \in Holds /\ req[x].proc = p)
  BY <1>0 DEF Good, Placed, Holds
<1>6. UNCHANGED <<popup, server>>
  BY DEF L!Start
<1>7. \A x \in L!Request : Good(x)' \/ Undisturbed(x, p, y)
  BY <1>3, <1>4, <1>5 DEF Undisturbed
<1>8. y.st # "unborn"
  BY <1>1
<1> HIDE DEF LspInv, Shapes
<1> QED
  BY <1>1, <1>2, <1>3, <1>6, <1>7, <1>8, ProcessStep

LEMMA LockSteps ==
  ASSUME LspInv, NEW r \in L!Request, L!TakeLock(r) \/ L!Sync(r) \/ L!Send(r) \/ L!GiveUp(r)
  PROVE  LspInv'
<1> USE DEF LspInv, Shapes
<1> DEFINE p == req[r].proc
           x == proc[p]
<1>1. req[r].pc \in Placed
  BY DEF L!TakeLock, L!Sync, L!Send, L!GiveUp, Placed
<1>2. Good(r) /\ req[r] \in ReqShape /\ p \in L!Proc /\ x \in ProcShape
      /\ x.st # "unborn" /\ Numbered(x)
  BY <1>1 DEF Good
\* Nobody else holds this lock.
<1>3. \A z \in L!Request : req[z].pc \in Holds /\ req[z].proc = p =>
        proc[p].lock = z /\ z # L!NoOne
  BY RequestIsSome DEF Good
<1>4. CASE L!TakeLock(r)
  <2> DEFINE y == [x EXCEPT !.lock = r]
  <2>1. y \in ProcShape /\ y.st = x.st /\ y.lock = r /\ Numbered(y)
    BY <1>2 DEF ProcShape, Numbered
  <2>2. proc' = [proc EXCEPT ![p] = y] /\ proc'[p] = y
    BY <1>2, <1>4 DEF L!TakeLock
  <2>3. req' \in [L!Request -> ReqShape] /\ req'[r].pc = "sync" /\ req'[r].proc = p
        /\ req'[r].got = req[r].got /\ \A z \in L!Request : z # r => req'[z] = req[z]
    BY <1>2, <1>4 DEF ReqShape, L!TakeLock
  <2> HIDE DEF y
  <2>4. Good(r)'
    BY <1>2, <2>1, <2>2, <2>3 DEF Good, Placed, Holds
  <2>5. \A z \in L!Request : ~ (req[z].pc \in Holds /\ req[z].proc = p)
    BY <1>3, <1>4 DEF L!TakeLock
  <2>6. UNCHANGED <<popup, server>>
    BY <1>4 DEF L!TakeLock
  <2>7. \A z \in L!Request : Good(z)' \/ Undisturbed(z, p, y)
    BY <2>3, <2>4, <2>5 DEF Undisturbed
  <2>8. y.st # "unborn"
    BY <1>2, <2>1
  <2> HIDE DEF LspInv, Shapes
  <2> QED
    BY <1>2, <2>1, <2>2, <2>3, <2>6, <2>7, <2>8, ProcessStep
<1>5. CASE L!Sync(r)
  <2> DEFINE y == [x EXCEPT !.inbox = Append(@, Text(r))]
  <2>1. y \in ProcShape /\ y.st = x.st /\ y.lock = x.lock /\ Numbered(y) /\ LastText(y, r)
    BY <1>2, TextStep
  <2>2. proc' = [proc EXCEPT ![p] = y] /\ proc'[p] = y
    BY <1>2, <1>5 DEF L!Sync, Text
  <2>3. req' \in [L!Request -> ReqShape] /\ req'[r].pc = "send" /\ req'[r].proc = p
        /\ req'[r].got = req[r].got /\ \A z \in L!Request : z # r => req'[z] = req[z]
    BY <1>2, <1>5 DEF ReqShape, L!Sync
  <2>4. proc[p].lock = r
    BY <1>2, <1>5 DEF L!Sync, Good, Holds
  <2> HIDE DEF y
  <2>5. Good(r)'
    BY <1>2, <2>1, <2>2, <2>3, <2>4 DEF Good, Placed, Holds, LastText
  <2>6. \A z \in L!Request : req[z].pc \in Holds /\ req[z].proc = p => z = r
    BY <1>3, <2>4
  <2>7. UNCHANGED <<popup, server>>
    BY <1>5 DEF L!Sync
  <2>8. \A z \in L!Request : Good(z)' \/ Undisturbed(z, p, y)
    BY <2>3, <2>5, <2>6 DEF Undisturbed
  <2>9. y.st # "unborn"
    BY <1>2, <2>1
  <2> HIDE DEF LspInv, Shapes
  <2> QED
    BY <1>2, <2>1, <2>2, <2>3, <2>7, <2>8, <2>9, ProcessStep
<1>6. CASE L!Send(r)
  <2> DEFINE n == x.ids + 1
             y == [x EXCEPT !.inbox = Append(@, [op |-> "ask", id |-> n]),
                            !.ids = n, !.pending = @ \cup {n}]
  <2>0. x.st = "up" /\ LastText(x, r) /\ n \in Nat
    BY <1>2, <1>6 DEF L!Send, L!Alive, Good, ProcShape
  <2>1. y \in ProcShape /\ y.st = x.st /\ y.lock = x.lock /\ Numbered(y)
        /\ Answered(y, r, n)
    <3>1. n = x.ids + 1 /\ y = [x EXCEPT !.inbox = Append(@, [op |-> "ask", id |-> n]),
                                         !.ids = n, !.pending = @ \cup {n}]
      OBVIOUS
    <3>2. x \in ProcShape /\ Numbered(x)
      BY <1>2
    <3> HIDE DEF x, y, n
    <3> QED
      BY <2>0, <3>1, <3>2, AskStep, Zenon
  <2>2. proc' = [proc EXCEPT ![p] = y] /\ proc'[p] = y
    <3>1. proc' = [proc EXCEPT ![p] = y]
      BY <1>6, Zenon DEF L!Send
    <3> HIDE DEF y
    <3> QED
      BY <1>2, <3>1
  <2>3. req' \in [L!Request -> ReqShape] /\ req'[r].pc = "answer" /\ req'[r].proc = p
        /\ req'[r].id = n
        /\ req'[r].got = req[r].got /\ \A z \in L!Request : z # r => req'[z] = req[z]
    BY <1>2, <1>6, <2>0 DEF ReqShape, L!Send
  <2>4. proc[p].lock = r
    BY <1>2, <1>6 DEF L!Send, Good, Holds
  <2> HIDE DEF y, n
  <2>5. Good(r)'
    BY <1>2, <2>1, <2>2, <2>3, <2>4 DEF Good, Placed, Holds, Answered
  <2>6. \A z \in L!Request : req[z].pc \in Holds /\ req[z].proc = p => z = r
    BY <1>3, <2>4
  <2>7. UNCHANGED <<popup, server>>
    BY <1>6 DEF L!Send
  <2>8. \A z \in L!Request : Good(z)' \/ Undisturbed(z, p, y)
    BY <2>3, <2>5, <2>6 DEF Undisturbed
  <2>9. y.st # "unborn"
    BY <1>2, <2>1
  <2> HIDE DEF LspInv, Shapes
  <2> QED
    BY <1>2, <2>1, <2>2, <2>3, <2>7, <2>8, <2>9, ProcessStep
<1>7. CASE L!GiveUp(r)
  <2> DEFINE y == [x EXCEPT !.lock = L!NoOne, !.pending = @ \ {req[r].id}]
  <2>1. y \in ProcShape /\ y.st = x.st /\ Numbered(y)
    BY <1>2 DEF ProcShape, Numbered
  <2>2. proc' = [proc EXCEPT ![p] = y] /\ proc'[p] = y
    BY <1>2, <1>7 DEF L!GiveUp
  <2>3. req' \in [L!Request -> ReqShape] /\ Good(r)'
        /\ \A z \in L!Request : req'[z] = req[z] \/ z = r
    BY <1>7, PostedEmpty DEF L!GiveUp
  <2>4. proc[p].lock = r
    BY <1>2, <1>7 DEF L!GiveUp, Good, Holds
  <2> HIDE DEF y
  <2>5. \A z \in L!Request : req[z].pc \in Holds /\ req[z].proc = p => z = r
    BY <1>3, <2>4
  <2>6. UNCHANGED <<popup, server>>
    BY <1>7 DEF L!GiveUp
  <2>7. \A z \in L!Request : Good(z)' \/ Undisturbed(z, p, y)
    BY <2>3, <2>5 DEF Undisturbed
  <2>8. y.st # "unborn"
    BY <1>2, <2>1
  <2> HIDE DEF LspInv, Shapes
  <2> QED
    BY <1>2, <2>1, <2>2, <2>3, <2>6, <2>7, <2>8, ProcessStep
<1> QED
  BY <1>4, <1>5, <1>6, <1>7

LEMMA ProcSteps ==
  ASSUME LspInv, NEW p \in L!Proc, L!Serve(p) \/ L!Die(p)
  PROVE  LspInv'
<1> DEFINE x == proc[p]
<1>1. x \in ProcShape /\ Numbered(x) /\ req \in [L!Request -> ReqShape]
  BY DEF LspInv, Shapes
<1>2. \A z \in L!Request : req[z].pc \in Holds /\ req[z].proc = p => x.lock = z
  BY DEF LspInv, Good
<1>3. x.st = "up" /\ UNCHANGED <<popup, server, req>>
  BY DEF L!Serve, L!Die, L!Alive
<1>4. \E y : proc' = [proc EXCEPT ![p] = y] /\ Steady(x, y)
  <2>1. CASE L!Serve(p)
    <3> DEFINE m == Head(x.inbox)
    <3>1. x.inbox # <<>>
      BY <2>1 DEF L!Serve
    <3>2. CASE m.op = "text"
      <4> DEFINE y == [x EXCEPT !.inbox = Tail(@), !.doc = m.text]
      <4>1. proc' = [proc EXCEPT ![p] = y]
        BY <2>1, <3>2 DEF L!Serve
      <4>2. Served(x, y)
        BY <3>2 DEF Served
      <4> QED
        BY <1>1, <1>3, <3>1, <4>1, <4>2, ServeStep
    <3>3. CASE m.op # "text"
      <4>1. PICK items \in {{}, {x.doc}} :
              proc' = [proc EXCEPT ![p] =
                [x EXCEPT !.inbox = Tail(@),
                          !.outbox = Append(@, [id |-> m.id, items |-> items])]]
        BY <2>1, <3>3 DEF L!Serve
      <4> DEFINE y == [x EXCEPT !.inbox = Tail(@),
                                !.outbox = Append(@, [id |-> m.id, items |-> items])]
      <4>2. proc' = [proc EXCEPT ![p] = y]
        BY <4>1
      <4>3. Served(x, y)
        BY <3>3 DEF Served
      <4> QED
        BY <1>1, <1>3, <3>1, <4>2, <4>3, ServeStep
    <3> QED
      BY <3>2, <3>3
  <2>2. CASE L!Die(p)
    <3>1. PICK n \in 0 .. Len(x.outbox) :
            proc' = [proc EXCEPT ![p] =
                [x EXCEPT !.st = "dead", !.doc = L!NoOne, !.inbox = <<>>,
                          !.outbox = SubSeq(@, 1, n)]]
      BY <2>2 DEF L!Die
    <3> DEFINE y == [x EXCEPT !.st = "dead", !.doc = L!NoOne, !.inbox = <<>>,
                              !.outbox = SubSeq(@, 1, n)]
    <3>2. proc' = [proc EXCEPT ![p] = y]
      BY <3>1
    <3>3. Steady(x, y)
      BY <1>1, DieStep
    <3> QED
      BY <3>2, <3>3
  <2> QED
    BY <2>1, <2>2
<1>5. PICK y : proc' = [proc EXCEPT ![p] = y] /\ Steady(x, y)
  BY <1>4
<1>6. y \in ProcShape /\ y.st # "unborn" /\ Numbered(y)
  BY <1>1, <1>3, <1>5 DEF Steady
<1>7. \A z \in L!Request : Undisturbed(z, p, y)
  BY <1>2, <1>3, <1>5 DEF Undisturbed, Steady
<1> QED
  BY <1>1, <1>3, <1>5, <1>6, <1>7, ProcessStep

LEMMA ReadsStep ==
  ASSUME LspInv, NEW p \in L!Proc, L!Read(p)
  PROVE  LspInv'
<1> DEFINE x == proc[p]
           m == Head(x.outbox)
           mine == {r \in L!Request : /\ req[r].pc = "answer" /\ req[r].proc = p
                                      /\ req[r].id = m.id /\ m.id \in x.pending}
           y == [x EXCEPT !.outbox = Tail(@), !.pending = @ \ {m.id},
                          !.lock = IF mine = {} THEN @ ELSE L!NoOne]
           n == [L!Idle EXCEPT !.pc = "posted", !.got = m.items]
<1>1. x \in ProcShape /\ Numbered(x) /\ req \in [L!Request -> ReqShape]
      /\ x.outbox # <<>> /\ UNCHANGED <<popup, server>> /\ proc \in [L!Proc -> ProcShape]
  BY DEF LspInv, Shapes, L!Read
<1>2. \A z \in L!Request : req[z].pc \in Holds /\ req[z].proc = p =>
        x.lock = z /\ z # L!NoOne /\ x.st # "unborn"
  BY RequestIsSome DEF LspInv, Good, Holds, Placed
<1>3. Tail(x.outbox) \in Seq(Answer) /\ m \in Answer
  BY <1>1 DEF ProcShape
<1>4. /\ y \in ProcShape /\ y.inbox = x.inbox /\ y.doc = x.doc /\ y.st = x.st
      /\ y.ids = x.ids /\ y.outbox = Tail(x.outbox)
      /\ y.lock = IF mine = {} THEN x.lock ELSE L!NoOne
  <2>1. (IF mine = {} THEN x.lock ELSE L!NoOne) \in L!Request \cup {L!NoOne}
        /\ x.pending \ {m.id} \in SUBSET Nat
    BY <1>1 DEF ProcShape
  <2> HIDE DEF mine
  <2> QED
    BY <1>1, <1>3, <2>1 DEF ProcShape
<1>5. proc' = [proc EXCEPT ![p] = y]
  BY <1>1 DEF L!Read
<1>6. req' = [r \in L!Request |-> IF r \in mine THEN n ELSE req[r]]
  <2>1. req' = [r \in L!Request |-> IF r \in mine THEN L!Posted(r, m.items)[r] ELSE req[r]]
    BY <1>1 DEF L!Read
  <2>2. \A r \in mine : L!Posted(r, m.items)[r] = n
    BY <1>1 DEF L!Posted
  <2> HIDE DEF mine, n
  <2> QED
    BY <2>1, <2>2
<1>7. /\ Numbered(y)
      /\ \A r \in L!Request : LastText(x, r) => LastText(y, r)
      /\ \A r \in L!Request, k \in Nat :
           Answered(x, r, k) => Answered(y, r, k) /\ (m.id = k => m.items \subseteq {r})
  <2> HIDE DEF x, y, mine, n
  <2>1. x \in ProcShape /\ x.outbox # <<>> /\ Numbered(x)
    BY <1>1
  <2> QED
    BY <1>4, <2>1, ReadStep DEF m
<1>8. \A r \in mine : m.items \subseteq {r}
  <2> TAKE r \in mine
  <2>1. Answered(x, r, req[r].id) /\ req[r].id \in Nat
    BY <1>1 DEF LspInv, Good, ReqShape
  <2> QED
    BY <1>7, <2>1
<1>9. req' \in [L!Request -> ReqShape]
  BY <1>1, <1>6, <1>8, PostedIsGood
<1>10. \A r \in L!Request : Good(r)' \/ Undisturbed(r, p, y)
  <2> TAKE r \in L!Request
  <2>1. CASE r \in mine
    BY <1>6, <1>8, <2>1, PostedIsGood
  <2>2. CASE r \notin mine
    <3>1. req'[r] = req[r]
      BY <1>6, <2>2
    <3>2. ASSUME req[r].pc \in Holds, req[r].proc = p PROVE y.lock = r
      <4>1. ASSUME NEW z \in mine PROVE FALSE
        <5>1. x.lock = z /\ x.lock = r
          BY <1>2, <3>2, <4>1 DEF Holds
        <5> QED
          BY <2>2, <4>1, <5>1
      <4> QED
        BY <1>2, <1>4, <3>2, <4>1
    <3> QED
      BY <1>7, <3>1, <3>2 DEF Undisturbed
  <2> QED
    BY <2>1, <2>2
<1> HIDE DEF y, mine, n
<1>11. x.st # "unborn" => y.st # "unborn"
  BY <1>4
<1> QED
  BY <1>1, <1>4, <1>5, <1>7, <1>9, <1>10, <1>11, ProcessStep

LEMMA ShutsStep ==
  ASSUME LspInv, L!ShutDown
  PROVE  LspInv'
<1>1. /\ proc \in [L!Proc -> ProcShape] /\ req \in [L!Request -> ReqShape]
      /\ UNCHANGED <<popup, req>> /\ server' = [k \in Key |-> L!Absent]
  BY DEF LspInv, Shapes, L!ShutDown
<1>2. \A p \in L!Proc : \/ proc'[p] = proc[p]
                        \/ proc'[p] = [proc[p] EXCEPT !.st = "dead"]
  BY DEF L!ShutDown
<1>3. ASSUME NEW p \in L!Proc
      PROVE  /\ proc'[p] \in ProcShape /\ proc'[p].lock = proc[p].lock
             /\ proc'[p].st \in {proc[p].st, "dead"}
             /\ proc'[p].inbox = proc[p].inbox /\ proc'[p].outbox = proc[p].outbox
             /\ proc'[p].ids = proc[p].ids /\ proc'[p].doc = proc[p].doc
  <2>1. proc[p] \in ProcShape
    BY <1>1
  <2>2. CASE proc'[p] = proc[p]
    BY <2>1, <2>2
  <2>3. CASE proc'[p] = [proc[p] EXCEPT !.st = "dead"]
    <3>1. proc'[p] \in ProcShape
      BY <2>1, <2>3 DEF ProcShape
    <3> QED
      BY <2>1, <2>3, <3>1 DEF ProcShape
  <2> QED
    BY <1>2, <2>2, <2>3
<1>4. Shapes'
  <2>1. proc' \in [L!Proc -> ProcShape]
    BY <1>3 DEF L!ShutDown
  <2> QED
    BY <1>1, <2>1 DEF LspInv, Shapes
<1>5. Known'
  BY <1>1 DEF Known, L!Absent, L!Proc
<1>6. \A p \in L!Proc : Numbered(proc[p])'
  BY <1>3 DEF LspInv, Numbered
<1>7. ASSUME NEW r \in L!Request PROVE Good(r)'
  <2>1. Good(r) /\ req'[r] = req[r] /\ Shapes
    BY <1>1 DEF LspInv
  <2>2. ASSUME req[r].pc \in Placed
        PROVE  LET x == proc[req[r].proc]
                   y == proc'[req[r].proc]
               IN  /\ x.st # "unborn" => y.st # "unborn"
                   /\ y.lock = x.lock
                   /\ LastText(x, r) => LastText(y, r)
                   /\ \A n \in Nat : Answered(x, r, n) => Answered(y, r, n)
    <3>1. req[r].proc \in L!Proc
      BY <2>1, <2>2 DEF Good
    <3> QED
      BY <1>3, <3>1 DEF LastText, Answered
  <2> QED
    BY <2>1, <2>2, StaysGood DEF Good, Holds, Placed
<1> QED
  BY <1>4, <1>5, <1>6, <1>7 DEF LspInv

LEMMA LspNext ==
  ASSUME LspInv, [L!Next]_(L!vars)
  PROVE  LspInv'
<1>1. CASE UNCHANGED L!vars
  BY <1>1 DEF L!vars, LspInv, Shapes, Known, Numbered, Good, LastText, Answered
<1>2. CASE \E c \in Console : L!Hide(c) \/ \E k \in Key : L!Ask(c, k)
  BY <1>2, EditorSteps
<1>3. ASSUME NEW r \in L!Request, L!Show(r)
      PROVE  LspInv'
  BY <1>3, EditorSteps
<1>4. ASSUME NEW r \in L!Request, L!Lookup(r) \/ L!NoCommand(r) \/ L!Started(r) \/ L!StartFails(r)
      PROVE  LspInv'
  BY <1>4, ManagerSteps
<1>5. ASSUME NEW r \in L!Request, L!TakeLock(r) \/ L!Sync(r) \/ L!Send(r) \/ L!GiveUp(r)
      PROVE  LspInv'
  BY <1>5, LockSteps
<1>6. ASSUME NEW r \in L!Request, NEW p \in L!Proc, L!Start(r, p)
      PROVE  LspInv'
  BY <1>6, StartStep
<1>7. ASSUME NEW p \in L!Proc, L!Serve(p) \/ L!Die(p)
      PROVE  LspInv'
  BY <1>7, ProcSteps
<1>8. ASSUME NEW p \in L!Proc, L!Read(p)
      PROVE  LspInv'
  BY <1>8, ReadsStep
<1>9. CASE L!ShutDown
  BY <1>9, ShutsStep
<1> QED
  BY <1>1, <1>2, <1>3, <1>4, <1>5, <1>6, <1>7, <1>8, <1>9 DEF L!Next

LEMMA LspInvariant == L!Spec => []LspInv
<1>1. L!Init => LspInv
  BY LspInit
<1>2. LspInv /\ [L!Next]_(L!vars) => LspInv'
  BY LspNext
<1> QED
  BY <1>1, <1>2, PTL DEF L!Spec

\* What an editor comes to offer was computed for its own latest text: the
\* property OffersAreForTheText, for any number of editors and requests.
THEOREM Offers == L!Spec => L!OffersAreForTheText
<1> DEFINE Fresh == \A c \in Console :
             popup'[c] # popup[c] => popup'[c] \subseteq {<<c, asked[c]>>}
<1>1. ASSUME LspInv, [L!Next]_(L!vars) PROVE [Fresh]_(L!vars)
  <2>1. popup \in [Console -> SUBSET (L!Request \cup {L!NoOne})]
    BY <1>1 DEF LspInv, Shapes
  <2>2. ASSUME NEW r \in L!Request, L!Show(r) PROVE Fresh
    <3>1. req[r].got \subseteq {r} /\ r = <<r[1], r[2]>> /\ r[1] \in Console
      BY <1>1, RequestIsSome DEF LspInv, Good
    <3>2. popup' \in {popup, [popup EXCEPT ![r[1]] = req[r].got]}
      BY <2>2 DEF L!Show
    <3>3. CASE popup' = popup
      BY <3>3
    <3>4. CASE popup' # popup
      <4>1. r[2] = asked[r[1]] /\ popup' = [popup EXCEPT ![r[1]] = req[r].got]
        BY <2>2, <3>4 DEF L!Show
      <4>2. r = <<r[1], asked[r[1]]>>
        BY <3>1, <4>1
      <4>3. \A c \in Console : popup'[c] # popup[c] => c = r[1] /\ popup'[c] = req[r].got
        BY <2>1, <4>1
      <4> QED
        BY <3>1, <4>2, <4>3
    <3> QED
      BY <3>3, <3>4
  <2>3. ASSUME NEW c \in Console, L!Hide(c) PROVE Fresh
    BY <2>1, <2>3 DEF L!Hide
  <2>4. CASE UNCHANGED popup
    BY <2>4
  <2> QED
    BY <1>1, <2>2, <2>3, <2>4
       DEF L!vars, L!Next, L!Ask, L!Lookup, L!NoCommand, L!Started, L!StartFails, L!TakeLock, L!Sync,
           L!Send, L!GiveUp, L!Start, L!Read, L!Serve, L!Die, L!ShutDown
<1> QED
  BY <1>1, LspInvariant, PTL DEF L!Spec, L!OffersAreForTheText

-----------------------------------------------------------------------------
(* One process for each connection and choice.                             *)

\* An editor's next request was never made before.
Counted ==
  /\ asked \in [Console -> Nat]
  /\ \A r \in L!Request : req[r].pc # "none" => r[2] <= asked[r[1]]

\* Only the holder of the manager's lock is starting a process.
Holder ==
  \A r \in L!Request : req[r].pc = "starting" =>
    starting = r /\ proc[req[r].proc].of = req[r].key

\* What was started is known for good, or its start is still under way.
Owned ==
  ~ closing =>
    \A p \in L!Born :
      \/ server[proc[p].of] # L!Absent
      \/ \E r \in L!Request : req[r].pc = "starting" /\ req[r].proc = p

\* Every process that was started was started for something.
Sorted == \A p \in L!Born : proc[p].of \in Key

OnceInv == Counted /\ Sorted /\ Holder /\ Owned /\ L!NeverRestarted

LEMMA OnceInit ==
  ASSUME L!Init
  PROVE  OnceInv
<1>1. L!Born = {}
  BY DEF L!Init, L!Born, L!Unborn
<1>2. asked \in [Console -> Nat] /\ \A r \in L!Request : req[r].pc = "none"
  BY DEF L!Init, L!Idle
<1> QED
  BY <1>1, <1>2 DEF OnceInv, Counted, Sorted, Holder, Owned, L!NeverRestarted

\* A step that starts nothing and ends no start.
LEMMA OnceKept ==
  ASSUME OnceInv, Counted', UNCHANGED <<starting, closing>>,
         \A p \in L!Proc : proc'[p].of = proc[p].of
                         /\ (proc'[p].st = "unborn" <=> proc[p].st = "unborn"),
         \A k \in Key : server[k] # L!Absent => server'[k] # L!Absent,
         \A r \in L!Request : req[r].pc = "starting" => req[r].proc \in L!Proc,
         \A r \in L!Request : req'[r].pc = "starting" <=> req[r].pc = "starting",
         \A r \in L!Request : req'[r].pc = "starting" => req'[r] = req[r]
  PROVE  OnceInv'
<1>1. L!Born' = L!Born
  BY DEF L!Born
<1>2. Holder'
  BY DEF OnceInv, Holder
<1>3. Owned'
  <2> SUFFICES ASSUME ~ closing', NEW p \in L!Born'
               PROVE  \/ server'[proc'[p].of] # L!Absent
                      \/ \E r \in L!Request : req'[r].pc = "starting" /\ req'[r].proc = p
    BY DEF Owned
  <2>1. p \in L!Born /\ p \in L!Proc /\ proc'[p].of = proc[p].of
    BY <1>1 DEF L!Born
  <2>2. CASE server[proc[p].of] # L!Absent
    BY <2>1, <2>2 DEF OnceInv, Sorted
  <2>3. CASE \E r \in L!Request : req[r].pc = "starting" /\ req[r].proc = p
    BY <2>3
  <2> QED
    BY <2>1, <2>2, <2>3 DEF OnceInv, Owned
<1>4. L!NeverRestarted'
  BY <1>1 DEF OnceInv, L!NeverRestarted, L!Born
<1>5. Sorted'
  BY <1>1 DEF OnceInv, Sorted, L!Born
<1> QED
  BY <1>2, <1>3, <1>4, <1>5 DEF OnceInv

LEMMA OnceEditor ==
  ASSUME LspInv, OnceInv,
         \/ \E c \in Console : L!Hide(c) \/ \E k \in Key : L!Ask(c, k)
         \/ \E r \in L!Request : L!Show(r)
  PROVE  OnceInv'
<1>0. /\ req \in [L!Request -> ReqShape] /\ asked \in [Console -> Nat]
      /\ \A r \in L!Request : req[r].pc = "starting" => req[r].proc \in L!Proc
  BY DEF LspInv, Shapes, Good, Placed, OnceInv, Counted
<1>1. ASSUME NEW c \in Console, NEW k \in Key, L!Ask(c, k) PROVE OnceInv'
  <2> DEFINE z == <<c, asked[c] + 1>>
  <2>1. asked' \in [Console -> Nat] /\ asked'[c] = asked[c] + 1
        /\ \A d \in Console : asked[d] \in Nat /\ asked'[d] \in Nat /\ asked[d] <= asked'[d]
    <3>0. asked' = [asked EXCEPT ![c] = asked[c] + 1]
      BY <1>1 DEF L!Ask
    <3>1. asked' = [asked EXCEPT ![c] = asked[c] + 1] /\ asked[c] + 1 \in Nat
          /\ asked[c] <= asked[c] + 1
      <4>1. asked[c] \in Nat
        BY <1>0
      <4> QED
        BY <3>0, <4>1
    <3>2. asked' \in [Console -> Nat] /\ asked'[c] = asked[c] + 1
      BY <1>0, <3>1
    <3>3. ASSUME NEW d \in Console
          PROVE  asked[d] \in Nat /\ asked'[d] \in Nat /\ asked[d] <= asked'[d]
      <4>1. asked[d] \in Nat /\ asked[d] <= asked[d]
        BY <1>0
      <4>2. d # c => asked'[d] = asked[d]
        BY <1>0, <3>1
      <4> QED
        BY <3>1, <3>2, <4>1, <4>2
    <3> QED
      BY <3>2, <3>3
  <2>2. z \in L!Request => req[z].pc = "none"
    <3> SUFFICES ASSUME z \in L!Request, req[z].pc # "none" PROVE FALSE
      OBVIOUS
    <3>1. z[2] <= asked[z[1]] /\ z[1] = c /\ z[2] = asked[c] + 1
      BY DEF OnceInv, Counted
    <3> QED
      BY <2>1, <3>1
  <2>3. \A r \in L!Request : r # z => req'[r] = req[r]
    BY <1>0, <1>1 DEF L!Ask
  <2>4. z \in L!Request => req'[z].pc = "lookup"
    BY <1>0, <1>1 DEF L!Ask, L!Idle
  <2>5. Counted'
    <3> SUFFICES ASSUME NEW r \in L!Request, req'[r].pc # "none"
                 PROVE  r[2] <= asked'[r[1]]
      BY <2>1 DEF Counted
    <3>1. CASE r = z
      <4>1. r[1] = c /\ r[2] = asked[c] + 1
        BY <3>1
      <4> QED
        BY <2>1, <4>1
    <3>2. CASE r # z
      <4>1. r[1] \in Console /\ r[2] \in Int
        BY DEF L!Request
      <4>2. r[2] <= asked[r[1]]
        BY <2>3, <3>2 DEF OnceInv, Counted
      <4> QED
        BY <2>1, <4>1, <4>2
    <3> QED
      BY <3>1, <3>2
  <2> HIDE DEF z
  <2>6. \A r \in L!Request : /\ req'[r].pc = "starting" <=> req[r].pc = "starting"
                             /\ req'[r].pc = "starting" => req'[r] = req[r]
    BY <2>2, <2>3, <2>4
  <2>7. UNCHANGED <<starting, closing, proc, server>>
    BY <1>1 DEF L!Ask
  <2> QED
    BY <1>0, <2>5, <2>6, <2>7, OnceKept
<1>2. ASSUME NEW c \in Console, L!Hide(c) PROVE OnceInv'
  <2>1. UNCHANGED <<asked, req, starting, closing, proc, server>>
    BY <1>2 DEF L!Hide
  <2>2. Counted'
    BY <2>1 DEF OnceInv, Counted
  <2> QED
    BY <1>0, <2>1, <2>2, OnceKept
<1>3. ASSUME NEW r \in L!Request, L!Show(r) PROVE OnceInv'
  <2>1. UNCHANGED <<asked, starting, closing, proc, server>> /\ req[r].pc = "posted"
        /\ req'[r].pc = "over" /\ \A z \in L!Request : z # r => req'[z] = req[z]
    BY <1>0, <1>3 DEF L!Show, L!Idle
  <2>2. Counted'
    BY <2>1 DEF OnceInv, Counted
  <2>3. \A z \in L!Request : /\ req'[z].pc = "starting" <=> req[z].pc = "starting"
                             /\ req'[z].pc = "starting" => req'[z] = req[z]
    BY <2>1
  <2> QED
    BY <1>0, <2>1, <2>2, <2>3, OnceKept
<1> QED
  BY <1>1, <1>2, <1>3

\* A worker's step that starts nothing.
LEMMA OnceWorker ==
  ASSUME LspInv, OnceInv, NEW r \in L!Request,
         \/ L!Lookup(r) \/ L!NoCommand(r) \/ L!TakeLock(r) \/ L!Sync(r) \/ L!Send(r) \/ L!GiveUp(r)
  PROVE  OnceInv'
<1> DEFINE p == req[r].proc
<1>0. /\ req \in [L!Request -> ReqShape] /\ proc \in [L!Proc -> ProcShape]
      /\ server \in [Key -> {L!Absent, L!Off} \cup L!Proc]
      /\ \A z \in L!Request : req[z].pc = "starting" => req[z].proc \in L!Proc
      /\ req[r].pc \in Placed => p \in L!Proc
      /\ req[r].pc = "lookup" => req[r].key \in Key
  BY DEF LspInv, Shapes, Good, Placed
<1>1. UNCHANGED <<asked, starting, closing>>
  BY DEF L!Lookup, L!NoCommand, L!TakeLock, L!Sync, L!Send, L!GiveUp
<1>2. req[r].pc \notin {"none", "starting"} /\ req'[r].pc # "starting"
      /\ \A z \in L!Request : z # r => req'[z] = req[z]
  <2>1. CASE L!Lookup(r)
    <3>1. \/ req' = [req EXCEPT ![r] =
                    [req[r] EXCEPT !.pc = "wait", !.proc = server[req[r].key]]]
          \/ req' = L!Posted(r, {})
      BY <2>1 DEF L!Lookup
    <3> QED
      BY <1>0, <2>1, <3>1 DEF L!Lookup, L!Posted, L!Idle, ReqShape
  <2>2. CASE L!NoCommand(r) \/ L!GiveUp(r)
    <3>1. req' = L!Posted(r, {}) /\ req[r].pc \in {"lookup", "sync", "send", "answer"}
      BY <2>2 DEF L!NoCommand, L!GiveUp
    <3> QED
      BY <1>0, <3>1 DEF L!Posted, L!Idle
  <2>3. CASE L!TakeLock(r)
    BY <1>0, <2>3 DEF L!TakeLock, ReqShape
  <2>4. CASE L!Sync(r)
    BY <1>0, <2>4 DEF L!Sync, ReqShape
  <2>5. CASE L!Send(r)
    BY <1>0, <2>5 DEF L!Send, ReqShape
  <2> QED
    BY <2>1, <2>2, <2>3, <2>4, <2>5
<1>3. Counted'
  BY <1>1, <1>2 DEF OnceInv, Counted
<1>4. \A z \in L!Request : /\ req'[z].pc = "starting" <=> req[z].pc = "starting"
                           /\ req'[z].pc = "starting" => req'[z] = req[z]
  BY <1>2
<1>5. \A k \in Key : server[k] # L!Absent => server'[k] # L!Absent
  <2>1. UNCHANGED server \/ server' = [server EXCEPT ![req[r].key] = L!Off]
    BY DEF L!Lookup, L!NoCommand, L!TakeLock, L!Sync, L!Send, L!GiveUp
  <2> QED
    BY <1>0, <2>1 DEF L!Absent, L!Off
<1>6. \A q \in L!Proc : proc'[q].of = proc[q].of
                      /\ (proc'[q].st = "unborn" <=> proc[q].st = "unborn")
  <2>1. CASE L!Lookup(r) \/ L!NoCommand(r)
    BY <2>1 DEF L!Lookup, L!NoCommand
  <2>2. CASE L!TakeLock(r) \/ L!Sync(r) \/ L!Send(r) \/ L!GiveUp(r)
    <3>1. p \in L!Proc
      BY <1>0, <2>2 DEF L!TakeLock, L!Sync, L!Send, L!GiveUp, Placed
    <3>2. /\ proc'[p].of = proc[p].of /\ proc'[p].st = proc[p].st
          /\ \A q \in L!Proc : q # p => proc'[q] = proc[q]
      <4>1. CASE L!TakeLock(r)
        BY <1>0, <3>1, <4>1 DEF L!TakeLock, ProcShape
      <4>2. CASE L!Sync(r)
        BY <1>0, <3>1, <4>2 DEF L!Sync, ProcShape
      <4>3. CASE L!Send(r)
        BY <1>0, <3>1, <4>3 DEF L!Send, ProcShape
      <4>4. CASE L!GiveUp(r)
        BY <1>0, <3>1, <4>4 DEF L!GiveUp, ProcShape
      <4> QED
        BY <2>2, <4>1, <4>2, <4>3, <4>4
    <3> QED
      BY <3>2
  <2> QED
    BY <2>1, <2>2
<1> QED
  BY <1>0, <1>1, <1>3, <1>4, <1>5, <1>6, OnceKept

LEMMA OnceProcess ==
  ASSUME LspInv, OnceInv, NEW p \in L!Proc, L!Read(p) \/ L!Serve(p) \/ L!Die(p)
  PROVE  OnceInv'
<1>0. /\ req \in [L!Request -> ReqShape] /\ proc \in [L!Proc -> ProcShape]
      /\ \A z \in L!Request : req[z].pc = "starting" => req[z].proc \in L!Proc
  BY DEF LspInv, Shapes, Good, Placed
<1>1. UNCHANGED <<asked, starting, closing, server>>
  BY DEF L!Read, L!Serve, L!Die
<1>2. \A z \in L!Request : \/ req'[z] = req[z]
                           \/ req[z].pc = "answer" /\ req'[z].pc = "posted"
  BY <1>0 DEF L!Read, L!Serve, L!Die, L!Posted, L!Idle
<1>3. Counted'
  BY <1>1, <1>2 DEF OnceInv, Counted
<1>4. \A z \in L!Request : /\ req'[z].pc = "starting" <=> req[z].pc = "starting"
                           /\ req'[z].pc = "starting" => req'[z] = req[z]
  BY <1>2
<1>5. /\ proc'[p].of = proc[p].of /\ (proc'[p].st = "unborn" <=> proc[p].st = "unborn")
      /\ \A q \in L!Proc : q # p => proc'[q] = proc[q]
  <2>1. CASE L!Read(p)
    BY <1>0, <2>1 DEF L!Read, ProcShape
  <2>2. CASE L!Serve(p)
    <3>1. PICK y : /\ proc' = [proc EXCEPT ![p] = y]
                   /\ y.of = proc[p].of /\ y.st = proc[p].st
      BY <1>0, <2>2 DEF L!Serve, ProcShape
    <3> QED
      BY <1>0, <3>1
  <2>3. CASE L!Die(p)
    <3>1. PICK y : /\ proc' = [proc EXCEPT ![p] = y]
                   /\ y.of = proc[p].of /\ y.st = "dead" /\ proc[p].st = "up"
      BY <1>0, <2>3 DEF L!Die, L!Alive, ProcShape
    <3> QED
      BY <1>0, <3>1
  <2> QED
    BY <2>1, <2>2, <2>3
<1>6. \A q \in L!Proc : proc'[q].of = proc[q].of
                      /\ (proc'[q].st = "unborn" <=> proc[q].st = "unborn")
  BY <1>5
<1> QED
  BY <1>0, <1>1, <1>3, <1>4, <1>6, OnceKept

\* A start begins only where no process is known and no other start is under
\* way.
LEMMA OnceStart ==
  ASSUME LspInv, OnceInv, NEW r \in L!Request, NEW p \in L!Proc, L!Start(r, p)
  PROVE  OnceInv'
<1> DEFINE k == req[r].key
<1>1. /\ req \in [L!Request -> ReqShape] /\ proc \in [L!Proc -> ProcShape]
      /\ k \in Key /\ req[r].pc = "lookup" /\ server[k] = L!Absent /\ p \notin L!Born
      /\ starting = L!NoOne /\ starting' = r
      /\ UNCHANGED <<asked, server, closing>>
  BY DEF LspInv, Shapes, Good, L!Start
<1>2. /\ req'[r].pc = "starting" /\ req'[r].proc = p /\ req'[r].key = k
      /\ \A z \in L!Request : z # r => req'[z] = req[z]
  BY <1>1 DEF L!Start, ReqShape, L!Proc
<1>3. /\ proc'[p].of = k /\ proc'[p].st = "up"
      /\ \A q \in L!Proc : q # p => proc'[q] = proc[q]
  BY <1>1 DEF L!Start, ProcShape
<1>4. L!Born' = L!Born \cup {p}
  BY <1>3 DEF L!Born
<1>5. \A z \in L!Request : req[z].pc # "starting"
  BY <1>1, RequestIsSome DEF OnceInv, Holder
<1>6. ~ closing => \A q \in L!Born : server[proc[q].of] # L!Absent
  BY <1>5 DEF OnceInv, Owned
<1>7. \A q \in L!Born : q \in L!Proc /\ proc'[q] = proc[q]
  BY <1>1, <1>3 DEF L!Born
<1>8. Counted'
  BY <1>1, <1>2 DEF OnceInv, Counted
<1>9. Sorted'
  BY <1>1, <1>3, <1>4, <1>7 DEF OnceInv, Sorted
<1>10. Holder'
  BY <1>1, <1>2, <1>3, <1>5 DEF Holder
<1>11. Owned'
  BY <1>1, <1>2, <1>4, <1>6, <1>7 DEF Owned
<1>12. L!NeverRestarted'
  <2>1. \A q \in L!Born : ~ closing => proc[q].of # k
    BY <1>1, <1>6
  <2> QED
    BY <1>1, <1>3, <1>4, <1>7, <2>1 DEF OnceInv, L!NeverRestarted
<1> QED
  BY <1>8, <1>9, <1>10, <1>11, <1>12 DEF OnceInv

\* A start ends with its process known, or its connection and choice off.
LEMMA OnceStarted ==
  ASSUME LspInv, OnceInv, NEW r \in L!Request, L!Started(r) \/ L!StartFails(r)
  PROVE  OnceInv'
<1> DEFINE k == req[r].key
<1>1. /\ req \in [L!Request -> ReqShape] /\ req[r].pc = "starting" /\ k \in Key
      /\ server \in [Key -> {L!Absent, L!Off} \cup L!Proc] /\ req[r].proc \in L!Proc
      /\ UNCHANGED <<asked, proc, closing>>
  BY DEF LspInv, Shapes, Good, Placed, L!Started, L!StartFails
<1>2. server'[k] # L!Absent /\ \A x \in Key : x # k => server'[x] = server[x]
  <2>1. CASE L!Started(r)
    BY <1>1, <2>1 DEF L!Started, L!Absent, L!Proc
  <2>2. CASE L!StartFails(r)
    BY <1>1, <2>2 DEF L!StartFails, L!Absent, L!Off
  <2> QED
    BY <2>1, <2>2
<1>3. req'[r].pc \in {"wait", "posted"} /\ \A z \in L!Request : z # r => req'[z] = req[z]
  <2>1. CASE L!Started(r)
    BY <1>1, <2>1 DEF L!Started, ReqShape
  <2>2. CASE L!StartFails(r)
    BY <1>1, <2>2 DEF L!StartFails, L!Posted, L!Idle
  <2> QED
    BY <2>1, <2>2
<1>4. \A z \in L!Request : req[z].pc = "starting" => z = r
  BY <1>1 DEF OnceInv, Holder
<1>5. proc[req[r].proc].of = k
  BY <1>1 DEF OnceInv, Holder
<1>6. Counted'
  BY <1>1, <1>3 DEF OnceInv, Counted
<1>7. Sorted' /\ L!NeverRestarted' /\ L!Born' = L!Born
  BY <1>1 DEF OnceInv, Sorted, L!NeverRestarted, L!Born
<1>8. Holder'
  BY <1>3, <1>4 DEF Holder
<1>9. Owned'
  <2> SUFFICES ASSUME ~ closing, NEW p \in L!Born PROVE server'[proc[p].of] # L!Absent
    BY <1>1, <1>7 DEF Owned
  <2>1. proc[p].of \in Key
    BY DEF OnceInv, Sorted
  <2>2. CASE server[proc[p].of] # L!Absent
    BY <1>2, <2>1, <2>2
  <2>3. CASE \E z \in L!Request : req[z].pc = "starting" /\ req[z].proc = p
    BY <1>2, <1>4, <1>5, <2>3
  <2> QED
    BY <2>2, <2>3 DEF OnceInv, Owned
<1> QED
  BY <1>6, <1>7, <1>8, <1>9 DEF OnceInv

LEMMA OnceNext ==
  ASSUME LspInv, OnceInv, [L!Next]_(L!vars)
  PROVE  OnceInv'
<1>1. CASE UNCHANGED L!vars
  BY <1>1 DEF L!vars, OnceInv, Counted, Sorted, Holder, Owned, L!NeverRestarted, L!Born
<1>2. CASE \E c \in Console : L!Hide(c) \/ \E k \in Key : L!Ask(c, k)
  BY <1>2, OnceEditor
<1>3. ASSUME NEW r \in L!Request, L!Show(r)
      PROVE  OnceInv'
  BY <1>3, OnceEditor
<1>4. ASSUME NEW r \in L!Request,
             \/ L!Lookup(r) \/ L!NoCommand(r) \/ L!TakeLock(r) \/ L!Sync(r) \/ L!Send(r) \/ L!GiveUp(r)
      PROVE  OnceInv'
  BY <1>4, OnceWorker
<1>5. ASSUME NEW r \in L!Request, L!Started(r) \/ L!StartFails(r)
      PROVE  OnceInv'
  BY <1>5, OnceStarted
<1>6. ASSUME NEW r \in L!Request, NEW p \in L!Proc, L!Start(r, p)
      PROVE  OnceInv'
  BY <1>6, OnceStart
<1>7. ASSUME NEW p \in L!Proc, L!Read(p) \/ L!Serve(p) \/ L!Die(p)
      PROVE  OnceInv'
  BY <1>7, OnceProcess
<1>8. CASE L!ShutDown
  <2>1. /\ UNCHANGED <<asked, req, starting>> /\ closing'
        /\ \A p \in L!Proc : /\ proc'[p].of = proc[p].of
                             /\ proc'[p].st # "unborn" => proc[p].st # "unborn" \/ proc'[p].st = "dead"
    BY <1>8 DEF L!ShutDown, LspInv, Shapes, ProcShape
  <2>2. \A p \in L!Proc : proc[p].st = "unborn" => proc'[p].st = "unborn"
    <3> SUFFICES ASSUME NEW p \in L!Proc, proc[p].st = "unborn"
                 PROVE  \A k \in Key : server[k] # p
      BY <1>8 DEF L!ShutDown
    <3> QED
      BY DEF LspInv, Known
  <2>3. L!Born' \subseteq L!Born
    BY <2>2 DEF L!Born
  <2>4. \A r \in L!Request : req[r].pc = "starting" => req[r].proc \in L!Proc
    BY DEF LspInv, Good, Placed
  <2>5. Sorted'
    BY <2>1, <2>3 DEF OnceInv, Sorted, L!Born
  <2> QED
    BY <2>1, <2>4, <2>5 DEF OnceInv, Counted, Holder, Owned, L!NeverRestarted
<1> QED
  BY <1>1, <1>2, <1>3, <1>4, <1>5, <1>6, <1>7, <1>8 DEF L!Next

\* While the application runs no connection and choice is given a second
\* process: the property NeverRestarted, for any number of workers.
THEOREM StartedOnce == L!Spec => []L!NeverRestarted
<1>1. L!Init => OnceInv
  BY OnceInit
<1>2. LspInv /\ OnceInv /\ [L!Next]_(L!vars) => OnceInv'
  BY OnceNext
<1>3. OnceInv => L!NeverRestarted
  BY DEF OnceInv
<1> QED
  BY <1>1, <1>2, <1>3, LspInvariant, PTL DEF L!Spec

-----------------------------------------------------------------------------
(* The MCP servers.                                                        *)

\* The instances that a worker stops, or whose end the tab has not heard of.
Ending == stopping \cup {i \in P!Instance : <<"stopped", i>> \in posted}

\* An instance that has not begun is blank.
Blank ==
  \A i \in P!Instance : i > started =>
    /\ inst[i].st = "none" /\ i # ui /\ i \notin stopping
    /\ \A what \in {"started", "failed", "stopped"} : <<what, i>> \notin posted

\* Connectors are left to open while an instance opens them.
Counting ==
  \A i \in P!Instance :
    /\ inst[i].st = "none" => inst[i].at = 0
    /\ inst[i].st = "opening" => inst[i].at < Conns

\* What an instance holds at each stage of its life.
Stages ==
  \A i \in P!Instance :
    /\ inst[i].st = "none" => inst[i].thread = "none" /\ inst[i].conns = {}
    /\ inst[i].st = "opening" => inst[i].thread = "none"
    /\ inst[i].st # "serving" => ~ inst[i].served
    /\ inst[i].st = "serving" => inst[i].thread \in {"up", "exiting", "over"}
    /\ inst[i].st = "serving" /\ ~ inst[i].served =>
         inst[i].thread \in {"exiting", "over"}
    /\ inst[i].st = "failed" =>
         inst[i].conns = {} /\ inst[i].thread \in {"none", "exiting", "over"}

\* While an instance starts, the tab has it and offers neither Start nor Stop.
Begins ==
  \A i \in P!Instance : P!Starting(i) =>
    /\ own = i /\ page = "config" /\ ~ startable
    /\ mcpTab = "open" \/ i \in deserted

\* What is posted of a start is about the tab's own instance.
News ==
  \A i \in P!Instance :
    /\ <<"started", i>> \in posted => inst[i].st = "serving"
    /\ <<"failed", i>> \in posted => inst[i].st = "failed"
    /\ <<"started", i>> \in posted \/ <<"failed", i>> \in posted =>
         own = i /\ page = "config" /\ ~ startable

\* One instance at a time is stopped by the button; meanwhile the tab has none
\* and stays on the page of a server that runs.
Ends ==
  /\ \A i \in Ending : own = 0 /\ page = "running" /\ inst[i].st = "serving"
  /\ \A i, j \in Ending : i = j
  /\ \A i \in stopping : <<"stopped", i>> \notin posted

\* What the tab has.
Has ==
  /\ page = "config" /\ startable => own = 0
  /\ page = "running" => startable
  /\ own # 0 /\ page = "running" => inst[own].st = "serving"
  /\ own # 0 /\ mcpTab # "gone" /\ inst[own].st = "serving" => inst[own].served
  /\ mcpTab = "asking" => own # 0 /\ inst[own].served
  /\ ui # 0 => mcpTab = "gone" /\ own = ui

\* A server up is somebody's.
Answering ==
  \A i \in P!Instance \ deserted : inst[i].st = "serving" /\ P!Held(i) => P!Owned(i)

Core == Stages /\ Begins /\ News /\ Ends /\ Has /\ Answering

McpInv == twice \/ Core

-----------------------------------------------------------------------------
(* Told, as the steps that stop an instance use it.                        *)

LEMMA ToldNobody ==
  ASSUME P!TypeOK
  PROVE  P!Told(0) = inst
<1>1. inst \in [P!Instance -> P!Rec] /\ 0 \notin P!Instance
  BY DEF P!TypeOK, P!Instance
<1>2. PICK r : P!Told(0) = [inst EXCEPT ![0] = r]
  BY DEF P!Told
<1> QED
  BY <1>1, <1>2

LEMMA ToldOne ==
  ASSUME P!TypeOK, NEW i \in P!Instance
  PROVE  /\ P!Told(i) \in [P!Instance -> P!Rec]
         /\ \A k \in P!Instance : k # i => P!Told(i)[k] = inst[k]
         /\ P!Told(i)[i].st = inst[i].st /\ P!Told(i)[i].conns = inst[i].conns
         /\ P!Told(i)[i].at = inst[i].at /\ P!Told(i)[i].call = inst[i].call
         /\ ~ P!Told(i)[i].served
         /\ P!Told(i)[i].thread \in {inst[i].thread, "exiting"}
         /\ inst[i].served => P!Told(i)[i].thread # "up"
<1>1. inst \in [P!Instance -> P!Rec]
  BY DEF P!TypeOK
<1>2. PICK th \in {"none", "starting", "up", "exiting", "over"} :
        /\ P!Told(i) = [inst EXCEPT ![i] = [inst[i] EXCEPT !.served = FALSE, !.thread = th]]
        /\ th \in {inst[i].thread, "exiting"} /\ (inst[i].served => th # "up")
  BY <1>1 DEF P!Told, P!Rec
<1>3. P!Told(i) \in [P!Instance -> P!Rec]
  BY <1>1, <1>2 DEF P!Rec
<1>4. /\ \A k \in P!Instance : k # i => P!Told(i)[k] = inst[k]
      /\ P!Told(i)[i] = [inst[i] EXCEPT !.served = FALSE, !.thread = th]
  BY <1>1, <1>2
<1>5. /\ P!Told(i)[i].st = inst[i].st /\ P!Told(i)[i].conns = inst[i].conns
      /\ P!Told(i)[i].at = inst[i].at /\ P!Told(i)[i].call = inst[i].call
      /\ P!Told(i)[i].served = FALSE /\ P!Told(i)[i].thread = th
  BY <1>1, <1>4 DEF P!Rec
<1> QED
  BY <1>2, <1>3, <1>4, <1>5

LEMMA ToldType ==
  ASSUME P!TypeOK, NEW i \in P!Instance \cup {0}
  PROVE  /\ P!Told(i) \in [P!Instance -> P!Rec]
         /\ \A k \in P!Instance :
              /\ k # i => P!Told(i)[k] = inst[k]
              /\ P!Told(i)[k].st = inst[k].st
              /\ P!Told(i)[k].conns = inst[k].conns
              /\ P!Told(i)[k].at = inst[k].at
<1>1. CASE i \in P!Instance
  BY <1>1, ToldOne
<1>2. CASE i = 0
  BY <1>2, ToldNobody DEF P!TypeOK
<1> QED
  BY <1>1, <1>2

\* The steps that tell an instance.
Telling == P!StopAndClose \/ P!CloseWindow \/ \E i \in P!Instance : P!StopBegins(i)

LEMMA ToldWhom ==
  ASSUME P!McpAssumption, P!TypeOK, Telling
  PROVE  \/ inst' = inst
         \/ own \in P!Instance /\ inst' = P!Told(own) /\ ui' = own
         \/ \E i \in stopping : i \in P!Instance /\ inst' = P!Told(i)
<1>1. own = 0 \/ own \in P!Instance
  BY DEF P!TypeOK, P!Instance, P!McpAssumption
<1>2. stopping \subseteq P!Instance /\ inst \in [P!Instance -> P!Rec] /\ 0 \notin P!Instance
  BY DEF P!TypeOK, P!Instance
<1>3. CASE own = 0 /\ (P!StopAndClose \/ P!CloseWindow)
  BY <1>3, ToldNobody DEF P!StopAndClose, P!CloseWindow, P!StopHere
<1>4. CASE own # 0 /\ (P!StopAndClose \/ P!CloseWindow)
  BY <1>1, <1>4 DEF P!StopAndClose, P!CloseWindow, P!StopHere
<1>5. CASE \E i \in P!Instance : P!StopBegins(i)
  BY <1>5 DEF P!StopBegins
<1> QED
  BY <1>3, <1>4, <1>5 DEF Telling

LEMMA ToldStage ==
  ASSUME P!McpAssumption, P!TypeOK, Telling
  PROVE  \A k \in P!Instance : /\ inst'[k].st = inst[k].st /\ inst'[k].at = inst[k].at
                               /\ inst'[k].conns = inst[k].conns
BY ToldWhom, ToldType

-----------------------------------------------------------------------------
(* The types.                                                              *)

\* All but the instances.
Around ==
  /\ mcpTab \in {"open", "asking", "gone"} /\ page \in {"config", "running"}
  /\ startable \in BOOLEAN /\ own \in 0 .. started
  /\ started \in 0 .. MaxStarts /\ ui \in P!Instance \cup {0}
  /\ stopping \subseteq P!Instance
  /\ posted \subseteq {"started", "failed", "stopped"} \X P!Instance
  /\ calls \in Nat /\ deserted \subseteq P!Instance
  /\ leaked \subseteq P!Instance \X (1 .. Conns) /\ twice \in BOOLEAN

LEMMA TypeStep ==
  ASSUME P!McpAssumption, P!TypeOK, Blank, Counting, [P!Next]_(P!vars)
  PROVE  P!TypeOK'
<1>0. Around /\ inst \in [P!Instance -> P!Rec]
  BY DEF P!TypeOK, Around
<1>a. \A i \in 0 .. started : i = 0 \/ i \in P!Instance
  BY <1>0 DEF Around, P!Instance, P!McpAssumption
<1> USE <1>0 DEF P!McpAssumption
<1>1. CASE P!StartClicked
  <2>1. inst' \in [P!Instance -> P!Rec]
    BY <1>1 DEF P!Rec, P!Instance, P!StartClicked, P!Awake
  <2>2. Around'
    <3>1. own' = started' /\ started' = started + 1 /\ started < MaxStarts
      BY <1>1 DEF P!StartClicked
    <3>2. started' \in 0 .. MaxStarts /\ own' \in 0 .. started'
      BY <3>1 DEF Around
    <3> QED
      BY <1>1, <3>2 DEF Around, P!StartClicked
  <2> QED
    BY <2>1, <2>2 DEF P!TypeOK, Around
<1>2. CASE P!StopClicked
  <2>1. inst' \in [P!Instance -> P!Rec]
    BY <1>2 DEF P!Rec, P!Instance, P!StopClicked, P!Awake
  <2>2. Around'
    <3>1. own' \in 0 .. started' /\ stopping' \subseteq P!Instance
      BY <1>2, <1>a DEF Around, P!StopClicked
    <3> QED
      BY <1>2, <3>1 DEF Around, P!StopClicked
  <2> QED
    BY <2>1, <2>2 DEF P!TypeOK, Around
<1>3. CASE P!CloseTab
  <2>1. inst' \in [P!Instance -> P!Rec]
    BY <1>3 DEF P!Rec, P!Instance, P!CloseTab, P!Awake, P!Starting
  <2>2. Around'
    BY <1>3 DEF Around, P!Instance, P!CloseTab, P!Awake, P!Starting
  <2> QED
    BY <2>1, <2>2 DEF P!TypeOK, Around
<1>4. CASE P!KeepOpen
  <2>1. inst' \in [P!Instance -> P!Rec]
    BY <1>4 DEF P!Rec, P!Instance, P!KeepOpen
  <2>2. Around'
    BY <1>4 DEF Around, P!Instance, P!KeepOpen
  <2> QED
    BY <2>1, <2>2 DEF P!TypeOK, Around
<1>5. CASE P!StopAndClose
  <2>1. inst' \in [P!Instance -> P!Rec]
    BY <1>5, ToldType DEF Around, P!Instance, P!StopAndClose, P!StopHere
  <2>2. Around'
    BY <1>5 DEF Around, P!Instance, P!StopAndClose, P!StopHere
  <2> QED
    BY <2>1, <2>2 DEF P!TypeOK, Around
<1>6. CASE P!CloseWindow
  <2>1. inst' \in [P!Instance -> P!Rec]
    BY <1>6, ToldType DEF Around, P!Instance, P!CloseWindow, P!StopHere, P!Starting
  <2>2. Around'
    <3>1. ui' \in P!Instance \cup {0} /\ deserted' \subseteq P!Instance
      BY <1>6, <1>a DEF Around, P!CloseWindow, P!StopHere
    <3> QED
      BY <1>6, <3>1 DEF Around, P!CloseWindow
  <2> QED
    BY <2>1, <2>2 DEF P!TypeOK, Around
<1>7. ASSUME NEW i \in P!Instance, P!Started(i) PROVE P!TypeOK'
  <2>1. inst' \in [P!Instance -> P!Rec]
    BY <1>7 DEF P!Rec, P!Instance, P!Started
  <2>2. Around'
    BY <1>7 DEF Around, P!Instance, P!Started
  <2> QED
    BY <2>1, <2>2 DEF P!TypeOK, Around
<1>8. ASSUME NEW i \in P!Instance, P!StartFailed(i) PROVE P!TypeOK'
  <2>1. inst' \in [P!Instance -> P!Rec]
    BY <1>8 DEF P!Rec, P!Instance, P!StartFailed
  <2>2. Around'
    BY <1>8 DEF Around, P!Instance, P!StartFailed
  <2> QED
    BY <2>1, <2>2 DEF P!TypeOK, Around
<1>9. ASSUME NEW i \in P!Instance, P!Stopped(i) PROVE P!TypeOK'
  <2>1. inst' \in [P!Instance -> P!Rec]
    BY <1>9 DEF P!Rec, P!Instance, P!Stopped
  <2>2. Around'
    BY <1>9 DEF Around, P!Instance, P!Stopped
  <2> QED
    BY <2>1, <2>2 DEF P!TypeOK, Around
<1>10. ASSUME NEW i \in P!Instance, P!StopBegins(i) PROVE P!TypeOK'
  <2>1. inst' \in [P!Instance -> P!Rec]
    BY <1>10, ToldType DEF Around, P!Instance, P!StopBegins
  <2>2. Around'
    BY <1>10 DEF Around, P!Instance, P!StopBegins
  <2> QED
    BY <2>1, <2>2 DEF P!TypeOK, Around
<1>11. ASSUME NEW i \in P!Instance, P!Joined(i) PROVE P!TypeOK'
  <2>1. inst' \in [P!Instance -> P!Rec]
    BY <1>11 DEF P!Rec, P!Instance, P!Joined
  <2>2. Around'
    BY <1>11 DEF Around, P!Instance, P!Joined
  <2> QED
    BY <2>1, <2>2 DEF P!TypeOK, Around
<1>12. ASSUME NEW i \in P!Instance, P!Open(i) PROVE P!TypeOK'
  <2>1. inst' \in [P!Instance -> P!Rec]
    <3>1. inst[i].at + 1 \in 1 .. Conns
      BY <1>12 DEF P!Open, Counting, P!Rec
    <3>2. inst[i].conns \cup {inst[i].at + 1} \in SUBSET (1 .. Conns)
      BY <3>1 DEF P!Rec
    <3>3. PICK st \in {"opening", "booting"} :
            inst' = [inst EXCEPT ![i] =
                       [inst[i] EXCEPT !.conns = @ \cup {inst[i].at + 1},
                                       !.at = inst[i].at + 1, !.st = st]]
      BY <1>12 DEF P!Open, P!Rec
    <3> DEFINE r == [inst[i] EXCEPT !.conns = @ \cup {inst[i].at + 1},
                                    !.at = inst[i].at + 1, !.st = st]
    <3>4. inst[i] \in P!Rec /\ inst[i].at + 1 \in 0 .. Conns
      BY <3>1
    <3>5. r \in P!Rec
      BY <3>2, <3>3, <3>4 DEF P!Rec
    <3>6. inst' = [inst EXCEPT ![i] = r]
      BY <3>3
    <3> HIDE DEF r
    <3> QED
      BY <3>5, <3>6
  <2>2. Around'
    BY <1>12 DEF Around, P!Instance, P!Open, P!Others
  <2> QED
    BY <2>1, <2>2 DEF P!TypeOK, Around
<1>13. ASSUME NEW i \in P!Instance, P!OpenFails(i) PROVE P!TypeOK'
  <2>1. inst' \in [P!Instance -> P!Rec]
    BY <1>13 DEF P!Rec, P!Instance, P!OpenFails, P!Others, P!Failed
  <2>2. Around'
    <3>1. leaked' \subseteq P!Instance \X (1 .. Conns)
      BY <1>13 DEF Around, P!OpenFails, P!Rec, Counting
    <3>2. posted' \subseteq {"started", "failed", "stopped"} \X P!Instance
      BY <1>13 DEF Around, P!OpenFails, P!Failed
    <3> QED
      BY <1>13, <3>1, <3>2 DEF Around, P!OpenFails, P!Others
  <2> QED
    BY <2>1, <2>2 DEF P!TypeOK, Around
<1>14. ASSUME NEW i \in P!Instance, P!Boot(i) PROVE P!TypeOK'
  <2>1. inst' \in [P!Instance -> P!Rec]
    BY <1>14 DEF P!Rec, P!Instance, P!Boot, P!Others
  <2>2. Around'
    BY <1>14 DEF Around, P!Instance, P!Boot, P!Others
  <2> QED
    BY <2>1, <2>2 DEF P!TypeOK, Around
<1>15. ASSUME NEW i \in P!Instance, P!ThreadUp(i) PROVE P!TypeOK'
  <2>1. inst' \in [P!Instance -> P!Rec]
    <3>1. PICK to \in {"up", "over"} : inst' = [inst EXCEPT ![i].thread = to]
      BY <1>15 DEF P!ThreadUp
    <3> QED
      BY <3>1 DEF P!Rec
  <2>2. Around'
    BY <1>15 DEF Around, P!Instance, P!ThreadUp, P!Others
  <2> QED
    BY <2>1, <2>2 DEF P!TypeOK, Around
<1>16. ASSUME NEW i \in P!Instance, P!Serving(i) PROVE P!TypeOK'
  <2>1. inst' \in [P!Instance -> P!Rec]
    <3>1. inst' = [inst EXCEPT ![i] = [inst[i] EXCEPT !.st = "serving", !.served = TRUE]]
      BY <1>16 DEF P!Serving
    <3> QED
      BY <3>1 DEF P!Rec
  <2>2. Around'
    BY <1>16 DEF Around, P!Instance, P!Serving, P!Others
  <2> QED
    BY <2>1, <2>2 DEF P!TypeOK, Around
<1>17. ASSUME NEW i \in P!Instance, P!BootFails(i) PROVE P!TypeOK'
  <2>1. inst' \in [P!Instance -> P!Rec]
    <3>1. PICK th \in {"exiting", "over"} :
            inst' = [inst EXCEPT ![i] = [[inst[i] EXCEPT !.thread = th]
                                           EXCEPT !.st = "failed", !.conns = {}]]
      BY <1>17 DEF P!BootFails, P!Failed, P!Rec
    <3> QED
      BY <3>1 DEF P!Rec
  <2>2. Around'
    BY <1>17 DEF Around, P!Instance, P!BootFails, P!Others, P!Failed
  <2> QED
    BY <2>1, <2>2 DEF P!TypeOK, Around
<1>18. ASSUME NEW i \in P!Instance, P!ThreadEnds(i) PROVE P!TypeOK'
  <2>1. inst' \in [P!Instance -> P!Rec]
    BY <1>18 DEF P!Rec, P!Instance, P!ThreadEnds, P!Others
  <2>2. Around'
    BY <1>18 DEF Around, P!Instance, P!ThreadEnds, P!Others
  <2> QED
    BY <2>1, <2>2 DEF P!TypeOK, Around
<1>19. ASSUME NEW i \in P!Instance, P!Call(i) PROVE P!TypeOK'
  <2>1. inst' \in [P!Instance -> P!Rec]
    BY <1>19 DEF P!Rec, P!Instance, P!Call
  <2>2. Around'
    BY <1>19 DEF Around, P!Instance, P!Call
  <2> QED
    BY <2>1, <2>2 DEF P!TypeOK, Around
<1>20. ASSUME NEW i \in P!Instance, P!CallEnds(i) PROVE P!TypeOK'
  <2>1. inst' \in [P!Instance -> P!Rec]
    BY <1>20 DEF P!Rec, P!Instance, P!CallEnds, P!Others
  <2>2. Around'
    BY <1>20 DEF Around, P!Instance, P!CallEnds, P!Others
  <2> QED
    BY <2>1, <2>2 DEF P!TypeOK, Around
<1>21. CASE UNCHANGED P!vars
  BY <1>21 DEF P!TypeOK, P!vars
<1> QED
  BY <1>1, <1>2, <1>3, <1>4, <1>5, <1>6, <1>7, <1>8, <1>9, <1>10, <1>11, <1>12, <1>13,
     <1>14, <1>15, <1>16, <1>17, <1>18, <1>19, <1>20, <1>21 DEF P!Next

LEMMA BlankStep ==
  ASSUME P!McpAssumption, P!TypeOK, Blank, Counting, [P!Next]_(P!vars)
  PROVE  Blank'
<1>0. Around /\ inst \in [P!Instance -> P!Rec]
  BY DEF P!TypeOK, Around
<1> USE <1>0 DEF P!McpAssumption
<1>1. CASE P!StartClicked
  BY <1>1 DEF Blank, Around, P!Rec, P!Instance, P!StartClicked, P!Awake
<1>2. CASE P!StopClicked
  BY <1>2 DEF Blank, Around, P!Rec, P!Instance, P!StopClicked, P!Awake
<1>3. CASE P!CloseTab
  BY <1>3 DEF Blank, P!CloseTab, P!Awake
<1>4. CASE P!KeepOpen
  BY <1>4 DEF Blank, Around, P!Rec, P!Instance, P!KeepOpen
<1>5. CASE P!StopAndClose
  BY <1>5, ToldStage DEF Blank, Telling, Around, P!Instance, P!StopAndClose, P!StopHere
<1>6. CASE P!CloseWindow
  BY <1>6, ToldStage DEF Blank, Telling, Around, P!Instance, P!CloseWindow, P!StopHere,
     P!Starting
<1>7. ASSUME NEW i \in P!Instance, P!Started(i) PROVE Blank'
  BY <1>7 DEF Blank, Around, P!Rec, P!Instance, P!Started
<1>8. ASSUME NEW i \in P!Instance, P!StartFailed(i) PROVE Blank'
  BY <1>8 DEF Blank, Around, P!Rec, P!Instance, P!StartFailed
<1>9. ASSUME NEW i \in P!Instance, P!Stopped(i) PROVE Blank'
  BY <1>9 DEF Blank, Around, P!Rec, P!Instance, P!Stopped
<1>10. ASSUME NEW i \in P!Instance, P!StopBegins(i) PROVE Blank'
  BY <1>10, ToldStage DEF Blank, Telling, Around, P!Instance, P!StopBegins
<1>11. ASSUME NEW i \in P!Instance, P!Joined(i) PROVE Blank'
  BY <1>11 DEF Blank, Around, P!Rec, P!Instance, P!Joined
<1>12. ASSUME NEW i \in P!Instance, P!Open(i) PROVE Blank'
  BY <1>12 DEF Blank, Around, P!Rec, P!Instance, P!Open, P!Others
<1>13. ASSUME NEW i \in P!Instance, P!OpenFails(i) PROVE Blank'
  BY <1>13 DEF Blank, P!OpenFails, P!Others, P!Failed
<1>14. ASSUME NEW i \in P!Instance, P!Boot(i) PROVE Blank'
  BY <1>14 DEF Blank, Around, P!Rec, P!Instance, P!Boot, P!Others
<1>15. ASSUME NEW i \in P!Instance, P!ThreadUp(i) PROVE Blank'
  BY <1>15 DEF Blank, Around, P!Rec, P!Instance, P!ThreadUp, P!Others
<1>16. ASSUME NEW i \in P!Instance, P!Serving(i) PROVE Blank'
  BY <1>16 DEF Blank, Around, P!Rec, P!Instance, P!Serving, P!Others
<1>17. ASSUME NEW i \in P!Instance, P!BootFails(i) PROVE Blank'
  BY <1>17 DEF Blank, P!BootFails, P!Others, P!Failed
<1>18. ASSUME NEW i \in P!Instance, P!ThreadEnds(i) PROVE Blank'
  BY <1>18 DEF Blank, Around, P!Rec, P!Instance, P!ThreadEnds, P!Others
<1>19. ASSUME NEW i \in P!Instance, P!Call(i) PROVE Blank'
  BY <1>19 DEF Blank, Around, P!Rec, P!Instance, P!Call
<1>20. ASSUME NEW i \in P!Instance, P!CallEnds(i) PROVE Blank'
  BY <1>20 DEF Blank, Around, P!Rec, P!Instance, P!CallEnds, P!Others
<1>21. CASE UNCHANGED P!vars
  BY <1>21 DEF Blank, P!vars
<1> QED
  BY <1>1, <1>2, <1>3, <1>4, <1>5, <1>6, <1>7, <1>8, <1>9, <1>10, <1>11, <1>12, <1>13,
     <1>14, <1>15, <1>16, <1>17, <1>18, <1>19, <1>20, <1>21 DEF P!Next

LEMMA CountingStep ==
  ASSUME P!McpAssumption, P!TypeOK, Blank, Counting, [P!Next]_(P!vars)
  PROVE  Counting'
<1>0. Around /\ inst \in [P!Instance -> P!Rec]
  BY DEF P!TypeOK, Around
<1> USE <1>0 DEF P!McpAssumption
<1>1. CASE P!StartClicked
  <2> DEFINE j == started + 1
  <2>0. started \in Nat /\ started + 1 \in 1 .. MaxStarts /\ started + 1 > started
    BY <1>1 DEF Around, P!StartClicked
  <2>1. j \in P!Instance /\ inst[j].st = "none" /\ inst[j] \in P!Rec
    BY <2>0 DEF P!Instance, Blank
  <2>2. inst' = [inst EXCEPT ![j] = [inst[j] EXCEPT !.st = "opening"]]
    BY <1>1 DEF P!StartClicked
  <2> HIDE DEF j
  <2> QED
    BY <2>1, <2>2 DEF Counting, P!Rec
<1>2. CASE P!StopClicked
  BY <1>2 DEF Counting, Around, P!Rec, P!Instance, P!StopClicked, P!Awake
<1>3. CASE P!CloseTab
  BY <1>3 DEF Counting, P!CloseTab, P!Awake
<1>4. CASE P!KeepOpen
  BY <1>4 DEF Counting, Around, P!Rec, P!Instance, P!KeepOpen
<1>5. CASE P!StopAndClose
  BY <1>5, ToldStage DEF Counting, Telling, Around, P!Instance, P!StopAndClose,
     P!StopHere
<1>6. CASE P!CloseWindow
  BY <1>6, ToldStage DEF Counting, Telling, Around, P!Instance, P!CloseWindow,
     P!StopHere, P!Starting
<1>7. ASSUME NEW i \in P!Instance, P!Started(i) PROVE Counting'
  BY <1>7 DEF Counting, Around, P!Rec, P!Instance, P!Started
<1>8. ASSUME NEW i \in P!Instance, P!StartFailed(i) PROVE Counting'
  BY <1>8 DEF Counting, Around, P!Rec, P!Instance, P!StartFailed
<1>9. ASSUME NEW i \in P!Instance, P!Stopped(i) PROVE Counting'
  BY <1>9 DEF Counting, Around, P!Rec, P!Instance, P!Stopped
<1>10. ASSUME NEW i \in P!Instance, P!StopBegins(i) PROVE Counting'
  BY <1>10, ToldStage DEF Counting, Telling, Around, P!Instance, P!StopBegins
<1>11. ASSUME NEW i \in P!Instance, P!Joined(i) PROVE Counting'
  BY <1>11 DEF Counting, Around, P!Rec, P!Instance, P!Joined
<1>12. ASSUME NEW i \in P!Instance, P!Open(i) PROVE Counting'
  BY <1>12 DEF Counting, Around, P!Rec, P!Instance, P!Open, P!Others
<1>13. ASSUME NEW i \in P!Instance, P!OpenFails(i) PROVE Counting'
  BY <1>13 DEF Counting, P!OpenFails, P!Others, P!Failed
<1>14. ASSUME NEW i \in P!Instance, P!Boot(i) PROVE Counting'
  BY <1>14 DEF Counting, Around, P!Rec, P!Instance, P!Boot, P!Others
<1>15. ASSUME NEW i \in P!Instance, P!ThreadUp(i) PROVE Counting'
  BY <1>15 DEF Counting, Around, P!Rec, P!Instance, P!ThreadUp, P!Others
<1>16. ASSUME NEW i \in P!Instance, P!Serving(i) PROVE Counting'
  BY <1>16 DEF Counting, Around, P!Rec, P!Instance, P!Serving, P!Others
<1>17. ASSUME NEW i \in P!Instance, P!BootFails(i) PROVE Counting'
  BY <1>17 DEF Counting, P!BootFails, P!Others, P!Failed
<1>18. ASSUME NEW i \in P!Instance, P!ThreadEnds(i) PROVE Counting'
  BY <1>18 DEF Counting, Around, P!Rec, P!Instance, P!ThreadEnds, P!Others
<1>19. ASSUME NEW i \in P!Instance, P!Call(i) PROVE Counting'
  BY <1>19 DEF Counting, Around, P!Rec, P!Instance, P!Call
<1>20. ASSUME NEW i \in P!Instance, P!CallEnds(i) PROVE Counting'
  BY <1>20 DEF Counting, Around, P!Rec, P!Instance, P!CallEnds, P!Others
<1>21. CASE UNCHANGED P!vars
  BY <1>21 DEF Counting, P!vars
<1> QED
  BY <1>1, <1>2, <1>3, <1>4, <1>5, <1>6, <1>7, <1>8, <1>9, <1>10, <1>11, <1>12, <1>13,
     <1>14, <1>15, <1>16, <1>17, <1>18, <1>19, <1>20, <1>21 DEF P!Next

LEMMA EndsKept ==
  ASSUME P!TypeOK, Ends, \A k \in P!Instance : inst'[k].st = inst[k].st,
         UNCHANGED <<own, page, stopping, posted>>
  PROVE  Ends'
<1>1. Ending' = Ending /\ Ending \subseteq P!Instance
  BY DEF Ending, P!TypeOK
<1>2. stopping \subseteq P!Instance
  BY DEF P!TypeOK
<1> QED
  BY <1>1, <1>2 DEF Ends

LEMMA ToldStages ==
  ASSUME P!McpAssumption, P!TypeOK, Telling, Stages
  PROVE  Stages'
<1>1. inst \in [P!Instance -> P!Rec]
  BY DEF P!TypeOK
<1>2. ASSUME NEW i \in P!Instance, inst' = P!Told(i) PROVE Stages'
  <2>1. \A k \in P!Instance : k # i => inst'[k] = inst[k]
    BY <1>2, ToldOne
  <2>2. /\ inst'[i].st = inst[i].st /\ inst'[i].conns = inst[i].conns
        /\ ~ inst'[i].served
        /\ inst'[i].thread = inst[i].thread \/ inst'[i].thread = "exiting"
        /\ inst[i].served => inst'[i].thread # "up"
    BY <1>2, ToldOne
  <2>3. inst[i].st \in {"none", "opening"} => inst'[i].thread = "none"
    BY <1>2, <1>1 DEF P!Told, Stages, P!Rec
  <2> QED
    BY <2>1, <2>2, <2>3 DEF Stages
<1> QED
  BY <1>2, ToldWhom DEF Stages

LEMMA StagesStep ==
  ASSUME P!McpAssumption, P!TypeOK, Blank, Core, ~ twice, ~ twice', [P!Next]_(P!vars)
  PROVE  Stages'
<1>0. Around /\ inst \in [P!Instance -> P!Rec] 
  BY DEF P!TypeOK, Around
<1> USE <1>0 DEF P!McpAssumption
<1>1. CASE P!StartClicked
  <2>0. started \in Nat /\ started + 1 \in 1 .. MaxStarts /\ started + 1 > started
    BY <1>1 DEF Around, P!StartClicked
  <2> DEFINE j == started + 1
  <2>1. j \in P!Instance /\ inst[j].st = "none" /\ inst[j] \in P!Rec
    BY <2>0 DEF P!Instance, Blank
  <2>2. inst' = [inst EXCEPT ![j] = [inst[j] EXCEPT !.st = "opening"]]
    BY <1>1 DEF P!StartClicked
  <2> HIDE DEF j
  <2> QED
    BY <2>1, <2>2 DEF Stages, Core, P!Rec
<1>2. CASE P!StopClicked
  BY <1>2 DEF Stages, Core, P!StopClicked, P!Awake
<1>3. CASE P!CloseTab
  BY <1>3 DEF Stages, Core, P!CloseTab, P!Awake
<1>4. CASE P!KeepOpen
  BY <1>4 DEF Stages, Core, P!KeepOpen
<1>5. CASE P!StopAndClose
  BY <1>5, ToldStages DEF Telling, Core
<1>6. CASE P!CloseWindow
  BY <1>6, ToldStages DEF Telling, Core
<1>7. ASSUME NEW i \in P!Instance, P!Started(i) PROVE Stages'
  BY <1>7 DEF Stages, Core, P!Started
<1>8. ASSUME NEW i \in P!Instance, P!StartFailed(i) PROVE Stages'
  BY <1>8 DEF Stages, Core, P!StartFailed
<1>9. ASSUME NEW i \in P!Instance, P!Stopped(i) PROVE Stages'
  BY <1>9 DEF Stages, Core, P!Stopped
<1>10. ASSUME NEW i \in P!Instance, P!StopBegins(i) PROVE Stages'
  BY <1>10, ToldStages DEF Telling, Core
<1>11. ASSUME NEW i \in P!Instance, P!Joined(i) PROVE Stages'
  BY <1>11 DEF Stages, Core, P!Joined
<1>12. ASSUME NEW i \in P!Instance, P!Open(i) PROVE Stages'
  BY <1>12 DEF Stages, Core, P!Open, P!Others
<1>13. ASSUME NEW i \in P!Instance, P!OpenFails(i) PROVE Stages'
  BY <1>13 DEF Stages, Core, P!OpenFails, P!Others, P!Failed
<1>14. ASSUME NEW i \in P!Instance, P!Boot(i) PROVE Stages'
  BY <1>14 DEF Stages, Core, P!Boot, P!Others
<1>15. ASSUME NEW i \in P!Instance, P!ThreadUp(i) PROVE Stages'
  BY <1>15 DEF Stages, Core, P!ThreadUp, P!Others
<1>16. ASSUME NEW i \in P!Instance, P!Serving(i) PROVE Stages'
  BY <1>16 DEF Stages, Core, P!Serving, P!Others
<1>17. ASSUME NEW i \in P!Instance, P!BootFails(i) PROVE Stages'
  BY <1>17 DEF Stages, Core, P!BootFails, P!Others, P!Failed
<1>18. ASSUME NEW i \in P!Instance, P!ThreadEnds(i) PROVE Stages'
  BY <1>18 DEF Stages, Core, P!ThreadEnds, P!Others
<1>19. ASSUME NEW i \in P!Instance, P!Call(i) PROVE Stages'
  BY <1>19 DEF Stages, Core, P!Call
<1>20. ASSUME NEW i \in P!Instance, P!CallEnds(i) PROVE Stages'
  BY <1>20 DEF Stages, Core, P!CallEnds, P!Others
<1>21. CASE UNCHANGED P!vars
  BY <1>21 DEF Stages, Core, P!vars
<1> QED
  BY <1>1, <1>2, <1>3, <1>4, <1>5, <1>6, <1>7, <1>8, <1>9, <1>10, <1>11, <1>12, <1>13,
     <1>14, <1>15, <1>16, <1>17, <1>18, <1>19, <1>20, <1>21 DEF P!Next

LEMMA BeginsStep ==
  ASSUME P!McpAssumption, P!TypeOK, Blank, Core, ~ twice, ~ twice', [P!Next]_(P!vars)
  PROVE  Begins'
<1>0. Around /\ inst \in [P!Instance -> P!Rec] 
  BY DEF P!TypeOK, Around
<1> USE <1>0 DEF P!McpAssumption
<1>1. CASE P!StartClicked
  BY <1>1 DEF Begins, P!Starting, Core, P!StartClicked, P!Awake
<1>2. CASE P!StopClicked
  BY <1>2 DEF Begins, P!Starting, Core, P!StopClicked, P!Awake
<1>3. CASE P!CloseTab
  BY <1>3 DEF Begins, P!Starting, Stages, Core, P!CloseTab, P!Awake
<1>4. CASE P!KeepOpen
  BY <1>4 DEF Begins, P!Starting, Core, P!KeepOpen
<1>5. CASE P!StopAndClose
  BY <1>5 DEF Begins, P!Starting, Core, P!StopAndClose, P!StopHere, P!Told
<1>6. CASE P!CloseWindow
  <2>1. \A k \in P!Instance : inst'[k].st = inst[k].st
    BY <1>6, ToldStage DEF Telling
  <2>2. UNCHANGED <<own, page, startable>> /\ \A k \in P!Instance :
          k = own /\ P!Starting(k) => k \in deserted'
    BY <1>6 DEF P!CloseWindow, P!Instance
  <2> QED
    BY <2>1, <2>2 DEF Begins, P!Starting, Core
<1>7. ASSUME NEW i \in P!Instance, P!Started(i) PROVE Begins'
  BY <1>7 DEF Begins, P!Starting, News, Core, P!Started
<1>8. ASSUME NEW i \in P!Instance, P!StartFailed(i) PROVE Begins'
  BY <1>8 DEF Begins, P!Starting, News, Core, P!StartFailed
<1>9. ASSUME NEW i \in P!Instance, P!Stopped(i) PROVE Begins'
  BY <1>9 DEF Begins, P!Starting, Core, P!Stopped
<1>10. ASSUME NEW i \in P!Instance, P!StopBegins(i) PROVE Begins'
  BY <1>10 DEF Begins, P!Starting, Core, P!StopBegins, P!Told
<1>11. ASSUME NEW i \in P!Instance, P!Joined(i) PROVE Begins'
  BY <1>11 DEF Begins, P!Starting, Core, P!Joined
<1>12. ASSUME NEW i \in P!Instance, P!Open(i) PROVE Begins'
  BY <1>12 DEF Begins, P!Starting, Core, P!Open, P!Others
<1>13. ASSUME NEW i \in P!Instance, P!OpenFails(i) PROVE Begins'
  BY <1>13 DEF Begins, P!Starting, Core, P!OpenFails, P!Others, P!Failed
<1>14. ASSUME NEW i \in P!Instance, P!Boot(i) PROVE Begins'
  BY <1>14 DEF Begins, P!Starting, Core, P!Boot, P!Others
<1>15. ASSUME NEW i \in P!Instance, P!ThreadUp(i) PROVE Begins'
  BY <1>15 DEF Begins, P!Starting, Core, P!ThreadUp, P!Others
<1>16. ASSUME NEW i \in P!Instance, P!Serving(i) PROVE Begins'
  BY <1>16 DEF Begins, P!Starting, Core, P!Serving, P!Others
<1>17. ASSUME NEW i \in P!Instance, P!BootFails(i) PROVE Begins'
  BY <1>17 DEF Begins, P!Starting, Core, P!BootFails, P!Others, P!Failed
<1>18. ASSUME NEW i \in P!Instance, P!ThreadEnds(i) PROVE Begins'
  BY <1>18 DEF Begins, P!Starting, Core, P!ThreadEnds, P!Others
<1>19. ASSUME NEW i \in P!Instance, P!Call(i) PROVE Begins'
  BY <1>19 DEF Begins, P!Starting, Core, P!Call
<1>20. ASSUME NEW i \in P!Instance, P!CallEnds(i) PROVE Begins'
  BY <1>20 DEF Begins, P!Starting, Core, P!CallEnds, P!Others
<1>21. CASE UNCHANGED P!vars
  BY <1>21 DEF Begins, P!Starting, Core, P!vars
<1> QED
  BY <1>1, <1>2, <1>3, <1>4, <1>5, <1>6, <1>7, <1>8, <1>9, <1>10, <1>11, <1>12, <1>13,
     <1>14, <1>15, <1>16, <1>17, <1>18, <1>19, <1>20, <1>21 DEF P!Next

LEMMA NewsStep ==
  ASSUME P!McpAssumption, P!TypeOK, Blank, Core, ~ twice, ~ twice', [P!Next]_(P!vars)
  PROVE  News'
<1>0. Around /\ inst \in [P!Instance -> P!Rec] 
  BY DEF P!TypeOK, Around
<1> USE <1>0 DEF P!McpAssumption
<1>1. CASE P!StartClicked
  BY <1>1 DEF News, Core, P!StartClicked, P!Awake
<1>2. CASE P!StopClicked
  BY <1>2 DEF News, Core, P!StopClicked, P!Awake
<1>3. CASE P!CloseTab
  BY <1>3 DEF News, Core, P!CloseTab, P!Awake
<1>4. CASE P!KeepOpen
  BY <1>4 DEF News, Core, P!KeepOpen
<1>5. CASE P!StopAndClose
  <2>1. \A k \in P!Instance : inst'[k].st = inst[k].st
    BY <1>5, ToldStage DEF Telling
  <2>2. UNCHANGED <<own, page, startable, posted>>
    BY <1>5 DEF P!StopAndClose
  <2> QED
    BY <2>1, <2>2 DEF News, Core
<1>6. CASE P!CloseWindow
  <2>1. \A k \in P!Instance : inst'[k].st = inst[k].st
    BY <1>6, ToldStage DEF Telling
  <2>2. UNCHANGED <<own, page, startable, posted>>
    BY <1>6 DEF P!CloseWindow
  <2> QED
    BY <2>1, <2>2 DEF News, Core
<1>7. ASSUME NEW i \in P!Instance, P!Started(i) PROVE News'
  BY <1>7 DEF News, Core, P!Started
<1>8. ASSUME NEW i \in P!Instance, P!StartFailed(i) PROVE News'
  BY <1>8 DEF News, Core, P!StartFailed
<1>9. ASSUME NEW i \in P!Instance, P!Stopped(i) PROVE News'
  BY <1>9 DEF News, Core, P!Stopped
<1>10. ASSUME NEW i \in P!Instance, P!StopBegins(i) PROVE News'
  BY <1>10 DEF News, P!Rec, Core, P!StopBegins, P!Told
<1>11. ASSUME NEW i \in P!Instance, P!Joined(i) PROVE News'
  <2>1. \A k \in P!Instance : inst'[k].st = inst[k].st
    BY <1>11 DEF P!Joined, P!Rec
  <2>2. /\ UNCHANGED <<own, page, startable>>
        /\ posted' \subseteq posted \cup {<<"stopped", i>>}
    BY <1>11 DEF P!Joined
  <2> QED
    BY <2>1, <2>2 DEF News, Core
<1>12. ASSUME NEW i \in P!Instance, P!Open(i) PROVE News'
  BY <1>12 DEF News, Core, P!Open, P!Others
<1>13. ASSUME NEW i \in P!Instance, P!OpenFails(i) PROVE News'
  <2>1. /\ inst'[i].st = "failed"
        /\ posted' = posted \cup {<<"failed", i>>}
        /\ UNCHANGED <<own, page, startable>>
    BY <1>13 DEF P!OpenFails, P!Others, P!Failed, P!Rec
  <2>2. own = i /\ page = "config" /\ ~ startable /\ inst[i].st \notin {"serving", "failed"}
    BY <1>13 DEF P!OpenFails, Begins, P!Starting, Core
  <2>3. \A k \in P!Instance : <<"started", k>> \notin posted /\ <<"failed", k>> \notin posted
    BY <2>2 DEF News, Core
  <2> QED
    BY <2>1, <2>2, <2>3 DEF News
<1>14. ASSUME NEW i \in P!Instance, P!Boot(i) PROVE News'
  BY <1>14 DEF News, Core, P!Boot, P!Others
<1>15. ASSUME NEW i \in P!Instance, P!ThreadUp(i) PROVE News'
  <2>1. \A k \in P!Instance : inst'[k].st = inst[k].st
    BY <1>15 DEF P!ThreadUp, P!Rec
  <2>2. UNCHANGED <<own, page, startable, posted>>
    BY <1>15 DEF P!ThreadUp, P!Others
  <2> QED
    BY <2>1, <2>2 DEF News, Core
<1>16. ASSUME NEW i \in P!Instance, P!Serving(i) PROVE News'
  <2>1. /\ inst'[i].st = "serving"
        /\ posted' = posted \cup {<<"started", i>>}
        /\ UNCHANGED <<own, page, startable>>
    BY <1>16 DEF P!Serving, P!Others, P!Rec
  <2>2. own = i /\ page = "config" /\ ~ startable /\ inst[i].st \notin {"serving", "failed"}
    BY <1>16 DEF P!Serving, Begins, P!Starting, Core
  <2>3. \A k \in P!Instance : <<"started", k>> \notin posted /\ <<"failed", k>> \notin posted
    BY <2>2 DEF News, Core
  <2> QED
    BY <2>1, <2>2, <2>3 DEF News
<1>17. ASSUME NEW i \in P!Instance, P!BootFails(i) PROVE News'
  <2>1. /\ inst'[i].st = "failed"
        /\ posted' = posted \cup {<<"failed", i>>}
        /\ UNCHANGED <<own, page, startable>>
    BY <1>17 DEF P!BootFails, P!Others, P!Failed, P!Rec
  <2>2. own = i /\ page = "config" /\ ~ startable /\ inst[i].st \notin {"serving", "failed"}
    BY <1>17 DEF P!BootFails, Begins, P!Starting, Core
  <2>3. \A k \in P!Instance : <<"started", k>> \notin posted /\ <<"failed", k>> \notin posted
    BY <2>2 DEF News, Core
  <2> QED
    BY <2>1, <2>2, <2>3 DEF News
<1>18. ASSUME NEW i \in P!Instance, P!ThreadEnds(i) PROVE News'
  <2>1. \A k \in P!Instance : inst'[k].st = inst[k].st
    BY <1>18 DEF P!ThreadEnds, P!Rec
  <2>2. UNCHANGED <<own, page, startable, posted>>
    BY <1>18 DEF P!ThreadEnds, P!Others
  <2> QED
    BY <2>1, <2>2 DEF News, Core
<1>19. ASSUME NEW i \in P!Instance, P!Call(i) PROVE News'
  <2>1. \A k \in P!Instance : inst'[k].st = inst[k].st
    BY <1>19 DEF P!Call, P!Rec
  <2>2. UNCHANGED <<own, page, startable, posted>>
    BY <1>19 DEF P!Call
  <2> QED
    BY <2>1, <2>2 DEF News, Core
<1>20. ASSUME NEW i \in P!Instance, P!CallEnds(i) PROVE News'
  <2>1. \A k \in P!Instance : inst'[k].st = inst[k].st
    BY <1>20 DEF P!CallEnds, P!Rec
  <2>2. UNCHANGED <<own, page, startable, posted>>
    BY <1>20 DEF P!CallEnds, P!Others
  <2> QED
    BY <2>1, <2>2 DEF News, Core
<1>21. CASE UNCHANGED P!vars
  BY <1>21 DEF News, Core, P!vars
<1> QED
  BY <1>1, <1>2, <1>3, <1>4, <1>5, <1>6, <1>7, <1>8, <1>9, <1>10, <1>11, <1>12, <1>13,
     <1>14, <1>15, <1>16, <1>17, <1>18, <1>19, <1>20, <1>21 DEF P!Next

LEMMA EndsStep ==
  ASSUME P!McpAssumption, P!TypeOK, Blank, Core, ~ twice, ~ twice', [P!Next]_(P!vars)
  PROVE  Ends'
<1>0. Around /\ inst \in [P!Instance -> P!Rec] 
  BY DEF P!TypeOK, Around
<1> USE <1>0 DEF P!McpAssumption
<1>1. CASE P!StartClicked
  BY <1>1 DEF Ends, Ending, Core, P!StartClicked, P!Awake
<1>2. CASE P!StopClicked
  <2>1. own # 0 /\ own \in P!Instance /\ page = "running"
    BY <1>2 DEF P!StopClicked, Around, P!Instance
  <2>2. Ending = {} /\ inst[own].st = "serving"
    BY <2>1 DEF Ends, Has, Core
  <2>3. stopping' = stopping \cup {own} /\ own' = 0 /\ UNCHANGED <<page, inst, posted>>
    BY <1>2, <2>1 DEF P!StopClicked
  <2>4. Ending' = {own}
    BY <2>1, <2>2, <2>3 DEF Ending
  <2> QED
    BY <2>1, <2>2, <2>3, <2>4 DEF Ends, Ending
<1>3. CASE P!CloseTab
  BY <1>3 DEF Ends, Ending, Core, P!CloseTab, P!Awake
<1>4. CASE P!KeepOpen
  BY <1>4 DEF Ends, Ending, Core, P!KeepOpen
<1>5. CASE P!StopAndClose
  BY <1>5 DEF Ends, Ending, Has, Core, P!StopAndClose, P!StopHere, P!Told
<1>6. CASE P!CloseWindow
  BY <1>6 DEF Ends, Ending, Core, P!CloseWindow, P!StopHere, P!Told
<1>7. ASSUME NEW i \in P!Instance, P!Started(i) PROVE Ends'
  BY <1>7 DEF Ends, Ending, Core, P!Started
<1>8. ASSUME NEW i \in P!Instance, P!StartFailed(i) PROVE Ends'
  BY <1>8 DEF Ends, Ending, Core, P!StartFailed
<1>9. ASSUME NEW i \in P!Instance, P!Stopped(i) PROVE Ends'
  <2>1. i \in Ending /\ i \notin stopping
    BY <1>9 DEF P!Stopped, Ending, Ends, Core
  <2>2. Ending = {i}
    BY <2>1 DEF Ends, Core
  <2>3. stopping' = stopping /\ posted' = posted \ {<<"stopped", i>>}
    BY <1>9 DEF P!Stopped
  <2>4. Ending' = {}
    BY <2>1, <2>2, <2>3 DEF Ending
  <2> QED
    BY <2>4 DEF Ends, Ending
<1>10. ASSUME NEW i \in P!Instance, P!StopBegins(i) PROVE Ends'
  <2>1. \A k \in P!Instance : inst'[k].st = inst[k].st
    BY <1>10, ToldStage DEF Telling
  <2>2. UNCHANGED <<own, page, stopping, posted>>
    BY <1>10 DEF P!StopBegins
  <2> QED
    BY <2>1, <2>2, EndsKept DEF Core
<1>11. ASSUME NEW i \in P!Instance, P!Joined(i) PROVE Ends'
  <2>1. \A k \in P!Instance : inst'[k].st = inst[k].st
    BY <1>11 DEF P!Joined, P!Rec
  <2>2. UNCHANGED <<own, page>>
    BY <1>11 DEF P!Joined
  <2>3. CASE UNCHANGED <<stopping, posted>>
    BY <2>1, <2>2, <2>3, EndsKept DEF Core
  <2>4. CASE /\ i \in stopping /\ stopping' = stopping \ {i}
             /\ posted' = posted \cup {<<"stopped", i>>}
    <3>1. Ending' = Ending
      BY <2>4 DEF Ending
    <3>2. \A j \in stopping' : <<"stopped", j>> \notin posted'
      BY <2>4 DEF Ends, Ending, Core
    <3>3. Ending \subseteq P!Instance
      BY DEF Ending, Around
    <3> QED
      BY <2>1, <2>2, <3>1, <3>2, <3>3 DEF Ends, Core
  <2> QED
    BY <1>11, <2>3, <2>4 DEF P!Joined
<1>12. ASSUME NEW i \in P!Instance, P!Open(i) PROVE Ends'
  BY <1>12 DEF Ends, Ending, Around, P!Instance, Core, P!Open, P!Others
<1>13. ASSUME NEW i \in P!Instance, P!OpenFails(i) PROVE Ends'
  BY <1>13 DEF Ends, Ending, Around, P!Instance, Core, P!OpenFails, P!Others, P!Failed
<1>14. ASSUME NEW i \in P!Instance, P!Boot(i) PROVE Ends'
  BY <1>14 DEF Ends, Ending, Around, P!Instance, Core, P!Boot, P!Others
<1>15. ASSUME NEW i \in P!Instance, P!ThreadUp(i) PROVE Ends'
  <2>1. \A k \in P!Instance : inst'[k].st = inst[k].st
    BY <1>15 DEF P!ThreadUp, P!Rec
  <2>2. UNCHANGED <<own, page, stopping, posted>>
    BY <1>15 DEF P!ThreadUp, P!Others
  <2> QED
    BY <2>1, <2>2, EndsKept DEF Core
<1>16. ASSUME NEW i \in P!Instance, P!Serving(i) PROVE Ends'
  BY <1>16 DEF Ends, Ending, Around, P!Instance, Core, P!Serving, P!Others
<1>17. ASSUME NEW i \in P!Instance, P!BootFails(i) PROVE Ends'
  BY <1>17 DEF Ends, Ending, Around, P!Instance, Core, P!BootFails, P!Others, P!Failed
<1>18. ASSUME NEW i \in P!Instance, P!ThreadEnds(i) PROVE Ends'
  <2>1. \A k \in P!Instance : inst'[k].st = inst[k].st
    BY <1>18 DEF P!ThreadEnds, P!Rec
  <2>2. UNCHANGED <<own, page, stopping, posted>>
    BY <1>18 DEF P!ThreadEnds, P!Others
  <2> QED
    BY <2>1, <2>2, EndsKept DEF Core
<1>19. ASSUME NEW i \in P!Instance, P!Call(i) PROVE Ends'
  <2>1. \A k \in P!Instance : inst'[k].st = inst[k].st
    BY <1>19 DEF P!Call, P!Rec
  <2>2. UNCHANGED <<own, page, stopping, posted>>
    BY <1>19 DEF P!Call
  <2> QED
    BY <2>1, <2>2, EndsKept DEF Core
<1>20. ASSUME NEW i \in P!Instance, P!CallEnds(i) PROVE Ends'
  <2>1. \A k \in P!Instance : inst'[k].st = inst[k].st
    BY <1>20 DEF P!CallEnds, P!Rec
  <2>2. UNCHANGED <<own, page, stopping, posted>>
    BY <1>20 DEF P!CallEnds, P!Others
  <2> QED
    BY <2>1, <2>2, EndsKept DEF Core
<1>21. CASE UNCHANGED P!vars
  BY <1>21 DEF Ends, Ending, Core, P!vars
<1> QED
  BY <1>1, <1>2, <1>3, <1>4, <1>5, <1>6, <1>7, <1>8, <1>9, <1>10, <1>11, <1>12, <1>13,
     <1>14, <1>15, <1>16, <1>17, <1>18, <1>19, <1>20, <1>21 DEF P!Next

LEMMA HasStep ==
  ASSUME P!McpAssumption, P!TypeOK, Blank, Core, ~ twice, ~ twice', [P!Next]_(P!vars)
  PROVE  Has'
<1>0. Around /\ inst \in [P!Instance -> P!Rec] 
  BY DEF P!TypeOK, Around
<1> USE <1>0 DEF P!McpAssumption
<1>1. CASE P!StartClicked
  BY <1>1 DEF Has, Around, P!Instance, Core, P!StartClicked, P!Awake
<1>2. CASE P!StopClicked
  BY <1>2 DEF Has, Core, P!StopClicked, P!Awake
<1>3. CASE P!CloseTab
  BY <1>3 DEF Has, Core, P!CloseTab, P!Awake
<1>4. CASE P!KeepOpen
  BY <1>4 DEF Has, Core, P!KeepOpen
<1>5. CASE P!StopAndClose
  BY <1>5 DEF Has, Core, P!StopAndClose, P!StopHere, P!Told
<1>6. CASE P!CloseWindow
  <2>1. \A k \in P!Instance : inst'[k].st = inst[k].st
    BY <1>6, ToldStage DEF Telling
  <2>2. UNCHANGED <<own, page, startable>> /\ mcpTab' = "gone" /\ ui' \in {0, own}
    BY <1>6 DEF P!CloseWindow, P!StopHere
  <2>3. own \in P!Instance \cup {0}
    BY DEF Around, P!Instance
  <2> QED
    BY <2>1, <2>2, <2>3 DEF Has, Core
<1>7. ASSUME NEW i \in P!Instance, P!Started(i) PROVE Has'
  BY <1>7 DEF Has, News, Core, P!Started
<1>8. ASSUME NEW i \in P!Instance, P!StartFailed(i) PROVE Has'
  BY <1>8 DEF Has, Stages, Begins, P!Starting, News, Core, P!StartFailed
<1>9. ASSUME NEW i \in P!Instance, P!Stopped(i) PROVE Has'
  BY <1>9 DEF Has, Ends, Ending, Core, P!Stopped
<1>10. ASSUME NEW i \in P!Instance, P!StopBegins(i) PROVE Has'
  BY <1>10 DEF Has, Ends, Ending, Core, P!StopBegins, P!Told
<1>11. ASSUME NEW i \in P!Instance, P!Joined(i) PROVE Has'
  BY <1>11 DEF Has, Core, P!Joined
<1>12. ASSUME NEW i \in P!Instance, P!Open(i) PROVE Has'
  BY <1>12 DEF Has, Core, P!Open, P!Others
<1>13. ASSUME NEW i \in P!Instance, P!OpenFails(i) PROVE Has'
  BY <1>13 DEF Has, Core, P!OpenFails, P!Others, P!Failed
<1>14. ASSUME NEW i \in P!Instance, P!Boot(i) PROVE Has'
  BY <1>14 DEF Has, Core, P!Boot, P!Others
<1>15. ASSUME NEW i \in P!Instance, P!ThreadUp(i) PROVE Has'
  BY <1>15 DEF Has, Core, P!ThreadUp, P!Others
<1>16. ASSUME NEW i \in P!Instance, P!Serving(i) PROVE Has'
  BY <1>16 DEF Has, Core, P!Serving, P!Others
<1>17. ASSUME NEW i \in P!Instance, P!BootFails(i) PROVE Has'
  BY <1>17 DEF Has, Core, P!BootFails, P!Others, P!Failed
<1>18. ASSUME NEW i \in P!Instance, P!ThreadEnds(i) PROVE Has'
  BY <1>18 DEF Has, Core, P!ThreadEnds, P!Others
<1>19. ASSUME NEW i \in P!Instance, P!Call(i) PROVE Has'
  BY <1>19 DEF Has, Core, P!Call
<1>20. ASSUME NEW i \in P!Instance, P!CallEnds(i) PROVE Has'
  BY <1>20 DEF Has, Core, P!CallEnds, P!Others
<1>21. CASE UNCHANGED P!vars
  BY <1>21 DEF Has, Core, P!vars
<1> QED
  BY <1>1, <1>2, <1>3, <1>4, <1>5, <1>6, <1>7, <1>8, <1>9, <1>10, <1>11, <1>12, <1>13,
     <1>14, <1>15, <1>16, <1>17, <1>18, <1>19, <1>20, <1>21 DEF P!Next

LEMMA ServedStep ==
  ASSUME P!McpAssumption, P!TypeOK, Blank, Core, ~ twice, ~ twice', [P!Next]_(P!vars)
  PROVE  Answering'
<1>0. Around /\ inst \in [P!Instance -> P!Rec] 
  BY DEF P!TypeOK, Around
<1> USE <1>0 DEF P!McpAssumption
<1>1. CASE P!StartClicked
  BY <1>1 DEF Answering, P!Held, P!Owned, Has, P!Starting, Core, P!StartClicked, P!Awake
<1>2. CASE P!StopClicked
  BY <1>2 DEF Answering, P!Held, P!Owned, P!Starting, Core, P!StopClicked, P!Awake
<1>3. CASE P!CloseTab
  BY <1>3 DEF Answering, P!Held, P!Owned, Has, P!Starting, Core, P!CloseTab, P!Awake
<1>4. CASE P!KeepOpen
  BY <1>4 DEF Answering, P!Held, P!Owned, P!Starting, Core, P!KeepOpen
<1>5. CASE P!StopAndClose
  BY <1>5 DEF Answering, P!Held, P!Owned, P!Starting, P!Instance, Core, P!StopAndClose,
     P!StopHere, P!Told
<1>6. CASE P!CloseWindow
  BY <1>6 DEF Answering, P!Held, P!Owned, P!Starting, P!Instance, Core, P!CloseWindow,
     P!StopHere, P!Told
<1>7. ASSUME NEW i \in P!Instance, P!Started(i) PROVE Answering'
  BY <1>7 DEF Answering, P!Held, P!Owned, P!Starting, Core, P!Started
<1>8. ASSUME NEW i \in P!Instance, P!StartFailed(i) PROVE Answering'
  BY <1>8 DEF Answering, P!Held, P!Owned, News, P!Starting, Core, P!StartFailed
<1>9. ASSUME NEW i \in P!Instance, P!Stopped(i) PROVE Answering'
  BY <1>9 DEF Answering, P!Held, P!Owned, P!Starting, Core, P!Stopped
<1>10. ASSUME NEW i \in P!Instance, P!StopBegins(i) PROVE Answering'
  BY <1>10 DEF Answering, P!Held, P!Owned, P!Starting, Core, P!StopBegins, P!Told
<1>11. ASSUME NEW i \in P!Instance, P!Joined(i) PROVE Answering'
  <2>1. /\ \A k \in P!Instance : k # i => inst'[k] = inst[k]
        /\ inst'[i].st = inst[i].st /\ inst'[i].thread = inst[i].thread
        /\ inst'[i].conns = {} /\ ~ inst[i].served
    BY <1>11 DEF P!Joined, P!Rec
  <2>2. /\ UNCHANGED <<own, mcpTab, deserted>>
        /\ \A k \in P!Instance : k # i =>
              (k \in stopping <=> k \in stopping') /\ (ui = k => ui' = k)
    BY <1>11 DEF P!Joined
  <2>3. ASSUME NEW k \in P!Instance, k # i, k \notin deserted,
               inst[k].st = "serving", P!Held(k)'
        PROVE  P!Owned(k)'
    <3>1. P!Held(k) /\ (P!Starting(k) <=> P!Starting(k)')
      BY <2>1, <2>3 DEF P!Held, P!Starting
    <3>2. P!Owned(k)
      BY <2>3, <3>1 DEF Answering, Core
    <3> QED
      BY <2>2, <2>3, <3>1, <3>2 DEF P!Owned
  <2>4. ~ (inst[i].st = "serving" /\ P!Held(i)')
    BY <2>1 DEF P!Held, Stages, Core
  <2> QED
    BY <2>1, <2>2, <2>3, <2>4 DEF Answering
<1>12. ASSUME NEW i \in P!Instance, P!Open(i) PROVE Answering'
  BY <1>12 DEF Answering, P!Held, P!Owned, P!Starting, Core, P!Open, P!Others
<1>13. ASSUME NEW i \in P!Instance, P!OpenFails(i) PROVE Answering'
  BY <1>13 DEF Answering, P!Held, P!Owned, P!Starting, Core, P!OpenFails, P!Others,
     P!Failed
<1>14. ASSUME NEW i \in P!Instance, P!Boot(i) PROVE Answering'
  BY <1>14 DEF Answering, P!Held, P!Owned, P!Starting, Core, P!Boot, P!Others
<1>15. ASSUME NEW i \in P!Instance, P!ThreadUp(i) PROVE Answering'
  BY <1>15 DEF Answering, P!Held, P!Owned, P!Starting, Core, P!ThreadUp, P!Others
<1>16. ASSUME NEW i \in P!Instance, P!Serving(i) PROVE Answering'
  BY <1>16 DEF Answering, P!Held, P!Owned, Begins, P!Starting, Core, P!Serving, P!Others
<1>17. ASSUME NEW i \in P!Instance, P!BootFails(i) PROVE Answering'
  BY <1>17 DEF Answering, P!Held, P!Owned, P!Starting, Core, P!BootFails, P!Others,
     P!Failed
<1>18. ASSUME NEW i \in P!Instance, P!ThreadEnds(i) PROVE Answering'
  BY <1>18 DEF Answering, P!Held, P!Owned, P!Starting, Core, P!ThreadEnds, P!Others
<1>19. ASSUME NEW i \in P!Instance, P!Call(i) PROVE Answering'
  BY <1>19 DEF Answering, P!Held, P!Owned, P!Starting, Core, P!Call
<1>20. ASSUME NEW i \in P!Instance, P!CallEnds(i) PROVE Answering'
  BY <1>20 DEF Answering, P!Held, P!Owned, P!Starting, Core, P!CallEnds, P!Others
<1>21. CASE UNCHANGED P!vars
  BY <1>21 DEF Answering, P!Held, P!Owned, P!Starting, Core, P!vars
<1> QED
  BY <1>1, <1>2, <1>3, <1>4, <1>5, <1>6, <1>7, <1>8, <1>9, <1>10, <1>11, <1>12, <1>13,
     <1>14, <1>15, <1>16, <1>17, <1>18, <1>19, <1>20, <1>21 DEF P!Next

LEMMA McpFirst ==
  ASSUME P!McpAssumption, P!Init
  PROVE  P!TypeOK /\ Blank /\ Counting /\ Core
<1>1. /\ inst = [i \in P!Instance |->
                    [st |-> "none", conns |-> {}, at |-> 0, served |-> FALSE,
                     thread |-> "none", call |-> FALSE]]
      /\ ui = 0 /\ stopping = {} /\ posted = {} /\ own = 0 /\ mcpTab = "open"
      /\ page = "config" /\ deserted = {}
  BY DEF P!Init
<1>2. P!TypeOK
  <2>1. inst \in [P!Instance -> P!Rec]
    BY <1>1 DEF P!Rec, P!McpAssumption
  <2>2. /\ started = 0 /\ calls = 0 /\ startable = TRUE /\ leaked = {} /\ twice = FALSE
        /\ 0 \in 0 .. MaxStarts /\ 0 \in 0 .. started
    BY DEF P!Init, P!McpAssumption
  <2> QED
    BY <1>1, <2>1, <2>2 DEF P!TypeOK
<1>3. Blank /\ Counting /\ Stages
  BY <1>1 DEF Blank, Counting, Stages, P!Instance
<1>4. Begins /\ News /\ Ends /\ Has /\ Answering
  BY <1>1 DEF Begins, News, Ends, Ending, Has, Answering, P!Held, P!Owned, P!Starting
<1> QED
  BY <1>2, <1>3, <1>4 DEF Core

\* Once Stop was pressed twice, it was.
LEMMA TwiceKept ==
  ASSUME twice, [P!Next]_(P!vars)
  PROVE  twice'
BY DEF P!Next, P!vars, P!StartClicked, P!StopClicked, P!CloseTab, P!KeepOpen,
   P!StopAndClose,
       P!CloseWindow, P!Started, P!StartFailed, P!Stopped, P!StopBegins, P!Joined, P!Open, P!OpenFails,
       P!Boot, P!ThreadUp, P!Serving, P!BootFails, P!ThreadEnds, P!Call, P!CallEnds, P!Others

LEMMA CoreStep ==
  ASSUME P!McpAssumption, P!TypeOK, Blank, McpInv, [P!Next]_(P!vars)
  PROVE  McpInv'
<1>1. twice \in BOOLEAN /\ (twice => twice')
  BY TwiceKept DEF P!TypeOK
<1>2. CASE twice'
  BY <1>2 DEF McpInv
<1>3. CASE ~ twice'
  <2>1. Core /\ ~ twice
    BY <1>1, <1>3 DEF McpInv
  <2>2. Stages' /\ Begins' /\ News'
    BY <1>3, <2>1, StagesStep, BeginsStep, NewsStep
  <2>3. Ends' /\ Has' /\ Answering'
    BY <1>3, <2>1, EndsStep, HasStep, ServedStep
  <2> QED
    BY <2>2, <2>3 DEF McpInv, Core
<1> QED
  BY <1>2, <1>3

\* An instance at each stage of its life, and whose it is then.
LEMMA CoreUnowned ==
  ASSUME P!TypeOK, McpInv
  PROVE  P!NothingUnowned
<1> SUFFICES ASSUME ~ twice, NEW i \in P!Instance, i \notin deserted, P!Held(i)
             PROVE  P!Owned(i)
  BY DEF P!NothingUnowned
<1>1. Core
  BY DEF McpInv
<1>2. inst[i].st \in {"none", "opening", "booting", "serving", "failed"}
  BY DEF P!TypeOK, P!Rec
<1>3. inst[i].st \notin {"none", "failed"}
  BY <1>1 DEF Core, Stages, P!Held
<1>4. CASE inst[i].st = "serving"
  BY <1>1, <1>4 DEF Core, Answering
<1>5. CASE inst[i].st # "serving"
  BY <1>2, <1>3, <1>5 DEF P!Owned, P!Starting
<1> QED
  BY <1>4, <1>5

\* server.py:7-8, 94-95, and the three ways a server is stopped: whatever the
\* order of starts, failures, stops, calls and closes, a server that runs or is
\* about to, and a connector that is open, belong to an instance being started,
\* to its open tab, or to a stop under way; for any number of connections,
\* servers and calls.
THEOREM Unowned == P!McpAssumption /\ P!Spec => []P!NothingUnowned
<1> SUFFICES ASSUME P!McpAssumption PROVE P!Spec => []P!NothingUnowned
  OBVIOUS
<1> DEFINE I == P!TypeOK /\ Blank /\ Counting /\ McpInv
<1>1. P!Init => I
  BY McpFirst DEF McpInv
<1>2. I /\ [P!Next]_(P!vars) => I'
  BY TypeStep, BlankStep, CountingStep, CoreStep
<1>3. I => P!NothingUnowned
  BY CoreUnowned
<1> QED
  BY <1>1, <1>2, <1>3, PTL DEF P!Spec

-----------------------------------------------------------------------------
(* Side by side with the other parts, which leave their state alone.       *)

LEMMA McpPart == MCSpec => P!Spec
<1>1. MCInit => P!Init
  BY DEF MCInit
<1>2. [MCNext]_allVars => [P!Next]_(P!vars)
  BY DEF MCNext, allVars, mcpVars, P!vars
<1> QED
  BY <1>1, <1>2, PTL DEF MCSpec, P!Spec

LEMMA LspPart == MCSpec => L!Spec
<1>1. MCInit => L!Init
  BY DEF MCInit
<1>2. [MCNext]_allVars => [L!Next]_(L!vars)
  BY DEF MCNext, allVars, lspVars, L!vars
<1> QED
  BY <1>1, <1>2, PTL DEF MCSpec, L!Spec

\* The property OffersAreForTheText of the run: a popup opens on the answer for
\* the text that is in the editor.
COROLLARY FilesOffers == MCSpec => OffersAreForTheText
BY Offers, LspPart, PTL DEF OffersAreForTheText

\* The property NeverRestarted of the run: what failed or was shut down is not
\* started again.
COROLLARY FilesStartedOnce == MCSpec => []NeverRestarted
<1>1. L!NeverRestarted => NeverRestarted
  BY DEF NeverRestarted
<1> QED
  BY <1>1, StartedOnce, LspPart, PTL

\* The property NothingUnowned of the run: no server is left that nobody can stop,
\* none serves with its connections closed.
COROLLARY FilesUnowned == MCSpec => []NothingUnowned
<1>1. P!NothingUnowned => NothingUnowned
  BY DEF NothingUnowned
<1>2. P!McpAssumption
  BY InstanceAssumption
<1> QED
  BY <1>1, <1>2, Unowned, McpPart, PTL
=============================================================================
