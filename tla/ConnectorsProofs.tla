--------------------------- MODULE ConnectorsProofs ---------------------------
(* Theorems about Connectors, for any connections, names and tabs.           *)
EXTENDS Connectors, TLAPS

\* Whatever a tab is on has been given a name, and so has a live connection.
Named ==
  /\ \A p \in live : name[p] \in Name
  /\ \A t \in Tab : tab[t] # NoTab => name[tab[t].on] \in Name

\* What a tab that is not closed looks like.
OpenTab == [pc : {"idle", "ask", "connect"}, on : Profile, kind : Kinds,
            name : Name, version : 0 .. MaxEdits, renamed : BOOLEAN]

LEMMA TabType ==
  ASSUME TypeOK, NEW t \in Tab, tab[t] # NoTab
  PROVE  tab[t] \in OpenTab
BY DEF TypeOK, OpenTab

\* The key a tab's connector is kept under.
LEMMA KeyType ==
  ASSUME TypeOK, Named, NEW t \in Tab, tab[t] # NoTab
  PROVE  KeyOf(t) \in Key
BY TabType DEF OpenTab, Named, KeyOf, Key, Kinds

\* Dropping a name keeps the types of what it changes.
LEMMA DropType ==
  ASSUME TypeOK, NEW n \in Name, Drop(n)
  PROVE  /\ pool' \in [Key -> 0 .. MaxSessions]
         /\ session' \in [Sessions ->
              [st : {"unused", "open", "closing", "closed"}, of : Profile,
               version : 0 .. MaxEdits]]
         /\ dot' \in [Name -> BOOLEAN]
         /\ tainted' \subseteq Name /\ crossed' \subseteq Name
<1>1. <<n, "own">> \in Key
  BY DEF Key, Kinds
<1>2. pool' \in [Key -> 0 .. MaxSessions]
  BY PoolAssumption, <1>1 DEF TypeOK, Drop
<1>3. pool[<<n, "own">>] # 0 => pool[<<n, "own">>] \in Sessions
  BY PoolAssumption, <1>1 DEF TypeOK, Sessions
<1>4. session' \in [Sessions ->
        [st : {"unused", "open", "closing", "closed"}, of : Profile,
         version : 0 .. MaxEdits]]
  <2> DEFINE i == pool[<<n, "own">>]
             closing == [session[i] EXCEPT !.st = "closing"]
  <2>1. CASE i = 0
    BY <2>1 DEF TypeOK, Drop
  <2>2. CASE i # 0
    <3>1. closing \in [st : {"unused", "open", "closing", "closed"},
                       of : Profile, version : 0 .. MaxEdits]
      BY <1>3, <2>2 DEF TypeOK
    <3>2. session' = [session EXCEPT ![i] = closing]
      BY <2>2 DEF Drop
    <3> HIDE DEF i, closing
    <3>3. QED
      BY <3>1, <3>2 DEF TypeOK
  <2>3. QED
    BY <2>1, <2>2
<1>5. dot' \in [Name -> BOOLEAN]
  BY DEF TypeOK, Drop
<1>6. tainted' \subseteq Name /\ crossed' \subseteq Name
  BY DEF TypeOK, Drop, NoteDrop
<1>7. QED
  BY <1>2, <1>4, <1>5, <1>6

\* Types and names last through every step.
LEMMA TypeStep ==
  ASSUME TypeOK, Named, [Next]_vars
  PROVE  TypeOK' /\ Named'
<1> USE PoolAssumption DEF Named
<1>1. ASSUME NEW t \in Tab, NEW p \in Profile, NEW kind \in Kinds, Open(t, p, kind)
      PROVE  TypeOK' /\ Named'
  <2>1. tab' \in [Tab -> {NoTab} \cup OpenTab]
    BY <1>1 DEF TypeOK, Open, OpenTab
  <2>2. \A u \in Tab : tab'[u] # NoTab => name[tab'[u].on] \in Name
    BY <1>1 DEF TypeOK, Open
  <2>3. QED
    BY <1>1, <2>1, <2>2 DEF TypeOK, Open, OpenTab
<1>2. ASSUME NEW t \in Tab, Ask(t) PROVE TypeOK' /\ Named'
  <2>1. tab[t] \in OpenTab
    BY <1>2, TabType DEF Ask, NoTab
  <2>2. tab' = [tab EXCEPT ![t] = [@ EXCEPT !.pc = "ask"]]
    BY <1>2 DEF Ask
  <2>3. tab' \in [Tab -> {NoTab} \cup OpenTab] /\ tab'[t].on = tab[t].on
    BY <2>1, <2>2 DEF TypeOK, OpenTab
  <2>4. QED
    BY <1>2, <2>1, <2>2, <2>3 DEF TypeOK, Ask, OpenTab, NoTab
<1>3. ASSUME NEW t \in Tab, Worker(t) PROVE TypeOK' /\ Named'
  <2>1. tab[t] \in OpenTab
    BY <1>3, TabType DEF Worker, Hit, Miss, Connected, ConnectFails, NoTab
  <2>2. tab[t] # NoTab
    BY <1>3 DEF Worker, Hit, Miss, Connected, ConnectFails, NoTab
  <2>3. KeyOf(t) \in Key
    BY <2>2, KeyType
  <2>4. name[tab[t].on] \in Name
    BY <2>2
  <2>5. ASSUME NEW r \in OpenTab, tab' = [tab EXCEPT ![t] = r], r.on = tab[t].on,
               name' = name, live' = live
        PROVE  tab' \in [Tab -> {NoTab} \cup OpenTab] /\ Named'
    <3>1. tab \in [Tab -> {NoTab} \cup OpenTab]
      BY DEF TypeOK, OpenTab
    <3>2. tab' \in [Tab -> {NoTab} \cup OpenTab]
      BY <2>5, <3>1
    <3>3. \A u \in Tab : tab'[u] # NoTab => tab[u] # NoTab /\ tab'[u].on = tab[u].on
      BY <2>2, <2>5, <3>1
    <3>4. QED
      BY <2>5, <3>2, <3>3
  <2>6. CASE Hit(t) \/ ConnectFails(t)
    <3> DEFINE r == [tab[t] EXCEPT !.pc = "idle"]
    <3>1. r \in OpenTab /\ r.on = tab[t].on
      BY <2>1 DEF OpenTab
    <3>2. tab' = [tab EXCEPT ![t] = r]
      BY <2>6 DEF Hit, ConnectFails
    <3>3. name' = name /\ live' = live
      BY <2>6 DEF Hit, ConnectFails
    <3> HIDE DEF r
    <3>4. tab' \in [Tab -> {NoTab} \cup OpenTab] /\ Named'
      BY <2>5, <3>1, <3>2, <3>3
    <3>5. QED
      BY <2>6, <3>4 DEF TypeOK, Hit, ConnectFails, OpenTab
  <2>7. CASE Miss(t)
    <3> DEFINE v == IF tab[t].kind = "own" THEN version[tab[t].on] ELSE tab[t].version
               r == [tab[t] EXCEPT !.pc = "connect", !.renamed = FALSE, !.version = v]
    <3>1. v \in 0 .. MaxEdits
      BY <2>1 DEF TypeOK, OpenTab
    <3>2. r \in OpenTab /\ r.on = tab[t].on
      BY <2>1, <3>1 DEF OpenTab
    <3>3. tab' = [tab EXCEPT ![t] = r]
      BY <2>7, Zenon DEF Miss
    <3>4. name' = name /\ live' = live
      BY <2>7 DEF Miss
    <3> HIDE DEF r
    <3>5. tab' \in [Tab -> {NoTab} \cup OpenTab] /\ Named'
      BY <2>5, <3>2, <3>3, <3>4
    <3>6. QED
      BY <2>7, <3>5 DEF TypeOK, Miss, OpenTab
  <2>8. CASE Connected(t)
    <3> DEFINE r == [tab[t] EXCEPT !.pc = "idle"]
    <3>1. r \in OpenTab /\ r.on = tab[t].on
      BY <2>1 DEF OpenTab
    <3>2. tab' = [tab EXCEPT ![t] = r]
      BY <2>8 DEF Connected
    <3>3. name' = name /\ live' = live
      BY <2>8 DEF Connected
    <3> HIDE DEF r
    <3>4. tab' \in [Tab -> {NoTab} \cup OpenTab] /\ Named'
      BY <2>5, <3>1, <3>2, <3>3
    <3>5. /\ session' \in [Sessions ->
               [st : {"unused", "open", "closing", "closed"}, of : Profile,
                version : 0 .. MaxEdits]]
          /\ pool' \in [Key -> 0 .. MaxSessions]
      BY <2>8, <2>1, <2>3 DEF Connected, TypeOK, Sessions, OpenTab
    <3>6. posted' \in Seq(Name) /\ tainted' \subseteq Name
      <4>1. Append(posted, name[tab[t].on]) \in Seq(Name)
        BY <2>4 DEF TypeOK
      <4>2. \/ posted' = posted /\ tainted' = tainted
            \/ /\ posted' = Append(posted, name[tab[t].on])
               /\ tainted' \in {tainted, tainted \cup {name[tab[t].on]}}
        BY <2>8 DEF Connected
      <4>3. QED
        BY <4>1, <4>2, <2>4 DEF TypeOK
    <3>7. QED
      BY <2>8, <3>4, <3>5, <3>6 DEF TypeOK, Connected, OpenTab
  <2>9. QED
    BY <1>3, <2>6, <2>7, <2>8 DEF Worker
<1>4. ASSUME NEW i \in Sessions, Close(i) PROVE TypeOK' /\ Named'
  BY <1>4 DEF TypeOK, Close
<1>5. ASSUME NEW p \in Profile, Disconnect(p) \/ Remove(p) PROVE TypeOK' /\ Named'
  <2>1. name[p] \in Name /\ Drop(name[p])
    BY <1>5 DEF Disconnect, Remove
  <2>2. live' \subseteq live /\ UNCHANGED <<name, version, tab, lock, ui, posted>>
    BY <1>5 DEF Disconnect, Remove
  <2>3. QED
    BY <2>1, <2>2, DropType DEF TypeOK
<1>6. ASSUME NEW p \in Profile, NEW n \in Name, Edit(p, n) PROVE TypeOK' /\ Named'
  <2>1. /\ name' \in [Profile -> Name \cup {Unnamed}]
        /\ \A q \in Profile : name[q] \in Name => name'[q] \in Name
    BY <1>6 DEF TypeOK, Edit
  <2>2. version' \in [Profile -> 0 .. MaxEdits]
    BY <1>6 DEF TypeOK, Edit
  <2>3. /\ tab' \in [Tab -> {NoTab} \cup OpenTab]
        /\ \A t \in Tab : tab'[t] # NoTab =>
             tab[t] # NoTab /\ tab'[t].on = tab[t].on /\ tab[t].on \in Profile
    <3>1. ASSUME NEW t \in Tab
          PROVE  /\ tab'[t] \in {NoTab} \cup OpenTab
                 /\ tab'[t] # NoTab =>
                      tab[t] # NoTab /\ tab'[t].on = tab[t].on /\ tab[t].on \in Profile
      <4>1. CASE tab[t].pc = "connect" /\ tab[t].on = p /\ n # name[p]
        <5>1. tab[t] # NoTab /\ tab[t] \in OpenTab
          BY <4>1, TabType DEF NoTab
        <5>2. tab'[t] = [tab[t] EXCEPT !.renamed = TRUE]
          BY <1>6, <4>1 DEF Edit
        <5>3. QED
          BY <5>1, <5>2 DEF OpenTab
      <4>2. CASE ~ (tab[t].pc = "connect" /\ tab[t].on = p /\ n # name[p])
        <5>1. tab'[t] = tab[t]
          BY <1>6, <4>2 DEF Edit
        <5>2. QED
          BY <5>1, TabType DEF OpenTab
      <4>3. QED
        BY <4>1, <4>2
    <3>2. tab' = [t \in Tab |-> tab'[t]]
      BY <1>6 DEF Edit
    <3>3. QED
      BY <3>1, <3>2
  <2>4. ui' \in {Free} \cup [pc : {"drop"}, old : Name, on : Profile]
    BY <1>6 DEF Edit
  <2>5. QED
    BY <1>6, <2>1, <2>2, <2>3, <2>4 DEF TypeOK, Edit, OpenTab
<1>7. ASSUME NEW p \in Profile, NEW n \in Name, Add(p, n) PROVE TypeOK' /\ Named'
  <2>1. /\ name' \in [Profile -> Name \cup {Unnamed}]
        /\ name'[p] \in Name
        /\ \A q \in Profile : name[q] \in Name => name'[q] \in Name
    BY <1>7 DEF TypeOK, Add
  <2>2. \A t \in Tab : tab[t] # NoTab => tab[t].on \in Profile
    BY TabType DEF OpenTab
  <2>3. QED
    BY <1>7, <2>1, <2>2 DEF TypeOK, Add
<1>8. CASE EditDrop
  <2>1. ui.old \in Name
    BY <1>8 DEF TypeOK, EditDrop
  <2>2. QED
    BY <1>8, <2>1, DropType DEF TypeOK, EditDrop
<1>9. CASE SetConnected
  <2>1. Head(posted) \in Name /\ posted' \in Seq(Name)
    BY <1>9 DEF TypeOK, SetConnected
  <2>2. QED
    BY <1>9, <2>1 DEF TypeOK, SetConnected
<1>10. CASE UNCHANGED vars
  BY <1>10 DEF TypeOK, vars
<1>11. QED
  BY <1>1, <1>2, <1>3, <1>4, <1>5, <1>6, <1>7, <1>8, <1>9, <1>10 DEF Next

\* The types and names at the start.
LEMMA TypeInit ==
  ASSUME Init
  PROVE  TypeOK /\ Named
<1>1. session \in [Sessions ->
        [st : {"unused", "open", "closing", "closed"}, of : Profile,
         version : 0 .. MaxEdits]]
  BY PoolAssumption DEF Init
<1>2. QED
  BY <1>1, PoolAssumption DEF Init, TypeOK, Named

\* Every variable keeps its type: in particular a tab never asks for a
\* connector of a connection that has no name.
THEOREM TypeCorrect == Spec => []TypeOK
<1>1. QED
  BY TypeInit, TypeStep, PTL DEF Spec

-----------------------------------------------------------------------------
\* PooledIsOpen survives a drop because a session is pooled once: the key
\* that is dropped is the only one that could still lead to it.
PoolInv ==
  /\ PooledIsOpen
  /\ \A k, m \in Key : pool[k] # 0 /\ pool[k] = pool[m] => k = m

LEMMA PoolDrop ==
  ASSUME TypeOK, PoolInv, NEW n \in Name, Drop(n)
  PROVE  PoolInv'
<1> DEFINE d == <<n, "own">>
<1>1. d \in Key
  BY DEF Key, Kinds
<1>2. \A k \in Key : pool'[k] = IF k = d THEN 0 ELSE pool[k]
  BY <1>1 DEF TypeOK, Drop
<1>3. \A k \in Key : pool[k] # 0 => pool[k] \in Sessions
  BY PoolAssumption DEF TypeOK, Sessions
<1>4. \A i \in Sessions : i # pool[d] => session'[i] = session[i]
  BY <1>1 DEF TypeOK, Drop
<1> HIDE DEF d
<1>5. ASSUME NEW k \in Key, pool'[k] # 0 PROVE session'[pool'[k]].st = "open"
  <2>1. k # d /\ pool'[k] = pool[k] /\ pool[k] # 0
    BY <1>2, <1>5
  <2>2. pool[k] # pool[d]
    BY <1>1, <2>1 DEF PoolInv
  <2>3. QED
    BY <1>3, <1>4, <2>1, <2>2 DEF PoolInv, PooledIsOpen
<1>6. \A k, m \in Key : pool'[k] # 0 /\ pool'[k] = pool'[m] => k = m
  BY <1>2 DEF PoolInv
<1>7. QED
  BY <1>5, <1>6 DEF PoolInv, PooledIsOpen

\* A session is pooled only when it is opened, and closed only once dropped.
LEMMA PoolStep ==
  ASSUME TypeOK, Named, PoolInv, [Next]_vars
  PROVE  PoolInv'
<1> USE DEF PoolInv, PooledIsOpen
<1>1. ASSUME UNCHANGED <<pool, session>> PROVE PoolInv'
  BY <1>1
<1>2. ASSUME NEW t \in Tab, Connected(t) PROVE PoolInv'
  <2>1. KeyOf(t) \in Key
    BY <1>2, KeyType DEF Connected, NoTab
  <2>2. PICK i \in Sessions :
          /\ Unused(i)
          /\ session' = [session EXCEPT ![i] = [st |-> "open", of |-> tab[t].on,
                                               version |-> tab[t].version]]
          /\ pool' = [pool EXCEPT ![KeyOf(t)] = i]
    BY <1>2 DEF Connected
  <2>3. \A k \in Key : pool[k] # i
    BY <2>2, PoolAssumption DEF Unused, Sessions
  <2>4. \A k \in Key : pool'[k] = IF k = KeyOf(t) THEN i ELSE pool[k]
    BY <2>1, <2>2 DEF TypeOK
  <2>5. \A j \in Sessions : session[j].st = "open" => session'[j].st = "open"
    BY <2>2 DEF TypeOK
  <2>6. session'[i].st = "open"
    BY <2>2 DEF TypeOK
  <2>7. \A k \in Key : pool[k] # 0 => pool[k] \in Sessions
    BY PoolAssumption DEF TypeOK, Sessions
  <2>8. QED
    BY <2>3, <2>4, <2>5, <2>6, <2>7
<1>3. ASSUME NEW i \in Sessions, Close(i) PROVE PoolInv'
  <2>1. pool' = pool /\ \A j \in Sessions : session[j].st = "open" => session'[j] = session[j]
    BY <1>3 DEF Close, TypeOK
  <2>2. \A k \in Key : pool[k] # 0 => pool[k] \in Sessions
    BY PoolAssumption DEF TypeOK, Sessions
  <2>3. QED
    BY <2>1, <2>2
<1>4. ASSUME NEW p \in Profile, Disconnect(p) \/ Remove(p) PROVE PoolInv'
  BY <1>4, PoolDrop DEF Disconnect, Remove, Named
<1>5. CASE EditDrop
  <2>1. ui.old \in Name /\ Drop(ui.old)
    BY <1>5 DEF TypeOK, EditDrop
  <2>2. QED
    BY <2>1, PoolDrop
<1>6. QED
  BY <1>1, <1>2, <1>3, <1>4, <1>5
     DEF Next, vars, Open, Ask, Worker, Hit, Miss, ConnectFails, Edit, Add, SetConnected

\* A worker never gets from the pool a connector that was closed or is about
\* to be, whatever was dropped, renamed or removed while it connected.
THEOREM PoolIsOpen == Spec => []PooledIsOpen
<1>1. Init => PoolInv
  BY DEF Init, PoolInv, PooledIsOpen
<1>2. PoolInv => PooledIsOpen
  BY DEF PoolInv
<1>3. QED
  BY <1>1, <1>2, TypeInit, TypeStep, PoolStep, PTL DEF Spec

-----------------------------------------------------------------------------
\* The old name whose entry the main loop is waiting to drop.
Leaving(n) == ui # Free /\ ui.old = n

\* Live connections have names of their own.
Distinct == \A p, q \in live : name[p] = name[q] => p = q

\* Only a connection that was given a name has had a session.
Owned == \A i \in Sessions : session[i].st # "unused" => name[session[i].of] \in Name

\* A session of a live connection is filed under the connection's name, or
\* under the one it is just being moved from.
Filed ==
  \A n \in Name :
    LET i == pool[<<n, "own">>]
    IN i # 0 /\ session[i].of \in live =>
         name[session[i].of] = n \/ (Leaving(n) /\ ui.on = session[i].of)

\* A worker that connects has the lock, and where it will file its session
\* there is none of a live connection, even if its name changes meanwhile.
Locked ==
  \A t \in Tab : tab[t].pc = "connect" =>
    /\ lock = t
    /\ pool[KeyOf(t)] # 0 => session[pool[KeyOf(t)]].of \notin live

\* What makes NoneForgotten inductive.
KeptInv == Distinct /\ Owned /\ Filed /\ Locked /\ NoneForgotten

\* What a drop does, now that a pooled session is known to be open.
LEMMA DropFacts ==
  ASSUME TypeOK, PoolInv, NEW n \in Name, Drop(n)
  PROVE  /\ lock = Nobody
         /\ <<n, "own">> \in Key
         /\ \A k \in Key : pool'[k] = IF k = <<n, "own">> THEN 0 ELSE pool[k]
         /\ \A i \in Sessions :
              /\ session'[i].of = session[i].of
              /\ session'[i].version = session[i].version
              /\ session'[i].st # "unused" => session[i].st # "unused"
              /\ session'[i].st = "open" =>
                   session[i].st = "open" /\ i # pool[<<n, "own">>]
<1> DEFINE d == <<n, "own">>
<1>1. d \in Key
  BY DEF Key, Kinds
<1>2. \A k \in Key : pool'[k] = IF k = d THEN 0 ELSE pool[k]
  BY <1>1 DEF TypeOK, Drop
<1>3. pool[d] # 0 => pool[d] \in Sessions /\ session[pool[d]].st = "open"
  BY <1>1, PoolAssumption DEF TypeOK, Sessions, PoolInv, PooledIsOpen
<1>4. ASSUME NEW i \in Sessions
      PROVE  /\ session'[i].of = session[i].of
             /\ session'[i].version = session[i].version
             /\ session'[i].st # "unused" => session[i].st # "unused"
             /\ session'[i].st = "open" => session[i].st = "open" /\ i # pool[d]
  <2>1. CASE i = pool[d]
    <3>1. i # 0
      BY PoolAssumption DEF Sessions
    <3>2. session'[i] = [session[i] EXCEPT !.st = "closing"]
      BY <2>1, <3>1 DEF Drop, TypeOK
    <3>3. session[i] \in [st : {"unused", "open", "closing", "closed"},
                          of : Profile, version : 0 .. MaxEdits]
      BY DEF TypeOK
    <3>4. session'[i].st = "closing"
      BY <3>2, <3>3
    <3>5. session'[i].of = session[i].of /\ session'[i].version = session[i].version
      BY <3>2, <3>3
    <3>6. QED
      BY <1>3, <2>1, <3>1, <3>4, <3>5
  <2>2. CASE i # pool[d]
    <3>1. session'[i] = session[i]
      BY <2>2 DEF Drop, TypeOK
    <3>2. QED
      BY <2>2, <3>1
  <2>3. QED
    BY <2>1, <2>2
<1>5. lock = Nobody
  BY DEF Drop
<1>6. QED
  BY <1>1, <1>2, <1>4, <1>5

\* A drop by the main loop, by any of the handlers that drop.
LEMMA KeptDrop ==
  ASSUME TypeOK, PoolInv, KeptInv, NEW n \in Name, Drop(n),
         live' \subseteq live, UNCHANGED <<name, tab>>,
         ui' = ui \/ (ui' = Free /\ Leaving(n))
  PROVE  KeptInv'
<1>1. \A t \in Tab : tab'[t].pc # "connect"
  <2>1. lock = Nobody
    BY DropFacts
  <2>2. \A t \in Tab : Nobody # t
    BY PoolAssumption DEF Nobody
  <2>3. QED
    BY <2>1, <2>2 DEF KeptInv, Locked
<1>2. \A k \in Key : pool[k] # 0 => pool[k] \in Sessions
  BY PoolAssumption DEF TypeOK, Sessions
<1>3. \A m \in Name : <<m, "own">> \in Key /\ (<<m, "own">> = <<n, "own">> => m = n)
  BY DEF Key, Kinds
<1>4. Distinct'
  BY DEF KeptInv, Distinct
<1>5. Owned'
  BY DropFacts DEF KeptInv, Owned
<1>6. Filed'
  <2> SUFFICES ASSUME NEW m \in Name, pool'[<<m, "own">>] # 0,
                      session'[pool'[<<m, "own">>]].of \in live'
               PROVE  LET q == session'[pool'[<<m, "own">>]].of
                      IN name[q] = m \/ (ui' # Free /\ ui'.old = m /\ ui'.on = q)
    BY DEF Filed, Leaving
  <2> DEFINE i == pool[<<m, "own">>]
  <2>1. m # n /\ pool'[<<m, "own">>] = i /\ i # 0
    BY <1>3, DropFacts
  <2>2. i \in Sessions
    BY <1>2, <1>3, <2>1
  <2>3. session'[i].of = session[i].of
    BY <2>2, DropFacts
  <2>4. name[session[i].of] = m \/ (Leaving(m) /\ ui.on = session[i].of)
    BY <2>1, <2>3 DEF KeptInv, Filed
  <2>5. Leaving(m) => ui' = ui
    BY <2>1 DEF Leaving
  <2>6. QED
    BY <2>1, <2>3, <2>4, <2>5 DEF Leaving
<1>7. Locked'
  BY <1>1 DEF Locked
<1>8. NoneForgotten'
  <2> SUFFICES ASSUME NEW i \in Sessions, session'[i].st = "open",
                      session'[i].of \in live'
               PROVE  \E k \in Key : pool'[k] = i
    BY DEF NoneForgotten
  <2>1. session[i].st = "open" /\ i # pool[<<n, "own">>] /\ session[i].of \in live
    BY DropFacts
  <2>2. PICK k \in Key : pool[k] = i
    BY <2>1 DEF KeptInv, NoneForgotten
  <2>3. pool'[k] = i
    BY <2>1, <2>2, DropFacts
  <2>4. QED
    BY <2>3
<1>9. QED
  BY <1>4, <1>5, <1>6, <1>7, <1>8 DEF KeptInv

\* A session is filed where there was none that anyone still needs.
LEMMA KeptConnected ==
  ASSUME TypeOK, Named, PoolInv, KeptInv, NEW t \in Tab, Connected(t)
  PROVE  KeptInv'
<1>1. tab[t] \in OpenTab /\ tab[t] # NoTab
  BY TabType DEF Connected, NoTab
<1>2. KeyOf(t) \in Key /\ name[tab[t].on] \in Name
  BY <1>1, KeyType DEF Named
<1>3. PICK i \in Sessions :
        /\ Unused(i)
        /\ session' = [session EXCEPT ![i] = [st |-> "open", of |-> tab[t].on,
                                             version |-> tab[t].version]]
        /\ pool' = [pool EXCEPT ![KeyOf(t)] = i]
  BY DEF Connected
<1>4. \A k \in Key : pool'[k] = IF k = KeyOf(t) THEN i ELSE pool[k]
  BY <1>2, <1>3 DEF TypeOK
<1>5. /\ session'[i].of = tab[t].on /\ session'[i].st = "open"
      /\ \A j \in Sessions : j # i => session'[j] = session[j]
  BY <1>3 DEF TypeOK
<1>6. \A k \in Key : pool[k] # 0 => pool[k] \in Sessions /\ pool[k] # i
  BY <1>3, PoolAssumption DEF TypeOK, Sessions, Unused, PoolInv, PooledIsOpen
<1>7. name' = name /\ live' = live /\ ui' = ui
  BY DEF Connected
<1>8. tab'[t].pc = "idle" /\ \A u \in Tab : u # t => tab'[u] = tab[u]
  BY <1>1 DEF Connected, TypeOK, OpenTab
<1>9. \A u \in Tab : tab'[u].pc # "connect"
  BY <1>8 DEF KeptInv, Locked, Connected
<1>10. Distinct' /\ Locked'
  BY <1>7, <1>9 DEF KeptInv, Distinct, Locked
<1>11. Owned'
  BY <1>2, <1>5, <1>7 DEF KeptInv, Owned
<1>12. Filed'
  <2> SUFFICES ASSUME NEW m \in Name, pool'[<<m, "own">>] # 0,
                      session'[pool'[<<m, "own">>]].of \in live
               PROVE  LET q == session'[pool'[<<m, "own">>]].of
                      IN name[q] = m \/ (Leaving(m) /\ ui.on = q)
    BY <1>7 DEF Filed, Leaving
  <2>1. <<m, "own">> \in Key
    BY DEF Key, Kinds
  <2>2. CASE <<m, "own">> = KeyOf(t)
    <3>1. tab[t].kind = "own" /\ name[tab[t].on] = m
      BY <2>2, <1>1 DEF KeyOf, OpenTab, Kinds
    <3>2. QED
      BY <1>4, <1>5, <2>1, <2>2, <3>1
  <2>3. CASE <<m, "own">> # KeyOf(t)
    <3>1. pool'[<<m, "own">>] = pool[<<m, "own">>]
      BY <1>4, <2>1, <2>3
    <3>2. session'[pool[<<m, "own">>]] = session[pool[<<m, "own">>]]
      BY <1>5, <1>6, <2>1, <3>1
    <3>3. QED
      BY <3>1, <3>2 DEF KeptInv, Filed
  <2>4. QED
    BY <2>2, <2>3
<1>13. NoneForgotten'
  <2> SUFFICES ASSUME NEW j \in Sessions, session'[j].st = "open",
                      session'[j].of \in live
               PROVE  \E k \in Key : pool'[k] = j
    BY <1>7 DEF NoneForgotten
  <2>1. CASE j = i
    BY <1>2, <1>4, <2>1
  <2>2. CASE j # i
    <3>1. session[j].st = "open" /\ session[j].of \in live
      BY <1>5, <2>2
    <3>2. PICK k \in Key : pool[k] = j
      BY <3>1 DEF KeptInv, NoneForgotten
    <3>3. j # 0
      BY PoolAssumption DEF Sessions
    <3>4. k # KeyOf(t)
      BY <3>1, <3>2, <3>3 DEF KeptInv, Locked, Connected
    <3>5. QED
      BY <1>4, <3>2, <3>4
  <2>3. QED
    BY <2>1, <2>2
<1>14. QED
  BY <1>10, <1>11, <1>12, <1>13 DEF KeptInv

\* A profile is renamed in place: nobody else has the name, so what is filed
\* under it is of no other live connection.
LEMMA KeptEdit ==
  ASSUME TypeOK, Named, KeptInv, NEW p \in Profile, NEW n \in Name, Edit(p, n)
  PROVE  KeptInv'
<1>1. /\ live' = live /\ pool' = pool /\ session' = session /\ lock' = lock
      /\ ui = Free /\ p \in live /\ name[p] \in Name
      /\ ui' # Free /\ ui'.old = name[p] /\ ui'.on = p
  BY DEF Edit, Free, Named
<1>2. \A q \in Profile : name'[q] = IF q = p THEN n ELSE name[q]
  BY DEF Edit, TypeOK
<1>3. \A q \in live : q \in Profile /\ (name[q] = n => q = p)
  BY DEF Edit, Available, TypeOK
<1>4. Distinct'
  BY <1>1, <1>2, <1>3 DEF KeptInv, Distinct
<1>5. Owned'
  <2>1. \A i \in Sessions : session[i].of \in Profile
    BY DEF TypeOK
  <2>2. QED
    BY <1>1, <1>2, <2>1 DEF KeptInv, Owned
<1>6. Filed'
  <2> SUFFICES ASSUME NEW m \in Name, pool[<<m, "own">>] # 0,
                      session[pool[<<m, "own">>]].of \in live
               PROVE  LET q == session[pool[<<m, "own">>]].of
                      IN name'[q] = m \/ (ui'.old = m /\ ui'.on = q)
    BY <1>1 DEF Filed, Leaving
  <2>1. name[session[pool[<<m, "own">>]].of] = m
    BY <1>1 DEF KeptInv, Filed, Leaving
  <2>2. QED
    BY <1>1, <1>2, <1>3, <2>1
<1>7. Locked'
  <2> SUFFICES ASSUME NEW t \in Tab, tab'[t].pc = "connect"
               PROVE  /\ lock = t
                      /\ pool[KeyOf(t)'] # 0 => session[pool[KeyOf(t)']].of \notin live
    BY <1>1 DEF Locked
  <2>1. /\ tab[t].pc = "connect" /\ tab[t] \in OpenTab
        /\ tab'[t].on = tab[t].on /\ tab'[t].kind = tab[t].kind
        /\ tab'[t].name = tab[t].name
    <3>1. tab'[t] = IF tab[t].pc = "connect" /\ tab[t].on = p /\ n # name[p]
                      THEN [tab[t] EXCEPT !.renamed = TRUE] ELSE tab[t]
      BY DEF Edit
    <3>2. tab[t] # NoTab
      BY <3>1 DEF NoTab
    <3>3. tab[t] \in OpenTab
      BY <3>2, TabType
    <3>4. QED
      BY <3>1, <3>3 DEF OpenTab
  <2>2. lock = t /\ (pool[KeyOf(t)] # 0 => session[pool[KeyOf(t)]].of \notin live)
    BY <2>1 DEF KeptInv, Locked
  <2>3. CASE tab[t].kind = "own" /\ tab[t].on = p /\ n # name[p]
    <3>1. KeyOf(t)' = <<n, "own">>
      BY <1>2, <2>1, <2>3 DEF KeyOf
    <3>2. ASSUME pool[<<n, "own">>] # 0, session[pool[<<n, "own">>]].of \in live
          PROVE  FALSE
      <4>1. name[session[pool[<<n, "own">>]].of] = n
        BY <1>1, <3>2 DEF KeptInv, Filed, Leaving
      <4>2. session[pool[<<n, "own">>]].of = p
        BY <1>3, <3>2, <4>1
      <4>3. QED
        BY <2>3, <4>1, <4>2
    <3>3. QED
      BY <2>2, <3>1, <3>2
  <2>4. CASE ~ (tab[t].kind = "own" /\ tab[t].on = p /\ n # name[p])
    <3>1. KeyOf(t)' = KeyOf(t)
      <4>1. tab[t].on \in Profile
        BY <2>1 DEF OpenTab
      <4>2. QED
        BY <1>2, <2>1, <2>4, <4>1 DEF KeyOf
    <3>2. QED
      BY <2>2, <3>1
  <2>5. QED
    BY <2>3, <2>4
<1>8. NoneForgotten'
  BY <1>1 DEF KeptInv, NoneForgotten
<1>9. QED
  BY <1>4, <1>5, <1>6, <1>7, <1>8 DEF KeptInv

\* A connection is added: it has had no name, and so no session, until now.
LEMMA KeptAdd ==
  ASSUME TypeOK, Named, PoolInv, KeptInv, NEW p \in Profile, NEW n \in Name, Add(p, n)
  PROVE  KeptInv'
<1>1. /\ live' = live \cup {p} /\ pool' = pool /\ session' = session
      /\ lock' = lock /\ ui' = ui /\ tab' = tab
      /\ name[p] \notin Name
  BY PoolAssumption DEF Add
<1>2. \A q \in Profile : name'[q] = IF q = p THEN n ELSE name[q]
  BY DEF Add, TypeOK
<1>3. \A q \in live : q \in Profile /\ q # p /\ name[q] # n
  BY <1>1 DEF Add, Available, TypeOK, Named
<1>4. \A i \in Sessions : session[i].of \in Profile
                          /\ (session[i].st # "unused" => session[i].of # p)
  BY <1>1 DEF KeptInv, Owned, TypeOK
<1>5. \A k \in Key : pool[k] # 0 =>
        pool[k] \in Sessions /\ session[pool[k]].of # p /\ session[pool[k]].of \in Profile
  BY <1>4, PoolAssumption DEF TypeOK, Sessions, PoolInv, PooledIsOpen
<1>6. Distinct'
  BY <1>1, <1>2, <1>3 DEF KeptInv, Distinct
<1>7. Owned'
  BY <1>1, <1>2, <1>4 DEF KeptInv, Owned
<1>8. Filed'
  <2>1. \A m \in Name : <<m, "own">> \in Key
    BY DEF Key, Kinds
  <2>2. QED
    BY <1>1, <1>2, <1>5, <2>1 DEF KeptInv, Filed, Leaving
<1>9. Locked'
  <2> SUFFICES ASSUME NEW t \in Tab, tab[t].pc = "connect"
               PROVE  /\ lock = t
                      /\ pool[KeyOf(t)'] # 0 => session[pool[KeyOf(t)']].of \notin live'
    BY <1>1 DEF Locked
  <2>1. tab[t] # NoTab
    BY DEF NoTab
  <2>2. tab[t].on \in Profile /\ tab[t].on # p
    BY <1>1, <2>1, TabType DEF Named, OpenTab
  <2>3. KeyOf(t)' = KeyOf(t) /\ KeyOf(t) \in Key
    BY <1>1, <1>2, <2>1, <2>2, KeyType DEF KeyOf
  <2>4. QED
    BY <1>1, <1>5, <2>3 DEF KeptInv, Locked
<1>10. NoneForgotten'
  BY <1>1, <1>4 DEF KeptInv, NoneForgotten
<1>11. QED
  BY <1>6, <1>7, <1>8, <1>9, <1>10 DEF KeptInv

\* A step of a tab or its worker that leaves the pool alone.
LEMMA KeptTab ==
  ASSUME TypeOK, Named, KeptInv, NEW t \in Tab,
         \/ \E p \in Profile, kind \in Kinds : Open(t, p, kind)
         \/ Ask(t) \/ Hit(t) \/ Miss(t) \/ ConnectFails(t)
  PROVE  KeptInv'
<1>1. UNCHANGED <<name, live, pool, session, ui>>
  BY DEF Open, Ask, Hit, Miss, ConnectFails
<1>2. Distinct' /\ Owned' /\ Filed' /\ NoneForgotten'
  BY <1>1 DEF KeptInv, Distinct, Owned, Filed, Leaving, NoneForgotten
<1>3. \A u \in Tab : u # t => tab'[u] = tab[u] /\ KeyOf(u)' = KeyOf(u)
  BY <1>1 DEF Open, Ask, Hit, Miss, ConnectFails, TypeOK, KeyOf
<1>4. CASE Miss(t)
  <2>1. tab[t] \in OpenTab
    BY <1>4, TabType DEF Miss, NoTab
  <2> DEFINE v == IF tab[t].kind = "own" THEN version[tab[t].on] ELSE tab[t].version
  <2> DEFINE r == [tab[t] EXCEPT !.pc = "connect", !.renamed = FALSE, !.version = v]
  <2>a. tab' = [tab EXCEPT ![t] = r]
    BY <1>4, Zenon DEF Miss
  <2>2. tab'[t] = r
    <3> HIDE DEF r
    <3> QED
      BY <2>a DEF TypeOK
  <2>3. tab'[t].on = tab[t].on /\ tab'[t].kind = tab[t].kind /\ tab'[t].name = tab[t].name
    BY <2>1, <2>2 DEF OpenTab
  <2>4. KeyOf(t)' = KeyOf(t)
    BY <1>1, <2>3 DEF KeyOf
  <2>5. \A u \in Tab : u # t => tab'[u].pc # "connect"
    BY <1>3, <1>4, PoolAssumption DEF KeptInv, Locked, Miss
  <2>6. lock' = t /\ pool[KeyOf(t)] = 0
    BY <1>4 DEF Miss
  <2>7. Locked'
    BY <1>1, <2>4, <2>5, <2>6 DEF Locked
  <2>8. QED
    BY <1>2, <2>7 DEF KeptInv
<1>5. CASE ~ Miss(t)
  <2>1. tab'[t].pc # "connect"
    <3>1. CASE \E p \in Profile, kind \in Kinds : Open(t, p, kind)
      BY <3>1 DEF Open, TypeOK
    <3>2. CASE Ask(t) \/ Hit(t) \/ ConnectFails(t)
      <4>1. tab[t] \in OpenTab
        BY <3>2, TabType DEF Ask, Hit, ConnectFails, NoTab
      <4>2. \E s \in {"ask", "idle"} : tab'[t] = [tab[t] EXCEPT !.pc = s]
        BY <3>2 DEF Ask, Hit, ConnectFails, TypeOK
      <4>3. QED
        BY <4>1, <4>2 DEF OpenTab
    <3>3. QED
      BY <1>5, <3>1, <3>2
  <2>2. lock' = lock \/ tab[t].pc = "connect"
    BY <1>5 DEF Open, Ask, Hit, ConnectFails
  <2>3. ASSUME NEW u \in Tab, tab'[u].pc = "connect"
        PROVE  /\ lock' = u
               /\ pool[KeyOf(u)'] # 0 => session[pool[KeyOf(u)']].of \notin live
    <3>1. u # t /\ tab[u].pc = "connect" /\ KeyOf(u)' = KeyOf(u)
      BY <1>3, <2>1, <2>3
    <3>2. lock = u /\ lock' = lock
      BY <2>2, <3>1 DEF KeptInv, Locked
    <3>3. QED
      BY <3>1, <3>2 DEF KeptInv, Locked
  <2>4. Locked'
    BY <1>1, <2>3 DEF Locked
  <2>5. QED
    BY <1>2, <2>4 DEF KeptInv
<1>6. QED
  BY <1>4, <1>5

\* Closing ends a session that was taken out of the pool before.
LEMMA KeptClose ==
  ASSUME TypeOK, Named, KeptInv, PoolInv, NEW i \in Sessions, Close(i)
  PROVE  KeptInv'
<1>1. UNCHANGED <<name, live, pool, ui, tab, lock>>
  BY DEF Close
<1>2. /\ session[i].st = "closing"
      /\ \A j \in Sessions : j # i => session'[j] = session[j]
      /\ session'[i] = [session[i] EXCEPT !.st = "closed"]
  BY DEF Close, TypeOK
<1>3. session[i] \in [st : {"unused", "open", "closing", "closed"}, of : Profile,
                      version : 0 .. MaxEdits]
  BY DEF TypeOK
<1>4. session'[i].st = "closed" /\ session'[i].of = session[i].of
  BY <1>2, <1>3
<1>5. \A j \in Sessions : /\ session'[j].of = session[j].of
                          /\ session'[j].st # "unused" => session[j].st # "unused"
                          /\ session'[j].st = "open" => session[j].st = "open"
  BY <1>2, <1>4
<1>6. \A k \in Key : pool[k] # 0 => pool[k] \in Sessions
  BY PoolAssumption DEF TypeOK, Sessions
<1>7. Distinct' /\ Owned' /\ NoneForgotten'
  BY <1>1, <1>5 DEF KeptInv, Distinct, Owned, NoneForgotten
<1>8. Filed'
  <2>1. \A m \in Name : <<m, "own">> \in Key
    BY DEF Key, Kinds
  <2>2. QED
    BY <1>1, <1>5, <1>6, <2>1 DEF KeptInv, Filed, Leaving
<1>9. Locked'
  <2>1. \A t \in Tab : tab[t].pc = "connect" => KeyOf(t) \in Key
    BY KeyType DEF NoTab
  <2>2. \A t \in Tab : KeyOf(t)' = KeyOf(t)
    BY <1>1 DEF KeyOf
  <2>3. QED
    BY <1>1, <1>5, <1>6, <2>1, <2>2 DEF KeptInv, Locked
<1>10. QED
  BY <1>7, <1>8, <1>9 DEF KeptInv

LEMMA KeptStep ==
  ASSUME TypeOK, Named, PoolInv, KeptInv, [Next]_vars
  PROVE  KeptInv'
<1>1. ASSUME NEW p \in Profile, Disconnect(p) \/ Remove(p) PROVE KeptInv'
  <2>1. name[p] \in Name /\ Drop(name[p])
    BY <1>1 DEF Disconnect, Remove, Named
  <2>2. live' \subseteq live /\ UNCHANGED <<name, tab>> /\ ui' = ui
    BY <1>1 DEF Disconnect, Remove
  <2>3. QED
    BY <2>1, <2>2, KeptDrop
<1>2. CASE EditDrop
  <2>1. ui.old \in Name /\ Drop(ui.old) /\ Leaving(ui.old)
    BY <1>2 DEF EditDrop, TypeOK, Leaving
  <2>2. live' \subseteq live /\ UNCHANGED <<name, tab>> /\ ui' = Free
    BY <1>2 DEF EditDrop
  <2>3. QED
    BY <2>1, <2>2, KeptDrop
<1>3. CASE SetConnected \/ UNCHANGED vars
  <2>1. UNCHANGED <<name, live, pool, session, ui, tab, lock>>
    BY <1>3 DEF SetConnected, vars
  <2>2. \A t \in Tab : KeyOf(t)' = KeyOf(t)
    BY <2>1 DEF KeyOf
  <2>3. QED
    BY <2>1, <2>2 DEF KeptInv, Distinct, Owned, Filed, Leaving, Locked, NoneForgotten
<1>4. QED
  BY <1>1, <1>2, <1>3, KeptTab, KeptConnected, KeptClose, KeptEdit, KeptAdd
     DEF Next, Worker

LEMMA PoolInit ==
  ASSUME Init
  PROVE  PoolInv /\ KeptInv
<1>1. \A t \in Tab : tab[t].pc # "connect"
  BY DEF Init, NoTab
<1>2. QED
  BY <1>1 DEF Init, PoolInv, PooledIsOpen, KeptInv, Distinct, Owned, Filed,
              Locked, NoneForgotten, Key, Kinds

\* However connections are renamed, removed and connected to at one time, an
\* open session of a connection that is left can still be found and closed.
THEOREM NoSessionForgotten == Spec => []NoneForgotten
<1>1. KeptInv => NoneForgotten
  BY DEF KeptInv
<1>2. QED
  BY <1>1, TypeInit, TypeStep, PoolInit, PoolStep, KeptStep, PTL DEF Spec

-----------------------------------------------------------------------------
\* The untainted entry of a name is a session of the live connection that has
\* the name, with its details as they are, or is about to be dropped.
Fresh ==
  \A n \in Name \ tainted :
    LET i == pool[<<n, "own">>]
    IN i # 0 => \/ Leaving(n)
                \/ /\ session[i].of \in live
                   /\ name[session[i].of] = n
                   /\ session[i].version = version[session[i].of]

\* A worker that is connecting uses the details as they are, or what it is
\* going to file will be dropped, or be tainted.
Asked ==
  \A t \in Tab :
    /\ tab[t].pc = "connect" /\ tab[t].kind = "own"
    /\ ~ tab[t].renamed /\ tab[t].on \in live
    => tab[t].version = version[tab[t].on] \/ Leaving(name[tab[t].on])

\* What makes OwnIsCurrent inductive.
CurrentInv == Fresh /\ Asked

\* Nothing is claimed of the dropped name; the other entries are as before.
LEMMA CurrentDrop ==
  ASSUME TypeOK, Named, PoolInv, KeptInv, CurrentInv, NEW n \in Name, Drop(n),
         live' \subseteq live, \A q \in live : q \notin live' => name[q] = n,
         UNCHANGED <<name, tab, version>>,
         ui' = ui \/ (ui' = Free /\ Leaving(n))
  PROVE  CurrentInv'
<1>1. \A t \in Tab : tab'[t].pc # "connect"
  <2>1. lock = Nobody
    BY DropFacts
  <2>2. QED
    BY <2>1, PoolAssumption DEF KeptInv, Locked
<1>2. Asked'
  BY <1>1 DEF Asked
<1>3. Fresh'
  <2> SUFFICES ASSUME NEW m \in Name, m \notin tainted', pool'[<<m, "own">>] # 0
               PROVE  LET i == pool'[<<m, "own">>]
                      IN \/ ui' # Free /\ ui'.old = m
                         \/ /\ session'[i].of \in live'
                            /\ name[session'[i].of] = m
                            /\ session'[i].version = version[session'[i].of]
    BY DEF Fresh, Leaving
  <2> DEFINE i == pool[<<m, "own">>]
  <2>1. <<m, "own">> \in Key
    BY DEF Key, Kinds
  <2>2. m # n /\ pool'[<<m, "own">>] = i /\ i # 0
    BY <2>1, DropFacts
  <2>3. i \in Sessions
    BY <2>1, <2>2, PoolAssumption DEF TypeOK, Sessions
  <2>4. session'[i].of = session[i].of /\ session'[i].version = session[i].version
    BY <2>3, DropFacts
  <2>5. m \notin tainted
    BY <2>2 DEF Drop, NoteDrop
  <2>6. Leaving(m) => ui' = ui
    BY <2>2 DEF Leaving
  <2>7. \/ Leaving(m)
        \/ /\ session[i].of \in live /\ name[session[i].of] = m
           /\ session[i].version = version[session[i].of]
    BY <2>2, <2>5 DEF CurrentInv, Fresh
  <2>8. QED
    BY <2>2, <2>4, <2>6, <2>7 DEF Leaving
<1>4. QED
  BY <1>2, <1>3 DEF CurrentInv

\* What a worker files is current, or tainted, or on its way out.
LEMMA CurrentConnected ==
  ASSUME TypeOK, Named, PoolInv, KeptInv, CurrentInv, NEW t \in Tab, Connected(t)
  PROVE  CurrentInv'
<1>1. tab[t] \in OpenTab /\ tab[t] # NoTab
  BY TabType DEF Connected, NoTab
<1>2. KeyOf(t) \in Key /\ name[tab[t].on] \in Name
  BY <1>1, KeyType DEF Named
<1>3. PICK i \in Sessions :
        /\ Unused(i)
        /\ session' = [session EXCEPT ![i] = [st |-> "open", of |-> tab[t].on,
                                             version |-> tab[t].version]]
        /\ pool' = [pool EXCEPT ![KeyOf(t)] = i]
  BY DEF Connected
<1>4. \A k \in Key : pool'[k] = IF k = KeyOf(t) THEN i ELSE pool[k]
  BY <1>2, <1>3 DEF TypeOK
<1>5. /\ session'[i].of = tab[t].on /\ session'[i].version = tab[t].version
      /\ \A j \in Sessions : j # i => session'[j] = session[j]
  BY <1>3 DEF TypeOK
<1>6. \A k \in Key : pool[k] # 0 => pool[k] \in Sessions /\ pool[k] # i
  BY <1>3, PoolAssumption DEF TypeOK, Sessions, Unused, PoolInv, PooledIsOpen
<1>7. UNCHANGED <<name, live, ui, version>> /\ tainted \subseteq tainted'
  BY DEF Connected
<1>8. tab'[t].pc = "idle" /\ \A u \in Tab : u # t => tab'[u] = tab[u]
  BY <1>1 DEF Connected, TypeOK, OpenTab
<1>9. Asked'
  BY <1>8 DEF Asked, KeptInv, Locked, Connected
<1>10. Fresh'
  <2> SUFFICES ASSUME NEW m \in Name, m \notin tainted', pool'[<<m, "own">>] # 0
               PROVE  LET j == pool'[<<m, "own">>]
                      IN \/ Leaving(m)
                         \/ /\ session'[j].of \in live
                            /\ name[session'[j].of] = m
                            /\ session'[j].version = version[session'[j].of]
    BY <1>7 DEF Fresh, Leaving
  <2>1. <<m, "own">> \in Key
    BY DEF Key, Kinds
  <2>2. CASE <<m, "own">> = KeyOf(t)
    <3>1. tab[t].kind = "own" /\ name[tab[t].on] = m
      BY <2>2, <1>1 DEF KeyOf, OpenTab, Kinds
    <3>2. ~ tab[t].renamed /\ tab[t].on \in live
      BY <3>1 DEF Connected
    <3>3. tab[t].version = version[tab[t].on] \/ Leaving(m)
      BY <3>1, <3>2 DEF CurrentInv, Asked, Connected
    <3>4. pool'[<<m, "own">>] = i
      BY <1>4, <2>1, <2>2
    <3>5. QED
      BY <1>5, <3>1, <3>2, <3>3, <3>4
  <2>3. CASE <<m, "own">> # KeyOf(t)
    <3>1. pool'[<<m, "own">>] = pool[<<m, "own">>]
      BY <1>4, <2>1, <2>3
    <3>2. session'[pool[<<m, "own">>]] = session[pool[<<m, "own">>]]
      BY <1>5, <1>6, <2>1, <3>1
    <3>3. QED
      BY <1>7, <3>1, <3>2 DEF CurrentInv, Fresh
  <2>4. QED
    BY <2>2, <2>3
<1>11. QED
  BY <1>9, <1>10 DEF CurrentInv

\* What was current under the old name is about to be dropped.
LEMMA CurrentEdit ==
  ASSUME TypeOK, Named, KeptInv, CurrentInv, NEW p \in Profile, NEW n \in Name, Edit(p, n)
  PROVE  CurrentInv'
<1>1. /\ UNCHANGED <<live, pool, session, tainted>>
      /\ ui = Free /\ p \in live
      /\ ui' # Free /\ ui'.old = name[p]
  BY DEF Edit, Free
<1>2. \A q \in Profile : /\ name'[q] = IF q = p THEN n ELSE name[q]
                         /\ q # p => version'[q] = version[q]
  BY DEF Edit, TypeOK
<1>3. \A q \in live : q \in Profile /\ (name[q] = n => q = p)
  BY DEF Edit, Available, TypeOK
<1>4. Fresh'
  <2> SUFFICES ASSUME NEW m \in Name, m \notin tainted, pool[<<m, "own">>] # 0
               PROVE  LET i == pool[<<m, "own">>]
                      IN \/ ui'.old = m
                         \/ /\ session[i].of \in live
                            /\ name'[session[i].of] = m
                            /\ session[i].version = version'[session[i].of]
    BY <1>1 DEF Fresh, Leaving
  <2> DEFINE q == session[pool[<<m, "own">>]].of
  <2>1. /\ q \in live /\ name[q] = m
        /\ session[pool[<<m, "own">>]].version = version[q]
    BY <1>1 DEF CurrentInv, Fresh, Leaving
  <2>2. QED
    BY <1>1, <1>2, <1>3, <2>1
<1>5. Asked'
  <2> SUFFICES ASSUME NEW t \in Tab, tab'[t].pc = "connect", tab'[t].kind = "own",
                      ~ tab'[t].renamed, tab'[t].on \in live
               PROVE  \/ tab'[t].version = version'[tab'[t].on]
                      \/ ui'.old = name'[tab'[t].on]
    BY <1>1 DEF Asked, Leaving
  <2>1. tab'[t] = IF tab[t].pc = "connect" /\ tab[t].on = p /\ n # name[p]
                    THEN [tab[t] EXCEPT !.renamed = TRUE] ELSE tab[t]
    BY DEF Edit
  <2>2. tab[t] \in OpenTab
    BY <2>1, TabType DEF NoTab
  <2>3. tab'[t] = tab[t] /\ ~ (tab[t].on = p /\ n # name[p])
    BY <2>1, <2>2 DEF OpenTab
  <2>4. tab[t].version = version[tab[t].on]
    BY <1>1, <2>3 DEF CurrentInv, Asked, Leaving
  <2>5. QED
    BY <1>1, <1>2, <1>3, <2>3, <2>4
<1>6. QED
  BY <1>4, <1>5 DEF CurrentInv

\* A connection that is added has neither session nor tab.
LEMMA CurrentAdd ==
  ASSUME TypeOK, Named, KeptInv, CurrentInv, NEW p \in Profile, NEW n \in Name, Add(p, n)
  PROVE  CurrentInv'
<1>1. /\ live' = live \cup {p} /\ name[p] \notin Name
      /\ UNCHANGED <<pool, session, tainted, ui, tab, version>>
  BY PoolAssumption DEF Add
<1>2. \A q \in Profile : q # p => name'[q] = name[q]
  BY DEF Add, TypeOK
<1>3. \A q \in live : q \in Profile /\ q # p
  BY <1>1 DEF TypeOK, Named
<1>4. Fresh'
  BY <1>1, <1>2, <1>3 DEF CurrentInv, Fresh, Leaving
<1>5. \A t \in Tab : tab[t].pc = "connect" => tab[t].on # p /\ tab[t].on \in Profile
  BY <1>1, TabType DEF Named, NoTab, OpenTab
<1>6. Asked'
  BY <1>1, <1>2, <1>5 DEF CurrentInv, Asked, Leaving
<1>7. QED
  BY <1>4, <1>6 DEF CurrentInv

\* A worker that starts to connect uses the details as they are.
LEMMA CurrentTab ==
  ASSUME TypeOK, Named, KeptInv, CurrentInv, NEW t \in Tab,
         \/ \E p \in Profile, kind \in Kinds : Open(t, p, kind)
         \/ Ask(t) \/ Hit(t) \/ Miss(t) \/ ConnectFails(t)
  PROVE  CurrentInv'
<1>1. UNCHANGED <<name, version, live, pool, session, ui, tainted>>
  BY DEF Open, Ask, Hit, Miss, ConnectFails
<1>2. Fresh'
  BY <1>1 DEF CurrentInv, Fresh, Leaving
<1>3. \A u \in Tab : u # t => tab'[u] = tab[u]
  BY DEF Open, Ask, Hit, Miss, ConnectFails, TypeOK
<1>4. tab'[t].pc = "connect" /\ tab'[t].kind = "own" =>
        tab'[t].version = version[tab'[t].on]
  <2>1. CASE \E p \in Profile, kind \in Kinds : Open(t, p, kind)
    BY <2>1 DEF Open, TypeOK
  <2>2. CASE ~ \E p \in Profile, kind \in Kinds : Open(t, p, kind)
    <3>1. tab[t] \in OpenTab
      BY <2>2, TabType DEF Ask, Hit, Miss, ConnectFails, NoTab
    <3>2. CASE Miss(t)
      <4> DEFINE v == IF tab[t].kind = "own" THEN version[tab[t].on]
                                            ELSE tab[t].version
      <4> DEFINE r == [tab[t] EXCEPT !.pc = "connect", !.renamed = FALSE,
                                     !.version = v]
      <4>a. tab' = [tab EXCEPT ![t] = r]
        BY <3>2, Zenon DEF Miss
      <4>1. tab'[t] = r
        <5> HIDE DEF r
        <5> QED
          BY <4>a DEF TypeOK
      <4>2. /\ tab'[t].version = v /\ tab'[t].kind = tab[t].kind
            /\ tab'[t].on = tab[t].on
        BY <3>1, <4>1 DEF OpenTab
      <4>3. QED
        BY <4>2
    <3>3. CASE Ask(t) \/ Hit(t) \/ ConnectFails(t)
      <4>1. \E s \in {"ask", "idle"} : tab'[t] = [tab[t] EXCEPT !.pc = s]
        BY <3>3 DEF Ask, Hit, ConnectFails, TypeOK
      <4>2. QED
        BY <3>1, <4>1 DEF OpenTab
    <3>4. QED
      BY <2>2, <3>2, <3>3
  <2>3. QED
    BY <2>1, <2>2
<1>5. Asked'
  BY <1>1, <1>3, <1>4 DEF CurrentInv, Asked, Leaving
<1>6. QED
  BY <1>2, <1>5 DEF CurrentInv

\* A session keeps its connection and its details while it is closed.
LEMMA CurrentClose ==
  ASSUME TypeOK, CurrentInv, NEW i \in Sessions, Close(i)
  PROVE  CurrentInv'
<1>1. UNCHANGED <<name, version, live, pool, ui, tab, tainted>>
  BY DEF Close
<1>2. \A j \in Sessions : /\ session'[j].of = session[j].of
                          /\ session'[j].version = session[j].version
  BY DEF Close, TypeOK
<1>3. \A m \in Name : /\ <<m, "own">> \in Key
                      /\ pool[<<m, "own">>] # 0 => pool[<<m, "own">>] \in Sessions
  BY PoolAssumption DEF TypeOK, Sessions, Key, Kinds
<1>4. QED
  BY <1>1, <1>2, <1>3 DEF CurrentInv, Fresh, Asked, Leaving

LEMMA CurrentStep ==
  ASSUME TypeOK, Named, PoolInv, KeptInv, CurrentInv, [Next]_vars
  PROVE  CurrentInv'
<1>1. ASSUME NEW p \in Profile, Disconnect(p) \/ Remove(p) PROVE CurrentInv'
  <2>1. name[p] \in Name /\ Drop(name[p])
    BY <1>1 DEF Disconnect, Remove, Named
  <2>2. /\ live' \subseteq live /\ UNCHANGED <<name, tab, version>> /\ ui' = ui
        /\ \A q \in live : q \notin live' => q = p
    BY <1>1 DEF Disconnect, Remove
  <2>3. QED
    BY <2>1, <2>2, CurrentDrop
<1>2. CASE EditDrop
  <2>1. ui.old \in Name /\ Drop(ui.old) /\ Leaving(ui.old)
    BY <1>2 DEF EditDrop, TypeOK, Leaving
  <2>2. live' = live /\ UNCHANGED <<name, tab, version>> /\ ui' = Free
    BY <1>2 DEF EditDrop
  <2>3. QED
    BY <2>1, <2>2, CurrentDrop
<1>3. CASE SetConnected \/ UNCHANGED vars
  BY <1>3 DEF SetConnected, vars, CurrentInv, Fresh, Asked, Leaving
<1>4. QED
  BY <1>1, <1>2, <1>3, CurrentTab, CurrentConnected, CurrentClose, CurrentEdit, CurrentAdd
     DEF Next, Worker

\* What a tab on the connection itself is handed is a session of that
\* connection with the details it has now, whoever edits, renames, removes or
\* connects meanwhile, unless the entry was stored by a worker whose profile
\* was renamed or removed under it.
THEOREM HandedCurrent == Spec => []OwnIsCurrent
<1>1. Init => CurrentInv
  BY DEF Init, CurrentInv, Fresh, Asked, NoTab, Key, Kinds
<1>2. Named /\ KeptInv /\ CurrentInv => OwnIsCurrent
  BY DEF Named, KeptInv, Distinct, CurrentInv, Fresh, Leaving, OwnIsCurrent, Current
<1>3. QED
  BY <1>1, <1>2, TypeInit, TypeStep, PoolInit, PoolStep, KeptStep, CurrentStep,
     PTL DEF Spec

-----------------------------------------------------------------------------
\* set_connected(n, True) is on its way to the main loop.
Coming(n) == \E j \in DOMAIN posted : posted[j] = n

\* What makes DotIsTrue inductive: the news of a connected name is on its way
\* or has been handled, and there is no such news of any other.
DotInv ==
  \A n \in Name \ (tainted \cup crossed) :
    /\ Coming(n) => pool[<<n, "own">>] # 0
    /\ pool[<<n, "own">>] # 0 => dot[n] \/ Coming(n)
    /\ dot[n] => pool[<<n, "own">>] # 0

\* Posting news of m adds m to what is coming, ...
LEMMA ComingAppend ==
  ASSUME TypeOK, NEW m \in Name, posted' = Append(posted, m), NEW n \in Name
  PROVE  Coming(n)' <=> Coming(n) \/ n = m
<1>1. /\ posted \in Seq(Name) /\ Len(posted) \in Nat
      /\ DOMAIN posted = 1 .. Len(posted)
  BY DEF TypeOK
<1>2. /\ DOMAIN posted' = 1 .. Len(posted) + 1
      /\ posted'[Len(posted) + 1] = m
      /\ \A j \in 1 .. Len(posted) : posted'[j] = posted[j]
  BY <1>1
<1>3. Len(posted) + 1 \in 1 .. Len(posted) + 1
  BY <1>1
<1>4. \A j \in 1 .. Len(posted) + 1 : j = Len(posted) + 1 \/ j \in 1 .. Len(posted)
  BY <1>1
<1>5. \A j \in 1 .. Len(posted) : j \in 1 .. Len(posted) + 1
  BY <1>1
<1>6. QED
  BY <1>1, <1>2, <1>3, <1>4, <1>5 DEF Coming

\* ... and handling the first takes at most that name away.
LEMMA ComingTail ==
  ASSUME TypeOK, posted # <<>>, posted' = Tail(posted), NEW n \in Name
  PROVE  Coming(n) <=> Coming(n)' \/ n = Head(posted)
<1>1. /\ posted \in Seq(Name) /\ Len(posted) \in Nat \ {0}
      /\ DOMAIN posted = 1 .. Len(posted) /\ Head(posted) = posted[1]
  BY DEF TypeOK
<1>2. /\ DOMAIN posted' = 1 .. Len(posted) - 1
      /\ \A j \in 1 .. Len(posted) - 1 : posted'[j] = posted[j + 1]
  BY <1>1
<1>3. \A j \in 1 .. Len(posted) : j = 1 \/ (j - 1 \in 1 .. Len(posted) - 1 /\ j = (j - 1) + 1)
  BY <1>1
<1>4. \A j \in 1 .. Len(posted) - 1 : j + 1 \in 1 .. Len(posted)
  BY <1>1
<1>5. 1 \in 1 .. Len(posted)
  BY <1>1
<1>6. ASSUME Coming(n) PROVE Coming(n)' \/ n = Head(posted)
  <2>1. PICK j \in 1 .. Len(posted) : posted[j] = n
    BY <1>1, <1>6 DEF Coming
  <2>2. CASE j = 1
    BY <1>1, <2>1, <2>2
  <2>3. CASE j # 1
    <3>1. j - 1 \in DOMAIN posted' /\ posted'[j - 1] = n
      BY <1>2, <1>3, <2>1, <2>3
    <3>2. QED
      BY <3>1 DEF Coming
  <2>4. QED
    BY <2>2, <2>3
<1>7. ASSUME Coming(n)' PROVE Coming(n)
  <2>1. PICK j \in 1 .. Len(posted) - 1 : posted'[j] = n
    BY <1>2, <1>7 DEF Coming
  <2>2. j + 1 \in DOMAIN posted /\ posted[j + 1] = n
    BY <1>1, <1>2, <1>4, <2>1
  <2>3. QED
    BY <2>2 DEF Coming
<1>8. n = Head(posted) => Coming(n)
  BY <1>1, <1>5 DEF Coming
<1>9. QED
  BY <1>6, <1>7, <1>8

\* After a drop the dot is off, and news still coming is remembered.
LEMMA DotDrop ==
  ASSUME TypeOK, PoolInv, DotInv, NEW n \in Name, Drop(n), posted' = posted
  PROVE  DotInv'
<1> SUFFICES ASSUME NEW m \in Name, m \notin tainted', m \notin crossed'
             PROVE  /\ Coming(m) => pool'[<<m, "own">>] # 0
                    /\ pool'[<<m, "own">>] # 0 => dot'[m] \/ Coming(m)
                    /\ dot'[m] => pool'[<<m, "own">>] # 0
  BY DEF DotInv, Coming
<1>1. <<m, "own">> \in Key
  BY DEF Key, Kinds
<1>2. CASE m = n
  <2>1. ~ Coming(m)
    BY <1>2 DEF Drop, NoteDrop, Coming
  <2>2. pool'[<<m, "own">>] = 0
    BY <1>1, <1>2, DropFacts
  <2>3. dot'[m] = FALSE
    BY <1>2 DEF Drop, TypeOK
  <2>4. QED
    BY <2>1, <2>2, <2>3
<1>3. CASE m # n
  <2>1. m \notin tainted /\ m \notin crossed
    BY <1>3 DEF Drop, NoteDrop
  <2>2. pool'[<<m, "own">>] = pool[<<m, "own">>]
    BY <1>1, <1>3, DropFacts
  <2>3. dot'[m] = dot[m]
    BY <1>3 DEF Drop, TypeOK
  <2>4. QED
    BY <2>1, <2>2, <2>3 DEF DotInv
<1>4. QED
  BY <1>2, <1>3

\* A connected session is pooled and its news posted in one step.
LEMMA DotConnected ==
  ASSUME TypeOK, Named, DotInv, NEW t \in Tab, Connected(t)
  PROVE  DotInv'
<1>1. tab[t] \in OpenTab /\ tab[t] # NoTab
  BY TabType DEF Connected, NoTab
<1>2. KeyOf(t) \in Key /\ name[tab[t].on] \in Name
  BY <1>1, KeyType DEF Named
<1>3. PICK i \in Sessions : pool' = [pool EXCEPT ![KeyOf(t)] = i]
  BY DEF Connected
<1>4. i # 0 /\ \A k \in Key : pool'[k] = IF k = KeyOf(t) THEN i ELSE pool[k]
  BY <1>2, <1>3, PoolAssumption DEF TypeOK, Sessions
<1>5. UNCHANGED <<dot, crossed>> /\ tainted \subseteq tainted'
  BY DEF Connected
<1> SUFFICES ASSUME NEW m \in Name, m \notin tainted', m \notin crossed
             PROVE  /\ Coming(m)' => pool'[<<m, "own">>] # 0
                    /\ pool'[<<m, "own">>] # 0 => dot[m] \/ Coming(m)'
                    /\ dot[m] => pool'[<<m, "own">>] # 0
  BY <1>5 DEF DotInv
<1>6. /\ <<m, "own">> \in Key
      /\ m \notin tainted
  BY <1>5 DEF Key, Kinds
<1>7. CASE tab[t].kind = "own"
  <2>1. posted' = Append(posted, name[tab[t].on])
    BY <1>7 DEF Connected
  <2>2. Coming(m)' <=> Coming(m) \/ m = name[tab[t].on]
    BY <1>2, <2>1, ComingAppend
  <2>3. <<m, "own">> = KeyOf(t) <=> m = name[tab[t].on]
    BY <1>7 DEF KeyOf
  <2>4. QED
    BY <1>4, <1>6, <2>2, <2>3 DEF DotInv
<1>8. CASE tab[t].kind # "own"
  <2>1. posted' = posted
    BY <1>8 DEF Connected
  <2>2. Coming(m)' <=> Coming(m)
    BY <2>1 DEF Coming
  <2>3. <<m, "own">> # KeyOf(t)
    BY <1>8 DEF KeyOf
  <2>4. QED
    BY <1>4, <1>6, <2>2, <2>3 DEF DotInv
<1>9. QED
  BY <1>7, <1>8

\* The news of a pooled session finds its row: somebody live has the name.
LEMMA DotHandled ==
  ASSUME TypeOK, CurrentInv, DotInv, SetConnected
  PROVE  DotInv'
<1>1. /\ UNCHANGED <<pool, tainted, crossed>> /\ ui = Free
      /\ posted # <<>> /\ posted' = Tail(posted) /\ Head(posted) \in Name
      /\ dot' = [dot EXCEPT ![Head(posted)] = \E p \in live : name[p] = Head(posted)]
  BY DEF SetConnected, TypeOK
<1> SUFFICES ASSUME NEW m \in Name, m \notin tainted, m \notin crossed
             PROVE  /\ Coming(m)' => pool[<<m, "own">>] # 0
                    /\ pool[<<m, "own">>] # 0 => dot'[m] \/ Coming(m)'
                    /\ dot'[m] => pool[<<m, "own">>] # 0
  BY <1>1 DEF DotInv
<1>2. Coming(m) <=> Coming(m)' \/ m = Head(posted)
  BY <1>1, ComingTail
<1>3. CASE m = Head(posted)
  <2>1. pool[<<m, "own">>] # 0
    BY <1>2, <1>3 DEF DotInv
  <2>2. \E p \in live : name[p] = m
    BY <1>1, <2>1 DEF CurrentInv, Fresh, Leaving
  <2>3. dot'[m] = TRUE
    BY <1>1, <1>3, <2>2 DEF TypeOK
  <2>4. QED
    BY <2>1, <2>3
<1>4. CASE m # Head(posted)
  <2>1. dot'[m] = dot[m]
    BY <1>1, <1>4 DEF TypeOK
  <2>2. QED
    BY <1>2, <1>4, <2>1 DEF DotInv
<1>5. QED
  BY <1>3, <1>4

LEMMA DotStep ==
  ASSUME TypeOK, Named, PoolInv, CurrentInv, DotInv, [Next]_vars
  PROVE  DotInv'
<1>1. ASSUME UNCHANGED <<pool, posted, dot, tainted, crossed>> PROVE DotInv'
  BY <1>1 DEF DotInv, Coming
<1>2. ASSUME NEW p \in Profile, Disconnect(p) \/ Remove(p) PROVE DotInv'
  <2>1. name[p] \in Name /\ Drop(name[p]) /\ posted' = posted
    BY <1>2 DEF Disconnect, Remove, Named
  <2>2. QED
    BY <2>1, DotDrop
<1>3. CASE EditDrop
  <2>1. ui.old \in Name /\ Drop(ui.old) /\ posted' = posted
    BY <1>3 DEF EditDrop, TypeOK
  <2>2. QED
    BY <2>1, DotDrop
<1>4. QED
  BY <1>1, <1>2, <1>3, DotConnected, DotHandled
     DEF Next, vars, Open, Ask, Worker, Hit, Miss, ConnectFails, Close, Edit, Add

\* When the main loop has handled what was posted, the dot of a connection
\* tells whether it is connected, however often it was dropped and connected
\* again, unless it was dropped with the news of its connecting on its way.
THEOREM DotTells == Spec => []DotIsTrue
<1>1. Init => CurrentInv /\ DotInv
  BY DEF Init, CurrentInv, Fresh, Asked, NoTab, Key, Kinds, DotInv, Coming
<1>2. Named /\ DotInv => DotIsTrue
  <2> SUFFICES ASSUME Named, DotInv, posted = <<>>, NEW p \in live,
                      name[p] \notin tainted \cup crossed
               PROVE  dot[name[p]] <=> pool[<<name[p], "own">>] # 0
    BY DEF DotIsTrue
  <2>1. ~ Coming(name[p])
    BY DEF Coming
  <2>2. QED
    BY <2>1 DEF Named, DotInv
<1>3. QED
  BY <1>1, <1>2, TypeInit, TypeStep, PoolInit, PoolStep, KeptStep, CurrentStep,
     DotStep, PTL DEF Spec
=============================================================================
