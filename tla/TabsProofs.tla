----------------------------- MODULE TabsProofs -----------------------------
(* Theorems about the tabs that keep a connector at work, the monitor       *)
(* (MonitorTab, here M) and a dashboard (DashboardTab, here B), and about   *)
(* the table designer (TableDesigner, here D): of each alone, for counters, *)
(* cells, sweeps, edits, rows and plans of any number, and of the           *)
(* specification MCSessions runs.                                           *)
EXTENDS MCSessions, Integers, FiniteSetTheorems, SequenceTheorems,
        WellFoundedInduction, TLAPS

-----------------------------------------------------------------------------
(* The monitor.                                                            *)

\* Counters are numbers; what a job brings is one.
Counts ==
  /\ server = [count |-> server.count, restarts |-> server.restarts]
  /\ server.count \in Nat /\ server.restarts \in Nat
  /\ previous # M!None => previous \in Nat
  /\ \A j \in samples :
       /\ j.by \in {"open", "refresh"} /\ j.step \in {"asked", "sampled", "failed"}
       /\ j.step = "sampled" => j.count \in Nat
  /\ {sampling, overlap, restarted} \subseteq BOOLEAN

\* The opening leaves one sample behind, in its last step, and a refresh runs
\* alone; unless one was asked for while the tab opened, it runs after.
OneSample ==
  /\ \A j, k \in samples : j.by = k.by => j = k
  /\ \A j \in samples : j.by = "refresh" =>
       sampling /\ (~ overlap => opening = "done" /\ \A k \in samples : k.by = "refresh")
  /\ \A j \in samples : j.by = "open" =>
       /\ opening \in {"sample", "done"}
       /\ opening = "sample" => j.step = "asked"
       /\ opening = "done" => j.step # "asked"

\* Until the server restarts its counter only grows, and so do the samples
\* in the order they are drawn.
Growing ==
  server.restarts = 0 =>
    /\ previous # M!None => previous <= server.count
    /\ \A j \in samples : j.step = "sampled" =>
         /\ j.count <= server.count
         /\ ~ overlap /\ previous # M!None => previous <= j.count
    /\ restarted => overlap

MonitorInv == Counts /\ OneSample /\ Growing

LEMMA MonitorInit ==
  ASSUME M!Init
  PROVE  MonitorInv
BY DEF M!Init, MonitorInv, Counts, OneSample, Growing

\* What a refresh asks for, or nothing.
LEMMA Asking ==
  ASSUME MonitorInv, M!RefreshNow,
         UNCHANGED <<opening, server, previous, restarted>>
  PROVE  MonitorInv'
<1> DEFINE new == [by |-> "refresh", step |-> "asked"]
<1>1. CASE UNCHANGED <<sampling, samples, overlap>>
  BY <1>1 DEF MonitorInv, Counts, OneSample, Growing
<1>2. CASE /\ ~ sampling /\ sampling' = TRUE /\ samples' = samples \cup {new}
           /\ overlap' = (overlap \/ opening # "done" \/ \E j \in samples : j.by = "open")
  <2>1. new.by = "refresh" /\ new.step = "asked"
    OBVIOUS
  <2>2. \A j \in samples : j.by = "open"
    BY <1>2 DEF MonitorInv, Counts, OneSample
  <2>3. \A j \in samples' : j \in samples \/ j = new
    BY <1>2
  <2>4. overlap => overlap'
    BY <1>2
  <2>5. Counts'
    BY <1>2, <2>1, <2>3 DEF MonitorInv, Counts
  <2>6. OneSample'
    BY <1>2, <2>1, <2>2, <2>3, <2>4 DEF MonitorInv, OneSample
  <2>7. Growing'
    BY <2>1, <2>3, <2>4 DEF MonitorInv, Growing
  <2>8. QED
    BY <2>5, <2>6, <2>7 DEF MonitorInv
<1>3. QED
  BY <1>1, <1>2 DEF M!RefreshNow

\* A job leaves, its count drawn or not.
LEMMA Leaving ==
  ASSUME MonitorInv, NEW j \in samples, samples' = samples \ {j},
         sampling' = sampling \/ j.by = "refresh", sampling' \in BOOLEAN,
         UNCHANGED <<opening, server, overlap>>,
         \/ UNCHANGED <<previous, restarted>>
         \/ j.step = "sampled" /\ M!Add(j.count)
  PROVE  MonitorInv'
<1>1. Counts'
  BY DEF MonitorInv, Counts, M!Add
<1>2. OneSample'
  BY DEF MonitorInv, OneSample
<1>3. Growing'
  <2>1. CASE UNCHANGED <<previous, restarted>>
    BY <2>1 DEF MonitorInv, Growing
  <2>2. CASE j.step = "sampled" /\ M!Add(j.count)
    <3>1. ~ overlap => samples' = {}
      BY DEF MonitorInv, OneSample, Counts
    <3>2. QED
      BY <2>2, <3>1 DEF MonitorInv, Growing, M!Add, Counts
  <2>3. QED
    BY <2>1, <2>2
<1>4. QED
  BY <1>1, <1>2, <1>3 DEF MonitorInv

\* A job gets on: its sample was taken, or refused.
LEMMA GettingOn ==
  ASSUME MonitorInv, NEW j \in samples, NEW k,
         j.step = "asked", samples' = (samples \ {j}) \cup {k},
         \/ k = [by |-> j.by, step |-> "sampled", count |-> server.count]
         \/ k = [by |-> j.by, step |-> "failed"],
         opening' = IF j.by = "open" THEN "done" ELSE opening,
         UNCHANGED <<server, sampling, overlap, previous, restarted>>
  PROVE  MonitorInv'
<1>1. k.by = j.by /\ k.step \in {"sampled", "failed"} /\ (k.step = "sampled" => k.count = server.count)
  OBVIOUS
<1>2. \A i \in samples' : i = k \/ (i \in samples /\ i # j /\ i.by # j.by)
  BY DEF MonitorInv, OneSample
<1>3. Counts'
  BY <1>1, <1>2 DEF MonitorInv, Counts
<1>4. OneSample'
  BY <1>1, <1>2 DEF MonitorInv, OneSample, Counts
<1>5. Growing'
  BY <1>1, <1>2 DEF MonitorInv, Growing, Counts
<1>6. QED
  BY <1>3, <1>4, <1>5 DEF MonitorInv

LEMMA MonitorStep ==
  ASSUME MonitorInv, [M!Next]_(M!vars)
  PROVE  MonitorInv'
<1>1. CASE M!Connect
  <2>1. CASE UNCHANGED samples
    BY <1>1, <2>1 DEF M!Connect, MonitorInv, Counts, OneSample, Growing
  <2>2. CASE samples' = samples \cup {[by |-> "open", step |-> "failed"]} /\ opening' = "done"
    <3>1. /\ \A j \in samples : j.by = "refresh"
          /\ UNCHANGED <<sampling, server, previous, restarted, overlap>>
      BY <1>1 DEF M!Connect, MonitorInv, OneSample, Counts
    <3>2. ~ overlap => samples = {}
      BY <1>1, <3>1 DEF M!Connect, MonitorInv, OneSample
    <3>3. QED
      BY <2>2, <3>1, <3>2 DEF MonitorInv, Counts, OneSample, Growing
  <2>3. QED
    BY <1>1, <2>1, <2>2 DEF M!Connect
<1>2. CASE M!Probe
  <2>1. /\ \A j \in samples : j.by = "refresh"
        /\ UNCHANGED <<sampling, server, previous, restarted, overlap>>
        /\ opening' = "sample" /\ samples' = samples \cup {[by |-> "open", step |-> "asked"]}
    BY <1>2 DEF M!Probe, MonitorInv, OneSample, Counts
  <2>2. ~ overlap => samples = {}
    BY <1>2, <2>1 DEF M!Probe, MonitorInv, OneSample
  <2>3. QED
    BY <2>1, <2>2 DEF MonitorInv, Counts, OneSample, Growing
<1>3. CASE M!StorageTold \/ M!CloseSession \/ M!StorageTick \/ M!IntervalChanged \/ M!Shutdown
  BY <1>3 DEF M!StorageTold, M!CloseSession, M!StorageTick, M!IntervalChanged, M!Shutdown,
              MonitorInv, Counts, OneSample, Growing
<1>4. ASSUME NEW j \in M!Job, M!Sample(j) PROVE MonitorInv'
  <2>1. CASE samples' = (samples \ {j}) \cup {[by |-> j.by, step |-> "sampled", count |-> server.count]}
    BY <1>4, <2>1, GettingOn DEF M!Sample
  <2>2. CASE samples' = (samples \ {j}) \cup {[by |-> j.by, step |-> "failed"]}
    BY <1>4, <2>2, GettingOn DEF M!Sample
  <2>3. QED
    BY <1>4, <2>1, <2>2 DEF M!Sample
<1>5. ASSUME NEW j \in M!Job, M!Opened(j) \/ M!OpenFailed(j) \/ M!Refreshed(j) \/ M!RefreshFailed(j)
      PROVE  MonitorInv'
  BY <1>5, Leaving DEF M!Opened, M!OpenFailed, M!Refreshed, M!RefreshFailed, MonitorInv, Counts
<1>6. CASE M!LiveTick \/ M!Refresh
  BY <1>6, Asking DEF M!LiveTick, M!Refresh
<1>7. CASE M!TogglePause
  BY <1>7, Asking DEF M!TogglePause, MonitorInv, Counts, OneSample, Growing
<1>8. CASE M!ServerWorks \/ M!ServerRestarts
  BY <1>8 DEF M!ServerWorks, M!ServerRestarts, MonitorInv, Counts, OneSample, Growing
<1>9. CASE UNCHANGED M!vars
  BY <1>9 DEF M!vars, MonitorInv, Counts, OneSample, Growing
<1>10. QED
  BY <1>1, <1>2, <1>3, <1>4, <1>5, <1>6, <1>7, <1>8, <1>9 DEF M!Next

-----------------------------------------------------------------------------

\* The lines start again only after the server's counters did, whichever
\* refreshes, pauses and failures came before, when no sample was asked for
\* while the tab was opening.
THEOREM RestartsAreReal == M!Spec => []M!NoFalseRestart
<1>1. MonitorInv => M!NoFalseRestart
  BY DEF MonitorInv, Growing, Counts, M!NoFalseRestart
<1>2. QED
  BY <1>1, MonitorInit, MonitorStep, PTL DEF M!Spec

\* No timer runs in a paused or closed tab, or after a failed refresh.
THEOREM NobodySamples == M!Spec => []M!NobodyLooksNobodyPolls
<1>1. M!Init => M!NobodyLooksNobodyPolls
  BY DEF M!Init, M!NobodyLooksNobodyPolls
<1>2. M!NobodyLooksNobodyPolls /\ [M!Next]_(M!vars) => M!NobodyLooksNobodyPolls'
  <2> USE DEF M!NobodyLooksNobodyPolls
  <2>1. ASSUME M!NobodyLooksNobodyPolls, NEW j \in M!Job,
               M!Sample(j) \/ M!Opened(j) \/ M!OpenFailed(j) \/ M!Refreshed(j) \/ M!RefreshFailed(j)
        PROVE  M!NobodyLooksNobodyPolls'
    BY <2>1 DEF M!Sample, M!Opened, M!OpenFailed, M!Refreshed, M!RefreshFailed, M!StartTimers, M!StopTimers
  <2>2. ASSUME M!NobodyLooksNobodyPolls,
               M!Connect \/ M!Probe \/ M!StorageTold \/ M!CloseSession \/ M!LiveTick \/ M!StorageTick
                 \/ M!ServerWorks \/ M!ServerRestarts \/ UNCHANGED M!vars
        PROVE  M!NobodyLooksNobodyPolls'
    BY <2>2 DEF M!Connect, M!Probe, M!StorageTold, M!CloseSession, M!LiveTick, M!StorageTick,
                M!ServerWorks, M!ServerRestarts, M!vars
  <2>3. ASSUME M!NobodyLooksNobodyPolls,
               M!Refresh \/ M!TogglePause \/ M!IntervalChanged \/ M!Shutdown
        PROVE  M!NobodyLooksNobodyPolls'
    BY <2>3 DEF M!Refresh, M!TogglePause, M!IntervalChanged, M!Shutdown, M!StartTimers, M!StopTimers
  <2>4. QED
    BY <2>1, <2>2, <2>3 DEF M!Next
<1>3. QED
  BY <1>1, <1>2, PTL DEF M!Spec

-----------------------------------------------------------------------------
(* The dashboard.                                                          *)

Own(c) == [query |-> c.query, text |-> c.text]

\* A card is a cell's query, the SQL it is bound to, and what it shows.
BoardShapes ==
  /\ card = [i \in DOMAIN card |-> card[i]]
  /\ \A i \in DOMAIN card :
       card[i] = [query |-> card[i].query, text |-> card[i].text, shown |-> card[i].shown]
  /\ sweep = [todo |-> sweep.todo, told |-> sweep.told]
  /\ {currentSweep, running, closed} \subseteq BOOLEAN

\* A sweep is there while it is running; what is left of one of the current
\* generation is what the cards are bound to; a card that says it is
\* refreshing is in it.
SweepInv ==
  /\ ~ running => sweep = B!NoSweep
  /\ conn \in {"opening", "ready"} => sweep = B!NoSweep
  /\ currentSweep => \A r \in sweep.todo \cup sweep.told :
                  r.at \in DOMAIN card /\ r.sql = Own(card[r.at])
  /\ \A i \in DOMAIN card : card[i].shown = B!Refreshing => currentSweep \/ closed

CardsInv == BoardShapes /\ SweepInv /\ B!DrawnIsOwn /\ B!RefreshingEnds

LEMMA CardsInit ==
  ASSUME B!Init
  PROVE  CardsInv
BY DEF B!Init, CardsInv, BoardShapes, SweepInv, B!DrawnIsOwn, B!RefreshingEnds, B!NoSweep, B!Nothing,
       B!Refreshing

\* The cards of a cell list say nothing that a sweep has to take back.
LEMMA Fresh ==
  ASSUME NEW cells, NEW i \in DOMAIN B!Bound(cells)
  PROVE  /\ B!Bound(cells) = [k \in DOMAIN B!Bound(cells) |-> B!Bound(cells)[k]]
         /\ B!Bound(cells)[i] = [query |-> B!Bound(cells)[i].query, text |-> B!Bound(cells)[i].text,
                               shown |-> B!Bound(cells)[i].shown]
         /\ B!Bound(cells)[i].shown.kind # "drawn"
         /\ B!Bound(cells)[i].shown # B!Refreshing
BY DEF B!Bound, B!Nothing, B!Problem, B!Refreshing

\* New cards, and no sweep for them.
LEMMA Rebuilt ==
  ASSUME CardsInv, NEW cells, card' = B!Bound(cells),
         currentSweep' = FALSE \/ (currentSweep' = TRUE /\ sweep = B!NoSweep), closed = FALSE,
         UNCHANGED <<sweep, running, closed, conn>>
  PROVE  CardsInv'
<1>1. card' = [i \in DOMAIN card' |-> card'[i]]
  BY DEF B!Bound
<1>2. \A i \in DOMAIN card' :
        /\ card'[i] = [query |-> card'[i].query, text |-> card'[i].text,
                       shown |-> card'[i].shown]
        /\ card'[i].shown.kind # "drawn" /\ card'[i].shown # B!Refreshing
  BY Fresh
<1>3. BoardShapes'
  BY <1>1, <1>2 DEF CardsInv, BoardShapes
<1>4. SweepInv'
  BY <1>2 DEF CardsInv, SweepInv, B!NoSweep
<1>5. QED
  BY <1>2, <1>3, <1>4 DEF CardsInv, B!DrawnIsOwn, B!RefreshingEnds

\* A sweep over the cards, shown in those it runs.
LEMMA Swept ==
  ASSUME BoardShapes, NEW cards, NEW only \in SUBSET DOMAIN cards,
         cards = [i \in DOMAIN cards |-> cards[i]],
         \A i \in DOMAIN cards :
           cards[i] = [query |-> cards[i].query, text |-> cards[i].text,
                       shown |-> cards[i].shown],
         \A i \in DOMAIN cards :
           /\ cards[i].shown # B!Refreshing
           /\ cards[i].shown.kind = "drawn" => cards[i].shown.sql = Own(cards[i]),
         card' = B!Marked(cards, only), sweep' = [todo |-> B!Plan(cards, only), told |-> {}],
         running' = (B!Plan(cards, only) # {}), currentSweep' = TRUE, closed = FALSE,
         closed' = closed, conn' \notin {"opening", "ready"}
  PROVE  CardsInv'
<1>1. \A i \in DOMAIN cards :
        /\ card'[i] = [query |-> card'[i].query, text |-> card'[i].text,
                       shown |-> card'[i].shown]
        /\ card'[i].query = cards[i].query /\ card'[i].text = cards[i].text
        /\ \/ card'[i].shown = cards[i].shown
           \/ i \in only /\ card'[i].shown = B!Problem
           \/ i \in only /\ cards[i].text # B!Gone /\ card'[i].shown = B!Refreshing
  BY DEF B!Marked
<1>2. DOMAIN card' = DOMAIN cards /\ card' = [i \in DOMAIN card' |-> card'[i]]
  BY DEF B!Marked
<1>3. B!Problem.kind # "drawn" /\ B!Refreshing.kind # "drawn" /\ B!Problem # B!Refreshing
  BY DEF B!Problem, B!Refreshing
<1>4. \A r \in B!Plan(cards, only) : r.at \in only /\ r.sql = Own(cards[r.at])
  BY DEF B!Plan, Own
<1>5. \A i \in only : cards[i].text # B!Gone => \E r \in B!Plan(cards, only) : r.at = i
  <2>1. SUFFICES ASSUME NEW i \in only, cards[i].text # B!Gone
                 PROVE  \E r \in B!Plan(cards, only) : r.at = i
    OBVIOUS
  <2>2. [at |-> i, sql |-> [query |-> cards[i].query, text |-> cards[i].text]]
          \in B!Plan(cards, only)
    BY <2>1 DEF B!Plan
  <2>3. QED
    BY <2>2
<1>6. BoardShapes'
  BY <1>1, <1>2 DEF BoardShapes
<1>7. SweepInv'
  <2>1. sweep'.todo = B!Plan(cards, only) /\ sweep'.told = {}
    OBVIOUS
  <2>2. ~ running' => sweep' = B!NoSweep
    BY DEF B!NoSweep
  <2>3. \A r \in sweep'.todo \cup sweep'.told :
          r.at \in DOMAIN card' /\ r.sql = Own(card'[r.at])
    <3>1. SUFFICES ASSUME NEW r \in B!Plan(cards, only)
                   PROVE  r.at \in DOMAIN card' /\ r.sql = Own(card'[r.at])
      BY <2>1
    <3>2. r.at \in DOMAIN cards /\ r.sql = Own(cards[r.at])
      BY <1>4
    <3>3. Own(card'[r.at]) = Own(cards[r.at])
      <4>1. card'[r.at].query = cards[r.at].query /\ card'[r.at].text = cards[r.at].text
        BY <1>1, <3>2
      <4>2. QED
        BY <4>1 DEF Own
    <3>4. QED
      BY <1>2, <3>2, <3>3
  <2>4. conn' \notin {"opening", "ready"} /\ currentSweep'
    OBVIOUS
  <2>5. QED
    BY <2>2, <2>3, <2>4 DEF SweepInv, B!NoSweep, Own
<1>8. B!DrawnIsOwn'
  BY <1>1, <1>2, <1>3 DEF B!DrawnIsOwn, Own
<1>9. B!RefreshingEnds'
  <2>1. sweep'.todo = B!Plan(cards, only) /\ sweep'.told = {}
    OBVIOUS
  <2>2. \A i \in DOMAIN card' : card'[i].shown = B!Refreshing =>
          \E r \in B!Plan(cards, only) : r.at = i
    BY <1>1, <1>2, <1>3, <1>5
  <2>3. QED
    BY <2>1, <2>2 DEF B!RefreshingEnds
<1>10. QED
  BY <1>6, <1>7, <1>8, <1>9 DEF CardsInv

\* The cards and the sweep stay, and nothing opens again.
LEMMA Untouched ==
  ASSUME CardsInv, UNCHANGED <<card, sweep>>,
         currentSweep' \in BOOLEAN, running' \in BOOLEAN, closed' \in BOOLEAN,
         closed => closed',
         ~ running' => sweep = B!NoSweep,
         currentSweep' = currentSweep \/ (currentSweep' = TRUE /\ sweep = B!NoSweep),
         conn' \in {"opening", "ready"} => conn \in {"opening", "ready"}
  PROVE  CardsInv'
<1>1. BoardShapes'
  BY DEF CardsInv, BoardShapes
<1>2. SweepInv'
  <2>1. /\ ~ running' => sweep' = B!NoSweep'
        /\ conn' \in {"opening", "ready"} => sweep' = B!NoSweep'
    BY DEF CardsInv, SweepInv, B!NoSweep
  <2>2. currentSweep' => \A r \in sweep'.todo \cup sweep'.told :
          r.at \in DOMAIN card' /\ r.sql = Own(card'[r.at])
    <3>1. CASE currentSweep' = currentSweep
      BY <3>1 DEF CardsInv, SweepInv
    <3>2. CASE sweep = B!NoSweep
      <4>1. sweep'.todo = {} /\ sweep'.told = {}
        BY <3>2 DEF B!NoSweep
      <4>2. QED
        BY <4>1
    <3>3. QED
      BY <3>1, <3>2
  <2>3. \A i \in DOMAIN card' : card'[i].shown = B!Refreshing => currentSweep' \/ closed'
    BY DEF CardsInv, SweepInv
  <2>4. QED
    BY <2>1, <2>2, <2>3 DEF SweepInv, Own, B!Refreshing
<1>3. B!DrawnIsOwn' /\ B!RefreshingEnds'
  BY DEF CardsInv, B!DrawnIsOwn, B!RefreshingEnds, B!Refreshing
<1>4. QED
  BY <1>1, <1>2, <1>3 DEF CardsInv

\* With no sweep under way no card says that it is refreshing.
LEMMA Quiet ==
  ASSUME CardsInv, closed = FALSE, sweep = B!NoSweep, NEW i \in DOMAIN card
  PROVE  /\ card[i].shown # B!Refreshing
         /\ card[i].shown.kind = "drawn" => card[i].shown.sql = Own(card[i])
BY DEF CardsInv, B!RefreshingEnds, B!DrawnIsOwn, B!NoSweep, Own

\* A refresh of the cards as they are.
LEMMA RefreshedAll ==
  ASSUME CardsInv, NEW only \in SUBSET DOMAIN card, closed' = closed,
         B!RefreshOf(card, only), currentSweep' = (IF running THEN currentSweep ELSE TRUE),
         conn' = conn
  PROVE  CardsInv'
<1>1. CASE conn # "held" \/ closed \/ running
  <2>1. UNCHANGED <<card, sweep, running>>
    BY <1>1 DEF B!RefreshOf
  <2>2. ~ running => sweep = B!NoSweep
    BY DEF CardsInv, SweepInv
  <2>3. {currentSweep', running, closed} \subseteq BOOLEAN
    BY DEF CardsInv, BoardShapes
  <2>4. QED
    BY <2>1, <2>2, <2>3, Untouched
<1>2. CASE conn = "held" /\ ~ closed /\ ~ running
  <2>1. sweep = B!NoSweep /\ closed = FALSE
    BY <1>2 DEF CardsInv, SweepInv, BoardShapes
  <2>2. /\ card' = B!Marked(card, only) /\ running' = (B!Plan(card, only) # {})
        /\ sweep' = [todo |-> B!Plan(card, only), told |-> {}]
    BY <1>2 DEF B!RefreshOf
  <2>3. QED
    BY <1>2, <2>1, <2>2, Quiet, Swept DEF CardsInv, BoardShapes
<1>3. QED
  BY <1>1, <1>2

\* New cards, refreshed if that can be.
LEMMA RefreshedNew ==
  ASSUME CardsInv, NEW cells, closed = FALSE, closed' = closed,
         B!RefreshOf(B!Bound(cells), B!All(cells)), currentSweep' = (~ running), conn' = conn
  PROVE  CardsInv'
<1>1. ~ running => sweep = B!NoSweep
  BY DEF CardsInv, SweepInv
<1>2. CASE conn # "held" \/ running
  <2>1. card' = B!Bound(cells) /\ UNCHANGED <<sweep, running>>
    BY <1>2 DEF B!RefreshOf
  <2>2. currentSweep' = FALSE \/ (currentSweep' = TRUE /\ sweep = B!NoSweep)
    BY <1>1
  <2>3. QED
    BY <2>1, <2>2, Rebuilt
<1>3. CASE conn = "held" /\ ~ running
  <2> DEFINE cards == B!Bound(cells)
  <2>1. /\ card' = B!Marked(cards, DOMAIN cards) /\ running' = (B!Plan(cards, DOMAIN cards) # {})
        /\ sweep' = [todo |-> B!Plan(cards, DOMAIN cards), told |-> {}]
    BY <1>3 DEF B!RefreshOf, B!All, B!Bound
  <2>2. cards = [i \in DOMAIN cards |-> cards[i]]
    BY DEF B!Bound
  <2>3. \A i \in DOMAIN cards :
          /\ cards[i] = [query |-> cards[i].query, text |-> cards[i].text,
                         shown |-> cards[i].shown]
          /\ cards[i].shown # B!Refreshing /\ cards[i].shown.kind # "drawn"
    BY Fresh
  <2> HIDE DEF cards
  <2>4. QED
    BY <1>3, <2>1, <2>2, <2>3, Swept DEF CardsInv
<1>4. QED
  BY <1>2, <1>3

-----------------------------------------------------------------------------
(* The invariant, step by step.                                            *)

LEMMA CardsStep ==
  ASSUME CardsInv, [B!Next]_(B!vars)
  PROVE  CardsInv'
<1> ~ running => sweep = B!NoSweep
  BY DEF CardsInv, SweepInv
<1> {currentSweep, running, closed} \subseteq BOOLEAN
  BY DEF CardsInv, BoardShapes
<1>1. CASE B!Connect \/ B!Shutdown \/ B!Close \/ B!SweepDone \/ B!IntervalChanged \/ B!HandEdit
           \/ UNCHANGED B!vars
  <2>1. CASE B!Connect \/ B!Close
    <3>1. /\ UNCHANGED <<card, sweep, currentSweep, running, closed>>
          /\ conn' \in {"opening", "ready"} => conn \in {"opening", "ready"}
      BY <2>1 DEF B!Connect, B!Close
    <3>2. QED
      BY <3>1, Untouched
  <2>2. CASE B!Shutdown
    <3>1. /\ UNCHANGED <<card, sweep, currentSweep, running>> /\ closed' = TRUE
          /\ conn' \in {"opening", "ready"} => conn \in {"opening", "ready"}
      BY <2>2 DEF B!Shutdown
    <3>2. QED
      BY <3>1, Untouched
  <2>3. CASE B!SweepDone
    BY <2>3, Untouched DEF B!SweepDone
  <2>4. CASE B!IntervalChanged \/ B!HandEdit
    BY <2>4, Untouched DEF B!IntervalChanged, B!HandEdit
  <2>5. CASE UNCHANGED B!vars
    BY <2>5, Untouched DEF B!vars
  <2>6. QED
    BY <1>1, <2>1, <2>2, <2>3, <2>4, <2>5
<1>2. CASE B!Opened
  <2>1. sweep = B!NoSweep
    BY <1>2 DEF B!Opened, CardsInv, SweepInv
  <2>2. CASE closed
    BY <1>2, <2>1, <2>2
       DEF B!Opened, CardsInv, BoardShapes, SweepInv, B!DrawnIsOwn, B!RefreshingEnds, B!NoSweep, Own
  <2>3. CASE closed = FALSE
    <3>1. /\ card' = B!Marked(card, DOMAIN card) /\ running' = (B!Plan(card, DOMAIN card) # {})
          /\ sweep' = [todo |-> B!Plan(card, DOMAIN card), told |-> {}]
          /\ currentSweep' = TRUE /\ closed' = closed /\ conn' = "held"
      BY <1>2, <2>3 DEF B!Opened, B!All
    <3>2. QED
      BY <2>1, <2>3, <3>1, Quiet, Swept DEF CardsInv, BoardShapes
  <2>4. QED
    BY <2>2, <2>3 DEF CardsInv, BoardShapes
<1>3. CASE B!Refused
  <2>1. /\ DOMAIN card' = DOMAIN card /\ card' = [i \in DOMAIN card' |-> card'[i]]
        /\ \A i \in DOMAIN card : 
             /\ card'[i] = [query |-> card'[i].query, text |-> card'[i].text,
                            shown |-> card'[i].shown]
             /\ card'[i].query = card[i].query /\ card'[i].text = card[i].text
             /\ card'[i].shown = B!Message
    BY <1>3 DEF B!Refused, CardsInv, BoardShapes
  <2>2. UNCHANGED <<sweep, currentSweep, running, closed>> /\ conn' = "failed"
    BY <1>3 DEF B!Refused
  <2>3. B!Message.kind # "drawn" /\ B!Message # B!Refreshing
    BY DEF B!Message, B!Refreshing
  <2>4. QED
    BY <2>1, <2>2, <2>3
       DEF CardsInv, BoardShapes, SweepInv, B!DrawnIsOwn, B!RefreshingEnds, B!NoSweep, Own
<1>4. ASSUME NEW only \in SUBSET DOMAIN card, B!Refresh(only) PROVE CardsInv'
  BY <1>4, RefreshedAll DEF B!Refresh, CardsInv, BoardShapes
<1>5. CASE B!Tick
  BY <1>5, RefreshedAll DEF B!Tick, B!All
<1>6. CASE B!TogglePause
  <2>1. CASE paused
    BY <1>6, <2>1, RefreshedAll DEF B!TogglePause, CardsInv, BoardShapes, B!All
  <2>2. CASE ~ paused
    BY <1>6, <2>2, Untouched DEF B!TogglePause, CardsInv, BoardShapes, SweepInv
  <2>3. QED
    BY <2>1, <2>2
<1>7. CASE B!EditCells
  <2>1. /\ closed = FALSE /\ closed' = closed /\ currentSweep' = (~ running) /\ conn' = conn
        /\ B!RefreshOf(B!Bound(board'.cells), B!All(board'.cells))
    BY <1>7 DEF B!EditCells, CardsInv, BoardShapes
  <2>2. QED
    BY <2>1, RefreshedNew
<1>8. ASSUME NEW q \in Query, B!QueriesChanged(q) PROVE CardsInv'
  <2>1. /\ closed = FALSE /\ closed' = closed /\ currentSweep' = (~ running) /\ conn' = conn
        /\ B!RefreshOf(B!Bound(board.cells), B!All(board.cells))
    BY <1>8 DEF B!QueriesChanged, CardsInv, BoardShapes
  <2>2. QED
    BY <2>1, RefreshedNew
<1>9. ASSUME NEW i \in DOMAIN card, B!RemoveCell(i) PROVE CardsInv'
  BY <1>9, Rebuilt DEF B!RemoveCell, B!Rebuild, CardsInv, BoardShapes
<1>10. CASE B!Poll
  BY <1>10, Rebuilt DEF B!Poll, B!Rebuild, CardsInv, BoardShapes
<1>11. CASE B!RunCell
  <2>1. PICK r \in sweep.todo, ok \in BOOLEAN :
          sweep' = [todo |-> sweep.todo \ {r},
                    told |-> sweep.told \cup {[at |-> r.at, sql |-> r.sql, ok |-> ok]}]
    BY <1>11 DEF B!RunCell
  <2>2. UNCHANGED <<card, currentSweep, running, closed, conn>>
    BY <1>11 DEF B!RunCell
  <2>3. sweep # B!NoSweep
    BY <2>1 DEF B!NoSweep
  <2>4. /\ \A s \in sweep'.todo \cup sweep'.told :
             \E t \in sweep.todo \cup sweep.told : s.at = t.at /\ s.sql = t.sql
        /\ \A t \in sweep.todo \cup sweep.told :
             \E s \in sweep'.todo \cup sweep'.told : s.at = t.at
    <3> DEFINE told == [at |-> r.at, sql |-> r.sql, ok |-> ok]
    <3>1. /\ sweep'.todo = sweep.todo \ {r} /\ sweep'.told = sweep.told \cup {told}
          /\ told.at = r.at /\ told.sql = r.sql
      BY <2>1
    <3> HIDE DEF told
    <3>2. QED
      BY <3>1
  <2>5. BoardShapes'
    BY <2>1, <2>2 DEF CardsInv, BoardShapes
  <2>6. running /\ conn \notin {"opening", "ready"}
    BY <2>3 DEF CardsInv, SweepInv
  <2>7. currentSweep => \A s \in sweep'.todo \cup sweep'.told :
          s.at \in DOMAIN card /\ s.sql = Own(card[s.at])
    BY <2>4 DEF CardsInv, SweepInv
  <2>8. SweepInv'
    BY <2>2, <2>6, <2>7 DEF CardsInv, SweepInv, Own, B!Refreshing
  <2>9. B!DrawnIsOwn'
    BY <2>2 DEF CardsInv, B!DrawnIsOwn
  <2>10. B!RefreshingEnds'
    BY <2>2, <2>4 DEF CardsInv, B!RefreshingEnds, B!Refreshing
  <2>11. QED
    BY <2>5, <2>8, <2>9, <2>10 DEF CardsInv
<1>12. ASSUME NEW r \in sweep.told, B!CellTold(r) PROVE CardsInv'
  <2>1. /\ sweep' = [todo |-> sweep.todo, told |-> sweep.told \ {r}]
        /\ UNCHANGED <<currentSweep, running, closed, conn>>
    BY <1>12 DEF B!CellTold, B!Told, CardsInv, BoardShapes
  <2>2. sweep'.todo = sweep.todo /\ sweep'.told = sweep.told \ {r}
    BY <2>1
  <2>3. running /\ conn \notin {"opening", "ready"}
    BY DEF CardsInv, SweepInv, B!NoSweep
  <2>4. CASE card' = card /\ (closed \/ ~ currentSweep)
    <3>1. BoardShapes'
      BY <2>1, <2>4 DEF CardsInv, BoardShapes
    <3>2. SweepInv'
      BY <2>1, <2>2, <2>3, <2>4 DEF CardsInv, SweepInv, Own, B!Refreshing
    <3>3. B!DrawnIsOwn'
      BY <2>4 DEF CardsInv, B!DrawnIsOwn
    <3>4. B!RefreshingEnds'
      BY <2>1, <2>2, <2>4 DEF CardsInv, B!RefreshingEnds, SweepInv, B!Refreshing
    <3>5. QED
      BY <3>1, <3>2, <3>3, <3>4 DEF CardsInv
  <2>5. CASE currentSweep /\ r.at \in DOMAIN card
             /\ card' = [card EXCEPT ![r.at].shown = IF r.ok THEN B!Drawn(r.sql) ELSE B!Message]
    <3> DEFINE new == IF r.ok THEN B!Drawn(r.sql) ELSE B!Message
    <3>1. /\ DOMAIN card' = DOMAIN card /\ card' = [i \in DOMAIN card' |-> card'[i]]
          /\ \A i \in DOMAIN card :
               /\ card'[i] = [query |-> card'[i].query, text |-> card'[i].text,
                              shown |-> card'[i].shown]
               /\ card'[i].query = card[i].query /\ card'[i].text = card[i].text
               /\ card'[i].shown = IF i = r.at THEN new ELSE card[i].shown
      <4>1. card' = [i \in DOMAIN card |-> IF i = r.at THEN [card[i] EXCEPT !.shown = new]
                                                       ELSE card[i]]
        BY <2>5
      <4> HIDE DEF new
      <4>2. \A i \in DOMAIN card :
              card[i] = [query |-> card[i].query, text |-> card[i].text,
                         shown |-> card[i].shown]
        BY DEF CardsInv, BoardShapes
      <4>3. \A i \in DOMAIN card : card'[i] =
              [query |-> card[i].query, text |-> card[i].text,
               shown |-> IF i = r.at THEN new ELSE card[i].shown]
        BY <4>1, <4>2
      <4>4. QED
        BY <4>1, <4>3
    <3>2. new # B!Refreshing /\ (new.kind = "drawn" => new.sql = r.sql)
      BY DEF B!Drawn, B!Message, B!Refreshing
    <3> HIDE DEF new
    <3>3. \A i \in DOMAIN card : Own(card'[i]) = Own(card[i])
      BY <3>1 DEF Own
    <3>4. r.sql = Own(card[r.at])
      BY <2>5 DEF CardsInv, SweepInv
    <3>5. BoardShapes'
      BY <2>1, <3>1 DEF CardsInv, BoardShapes
    <3>6. SweepInv'
      <4>1. \A s \in sweep'.todo \cup sweep'.told :
              s.at \in DOMAIN card' /\ s.sql = Own(card'[s.at])
        BY <2>2, <2>5, <3>1, <3>3 DEF CardsInv, SweepInv
      <4>2. QED
        BY <2>1, <2>3, <2>5, <4>1 DEF SweepInv, Own
    <3>7. B!DrawnIsOwn'
      BY <3>1, <3>2, <3>3, <3>4 DEF CardsInv, B!DrawnIsOwn, Own
    <3>8. B!RefreshingEnds'
      BY <2>1, <2>2, <3>1, <3>2 DEF CardsInv, B!RefreshingEnds, B!Refreshing
    <3>9. QED
      BY <3>5, <3>6, <3>7, <3>8 DEF CardsInv
  <2>6. QED
    <3>1. currentSweep => r.at \in DOMAIN card
      BY DEF CardsInv, SweepInv
    <3>2. QED
      BY <1>12, <2>4, <2>5, <3>1 DEF B!CellTold
<1>13. QED
  BY <1>1, <1>2, <1>3, <1>4, <1>5, <1>6, <1>7, <1>8, <1>9, <1>10, <1>11, <1>12 DEF B!Next, B!All

-----------------------------------------------------------------------------

\* Whatever a cell draws is the answer to the statement it is bound to,
\* however the layout, the file and the saved queries changed meanwhile.
THEOREM DrawsItsOwn == B!Spec => []B!DrawnIsOwn
<1>1. CardsInv => B!DrawnIsOwn
  BY DEF CardsInv
<1>2. QED
  BY <1>1, CardsInit, CardsStep, PTL DEF B!Spec

\* A cell that says it is refreshing will be told: the sweep has it.
THEOREM RefreshingIsSwept == B!Spec => []B!RefreshingEnds
<1>1. CardsInv => B!RefreshingEnds
  BY DEF CardsInv
<1>2. QED
  BY <1>1, CardsInit, CardsStep, PTL DEF B!Spec

-----------------------------------------------------------------------------
(* The file and the timer.                                                 *)

\* An edit by hand the watcher has not seen is the only way apart, and counts.
FileInv ==
  /\ B!FileIsBoard
  /\ changed => hand > 0
  /\ hand \in Nat
  /\ board = [cells |-> board.cells, interval |-> board.interval]
  /\ file = [cells |-> file.cells, interval |-> file.interval]

LEMMA FileInit ==
  ASSUME B!Init
  PROVE  FileInv
BY DEF B!Init, FileInv, B!FileIsBoard

LEMMA FileStep ==
  ASSUME FileInv, [B!Next]_(B!vars)
  PROVE  FileInv'
<1> USE DEF FileInv, B!FileIsBoard
<1>1. CASE UNCHANGED <<board, file, changed, hand>>
  BY <1>1
<1>2. CASE B!IntervalChanged \/ B!EditCells \/ (\E i \in DOMAIN card : B!RemoveCell(i))
  BY <1>2 DEF B!IntervalChanged, B!EditCells, B!RemoveCell, B!Persist
<1>3. CASE B!HandEdit \/ B!Poll
  BY <1>3 DEF B!HandEdit, B!Poll, B!Definition
<1>4. CASE \/ B!Connect \/ B!Opened \/ B!Refused \/ B!Shutdown \/ B!Close \/ B!Tick \/ B!RunCell
           \/ B!SweepDone \/ B!TogglePause \/ (\E r \in sweep.told : B!CellTold(r))
           \/ (\E q \in Query : B!QueriesChanged(q)) \/ B!Refresh(B!All(card))
           \/ (\E i \in DOMAIN card : B!Refresh({i}))
  BY <1>1, <1>4 DEF B!Connect, B!Opened, B!Refused, B!Shutdown, B!Close, B!Tick, B!RunCell, B!SweepDone,
                    B!TogglePause, B!CellTold, B!Told, B!QueriesChanged, B!Refresh
<1>5. CASE UNCHANGED B!vars
  BY <1>1, <1>5 DEF B!vars
<1>6. QED
  BY <1>2, <1>3, <1>4, <1>5 DEF B!Next

\* Every edit of the dashboard is on disk when it is made; only an edit by
\* hand that the watcher has not seen sets the file and the tab apart.
THEOREM SavedAtOnce == B!Spec => []B!FileIsBoard
<1>1. FileInv => B!FileIsBoard
  BY DEF FileInv
<1>2. QED
  BY <1>1, FileInit, FileStep, PTL DEF B!Spec

LEMMA TimerInit ==
  ASSUME B!Init
  PROVE  B!NobodyLooks
BY DEF B!Init, B!NobodyLooks

LEMMA TimerStep ==
  ASSUME FileInv, B!NobodyLooks, [B!Next]_(B!vars)
  PROVE  B!NobodyLooks'
<1> USE DEF B!NobodyLooks
<1>1. CASE UNCHANGED <<board, hand, timer, paused, closed, conn>>
  BY <1>1
<1>2. CASE B!Connect \/ B!Opened \/ B!Refused \/ B!Shutdown \/ B!Close
  <2>1. CASE B!Opened
    <3>1. CASE closed
      BY <1>2, <2>1, <3>1 DEF B!Opened
    <3>2. CASE ~ closed
      <4>1. timer' => board.interval > 0 /\ ~ paused
        BY <2>1, <3>2, Zenon DEF B!Opened, B!StartTimer
      <4>2. QED
        BY <2>1, <3>2, <4>1 DEF B!Opened
    <3>3. QED
      BY <3>1, <3>2
  <2>2. CASE B!Connect \/ B!Refused \/ B!Close \/ B!Shutdown
    BY <2>2 DEF B!Connect, B!Refused, B!Close, B!Shutdown
  <2>3. QED
    BY <1>2, <2>1, <2>2
<1>3. CASE B!TogglePause \/ B!IntervalChanged
  <2>1. timer' => ~ paused' /\ board'.interval > 0
    <3>1. CASE B!TogglePause
      BY <3>1, Zenon DEF B!TogglePause
    <3>2. CASE B!IntervalChanged
      BY <3>2, Zenon DEF B!IntervalChanged
    <3>3. QED
      BY <1>3, <3>1, <3>2
  <2>2. ~ closed /\ closed' = closed
    BY <1>3 DEF B!TogglePause, B!IntervalChanged
  <2>3. QED
    BY <2>1, <2>2
<1>4. CASE B!EditCells \/ (\E i \in DOMAIN card : B!RemoveCell(i))
  <2>1. board'.interval = board.interval
    BY <1>4 DEF B!EditCells, B!RemoveCell, FileInv
  <2>2. QED
    BY <1>4, <2>1 DEF B!EditCells, B!RemoveCell
<1>5. CASE B!HandEdit \/ B!Poll
  BY <1>5 DEF B!HandEdit, B!Poll, FileInv
<1>6. CASE \/ B!Tick \/ B!RunCell \/ B!SweepDone \/ (\E r \in sweep.told : B!CellTold(r))
           \/ (\E q \in Query : B!QueriesChanged(q)) \/ B!Refresh(B!All(card))
           \/ (\E i \in DOMAIN card : B!Refresh({i}))
  BY <1>1, <1>6 DEF B!Tick, B!RunCell, B!SweepDone, B!CellTold, B!Told, B!QueriesChanged, B!Refresh
<1>7. CASE UNCHANGED B!vars
  BY <1>1, <1>7 DEF B!vars
<1>8. QED
  BY <1>2, <1>3, <1>4, <1>5, <1>6, <1>7 DEF B!Next

\* A closed tab holds no connection and runs no timer, whenever its opening
\* comes to an end; a paused one does not poll.
THEOREM NobodyPolls == B!Spec => []B!NobodyLooks
<1>1. QED
  BY FileInit, FileStep, TimerInit, TimerStep, PTL DEF B!Spec

-----------------------------------------------------------------------------
(* The table designer.  A rebuild's stage is read off the statements its    *)
(* plan has left, so first: what plans are like.  Lists of statements.      *)

\* Induction over the natural numbers, as a fact about sets.
LEMMA FromZero ==
  ASSUME NEW T \in SUBSET Nat, 0 \in T, \A n \in T : n + 1 \in T
  PROVE  T = Nat
<1> SUFFICES ASSUME Nat \ T # {} PROVE FALSE
  OBVIOUS
<1>1. PICK x \in Nat \ T : \A y \in Nat \ T : ~ (<<y, x>> \in OpToRel(<, Nat))
  BY NatLessThanWellFounded, WFMin, Zenon
<1>2. x # 0 /\ x - 1 \in Nat /\ x - 1 < x
  OBVIOUS
<1>3. <<x - 1, x>> \in OpToRel(<, Nat)
  BY <1>2, Zenon DEF OpToRel
<1>4. x - 1 \in T
  BY <1>1, <1>2, <1>3
<1>5. x \in Nat /\ x \notin T
  OBVIOUS
<1> QED
  <2>1. (x - 1) + 1 \in T
    BY <1>4
  <2>2. (x - 1) + 1 = x
    BY <1>5
  <2> QED
    BY <1>5, <2>1, <2>2

\* A sequence, of whatever it holds.
Listed(s) == s \in Seq(D!ToSet(s))

LEMMA ListedIf ==
  ASSUME NEW S, NEW s \in Seq(S)
  PROVE  Listed(s) /\ DOMAIN s = 1 .. Len(s) /\ Len(s) \in Nat /\ IsFiniteSet(DOMAIN s)
<1>1. Len(s) \in Nat /\ s \in [1 .. Len(s) -> S] /\ DOMAIN s = 1 .. Len(s)
  BY LenProperties
<1>2. s \in [1 .. Len(s) -> D!ToSet(s)]
  BY <1>1 DEF D!ToSet
<1>3. s \in Seq(D!ToSet(s))
  BY <1>1, <1>2, SeqDef
<1>4. IsFiniteSet(1 .. Len(s))
  BY <1>1, FS_Interval
<1> QED
  BY <1>1, <1>3, <1>4 DEF Listed

LEMMA ListedDomain ==
  ASSUME NEW s, Listed(s)
  PROVE  DOMAIN s = 1 .. Len(s) /\ Len(s) \in Nat /\ IsFiniteSet(DOMAIN s)
BY ListedIf DEF Listed

LEMMA ListedOver ==
  ASSUME NEW n \in Nat, NEW s, s = [i \in 1 .. n |-> s[i]]
  PROVE  Listed(s)
<1>1. s \in [1 .. n -> D!ToSet(s)]
  BY DEF D!ToSet
<1> QED
  BY <1>1, SeqDef DEF Listed

LEMMA ListedJoin ==
  ASSUME NEW s, Listed(s), NEW t, Listed(t)
  PROVE  /\ Listed(s \o t)
         /\ \A i \in DOMAIN (s \o t) :
              \/ i \in DOMAIN s /\ (s \o t)[i] = s[i]
              \/ i - Len(s) \in DOMAIN t /\ i > Len(s) /\ (s \o t)[i] = t[i - Len(s)]
         /\ \A i \in DOMAIN s : i \in DOMAIN (s \o t) /\ (s \o t)[i] = s[i]
         /\ \A i \in DOMAIN t : Len(s) + i \in DOMAIN (s \o t) /\ (s \o t)[Len(s) + i] = t[i]
<1> DEFINE S == D!ToSet(s) \cup D!ToSet(t)
           u == s \o t
<1>1. s \in [1 .. Len(s) -> S] /\ Len(s) \in Nat /\ DOMAIN s = 1 .. Len(s)
  BY LenProperties DEF Listed
<1>2. t \in [1 .. Len(t) -> S] /\ Len(t) \in Nat /\ DOMAIN t = 1 .. Len(t)
  BY LenProperties DEF Listed
<1>3. s \in Seq(S) /\ t \in Seq(S)
  BY <1>1, <1>2, SeqDef
<1> HIDE DEF S
<1>4. /\ u \in Seq(S) /\ Len(u) = Len(s) + Len(t)
      /\ \A i \in 1 .. Len(s) + Len(t) : u[i] = IF i <= Len(s) THEN s[i] ELSE t[i - Len(s)]
  BY <1>3, ConcatProperties
<1>5. Listed(u) /\ DOMAIN u = 1 .. Len(s) + Len(t)
  BY <1>4, ListedIf
<1> HIDE DEF u
<1>6. ASSUME NEW i \in DOMAIN u
      PROVE  \/ i \in DOMAIN s /\ u[i] = s[i]
             \/ i - Len(s) \in DOMAIN t /\ i > Len(s) /\ u[i] = t[i - Len(s)]
  BY <1>1, <1>2, <1>4, <1>5
<1>7. ASSUME NEW i \in DOMAIN s PROVE i \in DOMAIN u /\ u[i] = s[i]
  BY <1>1, <1>2, <1>4, <1>5
<1>8. ASSUME NEW i \in DOMAIN t PROVE Len(s) + i \in DOMAIN u /\ u[Len(s) + i] = t[i]
  <2>1. Len(s) + i \in 1 .. Len(s) + Len(t) /\ ~ (Len(s) + i <= Len(s)) /\ Len(s) + i - Len(s) = i
    BY <1>1, <1>2
  <2> QED
    BY <1>4, <1>5, <2>1
<1> QED
  BY <1>5, <1>6, <1>7, <1>8 DEF u

LEMMA ListedTail ==
  ASSUME NEW s, Listed(s), s # <<>>
  PROVE  /\ Listed(Tail(s)) /\ 1 \in DOMAIN s /\ Head(s) = s[1]
         /\ \A i \in DOMAIN Tail(s) : i + 1 \in DOMAIN s /\ Tail(s)[i] = s[i + 1]
         /\ \A i \in DOMAIN s : i = 1 \/ (i - 1 \in DOMAIN Tail(s) /\ Tail(s)[i - 1] = s[i])
<1>1. /\ Tail(s) \in Seq(D!ToSet(s)) /\ Len(Tail(s)) = Len(s) - 1
      /\ \A i \in 1 .. Len(Tail(s)) : Tail(s)[i] = s[i + 1]
  BY HeadTailProperties DEF Listed
<1>2. DOMAIN s = 1 .. Len(s) /\ Len(s) \in Nat /\ Len(s) # 0
  BY LenProperties, EmptySeq DEF Listed
<1>3. Listed(Tail(s)) /\ DOMAIN Tail(s) = 1 .. Len(s) - 1
  BY <1>1, <1>2, ListedIf
<1>4. ASSUME NEW i \in DOMAIN Tail(s) PROVE i + 1 \in DOMAIN s /\ Tail(s)[i] = s[i + 1]
  BY <1>1, <1>2, <1>3
<1>5. ASSUME NEW i \in DOMAIN s, i # 1 PROVE i - 1 \in DOMAIN Tail(s) /\ Tail(s)[i - 1] = s[i]
  <2>1. i - 1 \in DOMAIN Tail(s) /\ (i - 1) + 1 = i
    BY <1>2, <1>3, <1>5
  <2> QED
    BY <1>4, <2>1
<1>6. 1 \in DOMAIN s /\ Head(s) = s[1]
  BY <1>2
<1> QED
  BY <1>3, <1>4, <1>5, <1>6

LEMMA JoinHolds ==
  ASSUME NEW s, Listed(s), NEW t, Listed(t)
  PROVE  D!ToSet(s \o t) = D!ToSet(s) \cup D!ToSet(t)
<1> DEFINE u == s \o t
<1>1. /\ \A i \in DOMAIN u :
           \/ i \in DOMAIN s /\ u[i] = s[i]
           \/ i - Len(s) \in DOMAIN t /\ u[i] = t[i - Len(s)]
      /\ \A i \in DOMAIN s : i \in DOMAIN u /\ u[i] = s[i]
      /\ \A i \in DOMAIN t : Len(s) + i \in DOMAIN u /\ u[Len(s) + i] = t[i]
  BY ListedJoin
<1> HIDE DEF u
<1>2. D!ToSet(u) = D!ToSet(s) \cup D!ToSet(t)
  BY <1>1 DEF D!ToSet
<1> QED
  BY <1>2 DEF u

\* FlattenSeq joins lists into a list of what they hold.
LEMMA Flattened ==
  ASSUME NEW S, NEW n \in Nat, NEW ss \in [1 .. n -> Seq(S)]
  PROVE  /\ D!FlattenSeq(ss) \in Seq(S)
         /\ D!ToSet(D!FlattenSeq(ss)) = UNION {D!ToSet(ss[i]) : i \in 1 .. n}
<1>1. ss \in Seq(Seq(S)) /\ Len(ss) = n
  BY SeqDef, LenProperties
<1>2. CASE n = 0
  <2>1. ss = <<>>
    BY <1>1, <1>2, EmptySeq
  <2>2. D!FlattenSeq(ss) = <<>>
    BY <1>1, <1>2, <2>1 DEF D!FlattenSeq
  <2>3. D!ToSet(<<>>) = {} /\ <<>> \in Seq(S)
    BY EmptySeq DEF D!ToSet
  <2>4. UNION {D!ToSet(ss[i]) : i \in 1 .. n} = {}
    BY <1>2
  <2> QED
    BY <2>2, <2>3, <2>4
<1>3. CASE n # 0
  <2> DEFINE Flat(f, m) == f = [i \in 1 .. m |-> IF i = 1 THEN ss[i] ELSE f[i - 1] \o ss[i]]
             T == {m \in Nat : \E f : Flat(f, m)}
             flat == CHOOSE f : Flat(f, n)
  <2>1. 0 \in T
    <3>1. Flat([i \in 1 .. 0 |-> {}], 0)
      OBVIOUS
    <3> QED
      BY <3>1
  <2>2. ASSUME NEW m \in T PROVE m + 1 \in T
    <3>1. PICK f : Flat(f, m)
      OBVIOUS
    <3> DEFINE g == [i \in 1 .. m + 1 |->
                       IF i = 1 THEN ss[i] ELSE IF i = m + 1 THEN f[m] \o ss[i] ELSE f[i]]
    <3>2. ASSUME NEW i \in 1 .. m + 1
          PROVE  g[i] = IF i = 1 THEN ss[i] ELSE g[i - 1] \o ss[i]
      <4>1. CASE i = 1
        BY <4>1
      <4>2. CASE i # 1
        <5>1. m \in Nat /\ i - 1 \in 1 .. m + 1 /\ i - 1 \in 1 .. m /\ i - 1 # m + 1
          BY <4>2
        <5>2. f[i - 1] = IF i - 1 = 1 THEN ss[i - 1] ELSE f[i - 1 - 1] \o ss[i - 1]
          BY <3>1, <5>1
        <5>3. g[i - 1] = f[i - 1]
          BY <5>1, <5>2
        <5>4. CASE i = m + 1
          <6>1. i - 1 = m
            BY <5>1, <5>4
          <6>2. g[i] = f[m] \o ss[i]
            BY <4>2, <5>4
          <6> QED
            BY <4>2, <5>3, <6>1, <6>2
        <5>5. CASE i # m + 1
          <6>1. i \in 1 .. m /\ g[i] = f[i]
            BY <4>2, <5>1, <5>5
          <6>2. f[i] = f[i - 1] \o ss[i]
            BY <3>1, <4>2, <6>1
          <6> QED
            BY <4>2, <5>3, <6>1, <6>2
        <5> QED
          BY <5>4, <5>5
      <4> QED
        BY <4>1, <4>2
    <3>3. g = [i \in 1 .. m + 1 |-> g[i]]
      OBVIOUS
    <3> HIDE DEF g
    <3>4. Flat(g, m + 1)
      BY <3>2, <3>3
    <3>5. m + 1 \in Nat
      OBVIOUS
    <3> HIDE DEF Flat
    <3> QED
      BY <3>4, <3>5
  <2>3. n \in T
    <3> HIDE DEF T
    <3>1. T \in SUBSET Nat
      BY DEF T
    <3> QED
      BY <2>1, <2>2, <3>1, FromZero
  <2>4. Flat(flat, n)
    BY <2>3
  <2> HIDE DEF flat
  <2> DEFINE U(m) == UNION {D!ToSet(ss[i]) : i \in 1 .. m}
             K == {m \in Nat : m + 1 \in 1 .. n =>
                      flat[m + 1] \in Seq(S) /\ D!ToSet(flat[m + 1]) = U(m + 1)}
  <2>5. 0 \in K
    <3>1. U(1) = D!ToSet(ss[1])
      <4>1. \A i \in 1 .. 1 : i = 1
        OBVIOUS
      <4> QED
        BY <4>1
    <3> HIDE DEF U
    <3> QED
      BY <2>4, <3>1
  <2>6. ASSUME NEW m \in K PROVE m + 1 \in K
    <3> SUFFICES ASSUME m + 2 \in 1 .. n
                 PROVE  flat[m + 2] \in Seq(S) /\ D!ToSet(flat[m + 2]) = U(m + 2)
      <4> HIDE DEF U
      <4> QED
        OBVIOUS
    <3>1. m + 1 \in 1 .. n /\ m + 2 # 1 /\ (m + 2) - 1 = m + 1
      OBVIOUS
    <3>2. flat[m + 2] = flat[m + 1] \o ss[m + 2]
      BY <2>4, <3>1
    <3>3. flat[m + 1] \in Seq(S) /\ D!ToSet(flat[m + 1]) = U(m + 1)
      <4> HIDE DEF U
      <4> QED
        BY <3>1
    <3>4. ss[m + 2] \in Seq(S)
      BY <3>1
    <3>5. Listed(flat[m + 1]) /\ Listed(ss[m + 2])
      BY <3>3, <3>4, ListedIf
    <3>6. D!ToSet(flat[m + 2]) = D!ToSet(flat[m + 1]) \cup D!ToSet(ss[m + 2])
      BY <3>2, <3>5, JoinHolds
    <3>7. U(m + 2) = U(m + 1) \cup D!ToSet(ss[m + 2])
      <4>1. \A i : i \in 1 .. m + 2 <=> i \in 1 .. m + 1 \/ i = m + 2
        OBVIOUS
      <4> QED
        BY <4>1
    <3> HIDE DEF U
    <3> QED
      BY <3>2, <3>3, <3>4, <3>6, <3>7, ConcatProperties
  <2>7. n - 1 \in K
    <3> HIDE DEF K
    <3>1. K \in SUBSET Nat /\ n - 1 \in Nat
      BY <1>3 DEF K
    <3> QED
      BY <2>5, <2>6, <3>1, FromZero
  <2>8. flat[n] \in Seq(S) /\ D!ToSet(flat[n]) = U(n)
    <3>1. n - 1 + 1 = n /\ n \in 1 .. n
      BY <1>3
    <3> HIDE DEF U
    <3> QED
      BY <2>7, <3>1
  <2>9. D!FlattenSeq(ss) = flat[n]
    BY <1>1, <1>3 DEF D!FlattenSeq, flat
  <2> QED
    BY <2>8, <2>9
<1> QED
  BY <1>2, <1>3

LEMMA SameFinite == ASSUME NEW S PROVE D!IsFiniteSet(S) <=> IsFiniteSet(S)
BY DEF D!IsFiniteSet, IsFiniteSet

LEMMA SameCount == ASSUME NEW S PROVE D!Cardinality(S) = Cardinality(S)
BY Zenon DEF D!Cardinality, Cardinality

\* SetToSeq lists the elements of a finite set.
LEMMA SetListed ==
  ASSUME NEW S, IsFiniteSet(S)
  PROVE  D!SetToSeq(S) \in Seq(S)
<1>1. Cardinality(S) \in Nat
  BY FS_CardinalityType
<1>2. PICK f : f \in Bijection(1 .. Cardinality(S), S)
  BY FS_CardinalityType DEF ExistsBijection
<1>3. f \in [1 .. Cardinality(S) -> S] /\ D!IsInjective(f)
  BY <1>2 DEF Bijection, Injection, IsInjective, D!IsInjective
<1>4. D!SetToSeq(S) \in [1 .. Cardinality(S) -> S]
  BY <1>3, SameCount, Zenon DEF D!SetToSeq
<1> QED
  BY <1>1, <1>4, SeqDef

-----------------------------------------------------------------------------
(* What a plan looks like.                                                 *)

\* The order in which a rebuild runs its statements; all others are at 7.
Altering == {"add", "rename", "change", "set_null", "set_default", "drop", "add_key",
             "drop_index", "create_index"}

Place(op) ==
  CASE op = "fk_off" -> 1 [] op = "begin" -> 2 [] op = "rename_table" -> 3
    [] op = "create" -> 4 [] op = "copy" -> 5 [] op = "drop_backup" -> 6
    [] op = "commit" -> 8 [] op = "fk_on" -> 9 [] op \in Altering -> 7
    [] OTHER -> 10

Has(t, op) == \E i \in DOMAIN t : t[i].op = op

Laid(t) ==
  \A i, j \in DOMAIN t : i < j =>
    Place(t[i].op) < Place(t[j].op) \/ (Place(t[i].op) = 7 /\ Place(t[j].op) = 7)

Between(t, lo, hi) == \A i \in DOMAIN t : lo <= Place(t[i].op) /\ Place(t[i].op) <= hi

\* What is left of a plan leaves out nothing of what is to come.
Complete(t) ==
  /\ Has(t, "begin") => Has(t, "rename_table")
  /\ Has(t, "rename_table") => Has(t, "create")
  /\ Has(t, "create") \/ Has(t, "copy") => Has(t, "drop_backup")
  /\ Has(t, "drop_backup") => Has(t, "commit")

\* A table to create has columns, each of its own name.
Describes(m) ==
  /\ D!NamesOf(m) # {}
  /\ \A c, d \in D!ToSet(m.cols) : c.name = d.name => c = d

Planned(t) ==
  /\ Listed(t) /\ Laid(t) /\ Between(t, 1, 9) /\ Complete(t)
  /\ \A i \in DOMAIN t : t[i].op = "create" => Describes(t[i].arg)

\* A list of statements that change a table where it is; what takes a column
\* away is called destructive.
Alteration(x) == Place(x.op) = 7 /\ (x.op = "drop" => x.class = "destructive")

Alters(t) == Listed(t) /\ \A i \in DOMAIN t : Alteration(t[i])

LEMMA PlaceType == \A op : Place(op) \in 1 .. 10
BY DEF Place, Altering

LEMMA PlaceIs ==
  /\ Place("fk_off") = 1 /\ Place("begin") = 2 /\ Place("rename_table") = 3
  /\ Place("create") = 4 /\ Place("copy") = 5 /\ Place("drop_backup") = 6
  /\ Place("commit") = 8 /\ Place("fk_on") = 9
  /\ \A op \in Altering : Place(op) = 7
BY DEF Place, Altering

LEMMA LaidJoin ==
  ASSUME NEW s, NEW t, Listed(s), Listed(t), Laid(s), Laid(t),
         NEW m \in Nat, NEW lo \in Nat, NEW hi \in Nat,
         Between(s, lo, m), Between(t, m + 1, hi), lo <= hi, m <= hi, lo <= m + 1
  PROVE  Listed(s \o t) /\ Laid(s \o t) /\ Between(s \o t, lo, hi)
<1> DEFINE u == s \o t
<1>1. Listed(u) /\ \A i \in DOMAIN u :
              \/ i \in DOMAIN s /\ u[i] = s[i]
              \/ i - Len(s) \in DOMAIN t /\ i > Len(s) /\ u[i] = t[i - Len(s)]
  BY ListedJoin
<1>2. DOMAIN s = 1 .. Len(s) /\ Len(s) \in Nat /\ DOMAIN u = 1 .. Len(u) /\ Len(u) \in Nat
  BY <1>1, ListedDomain
<1> HIDE DEF u
<1>3. ASSUME NEW i \in DOMAIN u PROVE lo <= Place(u[i].op) /\ Place(u[i].op) <= hi
  <2>1. Place(u[i].op) \in Nat
    BY PlaceType
  <2>2. CASE i \in DOMAIN s /\ u[i] = s[i]
    BY <2>1, <2>2 DEF Between
  <2>3. CASE i - Len(s) \in DOMAIN t /\ u[i] = t[i - Len(s)]
    BY <2>1, <2>3 DEF Between
  <2> QED
    BY <1>1, <2>2, <2>3
<1>4. ASSUME NEW i \in DOMAIN u, NEW j \in DOMAIN u, i < j
      PROVE  Place(u[i].op) < Place(u[j].op) \/ (Place(u[i].op) = 7 /\ Place(u[j].op) = 7)
  <2>0. Place(u[i].op) \in Nat /\ Place(u[j].op) \in Nat
    BY PlaceType
  <2>1. CASE i \in DOMAIN s /\ u[i] = s[i] /\ j \in DOMAIN s /\ u[j] = s[j]
    BY <1>4, <2>1 DEF Laid
  <2>2. CASE i \in DOMAIN s /\ u[i] = s[i] /\ j - Len(s) \in DOMAIN t /\ u[j] = t[j - Len(s)]
    <3>1. Place(u[i].op) <= m /\ m + 1 <= Place(u[j].op)
      BY <2>2 DEF Between
    <3> QED
      BY <2>0, <3>1
  <2>3. CASE /\ i - Len(s) \in DOMAIN t /\ u[i] = t[i - Len(s)]
             /\ j - Len(s) \in DOMAIN t /\ u[j] = t[j - Len(s)]
    <3>1. i - Len(s) < j - Len(s)
      BY <1>2, <1>4
    <3> QED
      BY <2>3, <3>1 DEF Laid
  <2>4. CASE i > Len(s) /\ j \in DOMAIN s
    BY <1>2, <1>4, <2>4
  <2> QED
    BY <1>1, <2>1, <2>2, <2>3, <2>4
<1> QED
  BY <1>1, <1>3, <1>4 DEF Laid, Between, u

LEMMA HasJoin ==
  ASSUME NEW s, NEW t, Listed(s), Listed(t), NEW op
  PROVE  Has(s \o t, op) <=> Has(s, op) \/ Has(t, op)
<1>0. /\ \A i \in DOMAIN (s \o t) :
              \/ i \in DOMAIN s /\ (s \o t)[i] = s[i]
              \/ i - Len(s) \in DOMAIN t /\ (s \o t)[i] = t[i - Len(s)]
      /\ \A i \in DOMAIN s : i \in DOMAIN (s \o t) /\ (s \o t)[i] = s[i]
      /\ \A i \in DOMAIN t : Len(s) + i \in DOMAIN (s \o t) /\ (s \o t)[Len(s) + i] = t[i]
  BY ListedJoin
<1>1. Has(s \o t, op) => Has(s, op) \/ Has(t, op)
  BY <1>0 DEF Has
<1>2. Has(s, op) => Has(s \o t, op)
  BY <1>0 DEF Has
<1>3. Has(t, op) => Has(s \o t, op)
  BY <1>0 DEF Has
<1> QED
  BY <1>1, <1>2, <1>3

LEMMA AltersLaid ==
  ASSUME NEW t, Alters(t)
  PROVE  /\ Laid(t) /\ Planned(t) /\ Between(t, 7, 7)
         /\ \A op : Place(op) # 7 => ~ Has(t, op)
<1>1. \A i \in DOMAIN t : Place(t[i].op) = 7
  BY DEF Alters, Alteration
<1>2. \A op : Place(op) # 7 => ~ Has(t, op)
  BY <1>1 DEF Has
<1>3. ~ Has(t, "begin") /\ ~ Has(t, "rename_table") /\ ~ Has(t, "create")
      /\ ~ Has(t, "copy") /\ ~ Has(t, "drop_backup")
  BY <1>2, PlaceIs
<1>4. \A i \in DOMAIN t : t[i].op # "create"
  BY <1>3 DEF Has
<1>5. Laid(t)
  BY <1>1 DEF Laid
<1>6. Between(t, 1, 9) /\ Between(t, 7, 7)
  BY <1>1 DEF Between
<1>7. Complete(t)
  BY <1>3 DEF Complete
<1> QED
  BY <1>2, <1>4, <1>5, <1>6, <1>7 DEF Alters, Planned

LEMMA AltersJoin ==
  ASSUME NEW s, NEW t, Alters(s), Alters(t)
  PROVE  Alters(s \o t)
<1>1. Listed(s \o t) /\ \A i \in DOMAIN (s \o t) :
              \/ i \in DOMAIN s /\ (s \o t)[i] = s[i]
              \/ i - Len(s) \in DOMAIN t /\ (s \o t)[i] = t[i - Len(s)]
  BY ListedJoin DEF Alters
<1> QED
  BY <1>1 DEF Alters

LEMMA NoneAlters == Alters(<<>>)
<1>1. <<>> \in Seq({})
  BY EmptySeq
<1>2. Listed(<<>>) /\ DOMAIN <<>> = 1 .. Len(<<>>) /\ Len(<<>>) = 0
  BY <1>1, ListedIf, EmptySeq
<1> QED
  BY <1>2 DEF Alters

LEMMA OneListed ==
  ASSUME NEW x
  PROVE  Listed(<<x>>) /\ DOMAIN <<x>> = 1 .. 1 /\ <<x>>[1] = x
<1>1. <<x>> \in Seq({x})
  OBVIOUS
<1> QED
  BY <1>1, ListedIf

LEMMA OneAlters ==
  ASSUME NEW x, Alteration(x)
  PROVE  Alters(<<x>>)
<1>1. Listed(<<x>>) /\ DOMAIN <<x>> = 1 .. 1 /\ <<x>>[1] = x
  BY OneListed
<1>2. \A i \in 1 .. 1 : i = 1
  OBVIOUS
<1> QED
  BY <1>1, <1>2 DEF Alters

LEMMA OverAlters ==
  ASSUME NEW n \in Nat, NEW s, s = [i \in 1 .. n |-> s[i]], \A i \in 1 .. n : Alteration(s[i])
  PROVE  Alters(s)
<1>1. Listed(s)
  BY ListedOver
<1>2. DOMAIN s = 1 .. n
  OBVIOUS
<1> QED
  BY <1>1, <1>2 DEF Alters

LEMMA FlatAlters ==
  ASSUME NEW n \in Nat, NEW ss, ss = [i \in 1 .. n |-> ss[i]], \A i \in 1 .. n : Alters(ss[i])
  PROVE  Alters(D!FlattenSeq(ss))
<1> DEFINE S == UNION {D!ToSet(ss[i]) : i \in 1 .. n}
<1>1. ASSUME NEW i \in 1 .. n PROVE ss[i] \in Seq(S)
  <2>1. ss[i] \in [1 .. Len(ss[i]) -> D!ToSet(ss[i])] /\ Len(ss[i]) \in Nat
    BY LenProperties DEF Alters, Listed
  <2>2. D!ToSet(ss[i]) \subseteq S
    OBVIOUS
  <2> HIDE DEF S
  <2>3. ss[i] \in [1 .. Len(ss[i]) -> S]
    BY <2>1, <2>2
  <2> QED
    BY <2>1, <2>3, SeqDef
<1>2. \A x \in S : Alteration(x)
  BY DEF D!ToSet, Alters
<1> HIDE DEF S
<1>3. D!FlattenSeq(ss) \in Seq(S)
  BY <1>1, Flattened
<1>4. \A i \in DOMAIN D!FlattenSeq(ss) : D!FlattenSeq(ss)[i] \in S
  BY <1>3, ElementOfSeq, LenProperties
<1> QED
  BY <1>2, <1>3, <1>4, ListedIf DEF Alters

\* What _alter_plan plans.
LEMMA ColumnAlters ==
  ASSUME NEW cur, NEW col, NEW d
  PROVE  Alters(D!AlterColumn(cur, col, d))
<1>1. /\ \A arg, class : Alters(<<D!Stmt("add", arg, class)>>)
      /\ \A arg, class : Alters(<<D!Stmt("rename", arg, class)>>)
      /\ \A arg, class : Alters(<<D!Stmt("change", arg, class)>>)
      /\ \A arg, class : Alters(<<D!Stmt("set_null", arg, class)>>)
      /\ \A arg, class : Alters(<<D!Stmt("set_default", arg, class)>>)
  BY OneAlters, PlaceIs DEF D!Stmt, Altering, Alteration
<1>2. \A old, new : Alters(D!ModifyColumn(old, new, d))
  <2> TAKE old, new
  <2> DEFINE a == IF old.null = new.null THEN << >>
                  ELSE << D!Stmt("set_null", <<new.name, new.null>>,
                         IF D!Tightened(old, new) THEN "may_fail" ELSE "safe") >>
             b == IF old.dflt = new.dflt THEN << >>
               ELSE << D!Stmt("set_default", <<new.name, new.dflt>>, "safe") >>
  <2>1. Alters(a) /\ Alters(b)
    BY <1>1, NoneAlters
  <2>2. Alters(a \o b)
    BY <2>1, AltersJoin
  <2> QED
    BY <1>1, <2>2 DEF D!ModifyColumn
<1> DEFINE old == D!Matched(cur, col)
           renamed == old.name # col.name
           a == IF renamed /\ ~D!Changes(d)
                THEN << D!Stmt("rename", <<old.name, col.name>>, "safe") >> ELSE << >>
           b == IF (renamed /\ D!Changes(d)) \/ D!ColumnChanged(old, col)
                   THEN D!ModifyColumn(old, col, d) ELSE << >>
<1>3. Alters(a)
  BY <1>1, NoneAlters
<1>4. Alters(b)
  BY <1>2, NoneAlters
<1>5. Alters(a \o b)
  BY <1>3, <1>4, AltersJoin
<1>6. Alters(<<D!AddColumn(col)>>)
  BY <1>1 DEF D!AddColumn
<1> QED
  BY <1>5, <1>6 DEF D!AlterColumn

\* The parts of a model that a plan walks through are finite.
Sized(m) ==
  /\ \E n \in Nat : DOMAIN m.cols = 1 .. n
  /\ IsFiniteSet(m.keys) /\ IsFiniteSet(m.idx)

LEMMA EachAlters ==
  ASSUME NEW S, IsFiniteSet(S), NEW s, s = [i \in DOMAIN D!SetToSeq(S) |-> s[i]],
         \A i \in DOMAIN D!SetToSeq(S) : Alteration(s[i])
  PROVE  Alters(s)
<1>1. Len(D!SetToSeq(S)) \in Nat /\ DOMAIN D!SetToSeq(S) = 1 .. Len(D!SetToSeq(S))
  BY SetListed, LenProperties
<1> QED
  BY <1>1, OverAlters

\* The members of a set of numbers are counted off, each by its rank.
LEMMA RankOnto ==
  ASSUME NEW n \in Nat, NEW S \in SUBSET (1 .. n), NEW m \in 1 .. Cardinality(S)
  PROVE  \E i \in S : D!Rank(S, i) = m
<1> DEFINE upto(i) == {k \in S : k <= i}
           C(i) == Cardinality(upto(i))
<1>1. IsFiniteSet(S)
  <2>1. IsFiniteSet(1 .. n)
    BY FS_Interval
  <2> QED
    BY <2>1, FS_Subset
<1>2. ASSUME NEW i PROVE IsFiniteSet(upto(i)) /\ C(i) \in Nat
  <2>1. IsFiniteSet(upto(i))
    BY <1>1, FS_Subset
  <2> QED
    BY <2>1, FS_CardinalityType
<1>3. ASSUME NEW i \in Nat
      PROVE  C(i + 1) = IF i + 1 \in S THEN C(i) + 1 ELSE C(i)
  <2>0. \A k \in S : k <= i + 1 <=> k <= i \/ k = i + 1
    OBVIOUS
  <2>00. ~ i + 1 <= i
    OBVIOUS
  <2>1. CASE i + 1 \in S
    <3>1. upto(i + 1) = upto(i) \cup {i + 1} /\ i + 1 \notin upto(i)
      BY <2>0, <2>00, <2>1, Zenon
    <3> HIDE DEF upto
    <3> QED
      BY <1>2, <2>1, <3>1, FS_AddElement
  <2>2. CASE i + 1 \notin S
    <3>1. upto(i + 1) = upto(i)
      BY <2>0, <2>2, Zenon
    <3> HIDE DEF upto
    <3> QED
      BY <2>2, <3>1
  <2> QED
    BY <2>1, <2>2
<1>4. C(0) = 0 /\ C(n) = Cardinality(S)
  <2>0. \A k \in S : ~ k <= 0 /\ k <= n
    OBVIOUS
  <2>1. upto(0) = {} /\ upto(n) = S
    BY <2>0, Zenon
  <2> QED
    BY <2>1, FS_EmptySet
<1>5. Cardinality(S) \in Nat
  BY <1>1, FS_CardinalityType
<1>6. \A i \in S : D!Rank(S, i) = C(i)
  BY SameCount DEF D!Rank
<1> HIDE DEF C, upto
<1> SUFFICES ASSUME \A i \in S : C(i) # m PROVE FALSE
  BY <1>6
<1> DEFINE T == {i \in Nat : C(i) < m}
<1>7. 0 \in T
  BY <1>4, <1>5
<1>8. ASSUME NEW i \in T PROVE i + 1 \in T
  <2>1. i \in Nat /\ C(i) \in Nat /\ C(i) < m /\ C(i + 1) \in Nat
    BY <1>2
  <2>2. i + 1 \in S => C(i + 1) # m
    OBVIOUS
  <2>3. C(i + 1) < m
    BY <1>3, <1>5, <2>1, <2>2
  <2> QED
    BY <2>1, <2>3
<1>9. T = Nat
  <2> HIDE DEF T
  <2>1. T \in SUBSET Nat
    BY DEF T
  <2> QED
    BY <1>7, <1>8, <2>1, FromZero
<1> QED
  BY <1>4, <1>5, <1>9

LEMMA PickedOver ==
  ASSUME NEW n \in Nat, NEW S \in SUBSET (1 .. n), NEW s
  PROVE  \E m \in Nat : DOMAIN D!Picked(s, S) = 1 .. m /\ (S # {} => m # 0)
<1>0. IsFiniteSet(1 .. n)
  BY FS_Interval
<1>1. IsFiniteSet(S)
  BY <1>0, FS_Subset
<1>2. Cardinality(S) \in Nat /\ (S # {} => Cardinality(S) # 0)
  BY <1>1, FS_CardinalityType, FS_EmptySet
<1>3. DOMAIN D!Picked(s, S) = 1 .. Cardinality(S)
  BY SameCount DEF D!Picked
<1> QED
  BY <1>2, <1>3

LEMMA PickedFrom ==
  ASSUME NEW n \in Nat, NEW S \in SUBSET (1 .. n), NEW s, NEW i \in 1 .. Cardinality(S)
  PROVE  \E p \in S : D!Picked(s, S)[i] = s[p]
<1> DEFINE p == CHOOSE q \in S : D!Rank(S, q) = i
<1>1. D!Picked(s, S)[i] = s[p]
  BY SameCount DEF D!Picked
<1>2. p \in S
  BY RankOnto
<1> QED
  BY <1>1, <1>2

LEMMA InPlaceAlters ==
  ASSUME NEW cur, NEW target, NEW d, Sized(cur), Sized(target)
  PROVE  Alters(D!AlterPlan(cur, target, d))
<1> DEFINE away == {i \in DOMAIN cur.cols : cur.cols[i].name \notin D!Kept(cur, target)}
           dropped == D!Picked(cur.cols, away)
           a == D!ForColumns(target.cols, LAMBDA c : D!AlterColumn(cur, c, d))
           b == [i \in DOMAIN dropped |-> D!Stmt("drop", dropped[i].name, "destructive")]
           e == D!ConstraintStatements(cur, target)
           f == D!IndexStatements(cur, target)
<1>1. Alters(a)
  <2>1. PICK n \in Nat : DOMAIN target.cols = 1 .. n
    BY DEF Sized
  <2> DEFINE ss == [i \in 1 .. n |-> D!AlterColumn(cur, target.cols[i], d)]
  <2>2. \A i \in 1 .. n : Alters(ss[i])
    BY ColumnAlters
  <2>3. ss = [i \in 1 .. n |-> ss[i]]
    OBVIOUS
  <2>4. a = D!FlattenSeq(ss)
    BY <2>1 DEF D!ForColumns
  <2> HIDE DEF ss, a
  <2> QED
    BY <2>2, <2>3, <2>4, FlatAlters
<1>2. Alters(b)
  <2>1. PICK n \in Nat : DOMAIN cur.cols = 1 .. n
    BY DEF Sized
  <2>2. PICK m \in Nat : DOMAIN dropped = 1 .. m
    BY <2>1, PickedOver
  <2> HIDE DEF dropped
  <2>3. b = [i \in 1 .. m |-> b[i]] /\ \A i \in 1 .. m : Alteration(b[i])
    BY <2>2, PlaceIs DEF D!Stmt, Altering, Alteration
  <2> HIDE DEF b
  <2> QED
    BY <2>3, OverAlters
<1>3. Alters(e)
  <2> DEFINE S == target.keys \ cur.keys
  <2>1. IsFiniteSet(S)
    BY FS_Subset DEF Sized
  <2>2. e = [i \in DOMAIN D!SetToSeq(S) |-> D!Stmt("add_key", D!SetToSeq(S)[i], "may_fail")]
    BY DEF D!ConstraintStatements, D!OneEach
  <2> HIDE DEF S, e
  <2>3. /\ e = [i \in DOMAIN D!SetToSeq(S) |-> e[i]]
        /\ \A i \in DOMAIN D!SetToSeq(S) : Alteration(e[i])
    BY <2>2, PlaceIs DEF D!Stmt, Altering, Alteration
  <2> QED
    BY <2>1, <2>3, EachAlters
<1>4. Alters(f)
  <2> DEFINE S == {i \in cur.idx : i.name \notin {l.name : l \in target.idx}}
             T == {i \in target.idx : i.name \notin {l.name : l \in cur.idx}}
             s == [i \in DOMAIN D!SetToSeq(S) |-> D!Stmt("drop_index", D!SetToSeq(S)[i], "safe")]
             t == [i \in DOMAIN D!SetToSeq(T) |->
                     D!Stmt("create_index", D!SetToSeq(T)[i],
                            IF D!SetToSeq(T)[i].unique THEN "may_fail" ELSE "safe")]
  <2>1. IsFiniteSet(S) /\ IsFiniteSet(T)
    BY FS_Subset DEF Sized
  <2>2. f = s \o t
    BY DEF D!IndexStatements, D!OneEach
  <2> HIDE DEF S, T, f
  <2>3. Alters(s)
    <3>1. /\ s = [i \in DOMAIN D!SetToSeq(S) |-> s[i]]
          /\ \A i \in DOMAIN D!SetToSeq(S) : Alteration(s[i])
      BY PlaceIs DEF D!Stmt, Altering, Alteration
    <3> HIDE DEF s
    <3> QED
      BY <2>1, <3>1, EachAlters
  <2>4. Alters(t)
    <3>1. /\ t = [i \in DOMAIN D!SetToSeq(T) |-> t[i]]
          /\ \A i \in DOMAIN D!SetToSeq(T) : Alteration(t[i])
      BY PlaceIs DEF D!Stmt, Altering, Alteration
    <3> HIDE DEF t
    <3> QED
      BY <2>1, <3>1, EachAlters
  <2> QED
    BY <2>2, <2>3, <2>4, AltersJoin
<1>5. D!AlterPlan(cur, target, d) = ((a \o b) \o e) \o f
  BY DEF D!AlterPlan
<1> HIDE DEF a, b, e, f
<1> QED
  BY <1>1, <1>2, <1>3, <1>4, <1>5, AltersJoin

\* What a plan from model cur to model target says: what it creates and
\* copies, and what it calls destructive.
Carried(cur, target) ==
  {<<c.name, D!Matched(cur, c).name>> : c \in {x \in D!ToSet(target.cols) : D!Found(cur, x)}}

Says(x, cur, target) ==
  /\ x.op = "create" => x.arg = target
  /\ x.op = "copy" => x.arg = Carried(cur, target)
  /\ x.op = "drop" => x.class = "destructive"
  /\ x.op = "drop_backup" /\ D!NamesOf(cur) \ D!Kept(cur, target) # {} => x.class = "destructive"

Means(s, cur, target) == \A i \in DOMAIN s : Says(s[i], cur, target)

LEMMA MeansJoin ==
  ASSUME NEW s, Listed(s), NEW t, Listed(t), NEW cur, NEW target,
         Means(s, cur, target), Means(t, cur, target)
  PROVE  Means(s \o t, cur, target)
<1> SUFFICES ASSUME NEW i \in DOMAIN (s \o t)
             PROVE  Says((s \o t)[i], cur, target)
  BY DEF Means
<1>1. \/ i \in DOMAIN s /\ (s \o t)[i] = s[i]
      \/ i - Len(s) \in DOMAIN t /\ (s \o t)[i] = t[i - Len(s)]
  BY ListedJoin
<1> QED
  BY <1>1 DEF Means

LEMMA AltersMeans ==
  ASSUME NEW t, Alters(t), NEW cur, NEW target
  PROVE  Means(t, cur, target)
<1> SUFFICES ASSUME NEW i \in DOMAIN t PROVE Says(t[i], cur, target)
  BY DEF Means
<1>1. Alteration(t[i])
  BY DEF Alters
<1>2. t[i].op # "create" /\ t[i].op # "copy" /\ t[i].op # "drop_backup"
  BY <1>1, PlaceIs DEF Alteration
<1> QED
  BY <1>1, <1>2 DEF Says, Alteration

\* What _rebuild_plan plans, wrapped.
LEMMA RebuildPlanned ==
  ASSUME NEW cur, NEW target, Sized(target), Describes(target)
  PROVE  /\ Planned(D!Wrapped(D!RebuildPlan(cur, target)))
         /\ Has(D!Wrapped(D!RebuildPlan(cur, target)), "begin")
         /\ Means(D!Wrapped(D!RebuildPlan(cur, target)), cur, target)
         /\ ~ Has(D!Wrapped(D!RebuildPlan(cur, target)), "copy") => Carried(cur, target) = {}
<1> DEFINE carried == Carried(cur, target)
           dropped == D!NamesOf(cur) \ D!Kept(cur, target)
           s1 == <<D!Stmt("fk_off", NoColumnName, "safe"), D!Stmt("begin", NoColumnName, "safe")>>
           s2 == <<D!Stmt("rename_table", NoColumnName, "rewrite"), D!Stmt("create", target, "rewrite")>>
           s3 == IF carried = {} THEN << >> ELSE << D!Stmt("copy", carried, "rewrite") >>
           s4 == <<D!Stmt("drop_backup", NoColumnName,
                          IF dropped # {} THEN "destructive" ELSE "rewrite")>>
           s5 == D!OneEach(target.idx, LAMBDA i : D!Stmt("create_index", i, "safe"))
           s6 == <<D!Stmt("commit", NoColumnName, "safe"), D!Stmt("fk_on", NoColumnName, "safe")>>
<1>1. D!Wrapped(D!RebuildPlan(cur, target)) = (s1 \o (((s2 \o s3) \o s4) \o s5)) \o s6
  BY DEF D!Wrapped, D!RebuildPlan, Carried
<1> USE PlaceIs DEF D!Stmt, Altering
<1>a. ASSUME NEW x, NEW y, Place(x.op) < Place(y.op)
      PROVE  /\ Listed(<<x, y>>) /\ Laid(<<x, y>>)
             /\ Between(<<x, y>>, Place(x.op), Place(y.op))
             /\ \A op : Has(<<x, y>>, op) <=> op \in {x.op, y.op}
             /\ \A i \in DOMAIN <<x, y>> : <<x, y>>[i] \in {x, y}
  <2>1. <<x, y>> \in Seq({x, y}) /\ Len(<<x, y>>) = 2
    OBVIOUS
  <2>2. Listed(<<x, y>>) /\ DOMAIN <<x, y>> = 1 .. 2
    BY <2>1, ListedIf
  <2>3. <<x, y>>[1] = x /\ <<x, y>>[2] = y
    OBVIOUS
  <2>4. \A i \in 1 .. 2 : i = 1 \/ i = 2
    OBVIOUS
  <2>5. Place(x.op) \in Nat /\ Place(y.op) \in Nat
    BY PlaceType
  <2>6. Laid(<<x, y>>)
    BY <1>a, <2>2, <2>3, <2>4 DEF Laid
  <2>7. Between(<<x, y>>, Place(x.op), Place(y.op))
    BY <1>a, <2>2, <2>3, <2>4, <2>5 DEF Between
  <2>8. \A op : Has(<<x, y>>, op) <=> op \in {x.op, y.op}
    BY <2>2, <2>3, <2>4 DEF Has
  <2> QED
    BY <2>2, <2>3, <2>4, <2>6, <2>7, <2>8
<1>b. ASSUME NEW x
      PROVE  /\ Listed(<<x>>) /\ Laid(<<x>>) /\ Between(<<x>>, Place(x.op), Place(x.op))
             /\ \A op : Has(<<x>>, op) <=> op = x.op
             /\ \A i \in DOMAIN <<x>> : <<x>>[i] = x
  <2>1. Listed(<<x>>) /\ DOMAIN <<x>> = 1 .. 1 /\ <<x>>[1] = x
    BY OneListed
  <2>2. \A i \in 1 .. 1 : i = 1
    OBVIOUS
  <2>3. Place(x.op) \in Nat
    BY PlaceType
  <2> QED
    BY <2>1, <2>2, <2>3 DEF Laid, Between, Has
<1>2. /\ Listed(s1) /\ Laid(s1) /\ Between(s1, 1, 2)
      /\ \A op : Has(s1, op) <=> op \in {"fk_off", "begin"}
      /\ Means(s1, cur, target)
  BY <1>a DEF Means, Says
<1>3. /\ Listed(s2) /\ Laid(s2) /\ Between(s2, 3, 4)
      /\ \A op : Has(s2, op) <=> op \in {"rename_table", "create"}
      /\ Means(s2, cur, target)
  BY <1>a DEF Means, Says
<1>4. /\ Listed(s3) /\ Laid(s3) /\ Between(s3, 5, 5)
      /\ \A op : Has(s3, op) => op = "copy"
      /\ Means(s3, cur, target) /\ (~ Has(s3, "copy") => carried = {})
  <2>1. CASE carried = {}
    <3>1. s3 = << >>
      BY <2>1
    <3>2. Listed(<< >>) /\ \A i : i \notin DOMAIN << >>
      BY NoneAlters DEF Alters
    <3> HIDE DEF s3
    <3> QED
      BY <2>1, <3>1, <3>2 DEF Laid, Has, Between, Means
  <2>2. CASE carried # {}
    <3> DEFINE x == D!Stmt("copy", carried, "rewrite")
    <3>1. s3 = <<x>> /\ x.op = "copy" /\ Place(x.op) = 5 /\ x.arg = Carried(cur, target)
      BY <2>2
    <3> HIDE DEF s3, x
    <3>2. Means(s3, cur, target)
      BY <3>1, <1>b DEF Means, Says
    <3> HIDE DEF carried
    <3> QED
      BY <3>1, <3>2, <1>b
  <2> QED
    BY <2>1, <2>2
<1>5. /\ Listed(s4) /\ Laid(s4) /\ Between(s4, 6, 6)
      /\ \A op : Has(s4, op) <=> op = "drop_backup"
      /\ Means(s4, cur, target)
  BY <1>b DEF Means, Says
<1>6. Alters(s5)
  <2> DEFINE S == target.idx
  <2>1. IsFiniteSet(S)
    BY DEF Sized
  <2>2. s5 = [i \in DOMAIN D!SetToSeq(S) |-> D!Stmt("create_index", D!SetToSeq(S)[i], "safe")]
    BY DEF D!OneEach
  <2> HIDE DEF S, s5
  <2>3. /\ s5 = [i \in DOMAIN D!SetToSeq(S) |-> s5[i]]
        /\ \A i \in DOMAIN D!SetToSeq(S) : Alteration(s5[i])
    BY <2>2 DEF Alteration
  <2> QED
    BY <2>1, <2>3, EachAlters
<1>7. /\ Listed(s6) /\ Laid(s6) /\ Between(s6, 8, 9)
      /\ \A op : Has(s6, op) <=> op \in {"commit", "fk_on"}
      /\ Means(s6, cur, target)
  BY <1>a DEF Means, Says
<1>8. Laid(s5) /\ Listed(s5) /\ Between(s5, 7, 7) /\ \A op : Place(op) # 7 => ~ Has(s5, op)
  BY <1>6, AltersLaid DEF Alters
<1> HIDE DEF s1, s2, s3, s4, s5, s6, carried
<1>9. Listed(s2 \o s3) /\ Laid(s2 \o s3) /\ Between(s2 \o s3, 3, 5)
  BY <1>3, <1>4, LaidJoin
<1>10. Listed((s2 \o s3) \o s4) /\ Laid((s2 \o s3) \o s4) /\ Between((s2 \o s3) \o s4, 3, 6)
  BY <1>5, <1>9, LaidJoin
<1> DEFINE body == ((s2 \o s3) \o s4) \o s5
<1>11. Listed(body) /\ Laid(body) /\ Between(body, 3, 7)
  BY <1>8, <1>10, LaidJoin
<1>12. \A op : Has(body, op) <=> Has(s2, op) \/ Has(s3, op) \/ Has(s4, op) \/ Has(s5, op)
  BY <1>3, <1>4, <1>5, <1>8, <1>9, <1>10, HasJoin
<1> HIDE DEF body
<1>13. Listed(s1 \o body) /\ Laid(s1 \o body) /\ Between(s1 \o body, 1, 7)
  BY <1>2, <1>11, LaidJoin
<1> DEFINE all == (s1 \o body) \o s6
<1>14. Listed(all) /\ Laid(all) /\ Between(all, 1, 9)
  BY <1>7, <1>13, LaidJoin
<1>15. \A op : Has(all, op) <=> Has(s1, op) \/ Has(body, op) \/ Has(s6, op)
  BY <1>2, <1>7, <1>11, <1>13, HasJoin
<1>16. Complete(all)
  BY <1>2, <1>3, <1>4, <1>5, <1>7, <1>8, <1>12, <1>15 DEF Complete
<1>17. Means(all, cur, target)
  <2>1. Means(s5, cur, target)
    BY <1>6, AltersMeans
  <2>2. Means(s2 \o s3, cur, target)
    BY <1>3, <1>4, MeansJoin
  <2>3. Means((s2 \o s3) \o s4, cur, target)
    BY <1>5, <1>9, <2>2, MeansJoin
  <2>4. Means(body, cur, target)
    BY <1>8, <1>10, <2>1, <2>3, MeansJoin DEF body
  <2>5. Means(s1 \o body, cur, target)
    BY <1>2, <1>11, <2>4, MeansJoin
  <2> QED
    BY <1>7, <1>13, <2>5, MeansJoin
<1>20. ~ Has(all, "copy") => carried = {}
  BY <1>4, <1>12, <1>15
<1>19. Has(all, "begin")
  BY <1>2, <1>15
<1>18. D!Wrapped(D!RebuildPlan(cur, target)) = all
  BY <1>1 DEF body
<1> HIDE DEF all
<1>21. \A i \in DOMAIN all : all[i].op = "create" => Describes(all[i].arg)
  BY <1>17 DEF Means, Says
<1> QED
  BY <1>14, <1>16, <1>17, <1>18, <1>19, <1>20, <1>21 DEF Planned, carried

\* What the form describes.
LEMMA FormSized ==
  ASSUME Listed(rows), IsFiniteSet(index)
  PROVE  Sized(D!FormModel) /\ (D!Complete => Describes(D!FormModel))
<1> DEFINE S == {i \in DOMAIN rows : rows[i].name # NoColumnName}
           named == D!Picked(rows, S)
           m == D!FormModel
<1>1. DOMAIN rows = 1 .. Len(rows) /\ Len(rows) \in Nat
  BY ListedDomain
<1>2. S \in SUBSET (1 .. Len(rows))
  BY <1>1
<1> HIDE DEF S
<1>3. PICK n \in Nat : DOMAIN named = 1 .. n /\ (S # {} => n # 0)
  BY <1>1, <1>2, PickedOver
<1>3a. \A i \in DOMAIN named : \E p \in S : named[i] = rows[p]
  <2>1. PICK l \in Nat : S \in SUBSET (1 .. l)
    BY <1>1, <1>2
  <2>2. DOMAIN D!Picked(rows, S) = 1 .. Cardinality(S)
    BY SameCount DEF D!Picked
  <2>3. ASSUME NEW r, NEW i \in 1 .. Cardinality(S)
        PROVE  \E p \in S : D!Picked(r, S)[i] = r[p]
    BY <2>1, PickedFrom
  <2> QED
    BY <2>2, <2>3
<1>4. /\ m.cols = [i \in DOMAIN named |-> D!ColumnOf(named[i])]
      /\ m.keys = {pk} \ {{}} /\ m.idx = {i \in index : i.col # NoColumnName}
  BY DEF D!FormModel, D!Model, S
<1> HIDE DEF named, m
<1>5. IsFiniteSet(m.keys)
  <2>1. IsFiniteSet({pk})
    BY FS_Singleton
  <2> QED
    BY <1>4, <2>1, FS_Subset
<1>6. IsFiniteSet(m.idx)
  BY <1>4, FS_Subset
<1>7. Sized(m)
  BY <1>3, <1>4, <1>5, <1>6 DEF Sized
<1>8. ASSUME D!Complete PROVE D!NamesOf(m) # {}
  <2>1. S # {}
    BY <1>8 DEF D!Complete, D!FormNames, D!ToSet, S
  <2>2. 1 \in DOMAIN m.cols
    BY <1>3, <1>4, <2>1
  <2> QED
    BY <2>2 DEF D!NamesOf, D!ToSet
<1>9. ASSUME D!Complete, NEW c \in D!ToSet(m.cols), NEW d \in D!ToSet(m.cols), c.name = d.name
      PROVE  c = d
  <2>1. PICK i \in DOMAIN named, j \in DOMAIN named :
          c = D!ColumnOf(named[i]) /\ d = D!ColumnOf(named[j])
    BY <1>4, <1>9 DEF D!ToSet
  <2>2. PICK p \in S, q \in S : named[i] = rows[p] /\ named[j] = rows[q]
    BY <1>3a, <2>1
  <2>3. rows[p].name = rows[q].name /\ rows[p].name # NoColumnName
        /\ p \in DOMAIN rows /\ q \in DOMAIN rows
    BY <1>9, <2>1, <2>2 DEF D!ColumnOf, S
  <2>4. p = q
    BY <1>9, <2>3 DEF D!Complete
  <2> QED
    BY <2>1, <2>2, <2>4
<1> QED
  BY <1>7, <1>8, <1>9 DEF m, Describes

\* What Apply starts: a plan is a rebuild from its BEGIN on, or changes the
\* table where it is.
LEMMA StatementsPlanned ==
  ASSUME Listed(rows), IsFiniteSet(index), Sized(current), D!Complete,
         NEW plan, plan = D!Statements
  PROVE  /\ Planned(plan) /\ (Has(plan, "commit") => Has(plan, "begin"))
         /\ Means(plan, current, D!FormModel)
         /\ Has(plan, "create") \/ Has(plan, "copy") => Has(plan, "rename_table")
         /\ Has(plan, "create") /\ ~ Has(plan, "copy") => Carried(current, D!FormModel) = {}
<1> DEFINE m == D!FormModel
<1>1. Sized(m) /\ Describes(m)
  BY FormSized
<1> HIDE DEF m
<1>2. CASE plan = D!Wrapped(D!RebuildPlan(current, m))
  <2>1. /\ Planned(plan) /\ Has(plan, "begin") /\ Means(plan, current, m)
        /\ ~ Has(plan, "copy") => Carried(current, m) = {}
    BY <1>1, <1>2, RebuildPlanned
  <2>2. Has(plan, "rename_table")
    BY <2>1 DEF Planned, Complete
  <2> QED
    BY <2>1, <2>2 DEF m
<1>3. CASE plan = D!AlterPlan(current, m, dialect)
  <2>1. Alters(plan)
    BY <1>1, <1>3, InPlaceAlters
  <2>2. Planned(plan) /\ Means(plan, current, m)
    BY <2>1, AltersLaid, AltersMeans
  <2>3. ~ Has(plan, "commit") /\ ~ Has(plan, "create") /\ ~ Has(plan, "copy")
    BY <2>1, AltersLaid, PlaceIs
  <2> QED
    BY <2>2, <2>3 DEF m
<1> QED
  BY <1>2, <1>3 DEF D!Statements, D!Plan, m

\* A plan goes on as one: what comes first is over, and what it stood before
\* is still to come.
LEMMA PlanGoesOn ==
  ASSUME NEW t, Planned(t), t # << >>
  PROVE  /\ Planned(Tail(t)) /\ Place(Head(t).op) \in 1 .. 9
         /\ \A op : Has(t, op) <=> Head(t).op = op \/ Has(Tail(t), op)
         /\ \A op : Has(Tail(t), op) =>
              Place(Head(t).op) < Place(op) \/ (Place(Head(t).op) = 7 /\ Place(op) = 7)
         /\ Head(t).op = "create" => Describes(Head(t).arg)
<1> DEFINE u == Tail(t)
           x == Head(t)
<1>1. Listed(t)
  BY DEF Planned
<1>2. /\ Listed(u) /\ 1 \in DOMAIN t /\ x = t[1]
      /\ \A i \in DOMAIN u : i + 1 \in DOMAIN t /\ u[i] = t[i + 1]
      /\ \A i \in DOMAIN t : i = 1 \/ (i - 1 \in DOMAIN u /\ u[i - 1] = t[i])
  BY <1>1, ListedTail
<1>3. DOMAIN u = 1 .. Len(u) /\ Len(u) \in Nat
  BY <1>2, ListedDomain
<1> HIDE DEF u, x
<1>4. \A op : Has(t, op) <=> x.op = op \/ Has(u, op)
  <2> TAKE op
  <2>1. Has(t, op) => x.op = op \/ Has(u, op)
    BY <1>2 DEF Has
  <2>2. Has(u, op) => Has(t, op)
    BY <1>2 DEF Has
  <2>3. x.op = op => Has(t, op)
    BY <1>2 DEF Has
  <2> QED
    BY <2>1, <2>2, <2>3
<1>5. \A op : Has(u, op) => Place(x.op) < Place(op) \/ (Place(x.op) = 7 /\ Place(op) = 7)
  <2> SUFFICES ASSUME NEW i \in DOMAIN u
               PROVE  Place(x.op) < Place(u[i].op) \/ (Place(x.op) = 7 /\ Place(u[i].op) = 7)
    BY DEF Has
  <2>1. 1 < i + 1 /\ i + 1 \in DOMAIN t /\ u[i] = t[i + 1]
    BY <1>2, <1>3
  <2> QED
    BY <1>2, <2>1 DEF Planned, Laid
<1>6. Laid(u)
  <2> SUFFICES ASSUME NEW i \in DOMAIN u, NEW j \in DOMAIN u, i < j
               PROVE  Place(u[i].op) < Place(u[j].op) \/ (Place(u[i].op) = 7 /\ Place(u[j].op) = 7)
    BY DEF Laid
  <2>1. i + 1 < j + 1
    BY <1>3
  <2> QED
    BY <1>2, <2>1 DEF Planned, Laid
<1>7. Between(u, 1, 9)
  BY <1>2 DEF Planned, Between
<1>8. \A i \in DOMAIN u : u[i].op = "create" => Describes(u[i].arg)
  BY <1>2 DEF Planned
<1>9. Complete(u)
  <2>1. ASSUME NEW a, NEW b, Place(a) \in Nat, Place(b) \in Nat, Place(a) < Place(b),
               Has(t, a) => Has(t, b), Has(u, a)
        PROVE  Has(u, b)
    <3>1. Place(x.op) \in Nat
      BY PlaceType
    <3>2. x.op # b
      BY <1>5, <2>1, <3>1
    <3> QED
      BY <1>4, <2>1, <3>2
  <2>2. Complete(t)
    BY DEF Planned
  <2>3. Has(u, "begin") => Has(u, "rename_table")
    BY <2>1, <2>2, PlaceIs DEF Complete
  <2>4. Has(u, "rename_table") => Has(u, "create")
    BY <2>1, <2>2, PlaceIs DEF Complete
  <2>5. Has(u, "create") => Has(u, "drop_backup")
    BY <2>1, <2>2, PlaceIs DEF Complete
  <2>6. Has(u, "copy") => Has(u, "drop_backup")
    BY <2>1, <2>2, PlaceIs DEF Complete
  <2>7. Has(u, "drop_backup") => Has(u, "commit")
    BY <2>1, <2>2, PlaceIs DEF Complete
  <2> QED
    BY <2>3, <2>4, <2>5, <2>6, <2>7 DEF Complete
<1>10. Planned(u)
  BY <1>2, <1>6, <1>7, <1>8, <1>9 DEF Planned
<1>11. Place(x.op) \in 1 .. 9
  BY <1>2, PlaceType DEF Planned, Between
<1>12. x.op = "create" => Describes(x.arg)
  BY <1>2 DEF Planned
<1> QED
  BY <1>4, <1>5, <1>10, <1>11, <1>12 DEF u, x

-----------------------------------------------------------------------------
(* Rebuilds, on the server.                                                *)

\* A table that is there has columns.
Formed(t) ==
  /\ t = [cols |-> t.cols, key |-> t.key, idx |-> t.idx]
  /\ t # D!NoTable => t.cols # {}

Inside(k) == Has(jobs[k].todo, "commit") /\ ~ Has(jobs[k].todo, "begin")

\* Where a rebuild has got to, by what it has left to do.
Stage(t, shown, kept) ==
  /\ Has(t, "rename_table") => shown # D!NoTable /\ kept = D!NoTable
  /\ Has(t, "create") /\ ~ Has(t, "rename_table") => shown = D!NoTable
  /\ ~ Has(t, "create") => shown # D!NoTable /\ (Has(t, "drop_backup") \/ kept = D!NoTable)

Jobs ==
  /\ jobs = [k \in D!Job |-> jobs[k]]
  /\ \A k \in D!Job :
       /\ jobs[k] = [todo |-> jobs[k].todo, warned |-> jobs[k].warned,
                     before |-> jobs[k].before, from |-> jobs[k].from,
                     target |-> jobs[k].target, rows |-> jobs[k].rows,
                     alone |-> jobs[k].alone]
       /\ Planned(jobs[k].todo)

RebuildInv ==
  /\ \A k, l \in D!Job : Inside(k) /\ Inside(l) => k = l
  /\ \A k \in D!Job : Inside(k) => saved # D!NoTable /\ Stage(jobs[k].todo, table, backup)
  /\ saved = D!NoTable => backup = D!NoTable /\ table # D!NoTable

FormInv == Sized(current) /\ Listed(rows) /\ IsFiniteSet(index)

DesignInv == FormInv /\ Jobs /\ Formed(table) /\ Formed(saved) /\ RebuildInv

LEMMA IdlePlanned ==
  /\ Planned(D!Idle.todo) /\ \A op : ~ Has(D!Idle.todo, op)
  /\ D!Idle = [todo |-> D!Idle.todo, warned |-> D!Idle.warned,
               before |-> D!Idle.before, from |-> D!Idle.from,
               target |-> D!Idle.target, rows |-> D!Idle.rows,
               alone |-> D!Idle.alone]
<1>1. D!Idle.todo = << >>
  BY DEF D!Idle
<1>2. Planned(<< >>)
  BY NoneAlters, AltersLaid
<1>3. \A i : i \notin DOMAIN << >>
  BY NoneAlters DEF Alters
<1> QED
  BY <1>1, <1>2, <1>3 DEF Has, D!Idle

\* Taking jobs away, or none, leaves rebuilds where they are.
LEMMA JobsOver ==
  ASSUME DesignInv, Formed(table)', Formed(saved)', FormInv',
         jobs' = [k \in D!Job |-> jobs'[k]],
         \A k \in D!Job : jobs'[k] = jobs[k] \/ jobs'[k] = D!Idle,
         UNCHANGED D!server
  PROVE  DesignInv'
<1>1. Jobs'
  BY IdlePlanned DEF DesignInv, Jobs
<1>2. \A k \in D!Job : Inside(k)' => Inside(k) /\ jobs'[k].todo = jobs[k].todo
  BY IdlePlanned DEF Inside, Has
<1>3. RebuildInv'
  BY <1>2 DEF DesignInv, RebuildInv, D!server, Stage
<1> QED
  BY <1>1, <1>3 DEF DesignInv

\* A statement that is not of a rebuild, or none, leaves each rebuild where it is.
LEMMA AltersTable ==
  ASSUME NEW t, NEW s, Formed(t), t # D!NoTable, s.op \in Altering, D!Accepts(t, s)
  PROVE  Formed(D!Alter(t, s)) /\ D!Alter(t, s) # D!NoTable
<1>0. t.cols # {}
  BY DEF Formed
<1> DEFINE u == D!Alter(t, s)
<1>1. SUFFICES u = [cols |-> u.cols, key |-> u.key, idx |-> u.idx] /\ u.cols # {}
  BY DEF Formed, D!NoTable
<1>2. CASE s.op = "add"
  <2>1. u = [cols |-> t.cols \cup {D!Fresh(s.arg)}, key |-> t.key, idx |-> t.idx]
    BY <1>2 DEF D!Alter
  <2> HIDE DEF u
  <2> QED
    BY <2>1
<1>3. CASE s.op = "rename"
  <2>1. PICK c, d, key, idx : u = [cols |-> (t.cols \ {c}) \cup {d}, key |-> key, idx |-> idx]
    BY <1>3 DEF D!Alter
  <2> HIDE DEF u
  <2> QED
    BY <2>1
<1>4. CASE s.op = "change"
  <2>1. PICK c, d, key, idx : u = [cols |-> (t.cols \ {c}) \cup {d}, key |-> key, idx |-> idx]
    BY <1>4 DEF D!Alter
  <2> HIDE DEF u
  <2> QED
    BY <2>1
<1>5. CASE s.op \in {"set_null", "set_default"}
  <2>1. PICK c, d : u = [t EXCEPT !.cols = (t.cols \ {c}) \cup {d}]
    BY <1>5 DEF D!Alter, D!Replace
  <2> HIDE DEF u
  <2>2. u = [cols |-> (t.cols \ {c}) \cup {d}, key |-> t.key, idx |-> t.idx]
    BY <2>1 DEF Formed
  <2> QED
    BY <2>2
<1>6. CASE s.op = "drop"
  <2>1. PICK key, idx : u = [cols |-> t.cols \ {D!SColumn(t, s.arg)}, key |-> key, idx |-> idx]
    BY <1>6 DEF D!Alter
  <2>2. t.cols # {D!SColumn(t, s.arg)}
    BY <1>6 DEF D!Accepts
  <2> HIDE DEF u
  <2> QED
    BY <1>0, <2>1, <2>2
<1>7. CASE s.op = "add_key"
  <2>1. u = [t EXCEPT !.key = s.arg,
                      !.cols = {[c EXCEPT !.null = @ /\ c.name \notin s.arg] : c \in t.cols}]
    BY <1>7 DEF D!Alter
  <2> DEFINE cs == {[c EXCEPT !.null = @ /\ c.name \notin s.arg] : c \in t.cols}
  <2>2. cs # {}
    BY <1>0
  <2> HIDE DEF cs, u
  <2>3. u = [cols |-> cs, key |-> s.arg, idx |-> t.idx]
    BY <2>1 DEF Formed, cs
  <2> QED
    BY <2>2, <2>3
<1>8. CASE s.op \in {"drop_index", "create_index"}
  <2>1. PICK idx : u = [t EXCEPT !.idx = idx]
    BY <1>8 DEF D!Alter
  <2> HIDE DEF u
  <2>2. u = [cols |-> t.cols, key |-> t.key, idx |-> idx]
    BY <2>1 DEF Formed
  <2> QED
    BY <1>0, <2>2
<1> QED
  BY <1>2, <1>3, <1>4, <1>5, <1>6, <1>7, <1>8 DEF Altering

\* What a job has left after its next statement, and what it means for where
\* rebuilds are: a rebuild is inside from its BEGIN to its COMMIT.
LEMMA RunsOne ==
  ASSUME DesignInv, NEW k \in D!Job, D!RunStatement(k),
         NEW t, t = jobs[k].todo
  PROVE  /\ D!Next1(Head(t)) /\ Planned(t) /\ Planned(Tail(t)) /\ Place(Head(t).op) \in 1 .. 9
         /\ Jobs' /\ FormInv'
         /\ jobs'[k].todo = Tail(t)
         /\ \A l \in D!Job : l # k => jobs'[l] = jobs[l]
         /\ \A op : Has(t, op) <=> Head(t).op = op \/ Has(Tail(t), op)
         /\ \A op : Has(Tail(t), op) =>
              Place(Head(t).op) < Place(op) \/ (Place(Head(t).op) = 7 /\ Place(op) = 7)
         /\ Head(t).op = "create" => Describes(Head(t).arg)
         /\ t # << >> /\ jobs'[k].warned = jobs[k].warned /\ jobs'[k].alone = jobs[k].alone
         /\ jobs'[k].before = jobs[k].before /\ jobs'[k].from = jobs[k].from
         /\ jobs'[k].target = jobs[k].target /\ jobs'[k].rows = jobs[k].rows
<1> DEFINE u == Tail(t)
<1>1. /\ t # << >> /\ D!Next1(Head(t)) /\ jobs' = [jobs EXCEPT ![k].todo = u]
      /\ UNCHANGED <<current, rows, index>>
  BY DEF D!RunStatement, D!form
<1>2. Planned(t)
  BY DEF DesignInv, Jobs
<1>3. /\ Planned(u) /\ Place(Head(t).op) \in 1 .. 9
      /\ \A op : Has(t, op) <=> Head(t).op = op \/ Has(u, op)
      /\ \A op : Has(u, op) =>
           Place(Head(t).op) < Place(op) \/ (Place(Head(t).op) = 7 /\ Place(op) = 7)
      /\ Head(t).op = "create" => Describes(Head(t).arg)
  BY <1>1, <1>2, PlanGoesOn
<1> HIDE DEF u
<1>4. jobs' = [jobs EXCEPT ![k] = [jobs[k] EXCEPT !.todo = u]]
  BY <1>1
<1>5. /\ jobs = [l \in D!Job |-> jobs[l]]
      /\ jobs[k] = [todo |-> jobs[k].todo, warned |-> jobs[k].warned,
                    before |-> jobs[k].before, from |-> jobs[k].from,
                    target |-> jobs[k].target, rows |-> jobs[k].rows,
                    alone |-> jobs[k].alone]
  BY DEF DesignInv, Jobs
<1>6. /\ jobs' = [l \in D!Job |-> jobs'[l]]
      /\ \A l \in D!Job : l # k => jobs'[l] = jobs[l]
      /\ jobs'[k] = [jobs[k] EXCEPT !.todo = u]
  BY <1>4, <1>5
<1>7. jobs'[k] = [todo |-> u, warned |-> jobs[k].warned,
                  before |-> jobs[k].before, from |-> jobs[k].from,
                  target |-> jobs[k].target, rows |-> jobs[k].rows,
                  alone |-> jobs[k].alone]
  <2> DEFINE j == jobs[k]
  <2>1. j = [todo |-> j.todo, warned |-> j.warned, before |-> j.before, from |-> j.from,
             target |-> j.target, rows |-> j.rows, alone |-> j.alone]
    BY <1>5
  <2>2. jobs'[k] = [j EXCEPT !.todo = u]
    BY <1>6
  <2> HIDE DEF j
  <2>3. jobs'[k] = [todo |-> u, warned |-> j.warned, before |-> j.before, from |-> j.from,
                    target |-> j.target, rows |-> j.rows, alone |-> j.alone]
    BY <2>1, <2>2
  <2> QED
    BY <2>3 DEF j
<1>8. /\ jobs'[k].todo = u
      /\ jobs'[k].warned = jobs[k].warned /\ jobs'[k].alone = jobs[k].alone
      /\ jobs'[k].before = jobs[k].before /\ jobs'[k].from = jobs[k].from
      /\ jobs'[k].target = jobs[k].target /\ jobs'[k].rows = jobs[k].rows
  BY <1>7
<1>9. Jobs'
  <2>1. ASSUME NEW l \in D!Job
        PROVE  /\ jobs'[l] = [todo |-> jobs'[l].todo, warned |-> jobs'[l].warned,
                     before |-> jobs'[l].before, from |-> jobs'[l].from,
                     target |-> jobs'[l].target, rows |-> jobs'[l].rows,
                     alone |-> jobs'[l].alone]
               /\ Planned(jobs'[l].todo)
    <3>1. CASE l = k
      BY <1>3, <1>7, <3>1
    <3>2. CASE l # k
      BY <1>6, <3>2 DEF DesignInv, Jobs
    <3> QED
      BY <3>1, <3>2
  <2> QED
    BY <1>6, <2>1 DEF Jobs
<1>10. FormInv'
  BY <1>1 DEF DesignInv, FormInv, Sized
<1> QED
  BY <1>1, <1>2, <1>3, <1>6, <1>8, <1>9, <1>10 DEF u

LEMMA RunStep ==
  ASSUME DesignInv, NEW k \in D!Job, D!RunStatement(k)
  PROVE  DesignInv'
<1> DEFINE t == jobs[k].todo
           s == Head(t)
           u == Tail(t)
<1>1. /\ D!Next1(s) /\ Planned(t) /\ Planned(u) /\ Place(s.op) \in 1 .. 9
      /\ Jobs' /\ FormInv' /\ jobs'[k].todo = u
      /\ \A l \in D!Job : l # k => jobs'[l].todo = jobs[l].todo
      /\ \A op : Has(t, op) <=> s.op = op \/ Has(u, op)
      /\ \A op : Has(u, op) =>
           Place(s.op) < Place(op) \/ (Place(s.op) = 7 /\ Place(op) = 7)
      /\ s.op = "create" => Describes(s.arg)
  BY RunsOne
<1>2. Complete(t) /\ Complete(u)
  BY <1>1 DEF Planned
<1>3. t = jobs[k].todo /\ jobs'[k].todo = u
  BY <1>1
<1> HIDE DEF s, u, t
<1>4. /\ Formed(table) /\ Formed(saved)
      /\ \A l, m \in D!Job : Inside(l) /\ Inside(m) => l = m
      /\ \A l \in D!Job : Inside(l) => saved # D!NoTable /\ Stage(jobs[l].todo, table, backup)
      /\ saved = D!NoTable => backup = D!NoTable /\ table # D!NoTable
  BY DEF DesignInv, RebuildInv
<1>5. /\ \A l \in D!Job : l # k => (Inside(l)' <=> Inside(l))
      /\ Inside(k) <=> Has(t, "commit") /\ ~ Has(t, "begin")
      /\ Inside(k)' <=> Has(u, "commit") /\ ~ Has(u, "begin")
  BY <1>1, <1>3 DEF Inside
\* The tables are left alone, and so is where each rebuild is.
<1>6. ASSUME UNCHANGED <<table, backup, saved>>,
             s.op \notin {"begin", "commit", "rename_table", "create", "drop_backup"}
      PROVE  DesignInv'
  <2>1. \A op \in {"begin", "commit", "rename_table", "create", "drop_backup"} :
          Has(t, op) <=> Has(u, op)
    BY <1>1, <1>6
  <2>2. Inside(k)' <=> Inside(k)
    BY <1>5, <2>1
  <2>3. Stage(t, table, backup) => Stage(u, table', backup')
    BY <1>6, <2>1 DEF Stage
  <2>4. ASSUME NEW l \in D!Job, Inside(l)' PROVE saved' # D!NoTable /\ Stage(jobs'[l].todo, table', backup')
    <3>1. CASE l = k
      BY <1>3, <1>4, <1>6, <2>2, <2>3, <2>4, <3>1
    <3>2. CASE l # k
      BY <1>1, <1>4, <1>5, <1>6, <2>4, <3>2 DEF Stage
    <3> QED
      BY <3>1, <3>2
  <2>5. RebuildInv'
    BY <1>4, <1>5, <1>6, <2>2, <2>4 DEF RebuildInv
  <2> QED
    BY <1>1, <1>4, <1>6, <2>5 DEF DesignInv, Formed

\* What is over is not still to come.
<1>7. /\ \A op : Place(op) # 7 /\ Place(op) <= Place(s.op) => ~ Has(u, op)
      /\ s.op \notin Altering => ~ Has(u, s.op)
  <2>1. \A op : Place(op) \in Nat
    BY PlaceType
  <2>2. \A op : Place(op) # 7 /\ Place(op) <= Place(s.op) => ~ Has(u, op)
    BY <1>1, <2>1
  <2>3. ASSUME s.op \notin Altering PROVE Place(s.op) # 7
    BY <2>3 DEF Place
  <2> QED
    BY <2>1, <2>2, <2>3
\* Inside a rebuild, and no other: the stage goes on, or the rebuild is over.
<1>8. ASSUME s.op \in {"rename_table", "create", "copy", "drop_backup", "commit"}
      PROVE  Inside(k) /\ saved # D!NoTable /\ Stage(t, table, backup) /\ (\A l \in D!Job : Inside(l) => l = k)
  <2>1. Has(t, s.op) /\ Has(t, "commit")
    BY <1>1, <1>2, <1>8 DEF Complete
  <2>2. ~ Has(u, "begin")
    BY <1>7, <1>8, PlaceIs
  <2>3. ~ Has(t, "begin")
    BY <1>1, <1>8, <2>2
  <2> QED
    BY <1>3, <1>4, <1>5, <2>1, <2>3
<1>9. ASSUME s.op \in {"rename_table", "create", "copy", "drop_backup"},
             saved' = saved, Formed(table)', Stage(u, table', backup')
      PROVE  DesignInv'
  <2>1. \A l \in D!Job : Inside(l)' => l = k
    BY <1>5, <1>8, <1>9
  <2>2. \A l \in D!Job : Inside(l)' => saved' # D!NoTable /\ Stage(jobs'[l].todo, table', backup')
    BY <1>3, <1>8, <1>9, <2>1
  <2>3. RebuildInv'
    BY <1>8, <1>9, <2>1, <2>2 DEF RebuildInv
  <2> QED
    BY <1>1, <1>4, <1>9, <2>3 DEF DesignInv, Formed
<1>10. CASE s.op \in {"fk_off", "fk_on"}
  <2>1. UNCHANGED <<table, backup, saved>>
    BY <1>1, <1>10 DEF D!Next1
  <2> QED
    BY <1>6, <1>10, <2>1
<1>11. CASE s.op = "begin"
  <2>1. saved = D!NoTable /\ saved' = table /\ table' = table /\ backup' = backup
    BY <1>1, <1>11 DEF D!Next1
  <2>2. table # D!NoTable /\ backup = D!NoTable
    BY <1>4, <2>1
  <2>3. \A l \in D!Job : Inside(l)' => l = k
    BY <1>4, <1>5, <2>1
  <2>4. Has(u, "rename_table") /\ Has(u, "create")
    BY <1>1, <1>2, <1>11 DEF Complete
  <2>5. Stage(u, table', backup')
    BY <2>1, <2>2, <2>4 DEF Stage
  <2>6. RebuildInv'
    BY <1>3, <2>1, <2>2, <2>3, <2>5 DEF RebuildInv
  <2> QED
    BY <1>1, <1>4, <2>1, <2>6 DEF DesignInv, Formed
<1>12. CASE s.op = "commit"
  <2>1. saved' = D!NoTable /\ table' = table /\ backup' = backup
    BY <1>1, <1>12 DEF D!Next1
  <2>2. ~ Has(u, "create") /\ ~ Has(u, "drop_backup") /\ ~ Has(u, "commit")
    BY <1>7, <1>12, PlaceIs
  <2>3. ~ Has(t, "create") /\ ~ Has(t, "drop_backup")
    BY <1>1, <1>12, <2>2
  <2>4. table # D!NoTable /\ backup = D!NoTable
    BY <1>8, <1>12, <2>3 DEF Stage
  <2>5. \A l \in D!Job : ~ Inside(l)'
    BY <1>5, <1>8, <1>12, <2>2
  <2>6. RebuildInv'
    BY <2>1, <2>4, <2>5 DEF RebuildInv
  <2>7. Formed(saved)' /\ Formed(table)'
    BY <1>4, <2>1 DEF Formed, D!NoTable
  <2> QED
    BY <1>1, <2>6, <2>7 DEF DesignInv
<1>13. CASE s.op = "rename_table"
  <2>1. backup' = table /\ table' = D!NoTable /\ saved' = saved
    BY <1>1, <1>13 DEF D!Next1
  <2>2. Has(u, "create") /\ ~ Has(u, "rename_table")
    BY <1>1, <1>2, <1>7, <1>13, PlaceIs DEF Complete
  <2>3. Stage(u, table', backup')
    BY <2>1, <2>2 DEF Stage
  <2>4. Formed(table)'
    BY <2>1 DEF Formed, D!NoTable
  <2> QED
    BY <1>9, <1>13, <2>1, <2>3, <2>4
<1>14. CASE s.op = "create"
  <2>1. table' = D!Created(s.arg) /\ saved' = saved /\ backup' = backup
    BY <1>1, <1>14 DEF D!Next1
  <2>2. ~ Has(u, "rename_table") /\ ~ Has(u, "create") /\ Has(u, "drop_backup")
    <3>1. ~ Has(u, "rename_table") /\ ~ Has(u, "create")
      BY <1>7, <1>14, PlaceIs
    <3>2. Has(u, "drop_backup")
      BY <1>1, <1>2, <1>14 DEF Complete
    <3> QED
      BY <3>1, <3>2
  <2>3. Formed(table)' /\ table' # D!NoTable
    <3> DEFINE cs == {[D!Fresh(c) EXCEPT !.holes = FALSE,
                                         !.null = c.null /\ c.name \notin D!PrimaryKey(s.arg)]
                        : c \in D!ToSet(s.arg.cols)}
    <3>1. table' = [cols |-> cs, key |-> D!PrimaryKey(s.arg), idx |-> {}]
      BY <2>1 DEF D!Created
    <3>2. D!ToSet(s.arg.cols) # {}
      BY <1>1, <1>14 DEF D!NamesOf, Describes
    <3>3. cs # {}
      BY <3>2
    <3> HIDE DEF cs
    <3> QED
      BY <3>1, <3>3 DEF Formed, D!NoTable
  <2>4. Stage(u, table', backup')
    BY <2>2, <2>3 DEF Stage
  <2> QED
    BY <1>9, <1>14, <2>1, <2>3, <2>4
<1>15. CASE s.op = "copy"
  <2>1. table' = D!Copied(s.arg) /\ saved' = saved /\ backup' = backup
    BY <1>1, <1>15 DEF D!Next1
  <2>2. ~ Has(u, "rename_table") /\ ~ Has(u, "create") /\ Has(u, "drop_backup")
    <3>1. ~ Has(u, "rename_table") /\ ~ Has(u, "create")
      BY <1>7, <1>15, PlaceIs
    <3>2. Has(u, "drop_backup")
      BY <1>1, <1>2, <1>15 DEF Complete
    <3> QED
      BY <3>1, <3>2
  <2>3. table # D!NoTable
    BY <1>1, <1>8, <1>15, <2>2 DEF Stage
  <2>4. Formed(table)' /\ table' # D!NoTable
    <3>1. PICK f : table' = [table EXCEPT !.cols = {f[c] : c \in table.cols}]
      <4> DEFINE f == [c \in table.cols |->
             IF c.name \in {p[1] : p \in s.arg}
               THEN [c EXCEPT !.of = D!SColumn(backup, (CHOOSE p \in s.arg : p[1] = c.name)[2]).of,
                              !.holes = D!SColumn(backup, (CHOOSE p \in s.arg : p[1] = c.name)[2]).holes]
               ELSE [c EXCEPT !.holes = ~c.dflt]]
      <4>1. table' = [table EXCEPT !.cols = {f[c] : c \in table.cols}]
        BY <2>1 DEF D!Copied
      <4> QED
        BY <4>1
    <3> DEFINE cs == {f[c] : c \in table.cols}
    <3>2. cs # {}
      BY <1>4, <2>3 DEF Formed
    <3>3. table' = [table EXCEPT !.cols = cs]
      BY <3>1
    <3> HIDE DEF cs
    <3>4. table = [cols |-> table.cols, key |-> table.key, idx |-> table.idx]
      BY <1>4 DEF Formed
    <3>5. table' = [cols |-> cs, key |-> table.key, idx |-> table.idx]
      BY <3>3, <3>4
    <3> QED
      BY <3>2, <3>5 DEF Formed, D!NoTable
  <2>5. Stage(u, table', backup')
    BY <2>2, <2>4 DEF Stage
  <2> QED
    BY <1>9, <1>15, <2>1, <2>4, <2>5
<1>16. CASE s.op = "drop_backup"
  <2>1. backup' = D!NoTable /\ table' = table /\ saved' = saved
    BY <1>1, <1>16 DEF D!Next1
  <2>2. ~ Has(u, "rename_table") /\ ~ Has(u, "create")
    BY <1>7, <1>16, PlaceIs
  <2>3. ~ Has(t, "create")
    BY <1>1, <1>16, <2>2
  <2>4. table # D!NoTable
    BY <1>8, <1>16, <2>3 DEF Stage
  <2>5. Stage(u, table', backup')
    BY <2>1, <2>2, <2>4 DEF Stage
  <2>6. Formed(table)'
    BY <1>4, <2>1 DEF Formed
  <2> QED
    BY <1>9, <1>16, <2>1, <2>5, <2>6
\* A statement on the visible table: it is there before and after.
<1>17. CASE s.op \in Altering
  <2>1. /\ table # D!NoTable /\ D!Accepts(table, s) /\ table' = D!Alter(table, s)
        /\ backup' = backup /\ saved' = saved
    BY <1>1, <1>17 DEF D!Next1, D!SameServer, Altering
  <2>2. Formed(table)' /\ table' # D!NoTable
    <3>1. Formed(D!Alter(table, s)) /\ D!Alter(table, s) # D!NoTable
      BY <1>4, <1>17, <2>1, AltersTable
    <3> QED
      BY <2>1, <3>1 DEF Formed
  <2>3. \A op \in {"begin", "commit", "rename_table", "create", "drop_backup"} :
          Has(t, op) <=> Has(u, op)
    BY <1>1, <1>17 DEF Altering
  <2>4. ASSUME NEW r, Stage(r, table, backup) PROVE Stage(r, table', backup')
    BY <2>1, <2>2, <2>4 DEF Stage
  <2>5. Stage(t, table, backup) => Stage(u, table, backup)
    BY <2>3 DEF Stage
  <2>6. Inside(k)' <=> Inside(k)
    BY <1>5, <2>3
  <2>7. ASSUME NEW l \in D!Job, Inside(l)' PROVE saved' # D!NoTable /\ Stage(jobs'[l].todo, table', backup')
    <3>1. CASE l = k
      BY <1>3, <1>4, <2>1, <2>4, <2>5, <2>6, <2>7, <3>1
    <3>2. CASE l # k
      BY <1>1, <1>4, <1>5, <2>1, <2>4, <2>7, <3>2
    <3> QED
      BY <3>1, <3>2
  <2>8. RebuildInv'
    BY <1>4, <1>5, <2>1, <2>2, <2>6, <2>7 DEF RebuildInv
  <2> QED
    BY <1>1, <1>4, <2>1, <2>2, <2>8 DEF DesignInv, Formed
<1>18. s.op \in Altering \/ s.op \in {"fk_off", "fk_on", "begin", "commit", "rename_table",
                                      "create", "copy", "drop_backup"}
  BY <1>1 DEF Place
<1> QED
  BY <1>10, <1>11, <1>12, <1>13, <1>14, <1>15, <1>16, <1>17, <1>18

LEMMA ApplyStep ==
  ASSUME DesignInv, D!Apply
  PROVE  DesignInv'
<1> DEFINE plan == D!Statements
           new == [todo |-> plan, warned |-> D!Destructive(plan),
                   before |-> table, from |-> current, target |-> D!FormModel,
                   rows |-> rows, alone |-> TRUE]
<1>1. /\ D!Complete
      /\ jobs' = [k \in D!Job |->
           IF k = applies' THEN IF D!Running = {} THEN new ELSE D!Unwatched(new)
           ELSE IF k \in D!Running THEN D!Unwatched(jobs[k]) ELSE D!Idle]
      /\ UNCHANGED <<table, backup, saved, current, rows, index>>
  BY Zenon DEF D!Apply, D!server, D!form
<1>2. Planned(plan) /\ (Has(plan, "commit") => Has(plan, "begin"))
  BY <1>1, StatementsPlanned DEF DesignInv, FormInv
<1>3. new.todo = plan
  OBVIOUS
<1> DEFINE AJob(j) == j = [todo |-> j.todo, warned |-> j.warned, before |-> j.before,
                           from |-> j.from, target |-> j.target, rows |-> j.rows,
                           alone |-> j.alone]
<1>4. AJob(new)
  OBVIOUS
<1> HIDE DEF plan, new
<1>5. ASSUME NEW j PROVE AJob(D!Unwatched(j)) /\ D!Unwatched(j).todo = j.todo
  <2> DEFINE z == D!Idle
  <2>0. /\ z = [todo |-> z.todo, warned |-> z.warned, before |-> z.before, from |-> z.from,
                target |-> z.target, rows |-> z.rows, alone |-> z.alone]
        /\ D!Unwatched(j) = [z EXCEPT !.todo = j.todo, !.alone = FALSE]
    BY IdlePlanned DEF D!Unwatched
  <2> HIDE DEF z
  <2>1. D!Unwatched(j) = [todo |-> j.todo, warned |-> z.warned, before |-> z.before,
                          from |-> z.from, target |-> z.target, rows |-> z.rows,
                          alone |-> FALSE]
    BY <2>0
  <2> QED
    BY <2>1
<1>6. AJob(D!Idle)
  BY IdlePlanned
<1> HIDE DEF AJob
<1>7. ASSUME NEW k \in D!Job
      PROVE  AJob(jobs'[k]) /\ jobs'[k].todo \in {plan, jobs[k].todo, D!Idle.todo}
  <2>1. jobs'[k] \in {new, D!Unwatched(new), D!Unwatched(jobs[k]), D!Idle}
    BY <1>1
  <2> QED
    BY <1>3, <1>4, <1>5, <1>6, <2>1
<1>8. jobs' = [k \in D!Job |-> jobs'[k]]
  BY <1>1
<1>9. Jobs'
  <2>1. \A k \in D!Job : Planned(jobs'[k].todo)
    BY <1>2, <1>7, IdlePlanned DEF DesignInv, Jobs
  <2> QED
    BY <1>7, <1>8, <2>1 DEF Jobs, AJob
<1>10. \A k \in D!Job : Inside(k)' => Inside(k) /\ jobs'[k].todo = jobs[k].todo
  BY <1>2, <1>7, IdlePlanned DEF Inside
<1>11. RebuildInv'
  BY <1>1, <1>10 DEF DesignInv, RebuildInv
<1> QED
  BY <1>1, <1>9, <1>11 DEF DesignInv, FormInv, Sized, Formed

\* Statements refused, a plan done, and the steps that touch no job.
LEMMA RefusedStep ==
  ASSUME DesignInv, NEW k \in D!Job, D!Refused(k)
  PROVE  DesignInv'
<1>1. /\ jobs' = [jobs EXCEPT ![k] = D!Idle]
      /\ UNCHANGED <<D!server, current, D!form>>
  BY Zenon DEF D!Refused
<1>2. UNCHANGED <<table, saved, current, rows, index>>
  BY <1>1 DEF D!server, D!form
<1>3. jobs = [l \in D!Job |-> jobs[l]]
  BY DEF DesignInv, Jobs
<1>4. /\ jobs' = [l \in D!Job |-> jobs'[l]]
      /\ \A l \in D!Job : jobs'[l] = jobs[l] \/ jobs'[l] = D!Idle
  BY <1>1, <1>3
<1>5. Formed(table)' /\ Formed(saved)' /\ FormInv'
  BY <1>2 DEF DesignInv, FormInv, Sized, Formed
<1> QED
  BY <1>1, <1>4, <1>5, JobsOver

LEMMA DoneStep ==
  ASSUME DesignInv, NEW k \in D!Job, D!Done(k)
  PROVE  DesignInv'
<1>1. /\ jobs' = [jobs EXCEPT ![k] = D!Idle] /\ current' = D!FormModel
      /\ UNCHANGED <<D!server, D!form>>
  BY Zenon DEF D!Done
<1>2. UNCHANGED <<table, saved, rows, index>>
  BY <1>1 DEF D!server, D!form
<1>3. jobs = [l \in D!Job |-> jobs[l]]
  BY DEF DesignInv, Jobs
<1>4. /\ jobs' = [l \in D!Job |-> jobs'[l]]
      /\ \A l \in D!Job : jobs'[l] = jobs[l] \/ jobs'[l] = D!Idle
  BY <1>1, <1>3
<1>5. Sized(D!FormModel)
  BY FormSized DEF DesignInv, FormInv
<1>6. FormInv'
  BY <1>1, <1>2, <1>5 DEF DesignInv, FormInv, Sized
<1>7. Formed(table)' /\ Formed(saved)'
  BY <1>2 DEF DesignInv, Formed
<1> QED
  BY <1>1, <1>4, <1>6, <1>7, JobsOver

LEMMA RollBackStep ==
  ASSUME DesignInv, D!RollBack
  PROVE  DesignInv'
<1>1. /\ D!Running = {} /\ saved # D!NoTable
      /\ table' = saved /\ backup' = D!NoTable /\ saved' = D!NoTable
      /\ UNCHANGED <<current, rows, index, jobs>>
  BY DEF D!RollBack, D!form
<1>2. \A k \in D!Job : jobs[k] = D!Idle
  BY <1>1 DEF D!Running
<1>3. \A k \in D!Job : ~ Inside(k)'
  BY <1>1, <1>2, IdlePlanned DEF Inside
<1>4. RebuildInv'
  BY <1>1, <1>3 DEF RebuildInv
<1>5. Formed(table)' /\ Formed(saved)'
  BY <1>1 DEF DesignInv, Formed, D!NoTable
<1>6. Jobs' /\ FormInv'
  BY <1>1 DEF DesignInv, Jobs, FormInv, Sized
<1> QED
  BY <1>4, <1>5, <1>6 DEF DesignInv

\* An edit of the form keeps its rows a list and its indexes finitely many.
LEMMA FormEdited ==
  ASSUME DesignInv, NEW rs, NEW chosen, NEW ix, D!EditForm(rs, chosen, ix),
         Listed(rs), IsFiniteSet(ix)
  PROVE  DesignInv'
<1> DEFINE f == [i \in ix |-> [i EXCEPT !.col = IF @ \in D!FormNames(rs) THEN @ ELSE NoColumnName]]
<1>1. /\ rows' = rs /\ index' = {f[i] : i \in ix}
      /\ UNCHANGED <<D!server, current, jobs>>
  BY DEF D!EditForm, D!Available
<1>2. IsFiniteSet(index')
  <2>1. f = [i \in ix |-> f[i]]
    OBVIOUS
  <2> HIDE DEF f
  <2>2. f \in Surjection(ix, index')
    <3>1. f \in [ix -> index']
      BY <1>1, <2>1
    <3> QED
      BY <1>1, <3>1 DEF Surjection
  <2> QED
    BY <2>2, FS_Surjection DEF ExistsSurjection
<1> HIDE DEF f
<1>3. UNCHANGED <<table, saved, current>>
  BY <1>1 DEF D!server
<1>4. FormInv'
  BY <1>1, <1>2, <1>3 DEF DesignInv, FormInv, Sized
<1>5. Formed(table)' /\ Formed(saved)'
  BY <1>3 DEF DesignInv, Formed
<1>6. jobs' = [k \in D!Job |-> jobs'[k]] /\ \A k \in D!Job : jobs'[k] = jobs[k]
  BY <1>1 DEF DesignInv, Jobs
<1> QED
  BY <1>1, <1>4, <1>5, <1>6, JobsOver

LEMMA ListedLike ==
  ASSUME NEW s, Listed(s), NEW r, r = [i \in DOMAIN s |-> r[i]]
  PROVE  Listed(r)
<1>1. DOMAIN s = 1 .. Len(s) /\ Len(s) \in Nat
  BY ListedDomain
<1> QED
  BY <1>1, ListedOver

LEMMA ListedWithout ==
  ASSUME NEW s, Listed(s), NEW i \in DOMAIN s
  PROVE  Listed(D!RemoveAt(s, i))
<1>1. s \in Seq(D!ToSet(s)) /\ DOMAIN s = 1 .. Len(s) /\ Len(s) \in Nat
  BY ListedDomain DEF Listed
<1>2. \A j \in 1 .. Len(s) : s[j] \in D!ToSet(s)
  BY <1>1 DEF D!ToSet
<1> DEFINE a == SubSeq(s, 1, i - 1)
           b == SubSeq(s, i + 1, Len(s))
<1>3. a \in Seq(D!ToSet(s))
  <2>1. 1 \in Int /\ i - 1 \in Int /\ \A j \in 1 .. i - 1 : s[j] \in D!ToSet(s)
    BY <1>1, <1>2
  <2> QED
    BY <2>1, SubSeqProperties
<1>4. b \in Seq(D!ToSet(s))
  <2>1. i + 1 \in Int /\ Len(s) \in Int /\ \A j \in i + 1 .. Len(s) : s[j] \in D!ToSet(s)
    BY <1>1, <1>2
  <2> QED
    BY <2>1, SubSeqProperties
<1>5. D!RemoveAt(s, i) = a \o b
  BY DEF D!RemoveAt
<1> HIDE DEF a, b
<1>6. Listed(a \o b)
  BY <1>3, <1>4, ListedIf, ListedJoin
<1> QED
  BY <1>5, <1>6

LEMMA EditStep ==
  ASSUME DesignInv, D!Edit
  PROVE  DesignInv'
<1>1. Listed(rows) /\ IsFiniteSet(index) /\ rows = [i \in DOMAIN rows |-> rows[i]]
  <2>1. Listed(rows) /\ IsFiniteSet(index)
    BY DEF DesignInv, FormInv
  <2>2. rows = [i \in DOMAIN rows |-> rows[i]]
    BY <2>1, LenProperties DEF Listed
  <2> QED
    BY <2>1, <2>2
<1>2. ASSUME NEW i \in DOMAIN rows, NEW n, D!RenameRow(i, n) PROVE DesignInv'
  <2> DEFINE rs == [rows EXCEPT ![i].name = n]
  <2>1. D!EditForm(rs, pk, index)
    BY <1>2, Zenon DEF D!RenameRow
  <2>2. rs = [j \in DOMAIN rows |-> rs[j]]
    BY <1>1
  <2> HIDE DEF rs
  <2> QED
    BY <1>1, <2>1, <2>2, ListedLike, FormEdited
<1>3. ASSUME NEW i \in DOMAIN rows, D!SetNullable(i) PROVE DesignInv'
  <2> DEFINE rs == [rows EXCEPT ![i].null = ~@]
  <2>1. D!EditForm(rs, pk, index)
    BY <1>3, Zenon DEF D!SetNullable
  <2>2. rs = [j \in DOMAIN rows |-> rs[j]]
    BY <1>1
  <2> HIDE DEF rs
  <2> QED
    BY <1>1, <2>1, <2>2, ListedLike, FormEdited
<1>4. ASSUME NEW i \in DOMAIN rows, D!SetDefault(i) PROVE DesignInv'
  <2> DEFINE rs == [rows EXCEPT ![i].dflt = ~@]
  <2>1. D!EditForm(rs, pk, index)
    BY <1>4, Zenon DEF D!SetDefault
  <2>2. rs = [j \in DOMAIN rows |-> rs[j]]
    BY <1>1
  <2> HIDE DEF rs
  <2> QED
    BY <1>1, <2>1, <2>2, ListedLike, FormEdited
<1>5. ASSUME NEW i \in DOMAIN rows, D!RemoveRow(i) PROVE DesignInv'
  <2> DEFINE rs == [rows EXCEPT ![i] =
                      [rows[i] EXCEPT !.name = NoColumnName, !.dflt = FALSE,
                                      !.pk = FALSE, !.null = TRUE]]
  <2>1. D!EditForm(rs, {}, index) \/ D!EditForm(D!RemoveAt(rows, i), pk, index)
    BY <1>5, Zenon DEF D!RemoveRow
  <2>2. rs = [j \in DOMAIN rows |-> rs[j]]
    BY <1>1
  <2> HIDE DEF rs
  <2>3. Listed(rs) /\ Listed(D!RemoveAt(rows, i))
    BY <1>1, <2>2, ListedLike, ListedWithout
  <2> QED
    BY <1>1, <2>1, <2>3, FormEdited
<1>6. ASSUME NEW i \in DOMAIN rows, D!MoveRow(i) PROVE DesignInv'
  <2> DEFINE rs == [rows EXCEPT ![i] = rows[i + 1], ![i + 1] = rows[i]]
  <2>1. D!EditForm(rs, pk, index)
    BY <1>6, Zenon DEF D!MoveRow
  <2>2. rs = [j \in DOMAIN rows |-> rs[j]]
    BY <1>1
  <2> HIDE DEF rs
  <2> QED
    BY <1>1, <2>1, <2>2, ListedLike, FormEdited
<1>7. ASSUME NEW i \in DOMAIN rows, D!TogglePk(i) PROVE DesignInv'
  <2> DEFINE rs == [rows EXCEPT ![i] =
                      [rows[i] EXCEPT !.pk = ~@, !.null = IF rows[i].pk THEN @ ELSE FALSE]]
  <2>1. D!EditForm(rs, D!Flagged(rs) \ {NoColumnName}, index)
    BY <1>7, Zenon DEF D!TogglePk
  <2>2. rs = [j \in DOMAIN rows |-> rs[j]]
    BY <1>1
  <2> HIDE DEF rs
  <2> QED
    BY <1>1, <2>1, <2>2, ListedLike, FormEdited
<1>8. ASSUME NEW n, NEW null, D!AddRow(n, null) PROVE DesignInv'
  <2> DEFINE r == [loaded |-> NoColumnName, name |-> n, null |-> null, pk |-> FALSE, dflt |-> FALSE]
  <2>1. D!EditForm(Append(rows, r), pk, index)
    BY <1>8, Zenon DEF D!AddRow
  <2> HIDE DEF r
  <2>2. Append(rows, r) \in Seq(D!ToSet(rows) \cup {r})
    <3>1. rows \in Seq(D!ToSet(rows) \cup {r})
      BY <1>1, LenProperties, SeqDef DEF Listed
    <3> QED
      BY <3>1, AppendProperties
  <2> QED
    BY <1>1, <2>1, <2>2, ListedIf, FormEdited
<1>9. ASSUME NEW S, D!PickPk(S) PROVE DesignInv'
  <2> DEFINE rs == [i \in DOMAIN rows |->
                      [rows[i] EXCEPT !.pk = rows[i].name \in S,
                                      !.null = IF rows[i].name \in S THEN FALSE ELSE @]]
  <2>1. D!EditForm(rs, S, index)
    BY <1>9, Zenon DEF D!PickPk
  <2>2. rs = [j \in DOMAIN rows |-> rs[j]]
    OBVIOUS
  <2> HIDE DEF rs
  <2> QED
    BY <1>1, <2>1, <2>2, ListedLike, FormEdited
<1>10. ASSUME D!EditIndex PROVE DesignInv'
  <2>1. PICK ix : D!EditForm(rows, pk, ix) /\ (ix = {} \/ \E x : ix = {x})
    BY <1>10, Zenon DEF D!EditIndex
  <2>2. IsFiniteSet(ix)
    BY <2>1, FS_EmptySet, FS_Singleton
  <2> QED
    BY <1>1, <2>1, <2>2, FormEdited
<1> QED
  BY <1>2, <1>3, <1>4, <1>5, <1>6, <1>7, <1>8, <1>9, <1>10 DEF D!Edit

LEMMA DesignInit ==
  ASSUME D!Init
  PROVE  DesignInv
<1>1. PICK a \in ColumnName, b \in ColumnName, holes \in BOOLEAN, key \in BOOLEAN,
           ix \in {{}, {"plain"}} :
        /\ a # b
        /\ LET A == [name |-> a, of |-> a, holes |-> FALSE, null |-> ~key, dflt |-> FALSE]
               Z == [name |-> b, of |-> b, holes |-> holes, null |-> TRUE, dflt |-> TRUE]
               t == [cols |-> {A, Z}, key |-> IF key THEN {a} ELSE {},
                     idx |-> IF ix = {} THEN {} ELSE {[name |-> "ix", col |-> b, unique |-> FALSE]}]
               m == D!Loaded(t, <<a, b>>)
           IN  /\ table = t /\ current = m
               /\ rows = [i \in DOMAIN m.cols |-> D!RowOf(m.cols[i])]
               /\ pk = D!Flagged(rows)
               /\ index = m.idx
  BY Zenon DEF D!Init
<1>2. backup = D!NoTable /\ saved = D!NoTable /\ jobs = [k \in D!Job |-> D!Idle]
  BY DEF D!Init
<1>3. /\ table = [cols |-> table.cols, key |-> table.key, idx |-> table.idx]
      /\ table.cols # {} /\ (table.idx = {} \/ \E x : table.idx = {x})
  BY <1>1
<1>4. current = D!Loaded(table, <<a, b>>) /\ index = current.idx
      /\ rows = [i \in DOMAIN current.cols |-> D!RowOf(current.cols[i])]
  BY <1>1
<1>5. DOMAIN current.cols = 1 .. 2 /\ current.keys = {} /\ current.idx = table.idx
  BY <1>4 DEF D!Loaded, D!Model
<1>6. IsFiniteSet(current.keys) /\ IsFiniteSet(current.idx)
  <2>1. CASE table.idx = {}
    BY <1>5, <2>1, FS_EmptySet
  <2>2. CASE \E x : table.idx = {x}
    <3>1. PICK x : table.idx = {x}
      BY <2>2
    <3>2. IsFiniteSet({x}) /\ IsFiniteSet({})
      BY FS_EmptySet, FS_Singleton
    <3> QED
      BY <1>5, <3>1, <3>2
  <2> QED
    BY <1>3, <2>1, <2>2
<1>7. Listed(rows)
  <2>1. 2 \in Nat /\ rows = [i \in 1 .. 2 |-> rows[i]]
    BY <1>4, <1>5
  <2> QED
    BY <2>1, ListedOver
<1>8. FormInv
  BY <1>4, <1>5, <1>6, <1>7 DEF FormInv, Sized
<1>9. Jobs
  BY <1>2, IdlePlanned DEF Jobs
<1>10. Formed(table) /\ Formed(saved) /\ table # D!NoTable
  BY <1>2, <1>3 DEF Formed, D!NoTable
<1>11. \A k \in D!Job : ~ Inside(k)
  BY <1>2, IdlePlanned DEF Inside
<1>12. RebuildInv
  BY <1>2, <1>10, <1>11 DEF RebuildInv
<1> QED
  BY <1>8, <1>9, <1>10, <1>12 DEF DesignInv

LEMMA DesignNext ==
  ASSUME DesignInv, [D!Next]_D!vars
  PROVE  DesignInv'
<1>1. CASE D!Edit
  BY <1>1, EditStep
<1>2. CASE D!Apply
  BY <1>2, ApplyStep
<1>3. CASE D!RollBack
  BY <1>3, RollBackStep
<1>4. CASE \E k \in D!Job : D!RunStatement(k)
  BY <1>4, RunStep
<1>5. CASE \E k \in D!Job : D!Refused(k)
  BY <1>5, RefusedStep
<1>6. CASE \E k \in D!Job : D!Done(k)
  BY <1>6, DoneStep
<1>7. CASE UNCHANGED D!vars
  <2>1. UNCHANGED <<D!server, table, saved, current, rows, index, jobs>>
    BY <1>7 DEF D!vars, D!server, D!form
  <2>2. Formed(table)' /\ Formed(saved)' /\ FormInv'
    BY <2>1 DEF DesignInv, Formed, FormInv, Sized
  <2>3. jobs' = [k \in D!Job |-> jobs'[k]] /\ \A k \in D!Job : jobs'[k] = jobs[k]
    BY <2>1 DEF DesignInv, Jobs
  <2> QED
    BY <2>1, <2>2, <2>3, JobsOver
<1> QED
  BY <1>1, <1>2, <1>3, <1>4, <1>5, <1>6, <1>7, Zenon DEF D!Next

\* While a rebuild has the table renamed away, or half copied, ROLLBACK brings
\* it back: whatever plans run beside each other on the shared connection, for
\* tables, forms and plans of any size, and whatever the server refuses.
THEOREM HalfwayIsSaved == D!Spec => []D!HalfwayRollsBack
<1>1. D!Init => DesignInv
  BY DesignInit
<1>2. DesignInv /\ [D!Next]_D!vars => DesignInv'
  BY DesignNext
<1>3. DesignInv => D!HalfwayRollsBack
  BY DEF DesignInv, RebuildInv, D!HalfwayRollsBack
<1> QED
  BY <1>1, <1>2, <1>3, PTL DEF D!Spec

-----------------------------------------------------------------------------
(* What a plan that runs alone does to the rows.                           *)

IsColumn(c) ==
  c = [name |-> c.name, of |-> c.of, holes |-> c.holes, null |-> c.null, dflt |-> c.dflt]

\* A table's columns, each of its own name.
Distinct(t) ==
  /\ \A c \in t.cols : IsColumn(c)
  /\ \A c, d \in t.cols : c.name = d.name => c = d

Redefined(c, n, b, e) == [c EXCEPT !.name = n, !.null = b, !.dflt = e]

LEMMA RedefinedIs ==
  ASSUME NEW c, IsColumn(c), NEW n, NEW b, NEW e, NEW d, d = Redefined(c, n, b, e)
  PROVE  IsColumn(d) /\ d.name = n /\ d.of = c.of /\ d.null = b
<1>1. DOMAIN c = {"name", "of", "holes", "null", "dflt"} /\ c = [x \in DOMAIN c |-> c[x]]
  BY DEF IsColumn
<1>2. d = [x \in DOMAIN c |-> CASE x = "name" -> n [] x = "null" -> b [] x = "dflt" -> e
                                 [] OTHER -> c[x]]
  BY <1>1 DEF Redefined
<1>3. DOMAIN d = {"name", "of", "holes", "null", "dflt"} /\ d = [x \in DOMAIN d |-> d[x]]
  BY <1>1, <1>2
<1>4. IsColumn(d)
  BY <1>3 DEF IsColumn
<1>5. d.name = n /\ d.of = c.of /\ d.null = b
  BY <1>1, <1>2
<1> QED
  BY <1>4, <1>5

LEMMA ColumnThere ==
  ASSUME NEW t, NEW n \in D!SNames(t)
  PROVE  D!SColumn(t, n) \in t.cols /\ D!SColumn(t, n).name = n
<1>1. \E c \in t.cols : c.name = n
  BY DEF D!SNames
<1> QED
  BY <1>1 DEF D!SColumn

\* One column changed, and maybe renamed to a free name, with its rows.
LEMMA ColumnChanged ==
  ASSUME NEW t, Distinct(t), NEW c \in t.cols, NEW d, IsColumn(d), d.of = c.of,
         d.name = c.name \/ d.name \notin D!SNames(t),
         NEW u, u.cols = (t.cols \ {c}) \cup {d}
  PROVE  Distinct(u) /\ D!Contents(t) \subseteq D!Contents(u)
<1>1. \A x \in u.cols : IsColumn(x)
  BY DEF Distinct
<1>2. ASSUME NEW x \in u.cols, NEW y \in u.cols, x.name = y.name
      PROVE  x = y
  <2>1. ASSUME NEW z \in t.cols, z # c PROVE z.name # d.name
    BY <2>1 DEF Distinct, D!SNames
  <2> QED
    BY <1>2, <2>1 DEF Distinct
<1>3. ASSUME NEW x \in t.cols PROVE \E y \in u.cols : y.of = x.of
  OBVIOUS
<1>4. D!Contents(t) \subseteq D!Contents(u)
  BY <1>3 DEF D!Contents
<1> QED
  BY <1>1, <1>2, <1>4 DEF Distinct

\* ALTER TABLE keeps names apart, and takes no column's rows but by a DROP.
LEMMA AltersContents ==
  ASSUME NEW t, NEW s, Formed(t), Distinct(t), s.op \in Altering, D!Accepts(t, s)
  PROVE  /\ Distinct(D!Alter(t, s))
         /\ s.op # "drop" => D!Contents(t) \subseteq D!Contents(D!Alter(t, s))
<1> DEFINE u == D!Alter(t, s)
<1>1. CASE s.op = "add"
  <2> DEFINE d == D!Fresh(s.arg)
  <2>1. u = [cols |-> t.cols \cup {d}, key |-> t.key, idx |-> t.idx] /\ s.arg.name \notin D!SNames(t)
    BY <1>1 DEF D!Alter, D!Accepts
  <2>2. IsColumn(d) /\ d.name = s.arg.name
    BY DEF D!Fresh, IsColumn
  <2> HIDE DEF u, d
  <2>3. u.cols = t.cols \cup {d}
    BY <2>1
  <2>4. \A x \in t.cols : x.name # d.name
    BY <2>1, <2>2 DEF D!SNames
  <2>5. Distinct(u)
    BY <2>2, <2>3, <2>4 DEF Distinct
  <2>6. D!Contents(t) \subseteq D!Contents(u)
    BY <2>3 DEF D!Contents
  <2> QED
    BY <2>5, <2>6 DEF u
<1>2. CASE s.op = "rename"
  <2> DEFINE c == D!SColumn(t, s.arg[1])
             d == [c EXCEPT !.name = s.arg[2]]
  <2>1. PICK key, idx : u = [cols |-> (t.cols \ {c}) \cup {d}, key |-> key, idx |-> idx]
    BY <1>2 DEF D!Alter
  <2>2. s.arg[1] \in D!SNames(t) /\ s.arg[2] \notin D!SNames(t)
    BY <1>2 DEF D!Accepts
  <2>3. c \in t.cols
    BY <2>2, ColumnThere
  <2>4. c = [name |-> c.name, of |-> c.of, holes |-> c.holes, null |-> c.null, dflt |-> c.dflt]
    BY <2>3 DEF Distinct, IsColumn
  <2> HIDE DEF u, c
  <2>5. d = [name |-> s.arg[2], of |-> c.of, holes |-> c.holes, null |-> c.null, dflt |-> c.dflt]
    BY <2>4
  <2> HIDE DEF d
  <2>6. IsColumn(d) /\ d.name = s.arg[2] /\ d.of = c.of
    BY <2>5 DEF IsColumn
  <2>7. u.cols = (t.cols \ {c}) \cup {d}
    BY <2>1
  <2>8. Distinct(u) /\ D!Contents(t) \subseteq D!Contents(u)
    BY <2>2, <2>3, <2>6, <2>7, ColumnChanged
  <2> QED
    BY <2>8 DEF u
<1>3. CASE s.op = "change"
  <2> DEFINE c == D!SColumn(t, s.arg[1])
             n == s.arg[2]
             d == [c EXCEPT !.name = n.name, !.null = n.null, !.dflt = n.dflt]
  <2>1. PICK key, idx : u = [cols |-> (t.cols \ {c}) \cup {d}, key |-> key, idx |-> idx]
    BY <1>3 DEF D!Alter
  <2>2. s.arg[1] \in D!SNames(t) /\ n.name \in {s.arg[1]} \cup (ColumnName \ D!SNames(t))
    BY <1>3 DEF D!Accepts
  <2>3. c \in t.cols /\ c.name = s.arg[1]
    BY <2>2, ColumnThere
  <2>4. IsColumn(c)
    BY <2>3 DEF Distinct
  <2> HIDE DEF u, c, n
  <2>5. d = Redefined(c, n.name, n.null, n.dflt)
    BY DEF Redefined
  <2> HIDE DEF d
  <2>6. IsColumn(d) /\ d.name = n.name /\ d.of = c.of
    BY <2>4, <2>5, RedefinedIs
  <2>7. u.cols = (t.cols \ {c}) \cup {d}
    BY <2>1
  <2>8. Distinct(u) /\ D!Contents(t) \subseteq D!Contents(u)
    BY <2>2, <2>3, <2>6, <2>7, ColumnChanged
  <2> QED
    BY <2>8 DEF u
<1>4. CASE s.op \in {"set_null", "set_default"}
  <2> DEFINE c == D!SColumn(t, s.arg[1])
  <2>1. s.arg[1] \in D!SNames(t)
    BY <1>4 DEF D!Accepts
  <2>2. c \in t.cols
    BY <2>1, ColumnThere
  <2>3. c = [name |-> c.name, of |-> c.of, holes |-> c.holes, null |-> c.null, dflt |-> c.dflt]
    BY <2>2 DEF Distinct, IsColumn
  <2>4. PICK d : /\ u = [t EXCEPT !.cols = (t.cols \ {c}) \cup {d}]
                 /\ \E b : d = [c EXCEPT !.null = b] \/ d = [c EXCEPT !.dflt = b]
    <3>1. CASE s.op = "set_null"
      <4>1. u = D!Replace(t, s.arg[1], [c EXCEPT !.null = s.arg[2]])
        BY <3>1 DEF D!Alter
      <4> QED
        BY <4>1 DEF D!Replace
    <3>2. CASE s.op = "set_default"
      <4>1. u = D!Replace(t, s.arg[1], [c EXCEPT !.dflt = s.arg[2]])
        BY <3>2 DEF D!Alter
      <4> QED
        BY <4>1 DEF D!Replace
    <3> QED
      BY <1>4, <3>1, <3>2
  <2> HIDE DEF u, c
  <2>5. d.name = c.name /\ d.of = c.of /\ IsColumn(d)
    BY <2>3, <2>4 DEF IsColumn
  <2>6. u.cols = (t.cols \ {c}) \cup {d}
    BY <2>4 DEF Formed
  <2>7. Distinct(u) /\ D!Contents(t) \subseteq D!Contents(u)
    BY <2>2, <2>5, <2>6, ColumnChanged
  <2> QED
    BY <2>7 DEF u
<1>5. CASE s.op = "drop"
  <2>1. PICK c, key, idx : u = [cols |-> t.cols \ {c}, key |-> key, idx |-> idx]
    BY <1>5 DEF D!Alter
  <2> HIDE DEF u
  <2>2. u.cols \subseteq t.cols
    BY <2>1
  <2>3. Distinct(u)
    BY <2>2 DEF Distinct
  <2> QED
    BY <1>5, <2>3 DEF u
<1>6. CASE s.op = "add_key"
  <2> DEFINE f == [c \in t.cols |-> [c EXCEPT !.null = c.null /\ c.name \notin s.arg]]
  <2>1. u = [t EXCEPT !.key = s.arg, !.cols = {f[c] : c \in t.cols}]
    BY <1>6 DEF D!Alter
  <2>2. ASSUME NEW c \in t.cols
        PROVE  IsColumn(f[c]) /\ f[c].name = c.name /\ f[c].of = c.of
    <3>1. c = [name |-> c.name, of |-> c.of, holes |-> c.holes, null |-> c.null, dflt |-> c.dflt]
      BY DEF Distinct, IsColumn
    <3>2. PICK b : f[c] = [c EXCEPT !.null = b]
      OBVIOUS
    <3> HIDE DEF f
    <3> QED
      BY <3>1, <3>2 DEF IsColumn
  <2> HIDE DEF u, f
  <2>3. u.cols = {f[c] : c \in t.cols}
    BY <2>1 DEF Formed
  <2>4. \A x \in u.cols, y \in u.cols : x.name = y.name => x = y
    BY <2>2, <2>3 DEF Distinct
  <2>5. Distinct(u)
    BY <2>2, <2>3, <2>4 DEF Distinct
  <2>6. D!Contents(t) \subseteq D!Contents(u)
    BY <2>2, <2>3 DEF D!Contents
  <2> QED
    BY <2>5, <2>6 DEF u
<1>7. CASE s.op \in {"drop_index", "create_index"}
  <2>1. PICK idx : u = [t EXCEPT !.idx = idx]
    <3>1. CASE s.op = "drop_index"
      BY <3>1 DEF D!Alter
    <3>2. CASE s.op = "create_index"
      BY <3>2 DEF D!Alter
    <3> QED
      BY <1>7, <3>1, <3>2
  <2> HIDE DEF u
  <2>2. u.cols = t.cols
    BY <2>1 DEF Formed
  <2>3. Distinct(u) /\ D!Contents(t) \subseteq D!Contents(u)
    BY <2>2 DEF Distinct, D!Contents
  <2> QED
    BY <2>3 DEF u
<1> QED
  BY <1>1, <1>2, <1>3, <1>4, <1>5, <1>6, <1>7 DEF Altering

\* A created table has the columns it was to have; a copy fills them, and a
\* column some pair names as its source keeps its rows.
LEMMA CreatedTable ==
  ASSUME NEW m, Describes(m)
  PROVE  /\ Distinct(D!Created(m)) /\ D!SNames(D!Created(m)) = D!NamesOf(m)
         /\ \A x \in D!Created(m).cols :
              /\ x.of = NoColumnName
              /\ \E c \in D!ToSet(m.cols) :
                   c.name = x.name /\ x.null = (c.null /\ c.name \notin D!PrimaryKey(m))
<1> DEFINE cs == D!ToSet(m.cols)
           f(c) == [D!Fresh(c) EXCEPT !.holes = FALSE,
                                      !.null = c.null /\ c.name \notin D!PrimaryKey(m)]
           u == D!Created(m)
<1>1. u = [cols |-> {f(c) : c \in cs}, key |-> D!PrimaryKey(m), idx |-> {}]
  BY DEF D!Created
<1>2. ASSUME NEW c \in cs
      PROVE  /\ IsColumn(f(c)) /\ f(c).name = c.name /\ f(c).of = NoColumnName
             /\ f(c).null = (c.null /\ c.name \notin D!PrimaryKey(m))
  <2> DEFINE b == c.null /\ c.name \notin D!PrimaryKey(m)
  <2>1. f(c) = [D!Fresh(c) EXCEPT !.holes = FALSE, !.null = b]
    OBVIOUS
  <2> HIDE DEF f, b
  <2>2. IsColumn(f(c)) /\ f(c).name = c.name /\ f(c).of = NoColumnName /\ f(c).null = b
    BY <2>1 DEF D!Fresh, IsColumn
  <2> QED
    BY <2>2 DEF b
<1> HIDE DEF f, u
<1>3. u.cols = {f(c) : c \in cs}
  BY <1>1
<1>4. \A x \in u.cols, y \in u.cols : x.name = y.name => x = y
  BY <1>2, <1>3 DEF Describes
<1>5. Distinct(u)
  BY <1>2, <1>3, <1>4 DEF Distinct
<1>6. D!SNames(u) = D!NamesOf(m)
  BY <1>2, <1>3 DEF D!SNames, D!NamesOf
<1>7. \A x \in u.cols :
        /\ x.of = NoColumnName
        /\ \E c \in cs : c.name = x.name /\ x.null = (c.null /\ c.name \notin D!PrimaryKey(m))
  BY <1>2, <1>3
<1> QED
  BY <1>5, <1>6, <1>7 DEF u

LEMMA CopiedTable ==
  ASSUME Formed(table), Distinct(table), NEW pairs
  PROVE  /\ Distinct(D!Copied(pairs))
         /\ \A c \in table.cols, p \in pairs :
              c.name = p[1] /\ (\A q \in pairs : q[1] = p[1] => q = p) =>
                \E d \in D!Copied(pairs).cols : d.of = D!SColumn(backup, p[2]).of
         /\ D!SNames(D!Copied(pairs)) = D!SNames(table)
         /\ \A d \in D!Copied(pairs).cols : \E c \in table.cols :
              /\ d.name = c.name /\ d.null = c.null
              /\ (\A p \in pairs : p[1] # c.name) => d.of = c.of
              /\ \A p \in pairs : c.name = p[1] /\ (\A q \in pairs : q[1] = p[1] => q = p) =>
                   d.of = D!SColumn(backup, p[2]).of
<1> DEFINE carried == {p[1] : p \in pairs}
           src(n) == D!SColumn(backup, (CHOOSE p \in pairs : p[1] = n)[2])
           f(c) == IF c.name \in carried
                     THEN [c EXCEPT !.of = src(c.name).of, !.holes = src(c.name).holes]
                     ELSE [c EXCEPT !.holes = ~c.dflt]
           u == D!Copied(pairs)
<1>1. u = [table EXCEPT !.cols = {f(c) : c \in table.cols}]
  BY DEF D!Copied
<1>2. ASSUME NEW c \in table.cols
      PROVE  /\ IsColumn(f(c)) /\ f(c).name = c.name /\ f(c).null = c.null
             /\ (c.name \in carried => f(c).of = src(c.name).of)
             /\ (c.name \notin carried => f(c).of = c.of)
  <2>1. c = [name |-> c.name, of |-> c.of, holes |-> c.holes, null |-> c.null, dflt |-> c.dflt]
    BY DEF Distinct, IsColumn
  <2> HIDE DEF src, carried
  <2>2. CASE c.name \in carried
    <3> DEFINE o == src(c.name).of
               h == src(c.name).holes
    <3>1. f(c) = [c EXCEPT !.of = o, !.holes = h]
      BY <2>2
    <3> HIDE DEF f, h
    <3>3. f(c).of = o /\ IsColumn(f(c)) /\ f(c).name = c.name /\ f(c).null = c.null
      BY <2>1, <3>1 DEF IsColumn
    <3> QED
      BY <2>2, <3>3
  <2>3. CASE c.name \notin carried
    <3>1. PICK h : f(c) = [c EXCEPT !.holes = h]
      BY <2>3
    <3> HIDE DEF f
    <3> QED
      BY <2>1, <2>3, <3>1 DEF IsColumn
  <2> QED
    BY <2>2, <2>3
<1> HIDE DEF f, u
<1>3. u.cols = {f(c) : c \in table.cols}
  BY <1>1 DEF Formed
<1>4. \A x \in u.cols, y \in u.cols : x.name = y.name => x = y
  BY <1>2, <1>3 DEF Distinct
<1>5. Distinct(u)
  BY <1>2, <1>3, <1>4 DEF Distinct
<1>6. ASSUME NEW c \in table.cols, NEW p \in pairs, c.name = p[1],
             \A q \in pairs : q[1] = p[1] => q = p
      PROVE  \E d \in u.cols : d.of = D!SColumn(backup, p[2]).of
  <2>1. (CHOOSE q \in pairs : q[1] = p[1]) = p
    BY <1>6
  <2>2. src(c.name) = D!SColumn(backup, p[2])
    BY <1>6, <2>1
  <2>3. c.name \in carried
    BY <1>6
  <2> QED
    BY <1>2, <1>3, <2>2, <2>3
<1>7. D!SNames(u) = D!SNames(table)
  BY <1>2, <1>3 DEF D!SNames
<1>8. ASSUME NEW d \in u.cols
      PROVE  \E c \in table.cols :
              /\ d.name = c.name /\ d.null = c.null
              /\ (\A p \in pairs : p[1] # c.name) => d.of = c.of
              /\ \A p \in pairs : c.name = p[1] /\ (\A q \in pairs : q[1] = p[1] => q = p) =>
                   d.of = D!SColumn(backup, p[2]).of
  <2>1. PICK c \in table.cols : d = f(c)
    BY <1>3
  <2>2. d.name = c.name /\ d.null = c.null
    BY <1>2, <2>1
  <2>3. ASSUME \A p \in pairs : p[1] # c.name PROVE d.of = c.of
    BY <1>2, <2>1, <2>3
  <2>4. ASSUME NEW p \in pairs, c.name = p[1], \A q \in pairs : q[1] = p[1] => q = p
        PROVE  d.of = D!SColumn(backup, p[2]).of
    <3>1. (CHOOSE q \in pairs : q[1] = p[1]) = p
      BY <2>4
    <3>2. src(c.name) = D!SColumn(backup, p[2]) /\ c.name \in carried
      BY <2>4, <3>1
    <3> QED
      BY <1>2, <2>1, <3>2
  <2> QED
    BY <2>2, <2>3, <2>4
<1> QED
  BY <1>5, <1>6, <1>7, <1>8 DEF u

Copies(t) == Has(t, "create") \/ Has(t, "copy")

\* What a plan with the statements t left, which takes no column away, keeps
\* of the table it began from: the rows are in the visible table, or each
\* column of the one renamed away is still to be copied.
Keeps(t, j, shown, kept) ==
  /\ Means(t, j.from, j.target)
  /\ \A i \in DOMAIN t : t[i].class # "destructive"
  /\ Copies(t) =>
       /\ \A x \in j.before.cols : \E p \in Carried(j.from, j.target) : p[2] = x.name
       /\ (IF Has(t, "rename_table") THEN shown ELSE kept) = j.before
  /\ Has(t, "copy") /\ ~ Has(t, "create") => D!SNames(shown) = D!NamesOf(j.target)
  /\ Has(t, "create") /\ ~ Has(t, "copy") => Carried(j.from, j.target) = {}
  /\ ~ Copies(t) => D!Contents(j.before) \subseteq D!Contents(shown)

LEMMA CarriedOnce ==
  ASSUME NEW cur, NEW m, Describes(m), NEW p \in Carried(cur, m)
  PROVE  p[1] \in D!NamesOf(m) /\ \A q \in Carried(cur, m) : q[1] = p[1] => q = p
<1>1. PICK c \in D!ToSet(m.cols) : p = <<c.name, D!Matched(cur, c).name>>
  BY DEF Carried
<1>2. p[1] \in D!NamesOf(m)
  BY <1>1 DEF D!NamesOf
<1>3. ASSUME NEW q \in Carried(cur, m), q[1] = p[1] PROVE q = p
  <2>1. PICK d \in D!ToSet(m.cols) : q = <<d.name, D!Matched(cur, d).name>>
    BY DEF Carried
  <2>2. c = d
    BY <1>1, <1>3, <2>1 DEF Describes
  <2> QED
    BY <1>1, <2>1, <2>2
<1> QED
  BY <1>2, <1>3

\* The plan of Apply: none of the columns it names as dropped is missed.
LEMMA KeepsFirst ==
  ASSUME Listed(rows), IsFiniteSet(index), Sized(current), D!Complete,
         NEW plan, plan = D!Statements, ~ D!Destructive(plan),
         NEW j, j.from = current, j.target = D!FormModel, j.before = table,
         D!Accurate(j)
  PROVE  Keeps(plan, j, table, backup)
<1>1. /\ Planned(plan) /\ Means(plan, j.from, j.target)
      /\ Has(plan, "create") \/ Has(plan, "copy") => Has(plan, "rename_table")
      /\ Has(plan, "create") /\ ~ Has(plan, "copy") => Carried(j.from, j.target) = {}
  BY StatementsPlanned
<1>2. \A i \in DOMAIN plan : plan[i].class # "destructive"
  BY DEF D!Destructive
<1>3. ASSUME Copies(plan), NEW x \in j.before.cols
      PROVE  \E p \in Carried(j.from, j.target) : p[2] = x.name
  <2>1. PICK i \in DOMAIN plan : plan[i].op = "drop_backup"
    BY <1>1, <1>3 DEF Copies, Planned, Complete, Has
  <2>2. D!NamesOf(j.from) \ D!Kept(j.from, j.target) = {}
    BY <1>1, <1>2, <2>1 DEF Means, Says
  <2>3. x.name \in D!NamesOf(j.from)
    BY <1>3 DEF D!Accurate, D!SNames
  <2>4. x.name \in D!Kept(j.from, j.target)
    BY <2>2, <2>3
  <2>5. PICK c \in D!ToSet(j.target.cols) :
          D!Found(j.from, c) /\ D!Matched(j.from, c).name = x.name
    BY <2>4 DEF D!Kept
  <2>6. <<c.name, D!Matched(j.from, c).name>> \in Carried(j.from, j.target)
    BY <2>5 DEF Carried
  <2> QED
    BY <2>5, <2>6
<1>4. Copies(plan) => Has(plan, "rename_table") /\ Has(plan, "create")
  BY <1>1 DEF Copies, Planned, Complete
<1> QED
  BY <1>1, <1>2, <1>3, <1>4 DEF Keeps, Copies

\* And every statement of it.
LEMMA KeepsOn ==
  ASSUME NEW t, Planned(t), t # << >>, D!Next1(Head(t)),
         NEW j, Keeps(t, j, table, backup), Distinct(j.before), Describes(j.target),
         Formed(table), Distinct(table)
  PROVE  Keeps(Tail(t), j, table', backup')
<1> DEFINE s == Head(t)
           u == Tail(t)
<1>1. /\ Place(s.op) \in 1 .. 9
      /\ \A op : Has(t, op) <=> s.op = op \/ Has(u, op)
      /\ \A op : Has(u, op) => Place(s.op) < Place(op) \/ (Place(s.op) = 7 /\ Place(op) = 7)
      /\ D!Next1(s)
  BY PlanGoesOn
<1>2. /\ \A i \in DOMAIN u : \E l \in DOMAIN t : u[i] = t[l]
      /\ \E l \in DOMAIN t : s = t[l]
  <2>1. Listed(t)
    BY DEF Planned
  <2> QED
    BY <2>1, ListedTail
<1> SUFFICES Keeps(u, j, table', backup')
  OBVIOUS
<1> HIDE DEF s, u
<1>3. Means(u, j.from, j.target) /\ Says(s, j.from, j.target)
  BY <1>2 DEF Keeps, Means
<1>4. (\A i \in DOMAIN u : u[i].class # "destructive") /\ s.class # "destructive"
  BY <1>2 DEF Keeps
<1>5. \A op : Place(op) # 7 /\ Place(op) <= Place(s.op) => ~ Has(u, op)
  <2>1. \A op : Place(op) \in Nat
    BY PlaceType
  <2> QED
    BY <1>1, <2>1
<1>6. CASE s.op \in {"fk_off", "fk_on", "begin", "commit", "drop_backup"}
  <2>1. \A op \in {"create", "copy", "rename_table"} : Has(t, op) <=> Has(u, op)
    BY <1>1, <1>6
  <2>2. table' = table
    BY <1>1, <1>6 DEF D!Next1
  <2>3. CASE s.op = "drop_backup"
    <3>1. ~ Copies(u)
      BY <1>5, <2>3, PlaceIs DEF Copies
    <3> QED
      BY <1>3, <1>4, <2>1, <2>2, <3>1 DEF Keeps, Copies
  <2>4. CASE s.op # "drop_backup"
    <3>1. backup' = backup
      BY <1>1, <1>6, <2>4 DEF D!Next1
    <3> QED
      BY <1>3, <1>4, <2>1, <2>2, <3>1 DEF Keeps, Copies
  <2> QED
    BY <2>3, <2>4
<1>7. CASE s.op = "rename_table"
  <2>1. backup' = table
    BY <1>1, <1>7 DEF D!Next1
  <2>2. ~ Has(u, "rename_table") /\ Has(t, "rename_table") /\ Has(t, "create")
    BY <1>1, <1>5, <1>7, PlaceIs DEF Planned, Complete
  <2>3. Has(u, "create") /\ (Has(u, "copy") <=> Has(t, "copy"))
    BY <1>1, <1>7, <2>2
  <2> QED
    BY <1>3, <1>4, <2>1, <2>2, <2>3 DEF Keeps, Copies
<1>8. CASE s.op = "create"
  <2>1. table' = D!Created(j.target) /\ backup' = backup
    BY <1>1, <1>3, <1>8 DEF D!Next1, Says
  <2>2. ~ Has(u, "rename_table") /\ ~ Has(u, "create")
    BY <1>5, <1>8, PlaceIs
  <2>3. Has(t, "create") /\ ~ Has(t, "rename_table") /\ (Has(u, "copy") <=> Has(t, "copy"))
    BY <1>1, <1>8, <2>2
  <2>4. D!SNames(table') = D!NamesOf(j.target)
    BY <2>1, CreatedTable
  <2>5. CASE Has(u, "copy")
    BY <1>3, <1>4, <2>1, <2>2, <2>3, <2>4, <2>5 DEF Keeps, Copies
  <2>6. CASE ~ Has(u, "copy")
    <3>1. j.before.cols = {}
      BY <2>3, <2>6 DEF Keeps, Copies
    <3>2. D!Contents(j.before) = {}
      BY <3>1 DEF D!Contents
    <3> QED
      BY <1>3, <1>4, <2>2, <2>6, <3>2 DEF Keeps, Copies
  <2> QED
    BY <2>5, <2>6
<1>9. CASE s.op = "copy"
  <2> DEFINE pairs == Carried(j.from, j.target)
  <2>1. table' = D!Copied(pairs)
    BY <1>1, <1>3, <1>9 DEF D!Next1, Says
  <2>2. ~ Has(u, "rename_table") /\ ~ Has(u, "create") /\ ~ Has(u, "copy")
    BY <1>5, <1>9, PlaceIs
  <2>3. Has(t, "copy") /\ ~ Has(t, "rename_table") /\ ~ Has(t, "create")
    BY <1>1, <1>9, <2>2
  <2>4. /\ backup = j.before /\ D!SNames(table) = D!NamesOf(j.target)
        /\ \A x \in j.before.cols : \E p \in pairs : p[2] = x.name
    BY <2>3 DEF Keeps, Copies
  <2>5. ASSUME NEW x \in j.before.cols
        PROVE  \E d \in table'.cols : d.of = x.of
    <3>1. PICK p \in pairs : p[2] = x.name
      BY <2>4
    <3>2. p[1] \in D!NamesOf(j.target) /\ \A q \in pairs : q[1] = p[1] => q = p
      BY CarriedOnce
    <3>3. PICK c \in table.cols : c.name = p[1]
      BY <2>4, <3>2 DEF D!SNames
    <3> HIDE DEF pairs
    <3>4. \E d \in D!Copied(pairs).cols : d.of = D!SColumn(backup, p[2]).of
      BY <3>2, <3>3, CopiedTable
    <3>5. D!SColumn(backup, p[2]) = x
      <4>1. x.name \in D!SNames(backup)
        BY <2>4 DEF D!SNames
      <4> QED
        BY <2>4, <3>1, <4>1, ColumnThere DEF Distinct
    <3> QED
      BY <2>1, <3>4, <3>5
  <2>6. D!Contents(j.before) \subseteq D!Contents(table')
    BY <2>5 DEF D!Contents
  <2> QED
    BY <1>3, <1>4, <2>2, <2>6 DEF Keeps, Copies
<1>10. CASE s.op \in Altering
  <2>1. ~ Has(u, "rename_table") /\ ~ Has(u, "create") /\ ~ Has(u, "copy")
    BY <1>5, <1>10, PlaceIs
  <2>2. ~ Has(t, "create") /\ ~ Has(t, "copy")
    BY <1>1, <1>10, <2>1 DEF Altering
  <2>3. D!Accepts(table, s) /\ table' = D!Alter(table, s)
    BY <1>1, <1>10 DEF D!Next1, Altering
  <2>4. s.op # "drop"
    BY <1>3, <1>4 DEF Says
  <2>5. D!Contents(table) \subseteq D!Contents(table')
    <3>1. D!Contents(table) \subseteq D!Contents(D!Alter(table, s))
      BY <1>10, <2>3, <2>4, AltersContents
    <3> QED
      BY <2>3, <3>1
  <2>6. D!Contents(j.before) \subseteq D!Contents(table')
    BY <2>2, <2>5 DEF Keeps, Copies
  <2> QED
    BY <1>3, <1>4, <2>1, <2>6 DEF Keeps, Copies
<1>11. s.op \in Altering \/ s.op \in {"fk_off", "fk_on", "begin", "commit", "rename_table",
                                      "create", "copy", "drop_backup"}
  BY <1>1 DEF Place
<1> QED
  BY <1>6, <1>7, <1>8, <1>9, <1>10, <1>11

\* A plan that runs alone, made against the table as it is, without a warning.
Keeping(k) ==
  k \in D!Running /\ jobs[k].alone =>
    /\ D!Running \subseteq {k} /\ Distinct(jobs[k].before) /\ Describes(jobs[k].target)
    /\ D!Accurate(jobs[k]) /\ ~ jobs[k].warned => Keeps(jobs[k].todo, jobs[k], table, backup)

LossInv == Distinct(table) /\ Distinct(saved) /\ \A k \in D!Job : Keeping(k)

LEMMA EditsForm ==
  ASSUME D!Edit
  PROVE  UNCHANGED <<D!server, jobs>>
<1>1. PICK rs, chosen, ix : D!EditForm(rs, chosen, ix)
  BY Zenon DEF D!Edit, D!RenameRow, D!SetNullable, D!SetDefault, D!AddRow, D!RemoveRow,
               D!MoveRow, D!TogglePk, D!PickPk, D!EditIndex
<1> QED
  BY <1>1 DEF D!EditForm

LEMMA NoTableDistinct == Distinct(D!NoTable)
BY DEF Distinct, D!NoTable

\* Jobs that are taken away, or left alone.
LEMMA LossOver ==
  ASSUME LossInv, \A k \in D!Job : jobs'[k] = jobs[k] \/ jobs'[k] = D!Idle,
         UNCHANGED <<table, backup, saved>>
  PROVE  LossInv'
<1>1. D!Running' \subseteq D!Running
  BY DEF D!Running
<1>2. ASSUME NEW k \in D!Job PROVE Keeping(k)'
  <2>1. CASE k \in D!Running'
    <3>1. jobs'[k] = jobs[k] /\ k \in D!Running
      BY <1>1, <2>1 DEF D!Running
    <3>2. Keeping(k)
      BY DEF LossInv
    <3> QED
      BY <1>1, <3>1, <3>2 DEF Keeping
  <2>2. CASE k \notin D!Running'
    BY <2>2 DEF Keeping
  <2> QED
    BY <2>1, <2>2
<1>3. Distinct(table)' /\ Distinct(saved)'
  BY DEF LossInv, Distinct
<1> QED
  BY <1>2, <1>3 DEF LossInv

\* Names stay apart on the server, whatever it is told.
LEMMA DistinctOn ==
  ASSUME NEW s, D!Next1(s), Place(s.op) \in 1 .. 9, s.op = "create" => Describes(s.arg),
         Formed(table), Distinct(table), Distinct(saved)
  PROVE  Distinct(table') /\ Distinct(saved')
<1>1. CASE s.op \in {"fk_off", "fk_on", "begin", "commit", "drop_backup"}
  <2>1. table' = table /\ saved' \in {saved, table, D!NoTable}
    BY <1>1 DEF D!Next1
  <2> QED
    BY <2>1, NoTableDistinct
<1>2. CASE s.op = "rename_table"
  <2>1. table' = D!NoTable /\ saved' = saved
    BY <1>2 DEF D!Next1
  <2> QED
    BY <2>1, NoTableDistinct
<1>3. CASE s.op = "create"
  <2>1. table' = D!Created(s.arg) /\ saved' = saved
    BY <1>3 DEF D!Next1
  <2> QED
    BY <1>3, <2>1, CreatedTable
<1>4. CASE s.op = "copy"
  <2>1. table' = D!Copied(s.arg) /\ saved' = saved
    BY <1>4 DEF D!Next1
  <2>2. Distinct(D!Copied(s.arg))
    BY CopiedTable
  <2> QED
    BY <2>1, <2>2
<1>5. CASE s.op \in Altering
  <2>1. D!Accepts(table, s) /\ table' = D!Alter(table, s) /\ saved' = saved
    BY <1>5 DEF D!Next1, D!SameServer, Altering
  <2>2. Distinct(D!Alter(table, s))
    BY <1>5, <2>1, AltersContents
  <2> QED
    BY <2>1, <2>2
<1>6. s.op \in Altering \/ s.op \in {"fk_off", "fk_on", "begin", "commit", "rename_table",
                                     "create", "copy", "drop_backup"}
  BY DEF Place
<1> QED
  BY <1>1, <1>2, <1>3, <1>4, <1>5, <1>6

LEMMA LossRun ==
  ASSUME DesignInv, LossInv, NEW k \in D!Job, D!RunStatement(k)
  PROVE  LossInv'
<1>1. PICK t : t = jobs[k].todo
  OBVIOUS
<1>2. /\ D!Next1(Head(t)) /\ Planned(t) /\ Place(Head(t).op) \in 1 .. 9
      /\ jobs'[k].todo = Tail(t) /\ t # << >>
      /\ \A l \in D!Job : l # k => jobs'[l] = jobs[l]
      /\ Head(t).op = "create" => Describes(Head(t).arg)
      /\ jobs'[k].warned = jobs[k].warned /\ jobs'[k].alone = jobs[k].alone
      /\ jobs'[k].before = jobs[k].before /\ jobs'[k].from = jobs[k].from
      /\ jobs'[k].target = jobs[k].target
  BY <1>1, RunsOne
<1>3. k \in D!Running
  BY <1>1, <1>2 DEF D!Running, D!Idle
<1>4. D!Running' \subseteq D!Running
  BY <1>2, <1>3 DEF D!Running
<1>5. Formed(table) /\ Distinct(table) /\ Distinct(saved)
  BY DEF DesignInv, LossInv
<1>6. Distinct(table') /\ Distinct(saved')
  BY <1>2, <1>5, DistinctOn
<1>7. ASSUME NEW l \in D!Job, l \in D!Running', jobs'[l].alone
      PROVE  /\ D!Running' \subseteq {l} /\ Distinct(jobs'[l].before) /\ Describes(jobs'[l].target)
             /\ D!Accurate(jobs'[l]) /\ ~ jobs'[l].warned =>
                  Keeps(jobs'[l].todo, jobs'[l], table', backup')
  <2>1. Keeping(l) /\ l \in D!Running /\ jobs[l].alone
    BY <1>2, <1>4, <1>7 DEF LossInv
  <2>2. l = k
    BY <1>3, <2>1 DEF Keeping
  <2>3. /\ D!Running \subseteq {k} /\ Distinct(jobs[k].before) /\ Describes(jobs[k].target)
        /\ D!Accurate(jobs[k]) /\ ~ jobs[k].warned => Keeps(t, jobs[k], table, backup)
    BY <1>1, <2>1, <2>2 DEF Keeping
  <2>4. D!Accurate(jobs'[k]) <=> D!Accurate(jobs[k])
    BY <1>2 DEF D!Accurate
  <2>5. ASSUME D!Accurate(jobs[k]), ~ jobs[k].warned
        PROVE  Keeps(jobs'[k].todo, jobs'[k], table', backup')
    <3>1. Keeps(Tail(t), jobs[k], table', backup')
      BY <1>2, <1>5, <2>3, <2>5, KeepsOn
    <3> QED
      BY <1>2, <3>1 DEF Keeps
  <2> QED
    BY <1>2, <1>4, <2>2, <2>3, <2>4, <2>5
<1>8. ASSUME NEW l \in D!Job PROVE Keeping(l)'
  BY <1>7 DEF Keeping
<1>9. Distinct(table)' /\ Distinct(saved)'
  BY <1>6 DEF Distinct
<1> QED
  BY <1>8, <1>9 DEF LossInv

LEMMA LossApply ==
  ASSUME DesignInv, LossInv, D!Apply
  PROVE  LossInv'
<1> DEFINE plan == D!Statements
           new == [todo |-> plan, warned |-> D!Destructive(plan),
                   before |-> table, from |-> current, target |-> D!FormModel,
                   rows |-> rows, alone |-> TRUE]
<1>1. /\ D!Complete
      /\ jobs' = [k \in D!Job |->
           IF k = applies' THEN IF D!Running = {} THEN new ELSE D!Unwatched(new)
           ELSE IF k \in D!Running THEN D!Unwatched(jobs[k]) ELSE D!Idle]
      /\ UNCHANGED <<table, backup, saved>>
  BY Zenon DEF D!Apply, D!server
<1>2. /\ new.todo = plan /\ new.warned = D!Destructive(plan) /\ new.before = table
      /\ new.from = current /\ new.target = D!FormModel
  OBVIOUS
<1> HIDE DEF plan, new
<1>3. ASSUME NEW j PROVE D!Unwatched(j).alone = FALSE
  BY DEF D!Unwatched, D!Idle
<1>4. Listed(rows) /\ IsFiniteSet(index) /\ Sized(current)
  BY DEF DesignInv, FormInv
<1>5. Describes(new.target)
  BY <1>1, <1>2, <1>4, FormSized
<1>6. D!Accurate(new) /\ ~ new.warned => Keeps(new.todo, new, table, backup)
  BY <1>1, <1>2, <1>4, KeepsFirst DEF plan
<1>7. ASSUME NEW k \in D!Job, k \in D!Running', jobs'[k].alone
      PROVE  jobs'[k] = new /\ D!Running' \subseteq {k}
  <2>1. jobs'[k] # D!Idle
    BY <1>7 DEF D!Running
  <2>2. k = applies' /\ D!Running = {} /\ jobs'[k] = new
    BY <1>1, <1>3, <1>7, <2>1
  <2>3. \A l \in D!Job : l # k => jobs'[l] = D!Idle
    BY <1>1, <2>2
  <2> QED
    BY <2>2, <2>3 DEF D!Running
<1>8. ASSUME NEW k \in D!Job, k \in D!Running', jobs'[k].alone
      PROVE  /\ D!Running' \subseteq {k} /\ Distinct(jobs'[k].before) /\ Describes(jobs'[k].target)
             /\ D!Accurate(jobs'[k]) /\ ~ jobs'[k].warned =>
                  Keeps(jobs'[k].todo, jobs'[k], table', backup')
  BY <1>1, <1>2, <1>5, <1>6, <1>7, <1>8 DEF LossInv
<1>9. \A k \in D!Job : Keeping(k)'
  BY <1>8 DEF Keeping
<1>10. Distinct(table)' /\ Distinct(saved)'
  BY <1>1 DEF LossInv, Distinct
<1> QED
  BY <1>9, <1>10 DEF LossInv

LEMMA LossInit ==
  ASSUME D!Init
  PROVE  LossInv
<1>1. PICK a \in ColumnName, b \in ColumnName, holes \in BOOLEAN, key \in BOOLEAN :
        /\ a # b
        /\ table.cols = {[name |-> a, of |-> a, holes |-> FALSE, null |-> ~key, dflt |-> FALSE],
                         [name |-> b, of |-> b, holes |-> holes, null |-> TRUE, dflt |-> TRUE]}
  BY DEF D!Init
<1>2. saved = D!NoTable /\ jobs = [k \in D!Job |-> D!Idle]
  BY DEF D!Init
<1>3. Distinct(table)
  <2> DEFINE c == [name |-> a, of |-> a, holes |-> FALSE, null |-> ~key, dflt |-> FALSE]
             d == [name |-> b, of |-> b, holes |-> holes, null |-> TRUE, dflt |-> TRUE]
  <2>1. IsColumn(c) /\ IsColumn(d) /\ c.name = a /\ d.name = b
    BY DEF IsColumn
  <2>2. table.cols = {c, d}
    BY <1>1
  <2> HIDE DEF c, d
  <2> QED
    BY <1>1, <2>1, <2>2 DEF Distinct
<1>4. \A k \in D!Job : k \notin D!Running
  BY <1>2 DEF D!Running
<1> QED
  BY <1>2, <1>3, <1>4, NoTableDistinct DEF LossInv, Keeping

\* Every action keeps what a job that runs alone is told of.
LEMMA LossNext ==
  ASSUME DesignInv, LossInv, [D!Next]_D!vars
  PROVE  DesignInv' /\ LossInv'
<1>1. DesignInv'
  BY DesignNext
<1>2. CASE D!Edit
  <2>1. UNCHANGED <<D!server, jobs>>
    BY <1>2, EditsForm
  <2>2. UNCHANGED <<table, backup, saved>>
    BY <2>1 DEF D!server
  <2> QED
    BY <1>1, <2>1, <2>2, LossOver
<1>3. CASE D!Apply
  BY <1>1, <1>3, LossApply
<1>4. CASE D!RollBack
  <2>1. table' = saved /\ saved' = D!NoTable /\ D!Running = {} /\ jobs' = jobs
    BY <1>4 DEF D!RollBack
  <2>2. Distinct(table') /\ Distinct(saved')
    BY <2>1, NoTableDistinct DEF LossInv
  <2>3. \A k \in D!Job : Keeping(k)'
    BY <2>1 DEF Keeping, D!Running
  <2>4. Distinct(table)' /\ Distinct(saved)'
    BY <2>2 DEF Distinct
  <2> QED
    BY <1>1, <2>3, <2>4 DEF LossInv
<1>5. CASE \E k \in D!Job : D!RunStatement(k)
  BY <1>1, <1>5, LossRun
<1>6. CASE \E k \in D!Job : D!Refused(k) \/ D!Done(k)
  <2>1. PICK k \in D!Job : jobs' = [jobs EXCEPT ![k] = D!Idle] /\ UNCHANGED D!server
    BY <1>6, Zenon DEF D!Refused, D!Done
  <2>2. jobs = [l \in D!Job |-> jobs[l]]
    BY DEF DesignInv, Jobs
  <2>3. \A l \in D!Job : jobs'[l] = jobs[l] \/ jobs'[l] = D!Idle
    BY <2>1, <2>2
  <2>4. UNCHANGED <<table, backup, saved>>
    BY <2>1 DEF D!server
  <2> QED
    BY <1>1, <2>3, <2>4, LossOver
<1>7. CASE UNCHANGED D!vars
  <2>1. UNCHANGED <<table, backup, saved, jobs>>
    BY <1>7 DEF D!vars, D!server
  <2> QED
    BY <1>1, <2>1, LossOver
<1> QED
  BY <1>1, <1>2, <1>3, <1>4, <1>5, <1>6, <1>7, Zenon DEF D!Next

\* What the confirmation dialog leads with is true: a plan that ran to its
\* end alone, made against the table as it was, and took some column's rows
\* away was shown as destructive, on every engine, for tables and forms of any
\* size, whatever renames, swaps and rebuilds they come to.
THEOREM LossIsShown == D!Spec => []D!LossIsFlagged
<1> DEFINE IInv == DesignInv /\ LossInv
<1>1. D!Init => IInv
  BY DesignInit, LossInit
<1>2. IInv /\ [D!Next]_D!vars => IInv'
  BY LossNext
<1>3. IInv => D!LossIsFlagged
  <2> SUFFICES ASSUME LossInv, NEW k \in D!Ended, D!Accurate(jobs[k]), ~ jobs[k].warned
               PROVE  D!Contents(jobs[k].before) \subseteq D!Contents(table)
    BY DEF D!LossIsFlagged
  <2>1. k \in D!Running /\ k \in D!Job /\ jobs[k].todo = << >> /\ jobs[k].alone
    BY DEF D!Ended, D!Running
  <2>2. Keeps(<< >>, jobs[k], table, backup)
    BY <2>1 DEF LossInv, Keeping
  <2>3. ~ Copies(<< >>)
    BY NoneAlters, AltersLaid, PlaceIs DEF Copies
  <2> QED
    BY <2>2, <2>3 DEF Keeps
<1> QED
  BY <1>1, <1>2, <1>3, PTL DEF D!Spec

-----------------------------------------------------------------------------
(* What a plan that runs alone leaves.                                      *)

\* The columns a plan is to end with, which of them were there when it was
\* made and under what name, and whose rows each is to hold.
Cols(j) == D!ToSet(j.target.cols)
Stays(j, c) == D!Found(j.from, c)
Old(j, c) == D!Matched(j.from, c).name
Origin(j, c) == IF Stays(j, c) THEN D!SColumn(j.before, Old(j, c)).of ELSE NoColumnName
Lost(j) == D!NamesOf(j.from) \ D!Kept(j.from, j.target)

\* What each statement is for, and what is still to come of a set of them.
Serves(x, j) ==
  /\ x.op = "add" => x.arg \in Cols(j) /\ ~ Stays(j, x.arg)
  /\ x.op = "rename" => \E c \in Cols(j) :
       Stays(j, c) /\ Old(j, c) # c.name /\ x.arg = <<Old(j, c), c.name>>
  /\ x.op = "change" => \E c \in Cols(j) : Stays(j, c) /\ x.arg = <<Old(j, c), c>>
  /\ x.op = "set_null" => \E c \in Cols(j) : Stays(j, c) /\ x.arg = <<c.name, c.null>>
  /\ x.op = "drop" => x.arg \in Lost(j)
  /\ x.op = "add_key" => x.arg \in j.target.keys

Among(X, op, arg) == \E x \in X : x.op = op /\ x.arg = arg
ToRename(X, j, c) ==
  Among(X, "rename", <<Old(j, c), c.name>>) \/ Among(X, "change", <<Old(j, c), c>>)
ToRestate(X, j, c) ==
  Among(X, "set_null", <<c.name, c.null>>) \/ Among(X, "change", <<Old(j, c), c>>)

\* A plan has a statement for every difference.
Asked(X, j) ==
  /\ \A c \in Cols(j) : ~ Stays(j, c) => Among(X, "add", c)
  /\ \A c \in Cols(j) : Stays(j, c) /\ Old(j, c) # c.name => ToRename(X, j, c)
  /\ \A c \in Cols(j) :
       Stays(j, c) /\ D!Matched(j.from, c).null # c.null => ToRestate(X, j, c)
  /\ \A n \in Lost(j) : Among(X, "drop", n)

\* What a fresh start gives.
Clean(j) ==
  /\ \A c \in Cols(j) : c.null \in BOOLEAN
  /\ \A c \in Cols(j) : c.name \in D!NamesOf(j.from) => Stays(j, c) /\ Old(j, c) = c.name
  /\ \A c, d \in Cols(j) : Stays(j, c) /\ Stays(j, d) /\ Old(j, c) = Old(j, d) => c = d
  /\ \A c \in Cols(j) : Stays(j, c) =>
       /\ Old(j, c) \in D!NamesOf(j.from)
       /\ D!SColumn(j.before, Old(j, c)).null = D!Matched(j.from, c).null
  /\ \A c \in Cols(j) : c.name \in UNION j.target.keys => ~ c.null
  /\ UNION j.target.keys \subseteq D!NamesOf(j.target)
  /\ D!PrimaryKey(j.target) = UNION j.target.keys
  /\ D!SNames(j.before) = D!NamesOf(j.from)
  /\ \A r \in D!ToSet(j.rows) : r.name # NoColumnName =>
       \E c \in Cols(j) : /\ c.name = r.name /\ (Stays(j, c) <=> r.loaded # NoColumnName)
                          /\ Stays(j, c) => Old(j, c) = r.loaded

\* A column on the server is the target's, or what the rest of the plan makes
\* the target's, or drops.
Explained(X, j, x) ==
  \/ \E c \in Cols(j) :
       /\ x.name = c.name \/ (Stays(j, c) /\ x.name = Old(j, c) /\ ToRename(X, j, c))
       /\ x.of = Origin(j, c)
       /\ x.null = c.null \/ ToRestate(X, j, c)
  \/ Among(X, "drop", x.name)

Present(X, j, shown) ==
  \A c \in Cols(j) :
    \/ c.name \in D!SNames(shown) \/ Among(X, "add", c)
    \/ Stays(j, c) /\ Old(j, c) \in D!SNames(shown) /\ ToRename(X, j, c)

Parted(j, shown) ==
  \A c \in Cols(j) : Stays(j, c) /\ Old(j, c) # c.name =>
    ~ (Old(j, c) \in D!SNames(shown) /\ c.name \in D!SNames(shown))

Arrived(X, j, shown) ==
  /\ \A x \in shown.cols : Explained(X, j, x)
  /\ Present(X, j, shown) /\ Parted(j, shown)

-----------------------------------------------------------------------------
\* What an ALTER TABLE does to the columns.
LEMMA NamesMoved ==
  ASSUME NEW t, Distinct(t), NEW c \in t.cols, NEW d, NEW u, u.cols = (t.cols \ {c}) \cup {d}
  PROVE  D!SNames(u) = (D!SNames(t) \ {c.name}) \cup {d.name}
BY DEF Distinct, D!SNames

\* RENAME COLUMN moves one name.
LEMMA AlterRenames ==
  ASSUME NEW t, Distinct(t), NEW s, s.op = "rename", D!Accepts(t, s)
  PROVE  \E c \in t.cols : \E d :
           /\ c.name = s.arg[1] /\ d.name = s.arg[2] /\ d.of = c.of /\ d.null = c.null
           /\ D!Alter(t, s).cols = (t.cols \ {c}) \cup {d}
           /\ s.arg[2] \notin D!SNames(t)
<1> DEFINE u == D!Alter(t, s)
           c == D!SColumn(t, s.arg[1])
           d == [c EXCEPT !.name = s.arg[2]]
<1>1. PICK key, idx : u = [cols |-> (t.cols \ {c}) \cup {d}, key |-> key, idx |-> idx]
  BY DEF D!Alter
<1>2. s.arg[1] \in D!SNames(t) /\ s.arg[2] \notin D!SNames(t)
  BY DEF D!Accepts
<1>3. c \in t.cols /\ c.name = s.arg[1]
  BY <1>2, ColumnThere
<1>4. c = [name |-> c.name, of |-> c.of, holes |-> c.holes, null |-> c.null, dflt |-> c.dflt]
  BY <1>3 DEF Distinct, IsColumn
<1> HIDE DEF u, c
<1>5. d = [name |-> s.arg[2], of |-> c.of, holes |-> c.holes, null |-> c.null, dflt |-> c.dflt]
  BY <1>4
<1> HIDE DEF d
<1>6. d.name = s.arg[2] /\ d.of = c.of /\ d.null = c.null
  BY <1>5
<1>7. u.cols = (t.cols \ {c}) \cup {d}
  BY <1>1
<1> QED
  BY <1>2, <1>3, <1>6, <1>7 DEF u

\* CHANGE COLUMN moves a name and restates the column.
LEMMA AlterChanges ==
  ASSUME NEW t, Distinct(t), NEW s, s.op = "change", D!Accepts(t, s)
  PROVE  \E c \in t.cols : \E d :
           /\ c.name = s.arg[1] /\ d.name = s.arg[2].name /\ d.of = c.of /\ d.null = s.arg[2].null
           /\ D!Alter(t, s).cols = (t.cols \ {c}) \cup {d}
           /\ d.name = c.name \/ d.name \notin D!SNames(t)
<1> DEFINE u == D!Alter(t, s)
           c == D!SColumn(t, s.arg[1])
           n == s.arg[2]
           d == [c EXCEPT !.name = n.name, !.null = n.null, !.dflt = n.dflt]
<1>1. PICK key, idx : u = [cols |-> (t.cols \ {c}) \cup {d}, key |-> key, idx |-> idx]
  BY DEF D!Alter
<1>2. s.arg[1] \in D!SNames(t) /\ n.name \in {s.arg[1]} \cup (ColumnName \ D!SNames(t))
  BY DEF D!Accepts
<1>3. c \in t.cols /\ c.name = s.arg[1]
  BY <1>2, ColumnThere
<1>4. IsColumn(c)
  BY <1>3 DEF Distinct
<1> HIDE DEF u, c, n
<1>5. d = Redefined(c, n.name, n.null, n.dflt)
  BY DEF Redefined
<1> HIDE DEF d
<1>6. d.name = n.name /\ d.of = c.of /\ d.null = n.null
  BY <1>4, <1>5, RedefinedIs
<1>7. u.cols = (t.cols \ {c}) \cup {d}
  BY <1>1
<1> QED
  BY <1>2, <1>3, <1>6, <1>7 DEF u, n

\* SET and DROP NOT NULL or DEFAULT leave the names.
LEMMA AlterRestates ==
  ASSUME NEW t, Formed(t), Distinct(t), NEW s, s.op \in {"set_null", "set_default"}, D!Accepts(t, s)
  PROVE  \E c \in t.cols : \E d :
           /\ c.name = s.arg[1] /\ d.name = c.name /\ d.of = c.of
           /\ d.null = IF s.op = "set_null" THEN s.arg[2] ELSE c.null
           /\ D!Alter(t, s).cols = (t.cols \ {c}) \cup {d}
<1> DEFINE u == D!Alter(t, s)
           c == D!SColumn(t, s.arg[1])
<1>1. s.arg[1] \in D!SNames(t)
  BY DEF D!Accepts
<1>2. c \in t.cols /\ c.name = s.arg[1]
  BY <1>1, ColumnThere
<1>3. c = [name |-> c.name, of |-> c.of, holes |-> c.holes, null |-> c.null, dflt |-> c.dflt]
  BY <1>2 DEF Distinct, IsColumn
<1>4. PICK d : /\ u = [t EXCEPT !.cols = (t.cols \ {c}) \cup {d}]
               /\ \/ s.op = "set_null" /\ d = [c EXCEPT !.null = s.arg[2]]
                  \/ s.op = "set_default" /\ d = [c EXCEPT !.dflt = s.arg[2]]
  <2>1. CASE s.op = "set_null"
    <3>1. u = D!Replace(t, s.arg[1], [c EXCEPT !.null = s.arg[2]])
      BY <2>1 DEF D!Alter
    <3> QED
      BY <2>1, <3>1 DEF D!Replace
  <2>2. CASE s.op = "set_default"
    <3>1. u = D!Replace(t, s.arg[1], [c EXCEPT !.dflt = s.arg[2]])
      BY <2>2 DEF D!Alter
    <3> QED
      BY <2>2, <3>1 DEF D!Replace
  <2> QED
    BY <2>1, <2>2
<1> HIDE DEF u, c
<1>5. d.name = c.name /\ d.of = c.of /\ d.null = IF s.op = "set_null" THEN s.arg[2] ELSE c.null
  <2>1. CASE s.op = "set_null" /\ d = [c EXCEPT !.null = s.arg[2]]
    BY <1>3, <2>1
  <2>2. CASE s.op = "set_default" /\ d = [c EXCEPT !.dflt = s.arg[2]]
    BY <1>3, <2>2
  <2> QED
    BY <1>4, <2>1, <2>2
<1>6. u.cols = (t.cols \ {c}) \cup {d}
  BY <1>4 DEF Formed
<1> QED
  BY <1>2, <1>5, <1>6 DEF u


\* A new name that is an old one is that column's own.
LEMMA SameColumn ==
  ASSUME NEW j, Clean(j), NEW c \in Cols(j), Stays(j, c), NEW d \in Cols(j), d.name = Old(j, c)
  PROVE  d = c
<1>1. Stays(j, d) /\ Old(j, d) = d.name
  BY DEF Clean
<1> QED
  BY <1>1 DEF Clean

\* A column that is lost is none of the target's.
LEMMA LostIsNone ==
  ASSUME NEW j, Clean(j), NEW n \in Lost(j), NEW c \in Cols(j)
  PROVE  c.name # n /\ (Stays(j, c) => Old(j, c) # n)
<1>1. Stays(j, c) => Old(j, c) \in D!Kept(j.from, j.target)
  BY DEF D!Kept, Stays, Old, Cols
<1>2. n \in D!NamesOf(j.from) /\ n \notin D!Kept(j.from, j.target)
  BY DEF Lost
<1>3. c.name = n => Stays(j, c) /\ Old(j, c) = n
  BY <1>2 DEF Clean
<1> QED
  BY <1>1, <1>2, <1>3

\* What one statement less leaves to be done.
LEMMA AmongOne ==
  ASSUME NEW s, NEW X, NEW Y, X = {s} \cup Y, NEW op, NEW arg, Among(X, op, arg)
  PROVE  (s.op = op /\ s.arg = arg) \/ Among(Y, op, arg)
BY DEF Among

\* A statement run is one less to come, of its own kind only.
LEMMA StillToDo ==
  ASSUME NEW j, Clean(j), NEW s, NEW X, NEW Y, X = {s} \cup Y
  PROVE  /\ s.op # "drop" => \A n : Among(X, "drop", n) => Among(Y, "drop", n)
         /\ s.op # "add" => \A c : Among(X, "add", c) => Among(Y, "add", c)
         /\ s.op \notin {"rename", "change"} =>
              \A c : ToRename(X, j, c) => ToRename(Y, j, c)
         /\ s.op \notin {"set_null", "change"} =>
              \A c : ToRestate(X, j, c) => ToRestate(Y, j, c)
<1>1. \A op, arg : Among(X, op, arg) => (s.op = op /\ s.arg = arg) \/ Among(Y, op, arg)
  BY DEF Among
<1>2. s.op # "drop" => \A n : Among(X, "drop", n) => Among(Y, "drop", n)
  BY <1>1
<1>3. s.op # "add" => \A c : Among(X, "add", c) => Among(Y, "add", c)
  BY <1>1
<1>4. s.op \notin {"rename", "change"} => \A c : ToRename(X, j, c) => ToRename(Y, j, c)
  BY <1>1 DEF ToRename
<1>5. s.op \notin {"set_null", "change"} => \A c : ToRestate(X, j, c) => ToRestate(Y, j, c)
  BY <1>1 DEF ToRestate
<1> QED
  BY <1>2, <1>3, <1>4, <1>5

\* Each kind of statement brings the table nearer the target: a rename,
LEMMA RenameOn ==
  ASSUME NEW j, Clean(j), Describes(j.target), NEW s, NEW X, NEW Y, X = {s} \cup Y,
         \A x \in X : Serves(x, j), s.op = "rename",
         NEW t, Distinct(t), Arrived(X, j, t), D!Accepts(t, s)
  PROVE  Arrived(Y, j, D!Alter(t, s))
<1> DEFINE u == D!Alter(t, s)
<1>1. PICK b \in Cols(j) : Stays(j, b) /\ Old(j, b) # b.name /\ s.arg = <<Old(j, b), b.name>>
  BY DEF Serves
<1>2. PICK p \in t.cols : \E q :
        /\ p.name = s.arg[1] /\ q.name = s.arg[2] /\ q.of = p.of /\ q.null = p.null
        /\ u.cols = (t.cols \ {p}) \cup {q} /\ s.arg[2] \notin D!SNames(t)
  BY AlterRenames
<1>3. PICK q :
        /\ p.name = Old(j, b) /\ q.name = b.name /\ q.of = p.of /\ q.null = p.null
        /\ u.cols = (t.cols \ {p}) \cup {q} /\ b.name \notin D!SNames(t)
  BY <1>1, <1>2
<1> HIDE DEF u
<1>4. D!SNames(u) = (D!SNames(t) \ {Old(j, b)}) \cup {b.name} /\ Old(j, b) \in D!SNames(t)
  <2>1. D!SNames(u) = (D!SNames(t) \ {p.name}) \cup {q.name}
    BY <1>3, NamesMoved
  <2>2. p.name \in D!SNames(t)
    BY DEF D!SNames
  <2> QED
    BY <1>3, <2>1, <2>2
<1>5. /\ \A n : Among(X, "drop", n) => Among(Y, "drop", n)
      /\ \A c : Among(X, "add", c) => Among(Y, "add", c)
      /\ \A c : ToRestate(X, j, c) => ToRestate(Y, j, c)
  BY StillToDo
<1>6. ASSUME NEW c \in Cols(j), Stays(j, c), c # b, ToRename(X, j, c) PROVE ToRename(Y, j, c)
  <2>1. Old(j, c) # Old(j, b)
    BY <1>1, <1>6 DEF Clean
  <2>2. s.arg # <<Old(j, c), c.name>>
    BY <1>1, <2>1
  <2> QED
    BY <1>6, <2>2, AmongOne DEF ToRename
<1>7. ASSUME NEW c \in Cols(j), c.name = Old(j, b) PROVE FALSE
  <2>1. c = b
    BY <1>1, <1>7, SameColumn
  <2> QED
    BY <1>1, <1>7, <2>1
<1>8. Explained(Y, j, q)
  <2>1. CASE Among(X, "drop", p.name)
    <3>1. Old(j, b) \in Lost(j)
      BY <1>3, <2>1 DEF Among, Serves
    <3> QED
      BY <1>1, <3>1, LostIsNone
  <2>2. CASE \E c \in Cols(j) :
       /\ p.name = c.name \/ (Stays(j, c) /\ p.name = Old(j, c) /\ ToRename(X, j, c))
       /\ p.of = Origin(j, c)
       /\ p.null = c.null \/ ToRestate(X, j, c)
    <3>1. PICK c \in Cols(j) :
       /\ p.name = c.name \/ (Stays(j, c) /\ p.name = Old(j, c) /\ ToRename(X, j, c))
       /\ p.of = Origin(j, c)
       /\ p.null = c.null \/ ToRestate(X, j, c)
      BY <2>2
    <3>2. c = b
      BY <1>1, <1>3, <1>7, <3>1 DEF Clean
    <3> QED
      BY <1>3, <1>5, <3>1, <3>2 DEF Explained
  <2> QED
    BY <2>1, <2>2 DEF Arrived, Explained
<1>9. ASSUME NEW x \in t.cols, x # p PROVE Explained(Y, j, x)
  <2>1. x.name # Old(j, b)
    BY <1>3, <1>9 DEF Distinct
  <2>2. Explained(X, j, x)
    BY DEF Arrived
  <2> QED
    BY <1>1, <1>5, <1>6, <2>1, <2>2 DEF Explained
<1>10. Present(Y, j, u)
  <2> SUFFICES ASSUME NEW c \in Cols(j)
               PROVE  \/ c.name \in D!SNames(u) \/ Among(Y, "add", c)
                      \/ Stays(j, c) /\ Old(j, c) \in D!SNames(u) /\ ToRename(Y, j, c)
    BY DEF Present
  <2>1. \/ c.name \in D!SNames(t) \/ Among(X, "add", c)
        \/ Stays(j, c) /\ Old(j, c) \in D!SNames(t) /\ ToRename(X, j, c)
    BY DEF Arrived, Present
  <2>2. CASE c = b
    BY <1>4, <2>2
  <2>3. CASE c # b /\ Stays(j, c) /\ Old(j, c) \in D!SNames(t) /\ ToRename(X, j, c)
    <3>1. Old(j, c) # Old(j, b)
      BY <1>1, <2>3 DEF Clean
    <3> QED
      BY <1>4, <1>6, <2>3, <3>1
  <2> QED
    BY <1>4, <1>5, <1>7, <2>1, <2>2, <2>3
<1>11. Parted(j, u)
  <2> SUFFICES ASSUME NEW c \in Cols(j), Stays(j, c), Old(j, c) # c.name,
                      Old(j, c) \in D!SNames(u), c.name \in D!SNames(u)
               PROVE  FALSE
    BY DEF Parted
  <2>1. ~ (Old(j, c) \in D!SNames(t) /\ c.name \in D!SNames(t))
    BY DEF Arrived, Parted
  <2>2. CASE Old(j, c) = b.name
    <3>1. b = c
      BY <2>2, SameColumn
    <3> QED
      BY <2>2, <3>1
  <2>3. CASE c.name = b.name
    <3>1. c = b
      BY <2>3 DEF Describes, Cols
    <3> QED
      BY <1>1, <1>4, <3>1
  <2> QED
    BY <1>4, <2>1, <2>2, <2>3
<1>12. Arrived(Y, j, u)
  BY <1>3, <1>8, <1>9, <1>10, <1>11 DEF Arrived
<1> QED
  BY <1>12 DEF u

\* a change,
LEMMA ChangeOn ==
  ASSUME NEW j, Clean(j), Describes(j.target), NEW s, NEW X, NEW Y, X = {s} \cup Y,
         \A x \in X : Serves(x, j), s.op = "change",
         NEW t, Distinct(t), Arrived(X, j, t), D!Accepts(t, s)
  PROVE  Arrived(Y, j, D!Alter(t, s))
<1> DEFINE u == D!Alter(t, s)
<1>1. PICK b \in Cols(j) : Stays(j, b) /\ s.arg = <<Old(j, b), b>>
  BY DEF Serves
<1>2. PICK p \in t.cols : \E q :
        /\ p.name = s.arg[1] /\ q.name = s.arg[2].name /\ q.of = p.of /\ q.null = s.arg[2].null
        /\ u.cols = (t.cols \ {p}) \cup {q}
        /\ q.name = p.name \/ q.name \notin D!SNames(t)
  BY AlterChanges
<1>3. PICK q :
        /\ p.name = Old(j, b) /\ q.name = b.name /\ q.of = p.of /\ q.null = b.null
        /\ u.cols = (t.cols \ {p}) \cup {q}
        /\ b.name = Old(j, b) \/ b.name \notin D!SNames(t)
  BY <1>1, <1>2
<1> HIDE DEF u
<1>4. D!SNames(u) = (D!SNames(t) \ {Old(j, b)}) \cup {b.name} /\ Old(j, b) \in D!SNames(t)
  <2>1. D!SNames(u) = (D!SNames(t) \ {p.name}) \cup {q.name}
    BY <1>3, NamesMoved
  <2>2. p.name \in D!SNames(t)
    BY DEF D!SNames
  <2> QED
    BY <1>3, <2>1, <2>2
<1>5. /\ \A n : Among(X, "drop", n) => Among(Y, "drop", n)
      /\ \A c : Among(X, "add", c) => Among(Y, "add", c)
  BY StillToDo
<1>6. ASSUME NEW c \in Cols(j), c # b
      PROVE  /\ ToRename(X, j, c) => ToRename(Y, j, c)
             /\ ToRestate(X, j, c) => ToRestate(Y, j, c)
  <2>1. s.arg # <<Old(j, c), c>> /\ s.op \notin {"rename", "set_null"}
    BY <1>1, <1>6
  <2>2. \A op, arg : Among(X, op, arg) => (s.op = op /\ s.arg = arg) \/ Among(Y, op, arg)
    BY AmongOne
  <2> QED
    BY <2>1, <2>2 DEF ToRename, ToRestate
<1>7. ASSUME NEW c \in Cols(j), c.name = Old(j, b) PROVE c = b
  BY <1>1, <1>7, SameColumn
<1>8. Explained(Y, j, q)
  <2>1. CASE Among(X, "drop", p.name)
    <3>1. Old(j, b) \in Lost(j)
      BY <1>3, <2>1 DEF Among, Serves
    <3> QED
      BY <1>1, <3>1, LostIsNone
  <2>2. CASE \E c \in Cols(j) :
       /\ p.name = c.name \/ (Stays(j, c) /\ p.name = Old(j, c) /\ ToRename(X, j, c))
       /\ p.of = Origin(j, c)
    <3>1. PICK c \in Cols(j) :
       /\ p.name = c.name \/ (Stays(j, c) /\ p.name = Old(j, c) /\ ToRename(X, j, c))
       /\ p.of = Origin(j, c)
      BY <2>2
    <3>2. c = b
      BY <1>1, <1>3, <1>7, <3>1 DEF Clean
    <3> QED
      BY <1>3, <3>1, <3>2 DEF Explained
  <2> QED
    BY <2>1, <2>2 DEF Arrived, Explained
<1>9. ASSUME NEW x \in t.cols, x # p PROVE Explained(Y, j, x)
  <2>1. x.name # Old(j, b)
    BY <1>3, <1>9 DEF Distinct
  <2>2. x.name # b.name
    BY <1>3, <2>1 DEF D!SNames
  <2>3. Explained(X, j, x)
    BY DEF Arrived
  <2>4. CASE Among(X, "drop", x.name)
    BY <1>5, <2>4 DEF Explained
  <2>5. CASE \E c \in Cols(j) :
       /\ x.name = c.name \/ (Stays(j, c) /\ x.name = Old(j, c) /\ ToRename(X, j, c))
       /\ x.of = Origin(j, c)
       /\ x.null = c.null \/ ToRestate(X, j, c)
    <3>1. PICK c \in Cols(j) :
       /\ x.name = c.name \/ (Stays(j, c) /\ x.name = Old(j, c) /\ ToRename(X, j, c))
       /\ x.of = Origin(j, c)
       /\ x.null = c.null \/ ToRestate(X, j, c)
      BY <2>5
    <3>2. c # b
      BY <2>1, <2>2, <3>1
    <3> QED
      BY <1>6, <3>1, <3>2 DEF Explained
  <2> QED
    BY <2>3, <2>4, <2>5 DEF Explained
<1>10. Present(Y, j, u)
  <2> SUFFICES ASSUME NEW c \in Cols(j)
               PROVE  \/ c.name \in D!SNames(u) \/ Among(Y, "add", c)
                      \/ Stays(j, c) /\ Old(j, c) \in D!SNames(u) /\ ToRename(Y, j, c)
    BY DEF Present
  <2>1. \/ c.name \in D!SNames(t) \/ Among(X, "add", c)
        \/ Stays(j, c) /\ Old(j, c) \in D!SNames(t) /\ ToRename(X, j, c)
    BY DEF Arrived, Present
  <2>2. CASE c = b
    BY <1>4, <2>2
  <2>3. CASE c # b /\ Stays(j, c) /\ Old(j, c) \in D!SNames(t) /\ ToRename(X, j, c)
    <3>1. Old(j, c) # Old(j, b)
      BY <1>1, <2>3 DEF Clean
    <3> QED
      BY <1>4, <1>6, <2>3, <3>1
  <2>4. c # b => c.name # Old(j, b)
    BY <1>7
  <2> QED
    BY <1>4, <1>5, <2>1, <2>2, <2>3, <2>4
<1>11. Parted(j, u)
  <2> SUFFICES ASSUME NEW c \in Cols(j), Stays(j, c), Old(j, c) # c.name,
                      Old(j, c) \in D!SNames(u), c.name \in D!SNames(u)
               PROVE  FALSE
    BY DEF Parted
  <2>1. ~ (Old(j, c) \in D!SNames(t) /\ c.name \in D!SNames(t))
    BY DEF Arrived, Parted
  <2>2. CASE Old(j, c) = b.name
    <3>1. b = c
      BY <2>2, SameColumn
    <3> QED
      BY <2>2, <3>1
  <2>3. CASE c.name = b.name
    <3>1. c = b
      BY <2>3 DEF Describes, Cols
    <3> QED
      BY <1>4, <3>1
  <2> QED
    BY <1>4, <2>1, <2>2, <2>3
<1>12. Arrived(Y, j, u)
  BY <1>3, <1>8, <1>9, <1>10, <1>11 DEF Arrived
<1> QED
  BY <1>12 DEF u

\* another nullability or default,
LEMMA RestateOn ==
  ASSUME NEW j, Clean(j), Describes(j.target), NEW s, NEW X, NEW Y, X = {s} \cup Y,
         \A x \in X : Serves(x, j), s.op \in {"set_null", "set_default"},
         NEW t, Formed(t), Distinct(t), Arrived(X, j, t), D!Accepts(t, s)
  PROVE  Arrived(Y, j, D!Alter(t, s))
<1> DEFINE u == D!Alter(t, s)
<1>2. PICK p \in t.cols : \E q :
        /\ p.name = s.arg[1] /\ q.name = p.name /\ q.of = p.of
        /\ q.null = IF s.op = "set_null" THEN s.arg[2] ELSE p.null
        /\ u.cols = (t.cols \ {p}) \cup {q}
  BY AlterRestates
<1>3. PICK q :
        /\ p.name = s.arg[1] /\ q.name = p.name /\ q.of = p.of
        /\ q.null = IF s.op = "set_null" THEN s.arg[2] ELSE p.null
        /\ u.cols = (t.cols \ {p}) \cup {q}
  BY <1>2
<1> HIDE DEF u
<1>4. D!SNames(u) = D!SNames(t)
  BY <1>3, NamesMoved DEF D!SNames
<1>5. /\ \A n : Among(X, "drop", n) => Among(Y, "drop", n)
      /\ \A c : Among(X, "add", c) => Among(Y, "add", c)
      /\ \A c : ToRename(X, j, c) => ToRename(Y, j, c)
      /\ s.op = "set_default" => \A c : ToRestate(X, j, c) => ToRestate(Y, j, c)
  BY StillToDo
<1>6. \A x \in t.cols : Explained(X, j, x)
  BY DEF Arrived
<1>7. ASSUME s.op = "set_default", NEW x \in u.cols PROVE Explained(Y, j, x)
  <2>1. PICK y \in t.cols : x.name = y.name /\ x.of = y.of /\ x.null = y.null
    BY <1>3, <1>7
  <2> QED
    BY <1>5, <1>6, <1>7, <2>1 DEF Explained
<1>8. ASSUME s.op = "set_null", NEW x \in u.cols PROVE Explained(Y, j, x)
  <2>1. PICK b \in Cols(j) : Stays(j, b) /\ s.arg = <<b.name, b.null>>
    BY <1>8 DEF Serves
  <2>2. p.name = b.name /\ q.null = b.null /\ b.name \in D!SNames(t)
    BY <1>3, <1>8, <2>1 DEF D!SNames
  <2>3. ASSUME NEW c \in Cols(j), c # b, ToRestate(X, j, c) PROVE ToRestate(Y, j, c)
    <3>1. s.arg # <<c.name, c.null>>
      BY <2>1, <2>3 DEF Describes, Cols
    <3>2. \A op, arg : Among(X, op, arg) => (s.op = op /\ s.arg = arg) \/ Among(Y, op, arg)
      BY AmongOne
    <3> QED
      BY <1>8, <2>3, <3>1, <3>2 DEF ToRestate
  <2>4. CASE x = q
    <3>1. CASE Among(X, "drop", p.name)
      BY <1>3, <1>5, <2>4, <3>1 DEF Explained
    <3>2. CASE \E c \in Cols(j) :
         /\ p.name = c.name \/ (Stays(j, c) /\ p.name = Old(j, c) /\ ToRename(X, j, c))
         /\ p.of = Origin(j, c)
      <4>1. PICK c \in Cols(j) :
         /\ p.name = c.name \/ (Stays(j, c) /\ p.name = Old(j, c) /\ ToRename(X, j, c))
         /\ p.of = Origin(j, c)
        BY <3>2
      <4>2. CASE p.name = c.name
        <5>1. c = b
          BY <2>2, <4>2 DEF Describes, Cols
        <5> QED
          BY <1>3, <2>2, <2>4, <4>1, <5>1 DEF Explained
      <4>3. CASE Stays(j, c) /\ p.name = Old(j, c)
        <5>1. b = c
          BY <2>2, <4>3, SameColumn
        <5> QED
          BY <1>3, <2>2, <2>4, <4>1, <5>1 DEF Explained
      <4> QED
        BY <4>1, <4>2, <4>3
    <3> QED
      BY <1>6, <3>1, <3>2 DEF Explained
  <2>5. CASE x # q
    <3>1. x \in t.cols /\ x # p
      BY <1>3, <2>5
    <3>2. x.name # b.name
      BY <2>2, <3>1 DEF Distinct
    <3>3. CASE Among(X, "drop", x.name)
      BY <1>5, <3>3 DEF Explained
    <3>4. CASE \E c \in Cols(j) :
         /\ x.name = c.name \/ (Stays(j, c) /\ x.name = Old(j, c) /\ ToRename(X, j, c))
         /\ x.of = Origin(j, c)
         /\ x.null = c.null \/ ToRestate(X, j, c)
      <4>1. PICK c \in Cols(j) :
         /\ x.name = c.name \/ (Stays(j, c) /\ x.name = Old(j, c) /\ ToRename(X, j, c))
         /\ x.of = Origin(j, c)
         /\ x.null = c.null \/ ToRestate(X, j, c)
        BY <3>4
      <4>2. c # b
        <5> SUFFICES ASSUME c = b PROVE FALSE
          OBVIOUS
        <5>1. Old(j, b) = x.name /\ Old(j, b) # b.name
          BY <3>2, <4>1
        <5>2. Old(j, b) \in D!SNames(t)
          BY <3>1, <5>1 DEF D!SNames
        <5> QED
          BY <2>1, <2>2, <5>1, <5>2 DEF Arrived, Parted
      <4> QED
        BY <1>5, <2>3, <4>1, <4>2 DEF Explained
    <3> QED
      BY <1>6, <3>1, <3>3, <3>4 DEF Explained
  <2> QED
    BY <2>4, <2>5
<1>9. Present(Y, j, u) /\ Parted(j, u)
  BY <1>4, <1>5 DEF Arrived, Present, Parted
<1>10. Arrived(Y, j, u)
  BY <1>7, <1>8, <1>9 DEF Arrived
<1> QED
  BY <1>10 DEF u

\* a new column,
LEMMA AddOn ==
  ASSUME NEW j, Clean(j), Describes(j.target), NEW s, NEW X, NEW Y, X = {s} \cup Y,
         \A x \in X : Serves(x, j), s.op = "add",
         NEW t, Distinct(t), Arrived(X, j, t), D!Accepts(t, s)
  PROVE  Arrived(Y, j, D!Alter(t, s))
<1> DEFINE u == D!Alter(t, s)
           q == D!Fresh(s.arg)
           b == s.arg
<1>1. b \in Cols(j) /\ ~ Stays(j, b) /\ b.name \notin D!SNames(t)
  BY DEF Serves, D!Accepts
<1>2. u = [cols |-> t.cols \cup {q}, key |-> t.key, idx |-> t.idx]
  BY DEF D!Alter
<1>3. q.name = b.name /\ q.of = NoColumnName /\ q.null = b.null
  BY DEF D!Fresh
<1> HIDE DEF u, q
<1>4. u.cols = t.cols \cup {q}
  BY <1>2
<1>5. D!SNames(u) = D!SNames(t) \cup {b.name}
  BY <1>3, <1>4 DEF D!SNames
<1>6. /\ \A n : Among(X, "drop", n) => Among(Y, "drop", n)
      /\ \A c : ToRename(X, j, c) => ToRename(Y, j, c)
      /\ \A c : ToRestate(X, j, c) => ToRestate(Y, j, c)
  BY StillToDo
<1>7. \A c \in Cols(j) : Among(X, "add", c) => c = b \/ Among(Y, "add", c)
  BY AmongOne
<1> HIDE DEF b
<1>8. Explained(Y, j, q)
  BY <1>1, <1>3 DEF Explained, Origin
<1>9. \A x \in t.cols : Explained(Y, j, x)
  BY <1>6 DEF Arrived, Explained
<1>10. Present(Y, j, u)
  BY <1>5, <1>6, <1>7 DEF Arrived, Present
<1>11. Parted(j, u)
  <2> SUFFICES ASSUME NEW c \in Cols(j), Stays(j, c), Old(j, c) # c.name,
                      Old(j, c) \in D!SNames(u), c.name \in D!SNames(u)
               PROVE  FALSE
    BY DEF Parted
  <2>1. ~ (Old(j, c) \in D!SNames(t) /\ c.name \in D!SNames(t))
    BY DEF Arrived, Parted
  <2>2. CASE Old(j, c) = b.name
    BY <1>1, <2>2, SameColumn
  <2>3. CASE c.name = b.name
    BY <1>1, <2>3 DEF Describes, Cols
  <2> QED
    BY <1>5, <2>1, <2>2, <2>3
<1>12. Arrived(Y, j, u)
  BY <1>4, <1>8, <1>9, <1>10, <1>11 DEF Arrived
<1> QED
  BY <1>12 DEF u

\* a lost one,
LEMMA DropOn ==
  ASSUME NEW j, Clean(j), Describes(j.target), NEW s, NEW X, NEW Y, X = {s} \cup Y,
         \A x \in X : Serves(x, j), s.op = "drop",
         NEW t, Distinct(t), Arrived(X, j, t), D!Accepts(t, s)
  PROVE  Arrived(Y, j, D!Alter(t, s))
<1> DEFINE u == D!Alter(t, s)
           p == D!SColumn(t, s.arg)
           n == s.arg
<1>1. n \in Lost(j) /\ n \in D!SNames(t)
  BY DEF Serves, D!Accepts
<1>2. PICK key, idx : u = [cols |-> t.cols \ {p}, key |-> key, idx |-> idx]
  BY DEF D!Alter
<1>3. p \in t.cols /\ p.name = n
  BY <1>1, ColumnThere
<1> HIDE DEF u, p
<1>4. u.cols = t.cols \ {p}
  BY <1>2
<1>5. D!SNames(u) = D!SNames(t) \ {n}
  BY <1>3, <1>4 DEF D!SNames, Distinct
<1>6. /\ \A c : Among(X, "add", c) => Among(Y, "add", c)
      /\ \A c : ToRename(X, j, c) => ToRename(Y, j, c)
      /\ \A c : ToRestate(X, j, c) => ToRestate(Y, j, c)
  BY StillToDo
<1>7. \A m : Among(X, "drop", m) => m = n \/ Among(Y, "drop", m)
  BY AmongOne
<1>8. \A c \in Cols(j) : c.name # n /\ (Stays(j, c) => Old(j, c) # n)
  BY <1>1, LostIsNone
<1> HIDE DEF n
<1>9. \A x \in u.cols : x \in t.cols /\ x.name # n
  BY <1>3, <1>4 DEF Distinct
<1>10. \A x \in u.cols : Explained(Y, j, x)
  BY <1>6, <1>7, <1>9 DEF Arrived, Explained
<1>11. Present(Y, j, u)
  BY <1>5, <1>6, <1>8 DEF Arrived, Present
<1>12. Parted(j, u)
  BY <1>5 DEF Arrived, Parted
<1>13. Arrived(Y, j, u)
  BY <1>10, <1>11, <1>12 DEF Arrived
<1> QED
  BY <1>13 DEF u

\* and a primary key, whose columns the form has NOT NULL.
LEMMA KeyOn ==
  ASSUME NEW j, Clean(j), Describes(j.target), NEW s, NEW X, NEW Y, X = {s} \cup Y,
         \A x \in X : Serves(x, j), s.op = "add_key",
         NEW t, Formed(t), Distinct(t), Arrived(X, j, t), D!Accepts(t, s)
  PROVE  Arrived(Y, j, D!Alter(t, s))
<1> DEFINE u == D!Alter(t, s)
           key == s.arg
           f == [c \in t.cols |-> [c EXCEPT !.null = c.null /\ c.name \notin s.arg]]
<1>1. u = [t EXCEPT !.key = s.arg, !.cols = {f[c] : c \in t.cols}]
  BY DEF D!Alter
<1>2. ASSUME NEW c \in t.cols
      PROVE  f[c].name = c.name /\ f[c].of = c.of /\ f[c].null = (c.null /\ c.name \notin key)
  <2>1. c = [name |-> c.name, of |-> c.of, holes |-> c.holes, null |-> c.null, dflt |-> c.dflt]
    BY DEF Distinct, IsColumn
  <2> DEFINE b == c.null /\ c.name \notin key
  <2>2. f[c] = [c EXCEPT !.null = b]
    OBVIOUS
  <2> HIDE DEF f, b
  <2>3. f[c].name = c.name /\ f[c].of = c.of /\ f[c].null = b
    BY <2>1, <2>2
  <2> QED
    BY <2>3 DEF b
<1> HIDE DEF u, f
<1>3. u.cols = {f[c] : c \in t.cols}
  BY <1>1 DEF Formed
<1>4. D!SNames(u) = D!SNames(t)
  BY <1>2, <1>3 DEF D!SNames
<1>5. /\ \A n : Among(X, "drop", n) => Among(Y, "drop", n)
      /\ \A c : Among(X, "add", c) => Among(Y, "add", c)
      /\ \A c : ToRename(X, j, c) => ToRename(Y, j, c)
      /\ \A c : ToRestate(X, j, c) => ToRestate(Y, j, c)
  BY StillToDo
<1>6. key \in j.target.keys
  BY DEF Serves
<1>7. \A n \in key : n \in UNION j.target.keys /\ n \in D!NamesOf(j.target)
  BY <1>6 DEF Clean
<1> HIDE DEF key
<1>8. ASSUME NEW x \in t.cols, NEW c \in Cols(j),
             x.name = c.name \/ (Stays(j, c) /\ x.name = Old(j, c)),
             x.null = c.null
      PROVE  (x.null /\ x.name \notin key) = c.null
  <2>1. c.null \in BOOLEAN
    BY DEF Clean
  <2>2. CASE x.name \notin key
    BY <1>8, <2>1, <2>2
  <2>3. CASE x.name \in key
    <3>1. c.name = x.name
      <4>1. PICK e \in Cols(j) : e.name = x.name
        BY <1>7, <2>3 DEF D!NamesOf, Cols
      <4>2. CASE Stays(j, c) /\ x.name = Old(j, c)
        BY <4>1, <4>2, SameColumn
      <4> QED
        BY <1>8, <4>2
    <3>2. ~ c.null
      BY <1>7, <2>3, <3>1 DEF Clean
    <3> QED
      BY <2>1, <2>3, <3>2
  <2> QED
    BY <2>2, <2>3
<1>9. ASSUME NEW x \in t.cols PROVE Explained(Y, j, f[x])
  <2>1. CASE Among(X, "drop", x.name)
    BY <1>2, <1>5, <2>1 DEF Explained
  <2>2. CASE \E c \in Cols(j) :
         /\ x.name = c.name \/ (Stays(j, c) /\ x.name = Old(j, c) /\ ToRename(X, j, c))
         /\ x.of = Origin(j, c)
         /\ x.null = c.null \/ ToRestate(X, j, c)
    <3>1. PICK c \in Cols(j) :
         /\ x.name = c.name \/ (Stays(j, c) /\ x.name = Old(j, c) /\ ToRename(X, j, c))
         /\ x.of = Origin(j, c)
         /\ x.null = c.null \/ ToRestate(X, j, c)
      BY <2>2
    <3>2. f[x].null = c.null \/ ToRestate(Y, j, c)
      BY <1>2, <1>5, <1>8, <3>1
    <3> QED
      BY <1>2, <1>5, <3>1, <3>2 DEF Explained
  <2> QED
    BY <2>1, <2>2 DEF Arrived, Explained
<1>10. \A x \in u.cols : Explained(Y, j, x)
  BY <1>3, <1>9
<1>11. Present(Y, j, u) /\ Parted(j, u)
  BY <1>4, <1>5 DEF Arrived, Present, Parted
<1>12. Arrived(Y, j, u)
  BY <1>10, <1>11 DEF Arrived
<1> QED
  BY <1>12 DEF u

\* Every statement that changes the table where it is keeps to the plan.
LEMMA ArrivedOn ==
  ASSUME NEW j, Clean(j), Describes(j.target), NEW s, NEW X, NEW Y, X = {s} \cup Y,
         \A x \in X : Serves(x, j), s.op \in Altering,
         NEW t, Formed(t), Distinct(t), Arrived(X, j, t), D!Accepts(t, s)
  PROVE  Arrived(Y, j, D!Alter(t, s))
<1>1. CASE s.op \in {"drop_index", "create_index"}
  <2> DEFINE u == D!Alter(t, s)
  <2>1. PICK idx : u = [t EXCEPT !.idx = idx]
    <3>1. CASE s.op = "drop_index"
      BY <3>1 DEF D!Alter
    <3>2. CASE s.op = "create_index"
      BY <3>2 DEF D!Alter
    <3> QED
      BY <1>1, <3>1, <3>2
  <2> HIDE DEF u
  <2>2. u.cols = t.cols
    BY <2>1 DEF Formed
  <2>3. /\ \A n : Among(X, "drop", n) => Among(Y, "drop", n)
        /\ \A c : Among(X, "add", c) => Among(Y, "add", c)
        /\ \A c : ToRename(X, j, c) => ToRename(Y, j, c)
        /\ \A c : ToRestate(X, j, c) => ToRestate(Y, j, c)
    BY <1>1, StillToDo
  <2>4. D!SNames(u) = D!SNames(t)
    BY <2>2 DEF D!SNames
  <2>5. \A x \in u.cols : Explained(Y, j, x)
    BY <2>2, <2>3 DEF Arrived, Explained
  <2>6. Present(Y, j, u) /\ Parted(j, u)
    BY <2>3, <2>4 DEF Arrived, Present, Parted
  <2>7. Arrived(Y, j, u)
    BY <2>5, <2>6 DEF Arrived
  <2> QED
    BY <2>7 DEF u
<1> QED
  BY <1>1, RenameOn, ChangeOn, RestateOn, AddOn, DropOn, KeyOn DEF Altering

-----------------------------------------------------------------------------
\* A plan has a statement for every difference, and none for anything else.
LEMMA RankInto ==
  ASSUME NEW n \in Nat, NEW S \in SUBSET (1 .. n), NEW p \in S
  PROVE  /\ D!Rank(S, p) \in 1 .. Cardinality(S)
         /\ \A q \in S : D!Rank(S, q) = D!Rank(S, p) => q = p
<1> DEFINE upto(i) == {k \in S : k <= i}
           C(i) == Cardinality(upto(i))
<1>1. IsFiniteSet(S)
  <2>1. IsFiniteSet(1 .. n)
    BY FS_Interval
  <2> QED
    BY <2>1, FS_Subset
<1>2. ASSUME NEW i PROVE IsFiniteSet(upto(i)) /\ C(i) \in Nat /\ C(i) <= Cardinality(S)
  <2>1. upto(i) \subseteq S
    OBVIOUS
  <2> HIDE DEF upto
  <2>2. IsFiniteSet(upto(i)) /\ C(i) <= Cardinality(S)
    BY <1>1, <2>1, FS_Subset
  <2> QED
    BY <2>2, FS_CardinalityType
<1>3. \A i \in S : D!Rank(S, i) = C(i)
  BY SameCount DEF D!Rank
<1>4. ASSUME NEW q \in S, NEW r \in S, q < r PROVE C(q) < C(r)
  <2>1. upto(q) \cup {r} \subseteq upto(r) /\ r \notin upto(q)
    <3>1. q \in Nat /\ r \in Nat
      OBVIOUS
    <3>2. \A k \in S : k <= q => k <= r
      BY <1>4, <3>1
    <3>3. ~ r <= q /\ r <= r
      BY <1>4, <3>1
    <3> QED
      BY <3>2, <3>3, Zenon
  <2> HIDE DEF upto
  <2>2. Cardinality(upto(q) \cup {r}) = C(q) + 1
    BY <1>2, <2>1, FS_AddElement
  <2>3. Cardinality(upto(q) \cup {r}) <= C(r)
    BY <1>2, <2>1, FS_Subset
  <2> QED
    BY <1>2, <2>2, <2>3
<1>5. C(p) # 0
  <2>1. p \in upto(p)
    OBVIOUS
  <2> HIDE DEF upto
  <2> QED
    BY <1>2, <2>1, FS_EmptySet
<1>6. Cardinality(S) \in Nat
  BY <1>1, FS_CardinalityType
<1> HIDE DEF C, upto
<1>7. C(p) \in 1 .. Cardinality(S)
  BY <1>2, <1>5, <1>6
<1>8. ASSUME NEW q \in S, C(q) = C(p) PROVE q = p
  <2>1. q \in Nat /\ p \in Nat /\ C(q) \in Nat /\ C(p) \in Nat
    BY <1>2
  <2>2. ~ q < p /\ ~ p < q
    BY <1>4, <1>8, <2>1
  <2> QED
    BY <2>1, <2>2
<1> QED
  BY <1>3, <1>7, <1>8

LEMMA PickedAll ==
  ASSUME NEW n \in Nat, NEW S \in SUBSET (1 .. n), NEW s, NEW p \in S
  PROVE  \E i \in 1 .. Cardinality(S) : D!Picked(s, S)[i] = s[p]
<1> DEFINE i == D!Rank(S, p)
<1>1. i \in 1 .. Cardinality(S) /\ \A q \in S : D!Rank(S, q) = i => q = p
  BY RankInto
<1>2. (CHOOSE q \in S : D!Rank(S, q) = i) = p
  BY <1>1
<1> HIDE DEF i
<1>3. D!Picked(s, S)[i] = s[CHOOSE q \in S : D!Rank(S, q) = i]
  BY <1>1, SameCount DEF D!Picked
<1> QED
  BY <1>1, <1>2, <1>3

LEMMA FlatHolds ==
  ASSUME NEW n \in Nat, NEW ss, ss = [i \in 1 .. n |-> ss[i]], \A i \in 1 .. n : Listed(ss[i])
  PROVE  /\ Listed(D!FlattenSeq(ss))
         /\ D!ToSet(D!FlattenSeq(ss)) = UNION {D!ToSet(ss[i]) : i \in 1 .. n}
<1> DEFINE S == UNION {D!ToSet(ss[i]) : i \in 1 .. n}
<1>1. ASSUME NEW i \in 1 .. n PROVE ss[i] \in Seq(S)
  <2>1. ss[i] \in [1 .. Len(ss[i]) -> D!ToSet(ss[i])] /\ Len(ss[i]) \in Nat
    BY LenProperties DEF Listed
  <2>2. D!ToSet(ss[i]) \subseteq S
    OBVIOUS
  <2> HIDE DEF S
  <2>3. ss[i] \in [1 .. Len(ss[i]) -> S]
    BY <2>1, <2>2
  <2> QED
    BY <2>1, <2>3, SeqDef
<1> HIDE DEF S
<1>2. ss \in [1 .. n -> Seq(S)]
  BY <1>1
<1>3. D!FlattenSeq(ss) \in Seq(S) /\ D!ToSet(D!FlattenSeq(ss)) = UNION {D!ToSet(ss[i]) : i \in 1 .. n}
  BY <1>2, Flattened
<1> QED
  BY <1>3, ListedIf

LEMMA OneHolds == \A x : Listed(<<x>>) /\ D!ToSet(<<x>>) = {x}
<1> TAKE x
<1>1. Listed(<<x>>) /\ DOMAIN <<x>> = 1 .. 1 /\ <<x>>[1] = x
  BY OneListed
<1>2. \A i \in 1 .. 1 : i = 1
  OBVIOUS
<1> QED
  BY <1>1, <1>2 DEF D!ToSet

LEMMA NoneHolds == Listed(<< >>) /\ D!ToSet(<< >>) = {}
<1>1. Alters(<< >>)
  BY NoneAlters
<1> QED
  BY <1>1 DEF Alters, D!ToSet

\* What _modify_column and _alter_plan plan for one column.
LEMMA ModifyAsked ==
  ASSUME NEW j, NEW c \in Cols(j), Stays(j, c), NEW d, NEW old, old = D!Matched(j.from, c),
         NEW t, t = D!ModifyColumn(old, c, d)
  PROVE  /\ Listed(t) /\ \A x \in D!ToSet(t) : Serves(x, j)
         /\ D!Changes(d) => Among(D!ToSet(t), "change", <<Old(j, c), c>>)
         /\ ~ D!Changes(d) /\ old.null # c.null =>
              Among(D!ToSet(t), "set_null", <<c.name, c.null>>)
<1>0. old.name = Old(j, c)
  BY DEF Old
<1>1. CASE D!Changes(d)
  <2>1. PICK class : t = <<D!Stmt("change", <<old.name, c>>, class)>>
    BY <1>1 DEF D!ModifyColumn
  <2> DEFINE x == D!Stmt("change", <<old.name, c>>, class)
  <2>2. x.op = "change" /\ x.arg = <<Old(j, c), c>>
    BY <1>0 DEF D!Stmt
  <2> HIDE DEF x
  <2>3. Listed(t) /\ D!ToSet(t) = {x}
    BY <2>1, OneHolds DEF x
  <2>4. Serves(x, j)
    BY <2>2 DEF Serves
  <2> QED
    BY <1>1, <2>2, <2>3, <2>4 DEF Among
<1>2. CASE ~ D!Changes(d)
  <2> DEFINE x == D!Stmt("set_null", <<c.name, c.null>>,
                         IF D!Tightened(old, c) THEN "may_fail" ELSE "safe")
             y == D!Stmt("set_default", <<c.name, c.dflt>>, "safe")
             e == IF old.null = c.null THEN << >> ELSE <<x>>
             f == IF old.dflt = c.dflt THEN << >> ELSE <<y>>
  <2>1. t = e \o f
    BY <1>2 DEF D!ModifyColumn
  <2>2. x.op = "set_null" /\ x.arg = <<c.name, c.null>> /\ y.op = "set_default"
    BY DEF D!Stmt
  <2> HIDE DEF x, y
  <2>3. Serves(x, j) /\ Serves(y, j)
    BY <2>2 DEF Serves
  <2>4. Listed(e) /\ D!ToSet(e) = IF old.null = c.null THEN {} ELSE {x}
    BY OneHolds, NoneHolds
  <2>5. Listed(f) /\ D!ToSet(f) = IF old.dflt = c.dflt THEN {} ELSE {y}
    BY OneHolds, NoneHolds
  <2> HIDE DEF e, f
  <2>6. Listed(t) /\ D!ToSet(t) = D!ToSet(e) \cup D!ToSet(f)
    <3>1. Listed(e) /\ Listed(f)
      BY <2>4, <2>5
    <3> QED
      BY <2>1, <3>1, JoinHolds, ListedJoin
  <2> QED
    BY <1>2, <2>2, <2>3, <2>4, <2>5, <2>6 DEF Among
<1> QED
  BY <1>1, <1>2

\* What one column of the form comes to.
LEMMA ColumnAsked ==
  ASSUME NEW j, NEW c \in Cols(j), NEW d, NEW t, t = D!AlterColumn(j.from, c, d)
  PROVE  /\ Listed(t) /\ \A x \in D!ToSet(t) : Serves(x, j)
         /\ ~ Stays(j, c) => Among(D!ToSet(t), "add", c)
         /\ Stays(j, c) /\ Old(j, c) # c.name => ToRename(D!ToSet(t), j, c)
         /\ Stays(j, c) /\ D!Matched(j.from, c).null # c.null => ToRestate(D!ToSet(t), j, c)
<1> DEFINE old == D!Matched(j.from, c)
           renamed == old.name # c.name
           x == D!Stmt("rename", <<old.name, c.name>>, "safe")
           m == D!ModifyColumn(old, c, d)
           asked == (renamed /\ D!Changes(d)) \/ D!ColumnChanged(old, c)
           a == IF renamed /\ ~ D!Changes(d) THEN <<x>> ELSE << >>
           b == IF asked THEN m ELSE << >>
<1>1. CASE ~ Stays(j, c)
  <2>1. t = <<D!AddColumn(c)>>
    BY <1>1 DEF Stays, D!Found, D!AlterColumn
  <2> DEFINE y == D!AddColumn(c)
  <2>2. y.op = "add" /\ y.arg = c
    BY DEF D!AddColumn, D!Stmt
  <2>3. Listed(t) /\ D!ToSet(t) = {y}
    BY <2>1, OneHolds
  <2> HIDE DEF y
  <2>4. Serves(y, j)
    BY <1>1, <2>2 DEF Serves
  <2> QED
    BY <1>1, <2>2, <2>3, <2>4 DEF Among
<1>2. CASE Stays(j, c)
  <2>1. t = a \o b
    BY <1>2 DEF Stays, D!Found, D!AlterColumn
  <2>2. x.op = "rename" /\ x.arg = <<Old(j, c), c.name>> /\ (renamed <=> Old(j, c) # c.name)
    BY DEF D!Stmt, Old
  <2>3. /\ Listed(m) /\ \A y \in D!ToSet(m) : Serves(y, j)
        /\ D!Changes(d) => Among(D!ToSet(m), "change", <<Old(j, c), c>>)
        /\ ~ D!Changes(d) /\ old.null # c.null =>
             Among(D!ToSet(m), "set_null", <<c.name, c.null>>)
    BY <1>2, ModifyAsked
  <2>4. old.null # c.null => asked
    BY DEF D!ColumnChanged
  <2>4a. renamed /\ D!Changes(d) => asked
    OBVIOUS
  <2> HIDE DEF x, m, asked, renamed
  <2>5. renamed => Serves(x, j)
    BY <1>2, <2>2 DEF Serves
  <2>6. Listed(a) /\ D!ToSet(a) = IF renamed /\ ~ D!Changes(d) THEN {x} ELSE {}
    BY OneHolds, NoneHolds
  <2>7. Listed(b) /\ D!ToSet(b) = IF asked THEN D!ToSet(m) ELSE {}
    BY <2>3, NoneHolds
  <2> HIDE DEF a, b
  <2>8. Listed(t) /\ D!ToSet(t) = D!ToSet(a) \cup D!ToSet(b)
    <3>1. Listed(a) /\ Listed(b)
      BY <2>6, <2>7
    <3> QED
      BY <2>1, <3>1, JoinHolds, ListedJoin
  <2>9. \A y \in D!ToSet(t) : Serves(y, j)
    BY <2>3, <2>5, <2>6, <2>7, <2>8
  <2>10. Old(j, c) # c.name => ToRename(D!ToSet(t), j, c)
    <3>1. CASE D!Changes(d)
      BY <2>2, <2>3, <2>4a, <2>7, <2>8, <3>1 DEF ToRename, Among
    <3>2. CASE ~ D!Changes(d)
      BY <2>2, <2>6, <2>8, <3>2 DEF ToRename, Among
    <3> QED
      BY <3>1, <3>2
  <2>11. old.null # c.null => ToRestate(D!ToSet(t), j, c)
    <3>1. CASE D!Changes(d)
      BY <2>3, <2>4, <2>7, <2>8, <3>1 DEF ToRestate, Among
    <3>2. CASE ~ D!Changes(d)
      BY <2>3, <2>4, <2>7, <2>8, <3>2 DEF ToRestate, Among
    <3> QED
      BY <3>1, <3>2
  <2> QED
    BY <1>2, <2>8, <2>9, <2>10, <2>11
<1> QED
  BY <1>1, <1>2

\* The plan of _alter_plan.
LEMMA AlterAsked ==
  ASSUME NEW j, Sized(j.from), Sized(j.target), NEW d, NEW t, t = D!AlterPlan(j.from, j.target, d)
  PROVE  (\A x \in D!ToSet(t) : Serves(x, j)) /\ Asked(D!ToSet(t), j)
<1> DEFINE cur == j.from
           target == j.target
           away == {i \in DOMAIN cur.cols : cur.cols[i].name \notin D!Kept(cur, target)}
           dropped == D!Picked(cur.cols, away)
           a == D!ForColumns(target.cols, LAMBDA c : D!AlterColumn(cur, c, d))
           b == [i \in DOMAIN dropped |-> D!Stmt("drop", dropped[i].name, "destructive")]
           e == D!ConstraintStatements(cur, target)
           f == D!IndexStatements(cur, target)
<1>1. /\ Listed(a) /\ \A x \in D!ToSet(a) : Serves(x, j)
      /\ \A c \in Cols(j) : ~ Stays(j, c) => Among(D!ToSet(a), "add", c)
      /\ \A c \in Cols(j) : Stays(j, c) /\ Old(j, c) # c.name => ToRename(D!ToSet(a), j, c)
      /\ \A c \in Cols(j) :
           Stays(j, c) /\ D!Matched(j.from, c).null # c.null => ToRestate(D!ToSet(a), j, c)
  <2>1. PICK n \in Nat : DOMAIN target.cols = 1 .. n
    BY DEF Sized
  <2> DEFINE ss == [i \in 1 .. n |-> D!AlterColumn(cur, target.cols[i], d)]
  <2>2. a = D!FlattenSeq(ss)
    BY <2>1 DEF D!ForColumns
  <2>3. ASSUME NEW i \in 1 .. n
        PROVE  /\ target.cols[i] \in Cols(j)
               /\ ss[i] = D!AlterColumn(j.from, target.cols[i], d)
    BY <2>1 DEF Cols, D!ToSet
  <2>4. \A c \in Cols(j) : \E i \in 1 .. n : c = target.cols[i]
    BY <2>1 DEF Cols, D!ToSet
  <2>5. ss = [i \in 1 .. n |-> ss[i]]
    OBVIOUS
  <2> HIDE DEF ss, a
  <2>6. ASSUME NEW i \in 1 .. n, NEW c, c = target.cols[i]
        PROVE  /\ Listed(ss[i]) /\ \A x \in D!ToSet(ss[i]) : Serves(x, j)
               /\ ~ Stays(j, c) => Among(D!ToSet(ss[i]), "add", c)
               /\ Stays(j, c) /\ Old(j, c) # c.name => ToRename(D!ToSet(ss[i]), j, c)
               /\ Stays(j, c) /\ D!Matched(j.from, c).null # c.null =>
                    ToRestate(D!ToSet(ss[i]), j, c)
    BY <2>3, <2>6, ColumnAsked
  <2>7. Listed(a) /\ D!ToSet(a) = UNION {D!ToSet(ss[i]) : i \in 1 .. n}
    BY <2>2, <2>5, <2>6, FlatHolds
  <2>8. \A i \in 1 .. n : D!ToSet(ss[i]) \subseteq D!ToSet(a)
    BY <2>7
  <2>9. ASSUME NEW X, X \subseteq D!ToSet(a), NEW op, NEW arg, Among(X, op, arg)
        PROVE  Among(D!ToSet(a), op, arg)
    BY <2>9 DEF Among
  <2>10. \A x \in D!ToSet(a) : Serves(x, j)
    BY <2>6, <2>7
  <2>11. ASSUME NEW c \in Cols(j)
         PROVE  /\ ~ Stays(j, c) => Among(D!ToSet(a), "add", c)
                /\ Stays(j, c) /\ Old(j, c) # c.name => ToRename(D!ToSet(a), j, c)
                /\ Stays(j, c) /\ D!Matched(j.from, c).null # c.null =>
                     ToRestate(D!ToSet(a), j, c)
    <3>1. PICK i \in 1 .. n : c = target.cols[i]
      BY <2>4
    <3> QED
      BY <2>6, <2>8, <2>9, <3>1 DEF ToRename, ToRestate
  <2> QED
    BY <2>7, <2>10, <2>11
<1>2. /\ Listed(b) /\ \A x \in D!ToSet(b) : Serves(x, j)
      /\ \A n \in Lost(j) : Among(D!ToSet(b), "drop", n)
  <2>1. PICK l \in Nat : away \in SUBSET (1 .. l)
    BY DEF Sized
  <2>2. DOMAIN dropped = 1 .. Cardinality(away) /\ Cardinality(away) \in Nat
    <3>1. IsFiniteSet(1 .. l)
      BY FS_Interval
    <3>2. IsFiniteSet(away)
      BY <2>1, <3>1, FS_Subset
    <3> HIDE DEF away
    <3> QED
      BY <3>2, FS_CardinalityType, SameCount DEF D!Picked
  <2>3. \A i \in away : cur.cols[i].name \in Lost(j)
    BY DEF Lost, D!NamesOf, D!ToSet
  <2>4. \A n \in Lost(j) : \E p \in away : cur.cols[p].name = n
    BY DEF Lost, D!NamesOf, D!ToSet
  <2> HIDE DEF away, cur
  <2>5. ASSUME NEW r, NEW i \in 1 .. Cardinality(away)
        PROVE  \E p \in away : D!Picked(r, away)[i] = r[p]
    BY <2>1, PickedFrom
  <2>6. ASSUME NEW r, NEW p \in away
        PROVE  \E i \in 1 .. Cardinality(away) : D!Picked(r, away)[i] = r[p]
    BY <2>1, PickedAll
  <2>7. \A i \in DOMAIN dropped : dropped[i].name \in Lost(j)
    BY <2>2, <2>3, <2>5
  <2>8. \A n \in Lost(j) : \E i \in DOMAIN dropped : dropped[i].name = n
    BY <2>2, <2>4, <2>6
  <2> HIDE DEF dropped
  <2>9. PICK m \in Nat : DOMAIN dropped = 1 .. m
    BY <2>2
  <2>10. /\ b = [i \in 1 .. m |-> b[i]]
         /\ \A i \in 1 .. m : b[i].op = "drop" /\ b[i].arg = dropped[i].name
    BY <2>9 DEF D!Stmt
  <2> HIDE DEF b
  <2>11. Listed(b) /\ D!ToSet(b) = {b[i] : i \in 1 .. m}
    BY <2>10, ListedOver DEF D!ToSet
  <2>12. \A x \in D!ToSet(b) : Serves(x, j)
    BY <2>7, <2>9, <2>10, <2>11 DEF Serves
  <2>13. \A n \in Lost(j) : Among(D!ToSet(b), "drop", n)
    BY <2>8, <2>9, <2>10, <2>11 DEF Among
  <2> QED
    BY <2>11, <2>12, <2>13
<1>3. Listed(e) /\ \A x \in D!ToSet(e) : Serves(x, j)
  <2> DEFINE S == target.keys \ cur.keys
  <2>1. IsFiniteSet(S)
    BY FS_Subset DEF Sized
  <2>2. e = [i \in DOMAIN D!SetToSeq(S) |-> D!Stmt("add_key", D!SetToSeq(S)[i], "may_fail")]
    BY DEF D!ConstraintStatements, D!OneEach
  <2>3. /\ \A i \in DOMAIN D!SetToSeq(S) : D!SetToSeq(S)[i] \in target.keys
        /\ \E n \in Nat : DOMAIN D!SetToSeq(S) = 1 .. n
    BY <2>1, SetListed, ElementOfSeq, LenProperties
  <2> HIDE DEF S, e
  <2>4. PICK n \in Nat : DOMAIN D!SetToSeq(S) = 1 .. n
    BY <2>3
  <2>5. /\ e = [i \in 1 .. n |-> e[i]]
        /\ \A i \in 1 .. n : e[i].op = "add_key" /\ e[i].arg \in j.target.keys
    BY <2>2, <2>3, <2>4 DEF D!Stmt
  <2>6. Listed(e) /\ D!ToSet(e) = {e[i] : i \in 1 .. n}
    BY <2>5, ListedOver DEF D!ToSet
  <2> QED
    BY <2>5, <2>6 DEF Serves
<1>4. Listed(f) /\ \A x \in D!ToSet(f) : Serves(x, j)
  <2> DEFINE S == {i \in cur.idx : i.name \notin {l.name : l \in target.idx}}
             T == {i \in target.idx : i.name \notin {l.name : l \in cur.idx}}
             s == [i \in DOMAIN D!SetToSeq(S) |-> D!Stmt("drop_index", D!SetToSeq(S)[i], "safe")]
             r == [i \in DOMAIN D!SetToSeq(T) |->
                     D!Stmt("create_index", D!SetToSeq(T)[i],
                            IF D!SetToSeq(T)[i].unique THEN "may_fail" ELSE "safe")]
  <2>1. IsFiniteSet(S) /\ IsFiniteSet(T)
    BY FS_Subset DEF Sized
  <2>2. f = s \o r
    BY DEF D!IndexStatements, D!OneEach
  <2> HIDE DEF S, T, f
  <2>3. /\ \E n \in Nat : DOMAIN D!SetToSeq(S) = 1 .. n
        /\ \E n \in Nat : DOMAIN D!SetToSeq(T) = 1 .. n
    BY <2>1, SetListed, LenProperties
  <2>4. Listed(s) /\ \A x \in D!ToSet(s) : Serves(x, j)
    <3>1. PICK n \in Nat : DOMAIN D!SetToSeq(S) = 1 .. n
      BY <2>3
    <3>2. s = [i \in 1 .. n |-> s[i]] /\ \A i \in 1 .. n : s[i].op = "drop_index"
      BY <3>1 DEF D!Stmt
    <3> HIDE DEF s
    <3>3. Listed(s) /\ D!ToSet(s) = {s[i] : i \in 1 .. n}
      BY <3>2, ListedOver DEF D!ToSet
    <3> QED
      BY <3>2, <3>3 DEF Serves
  <2>5. Listed(r) /\ \A x \in D!ToSet(r) : Serves(x, j)
    <3>1. PICK n \in Nat : DOMAIN D!SetToSeq(T) = 1 .. n
      BY <2>3
    <3>2. r = [i \in 1 .. n |-> r[i]] /\ \A i \in 1 .. n : r[i].op = "create_index"
      BY <3>1 DEF D!Stmt
    <3> HIDE DEF r
    <3>3. Listed(r) /\ D!ToSet(r) = {r[i] : i \in 1 .. n}
      BY <3>2, ListedOver DEF D!ToSet
    <3> QED
      BY <3>2, <3>3 DEF Serves
  <2> HIDE DEF s, r
  <2> QED
    BY <2>2, <2>4, <2>5, JoinHolds, ListedJoin
<1>5. t = ((a \o b) \o e) \o f
  BY DEF D!AlterPlan
<1> HIDE DEF a, b, e, f
<1>6. Listed(a \o b) /\ D!ToSet(a \o b) = D!ToSet(a) \cup D!ToSet(b)
  BY <1>1, <1>2, JoinHolds, ListedJoin
<1>7. /\ Listed((a \o b) \o e)
      /\ D!ToSet((a \o b) \o e) = D!ToSet(a) \cup D!ToSet(b) \cup D!ToSet(e)
  BY <1>3, <1>6, JoinHolds, ListedJoin
<1>8. D!ToSet(t) = D!ToSet(a) \cup D!ToSet(b) \cup D!ToSet(e) \cup D!ToSet(f)
  BY <1>4, <1>5, <1>7, JoinHolds
<1>9. \A x \in D!ToSet(t) : Serves(x, j)
  BY <1>1, <1>2, <1>3, <1>4, <1>8
<1>10. ASSUME NEW X \in {D!ToSet(a), D!ToSet(b)}, NEW op, NEW arg, Among(X, op, arg)
       PROVE  Among(D!ToSet(t), op, arg)
  BY <1>8, <1>10 DEF Among
<1>11. Asked(D!ToSet(t), j)
  BY <1>1, <1>2, <1>10 DEF Asked, ToRename, ToRestate
<1> QED
  BY <1>9, <1>11

\* The plan of _rebuild_plan changes no column where it is.
Silent(t) ==
  Listed(t) /\ \A x \in D!ToSet(t) :
    x.op \notin {"add", "rename", "change", "set_null", "drop", "add_key"}

LEMMA SilentJoin == ASSUME NEW s, NEW t, Silent(s), Silent(t) PROVE Silent(s \o t)
<1>1. Listed(s \o t) /\ D!ToSet(s \o t) = D!ToSet(s) \cup D!ToSet(t)
  BY JoinHolds, ListedJoin DEF Silent
<1> QED
  BY <1>1 DEF Silent

LEMMA SilentOne ==
  ASSUME NEW x, x.op \notin {"add", "rename", "change", "set_null", "drop", "add_key"}
  PROVE  Silent(<<x>>)
BY OneHolds DEF Silent

\* A rebuild has no such statement.
LEMMA RebuildServes ==
  ASSUME NEW j, Sized(j.target)
  PROVE  \A x \in D!ToSet(D!Wrapped(D!RebuildPlan(j.from, j.target))) : Serves(x, j)
<1> DEFINE carried == Carried(j.from, j.target)
           dropped == D!NamesOf(j.from) \ D!Kept(j.from, j.target)
           x1 == D!Stmt("fk_off", NoColumnName, "safe")
           x2 == D!Stmt("begin", NoColumnName, "safe")
           x3 == D!Stmt("rename_table", NoColumnName, "rewrite")
           x4 == D!Stmt("create", j.target, "rewrite")
           x5 == D!Stmt("copy", carried, "rewrite")
           x6 == D!Stmt("drop_backup", NoColumnName,
                        IF dropped # {} THEN "destructive" ELSE "rewrite")
           x7 == D!Stmt("commit", NoColumnName, "safe")
           x8 == D!Stmt("fk_on", NoColumnName, "safe")
           s3 == IF carried = {} THEN << >> ELSE <<x5>>
           s5 == D!OneEach(j.target.idx, LAMBDA i : D!Stmt("create_index", i, "safe"))
           t == D!Wrapped(D!RebuildPlan(j.from, j.target))
<1>1. t = (<<x1, x2>> \o (((<<x3, x4>> \o s3) \o <<x6>>) \o s5)) \o <<x7, x8>>
  BY DEF D!Wrapped, D!RebuildPlan, Carried
<1>2. /\ x1.op = "fk_off" /\ x2.op = "begin" /\ x3.op = "rename_table" /\ x4.op = "create"
      /\ x5.op = "copy" /\ x6.op = "drop_backup" /\ x7.op = "commit" /\ x8.op = "fk_on"
  BY DEF D!Stmt
<1>3. Silent(s5)
  <2> DEFINE S == j.target.idx
  <2>1. PICK n \in Nat : DOMAIN D!SetToSeq(S) = 1 .. n
    BY SetListed, LenProperties DEF Sized
  <2>2. s5 = [i \in DOMAIN D!SetToSeq(S) |-> D!Stmt("create_index", D!SetToSeq(S)[i], "safe")]
    BY DEF D!OneEach
  <2> HIDE DEF s5
  <2>2a. s5 = [i \in 1 .. n |-> D!Stmt("create_index", D!SetToSeq(S)[i], "safe")]
    BY <2>1, <2>2
  <2>3. s5 = [i \in 1 .. n |-> s5[i]] /\ \A i \in 1 .. n : s5[i].op = "create_index"
    BY <2>2a DEF D!Stmt
  <2>4. Listed(s5) /\ D!ToSet(s5) = {s5[i] : i \in 1 .. n}
    BY <2>3, ListedOver DEF D!ToSet
  <2> QED
    BY <2>3, <2>4 DEF Silent
<1> HIDE DEF x1, x2, x3, x4, x5, x6, x7, x8, s5, t, carried
<1>4. ASSUME NEW x, NEW y PROVE Listed(<<x, y>>) /\ D!ToSet(<<x, y>>) = {x, y}
  <2> DEFINE s == <<x, y>>
  <2>1. s = [i \in 1 .. 2 |-> s[i]] /\ s[1] = x /\ s[2] = y /\ DOMAIN s = {1, 2}
    OBVIOUS
  <2> HIDE DEF s
  <2>2. Listed(s) /\ D!ToSet(s) = {x, y}
    BY <2>1, ListedOver DEF D!ToSet
  <2> QED
    BY <2>2 DEF s
<1>5. Silent(<<x1, x2>>) /\ Silent(<<x3, x4>>) /\ Silent(<<x7, x8>>) /\ Silent(<<x6>>)
  BY <1>2, <1>4, SilentOne DEF Silent
<1>6. Silent(s3)
  BY <1>2, SilentOne, NoneHolds DEF Silent
<1> HIDE DEF s3
<1>7. Silent(((<<x3, x4>> \o s3) \o <<x6>>) \o s5)
  BY <1>3, <1>5, <1>6, SilentJoin
<1>8. Silent(t)
  BY <1>1, <1>5, <1>7, SilentJoin
<1> QED
  BY <1>8 DEF Silent, Serves, t

-----------------------------------------------------------------------------
(* The rows of the form a plan was made from.                               *)

\* The rows of the form: a key column is NOT NULL, and no two were loaded from
\* the same column.
IsRow(r) ==
  /\ r = [loaded |-> r.loaded, name |-> r.name, null |-> r.null, pk |-> r.pk, dflt |-> r.dflt]
  /\ r.null \in BOOLEAN /\ r.pk \in BOOLEAN /\ (r.pk => ~ r.null)

RowsOK(rs) ==
  /\ \A i \in DOMAIN rs : IsRow(rs[i])
  /\ \A i, l \in DOMAIN rs : rs[i].loaded = rs[l].loaded => i = l \/ rs[i].loaded = NoColumnName

RowsInv == RowsOK(rows) /\ NoColumnName \notin D!NamesOf(current)

\* Edits that keep what each row was loaded from.
LEMMA RowsLike ==
  ASSUME NEW s, RowsOK(s), NEW r, DOMAIN r = DOMAIN s,
         \A i \in DOMAIN s : IsRow(r[i]) /\ r[i].loaded = s[i].loaded
  PROVE  RowsOK(r)
BY DEF RowsOK

\* A row with its boxes changed, and one cleared.
Boxed(r, p, b) == [r EXCEPT !.pk = p, !.null = b]
Cleared(r) == [r EXCEPT !.name = NoColumnName, !.dflt = FALSE, !.pk = FALSE, !.null = TRUE]

LEMMA BoxedIs ==
  ASSUME NEW r, IsRow(r), NEW p \in BOOLEAN, NEW b \in BOOLEAN, p => ~ b,
         NEW x, x = Boxed(r, p, b)
  PROVE  IsRow(x) /\ x.loaded = r.loaded
<1>1. DOMAIN r = {"loaded", "name", "null", "pk", "dflt"} /\ r = [f \in DOMAIN r |-> r[f]]
  BY DEF IsRow
<1>2. x = [f \in DOMAIN r |-> CASE f = "pk" -> p [] f = "null" -> b [] OTHER -> r[f]]
  BY <1>1 DEF Boxed
<1>3. DOMAIN x = {"loaded", "name", "null", "pk", "dflt"} /\ x = [f \in DOMAIN x |-> x[f]]
  BY <1>1, <1>2
<1>4. x.pk = p /\ x.null = b /\ x.loaded = r.loaded
  BY <1>1, <1>2
<1> QED
  BY <1>3, <1>4 DEF IsRow

LEMMA ClearedIs ==
  ASSUME NEW r, IsRow(r), NEW x, x = Cleared(r)
  PROVE  IsRow(x) /\ x.loaded = r.loaded
<1>1. DOMAIN r = {"loaded", "name", "null", "pk", "dflt"} /\ r = [f \in DOMAIN r |-> r[f]]
  BY DEF IsRow
<1>2. x = [f \in DOMAIN r |-> CASE f = "name" -> NoColumnName [] f = "dflt" -> FALSE
                                 [] f = "pk" -> FALSE [] f = "null" -> TRUE [] OTHER -> r[f]]
  BY <1>1 DEF Cleared
<1>3. DOMAIN x = {"loaded", "name", "null", "pk", "dflt"} /\ x = [f \in DOMAIN x |-> x[f]]
  BY <1>1, <1>2
<1>4. x.pk = FALSE /\ x.null = TRUE /\ x.loaded = r.loaded
  BY <1>1, <1>2
<1> QED
  BY <1>3, <1>4 DEF IsRow

\* One row restated.
LEMMA RowsWith ==
  ASSUME NEW s, RowsOK(s), s = [l \in DOMAIN s |-> s[l]], NEW i \in DOMAIN s,
         NEW x, IsRow(x), x.loaded = s[i].loaded, NEW r, r = [s EXCEPT ![i] = x]
  PROVE  RowsOK(r)
<1>1. DOMAIN r = DOMAIN s /\ \A l \in DOMAIN s : r[l] = IF l = i THEN x ELSE s[l]
  OBVIOUS
<1>2. \A l \in DOMAIN s : IsRow(r[l]) /\ r[l].loaded = s[l].loaded
  BY <1>1 DEF RowsOK
<1> QED
  BY <1>1, <1>2, RowsLike

LEMMA RowsEdited ==
  ASSUME RowsInv, NEW rs, NEW chosen, NEW ix, D!EditForm(rs, chosen, ix), RowsOK(rs)
  PROVE  RowsInv'
<1>1. rows' = rs /\ current' = current
  BY DEF D!EditForm
<1>2. RowsOK(rows')
  BY <1>1
<1>3. NoColumnName \notin D!NamesOf(current')
  BY <1>1 DEF RowsInv
<1>4. RowsOK(rows)'
  BY <1>2 DEF RowsOK, IsRow
<1>5. (NoColumnName \notin D!NamesOf(current))'
  BY <1>3 DEF D!NamesOf
<1> QED
  BY <1>4, <1>5 DEF RowsInv

LEMMA RemovedFrom ==
  ASSUME NEW s, Listed(s), NEW i \in DOMAIN s, NEW u, u = D!RemoveAt(s, i)
  PROVE  \A x \in DOMAIN u :
           \/ x \in DOMAIN s /\ x < i /\ u[x] = s[x]
           \/ x + 1 \in DOMAIN s /\ x >= i /\ u[x] = s[x + 1]
<1>1. DOMAIN s = 1 .. Len(s) /\ Len(s) \in Nat
  BY ListedDomain
<1>2. \A y \in 1 .. Len(s) : s[y] \in D!ToSet(s)
  BY <1>1 DEF D!ToSet
<1> DEFINE a == SubSeq(s, 1, i - 1)
           b == SubSeq(s, i + 1, Len(s))
<1>3. a \in Seq(D!ToSet(s)) /\ Len(a) = i - 1 /\ \A y \in 1 .. i - 1 : a[y] = s[y]
  <2>1. 1 \in Int /\ i - 1 \in Int /\ \A y \in 1 .. i - 1 : s[y] \in D!ToSet(s)
    BY <1>1, <1>2
  <2>2. /\ a \in Seq(D!ToSet(s))
        /\ Len(a) = IF 1 <= i - 1 THEN (i - 1) - 1 + 1 ELSE 0
        /\ \A y \in 1 .. (i - 1) - 1 + 1 : a[y] = s[1 + y - 1]
    BY <2>1, SubSeqProperties
  <2>3. i \in Nat /\ i >= 1
    BY <1>1
  <2> HIDE DEF a
  <2>4. \A y \in 1 .. i - 1 : y \in 1 .. (i - 1) - 1 + 1 /\ 1 + y - 1 = y
    BY <2>3
  <2> QED
    BY <2>2, <2>3, <2>4
<1>4. b \in Seq(D!ToSet(s)) /\ Len(b) = Len(s) - i /\ \A y \in 1 .. Len(s) - i : b[y] = s[i + y]
  <2>1. i + 1 \in Int /\ Len(s) \in Int /\ \A y \in i + 1 .. Len(s) : s[y] \in D!ToSet(s)
    BY <1>1, <1>2
  <2>2. /\ b \in Seq(D!ToSet(s))
        /\ Len(b) = IF i + 1 <= Len(s) THEN Len(s) - (i + 1) + 1 ELSE 0
        /\ \A y \in 1 .. Len(s) - (i + 1) + 1 : b[y] = s[i + 1 + y - 1]
    BY <2>1, SubSeqProperties
  <2>3. i \in Nat /\ i <= Len(s)
    BY <1>1
  <2> HIDE DEF b
  <2>4. \A y \in 1 .. Len(s) - i : y \in 1 .. Len(s) - (i + 1) + 1 /\ i + 1 + y - 1 = i + y
    BY <1>1, <2>3
  <2> QED
    BY <1>1, <2>2, <2>3, <2>4
<1>5. u = a \o b
  BY DEF D!RemoveAt
<1> HIDE DEF a, b
<1>6. /\ Listed(a) /\ Listed(b) /\ DOMAIN a = 1 .. i - 1 /\ DOMAIN b = 1 .. Len(s) - i
      /\ DOMAIN u = 1 .. Len(u) /\ Len(u) \in Nat
  BY <1>3, <1>4, <1>5, ListedIf, ListedJoin
<1>6a. Listed(a) /\ Listed(b)
  BY <1>6
<1>6b. \A x \in DOMAIN (a \o b) :
         \/ x \in DOMAIN a /\ (a \o b)[x] = a[x]
         \/ x - Len(a) \in DOMAIN b /\ x > Len(a) /\ (a \o b)[x] = b[x - Len(a)]
  BY <1>6a, ListedJoin
<1>7. \A x \in DOMAIN u :
         \/ x \in DOMAIN a /\ u[x] = a[x]
         \/ x - Len(a) \in DOMAIN b /\ x > Len(a) /\ u[x] = b[x - Len(a)]
  BY <1>5, <1>6b
<1> QED
  <2> SUFFICES ASSUME NEW x \in DOMAIN u
               PROVE  \/ x \in DOMAIN s /\ x < i /\ u[x] = s[x]
                      \/ x + 1 \in DOMAIN s /\ x >= i /\ u[x] = s[x + 1]
    OBVIOUS
  <2>0. x \in Nat /\ i \in 1 .. Len(s)
    BY <1>1, <1>6
  <2>1. CASE x \in DOMAIN a /\ u[x] = a[x]
    BY <1>1, <1>3, <1>6, <2>0, <2>1
  <2>2. CASE x - Len(a) \in DOMAIN b /\ x > Len(a) /\ u[x] = b[x - Len(a)]
    <3>1. x - (i - 1) \in 1 .. Len(s) - i /\ i + (x - (i - 1)) = x + 1
      BY <1>3, <1>6, <2>0, <2>2
    <3>2. u[x] = s[x + 1]
      BY <1>3, <1>4, <2>2, <3>1
    <3>3. x + 1 \in DOMAIN s /\ x >= i
      BY <1>1, <2>0, <3>1
    <3> QED
      BY <3>2, <3>3
  <2> QED
    BY <1>7, <2>1, <2>2

\* Every action of the form keeps its rows so.
LEMMA RowsStep ==
  ASSUME DesignInv, RowsInv, D!Edit
  PROVE  RowsInv'
<1>1. /\ Listed(rows) /\ rows = [i \in DOMAIN rows |-> rows[i]]
      /\ RowsOK(rows) /\ DOMAIN rows = 1 .. Len(rows) /\ Len(rows) \in Nat
  <2>1. Listed(rows)
    BY DEF DesignInv, FormInv
  <2>2. rows = [i \in DOMAIN rows |-> rows[i]]
    BY <2>1, LenProperties DEF Listed
  <2> QED
    BY <2>1, <2>2, ListedDomain DEF RowsInv
<1>2. ASSUME NEW i \in DOMAIN rows, NEW n, D!RenameRow(i, n) PROVE RowsInv'
  <2> DEFINE rs == [rows EXCEPT ![i].name = n]
             x == [rows[i] EXCEPT !.name = n]
  <2>1. D!EditForm(rs, pk, index)
    BY <1>2, Zenon DEF D!RenameRow
  <2>2. rs = [rows EXCEPT ![i] = x]
    OBVIOUS
  <2>3. IsRow(x) /\ x.loaded = rows[i].loaded
    BY <1>1 DEF RowsOK, IsRow
  <2> HIDE DEF rs, x
  <2>4. RowsOK(rs)
    BY <1>1, <2>2, <2>3, RowsWith
  <2> QED
    BY <2>1, <2>4, RowsEdited
<1>3. ASSUME NEW i \in DOMAIN rows, D!SetNullable(i) PROVE RowsInv'
  <2> DEFINE rs == [rows EXCEPT ![i].null = ~@]
             b == ~ rows[i].null
             x == [rows[i] EXCEPT !.null = b]
  <2>1. D!EditForm(rs, pk, index) /\ ~ rows[i].pk
    BY <1>3, Zenon DEF D!SetNullable
  <2>2. rs = [rows EXCEPT ![i] = x]
    OBVIOUS
  <2>3. IsRow(x) /\ x.loaded = rows[i].loaded
    <3>1. b \in BOOLEAN
      OBVIOUS
    <3> HIDE DEF b
    <3> QED
      BY <1>1, <2>1, <3>1 DEF RowsOK, IsRow
  <2> HIDE DEF rs, x
  <2>4. RowsOK(rs)
    BY <1>1, <2>2, <2>3, RowsWith
  <2> QED
    BY <2>1, <2>4, RowsEdited
<1>4. ASSUME NEW i \in DOMAIN rows, D!SetDefault(i) PROVE RowsInv'
  <2> DEFINE rs == [rows EXCEPT ![i].dflt = ~@]
             b == ~ rows[i].dflt
             x == [rows[i] EXCEPT !.dflt = b]
  <2>1. D!EditForm(rs, pk, index)
    BY <1>4, Zenon DEF D!SetDefault
  <2>2. rs = [rows EXCEPT ![i] = x]
    OBVIOUS
  <2> HIDE DEF b
  <2>3. IsRow(x) /\ x.loaded = rows[i].loaded
    BY <1>1 DEF RowsOK, IsRow
  <2> HIDE DEF rs, x
  <2>4. RowsOK(rs)
    BY <1>1, <2>2, <2>3, RowsWith
  <2> QED
    BY <2>1, <2>4, RowsEdited
<1>5. ASSUME NEW i \in DOMAIN rows, D!RemoveRow(i) PROVE RowsInv'
  <2> DEFINE x == [rows[i] EXCEPT !.name = NoColumnName, !.dflt = FALSE,
                                  !.pk = FALSE, !.null = TRUE]
             rs == [rows EXCEPT ![i] = x]
             u == D!RemoveAt(rows, i)
  <2>1. D!EditForm(rs, {}, index) \/ D!EditForm(u, pk, index)
    BY <1>5, Zenon DEF D!RemoveRow
  <2>2. IsRow(x) /\ x.loaded = rows[i].loaded
    <3>1. x = Cleared(rows[i])
      BY Zenon DEF Cleared
    <3>2. PICK r : r = rows[i]
      OBVIOUS
    <3>3. IsRow(r)
      BY <1>1, <3>2 DEF RowsOK
    <3> HIDE DEF x
    <3> QED
      BY <3>1, <3>2, <3>3, ClearedIs
  <2> HIDE DEF x
  <2>3. RowsOK(rs)
    BY <1>1, <2>2, RowsWith
  <2>4. RowsOK(u)
    <3> HIDE DEF u
    <3>1. \A y \in DOMAIN u :
           \/ y \in DOMAIN rows /\ y < i /\ u[y] = rows[y]
           \/ y + 1 \in DOMAIN rows /\ y >= i /\ u[y] = rows[y + 1]
      BY <1>1, RemovedFrom DEF u
    <3>2. \A y \in DOMAIN u : IsRow(u[y])
      BY <1>1, <3>1 DEF RowsOK
    <3>3. ASSUME NEW y \in DOMAIN u, NEW z \in DOMAIN u, u[y].loaded = u[z].loaded,
                 u[y].loaded # NoColumnName
          PROVE  y = z
      <4>1. y \in Int /\ z \in Int /\ i \in Int
        <5>1. Listed(u)
          BY <1>1, ListedWithout DEF u
        <5> QED
          BY <1>1, <5>1, ListedDomain
      <4>2. PICK p \in DOMAIN rows : u[y] = rows[p] /\ ((y < i /\ p = y) \/ (y >= i /\ p = y + 1))
        BY <3>1
      <4>3. PICK q \in DOMAIN rows : u[z] = rows[q] /\ ((z < i /\ q = z) \/ (z >= i /\ q = z + 1))
        BY <3>1
      <4>4. p = q
        BY <1>1, <3>3, <4>2, <4>3 DEF RowsOK
      <4> QED
        BY <4>1, <4>2, <4>3, <4>4
    <3> QED
      BY <3>2, <3>3 DEF RowsOK
  <2> HIDE DEF rs, u
  <2> QED
    BY <2>1, <2>3, <2>4, RowsEdited
<1>6. ASSUME NEW i \in DOMAIN rows, D!MoveRow(i) PROVE RowsInv'
  <2> DEFINE rs == [rows EXCEPT ![i] = rows[i + 1], ![i + 1] = rows[i]]
  <2>1. D!EditForm(rs, pk, index) /\ i < Len(rows)
    BY <1>6, Zenon DEF D!MoveRow
  <2>2. i + 1 \in DOMAIN rows /\ i # i + 1
    BY <1>1, <2>1
  <2>3. DOMAIN rs = DOMAIN rows /\ \A l \in DOMAIN rows :
          rs[l] = rows[IF l = i THEN i + 1 ELSE IF l = i + 1 THEN i ELSE l]
    BY <1>1, <2>2
  <2> HIDE DEF rs
  <2>4. RowsOK(rs)
    <3>1. \A l \in DOMAIN rs : IsRow(rs[l])
      BY <1>1, <2>2, <2>3 DEF RowsOK
    <3>2. ASSUME NEW y \in DOMAIN rs, NEW z \in DOMAIN rs, rs[y].loaded = rs[z].loaded,
                 rs[y].loaded # NoColumnName
          PROVE  y = z
      <4>1. PICK p \in DOMAIN rows :
              rs[y] = rows[p] /\ p = IF y = i THEN i + 1 ELSE IF y = i + 1 THEN i ELSE y
        BY <2>2, <2>3
      <4>2. PICK q \in DOMAIN rows :
              rs[z] = rows[q] /\ q = IF z = i THEN i + 1 ELSE IF z = i + 1 THEN i ELSE z
        BY <2>2, <2>3
      <4>3. p = q
        BY <1>1, <3>2, <4>1, <4>2 DEF RowsOK
      <4> QED
        BY <2>2, <4>1, <4>2, <4>3
    <3> QED
      BY <3>1, <3>2 DEF RowsOK
  <2> QED
    BY <2>1, <2>4, RowsEdited
<1>7. ASSUME NEW i \in DOMAIN rows, D!TogglePk(i) PROVE RowsInv'
  <2> DEFINE p == ~ rows[i].pk
             b == IF rows[i].pk THEN rows[i].null ELSE FALSE
             x == [rows[i] EXCEPT !.pk = p, !.null = b]
             rs == [rows EXCEPT ![i] = x]
  <2>1. D!EditForm(rs, D!Flagged(rs) \ {NoColumnName}, index)
    <3>1. rs = [rows EXCEPT ![i] =
                  [rows[i] EXCEPT !.pk = ~@, !.null = IF rows[i].pk THEN @ ELSE FALSE]]
      OBVIOUS
    <3> HIDE DEF rs
    <3> QED
      BY <1>7, <3>1, Zenon DEF D!TogglePk
  <2>2. IsRow(x) /\ x.loaded = rows[i].loaded
    <3>1. PICK r : r = rows[i]
      OBVIOUS
    <3>2. IsRow(r)
      BY <1>1, <3>1 DEF RowsOK
    <3>3. p \in BOOLEAN /\ b \in BOOLEAN /\ (p => ~ b)
      BY <3>1, <3>2 DEF IsRow
    <3> HIDE DEF p, b
    <3>4. x = Boxed(r, p, b)
      BY <3>1, Zenon DEF Boxed
    <3> HIDE DEF x
    <3> QED
      BY <3>1, <3>2, <3>3, <3>4, BoxedIs
  <2> HIDE DEF x
  <2>3. RowsOK(rs)
    BY <1>1, <2>2, RowsWith
  <2> HIDE DEF rs
  <2> QED
    BY <2>1, <2>3, RowsEdited
<1>8. ASSUME NEW n, NEW null \in BOOLEAN, D!AddRow(n, null) PROVE RowsInv'
  <2> DEFINE r == [loaded |-> NoColumnName, name |-> n, null |-> null, pk |-> FALSE, dflt |-> FALSE]
             rs == Append(rows, r)
  <2>1. D!EditForm(rs, pk, index)
    BY <1>8, Zenon DEF D!AddRow
  <2>2. IsRow(r) /\ r.loaded = NoColumnName
    BY <1>8 DEF IsRow
  <2> HIDE DEF r
  <2>3. /\ rs \in Seq(D!ToSet(rows) \cup {r}) /\ Len(rs) = Len(rows) + 1
        /\ \A i \in 1 .. Len(rows) : rs[i] = rows[i]
        /\ rs[Len(rows) + 1] = r
    <3>1. rows \in Seq(D!ToSet(rows) \cup {r})
      BY <1>1, LenProperties, SeqDef DEF Listed
    <3> QED
      BY <3>1, AppendProperties
  <2> HIDE DEF rs
  <2>4. DOMAIN rs = 1 .. Len(rows) + 1
    BY <2>3, ListedIf
  <2>5. \A i \in DOMAIN rs : (i \in DOMAIN rows /\ rs[i] = rows[i]) \/ (i = Len(rows) + 1 /\ rs[i] = r)
    BY <1>1, <2>3, <2>4
  <2>6. RowsOK(rs)
    BY <1>1, <2>2, <2>5 DEF RowsOK
  <2> QED
    BY <2>1, <2>6, RowsEdited
<1>9. ASSUME NEW S, D!PickPk(S) PROVE RowsInv'
  <2> DEFINE p(i) == rows[i].name \in S
             b(i) == IF rows[i].name \in S THEN FALSE ELSE rows[i].null
             rs == [i \in DOMAIN rows |-> [rows[i] EXCEPT !.pk = p(i), !.null = b(i)]]
  <2>1. D!EditForm(rs, S, index)
    <3>1. rs = [i \in DOMAIN rows |->
                  [rows[i] EXCEPT !.pk = rows[i].name \in S,
                                  !.null = IF rows[i].name \in S THEN FALSE ELSE @]]
      OBVIOUS
    <3> HIDE DEF rs
    <3> QED
      BY <1>9, <3>1, Zenon DEF D!PickPk
  <2>2. ASSUME NEW i \in DOMAIN rows PROVE IsRow(rs[i]) /\ rs[i].loaded = rows[i].loaded
    <3>1. PICK r : r = rows[i]
      OBVIOUS
    <3>2. IsRow(r)
      BY <1>1, <2>2, <3>1 DEF RowsOK
    <3>3. p(i) \in BOOLEAN /\ b(i) \in BOOLEAN /\ (p(i) => ~ b(i))
      <4>1. r.null \in BOOLEAN
        BY <3>2 DEF IsRow
      <4>2. CASE rows[i].name \in S
        BY <4>2
      <4>3. CASE rows[i].name \notin S
        BY <3>1, <4>1, <4>3
      <4> QED
        BY <4>2, <4>3
    <3>4. rs[i] = [rows[i] EXCEPT !.pk = p(i), !.null = b(i)]
      BY <2>2
    <3> HIDE DEF p, b, rs
    <3>5. rs[i] = Boxed(r, p(i), b(i))
      BY <3>1, <3>4, Zenon DEF Boxed
    <3>6. PICK x : x = rs[i]
      OBVIOUS
    <3> QED
      BY <3>1, <3>2, <3>3, <3>5, <3>6, BoxedIs
  <2>3. DOMAIN rs = DOMAIN rows
    OBVIOUS
  <2> HIDE DEF rs
  <2>4. RowsOK(rs)
    BY <1>1, <2>2, <2>3, RowsLike
  <2> QED
    BY <2>1, <2>4, RowsEdited
<1>10. ASSUME D!EditIndex PROVE RowsInv'
  <2>1. PICK ix : D!EditForm(rows, pk, ix)
    BY <1>10, Zenon DEF D!EditIndex
  <2> QED
    BY <1>1, <2>1, RowsEdited
<1> QED
  BY <1>2, <1>3, <1>4, <1>5, <1>6, <1>7, <1>8, <1>9, <1>10 DEF D!Edit

\* The columns of the form's model are those of its named rows.
LEMMA FormCols ==
  ASSUME Listed(rows)
  PROVE  /\ \A c \in D!ToSet(D!FormModel.cols) : \E i \in DOMAIN rows :
              rows[i].name # NoColumnName /\ c = D!ColumnOf(rows[i])
         /\ \A i \in DOMAIN rows : rows[i].name # NoColumnName =>
              D!ColumnOf(rows[i]) \in D!ToSet(D!FormModel.cols)
<1> DEFINE S == {i \in DOMAIN rows : rows[i].name # NoColumnName}
           named == D!Picked(rows, S)
           cs == D!FormModel.cols
<1>1. PICK l \in Nat : S \in SUBSET (1 .. l)
  BY ListedDomain
<1>2. DOMAIN named = 1 .. Cardinality(S)
  BY SameCount DEF D!Picked
<1>3. cs = [i \in DOMAIN named |-> D!ColumnOf(named[i])]
  BY DEF D!FormModel, D!Model
<1>4. \A i \in S : i \in DOMAIN rows /\ rows[i].name # NoColumnName
  OBVIOUS
<1>4a. \A i \in DOMAIN rows : rows[i].name # NoColumnName => i \in S
  OBVIOUS
<1> HIDE DEF S, cs
<1>5. ASSUME NEW r, NEW i \in 1 .. Cardinality(S)
      PROVE  \E p \in S : D!Picked(r, S)[i] = r[p]
  <2> HIDE DEF named
  <2>1. PICK T : T = S
    OBVIOUS
  <2>2. T \in SUBSET (1 .. l) /\ i \in 1 .. Cardinality(T)
    BY <1>1, <1>5, <2>1
  <2>3. \E p \in T : D!Picked(r, T)[i] = r[p]
    BY <2>2, PickedFrom
  <2> QED
    BY <2>1, <2>3
<1>6. ASSUME NEW r, NEW p \in S
      PROVE  \E i \in 1 .. Cardinality(S) : D!Picked(r, S)[i] = r[p]
  BY <1>1, PickedAll
<1>7a. \A i \in DOMAIN named : \E p \in S : named[i] = rows[p]
  BY <1>2, <1>5
<1>7b. \A p \in S : \E i \in DOMAIN named : named[i] = rows[p]
  BY <1>2, <1>6
<1>7. /\ \A i \in DOMAIN named : \E p \in S : named[i] = rows[p]
      /\ \A p \in S : \E i \in DOMAIN named : named[i] = rows[p]
  BY <1>7a, <1>7b
<1> HIDE DEF named
<1>8. \A c \in D!ToSet(cs) : \E i \in DOMAIN rows :
        rows[i].name # NoColumnName /\ c = D!ColumnOf(rows[i])
  BY <1>3, <1>4, <1>7 DEF D!ToSet
<1>9. \A i \in DOMAIN rows : rows[i].name # NoColumnName => D!ColumnOf(rows[i]) \in D!ToSet(cs)
  BY <1>3, <1>4a, <1>7 DEF D!ToSet
<1> QED
  BY <1>8, <1>9 DEF cs

\* What becomes of a row of a form that keeps the premises.
LEMMA RowMatched ==
  ASSUME NEW j, NoColumnName \notin D!NamesOf(j.from), NEW r, r.name # NoColumnName,
         r.loaded # NoColumnName => r.loaded \in D!NamesOf(j.from),
         r.name \in D!NamesOf(j.from) => r.loaded = r.name,
         NEW c, c = D!ColumnOf(r)
  PROVE  /\ Stays(j, c) <=> r.loaded # NoColumnName
         /\ Stays(j, c) => /\ Old(j, c) = r.loaded
                           /\ D!Matched(j.from, c) \in D!ToSet(j.from.cols)
<1>1. c.name = r.name /\ c.from = IF r.loaded # NoColumnName /\ r.loaded # r.name
                                    THEN r.loaded ELSE NoColumnName
  BY DEF D!ColumnOf
<1>2. ASSUME NEW n \in D!NamesOf(j.from)
      PROVE  D!Column(j.from, n) \in D!ToSet(j.from.cols) /\ D!Column(j.from, n).name = n
  <2>1. \E x \in D!ToSet(j.from.cols) : x.name = n
    BY <1>2 DEF D!NamesOf
  <2> QED
    BY <2>1 DEF D!Column
<1>3. D!NoColumn.name = NoColumnName
  BY DEF D!NoColumn
<1>4. CASE r.loaded = NoColumnName
  <2>1. c.from \notin D!NamesOf(j.from) /\ c.name \notin D!NamesOf(j.from)
    BY <1>1, <1>4
  <2>2. D!Matched(j.from, c) = D!NoColumn
    BY <2>1 DEF D!Matched
  <2> QED
    BY <1>4, <2>2 DEF Stays, D!Found
<1>5. CASE r.loaded # NoColumnName
  <2>1. D!Matched(j.from, c) = D!Column(j.from, r.loaded) /\ r.loaded \in D!NamesOf(j.from)
    <3>1. CASE r.loaded = r.name
      BY <1>1, <1>5, <3>1 DEF D!Matched
    <3>2. CASE r.loaded # r.name
      BY <1>1, <1>5, <3>2 DEF D!Matched
    <3> QED
      BY <3>1, <3>2
  <2>2. /\ D!Matched(j.from, c) \in D!ToSet(j.from.cols)
        /\ D!Matched(j.from, c).name = r.loaded
    BY <1>2, <2>1
  <2>3. D!Matched(j.from, c) # D!NoColumn
    BY <1>3, <1>5, <2>2
  <2> QED
    BY <1>5, <2>2, <2>3 DEF Stays, D!Found, Old
<1> QED
  BY <1>4, <1>5

\* A plan that FreshStart speaks of is clean.
LEMMA CleanStart ==
  ASSUME Listed(rows), IsFiniteSet(index), D!Complete, RowsInv,
         NEW j, j.from = current, j.target = D!FormModel, j.rows = rows,
         D!FreshStart(j)
  PROVE  Clean(j)
<1>1. /\ \A c \in Cols(j) : \E i \in DOMAIN rows :
           rows[i].name # NoColumnName /\ c = D!ColumnOf(rows[i])
      /\ \A i \in DOMAIN rows : rows[i].name # NoColumnName => D!ColumnOf(rows[i]) \in Cols(j)
  BY FormCols DEF Cols
<1>2. /\ D!Accurate(j)
      /\ {c.name : c \in {x \in Cols(j) : x.pk}} = UNION j.target.keys
      /\ \A c \in D!ToSet(j.from.cols) : D!SColumn(j.before, c.name).null = c.null
      /\ \A i \in DOMAIN rows :
           /\ rows[i].loaded # NoColumnName => rows[i].loaded \in D!NamesOf(j.from)
           /\ rows[i].name \in D!NamesOf(j.from) => rows[i].loaded = rows[i].name
  BY DEF D!FreshStart, Cols
<1>3. Describes(j.target)
  BY FormSized
<1>4. NoColumnName \notin D!NamesOf(j.from) /\ RowsOK(rows)
  BY DEF RowsInv
<1>5. ASSUME NEW i \in DOMAIN rows, rows[i].name # NoColumnName,
             NEW c, c = D!ColumnOf(rows[i])
      PROVE  /\ Stays(j, c) <=> rows[i].loaded # NoColumnName
             /\ Stays(j, c) => /\ Old(j, c) = rows[i].loaded
                               /\ D!Matched(j.from, c) \in D!ToSet(j.from.cols)
  <2>1. PICK r : r = rows[i]
    OBVIOUS
  <2>2. /\ r.loaded # NoColumnName => r.loaded \in D!NamesOf(j.from)
        /\ r.name \in D!NamesOf(j.from) => r.loaded = r.name
        /\ r.name # NoColumnName /\ c = D!ColumnOf(r)
    BY <1>2, <1>5, <2>1
  <2> QED
    BY <1>4, <2>1, <2>2, RowMatched
<1>6. ASSUME NEW c, NEW r, c = D!ColumnOf(r)
      PROVE  c.name = r.name /\ c.null = r.null /\ c.pk = r.pk
  BY <1>6 DEF D!ColumnOf
<1>7. \A i \in DOMAIN rows :
        /\ rows[i].null \in BOOLEAN
        /\ rows[i].pk => ~ rows[i].null
  BY <1>4 DEF RowsOK, IsRow
<1>8. \A c \in Cols(j) : c.null \in BOOLEAN /\ (c.pk => ~ c.null)
  BY <1>1, <1>6, <1>7
<1>9. ASSUME NEW c \in Cols(j), c.name \in D!NamesOf(j.from)
      PROVE  Stays(j, c) /\ Old(j, c) = c.name
  <2>1. PICK i \in DOMAIN rows : rows[i].name # NoColumnName /\ c = D!ColumnOf(rows[i])
    BY <1>1
  <2>2. c.name = rows[i].name
    BY <1>6, <2>1
  <2>3. rows[i].loaded = rows[i].name
    BY <1>2, <1>9, <2>2
  <2> QED
    BY <1>5, <2>1, <2>2, <2>3
<1>10. ASSUME NEW c \in Cols(j), NEW d \in Cols(j), Stays(j, c), Stays(j, d), Old(j, c) = Old(j, d)
       PROVE  c = d
  <2>1. PICK i \in DOMAIN rows : rows[i].name # NoColumnName /\ c = D!ColumnOf(rows[i])
    BY <1>1
  <2>2. PICK l \in DOMAIN rows : rows[l].name # NoColumnName /\ d = D!ColumnOf(rows[l])
    BY <1>1
  <2>3. rows[i].loaded = rows[l].loaded /\ rows[i].loaded # NoColumnName
    BY <1>5, <1>10, <2>1, <2>2
  <2>4. i = l
    BY <1>4, <2>3 DEF RowsOK
  <2> QED
    BY <2>1, <2>2, <2>4
<1>11. ASSUME NEW c \in Cols(j), Stays(j, c)
       PROVE  /\ Old(j, c) \in D!NamesOf(j.from)
              /\ D!SColumn(j.before, Old(j, c)).null = D!Matched(j.from, c).null
  <2>1. D!Matched(j.from, c) \in D!ToSet(j.from.cols)
    BY <1>1, <1>5, <1>11
  <2> QED
    BY <1>2, <2>1 DEF Old, D!NamesOf
<1>12. ASSUME NEW c \in Cols(j), c.name \in UNION j.target.keys PROVE ~ c.null
  <2>1. PICK d \in Cols(j) : d.pk /\ d.name = c.name
    BY <1>2, <1>12
  <2>2. d = c
    BY <1>3, <2>1 DEF Describes, Cols
  <2> QED
    BY <1>8, <2>1, <2>2
<1>13. UNION j.target.keys \subseteq D!NamesOf(j.target)
  BY <1>2 DEF D!NamesOf, Cols
<1>14. D!PrimaryKey(j.target) = UNION j.target.keys
  <2>1. {c.name : c \in {x \in D!ToSet(j.target.cols) : x.pk}} = UNION j.target.keys
    BY <1>2 DEF Cols
  <2> QED
    BY <2>1, Zenon DEF D!PrimaryKey
<1>15. D!SNames(j.before) = D!NamesOf(j.from)
  BY <1>2 DEF D!Accurate
<1>16. ASSUME NEW r \in D!ToSet(j.rows), r.name # NoColumnName
       PROVE  \E c \in Cols(j) : /\ c.name = r.name /\ (Stays(j, c) <=> r.loaded # NoColumnName)
                                 /\ Stays(j, c) => Old(j, c) = r.loaded
  <2>1. PICK i \in DOMAIN rows : r = rows[i]
    BY DEF D!ToSet
  <2>2. PICK c \in Cols(j) : c = D!ColumnOf(r)
    BY <1>1, <1>16, <2>1
  <2>3. c.name = r.name
    BY <1>6, <2>2
  <2> QED
    BY <1>5, <1>16, <2>1, <2>2, <2>3
<1> QED
  BY <1>8, <1>9, <1>10, <1>11, <1>12, <1>13, <1>14, <1>15, <1>16 DEF Clean

\* A plan that ended makes what the form described the table it is edited from.
LEMMA RowsDone ==
  ASSUME DesignInv, RowsInv, NEW k \in D!Job, D!Done(k)
  PROVE  RowsInv'
<1>1. current' = D!FormModel /\ rows' = rows /\ Listed(rows)
  BY Zenon DEF D!Done, D!form, DesignInv, FormInv
<1>2. NoColumnName \notin D!NamesOf(D!FormModel)
  <2>1. \A c \in D!ToSet(D!FormModel.cols) : c.name # NoColumnName
    BY <1>1, FormCols DEF D!ColumnOf
  <2> QED
    BY <2>1 DEF D!NamesOf
<1>3. (NoColumnName \notin D!NamesOf(current))'
  BY <1>1, <1>2 DEF D!NamesOf
<1>4. RowsOK(rows)'
  BY <1>1 DEF RowsInv, RowsOK, IsRow
<1> QED
  BY <1>3, <1>4 DEF RowsInv

\* The form as it opens.
LEMMA RowsInit ==
  ASSUME D!Init
  PROVE  RowsInv
<1>1. PICK a \in ColumnName, b \in ColumnName, holes \in BOOLEAN, key \in BOOLEAN,
           ix \in {{}, {"plain"}} :
        /\ a # b
        /\ LET A == [name |-> a, of |-> a, holes |-> FALSE, null |-> ~key, dflt |-> FALSE]
               Z == [name |-> b, of |-> b, holes |-> holes, null |-> TRUE, dflt |-> TRUE]
               t == [cols |-> {A, Z}, key |-> IF key THEN {a} ELSE {},
                     idx |-> IF ix = {} THEN {} ELSE {[name |-> "ix", col |-> b, unique |-> FALSE]}]
               m == D!Loaded(t, <<a, b>>)
           IN  /\ table = t /\ current = m
               /\ rows = [i \in DOMAIN m.cols |-> D!RowOf(m.cols[i])]
               /\ pk = D!Flagged(rows)
               /\ index = m.idx
  BY Zenon DEF D!Init
<1>2. NoColumnName \notin ColumnName
  BY InstanceAssumption DEF D!NoNameAssumption
<1> DEFINE A == [name |-> a, of |-> a, holes |-> FALSE, null |-> ~key, dflt |-> FALSE]
           Z == [name |-> b, of |-> b, holes |-> holes, null |-> TRUE, dflt |-> TRUE]
<1>3. /\ table.cols = {A, Z} /\ table.key = IF key THEN {a} ELSE {}
      /\ current = D!Loaded(table, <<a, b>>)
      /\ rows = [i \in DOMAIN current.cols |-> D!RowOf(current.cols[i])]
  BY <1>1
<1>4. D!SColumn(table, a) = A /\ D!SColumn(table, b) = Z
  <2>1. A.name = a /\ Z.name = b
    OBVIOUS
  <2> HIDE DEF A, Z
  <2> QED
    BY <1>1, <1>3, <2>1 DEF D!SColumn
<1> DEFINE col(n) == [name |-> D!SColumn(table, n).name, null |-> D!SColumn(table, n).null,
                      pk |-> D!SColumn(table, n).name \in table.key,
                      dflt |-> FALSE, from |-> NoColumnName]
<1>5. /\ DOMAIN current.cols = 1 .. 2
      /\ current.cols[1] = col(a) /\ current.cols[2] = col(b)
  <2>1. current.cols = [i \in DOMAIN <<a, b>> |-> col(<<a, b>>[i])]
    BY <1>3 DEF D!Loaded, D!Model
  <2> HIDE DEF col
  <2>2. DOMAIN <<a, b>> = 1 .. 2 /\ 1 \in 1 .. 2 /\ 2 \in 1 .. 2
    OBVIOUS
  <2> QED
    BY <2>1, <2>2
<1>6. /\ col(a).name = a /\ col(a).null = ~ key /\ col(a).pk \in BOOLEAN /\ (col(a).pk <=> key)
      /\ col(b).name = b /\ col(b).null = TRUE /\ col(b).pk \in BOOLEAN /\ ~ col(b).pk
  <2>1. (a \in table.key <=> key) /\ b \notin table.key
    BY <1>1, <1>3
  <2>2. A.name = a /\ A.null = ~ key /\ Z.name = b /\ Z.null = TRUE
    OBVIOUS
  <2> HIDE DEF A, Z
  <2>3. /\ col(a).name = a /\ col(a).null = ~ key /\ col(a).pk = (a \in table.key)
        /\ col(b).name = b /\ col(b).null = TRUE /\ col(b).pk = (b \in table.key)
    BY <1>4, <2>2
  <2> HIDE DEF col
  <2>4. col(a).pk \in BOOLEAN /\ (col(a).pk <=> key)
    BY <2>1, <2>3
  <2>5. col(b).pk \in BOOLEAN /\ ~ col(b).pk
    <3>1. col(b).pk = (b \in table.key) /\ b \notin table.key
      BY <2>1, <2>3
    <3>2. col(b).pk <=> b \in table.key
      BY <3>1
    <3>3. (b \in table.key) \in BOOLEAN
      OBVIOUS
    <3>4. col(b).pk \in BOOLEAN
      BY <3>1, <3>3
    <3> QED
      BY <3>1, <3>2, <3>4
  <2> QED
    BY <2>3, <2>4, <2>5, Zenon
<1> HIDE DEF A, Z, col
<1>7. \A i \in 1 .. 2 : i = 1 \/ i = 2
  OBVIOUS
<1>9. NoColumnName \notin D!NamesOf(current)
  BY <1>1, <1>2, <1>5, <1>6, <1>7 DEF D!NamesOf, D!ToSet
<1>10. DOMAIN rows = 1 .. 2 /\ rows[1] = D!RowOf(col(a)) /\ rows[2] = D!RowOf(col(b))
  BY <1>3, <1>5
<1>11. IsRow(D!RowOf(col(a))) /\ D!RowOf(col(a)).loaded = a
  <2>1. col(a).null \in BOOLEAN /\ col(a).pk \in BOOLEAN /\ (col(a).pk => ~ col(a).null)
    BY <1>1, <1>6
  <2> QED
    BY <1>6, <2>1 DEF IsRow, D!RowOf
<1>12. IsRow(D!RowOf(col(b))) /\ D!RowOf(col(b)).loaded = b
  <2>1. col(b).null \in BOOLEAN /\ col(b).pk \in BOOLEAN /\ (col(b).pk => ~ col(b).null)
    BY <1>6
  <2> QED
    BY <1>6, <2>1 DEF IsRow, D!RowOf
<1>13. RowsOK(rows)
  <2>1. IsRow(rows[1]) /\ IsRow(rows[2]) /\ rows[1].loaded = a /\ rows[2].loaded = b
    BY <1>10, <1>11, <1>12
  <2>2. DOMAIN rows = 1 .. 2
    BY <1>10
  <2> QED
    BY <1>1, <1>7, <2>1, <2>2 DEF RowsOK
<1> QED
  BY <1>9, <1>13 DEF RowsInv

-----------------------------------------------------------------------------
(* The visible table on its way to the target.                              *)

\* A table just created for a target: its columns, and no rows.
Blank(j, shown) ==
  /\ D!SNames(shown) = D!NamesOf(j.target)
  /\ \A x \in shown.cols :
       x.of = NoColumnName /\ \E c \in Cols(j) : c.name = x.name /\ x.null = c.null

\* What a plan with the statements t left comes to: the visible table is on its
\* way to the target, or the table it began from is still to be copied.
Migrates(t, j, shown, kept) ==
  /\ \A x \in D!ToSet(t) : Serves(x, j)
  /\ Means(t, j.from, j.target)
  /\ Copies(t) => (IF Has(t, "rename_table") THEN shown ELSE kept) = j.before
  /\ Has(t, "copy") /\ ~ Has(t, "create") => Blank(j, shown)
  /\ Has(t, "create") /\ ~ Has(t, "copy") => Carried(j.from, j.target) = {}
  /\ ~ Copies(t) => Arrived(D!ToSet(t), j, shown)

\* A created column is nullable as the target says.
LEMMA SameNull ==
  ASSUME NEW j, Clean(j), NEW c \in Cols(j)
  PROVE  (c.null /\ c.name \notin D!PrimaryKey(j.target)) = c.null
<1>1. c.null \in BOOLEAN /\ (c.name \in D!PrimaryKey(j.target) => ~ c.null)
  BY DEF Clean
<1>2. CASE c.null
  BY <1>1, <1>2
<1>3. CASE ~ c.null
  BY <1>1, <1>3
<1> QED
  BY <1>2, <1>3

\* A statement about no column.
LEMMA ArrivedSame ==
  ASSUME NEW j, Clean(j), NEW s, NEW X, NEW Y, X = {s} \cup Y,
         s.op \notin {"drop", "add", "rename", "change", "set_null"},
         NEW t, Arrived(X, j, t)
  PROVE  Arrived(Y, j, t)
<1>1. /\ \A n : Among(X, "drop", n) => Among(Y, "drop", n)
      /\ \A c : Among(X, "add", c) => Among(Y, "add", c)
      /\ \A c : ToRename(X, j, c) => ToRename(Y, j, c)
      /\ \A c : ToRestate(X, j, c) => ToRestate(Y, j, c)
  BY StillToDo
<1>2. \A x \in t.cols : Explained(Y, j, x)
  BY <1>1 DEF Arrived, Explained
<1>3. Present(Y, j, t) /\ Parted(j, t)
  BY <1>1 DEF Arrived, Present
<1> QED
  BY <1>2, <1>3 DEF Arrived

\* Where a plan that changes the table in place starts.
LEMMA ArrivedFirst ==
  ASSUME NEW j, Clean(j), Distinct(j.before), NEW X, Asked(X, j)
  PROVE  Arrived(X, j, j.before)
<1>1. D!SNames(j.before) = D!NamesOf(j.from)
  BY DEF Clean
<1>2. ASSUME NEW x \in j.before.cols PROVE Explained(X, j, x)
  <2>1. x.name \in D!NamesOf(j.from)
    BY <1>1 DEF D!SNames
  <2>2. CASE x.name \in Lost(j)
    BY <2>2 DEF Asked, Explained
  <2>3. CASE x.name \notin Lost(j)
    <3>1. PICK c \in Cols(j) : Stays(j, c) /\ Old(j, c) = x.name
      BY <2>1, <2>3 DEF Lost, D!Kept, Stays, Old, Cols
    <3>2. D!SColumn(j.before, x.name) = x
      <4>1. x.name \in D!SNames(j.before)
        BY DEF D!SNames
      <4> QED
        BY <4>1, ColumnThere DEF Distinct
    <3>3. x.of = Origin(j, c) /\ x.null = D!Matched(j.from, c).null
      BY <3>1, <3>2 DEF Origin, Clean
    <3>4. x.name = c.name \/ ToRename(X, j, c)
      BY <3>1 DEF Asked
    <3>5. x.null = c.null \/ ToRestate(X, j, c)
      BY <3>1, <3>3 DEF Asked
    <3> QED
      BY <3>1, <3>3, <3>4, <3>5 DEF Explained
  <2> QED
    BY <2>2, <2>3
<1>3. ASSUME NEW c \in Cols(j)
      PROVE  \/ c.name \in D!SNames(j.before) \/ Among(X, "add", c)
             \/ Stays(j, c) /\ Old(j, c) \in D!SNames(j.before) /\ ToRename(X, j, c)
  <2>1. CASE ~ Stays(j, c)
    BY <2>1 DEF Asked
  <2>2. CASE Stays(j, c)
    <3>1. Old(j, c) \in D!SNames(j.before)
      BY <1>1, <2>2 DEF Clean
    <3>2. Old(j, c) = c.name \/ ToRename(X, j, c)
      BY <2>2 DEF Asked
    <3> QED
      BY <2>2, <3>1, <3>2
  <2> QED
    BY <2>1, <2>2
<1>4. Parted(j, j.before)
  BY <1>1 DEF Parted, Clean
<1> QED
  BY <1>2, <1>3, <1>4 DEF Arrived, Present

\* The plan of Apply.
LEMMA MigratesFirst ==
  ASSUME Listed(rows), IsFiniteSet(index), Sized(current), D!Complete, Distinct(table),
         NEW plan, plan = D!Statements,
         NEW j, j.from = current, j.target = D!FormModel, j.before = table, Clean(j)
  PROVE  Migrates(plan, j, table, backup)
<1>1. /\ Planned(plan) /\ Means(plan, j.from, j.target)
      /\ Has(plan, "create") \/ Has(plan, "copy") => Has(plan, "rename_table")
      /\ Has(plan, "create") /\ ~ Has(plan, "copy") => Carried(j.from, j.target) = {}
  BY StatementsPlanned
<1>2. Sized(j.from) /\ Sized(j.target) /\ Describes(j.target)
  BY FormSized
<1>3. Copies(plan) => Has(plan, "rename_table") /\ Has(plan, "create")
  BY <1>1 DEF Copies, Planned, Complete
<1>4. /\ \A x \in D!ToSet(plan) : Serves(x, j)
      /\ ~ Copies(plan) => Arrived(D!ToSet(plan), j, table)
  <2>1. CASE plan = D!Wrapped(D!RebuildPlan(j.from, j.target))
    <3>1. \A x \in D!ToSet(plan) : Serves(x, j)
      BY <1>2, <2>1, RebuildServes
    <3>2. Has(plan, "begin")
      BY <1>2, <2>1, RebuildPlanned
    <3>3. Copies(plan)
      BY <1>1, <3>2 DEF Copies, Planned, Complete
    <3> QED
      BY <3>1, <3>3
  <2>2. CASE plan = D!AlterPlan(j.from, j.target, dialect)
    <3>1. (\A x \in D!ToSet(plan) : Serves(x, j)) /\ Asked(D!ToSet(plan), j)
      BY <1>2, <2>2, AlterAsked
    <3>2. Arrived(D!ToSet(plan), j, j.before)
      BY <3>1, ArrivedFirst
    <3> QED
      BY <3>1, <3>2
  <2> QED
    BY <2>1, <2>2 DEF D!Statements, D!Plan
<1> QED
  BY <1>1, <1>3, <1>4 DEF Migrates, Copies

\* And every statement of it.
LEMMA MigratesOn ==
  ASSUME NEW t, Planned(t), t # << >>, D!Next1(Head(t)),
         NEW j, Clean(j), Migrates(t, j, table, backup), Describes(j.target),
         Formed(table), Distinct(table)
  PROVE  Migrates(Tail(t), j, table', backup')
<1> DEFINE s == Head(t)
           u == Tail(t)
           X == D!ToSet(t)
           Y == D!ToSet(u)
<1>1. /\ Place(s.op) \in 1 .. 9
      /\ \A op : Has(t, op) <=> s.op = op \/ Has(u, op)
      /\ \A op : Has(u, op) => Place(s.op) < Place(op) \/ (Place(s.op) = 7 /\ Place(op) = 7)
      /\ D!Next1(s)
  BY PlanGoesOn
<1>2. /\ \A i \in DOMAIN u : \E l \in DOMAIN t : u[i] = t[l]
      /\ \E l \in DOMAIN t : s = t[l]
      /\ X = {s} \cup Y
  <2>1. Listed(t)
    BY DEF Planned
  <2>2. /\ 1 \in DOMAIN t /\ s = t[1]
        /\ \A i \in DOMAIN u : i + 1 \in DOMAIN t /\ u[i] = t[i + 1]
        /\ \A i \in DOMAIN t : i = 1 \/ (i - 1 \in DOMAIN u /\ u[i - 1] = t[i])
    BY <2>1, ListedTail
  <2> HIDE DEF s, u
  <2>3. X = {s} \cup Y
    BY <2>2 DEF D!ToSet
  <2> QED
    BY <2>2, <2>3
<1> SUFFICES Migrates(u, j, table', backup')
  OBVIOUS
<1> HIDE DEF s, u, X, Y
<1>3. Means(u, j.from, j.target) /\ Says(s, j.from, j.target)
  BY <1>2 DEF Migrates, Means
<1>4. (\A x \in X : Serves(x, j)) /\ (\A x \in Y : Serves(x, j))
  BY <1>2 DEF Migrates, X
<1>5. \A op : Place(op) # 7 /\ Place(op) <= Place(s.op) => ~ Has(u, op)
  <2>1. \A op : Place(op) \in Nat
    BY PlaceType
  <2> QED
    BY <1>1, <2>1
<1>6. ~ Copies(t) => Arrived(X, j, table)
  BY DEF Migrates, X
<1>7. ASSUME ~ Copies(u) => Arrived(Y, j, table'),
             Copies(u) => (IF Has(u, "rename_table") THEN table' ELSE backup') = j.before,
             Has(u, "copy") /\ ~ Has(u, "create") => Blank(j, table'),
             Has(u, "create") /\ ~ Has(u, "copy") => Carried(j.from, j.target) = {}
      PROVE  Migrates(u, j, table', backup')
  BY <1>3, <1>4, <1>7 DEF Migrates, Y
<1>8. CASE s.op \in {"fk_off", "fk_on", "begin", "commit", "drop_backup"}
  <2>1. \A op \in {"create", "copy", "rename_table"} : Has(t, op) <=> Has(u, op)
    BY <1>1, <1>8
  <2>2. table' = table
    BY <1>1, <1>8 DEF D!Next1
  <2>3. ASSUME ~ Copies(u) PROVE Arrived(Y, j, table')
    <3>1. Arrived(X, j, table)
      BY <1>6, <2>1, <2>3 DEF Copies
    <3>2. Arrived(Y, j, table)
      BY <1>2, <1>8, <3>1, ArrivedSame
    <3> QED
      BY <2>2, <3>2
  <2>4. CASE s.op = "drop_backup"
    <3>1. ~ Copies(u)
      BY <1>5, <2>4, PlaceIs DEF Copies
    <3> QED
      BY <1>7, <2>3, <3>1 DEF Copies
  <2>5. CASE s.op # "drop_backup"
    <3>1. backup' = backup
      BY <1>1, <1>8, <2>5 DEF D!Next1
    <3>2. Copies(u) <=> Copies(t)
      BY <2>1 DEF Copies
    <3> QED
      BY <1>7, <2>1, <2>2, <2>3, <3>1, <3>2 DEF Migrates
  <2> QED
    BY <2>4, <2>5
<1>9. CASE s.op = "rename_table"
  <2>1. backup' = table
    BY <1>1, <1>9 DEF D!Next1
  <2>2. ~ Has(u, "rename_table") /\ Has(t, "rename_table") /\ Has(t, "create")
    BY <1>1, <1>5, <1>9, PlaceIs DEF Planned, Complete
  <2>3. Has(u, "create") /\ (Has(u, "copy") <=> Has(t, "copy"))
    BY <1>1, <1>9, <2>2
  <2>4. table = j.before /\ (~ Has(t, "copy") => Carried(j.from, j.target) = {})
    BY <2>2 DEF Migrates, Copies
  <2> QED
    BY <1>7, <2>1, <2>2, <2>3, <2>4 DEF Copies
<1>10. CASE s.op = "create"
  <2>1. table' = D!Created(j.target) /\ backup' = backup
    BY <1>1, <1>3, <1>10 DEF D!Next1, Says
  <2>2. ~ Has(u, "rename_table") /\ ~ Has(u, "create")
    BY <1>5, <1>10, PlaceIs
  <2>3. Has(t, "create") /\ ~ Has(t, "rename_table") /\ (Has(u, "copy") <=> Has(t, "copy"))
    BY <1>1, <1>10, <2>2
  <2>4. backup = j.before /\ (~ Has(t, "copy") => Carried(j.from, j.target) = {})
    BY <2>3 DEF Migrates, Copies
  <2>5. Blank(j, table')
    <3>1. /\ D!SNames(table') = D!NamesOf(j.target)
          /\ \A x \in table'.cols :
               /\ x.of = NoColumnName
               /\ \E c \in Cols(j) :
                    c.name = x.name /\ x.null = (c.null /\ c.name \notin D!PrimaryKey(j.target))
      BY <2>1, CreatedTable DEF Cols
    <3> QED
      BY <3>1, SameNull DEF Blank
  <2>6. ASSUME ~ Has(u, "copy") PROVE Arrived(Y, j, table')
    <3>1. ASSUME NEW c \in Cols(j) PROVE ~ Stays(j, c)
      BY <2>3, <2>4, <2>6, <3>1 DEF Carried, Cols, Stays
    <3>2. \A x \in table'.cols : Explained(Y, j, x)
      BY <2>5, <3>1 DEF Blank, Explained, Origin
    <3>3. \A c \in Cols(j) : c.name \in D!SNames(table')
      BY <2>5 DEF Blank, D!NamesOf, Cols
    <3> QED
      BY <3>1, <3>2, <3>3 DEF Arrived, Present, Parted
  <2> QED
    BY <1>7, <2>1, <2>2, <2>4, <2>5, <2>6 DEF Copies
<1>11. CASE s.op = "copy"
  <2> DEFINE pairs == Carried(j.from, j.target)
  <2>1. table' = D!Copied(pairs)
    BY <1>1, <1>3, <1>11 DEF D!Next1, Says
  <2>2. ~ Has(u, "rename_table") /\ ~ Has(u, "create") /\ ~ Has(u, "copy")
    BY <1>5, <1>11, PlaceIs
  <2>3. Has(t, "copy") /\ ~ Has(t, "rename_table") /\ ~ Has(t, "create")
    BY <1>1, <1>11, <2>2
  <2>4. backup = j.before /\ Blank(j, table)
    BY <2>3 DEF Migrates, Copies
  <2>5. /\ \A p \in pairs : \A q \in pairs : q[1] = p[1] => q = p
        /\ \A c \in Cols(j) : Stays(j, c) => <<c.name, Old(j, c)>> \in pairs
        /\ \A c \in Cols(j), p \in pairs : p[1] = c.name => Stays(j, c)
    <3>1. \A p \in pairs : \A q \in pairs : q[1] = p[1] => q = p
      BY CarriedOnce
    <3>2. \A c \in Cols(j) : Stays(j, c) => <<c.name, Old(j, c)>> \in pairs
      BY DEF Carried, Cols, Stays, Old
    <3>3. ASSUME NEW c \in Cols(j), NEW p \in pairs, p[1] = c.name PROVE Stays(j, c)
      <4>1. PICK d \in Cols(j) : Stays(j, d) /\ p = <<d.name, Old(j, d)>>
        BY DEF Carried, Cols, Stays, Old
      <4>2. d = c
        BY <3>3, <4>1 DEF Describes, Cols
      <4> QED
        BY <4>1, <4>2
    <3> QED
      BY <3>1, <3>2, <3>3
  <2> HIDE DEF pairs
  <2>6. /\ D!SNames(D!Copied(pairs)) = D!SNames(table)
        /\ \A d \in D!Copied(pairs).cols : \E c \in table.cols :
              /\ d.name = c.name /\ d.null = c.null
              /\ (\A p \in pairs : p[1] # c.name) => d.of = c.of
              /\ \A p \in pairs : c.name = p[1] /\ (\A q \in pairs : q[1] = p[1] => q = p) =>
                   d.of = D!SColumn(backup, p[2]).of
    BY CopiedTable
  <2>7. D!SNames(table') = D!NamesOf(j.target)
    BY <2>1, <2>4, <2>6 DEF Blank
  <2>8. ASSUME NEW x \in table'.cols PROVE Explained(Y, j, x)
    <3>1. PICK y \in table.cols :
              /\ x.name = y.name /\ x.null = y.null
              /\ (\A p \in pairs : p[1] # y.name) => x.of = y.of
              /\ \A p \in pairs : y.name = p[1] /\ (\A q \in pairs : q[1] = p[1] => q = p) =>
                   x.of = D!SColumn(backup, p[2]).of
      BY <2>1, <2>6, <2>8
    <3>2. PICK c \in Cols(j) : c.name = y.name /\ y.null = c.null /\ y.of = NoColumnName
      BY <2>4 DEF Blank
    <3>3. x.of = Origin(j, c)
      <4>1. CASE Stays(j, c)
        <5>1. PICK p \in pairs : p = <<c.name, Old(j, c)>>
          BY <2>5, <4>1
        <5>2. p[1] = y.name /\ p[2] = Old(j, c)
          BY <3>2, <5>1
        <5>3. \A q \in pairs : q[1] = p[1] => q = p
          BY <2>5
        <5>4. x.of = D!SColumn(backup, p[2]).of
          BY <3>1, <5>2, <5>3
        <5> QED
          BY <2>4, <4>1, <5>2, <5>4 DEF Origin
      <4>2. CASE ~ Stays(j, c)
        <5>1. \A p \in pairs : p[1] # y.name
          BY <2>5, <3>2, <4>2
        <5> QED
          BY <3>1, <3>2, <4>2, <5>1 DEF Origin
      <4> QED
        BY <4>1, <4>2
    <3> QED
      BY <3>1, <3>2, <3>3 DEF Explained
  <2>9. Present(Y, j, table')
    BY <2>7 DEF Present, D!NamesOf, Cols
  <2>10. Parted(j, table')
    <3> SUFFICES ASSUME NEW c \in Cols(j), Stays(j, c), Old(j, c) # c.name,
                        Old(j, c) \in D!SNames(table')
                 PROVE  FALSE
      BY DEF Parted
    <3>1. PICK d \in Cols(j) : d.name = Old(j, c)
      BY <2>7 DEF D!NamesOf, Cols
    <3>2. d = c
      BY <3>1, SameColumn
    <3> QED
      BY <3>1, <3>2
  <2>11. Arrived(Y, j, table')
    BY <2>8, <2>9, <2>10 DEF Arrived
  <2> QED
    BY <1>7, <2>2, <2>11 DEF Copies
<1>12. CASE s.op \in Altering
  <2>1. ~ Has(u, "rename_table") /\ ~ Has(u, "create") /\ ~ Has(u, "copy")
    BY <1>5, <1>12, PlaceIs
  <2>2. ~ Has(t, "create") /\ ~ Has(t, "copy")
    BY <1>1, <1>12, <2>1 DEF Altering
  <2>3. D!Accepts(table, s) /\ table' = D!Alter(table, s)
    BY <1>1, <1>12 DEF D!Next1, Altering
  <2>4. Arrived(X, j, table)
    BY <1>6, <2>2 DEF Copies
  <2>5. Arrived(Y, j, D!Alter(table, s))
    BY <1>2, <1>4, <1>12, <2>3, <2>4, ArrivedOn
  <2> QED
    BY <1>7, <2>1, <2>3, <2>5 DEF Copies
<1>13. s.op \in Altering \/ s.op \in {"fk_off", "fk_on", "begin", "commit", "rename_table",
                                      "create", "copy", "drop_backup"}
  BY <1>1 DEF Place
<1> QED
  BY <1>8, <1>9, <1>10, <1>11, <1>12, <1>13

\* All of this is about what a job was made for, not what is left of it.
LEMMA MigratesSame ==
  ASSUME NEW i, NEW j, i.before = j.before, i.from = j.from, i.target = j.target,
         NEW t, NEW shown, NEW kept, Migrates(t, j, shown, kept)
  PROVE  Migrates(t, i, shown, kept)
<1>1. /\ Cols(i) = Cols(j) /\ Lost(i) = Lost(j)
      /\ \A c : (Stays(i, c) <=> Stays(j, c)) /\ Old(i, c) = Old(j, c)
  BY DEF Cols, Lost, Stays, Old
<1>2. \A c : Origin(i, c) = Origin(j, c)
  BY <1>1 DEF Origin
<1>3. \A X, c : /\ ToRename(X, i, c) <=> ToRename(X, j, c)
                /\ ToRestate(X, i, c) <=> ToRestate(X, j, c)
  BY <1>1 DEF ToRename, ToRestate
<1>4. \A x : Serves(x, j) => Serves(x, i)
  BY <1>1 DEF Serves
<1>5. \A X, x : Explained(X, j, x) => Explained(X, i, x)
  BY <1>1, <1>2, <1>3 DEF Explained
<1>6. \A X, s : Present(X, j, s) => Present(X, i, s)
  BY <1>1, <1>3 DEF Present
<1>7. \A s : Parted(j, s) => Parted(i, s)
  BY <1>1 DEF Parted
<1>8. \A X, s : Arrived(X, j, s) => Arrived(X, i, s)
  BY <1>5, <1>6, <1>7 DEF Arrived
<1>9. \A s : Blank(j, s) => Blank(i, s)
  BY <1>1 DEF Blank
<1> QED
  BY <1>4, <1>8, <1>9 DEF Migrates

\* A plan that runs alone, with the premises of FreshStart.
Migrating(k) ==
  k \in D!Running /\ jobs[k].alone /\ D!FreshStart(jobs[k]) =>
    Clean(jobs[k]) /\ Migrates(jobs[k].todo, jobs[k], table, backup)

MigInv == RowsInv /\ \A k \in D!Job : Migrating(k)

\* Nothing but the end of a job, or nothing at all, for every job.
LEMMA MigratingOver ==
  ASSUME MigInv, \A k \in D!Job : jobs'[k] = jobs[k] \/ jobs'[k] = D!Idle,
         UNCHANGED <<table, backup>>
  PROVE  \A k \in D!Job : Migrating(k)'
<1> SUFFICES ASSUME NEW k \in D!Job, k \in D!Running', jobs'[k].alone, D!FreshStart(jobs'[k])
             PROVE  Clean(jobs'[k]) /\ Migrates(jobs'[k].todo, jobs'[k], table', backup')
  BY DEF Migrating
<1>1. jobs'[k] = jobs[k] /\ k \in D!Running
  BY DEF D!Running
<1>2. Migrating(k)
  BY DEF MigInv
<1> QED
  BY <1>1, <1>2 DEF Migrating

\* One statement of one job.
LEMMA MigratingRun ==
  ASSUME DesignInv, LossInv, MigInv, NEW k \in D!Job, D!RunStatement(k)
  PROVE  MigInv'
<1>1. PICK t : t = jobs[k].todo
  OBVIOUS
<1>2. /\ D!Next1(Head(t)) /\ Planned(t) /\ jobs'[k].todo = Tail(t) /\ t # << >>
      /\ \A l \in D!Job : l # k => jobs'[l] = jobs[l]
      /\ jobs'[k].alone = jobs[k].alone
      /\ jobs'[k].before = jobs[k].before /\ jobs'[k].from = jobs[k].from
      /\ jobs'[k].target = jobs[k].target /\ jobs'[k].rows = jobs[k].rows
  BY <1>1, RunsOne
<1>3. k \in D!Running
  BY <1>1, <1>2 DEF D!Running, D!Idle
<1>4. D!Running' \subseteq D!Running
  BY <1>2, <1>3 DEF D!Running
<1>5. Formed(table) /\ Distinct(table)
  BY DEF DesignInv, LossInv
<1>6. ASSUME NEW l \in D!Job, l \in D!Running', jobs'[l].alone, D!FreshStart(jobs'[l])
      PROVE  Clean(jobs'[l]) /\ Migrates(jobs'[l].todo, jobs'[l], table', backup')
  <2>1. Keeping(l) /\ l \in D!Running /\ jobs[l].alone
    BY <1>2, <1>4, <1>6 DEF LossInv
  <2>2. l = k
    BY <1>3, <2>1 DEF Keeping
  <2>3. Describes(jobs[k].target)
    BY <2>1, <2>2 DEF Keeping
  <2>4. D!FreshStart(jobs[k])
    <3>1. D!FreshStart(jobs'[k])
      BY <1>6, <2>2
    <3> QED
      BY <1>2, <3>1 DEF D!FreshStart, D!Accurate
  <2>5. Clean(jobs[k]) /\ Migrates(t, jobs[k], table, backup)
    <3>1. Migrating(k)
      BY DEF MigInv
    <3> QED
      BY <1>1, <1>3, <2>1, <2>2, <2>4, <3>1 DEF Migrating
  <2>6. Migrates(Tail(t), jobs[k], table', backup')
    BY <1>2, <1>5, <2>3, <2>5, MigratesOn
  <2>7. Clean(jobs'[k])
    BY <1>2, <2>5 DEF Clean, Cols, Stays, Old
  <2>8. Migrates(Tail(t), jobs'[k], table', backup')
    BY <1>2, <2>6, MigratesSame
  <2> QED
    BY <1>2, <2>2, <2>7, <2>8
<1>7. \A l \in D!Job : Migrating(l)'
  BY <1>6 DEF Migrating
<1>8. rows' = rows /\ current' = current
  BY DEF D!RunStatement, D!form
<1>9. RowsInv'
  BY <1>8 DEF MigInv, RowsInv, RowsOK, IsRow, D!NamesOf
<1> QED
  BY <1>7, <1>9 DEF MigInv

\* A new plan.
LEMMA MigratingApply ==
  ASSUME DesignInv, LossInv, MigInv, D!Apply
  PROVE  MigInv'
<1> DEFINE plan == D!Statements
           new == [todo |-> plan, warned |-> D!Destructive(plan),
                   before |-> table, from |-> current, target |-> D!FormModel,
                   rows |-> rows, alone |-> TRUE]
<1>1. /\ D!Complete
      /\ jobs' = [k \in D!Job |->
           IF k = applies' THEN IF D!Running = {} THEN new ELSE D!Unwatched(new)
           ELSE IF k \in D!Running THEN D!Unwatched(jobs[k]) ELSE D!Idle]
      /\ UNCHANGED <<table, backup, current, rows>>
  BY Zenon DEF D!Apply, D!server, D!form
<1>2. /\ new.todo = plan /\ new.before = table
      /\ new.from = current /\ new.target = D!FormModel /\ new.rows = rows
  OBVIOUS
<1> HIDE DEF plan, new
<1>3. ASSUME NEW j PROVE D!Unwatched(j).alone = FALSE
  BY DEF D!Unwatched, D!Idle
<1>4. Listed(rows) /\ IsFiniteSet(index) /\ Sized(current) /\ Distinct(table) /\ RowsInv
  BY DEF DesignInv, FormInv, LossInv, MigInv
<1>5. ASSUME D!FreshStart(new) PROVE Clean(new) /\ Migrates(plan, new, table, backup)
  <2>1. Clean(new)
    BY <1>1, <1>2, <1>4, <1>5, CleanStart
  <2> QED
    BY <1>1, <1>2, <1>4, <2>1, MigratesFirst DEF plan
<1>6. ASSUME NEW k \in D!Job, k \in D!Running', jobs'[k].alone
      PROVE  jobs'[k] = new
  <2>1. jobs'[k] # D!Idle
    BY <1>6 DEF D!Running
  <2> QED
    BY <1>1, <1>3, <1>6, <2>1
<1>7. ASSUME NEW k \in D!Job, k \in D!Running', jobs'[k].alone, D!FreshStart(jobs'[k])
      PROVE  Clean(jobs'[k]) /\ Migrates(jobs'[k].todo, jobs'[k], table', backup')
  <2>1. jobs'[k] = new
    BY <1>6, <1>7
  <2> QED
    BY <1>1, <1>2, <1>5, <1>7, <2>1
<1>8. \A k \in D!Job : Migrating(k)'
  BY <1>7 DEF Migrating
<1>9. RowsInv'
  BY <1>1 DEF MigInv, RowsInv, RowsOK, IsRow, D!NamesOf
<1> QED
  BY <1>8, <1>9 DEF MigInv

\* And every action.
LEMMA MigratingNext ==
  ASSUME DesignInv, LossInv, MigInv, [D!Next]_D!vars
  PROVE  MigInv'
<1>1. CASE D!Edit
  <2>1. UNCHANGED <<D!server, jobs>>
    BY <1>1, EditsForm
  <2>2. UNCHANGED <<table, backup>>
    BY <2>1 DEF D!server
  <2>3. \A k \in D!Job : Migrating(k)'
    BY <2>1, <2>2, MigratingOver
  <2>4. RowsInv'
    BY <1>1, RowsStep DEF MigInv
  <2> QED
    BY <2>3, <2>4 DEF MigInv
<1>2. CASE D!Apply
  BY <1>2, MigratingApply
<1>3. CASE D!RollBack
  <2>1. D!Running = {} /\ jobs' = jobs /\ current' = current /\ rows' = rows
    BY <1>3 DEF D!RollBack, D!form
  <2>2. \A k \in D!Job : Migrating(k)'
    BY <2>1 DEF Migrating, D!Running
  <2>3. RowsInv'
    BY <2>1 DEF MigInv, RowsInv, RowsOK, IsRow, D!NamesOf
  <2> QED
    BY <2>2, <2>3 DEF MigInv
<1>4. CASE \E k \in D!Job : D!RunStatement(k)
  BY <1>4, MigratingRun
<1>5. CASE \E k \in D!Job : D!Refused(k) \/ D!Done(k)
  <2>1. PICK k \in D!Job : D!Refused(k) \/ D!Done(k)
    BY <1>5
  <2>2. jobs' = [jobs EXCEPT ![k] = D!Idle] /\ UNCHANGED D!server
    BY <2>1, Zenon DEF D!Refused, D!Done
  <2>3. jobs = [l \in D!Job |-> jobs[l]]
    BY DEF DesignInv, Jobs
  <2>4. \A l \in D!Job : jobs'[l] = jobs[l] \/ jobs'[l] = D!Idle
    BY <2>2, <2>3
  <2>5. UNCHANGED <<table, backup>>
    BY <2>2 DEF D!server
  <2>6. \A l \in D!Job : Migrating(l)'
    BY <2>4, <2>5, MigratingOver
  <2>7. CASE D!Done(k)
    <3>1. RowsInv'
      BY <2>7, RowsDone DEF MigInv
    <3> QED
      BY <2>6, <3>1 DEF MigInv
  <2>8. CASE D!Refused(k)
    <3>1. current' = current /\ UNCHANGED D!form
      BY <2>8, Zenon DEF D!Refused
    <3>2. current' = current /\ rows' = rows
      BY <3>1 DEF D!form
    <3>3. RowsInv'
      BY <3>2 DEF MigInv, RowsInv, RowsOK, IsRow, D!NamesOf
    <3> QED
      BY <2>6, <3>3 DEF MigInv
  <2> QED
    BY <2>1, <2>7, <2>8
<1>6. CASE UNCHANGED D!vars
  <2>1. UNCHANGED <<table, backup, jobs, current, rows>>
    BY <1>6 DEF D!vars, D!server, D!form
  <2>2. \A k \in D!Job : Migrating(k)'
    BY <2>1, MigratingOver
  <2>3. RowsInv'
    BY <2>1 DEF MigInv, RowsInv, RowsOK, IsRow, D!NamesOf
  <2> QED
    BY <2>2, <2>3 DEF MigInv
<1> QED
  BY <1>1, <1>2, <1>3, <1>4, <1>5, <1>6, Zenon DEF D!Next

\* Nothing left to do: the table is the target, with its rows.
LEMMA ArrivedEnd ==
  ASSUME NEW j, Clean(j), Describes(j.target), NEW t, Distinct(t), Arrived({}, j, t)
  PROVE  /\ D!SNames(t) = D!NamesOf(j.target)
         /\ \A c \in Cols(j) :
              D!SColumn(t, c.name).null = (c.null /\ c.name \notin D!PrimaryKey(j.target))
         /\ \A r \in D!ToSet(j.rows) : r.name # NoColumnName =>
              D!SColumn(t, r.name).of =
                 IF r.loaded = NoColumnName THEN NoColumnName
                 ELSE D!SColumn(j.before, r.loaded).of
<1>1. /\ \A op, arg : ~ Among({}, op, arg)
      /\ \A c : ~ ToRename({}, j, c) /\ ~ ToRestate({}, j, c)
  BY DEF Among, ToRename, ToRestate
<1>2. \A x \in t.cols : \E c \in Cols(j) :
        x.name = c.name /\ x.of = Origin(j, c) /\ x.null = c.null
  BY <1>1 DEF Arrived, Explained
<1>3. \A c \in Cols(j) : c.name \in D!SNames(t)
  BY <1>1 DEF Arrived, Present
<1>4. D!SNames(t) = D!NamesOf(j.target)
  BY <1>2, <1>3 DEF D!SNames, D!NamesOf, Cols
<1>5. ASSUME NEW c \in Cols(j)
      PROVE  D!SColumn(t, c.name).null = c.null /\ D!SColumn(t, c.name).of = Origin(j, c)
  <2>1. PICK x : x = D!SColumn(t, c.name)
    OBVIOUS
  <2>2. x \in t.cols /\ x.name = c.name
    BY <1>3, <2>1, ColumnThere
  <2>3. PICK d \in Cols(j) : x.name = d.name /\ x.of = Origin(j, d) /\ x.null = d.null
    BY <1>2, <2>2
  <2>4. d = c
    BY <2>2, <2>3 DEF Describes, Cols
  <2> QED
    BY <2>1, <2>3, <2>4
<1>6. \A c \in Cols(j) :
        D!SColumn(t, c.name).null = (c.null /\ c.name \notin D!PrimaryKey(j.target))
  BY <1>5, SameNull
<1>7. ASSUME NEW r \in D!ToSet(j.rows), r.name # NoColumnName
      PROVE  D!SColumn(t, r.name).of =
                 IF r.loaded = NoColumnName THEN NoColumnName
                 ELSE D!SColumn(j.before, r.loaded).of
  <2>1. PICK c \in Cols(j) : /\ c.name = r.name /\ (Stays(j, c) <=> r.loaded # NoColumnName)
                             /\ Stays(j, c) => Old(j, c) = r.loaded
    BY <1>7 DEF Clean
  <2>2. D!SColumn(t, r.name).of = Origin(j, c)
    BY <1>5, <2>1
  <2> QED
    BY <2>1, <2>2 DEF Origin
<1> QED
  BY <1>4, <1>6, <1>7

\* A plan that began from the table as it was, as FreshStart has it, and ran to
\* its end alone left the table the form describes: its columns, whether each
\* may be NULL, and under each the rows of the column it was loaded from; on
\* every engine, in place or by a rebuild, for tables and forms of any size.
THEOREM PlanArrives == D!Spec => []D!PlanMigrates
<1> DEFINE IInv == DesignInv /\ LossInv /\ MigInv
<1>1. D!Init => IInv
  <2>1. D!Init => \A k \in D!Job : k \notin D!Running
    BY DEF D!Init, D!Running
  <2>2. D!Init => \A k \in D!Job : Migrating(k)
    BY <2>1 DEF Migrating
  <2> QED
    BY <2>2, DesignInit, LossInit, RowsInit DEF MigInv
<1>2. IInv /\ [D!Next]_D!vars => IInv'
  BY DesignNext, LossNext, MigratingNext
<1>3. IInv => D!PlanMigrates
  <2> SUFFICES ASSUME LossInv, MigInv, NEW k \in D!Ended, D!FreshStart(jobs[k])
               PROVE  /\ D!SNames(table) = D!NamesOf(jobs[k].target)
                      /\ \A c \in D!ToSet(jobs[k].target.cols) :
                           D!SColumn(table, c.name).null =
                             (c.null /\ c.name \notin D!PrimaryKey(jobs[k].target))
                      /\ \A r \in D!ToSet(jobs[k].rows) : r.name # NoColumnName =>
                           D!SColumn(table, r.name).of =
                             IF r.loaded = NoColumnName THEN NoColumnName
                             ELSE D!SColumn(jobs[k].before, r.loaded).of
    BY Zenon DEF D!PlanMigrates
  <2>1. k \in D!Running /\ k \in D!Job /\ jobs[k].todo = << >> /\ jobs[k].alone
    BY DEF D!Ended, D!Running
  <2>2. Clean(jobs[k]) /\ Migrates(<< >>, jobs[k], table, backup)
    <3>1. Migrating(k)
      BY <2>1 DEF MigInv
    <3> QED
      BY <2>1, <3>1 DEF Migrating
  <2>3. Describes(jobs[k].target) /\ Distinct(table)
    BY <2>1 DEF LossInv, Keeping
  <2>4. ~ Copies(<< >>)
    BY NoneAlters, AltersLaid, PlaceIs DEF Copies
  <2>5. Arrived({}, jobs[k], table)
    BY <2>2, <2>4, NoneHolds DEF Migrates
  <2> QED
    BY <2>2, <2>3, <2>5, ArrivedEnd DEF Cols
<1> QED
  BY <1>1, <1>2, <1>3, PTL DEF D!Spec

-----------------------------------------------------------------------------
(* Side by side with the other parts, which leave their state alone.       *)

LEMMA MonitorPart == MCSpec => M!Spec
<1>1. MCInit => M!Init
  BY DEF MCInit
<1>2. [MCNext]_allVars => [M!Next]_(M!vars)
  BY DEF MCNext, allVars, monitorVars, M!vars
<1> QED
  BY <1>1, <1>2, PTL DEF MCSpec, M!Spec

LEMMA BoardPart == MCSpec => B!Spec
<1>1. MCInit => B!Init
  BY DEF MCInit
<1>2. [MCNext]_allVars => [B!Next]_(B!vars)
  BY DEF MCNext, allVars, boardVars, B!vars
<1> QED
  BY <1>1, <1>2, PTL DEF MCSpec, B!Spec

\* The property NoFalseRestart of the run: the monitor never says that the
\* server restarted when it did not.
COROLLARY SessionsRestarts == MCSpec => []NoFalseRestart
<1>1. M!NoFalseRestart => NoFalseRestart
  BY DEF NoFalseRestart
<1> QED
  BY <1>1, RestartsAreReal, MonitorPart, PTL

\* The property DrawnIsOwn of the run: a cell draws the answer to its own query.
COROLLARY SessionsDraw == MCSpec => []DrawnIsOwn
<1>1. B!DrawnIsOwn => DrawnIsOwn
  BY DEF DrawnIsOwn
<1> QED
  BY <1>1, DrawsItsOwn, BoardPart, PTL

\* The property RefreshingEnds of the run: what says it is refreshing is told.
COROLLARY SessionsRefresh == MCSpec => []RefreshingEnds
<1>1. B!RefreshingEnds => RefreshingEnds
  BY DEF RefreshingEnds
<1> QED
  BY <1>1, RefreshingIsSwept, BoardPart, PTL

\* The property FileIsBoard of the run: the file holds the dashboard on screen.
COROLLARY SessionsSave == MCSpec => []FileIsBoard
<1>1. B!FileIsBoard => FileIsBoard
  BY DEF FileIsBoard
<1> QED
  BY <1>1, SavedAtOnce, BoardPart, PTL

\* The property NobodyLooks of the run: nothing is polled for a monitor or a
\* dashboard that is closed or paused.
COROLLARY SessionsPoll == MCSpec => []NobodyLooks
<1>1. M!NobodyLooksNobodyPolls /\ B!NobodyLooks => NobodyLooks
  BY DEF NobodyLooks
<1> QED
  BY <1>1, NobodySamples, NobodyPolls, MonitorPart, BoardPart, PTL

LEMMA DesignPart == MCSpec => D!Spec
<1>1. MCInit => D!Init
  BY DEF MCInit
<1>2. [MCNext]_allVars => [D!Next]_D!vars
  BY DEF MCNext, allVars, designVars, D!vars, D!server, D!form
<1> QED
  BY <1>1, <1>2, PTL DEF MCSpec, D!Spec

\* The property HalfwayRollsBack of the run: nothing of a rebuild is committed
\* before its end.
COROLLARY SessionsRollBack == MCSpec => []HalfwayRollsBack
<1>1. D!HalfwayRollsBack => HalfwayRollsBack
  BY DEF HalfwayRollsBack
<1> QED
  BY <1>1, HalfwayIsSaved, DesignPart, PTL

\* The property LossIsFlagged of the run: no plan takes rows away unannounced.
COROLLARY SessionsLoss == MCSpec => []LossIsFlagged
<1>1. D!LossIsFlagged => LossIsFlagged
  BY DEF LossIsFlagged
<1> QED
  BY <1>1, LossIsShown, DesignPart, PTL

\* The property PlanMigrates of the run: a plan that ran to its end left the
\* table the form describes.
COROLLARY SessionsMigrates == MCSpec => []PlanMigrates
<1>1. D!PlanMigrates => PlanMigrates
  BY DEF PlanMigrates
<1> QED
  BY <1>1, PlanArrives, DesignPart, PTL
=============================================================================
