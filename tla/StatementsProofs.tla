-------------------------- MODULE StatementsProofs --------------------------
(* Theorems about what runs on a session: the scripts of the consoles       *)
(* (QueryConsole, this module's own names), for any number of consoles,     *)
(* connections and runs and every set of scripts; and the batches of row    *)
(* changes (RowBatch, here B), for any number of threads and operations, as *)
(* an implementation of AtomicSave.                                         *)
EXTENDS MCStatements, TLAPS

-----------------------------------------------------------------------------
(* The consoles.                                                           *)

\* The records a run goes through can be told apart by where they are.
LEMMA Working ==
  ASSUME TypeOK, NEW c \in Console, NEW n \in Runs, InFlight(c, n)
  PROVE  run[c][n] \in Thread
BY DEF TypeOK, InFlight, Unused, Ended

-----------------------------------------------------------------------------
\* What the types and both properties rest on: runs are numbered as they
\* start, and only the current one keeps its console from being idle.
Numbered ==
  /\ \A c \in Console : jobId[c] <= started
  /\ \A c \in Console : state[c] # "idle" => jobId[c] # 0
  /\ \A c \in Console, n \in Runs : run[c][n].pc # "unused" => n <= jobId[c]
  /\ \A c \in Console, n \in Runs : <<c, n>> \in cancelled => n <= jobId[c]

\* A worker that moves on stays the same run of the same script.
LEMMA GotoType ==
  ASSUME TypeOK, NEW c \in Console, NEW n \in Runs, InFlight(c, n),
         NEW place \in {"send", "exec", "peek", "done", "failed"},
         place \in {"send", "exec"} => run[c][n].pc \in {"connect", "send"},
         Goto(c, n, place)
  PROVE  /\ run' \in [Console -> [Runs -> Thread \cup {Unused, Ended}]]
         /\ \A d \in Console, m \in Runs : run'[d][m].pc \in {"connect", "send", "exec"} =>
              run'[d][m].next \in 1 .. Len(run'[d][m].script)
<1>1. run[c][n] \in Thread
  BY Working
<1>2. [run[c][n] EXCEPT !.pc = place] \in Thread
  BY <1>1 DEF Thread
<1>3. run' = [run EXCEPT ![c] = [run[c] EXCEPT ![n] = [run[c][n] EXCEPT !.pc = place]]]
  BY DEF Goto
<1>4. run' \in [Console -> [Runs -> Thread \cup {Unused, Ended}]]
  BY <1>2, <1>3 DEF TypeOK
<1>5. \A d \in Console, m \in Runs : run'[d][m].pc \in {"connect", "send", "exec"} =>
              run'[d][m].next \in 1 .. Len(run'[d][m].script)
  <2> SUFFICES ASSUME NEW d \in Console, NEW m \in Runs,
                      run'[d][m].pc \in {"connect", "send", "exec"}
               PROVE  run'[d][m].next \in 1 .. Len(run'[d][m].script)
    OBVIOUS
  <2>1. CASE d = c /\ m = n
    <3>1. run'[d][m] = [run[c][n] EXCEPT !.pc = place]
      BY <2>1, <1>3 DEF TypeOK
    <3>2. /\ run'[d][m].pc = place
          /\ run'[d][m].next = run[c][n].next
          /\ run'[d][m].script = run[c][n].script
      BY <3>1, <1>1 DEF Thread
    <3>3. QED
      BY <3>2 DEF TypeOK
  <2>2. CASE ~ (d = c /\ m = n)
    <3>1. run'[d][m] = run[d][m]
      BY <2>2, <1>3 DEF TypeOK
    <3>2. QED
      BY <3>1 DEF TypeOK
  <2>3. QED
    BY <2>1, <2>2
<1>6. QED
  BY <1>4, <1>5

\* Ending a run keeps the others as they are.
LEMMA OverType ==
  ASSUME TypeOK, NEW c \in Console, NEW n \in Runs, Over(c, n)
  PROVE  /\ run' \in [Console -> [Runs -> Thread \cup {Unused, Ended}]]
         /\ \A d \in Console, m \in Runs : run'[d][m].pc \in {"connect", "send", "exec"} =>
              run'[d][m].next \in 1 .. Len(run'[d][m].script)
BY DEF TypeOK, Over, Ended

\* A statement that went through advances its run by one.
LEMMA StatementType ==
  ASSUME TypeOK, NEW c \in Console, NEW n \in Runs, StatementOk(c, n)
  PROVE  /\ run' \in [Console -> [Runs -> Thread \cup {Unused, Ended}]]
         /\ \A d \in Console, m \in Runs : run'[d][m].pc \in {"connect", "send", "exec"} =>
              run'[d][m].next \in 1 .. Len(run'[d][m].script)
<1> DEFINE to == IF run[c][n].next = Len(run[c][n].script) \/ Superseded(c, n)
                   THEN "peek" ELSE "send"
           new == [run[c][n] EXCEPT !.next = @ + 1, !.pc = to]
<1>1. run[c][n] \in Thread /\ run[c][n].pc = "exec"
  BY Working DEF StatementOk, InFlight
<1>2. run[c][n].script \in Seq({"begin", "end", "plain"})
  BY <1>1, ConsoleAssumption DEF Thread
<1>3. Len(run[c][n].script) \in Nat
  BY <1>2
<1>4. new \in Thread
  <2>1. to \in {"send", "peek"}
    OBVIOUS
  <2> HIDE DEF to
  <2>2. [run[c][n] EXCEPT !.next = @ + 1] \in Thread
    BY <1>1 DEF Thread
  <2>3. new = [[run[c][n] EXCEPT !.next = @ + 1] EXCEPT !.pc = to]
    BY <1>1 DEF Thread
  <2>4. QED
    BY <2>1, <2>2, <2>3 DEF Thread
<1>5. run' = [run EXCEPT ![c] = [run[c] EXCEPT ![n] = new]]
  BY DEF StatementOk, TypeOK
<1>6. new.pc = to /\ new.next = run[c][n].next + 1 /\ new.script = run[c][n].script
  BY <1>1 DEF Thread
<1>7. new.pc = "send" => new.next \in 1 .. Len(new.script)
  BY <1>1, <1>3, <1>6 DEF TypeOK
<1>8. new.pc \in {"send", "peek"}
  BY <1>6
<1> HIDE DEF new
<1>9. run' \in [Console -> [Runs -> Thread \cup {Unused, Ended}]]
  BY <1>4, <1>5 DEF TypeOK
<1>10. ASSUME NEW d \in Console, NEW m \in Runs,
              run'[d][m].pc \in {"connect", "send", "exec"}
       PROVE  run'[d][m].next \in 1 .. Len(run'[d][m].script)
  <2>1. CASE d = c /\ m = n
    BY <2>1, <1>5, <1>7, <1>8, <1>10 DEF TypeOK
  <2>2. CASE ~ (d = c /\ m = n)
    <3>1. run'[d][m] = run[d][m]
      BY <2>2, <1>5 DEF TypeOK
    <3>2. QED
      BY <3>1, <1>10 DEF TypeOK
  <2>3. QED
    BY <2>1, <2>2
<1>11. QED
  BY <1>9, <1>10

\* A new run starts at the first statement of its script.
LEMMA StartType ==
  ASSUME TypeOK, Numbered, NEW c \in Console, NEW s \in Script, Start(c, s)
  PROVE  /\ jobId[c] + 1 \in Runs
         /\ run' \in [Console -> [Runs -> Thread \cup {Unused, Ended}]]
         /\ \A d \in Console, m \in Runs : run'[d][m].pc \in {"connect", "send", "exec"} =>
              run'[d][m].next \in 1 .. Len(run'[d][m].script)
<1> DEFINE new == [pc |-> "connect", on |-> selected[c], script |-> s,
                   next |-> 1, open |-> FALSE]
<1>1. jobId[c] + 1 \in Runs
  BY ConsoleAssumption DEF TypeOK, Numbered, Start, Runs
<1>2. s \in Seq({"begin", "end", "plain"}) /\ s # <<>>
  BY ConsoleAssumption
<1>3. Len(s) \in Nat /\ Len(s) > 0
  BY <1>2
<1>4. new \in Thread
  BY DEF Thread, TypeOK
<1>5. new.pc = "connect" /\ new.next = 1 /\ new.script = s
  OBVIOUS
<1>6. run' = [run EXCEPT ![c] = [run[c] EXCEPT ![jobId[c] + 1] = new]]
  BY DEF Start, TypeOK
<1> HIDE DEF new
<1>7. run' \in [Console -> [Runs -> Thread \cup {Unused, Ended}]]
  BY <1>1, <1>4, <1>6 DEF TypeOK
<1>8. ASSUME NEW d \in Console, NEW m \in Runs,
             run'[d][m].pc \in {"connect", "send", "exec"}
      PROVE  run'[d][m].next \in 1 .. Len(run'[d][m].script)
  <2>1. CASE d = c /\ m = jobId[c] + 1
    BY <2>1, <1>1, <1>3, <1>5, <1>6 DEF TypeOK
  <2>2. CASE ~ (d = c /\ m = jobId[c] + 1)
    <3>1. run'[d][m] = run[d][m]
      BY <2>2, <1>1, <1>6 DEF TypeOK
    <3>2. QED
      BY <3>1, <1>8 DEF TypeOK
  <2>3. QED
    BY <2>1, <2>2
<1>9. QED
  BY <1>1, <1>7, <1>8

LEMMA TypeStep ==
  ASSUME TypeOK, Numbered, [Next]_vars
  PROVE  TypeOK'
<1> USE DEF console, server, history
<1>1. ASSUME NEW c \in Console, NEW k \in Connection, Select(c, k) PROVE TypeOK'
  BY <1>1 DEF TypeOK, Select
<1>2. ASSUME NEW c \in Console, NEW s \in Script, Start(c, s) PROVE TypeOK'
  <2>1. started' \in 0 .. MaxRuns
    BY <1>2, ConsoleAssumption DEF TypeOK, Start
  <2>2. jobId' \in [Console -> 0 .. MaxRuns]
    <3>1. jobId[c] + 1 \in 0 .. MaxRuns
      BY <1>2, StartType, ConsoleAssumption DEF Runs
    <3>2. QED
      BY <1>2, <3>1 DEF TypeOK, Start
  <2>3. sound' \subseteq Console
    BY <1>2 DEF Start
  <2>4. /\ run' \in [Console -> [Runs -> Thread \cup {Unused, Ended}]]
        /\ \A d \in Console, m \in Runs : run'[d][m].pc \in {"connect", "send", "exec"} =>
             run'[d][m].next \in 1 .. Len(run'[d][m].script)
    BY <1>2, StartType
  <2>5. QED
    BY <1>2, <2>1, <2>2, <2>3, <2>4 DEF TypeOK, Start
<1>3. ASSUME NEW c \in Console, Cancel(c) PROVE TypeOK'
  <2>1. jobId[c] \in Runs
    BY <1>3 DEF Cancel, TypeOK, Numbered, Runs
  <2>2. QED
    BY <1>3, <2>1 DEF TypeOK, Cancel
<1>4. ASSUME NEW c \in Console, NEW n \in Runs, Work(c, n) PROVE TypeOK'
  <2>1. CASE Connect(c, n)
    <3>1. run[c][n] \in Thread
      BY <2>1, Working DEF Connect, InFlight
    <3>2. run[c][n].on \in Connection
      BY <3>1 DEF Thread
    <3>3. QED
      BY <2>1, <3>2, GotoType DEF TypeOK, Connect, InFlight
  <2>2. CASE ConnectFails(c, n)
    BY <2>2, GotoType DEF TypeOK, ConnectFails, InFlight
  <2>3. CASE Send(c, n)
    <3>1. InFlight(c, n) /\ run[c][n].pc = "send"
      BY <2>3 DEF Send, InFlight
    <3>2. /\ run' \in [Console -> [Runs -> Thread \cup {Unused, Ended}]]
          /\ \A d \in Console, m \in Runs : run'[d][m].pc \in {"connect", "send", "exec"} =>
               run'[d][m].next \in 1 .. Len(run'[d][m].script)
      BY <2>3, <3>1, GotoType DEF Send
    <3>3. defied' \subseteq cancelled /\ extra' \in [Console -> [Runs -> Nat]]
      BY <2>3 DEF TypeOK, Send
    <3>4. holder' \in [Connection -> (Console \X Runs) \cup {<<>>}]
      BY <2>3 DEF TypeOK, Send
    <3>5. QED
      BY <2>3, <3>2, <3>3, <3>4 DEF TypeOK, Send
  <2>4. CASE StatementOk(c, n)
    <3>1. tx' \in [Connection -> BOOLEAN]
      BY <2>4 DEF TypeOK, StatementOk, TxAfter
    <3>2. holder' \in [Connection -> (Console \X Runs) \cup {<<>>}]
      BY <2>4 DEF TypeOK, StatementOk, Release
    <3>3. QED
      BY <2>4, <3>1, <3>2, StatementType DEF TypeOK, StatementOk
  <2>5. CASE StatementFails(c, n)
    <3>1. holder' \in [Connection -> (Console \X Runs) \cup {<<>>}]
      BY <2>5 DEF TypeOK, StatementFails, Release
    <3>2. QED
      BY <2>5, <3>1, GotoType DEF TypeOK, StatementFails, InFlight
  <2>6. CASE Peek(c, n)
    <3>1. run[c][n] \in Thread
      BY <2>6, Working DEF Peek, InFlight
    <3> DEFINE new == [run[c][n] EXCEPT !.pc = "done", !.open = tx[run[c][n].on]]
    <3>2. new \in Thread /\ new.pc = "done"
      BY <3>1 DEF Thread, TypeOK
    <3>3. run' = [run EXCEPT ![c] = [run[c] EXCEPT ![n] = new]]
      BY <2>6 DEF Peek
    <3> HIDE DEF new
    <3>4. run' \in [Console -> [Runs -> Thread \cup {Unused, Ended}]]
      BY <3>2, <3>3 DEF TypeOK
    <3>5. \A d \in Console, m \in Runs : run'[d][m].pc \in {"connect", "send", "exec"} =>
            run'[d][m].next \in 1 .. Len(run'[d][m].script)
      BY <3>2, <3>3 DEF TypeOK
    <3>6. QED
      BY <2>6, <3>4, <3>5 DEF TypeOK, Peek
  <2>7. CASE DropStale(c, n)
    BY <2>7, OverType DEF TypeOK, DropStale
  <2>8. CASE Done(c, n)
    <3>1. run[c][n] \in Thread
      BY <2>8, Working DEF Done, InFlight
    <3>2. run[c][n].open \in BOOLEAN
      BY <3>1 DEF Thread
    <3>3. shown' \in [Console -> 0 .. MaxRuns] /\ badge' \in [Console -> BOOLEAN]
      BY <2>8, <3>2 DEF TypeOK, Done, Runs
    <3>4. /\ run' \in [Console -> [Runs -> Thread \cup {Unused, Ended}]]
          /\ \A d \in Console, m \in Runs : run'[d][m].pc \in {"connect", "send", "exec"} =>
               run'[d][m].next \in 1 .. Len(run'[d][m].script)
      BY <2>8, OverType DEF Done
    <3>5. QED
      BY <2>8, <3>3, <3>4 DEF TypeOK, Done, ToIdle
  <2>9. CASE Refreshed(c, n)
    BY <2>9, OverType DEF TypeOK, Refreshed, ToIdle
  <2>10. QED
    BY <1>4, <2>1, <2>2, <2>3, <2>4, <2>5, <2>6, <2>7, <2>8, <2>9 DEF Work
<1>5. CASE UNCHANGED vars
  BY <1>5 DEF TypeOK, vars
<1>6. QED
  BY <1>1, <1>2, <1>3, <1>4, <1>5 DEF Next, Act

\* A step of a worker changes neither the numbering nor who is unused.
LEMMA WorkKeeps ==
  ASSUME TypeOK, NEW c \in Console, NEW n \in Runs, Work(c, n)
  PROVE  /\ jobId' = jobId /\ started' = started /\ cancelled' = cancelled
         /\ run[c][n].pc # "unused"
         /\ \A d \in Console, m \in Runs : ~ (d = c /\ m = n) => run'[d][m] = run[d][m]
         /\ state' = state \/ state' = [state EXCEPT ![c] = "idle"]
<1> USE DEF TypeOK, console, server, history
<1>1. CASE Connect(c, n) \/ ConnectFails(c, n) \/ Send(c, n) \/ StatementFails(c, n)
  BY <1>1 DEF Connect, ConnectFails, Send, StatementFails, Goto
<1>2. CASE StatementOk(c, n) \/ Peek(c, n)
  BY <1>2 DEF StatementOk, Peek
<1>3. CASE DropStale(c, n) \/ Done(c, n) \/ Refreshed(c, n)
  BY <1>3 DEF DropStale, Done, Refreshed, Over, ToIdle
<1>4. QED
  BY <1>1, <1>2, <1>3 DEF Work

LEMMA NumberedStep ==
  ASSUME TypeOK, Numbered, [Next]_vars
  PROVE  Numbered'
<1> USE DEF console, server, history
<1>1. ASSUME NEW c \in Console, NEW k \in Connection, Select(c, k) PROVE Numbered'
  BY <1>1 DEF Numbered, Select
<1>2. ASSUME NEW c \in Console, NEW s \in Script, Start(c, s) PROVE Numbered'
  <2>1. /\ jobId' = [jobId EXCEPT ![c] = @ + 1] /\ started' = started + 1
        /\ cancelled' = cancelled /\ state' = [state EXCEPT ![c] = "running"]
    BY <1>2 DEF Start
  <2>2. /\ started \in Nat /\ \A d \in Console : jobId[d] \in Nat
    BY ConsoleAssumption DEF TypeOK
  <2>3. \A d \in Console, m \in Runs :
          ~ (d = c /\ m = jobId[c] + 1) => run'[d][m] = run[d][m]
    BY <1>2, StartType DEF TypeOK, Start
  <2>4. \A d \in Console : jobId'[d] <= started'
    BY <2>1, <2>2 DEF Numbered, TypeOK
  <2>5. \A d \in Console : state'[d] # "idle" => jobId'[d] # 0
    BY <2>1, <2>2 DEF Numbered, TypeOK
  <2>6. \A d \in Console : jobId[d] <= jobId'[d]
    BY <2>1, <2>2 DEF TypeOK
  <2>7. ASSUME NEW d \in Console, NEW m \in Runs, run'[d][m].pc # "unused"
        PROVE  m <= jobId'[d]
    <3>1. CASE d = c /\ m = jobId[c] + 1
      BY <3>1, <2>1, <2>2 DEF TypeOK
    <3>2. CASE ~ (d = c /\ m = jobId[c] + 1)
      <4>1. m <= jobId[d]
        BY <3>2, <2>3, <2>7 DEF Numbered
      <4>2. QED
        BY <4>1, <2>1, <2>2, <2>6 DEF TypeOK, Runs
    <3>3. QED
      BY <3>1, <3>2
  <2>8. ASSUME NEW d \in Console, NEW m \in Runs, <<d, m>> \in cancelled'
        PROVE  m <= jobId'[d]
    BY <2>8, <2>1, <2>2, <2>6 DEF Numbered, TypeOK, Runs
  <2>9. QED
    BY <2>4, <2>5, <2>7, <2>8 DEF Numbered
<1>3. ASSUME NEW c \in Console, Cancel(c) PROVE Numbered'
  BY <1>3 DEF Numbered, Cancel, TypeOK, Runs
<1>4. ASSUME NEW c \in Console, NEW n \in Runs, Work(c, n) PROVE Numbered'
  <2>1. /\ jobId' = jobId /\ started' = started /\ cancelled' = cancelled
        /\ run[c][n].pc # "unused"
        /\ \A d \in Console, m \in Runs : ~ (d = c /\ m = n) => run'[d][m] = run[d][m]
        /\ state' = state \/ state' = [state EXCEPT ![c] = "idle"]
    BY <1>4, WorkKeeps
  <2>2. \A d \in Console : state'[d] # "idle" => state[d] # "idle"
    BY <2>1 DEF TypeOK
  <2>3. \A d \in Console, m \in Runs : run'[d][m].pc # "unused" => run[d][m].pc # "unused"
    BY <2>1
  <2>4. QED
    BY <2>1, <2>2, <2>3 DEF Numbered
<1>5. CASE UNCHANGED vars
  BY <1>5 DEF Numbered, vars
<1>6. QED
  BY <1>1, <1>2, <1>3, <1>4, <1>5 DEF Next, Act

\* Every variable keeps its type: in particular no worker ever sends a
\* statement past the end of its script.
THEOREM TypeCorrect == Spec => []TypeOK
<1>1. Init => TypeOK /\ Numbered
  BY ConsoleAssumption DEF Init, TypeOK, Numbered, Unused
<1>2. TypeOK /\ Numbered /\ [Next]_vars => TypeOK' /\ Numbered'
  BY TypeStep, NumberedStep
<1>3. QED
  BY <1>1, <1>2, PTL DEF Spec

-----------------------------------------------------------------------------
\* What makes SupersededStops inductive: a run that began a statement after
\* it was superseded is past the point where it could begin another, and
\* stays superseded.
StopsInv ==
  /\ SupersededStops
  /\ \A c \in Console, n \in Runs : extra[c][n] # 0 =>
       n < jobId[c] /\ run[c][n].pc \notin {"unused", "connect", "send"}

\* Where a step of a worker leaves its own run.
LEMMA WorkTo ==
  ASSUME TypeOK, NEW c \in Console, NEW n \in Runs, Work(c, n),
         run[c][n].pc \notin {"connect", "send"}
  PROVE  /\ extra' = extra
         /\ Superseded(c, n) => run'[c][n].pc \notin {"unused", "connect", "send"}
<1> USE DEF history
<1>1. CASE StatementOk(c, n)
  <2>1. run[c][n] \in Thread
    BY <1>1, Working DEF StatementOk, InFlight
  <2> DEFINE to == IF run[c][n].next = Len(run[c][n].script) \/ Superseded(c, n)
                     THEN "peek" ELSE "send"
  <2>2. run'[c][n] = [run[c][n] EXCEPT !.next = @ + 1, !.pc = to]
    BY <1>1 DEF StatementOk, TypeOK
  <2>3. run'[c][n].pc = to
    BY <2>1, <2>2 DEF Thread
  <2>4. QED
    BY <1>1, <2>3 DEF StatementOk
<1>2. CASE StatementFails(c, n)
  <2>1. run[c][n] \in Thread
    BY <1>2, Working DEF StatementFails, InFlight
  <2>2. run'[c][n].pc = "peek"
    BY <1>2, <2>1 DEF StatementFails, Goto, TypeOK, Thread
  <2>3. QED
    BY <1>2, <2>2 DEF StatementFails
<1>3. CASE Peek(c, n)
  <2>1. run[c][n] \in Thread
    BY <1>3, Working DEF Peek, InFlight
  <2>2. run'[c][n] = [run[c][n] EXCEPT !.pc = "done", !.open = tx[run[c][n].on]]
    BY <1>3 DEF Peek, TypeOK
  <2>3. run'[c][n].pc = "done"
    BY <2>1, <2>2 DEF Thread
  <2>4. QED
    BY <1>3, <2>3 DEF Peek
<1>4. CASE DropStale(c, n) \/ Done(c, n) \/ Refreshed(c, n)
  BY <1>4 DEF DropStale, Done, Refreshed, Over, Ended, TypeOK
<1>5. QED
  BY <1>1, <1>2, <1>3, <1>4 DEF Work, Connect, ConnectFails, Send

LEMMA StopsStep ==
  ASSUME TypeOK, Numbered, StopsInv, [Next]_vars
  PROVE  StopsInv'
<1> USE DEF console, server, history, SupersededStops
<1>1. ASSUME NEW c \in Console, NEW k \in Connection, Select(c, k) PROVE StopsInv'
  BY <1>1 DEF StopsInv, Select
<1>2. ASSUME NEW c \in Console, NEW s \in Script, Start(c, s) PROVE StopsInv'
  <2>1. \A d \in Console, m \in Runs :
          ~ (d = c /\ m = jobId[c] + 1) => run'[d][m] = run[d][m]
    BY <1>2, StartType DEF TypeOK, Start
  <2>2. extra' = extra /\ jobId' = [jobId EXCEPT ![c] = @ + 1]
    BY <1>2 DEF Start
  <2>3. \A d \in Console : jobId[d] \in Nat /\ jobId[d] <= jobId'[d]
    BY <2>2, ConsoleAssumption DEF TypeOK
  <2>4. ASSUME NEW d \in Console, NEW m \in Runs, extra'[d][m] # 0
        PROVE  m < jobId'[d] /\ run'[d][m].pc \notin {"unused", "connect", "send"}
    <3>1. m < jobId[d] /\ run[d][m].pc \notin {"unused", "connect", "send"}
      BY <2>2, <2>4 DEF StopsInv
    <3>2. m \in Nat
      BY DEF Runs
    <3>3. ~ (d = c /\ m = jobId[c] + 1)
      BY <2>3, <3>1, <3>2
    <3>4. jobId'[d] \in Nat
      BY <2>2, <2>3 DEF TypeOK
    <3>5. QED
      BY <2>1, <2>3, <3>1, <3>2, <3>3, <3>4
  <2>5. QED
    BY <2>2, <2>4 DEF StopsInv
<1>3. ASSUME NEW c \in Console, Cancel(c) PROVE StopsInv'
  BY <1>3 DEF StopsInv, Cancel
<1>4. ASSUME NEW c \in Console, NEW n \in Runs, Work(c, n) PROVE StopsInv'
  <2>1. /\ jobId' = jobId
        /\ run[c][n].pc # "unused"
        /\ \A d \in Console, m \in Runs : ~ (d = c /\ m = n) => run'[d][m] = run[d][m]
    BY <1>4, WorkKeeps
  <2>2. CASE Send(c, n)
    <3>1. extra[c][n] = 0
      BY <2>2 DEF StopsInv, Send
    <3>2. run[c][n] \in Thread
      BY <2>2, Working DEF Send, InFlight
    <3>3. run'[c][n].pc = "exec"
      BY <2>2, <3>2 DEF Send, Goto, TypeOK, Thread
    <3>4. CASE Superseded(c, n)
      <4>1. n < jobId[c]
        BY <3>4, <2>1, ConsoleAssumption DEF Superseded, Numbered, TypeOK, Runs
      <4>2. extra' = [extra EXCEPT ![c][n] = 1]
        BY <2>2, <3>1, <3>4 DEF Send, TypeOK
      <4>3. \A d \in Console, m \in Runs :
              extra'[d][m] = IF d = c /\ m = n THEN 1 ELSE extra[d][m]
        BY <4>2 DEF TypeOK
      <4>4. QED
        BY <2>1, <3>3, <4>1, <4>3 DEF StopsInv
    <3>5. CASE ~ Superseded(c, n)
      BY <2>1, <2>2, <3>1, <3>5 DEF StopsInv, Send
    <3>6. QED
      BY <3>4, <3>5
  <2>3. CASE Connect(c, n) \/ ConnectFails(c, n)
    <3>1. extra[c][n] = 0 /\ extra' = extra
      BY <2>3 DEF StopsInv, Connect, ConnectFails
    <3>2. QED
      BY <2>1, <3>1 DEF StopsInv
  <2>4. CASE run[c][n].pc \notin {"connect", "send"}
    <3>1. /\ extra' = extra
          /\ Superseded(c, n) => run'[c][n].pc \notin {"unused", "connect", "send"}
      BY <1>4, <2>4, WorkTo
    <3>2. extra[c][n] # 0 => Superseded(c, n)
      BY ConsoleAssumption DEF StopsInv, Superseded, TypeOK, Runs
    <3>3. QED
      BY <2>1, <3>1, <3>2 DEF StopsInv
  <2>5. QED
    BY <1>4, <2>2, <2>3, <2>4 DEF Work, StatementOk, StatementFails, Peek,
                                  DropStale, Done, Refreshed
<1>5. CASE UNCHANGED vars
  BY <1>5 DEF StopsInv, vars
<1>6. QED
  BY <1>1, <1>2, <1>3, <1>4, <1>5 DEF Next, Act

\* Of a superseded script at most the statement its worker was about to send
\* is still sent, however many consoles and runs there are.
THEOREM Stops == Spec => []SupersededStops
<1>1. Init => TypeOK /\ Numbered /\ StopsInv
  BY ConsoleAssumption DEF Init, TypeOK, Numbered, Unused, StopsInv, SupersededStops
<1>2. TypeOK /\ Numbered /\ StopsInv /\ [Next]_vars
        => TypeOK' /\ Numbered' /\ StopsInv'
  BY TypeStep, NumberedStep, StopsStep
<1>3. StopsInv => SupersededStops
  BY DEF StopsInv
<1>4. QED
  BY <1>1, <1>2, <1>3, PTL DEF Spec

-----------------------------------------------------------------------------
\* What NoStaleRows rests on: while the current run is in flight, _state
\* remembers that it was cancelled.
CancelInv ==
  \A c \in Console, n \in Runs :
    n = jobId[c] /\ <<c, n>> \in cancelled /\ InFlight(c, n) => state[c] = "cancelling"

LEMMA CancelStep ==
  ASSUME TypeOK, Numbered, CancelInv, [Next]_vars
  PROVE  CancelInv'
<1> USE DEF console, server, history, InFlight
<1>1. ASSUME NEW c \in Console, NEW k \in Connection, Select(c, k) PROVE CancelInv'
  BY <1>1 DEF CancelInv, Select
<1>2. ASSUME NEW c \in Console, NEW s \in Script, Start(c, s) PROVE CancelInv'
  <2> SUFFICES ASSUME NEW d \in Console, NEW m \in Runs, m = jobId'[d],
                      <<d, m>> \in cancelled', InFlight(d, m)'
               PROVE  state'[d] = "cancelling"
    BY DEF CancelInv
  <2>1. cancelled' = cancelled /\ jobId' = [jobId EXCEPT ![c] = @ + 1]
    BY <1>2 DEF Start
  <2>2. d # c
    <3>1. jobId[c] \in Nat /\ (d = c => m = jobId[c] + 1)
      BY <2>1, ConsoleAssumption DEF TypeOK
    <3>2. m <= jobId[d]
      BY <2>1 DEF Numbered
    <3>3. QED
      BY <3>1, <3>2
  <2>3. run'[d] = run[d] /\ state'[d] = state[d] /\ jobId'[d] = jobId[d]
    BY <1>2, <2>2 DEF Start, TypeOK
  <2>4. QED
    BY <2>1, <2>3 DEF CancelInv
<1>3. ASSUME NEW c \in Console, Cancel(c) PROVE CancelInv'
  BY <1>3 DEF CancelInv, Cancel, TypeOK
<1>4. ASSUME NEW c \in Console, NEW n \in Runs, Work(c, n) PROVE CancelInv'
  <2>1. /\ jobId' = jobId /\ cancelled' = cancelled
        /\ run[c][n].pc # "unused"
        /\ \A d \in Console, m \in Runs : ~ (d = c /\ m = n) => run'[d][m] = run[d][m]
    BY <1>4, WorkKeeps
  <2>2. CASE Done(c, n) \/ Refreshed(c, n)
    <3>1. n = jobId[c]
      BY <2>2 DEF Done, Refreshed, Superseded
    <3>2. run'[c][n] = Ended
      BY <2>2 DEF Done, Refreshed, Over, TypeOK
    <3>3. \A d \in Console : d # c => state'[d] = state[d]
      BY <2>2 DEF Done, Refreshed, ToIdle, TypeOK
    <3>4. QED
      BY <2>1, <3>1, <3>2, <3>3 DEF CancelInv, Ended
  <2>3. CASE ~ (Done(c, n) \/ Refreshed(c, n))
    <3>1. state' = state
      BY <1>4, <2>3 DEF Work, Connect, ConnectFails, Send, StatementOk,
                        StatementFails, Peek, DropStale
    <3>2. InFlight(c, n)
      BY <1>4, <2>3 DEF Work, Connect, ConnectFails, Send, StatementOk,
                        StatementFails, Peek, DropStale
    <3>3. QED
      BY <2>1, <3>1, <3>2 DEF CancelInv
  <2>4. QED
    BY <2>2, <2>3
<1>5. CASE UNCHANGED vars
  BY <1>5 DEF CancelInv, vars
<1>6. QED
  BY <1>1, <1>2, <1>3, <1>4, <1>5 DEF Next, Act

\* The results area only ever changes to the outcomes of the current run of
\* its console, and never to those of a run that was cancelled.
THEOREM NothingStale == Spec => NoStaleRows
<1> DEFINE Fresh == \A c \in Console : shown'[c] # shown[c] =>
                      shown'[c] = jobId[c] /\ <<c, shown'[c]>> \notin cancelled
<1>1. Init => TypeOK /\ Numbered /\ CancelInv
  BY ConsoleAssumption DEF Init, TypeOK, Numbered, Unused, CancelInv, InFlight
<1>2. TypeOK /\ Numbered /\ CancelInv /\ [Next]_vars
        => TypeOK' /\ Numbered' /\ CancelInv'
  BY TypeStep, NumberedStep, CancelStep
<1>3. TypeOK /\ CancelInv /\ [Next]_vars => [Fresh]_vars
  <2> SUFFICES ASSUME TypeOK, CancelInv, Next PROVE Fresh
    OBVIOUS
  <2> USE DEF console, server, history
  <2>1. ASSUME NEW c \in Console, Act(c) PROVE shown' = shown
    BY <2>1 DEF Act, Select, Start, Cancel
  <2>2. ASSUME NEW c \in Console, NEW n \in Runs, Work(c, n) PROVE Fresh
    <3>1. CASE Done(c, n)
      <4>1. n = jobId[c] /\ shown' = [shown EXCEPT ![c] = n]
        BY <3>1 DEF Done, Superseded
      <4>2. <<c, n>> \notin cancelled
        BY <3>1, <4>1 DEF Done, CancelInv, InFlight
      <4>3. QED
        BY <4>1, <4>2 DEF TypeOK
    <3>2. CASE ~ Done(c, n)
      <4>1. shown' = shown
        BY <2>2, <3>2 DEF Work, Connect, ConnectFails, Send, StatementOk,
                          StatementFails, Peek, DropStale, Refreshed
      <4>2. QED
        BY <4>1
    <3>3. QED
      BY <3>1, <3>2
  <2>3. QED
    BY <2>1, <2>2 DEF Next
<1>4. QED
  BY <1>1, <1>2, <1>3, PTL DEF Spec, NoStaleRows

-----------------------------------------------------------------------------
\* What BadgeIsTrue rests on: a console whose badge nothing overlapped is at
\* rest with the session its badge tells of, or has the only run in flight,
\* on the connection it still shows.
Lone(c) ==
  /\ jobId[c] \in Runs /\ InFlight(c, jobId[c])
  /\ \A d \in Console, m \in Runs : InFlight(d, m) => d = c /\ m = jobId[c]
  /\ run[c][jobId[c]].on = selected[c]
  /\ run[c][jobId[c]].pc = "done" => run[c][jobId[c]].open = tx[selected[c]]

BadgeInv ==
  \A c \in sound : Lone(c) \/ (Quiet /\ badge[c] = tx[selected[c]])

\* Where a step of a worker leaves its run, the badge and the session.
LEMMA WorkEnds ==
  ASSUME TypeOK, NEW c \in Console, NEW n \in Runs, Work(c, n), n = jobId[c],
         run[c][n].on = selected[c],
         run[c][n].pc = "done" => run[c][n].open = tx[selected[c]]
  PROVE  /\ UNCHANGED <<selected, sound>>
         /\ \/ /\ InFlight(c, n)' /\ run'[c][n].on = selected[c]
               /\ run'[c][n].pc = "done" => run'[c][n].open = tx'[selected[c]]
            \/ ~ InFlight(c, n)' /\ badge'[c] = tx'[selected[c]]
<1> USE DEF console, server, history
<1>1. CASE Connect(c, n) \/ ConnectFails(c, n) \/ Send(c, n) \/ StatementFails(c, n)
  <2>1. InFlight(c, n) /\ UNCHANGED <<selected, sound, tx>>
    BY <1>1 DEF Connect, ConnectFails, Send, StatementFails, InFlight
  <2>2. PICK place \in {"send", "failed", "exec", "peek"} : Goto(c, n, place)
    BY <1>1 DEF Connect, ConnectFails, Send, StatementFails
  <2>3. run[c][n] \in Thread
    BY <2>1, Working
  <2>4. run'[c][n] = [run[c][n] EXCEPT !.pc = place]
    BY <2>2 DEF Goto, TypeOK
  <2>5. run'[c][n].pc = place /\ run'[c][n].on = run[c][n].on
    BY <2>3, <2>4 DEF Thread
  <2>6. QED
    BY <2>1, <2>5 DEF InFlight
<1>2. CASE StatementOk(c, n)
  <2>1. run[c][n] \in Thread
    BY <1>2, Working DEF StatementOk, InFlight
  <2>2. PICK to \in {"peek", "send"} : run'[c][n] = [run[c][n] EXCEPT !.next = @ + 1, !.pc = to]
    BY <1>2 DEF StatementOk, TypeOK
  <2>3. run'[c][n].pc = to /\ run'[c][n].on = run[c][n].on
    BY <2>1, <2>2 DEF Thread
  <2>4. QED
    BY <1>2, <2>3 DEF StatementOk, InFlight
<1>3. CASE Peek(c, n)
  <2>1. run[c][n] \in Thread
    BY <1>3, Working DEF Peek, InFlight
  <2>2. run'[c][n] = [run[c][n] EXCEPT !.pc = "done", !.open = tx[run[c][n].on]]
    BY <1>3 DEF Peek, TypeOK
  <2>3. /\ run'[c][n].pc = "done" /\ run'[c][n].on = run[c][n].on
        /\ run'[c][n].open = tx[run[c][n].on]
    BY <2>1, <2>2 DEF Thread
  <2>4. QED
    BY <1>3, <2>3 DEF Peek, InFlight
<1>4. CASE Done(c, n) \/ Refreshed(c, n)
  <2>1. run'[c][n] = Ended
    BY <1>4 DEF Done, Refreshed, Over, TypeOK
  <2>2. badge' = [badge EXCEPT ![c] = tx[selected[c]]] /\ UNCHANGED <<selected, sound, tx>>
    BY <1>4 DEF Done, Refreshed
  <2>3. QED
    BY <2>1, <2>2 DEF InFlight, Ended, TypeOK
<1>5. CASE DropStale(c, n)
  BY <1>5 DEF DropStale, Superseded
<1>6. QED
  BY <1>1, <1>2, <1>3, <1>4, <1>5 DEF Work

LEMMA BadgeStep ==
  ASSUME TypeOK, Numbered, BadgeInv, [Next]_vars
  PROVE  BadgeInv'
<1> USE DEF console, server, history
<1>1. ASSUME NEW c \in Console, NEW k \in Connection, Select(c, k) PROVE BadgeInv'
  <2>1. /\ UNCHANGED <<run, jobId, tx>>
        /\ selected' = [selected EXCEPT ![c] = k] /\ badge' = [badge EXCEPT ![c] = tx[k]]
        /\ sound' = IF Quiet THEN sound \cup {c} ELSE sound \ {c}
    BY <1>1 DEF Select
  <2>2. CASE Quiet
    <3>1. Quiet'
      BY <2>1, <2>2 DEF Quiet, InFlight
    <3>2. \A d \in sound : badge[d] = tx[selected[d]]
      BY <2>2 DEF BadgeInv, Lone, Quiet, TypeOK
    <3>3. \A d \in sound' : badge'[d] = tx'[selected'[d]]
      BY <2>1, <2>2, <3>2 DEF TypeOK
    <3>4. QED
      BY <3>1, <3>3 DEF BadgeInv
  <2>3. CASE ~ Quiet
    <3>1. \A d \in sound' : d \in Console /\ d # c /\ Lone(d)
      BY <2>1, <2>3 DEF BadgeInv, TypeOK
    <3>2. \A d \in sound' : Lone(d)'
      BY <2>1, <3>1 DEF Lone, TypeOK, InFlight
    <3>3. QED
      BY <3>2 DEF BadgeInv
  <2>4. QED
    BY <2>2, <2>3
<1>2. ASSUME NEW c \in Console, NEW s \in Script, Start(c, s) PROVE BadgeInv'
  <2>1. CASE Quiet
    <3>0. PICK n : n = jobId[c] + 1
      OBVIOUS
    <3>1. sound' = {c} /\ UNCHANGED <<selected, tx>> /\ jobId' = [jobId EXCEPT ![c] = n]
      BY <1>2, <2>1, <3>0 DEF Start
    <3>2. n \in Runs
      BY <1>2, <3>0, StartType
    <3>3. PICK new : /\ new = [pc |-> "connect", on |-> selected[c], script |-> s,
                               next |-> 1, open |-> FALSE]
                     /\ run' = [run EXCEPT ![c][n] = new]
      BY <1>2, <3>0 DEF Start
    <3>4. jobId'[c] = n /\ run'[c][n] = new
      BY <3>1, <3>2, <3>3 DEF TypeOK
    <3>5. \A d \in Console, m \in Runs : ~ (d = c /\ m = n) => run'[d][m] = run[d][m]
      BY <3>2, <3>3 DEF TypeOK
    <3>6. Lone(c)'
      <4>1. new.pc = "connect" /\ new.on = selected[c]
        BY <3>3
      <4>2. \A d \in Console, m \in Runs : ~ (d = c /\ m = n) => ~ InFlight(d, m)'
        BY <2>1, <3>5 DEF Quiet, InFlight
      <4>3. InFlight(c, n)'
        BY <3>4, <4>1 DEF InFlight
      <4>4. QED
        BY <3>1, <3>2, <3>4, <4>1, <4>2, <4>3 DEF Lone
    <3>7. QED
      BY <3>1, <3>6 DEF BadgeInv
  <2>2. CASE ~ Quiet
    BY <1>2, <2>2 DEF BadgeInv, Start
  <2>3. QED
    BY <2>1, <2>2
<1>3. ASSUME NEW c \in Console, Cancel(c) PROVE BadgeInv'
  BY <1>3 DEF BadgeInv, Lone, Quiet, InFlight, Cancel
<1>4. ASSUME NEW c \in Console, NEW n \in Runs, Work(c, n) PROVE BadgeInv'
  <2>1. /\ jobId' = jobId /\ InFlight(c, n)
        /\ \A d \in Console, m \in Runs : ~ (d = c /\ m = n) => run'[d][m] = run[d][m]
    BY <1>4, WorkKeeps DEF Work, Connect, ConnectFails, Send, StatementOk,
                           StatementFails, Peek, DropStale, Done, Refreshed, InFlight
  <2>2. ~ Quiet /\ sound' = sound
    BY <1>4, <2>1 DEF Quiet, Work, Connect, ConnectFails, Send, StatementOk,
                      StatementFails, Peek, DropStale, Done, Refreshed
  <2>3. ASSUME NEW d \in sound
        PROVE  Lone(d)' \/ (Quiet' /\ badge'[d] = tx'[selected'[d]])
    <3>1. d = c /\ n = jobId[c] /\ Lone(c)
      BY <2>1, <2>2, <2>3 DEF BadgeInv, Lone, TypeOK
    <3>2. /\ UNCHANGED <<selected, sound>>
          /\ \/ /\ InFlight(c, n)' /\ run'[c][n].on = selected[c]
                /\ run'[c][n].pc = "done" => run'[c][n].open = tx'[selected[c]]
             \/ ~ InFlight(c, n)' /\ badge'[c] = tx'[selected[c]]
      BY <1>4, <3>1, WorkEnds DEF Lone
    <3>3. \A e \in Console, m \in Runs : ~ (e = c /\ m = n) => ~ InFlight(e, m)'
      BY <2>1, <3>1 DEF Lone, InFlight
    <3>4. QED
      BY <2>1, <3>1, <3>2, <3>3 DEF Lone, Quiet
  <2>4. QED
    BY <2>2, <2>3 DEF BadgeInv
<1>5. CASE UNCHANGED vars
  BY <1>5 DEF BadgeInv, Lone, Quiet, InFlight, vars
<1>6. QED
  BY <1>1, <1>2, <1>3, <1>4, <1>5 DEF Next, Act

\* A console that ran last, with nothing overlapping it, tells whether its
\* connection has a transaction open, however its run ended.
THEOREM BadgeTells == Spec => []BadgeIsTrue
<1>1. Init => TypeOK /\ Numbered /\ BadgeInv
  <2>1. Init => TypeOK /\ Numbered
    BY ConsoleAssumption DEF Init, TypeOK, Numbered, Unused
  <2>2. Init => Quiet
    BY DEF Init, Quiet, InFlight, Unused
  <2>3. ASSUME Init PROVE \A c \in Console : badge[c] = FALSE /\ tx[selected[c]] = FALSE
    BY <2>3 DEF Init
  <2>4. Init => BadgeInv
    BY <2>2, <2>3 DEF Init, BadgeInv
  <2>5. QED
    BY <2>1, <2>4
<1>2. TypeOK /\ Numbered /\ BadgeInv /\ [Next]_vars
        => TypeOK' /\ Numbered' /\ BadgeInv'
  BY TypeStep, NumberedStep, BadgeStep
<1>3. TypeOK /\ BadgeInv => BadgeIsTrue
  BY DEF BadgeInv, BadgeIsTrue, Lone, Quiet, TypeOK
<1>4. QED
  BY <1>1, <1>2, <1>3, PTL DEF Spec

-----------------------------------------------------------------------------
(* The batches.                                                            *)

\* What is assumed of the constants: a user who waits for a batch to end; no
\* replacing import on MySQL, whose TRUNCATE commits; and no COMMIT that
\* SQLite refuses, which leaves its transaction open.
Setting ==
  /\ B!BatchAssumption
  /\ Serial
  /\ \A e \in Engines : e = "mysql" => "replace" \notin Kinds[e]
  /\ "sqlite" \notin Refusing

\* A session: BEGIN is the first thing on its stack, and only a transaction
\* can be aborted.
Sane(d) ==
  /\ d \in B!Session
  /\ d.aborted => B!InTransaction(d)
  /\ B!InTransaction(d) => d.stack[1].name = "tx"

\* The last layer of d is a savepoint n over a transaction.
Above(d, n, rows) ==
  /\ Len(d.stack) > 1
  /\ d.stack[Len(d.stack)] = [name |-> n, before |-> rows]

Savepoints == B!Names \ {"tx"}

\* A sequence without its last element, or without one that is not its first.
LEMMA Shorter ==
  ASSUME NEW S, NEW s \in Seq(S), NEW i \in 2 .. Len(s)
  PROVE  /\ SubSeq(s, 1, i - 1) \in Seq(S)
         /\ SubSeq(s, i + 1, Len(s)) \in Seq(S)
         /\ Len(SubSeq(s, 1, i - 1)) = i - 1
         /\ SubSeq(s, 1, i - 1)[1] = s[1]
         /\ SubSeq(s, 1, i - 1) # <<>>
<1>1. PICK n \in Nat : n = Len(s)
  OBVIOUS
<1>2. PICK p : p = SubSeq(s, 1, i - 1)
  OBVIOUS
<1>3. p \in Seq(S) /\ Len(p) = i - 1 /\ p[1] = s[1] /\ i - 1 > 0
  BY <1>1, <1>2
<1>4. p # <<>>
  BY <1>3
<1>5. SubSeq(s, i + 1, Len(s)) \in Seq(S)
  BY <1>1
<1>6. QED
  BY <1>2, <1>3, <1>4, <1>5

LEMMA Longer ==
  ASSUME NEW S, NEW a \in Seq(S), NEW b \in Seq(S), Len(a) > 0
  PROVE  a \o b \in Seq(S) /\ a \o b # <<>> /\ (a \o b)[1] = a[1]
<1>1. Len(a \o b) = Len(a) + Len(b) /\ Len(b) \in Nat /\ Len(a) \in Nat
  OBVIOUS
<1>2. QED
  BY <1>1

LEMMA SavepointTaken ==
  ASSUME NEW d, Sane(d), B!InTransaction(d), ~ d.aborted, NEW n \in Savepoints
  PROVE  /\ B!SqlSavepoint(d, n).ok
         /\ Sane(B!SqlSavepoint(d, n).db)
         /\ B!SqlSavepoint(d, n).db.rows = d.rows
         /\ ~ B!SqlSavepoint(d, n).db.aborted
         /\ Above(B!SqlSavepoint(d, n).db, n, d.rows)
         /\ B!SqlSavepoint(d, n).db.stack[1] = d.stack[1]
<1>0. d.stack \in Seq(B!Layer) /\ d.stack # <<>> /\ d.rows \in SUBSET B!Row
  BY DEF Sane, B!Session, B!InTransaction
<1>a. PICK old : old = IF engine = "mysql" THEN B!Replaced(d, n) ELSE d.stack
  OBVIOUS
<1>1. old \in Seq(B!Layer) /\ old # <<>> /\ old[1] = d.stack[1]
  <2>1. CASE B!Depths(d, n) = {} \/ engine # "mysql"
    BY <1>0, <1>a, <2>1 DEF B!Replaced
  <2>2. CASE B!Depths(d, n) # {} /\ engine = "mysql"
    <3> DEFINE i == CHOOSE i \in B!Depths(d, n) : TRUE
    <3>1. i \in B!Depths(d, n)
      BY <2>2
    <3>2. \A k \in B!Depths(d, n) : k \in 2 .. Len(d.stack)
      <4>1. \A k \in B!Depths(d, n) : k \in 1 .. Len(d.stack) /\ d.stack[k].name = n
        BY <1>0 DEF B!Depths
      <4>2. d.stack[1].name # n
        BY DEF Sane, Savepoints
      <4>3. QED
        BY <1>0, <4>1, <4>2
    <3> HIDE DEF i
    <3>3. old = SubSeq(d.stack, 1, i - 1) \o SubSeq(d.stack, i + 1, Len(d.stack))
      BY <1>a, <2>2 DEF B!Replaced, i
    <3>4. /\ SubSeq(d.stack, 1, i - 1) \in Seq(B!Layer)
          /\ SubSeq(d.stack, i + 1, Len(d.stack)) \in Seq(B!Layer)
          /\ Len(SubSeq(d.stack, 1, i - 1)) = i - 1
          /\ SubSeq(d.stack, 1, i - 1)[1] = d.stack[1]
      BY <1>0, <3>1, <3>2, Shorter
    <3>5. i > 1 /\ i - 1 > 0
      BY <1>0, <3>1, <3>2
    <3>6. PICK a, b : a = SubSeq(d.stack, 1, i - 1) /\ b = SubSeq(d.stack, i + 1, Len(d.stack))
      OBVIOUS
    <3>7. a \in Seq(B!Layer) /\ b \in Seq(B!Layer) /\ Len(a) > 0 /\ a[1] = d.stack[1]
      BY <3>4, <3>5, <3>6
    <3>8. old = a \o b
      BY <3>3, <3>6
    <3>9. QED
      BY <3>7, <3>8, Longer
  <2>3. QED
    BY <2>1, <2>2
<1>b. PICK new : new = Append(old, [name |-> n, before |-> d.rows])
  OBVIOUS
<1>2. B!SqlSavepoint(d, n) = B!Ok([rows |-> d.rows, stack |-> new, aborted |-> FALSE])
  BY <1>0, <1>a, <1>b DEF B!SqlSavepoint, B!Unless, B!Ok, B!Push, Sane, B!Session
<1>3. [name |-> n, before |-> d.rows] \in B!Layer
  BY <1>0 DEF B!Layer, Savepoints
<1>4. /\ new \in Seq(B!Layer) /\ Len(new) = Len(old) + 1 /\ Len(old) > 0
      /\ new[1] = d.stack[1] /\ new[Len(new)] = [name |-> n, before |-> d.rows]
  BY <1>1, <1>3, <1>b
<1>5. QED
  BY <1>0, <1>2, <1>4 DEF B!Ok, Sane, B!Session, B!InTransaction, Above

LEMMA Deepest ==
  ASSUME NEW d, Sane(d), NEW n \in Savepoints, NEW rows, Above(d, n, rows)
  PROVE  B!Depths(d, n) # {} /\ B!Depth(d, n) = Len(d.stack)
<1>1. d.stack \in Seq(B!Layer)
  BY DEF Sane, B!Session
<1>2. /\ Len(d.stack) \in B!Depths(d, n)
      /\ \A i \in B!Depths(d, n) : i \in Nat /\ i <= Len(d.stack)
  BY <1>1 DEF B!Depths, Above
<1>3. \A i, j \in B!Depths(d, n) : i <= j /\ j <= i => i = j
  BY <1>2
<1>4. QED
  BY <1>2, <1>3 DEF B!Depth

LEMMA RolledBackTo ==
  ASSUME NEW d, Sane(d), NEW n \in Savepoints, NEW rows, Above(d, n, rows)
  PROVE  /\ B!SqlRollbackTo(d, n).ok
         /\ B!SqlRollbackTo(d, n).db = [rows |-> rows, stack |-> d.stack, aborted |-> FALSE]
<1>1. d.stack \in Seq(B!Layer)
  BY DEF Sane, B!Session
<1>2. SubSeq(d.stack, 1, Len(d.stack)) = d.stack
  BY <1>1
<1>3. d.stack[Len(d.stack)].before = rows
  BY DEF Above
<1>4. QED
  BY <1>2, <1>3, Deepest DEF B!SqlRollbackTo, B!Ok

LEMMA Released ==
  ASSUME NEW d, Sane(d), ~ d.aborted, NEW n \in Savepoints, NEW rows, Above(d, n, rows)
  PROVE  /\ B!SqlRelease(d, n).ok
         /\ Sane(B!SqlRelease(d, n).db)
         /\ B!SqlRelease(d, n).db.rows = d.rows
         /\ B!InTransaction(B!SqlRelease(d, n).db)
         /\ B!SqlRelease(d, n).db.stack[1] = d.stack[1]
<1> DEFINE rest == SubSeq(d.stack, 1, Len(d.stack) - 1)
<1>1. d.stack \in Seq(B!Layer) /\ d.rows \in SUBSET B!Row /\ Len(d.stack) > 1
  BY DEF Sane, B!Session, Above
<1>2. rest \in Seq(B!Layer) /\ rest # <<>> /\ rest[1] = d.stack[1]
  <2>1. Len(d.stack) \in 2 .. Len(d.stack)
    BY <1>1
  <2>2. /\ rest \in Seq(B!Layer) /\ Len(rest) = Len(d.stack) - 1
        /\ rest[1] = d.stack[1] /\ rest # <<>>
    BY <1>1, <2>1, Shorter
  <2>3. QED
    BY <1>1, <2>2
<1> HIDE DEF rest
<1>3. B!SqlRelease(d, n) = B!Ok([rows |-> d.rows, stack |-> rest, aborted |-> FALSE])
  BY Deepest DEF B!SqlRelease, B!Unless, B!Ok, Sane, B!Session, rest
<1>4. QED
  BY <1>1, <1>2, <1>3 DEF B!Ok, Sane, B!Session, B!InTransaction

-----------------------------------------------------------------------------
\* The session as a batch finds it, and as it leaves it: the rows it began
\* from, in the user's transaction or in none.
Untouched(t) == db.rows = snap[t] /\ (joined[t] <=> B!InTransaction(db))

\* What the batch will roll back to is on top of the stack: a savepoint in the
\* user's transaction, or a transaction of its own.
Layered(t, n) ==
  IF joined[t] THEN Above(db, n, snap[t])
  ELSE db.stack = <<[name |-> "tx", before |-> snap[t]]>>

\* The operations that ran are there, in an emptied table or in the one it
\* began from.
Written(t) ==
  db.rows = {t} \X (1 .. next[t] - 1) \cup
            (IF kind[t] = "replace" THEN {} ELSE snap[t])

\* Where a batch stands.
Where(t) ==
  /\ pc[t] = "idle" => next[t] = 1
  /\ B!Active(t) => (kind[t] = "replace" => engine # "mysql")
  /\ pc[t] = "open" => Untouched(t) /\ next[t] = 1
  /\ pc[t] \in {"before", "ops", "unwind"} => Layered(t, B!Savepoint(t))
  /\ pc[t] \in {"before", "ops", "probe", "probeopen", "proberow", "proberel"} => ~ db.aborted
  /\ pc[t] = "before" => kind[t] = "replace" /\ next[t] = 1
  /\ pc[t] = "ops" => Written(t)
  /\ pc[t] \in {"unwind", "probe", "probeopen", "proberow"} => next[t] <= Ops
  /\ pc[t] \in {"probe", "probeopen"} => Untouched(t)
  /\ pc[t] \in {"proberow", "probeback", "proberel"} => Layered(t, "sqlide_probe")
  /\ pc[t] = "proberel" => joined[t] /\ db.rows = snap[t]

Types ==
  /\ engine \in Engines
  /\ pc \in [Batcher -> B!BatchPC]
  /\ kind \in [Batcher -> {"save", "load", "replace"}]
  /\ joined \in [Batcher -> BOOLEAN]
  /\ next \in [Batcher -> 1 .. Ops + 1]
  /\ locate \in [Batcher -> BOOLEAN]
  /\ outcome \in [Batcher -> {"none", "ok", "error"}]
  /\ snap \in [Batcher -> SUBSET B!Row]

\* One batch runs at a time, and is over when it has an outcome.
BatchInv ==
  /\ Types
  /\ Sane(db)
  /\ \A s, t \in Batcher : B!Active(s) /\ B!Active(t) => s = t
  /\ \A t \in Batcher : outcome[t] = "none" <=> pc[t] # "done"
  /\ \A t \in Batcher : Where(t)

LEMMA BatchInit ==
  ASSUME Setting, B!Init
  PROVE  BatchInv
<1>1. Types
  BY DEF Setting, B!BatchAssumption, B!Init, Types, B!BatchPC, B!Row
<1>2. Sane(db)
  <2>1. PICK r \in SUBSET UserRow : db = [rows |-> r, stack |-> <<>>, aborted |-> FALSE]
    BY DEF B!Init
  <2>2. db.stack = <<>> /\ db.rows \in SUBSET B!Row /\ db.aborted = FALSE
    BY <2>1 DEF B!Row
  <2>3. QED
    BY <2>1, <2>2 DEF Sane, B!Session, B!InTransaction
<1>3. QED
  BY <1>1, <1>2 DEF B!Init, BatchInv, B!Active, Where

-----------------------------------------------------------------------------
(* What the promise sees of a state.                                       *)

LEMMA SeenFree ==
  B!Began = {} =>
    /\ B!SeenRows = db.rows
    /\ B!Restore = IF B!InTransaction(db) THEN {db.stack[1].before} ELSE {}
BY DEF B!SeenRows, B!Restore

LEMMA SeenInside ==
  \A t : B!Began = {t} =>
    /\ B!SeenRows = snap[t]
    /\ B!Restore = IF B!InTransaction(db) /\ joined[t] THEN {db.stack[1].before} ELSE {}
BY DEF B!SeenRows, B!Restore

LEMMA Begins ==
  ASSUME NEW t \in Batcher, B!Active(t), \A s \in Batcher : B!Active(s) => s = t
  PROVE  B!Began = {t}
BY DEF B!Began

\* What a step of the batch of t comes to: it goes on, in the session it began
\* in, or it ends, whole or not at all, in the transaction it found.
Moved(t) ==
  /\ UNCHANGED <<engine, kind, joined, snap>>
  /\ Types'
  /\ \A s \in Batcher \ {t} : pc'[s] = pc[s] /\ next'[s] = next[s] /\ outcome'[s] = outcome[s]
  /\ pc'[t] # "idle"
  /\ outcome'[t] = "none" <=> pc'[t] # "done"
  /\ Sane(db')
  /\ Where(t)'
  /\ joined[t] => B!InTransaction(db') /\ db'.stack[1] = db.stack[1]
  /\ pc'[t] = "done" =>
       /\ ~ joined[t] => ~ B!InTransaction(db')
       /\ outcome'[t] = "ok" => db'.rows \in {snap[t] \cup B!Batch(t), B!Batch(t)}
       /\ outcome'[t] = "error" => db'.rows = snap[t]

LEMMA Joined ==
  ASSUME BatchInv, NEW t \in Batcher, B!Active(t), joined[t]
  PROVE  B!InTransaction(db)
<1>1. pc[t] \in B!BatchPC \ {"idle", "done"} /\ Where(t)
  BY DEF BatchInv, Types, B!Active
<1>2. db.stack # <<>> \/ ~ (Len(db.stack) > 1)
  OBVIOUS
<1>3. QED
  BY <1>1, <1>2 DEF Where, Untouched, Layered, Above, B!InTransaction, B!BatchPC

LEMMA MovedKeeps ==
  ASSUME BatchInv, NEW t \in Batcher, B!Active(t), Moved(t)
  PROVE  BatchInv'
<1>1. \A s \in Batcher \ {t} : ~ B!Active(s) /\ ~ B!Active(s)'
  BY DEF BatchInv, Moved, B!Active
<1>2. \A s \in Batcher \ {t} : Where(s)'
  <2> SUFFICES ASSUME NEW s \in Batcher \ {t} PROVE Where(s)'
    OBVIOUS
  <2>1. pc'[s] \in {"idle", "done"} /\ pc'[s] = pc[s] /\ next'[s] = next[s] /\ Where(s)
    BY <1>1 DEF B!Active, Moved, BatchInv
  <2>2. QED
    BY <1>1, <2>1 DEF Where
<1>3. \A s \in Batcher : outcome'[s] = "none" <=> pc'[s] # "done"
  BY DEF Moved, BatchInv
<1>4. QED
  BY <1>1, <1>2, <1>3 DEF Moved, BatchInv

LEMMA MovedKept ==
  ASSUME BatchInv, NEW t \in Batcher, B!Active(t), Moved(t)
  PROVE  [B!Promise!Next]_(B!Promise!vars)
<1>1. B!SeenRows = snap[t] /\ B!Restore = IF joined[t] THEN {db.stack[1].before} ELSE {}
  BY Begins, SeenInside, Joined DEF BatchInv
<1>2. outcome[t] = "none" /\ outcome' \in [Batcher -> {"none", "ok", "error"}]
      /\ outcome \in [Batcher -> {"none", "ok", "error"}]
  BY DEF BatchInv, Types, B!Active, Moved
<1>3. CASE pc'[t] # "done"
  <2>1. B!Active(t)' /\ \A s \in Batcher : B!Active(s)' => s = t
    BY <1>3 DEF Moved, BatchInv, B!Active
  <2>2. B!Began' = {t}
    BY <2>1 DEF B!Began
  <2>3. B!SeenRows' = snap[t] /\ B!Restore' = B!Restore
    BY <1>1, <2>2 DEF Moved, B!SeenRows, B!Restore
  <2>4. outcome' = outcome
    BY <1>2, <1>3 DEF Moved
  <2>5. QED
    BY <1>1, <2>3, <2>4 DEF B!Promise!vars
<1>4. CASE pc'[t] = "done"
  <2>1. \A s \in Batcher : ~ B!Active(s)'
    BY <1>4 DEF Moved, BatchInv, B!Active
  <2>2. B!Began' = {}
    BY <2>1 DEF B!Began
  <2>3. B!SeenRows' = db'.rows /\ B!Restore' = B!Restore
    BY <1>1, <1>4, <2>2 DEF Moved, B!SeenRows, B!Restore
  <2>4. outcome' = [outcome EXCEPT ![t] = outcome'[t]]
    BY <1>2 DEF Moved
  <2>5. CASE outcome'[t] = "ok"
    <3>1. B!Promise!Land(t)
      BY <1>1, <1>2, <1>4, <2>3, <2>4, <2>5 DEF Moved, B!Promise!Land
    <3>2. QED
      BY <3>1 DEF B!Promise!Next
  <2>6. CASE outcome'[t] = "error"
    <3>1. B!Promise!Fail(t)
      BY <1>1, <1>2, <1>4, <2>3, <2>4, <2>6 DEF Moved, B!Promise!Fail
    <3>2. QED
      BY <3>1 DEF B!Promise!Next
  <2>7. QED
    BY <1>2, <1>4, <2>5, <2>6 DEF Moved
<1>5. QED
  BY <1>3, <1>4

-----------------------------------------------------------------------------
(* What the other statements do in a sane session.                         *)

LEMMA SaneIsRecord ==
  ASSUME NEW d, Sane(d)
  PROVE  /\ d = [rows |-> d.rows, stack |-> d.stack, aborted |-> d.aborted]
         /\ d.rows \in SUBSET B!Row /\ d.stack \in Seq(B!Layer) /\ d.aborted \in BOOLEAN
BY DEF Sane, B!Session

LEMMA Fields ==
  ASSUME NEW d \in B!Session, NEW x
  PROVE  /\ [d EXCEPT !.rows = x] = [rows |-> x, stack |-> d.stack, aborted |-> d.aborted]
         /\ [d EXCEPT !.stack = x] = [rows |-> d.rows, stack |-> x, aborted |-> d.aborted]
<1>1. PICK R, S : B!Session = [rows : R, stack : S, aborted : BOOLEAN]
  BY DEF B!Session
<1>2. QED
  BY <1>1

LEMMA BeginTaken ==
  ASSUME NEW d, Sane(d), ~ B!InTransaction(d)
  PROVE  /\ B!SqlBegin(d).ok
         /\ B!SqlBegin(d).db = [rows |-> d.rows, aborted |-> FALSE,
                              stack |-> <<[name |-> "tx", before |-> d.rows]>>]
         /\ Sane(B!SqlBegin(d).db)
<1>1. d.stack = <<>> /\ d.aborted = FALSE /\ d.rows \in SUBSET B!Row
  BY SaneIsRecord DEF B!InTransaction, Sane
<1>2. B!SqlBegin(d) = B!Ok(B!Push(d, "tx"))
  BY <1>1 DEF B!SqlBegin, B!Unless
<1>3. B!Push(d, "tx") = [rows |-> d.rows, aborted |-> FALSE,
                       stack |-> <<[name |-> "tx", before |-> d.rows]>>]
  <2>1. Append(d.stack, [name |-> "tx", before |-> d.rows]) = <<[name |-> "tx", before |-> d.rows]>>
    BY <1>1
  <2>2. QED
    BY <1>1, <2>1, Fields DEF B!Push, Sane
<1>4. [name |-> "tx", before |-> d.rows] \in B!Layer
  BY <1>1 DEF B!Layer, B!Names
<1>5. PICK s : s = <<[name |-> "tx", before |-> d.rows]>>
  OBVIOUS
<1>6. s \in Seq(B!Layer) /\ s[1] = [name |-> "tx", before |-> d.rows]
  BY <1>4, <1>5
<1>7. Sane([rows |-> d.rows, aborted |-> FALSE, stack |-> s])
  BY <1>1, <1>6 DEF Sane, B!Session
<1>8. PICK e : e = [rows |-> d.rows, aborted |-> FALSE, stack |-> s]
  OBVIOUS
<1>9. B!Push(d, "tx") = e
  BY <1>3, <1>5, <1>8
<1>10. B!SqlBegin(d).ok /\ B!SqlBegin(d).db = e
  BY <1>2, <1>9 DEF B!Ok
<1>11. QED
  BY <1>5, <1>7, <1>8, <1>10

LEMMA ErrorMade ==
  ASSUME NEW d, Sane(d)
  PROVE  /\ ~ B!Err(d).ok
         /\ Sane(B!Err(d).db)
         /\ B!Err(d).db.rows = d.rows
         /\ B!Err(d).db.stack = d.stack
         /\ B!InTransaction(B!Err(d).db) <=> B!InTransaction(d)
<1>1. d = [rows |-> d.rows, stack |-> d.stack, aborted |-> d.aborted]
  BY SaneIsRecord
<1>2. CASE engine = "postgres" /\ B!InTransaction(d)
  <2>1. B!Err(d) = [ok |-> FALSE,
                  db |-> [rows |-> d.rows, stack |-> d.stack, aborted |-> TRUE]]
    BY <1>1, <1>2 DEF B!Err
  <2>2. QED
    BY <1>2, <2>1, SaneIsRecord DEF Sane, B!Session, B!InTransaction
<1>3. CASE ~ (engine = "postgres" /\ B!InTransaction(d))
  <2>1. B!Err(d) = [ok |-> FALSE, db |-> d]
    BY <1>3 DEF B!Err
  <2>2. QED
    BY <2>1
<1>4. QED
  BY <1>2, <1>3

LEMMA WriteMade ==
  ASSUME NEW d, Sane(d), ~ d.aborted, NEW S \in SUBSET B!Row
  PROVE  /\ B!SqlWrite(d, S) = B!Ok([rows |-> d.rows \cup S, stack |-> d.stack, aborted |-> FALSE])
         /\ Sane(B!SqlWrite(d, S).db)
<1>1. d.aborted = FALSE /\ d.rows \cup S \in SUBSET B!Row
  BY SaneIsRecord
<1>2. [d EXCEPT !.rows = @ \cup S] = [rows |-> d.rows \cup S, stack |-> d.stack, aborted |-> FALSE]
  BY <1>1, Fields DEF Sane
<1>3. B!SqlWrite(d, S) = B!Ok([rows |-> d.rows \cup S, stack |-> d.stack, aborted |-> FALSE])
  BY <1>2 DEF B!SqlWrite, B!Unless
<1>4. QED
  BY <1>1, <1>3 DEF B!Ok, Sane, B!Session, B!InTransaction

LEMMA RolledBack ==
  ASSUME NEW d, Sane(d), NEW rows, d.stack = <<[name |-> "tx", before |-> rows]>>
  PROVE  /\ B!SqlRollback(d) = B!Ok(B!Closed(rows))
         /\ Sane(B!Closed(rows))
         /\ B!InTransaction(d)
<1>1. d.stack[1] = [name |-> "tx", before |-> rows] /\ d.stack # <<>>
      /\ d.stack[1] \in B!Layer
  <2>1. d.stack \in Seq(B!Layer) /\ Len(d.stack) = 1
    BY SaneIsRecord
  <2>2. QED
    BY <2>1
<1>2. rows \in SUBSET B!Row
  BY <1>1 DEF B!Layer
<1>3. B!SqlRollback(d) = B!Ok(B!Closed(rows))
  BY <1>1 DEF B!SqlRollback, B!InTransaction
<1>4. QED
  BY <1>1, <1>2, <1>3 DEF B!Closed, Sane, B!Session, B!InTransaction

LEMMA StackKept ==
  ASSUME NEW t, NEW n, Layered(t, n), db'.stack = db.stack,
         joined' = joined, snap' = snap
  PROVE  Layered(t, n)'
BY DEF Layered, Above

LEMMA LayeredOpen ==
  ASSUME NEW t, NEW n, Layered(t, n)
  PROVE  B!InTransaction(db)
<1>1. db.stack # <<>> \/ ~ (Len(db.stack) > 1)
  OBVIOUS
<1>2. CASE joined[t]
  BY <1>1, <1>2 DEF Layered, Above, B!InTransaction
<1>3. CASE ~ joined[t]
  <2>1. db.stack = <<[name |-> "tx", before |-> snap[t]]>>
    BY <1>3 DEF Layered
  <2>2. PICK s : s = <<[name |-> "tx", before |-> snap[t]]>>
    OBVIOUS
  <2>3. s # <<>>
    BY <2>2
  <2> QED
    BY <2>1, <2>2, <2>3 DEF B!InTransaction
<1>4. QED
  BY <1>2, <1>3

-----------------------------------------------------------------------------
(* The steps of a batch.                                                   *)

\* The transaction of the user, or none, is as the batch found it.
Back(t) ==
  /\ joined[t] => B!InTransaction(db') /\ db'.stack[1] = db.stack[1]
  /\ ~ joined[t] => ~ B!InTransaction(db')

LEMMA Ends ==
  ASSUME BatchInv, NEW t \in Batcher, B!Active(t), NEW result \in {"ok", "error"},
         B!End(t, result), UNCHANGED <<engine, kind, joined, next, locate, snap>>,
         Sane(db'), Back(t),
         IF result = "ok" THEN db'.rows \in {snap[t] \cup B!Batch(t), B!Batch(t)}
                          ELSE db'.rows = snap[t]
  PROVE  Moved(t)
<1>1. /\ pc' = [pc EXCEPT ![t] = "done"] /\ outcome' = [outcome EXCEPT ![t] = result]
      /\ Types
  BY DEF B!End, B!Goto, BatchInv
<1>2. pc'[t] = "done" /\ outcome'[t] = result /\ Types'
  BY <1>1 DEF Types, B!BatchPC
<1>3. Where(t)'
  BY <1>2 DEF Where, B!Active
<1>4. QED
  BY <1>1, <1>2, <1>3 DEF Moved, Types, Back

LEMMA GoesOn ==
  ASSUME Setting, BatchInv, NEW t \in Batcher, NEW p \in B!BatchPC \ {"idle", "done"}, B!Active(t),
         B!Goto(t, p), UNCHANGED <<engine, kind, joined, outcome, snap>>,
         \/ next' = next
         \/ next[t] <= Ops /\ next' = [next EXCEPT ![t] = @ + 1],
         locate' \in [Batcher -> BOOLEAN],
         Sane(db'), joined[t] => B!InTransaction(db') /\ db'.stack[1] = db.stack[1],
         Where(t)'
  PROVE  Moved(t)
<1>1. pc' = [pc EXCEPT ![t] = p] /\ Types /\ outcome[t] = "none"
  BY DEF B!Goto, BatchInv, B!Active
<1>2. pc'[t] = p /\ pc' \in [Batcher -> B!BatchPC]
  BY <1>1 DEF Types
<1>3. /\ next' \in [Batcher -> 1 .. Ops + 1]
      /\ \A s \in Batcher \ {t} : next'[s] = next[s]
  BY <1>1 DEF Types, Setting, B!BatchAssumption
<1>4. QED
  BY <1>1, <1>2, <1>3 DEF Moved, Types

\* A batch that begins puts what it would restore on top of the stack.
LEMMA OpensLayer ==
  ASSUME NEW t \in Batcher, Untouched(t), Sane(db), ~ db.aborted, NEW n \in Savepoints,
         NEW r, r = IF joined[t] THEN B!SqlSavepoint(db, n) ELSE B!SqlBegin(db),
         db' = r.db, UNCHANGED <<joined, snap>>
  PROVE  /\ r.ok /\ Sane(db') /\ db'.rows = db.rows /\ ~ db'.aborted
         /\ Layered(t, n)'
         /\ joined[t] => B!InTransaction(db') /\ db'.stack[1] = db.stack[1]
<1>1. CASE joined[t]
  <2>1. r = B!SqlSavepoint(db, n) /\ B!InTransaction(db) /\ db.rows = snap[t]
    BY <1>1 DEF Untouched
  <2>2. /\ r.ok /\ Sane(r.db) /\ r.db.rows = db.rows /\ ~ r.db.aborted
        /\ Above(r.db, n, db.rows) /\ r.db.stack[1] = db.stack[1]
    BY <2>1, SavepointTaken
  <2>3. B!InTransaction(r.db)
    BY <2>2, Len(<<>>) = 0 DEF Above, B!InTransaction
  <2>4. Layered(t, n)'
    BY <1>1, <2>1, <2>2 DEF Layered
  <2>5. QED
    BY <2>2, <2>3, <2>4
<1>2. CASE ~ joined[t]
  <2>1. r = B!SqlBegin(db) /\ ~ B!InTransaction(db) /\ db.rows = snap[t]
    BY <1>2 DEF Untouched
  <2>2. /\ r.ok /\ Sane(r.db)
        /\ r.db = [rows |-> db.rows, aborted |-> FALSE,
                   stack |-> <<[name |-> "tx", before |-> db.rows]>>]
    BY <2>1, BeginTaken
  <2>3. PICK s : s = <<[name |-> "tx", before |-> db.rows]>>
    OBVIOUS
  <2>4. db'.rows = db.rows /\ db'.aborted = FALSE /\ db'.stack = s
    BY <2>2, <2>3
  <2>5. Layered(t, n)'
    BY <1>2, <2>1, <2>3, <2>4 DEF Layered
  <2>6. QED
    BY <1>2, <2>2, <2>4, <2>5
<1>3. QED
  BY <1>1, <1>2

LEMMA OpenMoves ==
  ASSUME Setting, BatchInv, NEW t \in Batcher, B!OpenBatch(t), engine' = engine
  PROVE  Moved(t)
<1>0. B!Active(t)
  BY DEF B!OpenBatch, B!Active
<1>1. /\ pc[t] = "open" /\ Untouched(t) /\ next[t] = 1 /\ Sane(db)
      /\ kind[t] = "replace" => engine # "mysql"
      /\ UNCHANGED <<kind, joined, next, locate, snap>>
  BY DEF B!OpenBatch, BatchInv, Where, B!Active
<1>2. B!Savepoint(t) \in Savepoints
  BY DEF B!Savepoint, Savepoints, B!Names
<1>3. PICK r : /\ r = IF joined[t] THEN B!SqlSavepoint(db, B!Savepoint(t)) ELSE B!SqlBegin(db)
               /\ db' = r.db
               /\ \/ /\ r.ok
                     /\ B!Goto(t, IF kind[t] = "replace" THEN "before" ELSE "ops")
                     /\ UNCHANGED outcome
                  \/ ~ r.ok /\ B!End(t, "error")
  BY DEF B!OpenBatch
<1>4. CASE joined[t] /\ db.aborted
  <2>1. r = B!Err(db)
    BY <1>3, <1>4 DEF B!SqlSavepoint, B!Unless
  <2>2. ~ r.ok /\ Sane(db') /\ db'.rows = db.rows /\ db'.stack = db.stack
    BY <1>1, <1>3, <2>1, ErrorMade
  <2>3. QED
    BY <1>0, <1>1, <1>3, <1>4, <2>2, Ends DEF Untouched, Back, B!InTransaction
<1>5. CASE ~ (joined[t] /\ db.aborted)
  <2>0. ~ db.aborted
    BY <1>1, <1>5 DEF Untouched, Sane
  <2>1. /\ r.ok /\ Sane(db') /\ db'.rows = db.rows /\ ~ db'.aborted
        /\ Layered(t, B!Savepoint(t))'
        /\ joined[t] => B!InTransaction(db') /\ db'.stack[1] = db.stack[1]
    <3>1. PICK n : n = B!Savepoint(t)
      OBVIOUS
    <3>2. B!Savepoint(t)' = n
      BY <1>1, <3>1 DEF B!Savepoint
    <3>3. Layered(t, n)' => Layered(t, B!Savepoint(t))'
      BY <3>2 DEF Layered
    <3>4. QED
      BY <1>1, <1>2, <1>3, <2>0, <3>1, <3>3, OpensLayer
  <2>2. B!Goto(t, IF kind[t] = "replace" THEN "before" ELSE "ops") /\ outcome' = outcome
    BY <1>3, <2>1
  <2>3. CASE kind[t] = "replace"
    <3>1. pc'[t] = "before"
      BY <2>2, <2>3 DEF B!Goto, BatchInv, Types
    <3>2. Where(t)'
      BY <1>1, <2>1, <2>3, <3>1 DEF Where, B!Active, B!Savepoint, Untouched
    <3>3. QED
      BY <1>0, <1>1, <2>1, <2>2, <2>3, <3>2, GoesOn DEF B!BatchPC, BatchInv, Types
  <2>4. CASE kind[t] # "replace"
    <3>1. pc'[t] = "ops"
      BY <2>2, <2>4 DEF B!Goto, BatchInv, Types
    <3>2. Written(t)'
      BY <1>1, <2>1, <2>4 DEF Written, Untouched
    <3>3. Where(t)'
      BY <1>1, <2>1, <2>4, <3>1, <3>2 DEF Where, B!Active, B!Savepoint
    <3>4. QED
      BY <1>0, <1>1, <2>1, <2>2, <2>4, <3>3, GoesOn DEF B!BatchPC, BatchInv, Types
  <2>5. QED
    BY <2>3, <2>4
<1>6. QED
  BY <1>4, <1>5

\* The batch undoes what it did so far: the last layer is restored.
LEMMA UndoMoves ==
  ASSUME BatchInv, NEW t \in Batcher, B!Active(t), NEW n \in Savepoints, Layered(t, n),
         NEW r, r = IF joined[t] THEN B!SqlRollbackTo(db, n) ELSE B!SqlRollback(db),
         db' = r.db, UNCHANGED <<joined, snap>>
  PROVE  /\ r.ok /\ Sane(db') /\ ~ db'.aborted /\ db'.rows = snap[t] /\ Back(t)
         /\ joined[t] => Layered(t, n)'
<1>1. Sane(db) /\ snap[t] \in SUBSET B!Row
  BY DEF BatchInv, Types
<1>2. CASE joined[t]
  <2>1. Above(db, n, snap[t])
    BY <1>2 DEF Layered
  <2>2. r.ok /\ db' = [rows |-> snap[t], stack |-> db.stack, aborted |-> FALSE]
    BY <1>1, <1>2, <2>1, RolledBackTo
  <2>3. db'.rows = snap[t] /\ db'.stack = db.stack /\ db'.aborted = FALSE
    BY <2>2
  <2>4. Sane(db')
    BY <1>1, <2>2, <2>3 DEF Sane, B!Session, B!InTransaction
  <2>5. B!InTransaction(db) /\ Layered(t, n)'
    BY <2>3, LayeredOpen, StackKept
  <2>6. QED
    BY <1>2, <2>2, <2>3, <2>4, <2>5 DEF Back, B!InTransaction
<1>3. CASE ~ joined[t]
  <2>1. db.stack = <<[name |-> "tx", before |-> snap[t]]>>
    BY <1>3 DEF Layered
  <2>2. r = B!Ok(B!Closed(snap[t])) /\ Sane(B!Closed(snap[t]))
    BY <1>1, <1>3, <2>1, RolledBack
  <2>3. r.ok /\ db' = B!Closed(snap[t])
    BY <2>2 DEF B!Ok
  <2>4. db'.rows = snap[t] /\ db'.stack = <<>> /\ db'.aborted = FALSE
    BY <2>3 DEF B!Closed
  <2>5. QED
    BY <1>3, <2>2, <2>3, <2>4 DEF Back, B!InTransaction
<1>4. QED
  BY <1>2, <1>3

LEMMA UnwindMoves ==
  ASSUME Setting, BatchInv, NEW t \in Batcher, B!Unwind(t), engine' = engine
  PROVE  Moved(t)
<1>1. /\ B!Active(t) /\ pc[t] = "unwind" /\ Layered(t, B!Savepoint(t)) /\ next[t] <= Ops
      /\ B!Active(t) => (kind[t] = "replace" => engine # "mysql")
      /\ UNCHANGED <<kind, joined, next, locate, snap>>
  BY DEF B!Unwind, BatchInv, Where, B!Active
<1>2. B!Savepoint(t) \in Savepoints
  BY DEF B!Savepoint, Savepoints, B!Names
<1>3. PICK r : /\ r = IF joined[t] THEN B!SqlRollbackTo(db, B!Savepoint(t)) ELSE B!SqlRollback(db)
               /\ db' = r.db
  BY DEF B!Unwind
<1>4. Sane(db') /\ ~ db'.aborted /\ db'.rows = snap[t] /\ Back(t)
  BY <1>1, <1>2, <1>3, UndoMoves
<1>5. CASE locate[t]
  <2>1. B!Goto(t, "probe") /\ outcome' = outcome
    BY <1>5 DEF B!Unwind
  <2>2. pc'[t] = "probe"
    BY <2>1 DEF B!Goto, BatchInv, Types
  <2>3. Untouched(t)'
    BY <1>1, <1>4 DEF Untouched, Back
  <2>4. Where(t)'
    BY <1>1, <1>4, <2>2, <2>3 DEF Where
  <2>5. QED
    BY <1>1, <1>4, <2>1, <2>4, GoesOn DEF Back, B!BatchPC, BatchInv, Types
<1>6. CASE ~ locate[t]
  BY <1>1, <1>4, <1>6, Ends DEF B!Unwind
<1>7. QED
  BY <1>5, <1>6

\* Rows of the batch are written, and the statement may raise after that.
LEMMA Rewritten ==
  ASSUME Sane(db), ~ db.aborted, NEW S \in SUBSET B!Row,
         db' \in {B!SqlWrite(db, S).db, B!Err(B!SqlWrite(db, S).db).db}
  PROVE  Sane(db') /\ db'.stack = db.stack
<1>1. PICK w : w = B!SqlWrite(db, S).db
  OBVIOUS
<1>2. Sane(w) /\ w.stack = db.stack
  BY <1>1, WriteMade DEF B!Ok
<1>3. Sane(B!Err(w).db) /\ B!Err(w).db.stack = w.stack
  BY <1>2, ErrorMade
<1>4. db' = w \/ db' = B!Err(w).db
  BY <1>1
<1>5. QED
  BY <1>2, <1>3, <1>4

\* A step that leaves the stack alone leaves what the batch would restore.
LEMMA StillLayered ==
  ASSUME NEW t, NEW n, Layered(t, n), db'.stack = db.stack,
         UNCHANGED <<joined, snap>>
  PROVE  /\ Layered(t, n)'
         /\ joined[t] => B!InTransaction(db') /\ db'.stack[1] = db.stack[1]
<1>1. Layered(t, n)'
  BY StackKept
<1>2. B!InTransaction(db)
  BY LayeredOpen
<1>3. QED
  BY <1>1, <1>2 DEF B!InTransaction

\* The steps of an operation start alike.
LEMMA AtOps ==
  ASSUME BatchInv, NEW t \in Batcher, pc[t] \in {"before", "ops"}
  PROVE  /\ B!Active(t) /\ Sane(db) /\ ~ db.aborted
         /\ Layered(t, B!Savepoint(t)) /\ B!Savepoint(t) \in Savepoints
         /\ pc[t] = "ops" => Written(t)
         /\ next[t] \in 1 .. Ops + 1
         /\ kind' = kind => B!Savepoint(t)' = B!Savepoint(t)
<1>1. Where(t) /\ Sane(db) /\ next[t] \in 1 .. Ops + 1
  BY DEF BatchInv, Types
<1>2. QED
  BY <1>1 DEF Where, B!Active, B!Savepoint, Savepoints, B!Names

\* A batch about to be undone.
LEMMA Undone ==
  ASSUME Setting, BatchInv, NEW t \in Batcher, pc[t] \in {"before", "ops"},
         B!Goto(t, "unwind"), UNCHANGED <<engine, kind, joined, next, outcome, snap>>,
         locate' \in [Batcher -> BOOLEAN], Sane(db'), db'.stack = db.stack,
         next[t] <= Ops
  PROVE  Moved(t)
<1>1. pc'[t] = "unwind"
  BY DEF B!Goto, BatchInv, Types
<1>2. PICK n : n = B!Savepoint(t) /\ n = B!Savepoint(t)'
  BY AtOps
<1>3. Layered(t, n)' /\ (joined[t] => B!InTransaction(db') /\ db'.stack[1] = db.stack[1])
  BY <1>2, AtOps, StillLayered
<1>4. Layered(t, B!Savepoint(t))'
  BY <1>2, <1>3 DEF Layered
<1>5. kind[t] = "replace" => engine # "mysql"
  BY AtOps DEF BatchInv, Where
<1>6. Where(t)'
  BY <1>1, <1>4, <1>5 DEF Where
<1>7. QED
  BY <1>3, <1>6, AtOps, GoesOn DEF B!BatchPC

LEMMA FailedMoves ==
  ASSUME Setting, BatchInv, NEW t \in Batcher, engine' = engine,
         B!RunOpRaises(t) \/ B!RowcountMismatch(t) \/ B!Cancel(t)
  PROVE  Moved(t)
<1>1. /\ pc[t] = "ops" /\ B!Goto(t, "unwind") /\ next[t] <= Ops
      /\ UNCHANGED <<kind, joined, next, outcome, snap>>
  BY DEF B!RunOpRaises, B!RowcountMismatch, B!Cancel
<1>2. locate' \in [Batcher -> BOOLEAN]
  BY DEF B!RunOpRaises, B!RowcountMismatch, B!Cancel, BatchInv, Types
<1>3. SUBSET {<<t, next[t]>>} \subseteq SUBSET B!Row
  BY <1>1, AtOps DEF B!Row, B!Batch
<1>4. Sane(db') /\ db'.stack = db.stack
  <2>1. CASE B!Cancel(t)
    BY <2>1 DEF B!Cancel, BatchInv
  <2>2. CASE B!RunOpRaises(t) \/ B!RowcountMismatch(t)
    <3>1. PICK S \in SUBSET {<<t, next[t]>>} :
            db' \in {B!SqlWrite(db, S).db, B!Err(B!SqlWrite(db, S).db).db}
      BY <2>2 DEF B!RunOpRaises, B!RowcountMismatch
    <3>2. QED
      BY <1>1, <1>3, <3>1, AtOps, Rewritten
  <2>3. QED
    BY <2>1, <2>2
<1>5. QED
  BY <1>1, <1>2, <1>4, Undone

\* A batch whose operations go on.
LEMMA OpsGoOn ==
  ASSUME Setting, BatchInv, NEW t \in Batcher, pc[t] \in {"before", "ops"},
         pc' = [pc EXCEPT ![t] = "ops"],
         UNCHANGED <<engine, kind, joined, locate, outcome, snap>>,
         \/ next' = next
         \/ next[t] <= Ops /\ next' = [next EXCEPT ![t] = @ + 1],
         Sane(db'), db'.stack = db.stack, ~ db'.aborted, Written(t)'
  PROVE  Moved(t)
<1>1. pc'[t] = "ops"
  BY DEF BatchInv, Types
<1>2. PICK n : n = B!Savepoint(t) /\ n = B!Savepoint(t)'
  BY AtOps
<1>3. Layered(t, n)' /\ (joined[t] => B!InTransaction(db') /\ db'.stack[1] = db.stack[1])
  BY <1>2, AtOps, StillLayered
<1>4. Layered(t, B!Savepoint(t))'
  BY <1>2, <1>3 DEF Layered
<1>5. kind[t] = "replace" => engine # "mysql"
  BY AtOps DEF BatchInv, Where
<1>6. Where(t)'
  BY <1>1, <1>4, <1>5 DEF Where
<1>7. locate' \in [Batcher -> BOOLEAN]
  BY DEF BatchInv, Types
<1>8. QED
  BY <1>3, <1>6, <1>7, AtOps, GoesOn DEF B!BatchPC, B!Goto

LEMMA EmptyMoves ==
  ASSUME Setting, BatchInv, NEW t \in Batcher, B!EmptyTable(t), engine' = engine
  PROVE  Moved(t)
<1>1. /\ pc[t] = "before" /\ kind[t] = "replace" /\ next[t] = 1 /\ engine # "mysql"
      /\ UNCHANGED <<kind, joined, next, locate, outcome, snap>>
  BY DEF B!EmptyTable, BatchInv, Where, B!Active
<1>2. Sane(db) /\ ~ db.aborted
  BY <1>1, AtOps
<1>3. B!SqlEmpty(db) = B!Ok([rows |-> {}, stack |-> db.stack, aborted |-> FALSE])
  <2>1. db.aborted = FALSE
    BY <1>2, SaneIsRecord
  <2>2. [db EXCEPT !.rows = {}] = [rows |-> {}, stack |-> db.stack, aborted |-> FALSE]
    BY <1>2, <2>1, Fields DEF Sane
  <2>3. QED
    BY <1>1, <2>1, <2>2 DEF B!SqlEmpty, B!Unless
<1>4. PICK e : e = [rows |-> {}, stack |-> db.stack, aborted |-> FALSE]
  OBVIOUS
<1>5. B!SqlEmpty(db).ok /\ B!SqlEmpty(db).db = e
  BY <1>3, <1>4 DEF B!Ok
<1>6. db' = e /\ B!Goto(t, "ops")
  BY <1>5 DEF B!EmptyTable
<1>7. db'.rows = {} /\ db'.stack = db.stack /\ db'.aborted = FALSE
  BY <1>4, <1>6
<1>8. Sane(db')
  BY <1>2, <1>4, <1>6, <1>7 DEF Sane, B!Session, B!InTransaction
<1>9. Written(t)'
  <2>1. 1 .. next[t] - 1 = {}
    BY <1>1
  <2>2. QED
    BY <1>1, <1>7, <2>1 DEF Written
<1>10. QED
  BY <1>1, <1>6, <1>7, <1>8, <1>9, OpsGoOn DEF B!Goto

LEMMA RunMoves ==
  ASSUME Setting, BatchInv, NEW t \in Batcher, B!RunOp(t), engine' = engine
  PROVE  Moved(t)
<1>1. /\ pc[t] = "ops" /\ next[t] <= Ops
      /\ UNCHANGED <<kind, joined, outcome, snap>>
  BY DEF B!RunOp
<1>2. Sane(db) /\ ~ db.aborted /\ Written(t) /\ next[t] \in 1 .. Ops + 1
  BY <1>1, AtOps
<1>3. {<<t, next[t]>>} \in SUBSET B!Row
  BY <1>1, <1>2 DEF B!Row, B!Batch
<1>4. PICK e : e = [rows |-> db.rows \cup {<<t, next[t]>>}, stack |-> db.stack, aborted |-> FALSE]
  OBVIOUS
<1>5. /\ B!SqlWrite(db, {<<t, next[t]>>}).ok /\ B!SqlWrite(db, {<<t, next[t]>>}).db = e
      /\ Sane(e)
  <2>1. B!SqlWrite(db, {<<t, next[t]>>}) = B!Ok(e) /\ Sane(B!SqlWrite(db, {<<t, next[t]>>}).db)
    BY <1>2, <1>3, <1>4, WriteMade
  <2>2. QED
    BY <2>1 DEF B!Ok
<1>6. db' = e /\ next' = [next EXCEPT ![t] = @ + 1] /\ UNCHANGED <<pc, locate>>
  BY <1>5 DEF B!RunOp
<1>7. /\ db'.rows = db.rows \cup {<<t, next[t]>>} /\ db'.stack = db.stack
      /\ db'.aborted = FALSE
  BY <1>4, <1>6
<1>8. Written(t)'
  <2>1. next'[t] = next[t] + 1
    BY <1>6 DEF BatchInv, Types
  <2>2. PICK k \in Nat : k = next[t] /\ k >= 1
    BY <1>2 DEF Setting, B!BatchAssumption
  <2>3. {t} \X (1 .. (k + 1) - 1) = {t} \X (1 .. k - 1) \cup {<<t, k>>}
    <3>1. 1 .. (k + 1) - 1 = (1 .. k - 1) \cup {k}
      BY <2>2
    <3>2. QED
      BY <3>1
  <2>4. QED
    BY <1>1, <1>2, <1>7, <2>1, <2>2, <2>3 DEF Written
<1>9. pc' = [pc EXCEPT ![t] = "ops"]
  BY <1>1, <1>6 DEF BatchInv, Types
<1>10. QED
  BY <1>1, <1>5, <1>6, <1>7, <1>8, <1>9, OpsGoOn

LEMMA FinishMoves ==
  ASSUME Setting, BatchInv, NEW t \in Batcher, B!Finish(t), engine' = engine
  PROVE  Moved(t)
<1>1. /\ pc[t] = "ops" /\ next[t] > Ops /\ B!Active(t)
      /\ UNCHANGED <<kind, joined, next, locate, snap>>
  BY DEF B!Finish, B!Active
<1>2. /\ Sane(db) /\ ~ db.aborted /\ Written(t) /\ next[t] \in 1 .. Ops + 1
      /\ Layered(t, B!Savepoint(t)) /\ B!Savepoint(t) \in Savepoints
  BY <1>1, AtOps
<1>3. db.rows \in {snap[t] \cup B!Batch(t), B!Batch(t)}
  <2>1. next[t] - 1 = Ops
    BY <1>1, <1>2 DEF Setting, B!BatchAssumption
  <2>2. QED
    BY <1>2, <2>1 DEF Written, B!Batch
<1>4. PICK r : /\ r = IF joined[t] THEN B!SqlRelease(db, B!Savepoint(t)) ELSE B!SqlCommit(db)
               /\ db' = r.db /\ B!End(t, IF r.ok THEN "ok" ELSE "error")
  BY DEF B!Finish
<1>5. r.ok /\ Sane(db') /\ db'.rows = db.rows /\ Back(t)
  <2>1. CASE joined[t]
    <3>1. Above(db, B!Savepoint(t), snap[t])
      BY <1>2, <2>1 DEF Layered
    <3>2. QED
      BY <1>2, <1>4, <2>1, <3>1, Released DEF Back
  <2>2. CASE ~ joined[t]
    <3>1. db.stack = <<[name |-> "tx", before |-> snap[t]]>>
      BY <1>2, <2>2 DEF Layered
    <3>2. B!InTransaction(db)
      BY <1>2, LayeredOpen
    <3>3. r = B!Ok(B!Closed(db.rows))
      BY <1>2, <1>4, <2>2, <3>2 DEF B!SqlCommit
    <3>4. r.ok /\ db' = B!Closed(db.rows)
      BY <1>4, <3>3 DEF B!Ok
    <3>5. db'.rows = db.rows /\ db'.stack = <<>> /\ db'.aborted = FALSE
      BY <3>4 DEF B!Closed
    <3>6. Sane(db')
      BY <1>2, <3>4, <3>5 DEF Sane, B!Session, B!Closed, B!InTransaction
    <3>7. QED
      BY <2>2, <3>4, <3>5, <3>6 DEF Back, B!InTransaction
  <2>3. QED
    BY <2>1, <2>2
<1>6. QED
  BY <1>1, <1>3, <1>4, <1>5, Ends

LEMMA RefusedMoves ==
  ASSUME Setting, BatchInv, NEW t \in Batcher, B!CommitRefused(t), engine' = engine
  PROVE  Moved(t)
<1>1. /\ pc[t] = "ops" /\ B!Active(t) /\ ~ joined[t] /\ engine # "sqlite"
      /\ B!End(t, "error") /\ UNCHANGED <<kind, joined, next, locate, snap>>
      /\ db' = B!SqlRollback(db).db
  BY DEF B!CommitRefused, B!Active, Setting, B!SqlCommitRefused
<1>2. Sane(db) /\ Layered(t, B!Savepoint(t)) /\ B!Savepoint(t) \in Savepoints
  BY <1>1, AtOps
<1>3. Sane(db') /\ db'.rows = snap[t] /\ Back(t)
  <2>1. PICK r : r = IF joined[t] THEN B!SqlRollbackTo(db, B!Savepoint(t)) ELSE B!SqlRollback(db)
    OBVIOUS
  <2>2. QED
    BY <1>1, <1>2, <2>1, UndoMoves
<1>4. QED
  BY <1>1, <1>3, Ends

-----------------------------------------------------------------------------
(* The steps of the lookup of the bad row.                                 *)

LEMMA AtProbe ==
  ASSUME BatchInv, NEW t \in Batcher,
         pc[t] \in {"probe", "probeopen", "proberow", "probeback", "proberel"}
  PROVE  /\ B!Active(t) /\ Sane(db) /\ "sqlide_probe" \in Savepoints
         /\ kind[t] = "replace" => engine # "mysql"
         /\ pc[t] \in {"probe", "probeopen"} => Untouched(t)
         /\ pc[t] # "probeback" => ~ db.aborted
         /\ pc[t] \in {"proberow", "probeback", "proberel"} => Layered(t, "sqlide_probe")
         /\ pc[t] = "proberel" => joined[t] /\ db.rows = snap[t]
         /\ pc[t] \in {"probe", "probeopen", "proberow"} => next[t] <= Ops
<1>1. Where(t) /\ Sane(db)
  BY DEF BatchInv
<1>2. QED
  BY <1>1 DEF Where, B!Active, Savepoints, B!Names

LEMMA StartMoves ==
  ASSUME Setting, BatchInv, NEW t \in Batcher, B!ProbeStart(t), engine' = engine
  PROVE  Moved(t)
<1>1. /\ pc[t] = "probe" /\ B!Goto(t, "probeopen")
      /\ UNCHANGED <<db, kind, next, locate, outcome, snap>>
      /\ joined' = [joined EXCEPT ![t] = B!InTransaction(db)]
  BY DEF B!ProbeStart
<1>2. Untouched(t) /\ ~ db.aborted /\ Sane(db) /\ B!Active(t) /\ next[t] <= Ops
      /\ (kind[t] = "replace" => engine # "mysql")
  BY <1>1, AtProbe
<1>3. joined' = joined
  <2>1. joined[t] \in BOOLEAN /\ B!InTransaction(db) \in BOOLEAN
    BY DEF BatchInv, Types, B!InTransaction
  <2>2. joined[t] = B!InTransaction(db)
    BY <1>2, <2>1 DEF Untouched
  <2>3. QED
    BY <1>1, <2>2 DEF BatchInv, Types
<1>4. pc'[t] = "probeopen"
  BY <1>1 DEF B!Goto, BatchInv, Types
<1>5. Untouched(t)'
  BY <1>1, <1>2, <1>3 DEF Untouched, B!InTransaction
<1>6. Where(t)'
  BY <1>1, <1>2, <1>4, <1>5 DEF Where
<1>7. joined[t] => B!InTransaction(db') /\ db'.stack[1] = db.stack[1]
  BY <1>1, <1>2 DEF Untouched
<1>8. Sane(db') /\ locate' \in [Batcher -> BOOLEAN]
  BY <1>1, <1>2 DEF BatchInv, Types
<1>9. QED
  BY <1>1, <1>2, <1>3, <1>6, <1>7, <1>8, GoesOn DEF B!BatchPC

LEMMA ProbeOpenMoves ==
  ASSUME Setting, BatchInv, NEW t \in Batcher, B!ProbeOpen(t), engine' = engine
  PROVE  Moved(t)
<1>1. pc[t] = "probeopen" /\ UNCHANGED <<kind, joined, next, locate, snap>>
  BY DEF B!ProbeOpen
<1>2. PICK r : /\ r = IF joined[t] THEN B!SqlSavepoint(db, "sqlide_probe") ELSE B!SqlBegin(db)
               /\ db' = r.db
               /\ \/ r.ok /\ B!Goto(t, "proberow") /\ UNCHANGED outcome
                  \/ ~ r.ok /\ B!End(t, "error")
  BY DEF B!ProbeOpen
<1>3. /\ Untouched(t) /\ ~ db.aborted /\ Sane(db) /\ B!Active(t) /\ next[t] <= Ops
      /\ "sqlide_probe" \in Savepoints /\ (kind[t] = "replace" => engine # "mysql")
  BY <1>1, AtProbe
<1>4. /\ r.ok /\ Sane(db') /\ ~ db'.aborted /\ Layered(t, "sqlide_probe")'
      /\ joined[t] => B!InTransaction(db') /\ db'.stack[1] = db.stack[1]
  BY <1>1, <1>2, <1>3, OpensLayer
<1>5. B!Goto(t, "proberow") /\ outcome' = outcome
  BY <1>2, <1>4
<1>6. pc'[t] = "proberow" /\ locate' \in [Batcher -> BOOLEAN]
  BY <1>1, <1>5 DEF B!Goto, BatchInv, Types
<1>7. Where(t)'
  BY <1>1, <1>3, <1>4, <1>6 DEF Where
<1>8. QED
  BY <1>1, <1>3, <1>4, <1>5, <1>6, <1>7, GoesOn DEF B!BatchPC

LEMMA ProbeRowMoves ==
  ASSUME Setting, BatchInv, NEW t \in Batcher, B!ProbeRow(t), engine' = engine
  PROVE  Moved(t)
<1>1. /\ pc[t] = "proberow" /\ B!Goto(t, "probeback")
      /\ UNCHANGED <<kind, joined, next, locate, outcome, snap>>
  BY DEF B!ProbeRow
<1>2. /\ ~ db.aborted /\ Sane(db) /\ B!Active(t) /\ Layered(t, "sqlide_probe")
      /\ kind[t] = "replace" => engine # "mysql"
      /\ next[t] <= Ops
  BY <1>1, AtProbe
<1>3. PICK S \in SUBSET {<<t, next[t]>>} :
        db' \in {B!SqlWrite(db, S).db, B!Err(B!SqlWrite(db, S).db).db}
  BY DEF B!ProbeRow
<1>4. S \in SUBSET B!Row
  BY <1>2 DEF B!Row, B!Batch, BatchInv, Types
<1>5. Sane(db') /\ db'.stack = db.stack
  BY <1>2, <1>3, <1>4, Rewritten
<1>6. /\ Layered(t, "sqlide_probe")'
      /\ joined[t] => B!InTransaction(db') /\ db'.stack[1] = db.stack[1]
  BY <1>1, <1>2, <1>5, StillLayered
<1>7. pc'[t] = "probeback" /\ locate' \in [Batcher -> BOOLEAN]
  BY <1>1 DEF B!Goto, BatchInv, Types
<1>8. Where(t)'
  BY <1>1, <1>2, <1>6, <1>7 DEF Where
<1>9. QED
  BY <1>1, <1>2, <1>5, <1>6, <1>7, <1>8, GoesOn DEF B!BatchPC

LEMMA ProbeBackMoves ==
  ASSUME Setting, BatchInv, NEW t \in Batcher, B!ProbeBack(t), engine' = engine
  PROVE  Moved(t)
<1>1. pc[t] = "probeback" /\ UNCHANGED <<kind, joined, next, locate, snap>>
  BY DEF B!ProbeBack
<1>2. PICK r : /\ r = IF joined[t] THEN B!SqlRollbackTo(db, "sqlide_probe") ELSE B!SqlRollback(db)
               /\ db' = r.db
               /\ IF joined[t] /\ r.ok THEN B!Goto(t, "proberel") /\ UNCHANGED outcome
                                       ELSE B!End(t, "error")
  BY DEF B!ProbeBack
<1>3. /\ Sane(db) /\ B!Active(t) /\ Layered(t, "sqlide_probe")
      /\ "sqlide_probe" \in Savepoints /\ (kind[t] = "replace" => engine # "mysql")
  BY <1>1, AtProbe
<1>4. /\ r.ok /\ Sane(db') /\ ~ db'.aborted /\ db'.rows = snap[t] /\ Back(t)
      /\ joined[t] => Layered(t, "sqlide_probe")'
  BY <1>1, <1>2, <1>3, UndoMoves
<1>5. CASE joined[t]
  <2>1. B!Goto(t, "proberel") /\ outcome' = outcome
    BY <1>2, <1>4, <1>5
  <2>2. pc'[t] = "proberel" /\ locate' \in [Batcher -> BOOLEAN]
    BY <1>1, <2>1 DEF B!Goto, BatchInv, Types
  <2>3. Where(t)'
    BY <1>1, <1>3, <1>4, <1>5, <2>2 DEF Where
  <2>4. QED
    BY <1>1, <1>3, <1>4, <1>5, <2>1, <2>2, <2>3, GoesOn DEF B!BatchPC, Back
<1>6. CASE ~ joined[t]
  BY <1>1, <1>2, <1>3, <1>4, <1>6, Ends
<1>7. QED
  BY <1>5, <1>6

LEMMA ProbeReleaseMoves ==
  ASSUME Setting, BatchInv, NEW t \in Batcher, B!ProbeRelease(t), engine' = engine
  PROVE  Moved(t)
<1>1. /\ pc[t] = "proberel" /\ UNCHANGED <<kind, joined, next, locate, snap>>
      /\ db' = B!SqlRelease(db, "sqlide_probe").db /\ B!End(t, "error")
  BY DEF B!ProbeRelease
<1>2. /\ Sane(db) /\ B!Active(t) /\ Layered(t, "sqlide_probe") /\ ~ db.aborted
      /\ "sqlide_probe" \in Savepoints /\ joined[t] /\ db.rows = snap[t]
  BY <1>1, AtProbe
<1>3. Above(db, "sqlide_probe", snap[t])
  BY <1>2 DEF Layered
<1>4. Sane(db') /\ db'.rows = snap[t] /\ Back(t)
  BY <1>1, <1>2, <1>3, Released DEF Back
<1>5. QED
  BY <1>1, <1>2, <1>4, Ends

-----------------------------------------------------------------------------
(* A batch begins; the user's statements; every step.                      *)

LEMMA ContinueMoves ==
  ASSUME Setting, BatchInv, NEW t \in Batcher, B!Continue(t)
  PROVE  B!Active(t) /\ Moved(t)
<1>1. engine' = engine
  BY DEF B!Continue
<1>2. CASE B!OpenBatch(t) \/ B!EmptyTable(t) \/ B!RunOp(t)
  BY <1>1, <1>2, OpenMoves, EmptyMoves, RunMoves DEF B!OpenBatch, B!EmptyTable, B!RunOp, B!Active
<1>3. CASE B!RunOpRaises(t) \/ B!RowcountMismatch(t) \/ B!Cancel(t) \/ B!Unwind(t)
  BY <1>1, <1>3, FailedMoves, UnwindMoves DEF B!RunOpRaises, B!RowcountMismatch, B!Cancel, B!Unwind, B!Active
<1>4. CASE B!Finish(t) \/ B!CommitRefused(t) \/ B!ProbeStart(t) \/ B!ProbeOpen(t)
  BY <1>1, <1>4, FinishMoves, RefusedMoves, StartMoves, ProbeOpenMoves
     DEF B!Finish, B!CommitRefused, B!ProbeStart, B!ProbeOpen, B!Active
<1>5. CASE B!ProbeRow(t) \/ B!ProbeBack(t) \/ B!ProbeRelease(t)
  BY <1>1, <1>5, ProbeRowMoves, ProbeBackMoves, ProbeReleaseMoves
     DEF B!ProbeRow, B!ProbeBack, B!ProbeRelease, B!Active
<1>6. QED
  BY <1>2, <1>3, <1>4, <1>5 DEF B!Continue

LEMMA NoneRuns ==
  ASSUME Setting, B!Free
  PROVE  B!Began = {} /\ \A s \in Batcher : ~ B!Active(s)
BY DEF Setting, B!Free, B!Began

LEMMA StartStep ==
  ASSUME Setting, BatchInv, NEW t \in Batcher, NEW k \in Kinds[engine], B!Start(t, k)
  PROVE  BatchInv' /\ UNCHANGED B!Promise!vars
<1>1. /\ pc[t] = "idle" /\ B!Free /\ pc' = [pc EXCEPT ![t] = "open"]
      /\ kind' = [kind EXCEPT ![t] = k]
      /\ joined' = [joined EXCEPT ![t] = B!InTransaction(db)]
      /\ snap' = [snap EXCEPT ![t] = db.rows]
      /\ UNCHANGED <<engine, db, next, locate, outcome>>
  BY DEF B!Start, B!Goto
<1>2. B!Began = {} /\ \A s \in Batcher : ~ B!Active(s)
  BY <1>1, NoneRuns
<1>3. k \in {"save", "load", "replace"} /\ (k = "replace" => engine # "mysql")
  BY DEF Setting, B!BatchAssumption, BatchInv, Types
<1>4. db.rows \in SUBSET B!Row /\ Sane(db) /\ B!InTransaction(db) \in BOOLEAN
  BY SaneIsRecord DEF BatchInv, B!InTransaction
<1>5. Types'
  BY <1>1, <1>3, <1>4 DEF BatchInv, Types, B!BatchPC, B!Row, B!Batch
<1>6. \A s \in Batcher \ {t} : ~ B!Active(s)' /\ pc'[s] = pc[s] /\ Where(s)'
  BY <1>1, <1>2 DEF B!Active, Where, BatchInv, Types
<1>7. /\ pc'[t] = "open" /\ snap'[t] = db.rows /\ joined'[t] = B!InTransaction(db)
      /\ kind'[t] = k /\ next'[t] = 1 /\ B!Active(t)'
  BY <1>1 DEF BatchInv, Types, Where, B!Active
<1>8. Where(t)'
  BY <1>1, <1>3, <1>7 DEF Where, Untouched, B!InTransaction
<1>9. BatchInv'
  <2>1. \A s \in Batcher : outcome'[s] = "none" <=> pc'[s] # "done"
    BY <1>1, <1>6, <1>7 DEF BatchInv
  <2>2. QED
    BY <1>1, <1>4, <1>5, <1>6, <1>8, <2>1 DEF BatchInv
<1>10. B!Began' = {t}
  BY <1>6, <1>7 DEF B!Began
<1>11. B!SeenRows' = B!SeenRows
  BY <1>2, <1>7, <1>10 DEF B!SeenRows
<1>12. B!Restore' = B!Restore
  BY <1>1, <1>2, <1>7, <1>10 DEF B!Restore, B!InTransaction
<1>13. QED
  BY <1>1, <1>9, <1>11, <1>12 DEF B!Promise!vars

\* The session of a user who sends a statement of their own.
LEMMA UserKeeps ==
  ASSUME Setting, BatchInv, B!Free, UNCHANGED <<engine, B!batch>>, Sane(db')
  PROVE  /\ BatchInv'
         /\ B!SeenRows = db.rows /\ B!SeenRows' = db'.rows /\ outcome' = outcome
         /\ B!Restore = IF B!InTransaction(db) THEN {db.stack[1].before} ELSE {}
         /\ B!Restore' = IF B!InTransaction(db') THEN {db'.stack[1].before} ELSE {}
<1>1. B!Began = {} /\ \A s \in Batcher : ~ B!Active(s)
  BY NoneRuns
<1>2. B!Began' = {} /\ \A s \in Batcher : ~ B!Active(s)'
  BY <1>1 DEF B!Began, B!Active, B!batch
<1>3. \A s \in Batcher : Where(s)'
  BY <1>1, <1>2 DEF Where, BatchInv, Types, B!Active, B!batch
<1>4. BatchInv'
  BY <1>2, <1>3 DEF BatchInv, Types, B!batch, B!Row, B!Batch, B!BatchPC
<1>5. QED
  BY <1>1, <1>2, <1>4 DEF B!SeenRows, B!Restore, B!batch

\* A session with its transaction ended, or with one begun.
LEMMA Ending ==
  ASSUME NEW rows \in SUBSET B!Row
  PROVE  /\ Sane(B!Closed(rows)) /\ ~ B!InTransaction(B!Closed(rows))
         /\ B!Closed(rows).rows = rows
BY DEF B!Closed, Sane, B!Session, B!InTransaction

LEMMA ImplicitCommit ==
  ASSUME NEW rows \in SUBSET B!Row, NEW e, e = B!Push(B!Closed(rows), "tx")
  PROVE  /\ Sane(e) /\ B!InTransaction(e)
         /\ e.rows = rows /\ e.stack[1].before = rows
<1>1. Sane(B!Closed(rows)) /\ ~ B!InTransaction(B!Closed(rows)) /\ B!Closed(rows).rows = rows
  BY Ending
<1>2. B!SqlBegin(B!Closed(rows)) = B!Ok(e)
  BY <1>1 DEF B!SqlBegin, B!Unless, B!Closed
<1>3. PICK s : s = <<[name |-> "tx", before |-> rows]>>
  OBVIOUS
<1>4. e = [rows |-> rows, aborted |-> FALSE, stack |-> s] /\ Sane(e)
  <2>1. PICK c : c = B!Closed(rows)
    OBVIOUS
  <2>2. B!SqlBegin(c).db = e
    BY <1>2, <2>1 DEF B!Ok
  <2>3. /\ B!SqlBegin(c).db = [rows |-> c.rows, aborted |-> FALSE,
                             stack |-> <<[name |-> "tx", before |-> c.rows]>>]
        /\ Sane(B!SqlBegin(c).db)
    BY <1>1, <2>1, BeginTaken
  <2>4. QED
    BY <1>1, <1>3, <2>1, <2>2, <2>3
<1>5. s # <<>> /\ s[1].before = rows
  BY <1>3
<1>6. QED
  BY <1>4, <1>5 DEF B!InTransaction

\* The user's BEGIN, COMMIT or ROLLBACK, writes and errors, as the promise
\* allows them.
UserMoves ==
  /\ Sane(db')
  /\ \/ /\ B!InTransaction(db') /\ db'.rows = db.rows /\ db'.stack[1].before = db.rows
     \/ /\ B!InTransaction(db) /\ ~ B!InTransaction(db')
        /\ db'.rows \in {db.rows, db.stack[1].before}
     \/ db'.stack = db.stack /\ db.rows \subseteq db'.rows

LEMMA UserEnds ==
  ASSUME Sane(db), db' \in {B!SqlCommit(db).db, B!SqlRollback(db).db}
  PROVE  UserMoves
<1>1. CASE B!InTransaction(db)
  <2>1. db.stack[1].before \in SUBSET B!Row /\ db.rows \in SUBSET B!Row
    <3>1. db.stack \in Seq(B!Layer) /\ db.stack # <<>>
      BY <1>1, SaneIsRecord DEF B!InTransaction
    <3>2. db.stack[1] \in B!Layer
      BY <3>1
    <3>3. QED
      BY <3>2, SaneIsRecord DEF B!Layer
  <2>2. B!SqlRollback(db).db = B!Closed(db.stack[1].before)
    BY <1>1 DEF B!SqlRollback, B!Ok
  <2>3. B!SqlCommit(db).db \in {B!Closed(db.rows), B!Closed(db.stack[1].before)}
    BY <1>1, <2>2 DEF B!SqlCommit, B!Ok
  <2>4. PICK rows \in {db.rows, db.stack[1].before} : db' = B!Closed(rows)
    BY <2>2, <2>3
  <2>5. QED
    BY <1>1, <2>1, <2>4, Ending DEF UserMoves
<1>2. CASE ~ B!InTransaction(db)
  <2>1. db' \in {B!Err(db).db, db}
    BY <1>2 DEF B!SqlCommit, B!SqlRollback, B!NothingOpen, B!Ok
  <2>2. QED
    BY <2>1, ErrorMade DEF UserMoves
<1>3. QED
  BY <1>1, <1>2

LEMMA UserBegins ==
  ASSUME Sane(db), engine \in {"sqlite", "postgres", "mysql"}, db' = B!SqlBegin(db).db
  PROVE  UserMoves
<1>0. db.rows \in SUBSET B!Row
  BY SaneIsRecord
<1>1. CASE ~ B!InTransaction(db)
  <2>1. PICK s : s = <<[name |-> "tx", before |-> db.rows]>>
    OBVIOUS
  <2>2. Sane(db') /\ db' = [rows |-> db.rows, aborted |-> FALSE, stack |-> s]
    BY <1>1, <2>1, BeginTaken
  <2>3. s # <<>> /\ s[1].before = db.rows
    BY <2>1
  <2>4. QED
    BY <2>2, <2>3 DEF UserMoves, B!InTransaction
<1>2. CASE B!InTransaction(db)
  <2>1. db' \in {B!Err(db).db, db, B!Push(B!Closed(db.rows), "tx")}
    BY <1>2 DEF B!SqlBegin, B!Unless, B!Ok
  <2>2. CASE db' \in {B!Err(db).db, db}
    BY <2>2, ErrorMade DEF UserMoves
  <2>3. CASE db' = B!Push(B!Closed(db.rows), "tx")
    BY <1>0, <2>3, ImplicitCommit DEF UserMoves
  <2>4. QED
    BY <2>1, <2>2, <2>3
<1>3. QED
  BY <1>1, <1>2

LEMMA UserWrites ==
  ASSUME Sane(db), NEW u \in UserRow, db' = B!SqlWrite(db, {u}).db
  PROVE  UserMoves
<1>1. CASE db.aborted
  <2>1. db' = B!Err(db).db
    BY <1>1 DEF B!SqlWrite, B!Unless
  <2>2. QED
    BY <2>1, ErrorMade DEF UserMoves
<1>2. CASE ~ db.aborted
  <2>1. {u} \in SUBSET B!Row
    BY DEF B!Row
  <2>2. PICK e : e = [rows |-> db.rows \cup {u}, stack |-> db.stack, aborted |-> FALSE]
    OBVIOUS
  <2>3. B!SqlWrite(db, {u}) = B!Ok(e) /\ Sane(B!SqlWrite(db, {u}).db)
    BY <1>2, <2>1, <2>2, WriteMade
  <2>4. db' = e /\ Sane(db')
    BY <2>3 DEF B!Ok
  <2>5. QED
    BY <2>2, <2>4 DEF UserMoves
<1>3. QED
  BY <1>1, <1>2

LEMMA UserStepKeeps ==
  ASSUME Setting, BatchInv, B!UserStep
  PROVE  BatchInv' /\ [B!Promise!Next]_(B!Promise!vars)
<1>1. B!Free /\ UNCHANGED <<engine, B!batch>> /\ Sane(db)
  BY DEF B!UserStep, B!UserBegin, B!UserCommit, B!UserRollback, B!UserWrite, B!UserError, BatchInv
<1>2. UserMoves
  <2>1. engine \in {"sqlite", "postgres", "mysql"}
    BY DEF BatchInv, Types, Setting, B!BatchAssumption
  <2>2. CASE B!UserError
    BY <1>1, <2>2, ErrorMade DEF B!UserError, UserMoves
  <2>3. CASE B!UserWrite
    BY <1>1, <2>3, UserWrites DEF B!UserWrite
  <2>4. CASE B!UserBegin
    BY <1>1, <2>1, <2>4, UserBegins DEF B!UserBegin
  <2>5. CASE B!UserCommit \/ B!UserRollback
    BY <1>1, <2>5, UserEnds DEF B!UserCommit, B!UserRollback
  <2>6. QED
    BY <2>2, <2>3, <2>4, <2>5 DEF B!UserStep
<1>3. /\ BatchInv'
      /\ B!SeenRows = db.rows /\ B!SeenRows' = db'.rows /\ outcome' = outcome
      /\ B!Restore = IF B!InTransaction(db) THEN {db.stack[1].before} ELSE {}
      /\ B!Restore' = IF B!InTransaction(db') THEN {db'.stack[1].before} ELSE {}
  BY <1>1, <1>2, UserKeeps DEF UserMoves
<1>4. db'.rows \in SUBSET B!Row
  BY <1>2, SaneIsRecord DEF UserMoves
<1>5. CASE B!InTransaction(db') /\ db'.rows = db.rows /\ db'.stack[1].before = db.rows
  BY <1>3, <1>5 DEF B!Promise!Next, B!Promise!Begin
<1>6. CASE /\ B!InTransaction(db) /\ ~ B!InTransaction(db')
           /\ db'.rows \in {db.rows, db.stack[1].before}
  BY <1>3, <1>6 DEF B!Promise!Next, B!Promise!End
<1>7. CASE db'.stack = db.stack /\ db.rows \subseteq db'.rows
  BY <1>3, <1>4, <1>7 DEF B!Promise!Next, B!Promise!Write, B!InTransaction
<1>8. QED
  BY <1>2, <1>3, <1>5, <1>6, <1>7 DEF UserMoves

LEMMA BatchStepKeeps ==
  ASSUME Setting, BatchInv, [B!Next]_(B!vars)
  PROVE  BatchInv' /\ [B!Promise!Next]_(B!Promise!vars)
<1>1. CASE \E t \in Batcher : B!Continue(t)
  BY <1>1, ContinueMoves, MovedKeeps, MovedKept
<1>2. CASE \E t \in Batcher : \E k \in Kinds[engine] : B!Start(t, k)
  BY <1>2, StartStep
<1>3. CASE B!UserStep
  BY <1>3, UserStepKeeps
<1>4. CASE UNCHANGED B!vars
  <2>1. BatchInv'
    BY <1>4 DEF B!vars, B!batch, BatchInv, Types, Where, B!Active, Untouched, Layered, Written,
                B!Savepoint, Above, Sane, B!Session, B!InTransaction, B!Row, B!Batch, B!BatchPC
  <2>2. UNCHANGED B!Promise!vars
    BY <1>4 DEF B!vars, B!batch, B!Promise!vars, B!SeenRows, B!Restore, B!Began, B!Active, B!InTransaction
  <2>3. QED
    BY <2>1, <2>2
<1>5. QED
  BY <1>1, <1>2, <1>3, <1>4 DEF B!Next, B!BatchStep

LEMMA PromiseInit ==
  ASSUME Setting, B!Init
  PROVE  B!Promise!Init
<1>1. \A t \in Batcher : ~ B!Active(t)
  BY DEF B!Init, B!Active
<1>2. B!Began = {}
  BY <1>1 DEF B!Began
<1>3. PICK r \in SUBSET UserRow : db = [rows |-> r, stack |-> <<>>, aborted |-> FALSE]
  BY DEF B!Init
<1>4. B!SeenRows = r /\ B!Restore = {}
  BY <1>2, <1>3, SeenFree DEF B!InTransaction
<1>5. r \subseteq B!Row
  BY DEF B!Row
<1>6. QED
  BY <1>4, <1>5 DEF B!Promise!Init, B!Init

\* Every batch lands whole or leaves nothing behind, in one step as the rest
\* of the connection sees it, and the transaction the user has open is neither
\* ended nor undone by it.
THEOREM LandsWhole == ASSUME Setting PROVE B!Spec => B!Atomic
<1>1. B!Init => BatchInv /\ B!Promise!Init
  BY BatchInit, PromiseInit
<1>2. BatchInv /\ [B!Next]_(B!vars) => BatchInv' /\ [B!Promise!Next]_(B!Promise!vars)
  BY BatchStepKeeps
<1>3. QED
  BY <1>1, <1>2, PTL DEF B!Spec, B!Atomic, B!Promise!Spec

-----------------------------------------------------------------------------
(* The batches side by side with the consoles, which leave their state     *)
(* alone.                                                                  *)

LEMMA BatchPart == MCFairSpec => B!Spec
<1>1. MCInit => B!Init
  BY DEF MCInit
<1>2. [Scripting \/ Batching]_allVars => [B!Next]_(B!vars)
  BY DEF Scripting, Batching, allVars, batchVars, B!vars, B!batch
<1> QED
  BY <1>1, <1>2, PTL DEF MCFairSpec, B!Spec

\* The property Atomic of the run: a batch of row changes is one step that
\* lands everything or changes nothing.
COROLLARY StatementsAtomic == ASSUME Setting PROVE MCFairSpec => Atomic
BY LandsWhole, BatchPart, PTL DEF Atomic
=============================================================================
