---------------------------- MODULE FilesProofs ----------------------------
(* Theorems about what outlives a step of the application: the backups that *)
(* are kept (Backups), the tabs of a window and their transactions          *)
(* (WindowTabs, here W), and the documents values are merged into           *)
(* (TomlMerge and ConfigStores, here C), for jobs, workers, artifacts,      *)
(* tabs, connections, transactions and documents of any number and length,  *)
(* and of the specification MCFiles runs.                                   *)
EXTENDS MCFiles, Integers, FiniteSetTheorems, SequenceTheorems,
        WellFoundedInduction, TLAPS

-----------------------------------------------------------------------------
(* Backups.                                                                *)

\* A worker at work has a job to do, and prunes only where artifacts are
\* counted.
Busied ==
  /\ worker \in [Worker -> Busy \cup {Idle}]
  /\ \A w \in Worker : worker[w] # Idle =>
       /\ worker[w].todo # <<>>
       /\ worker[w].pc \in {"prune", "delete"} => Keep > 0

Uploaded ==
  /\ now \in Time
  /\ dest \subseteq ever /\ ever \subseteq Artifact /\ IsFiniteSet(dest)

\* Enough newer artifacts of its job are there to do without this one.
Newers(a)  == {b \in dest : b.job = a.job /\ Newer(b, a)}
Covered(a) == Keep > 0 /\ Cardinality(Newers(a)) >= Keep

\* What is gone, and what a worker is about to delete, is covered.  A deletion
\* that takes one of the newer ones that cover another was itself covered, by
\* artifacts that are newer than both.
RetentionInv ==
  /\ Busied /\ Uploaded
  /\ \A a \in ever \ dest : Covered(a)
  /\ \A w \in Worker : worker[w] # Idle => \A a \in worker[w].doomed : Covered(a)

-----------------------------------------------------------------------------
LEMMA NewerOrder ==
  ASSUME NEW a \in Artifact, NEW b \in Artifact, NEW c \in Artifact
  PROVE  /\ Newer(c, b) /\ Newer(b, a) => Newer(c, a)
         /\ ~ Newer(a, a)
BY DEF Newer, Artifact, Time

\* More artifacts cover no less.
LEMMA CoveredMore ==
  ASSUME Uploaded', dest \subseteq dest', BackupAssumption, NEW a, Covered(a)
  PROVE  Covered(a)'
<1>1. Newers(a) \subseteq Newers(a)' /\ IsFiniteSet(Newers(a)')
  BY FS_Subset DEF Newers, Uploaded
<1>2. /\ Cardinality(Newers(a)) <= Cardinality(Newers(a)')
      /\ Cardinality(Newers(a)) \in Nat /\ Cardinality(Newers(a)') \in Nat
  BY <1>1, FS_Subset, FS_CardinalityType
<1> QED
  BY <1>2 DEF Covered, BackupAssumption

\* Nor do they once one that is covered is gone.
LEMMA CoveredLess ==
  ASSUME Uploaded, BackupAssumption, NEW d \in Artifact, NEW a \in Artifact,
         Covered(d), Covered(a), dest' = dest \ {d}
  PROVE  Covered(a)'
<1>1. CASE d \notin Newers(a)
  <2>1. Newers(a)' = Newers(a)
    BY <1>1 DEF Newers, Newer
  <2> QED
    BY <2>1 DEF Covered
<1>2. CASE d \in Newers(a)
  <2>1. d.job = a.job /\ Newer(d, a) /\ dest \subseteq Artifact
    BY <1>2 DEF Newers, Uploaded
  <2>2. d \notin Newers(d)
    BY NewerOrder DEF Newers
  <2>3. Newers(d) \subseteq Newers(a)'
    <3> SUFFICES ASSUME NEW b \in Newers(d) PROVE b \in Newers(a)'
      OBVIOUS
    <3>1. b \in dest /\ b.job = d.job /\ Newer(b, d) /\ b # d
      BY <2>2 DEF Newers
    <3>2. Newer(b, a)
      BY <2>1, <3>1, NewerOrder
    <3> QED
      BY <2>1, <3>1, <3>2 DEF Newers, Newer
  <2>4. IsFiniteSet(Newers(a)')
    BY FS_Subset DEF Newers, Uploaded
  <2>5. /\ Cardinality(Newers(d)) <= Cardinality(Newers(a)')
        /\ Cardinality(Newers(d)) \in Nat /\ Cardinality(Newers(a)') \in Nat
    BY <2>3, <2>4, FS_Subset, FS_CardinalityType
  <2> QED
    BY <2>5 DEF Covered, BackupAssumption
<1> QED
  BY <1>1, <1>2

\* Without jobs whose names begin another's, the prune dooms what is covered.
LEMMA DoomedCovered ==
  ASSUME Prefix = {}, BackupAssumption, Keep > 0, NEW w \in Worker, NEW a \in Doomed(w)
  PROVE  a \in dest /\ Covered(a)
<1>1. Mine(w) = {b \in dest : b.job = JobOf(w)}
  BY DEF Mine
<1>2. a \in dest /\ a.job = JobOf(w) /\ Cardinality({b \in Mine(w) : Newer(b, a)}) >= Keep
  BY <1>1 DEF Doomed
<1>3. {b \in Mine(w) : Newer(b, a)} = Newers(a)
  BY <1>1, <1>2 DEF Newers
<1> QED
  BY <1>2, <1>3 DEF Covered

-----------------------------------------------------------------------------
\* What is left of a list of jobs.
LEMMA JobsLeft ==
  ASSUME NEW todo \in Seq(Job), todo # <<>>, Len(todo) # 1
  PROVE  Tail(todo) \in Seq(Job) /\ Tail(todo) # <<>>
<1>1. PICK n \in Nat : Len(todo) = n
  BY LenProperties
<1>2. n # 0
  BY <1>1, EmptySeq
<1>3. Tail(todo) \in Seq(Job) /\ Len(Tail(todo)) = n - 1
  BY <1>1, HeadTailProperties
<1>4. Len(Tail(todo)) # 0
  BY <1>1, <1>2, <1>3
<1>5. Len(<<>>) = 0
  OBVIOUS
<1>6. Tail(todo) # <<>>
  BY <1>4, <1>5, Zenon
<1> QED
  BY <1>3, <1>6

LEMMA BusiedStep ==
  ASSUME BackupAssumption, Busied, Uploaded, [Next]_vars
  PROVE  Busied'
<1>0. worker \in [Worker -> Busy \cup {Idle}]
  BY DEF Busied
<1>1. CASE Tick
  <2>1. PICK s \in Worker, thread \in [DueJobs(file) -> Worker] :
          worker' = [w \in Worker |->
                       IF \E j \in DueJobs(file) : thread[j] = w
                         THEN Task("clock", s, <<CHOOSE j \in DueJobs(file) : thread[j] = w>>)
                         ELSE worker[w]]
    BY <1>1 DEF Tick
  <2>2. ASSUME NEW w \in Worker
        PROVE  /\ worker'[w] \in Busy \cup {Idle}
               /\ worker'[w] # Idle =>
                    /\ worker'[w].todo # <<>>
                    /\ worker'[w].pc \in {"prune", "delete"} => Keep > 0
    <3>1. CASE \E j \in DueJobs(file) : thread[j] = w
      <4>1. PICK k \in DueJobs(file) : worker'[w] = Task("clock", s, <<k>>)
        BY <2>1, <3>1
      <4>2. k \in Job
        BY DEF DueJobs, BackupAssumption
      <4>3. worker'[w] \in Busy
        BY <4>1, <4>2 DEF Task, Busy, Store, Uploaded
      <4> QED
        BY <4>1, <4>3 DEF Task
    <3>2. CASE ~ \E j \in DueJobs(file) : thread[j] = w
      BY <2>1, <3>2 DEF Busied
    <3> QED
      BY <3>1, <3>2
  <2> QED
    BY <2>1, <2>2 DEF Busied
<1>2. ASSUME NEW w \in Worker, NEW todo \in Seq(Job), todo # <<>>, Headless(w, todo)
      PROVE  Busied'
  <2>1. worker' = [worker EXCEPT ![w] = Task("user", w, todo)]
    BY <1>2 DEF Headless
  <2>2. Task("user", w, todo) \in Busy
    BY DEF Task, Busy, Store, Uploaded
  <2>3. Task("user", w, todo).todo = todo /\ Task("user", w, todo).pc = "upload"
    BY DEF Task
  <2> QED
    BY <1>2, <2>1, <2>2, <2>3 DEF Busied
<1>3. ASSUME NEW w \in Worker, NEW j \in Job, RunNow(w, j) PROVE Busied'
  <2>1. worker' = [worker EXCEPT ![w] = Task("user", "tab", <<j>>)]
    BY <1>3 DEF RunNow
  <2>2. Task("user", "tab", <<j>>) \in Busy
    BY DEF Task, Busy, Store, Uploaded
  <2>3. Task("user", "tab", <<j>>).todo = <<j>> /\ Task("user", "tab", <<j>>).pc = "upload"
    BY DEF Task
  <2> QED
    BY <2>1, <2>2, <2>3 DEF Busied
<1>4. ASSUME NEW w \in Worker, Work(w, "record"), Record(w) PROVE Busied'
  <2>1. worker[w] \in Busy /\ worker[w].todo \in Seq(Job) /\ worker[w].todo # <<>>
    BY <1>4 DEF Work, Busied, Busy
  <2>2. CASE Len(worker[w].todo) = 1
    BY <1>4, <2>2 DEF Record, Busied
  <2>3. CASE Len(worker[w].todo) # 1
    <3> DEFINE t == Task(worker[w].by, worker[w].store, Tail(worker[w].todo))
    <3>1. worker' = [worker EXCEPT ![w] = t]
      BY <1>0, <1>4, <2>3 DEF Record
    <3>2. Tail(worker[w].todo) \in Seq(Job) /\ Tail(worker[w].todo) # <<>>
      BY <2>1, <2>3, JobsLeft
    <3>3. t \in Busy /\ t.todo # <<>> /\ t.pc = "upload"
      BY <2>1, <3>2 DEF Task, Busy, Uploaded
    <3> HIDE DEF t
    <3> QED
      BY <3>1, <3>3 DEF Busied
  <2> QED
    BY <2>2, <2>3
<1>5. ASSUME NEW w \in Worker, Upload(w) PROVE Busied'
  <2>1. worker[w] \in Busy
    BY <1>5 DEF Upload, Work, Busied
  <2>2. PICK pc \in {"record", "prune"} :
          /\ worker' = [worker EXCEPT ![w] = [worker[w] EXCEPT !.pc = pc, !.ok = TRUE]]
          /\ pc = "prune" => Keep > 0
    <3>1. CASE Keep = 0
      BY <1>5, <3>1 DEF Upload
    <3>2. CASE Keep # 0
      BY <1>5, <3>2 DEF Upload, BackupAssumption
    <3> QED
      BY <3>1, <3>2
  <2> DEFINE b == [worker[w] EXCEPT !.pc = pc, !.ok = TRUE]
  <2>3. b \in Busy /\ b.todo = worker[w].todo /\ b.pc = pc
    BY <2>1 DEF Busy
  <2>4. worker' = [worker EXCEPT ![w] = b] /\ worker[w] # Idle
    BY <1>5, <2>2 DEF Upload, Work
  <2> HIDE DEF b
  <2> QED
    BY <2>2, <2>3, <2>4 DEF Busied
<1>6. ASSUME NEW w \in Worker, worker[w] # Idle, Fails(w) PROVE Busied'
  <2>1. worker[w] \in Busy
    BY <1>6 DEF Busied
  <2> DEFINE b == [worker[w] EXCEPT !.pc = "record", !.ok = FALSE]
  <2>2. worker' = [worker EXCEPT ![w] = b]
    BY <1>6 DEF Fails
  <2>3. b \in Busy /\ b.todo = worker[w].todo /\ b.pc = "record"
    BY <2>1 DEF Busy
  <2> HIDE DEF b
  <2> QED
    BY <1>6, <2>2, <2>3 DEF Busied
<1>7. ASSUME NEW w \in Worker, Work(w, "prune") \/ Work(w, "delete"),
             NEW doomed \in SUBSET Artifact, NEW pc \in {"delete", "record"},
             worker' = [worker EXCEPT ![w] = [worker[w] EXCEPT !.doomed = doomed, !.pc = pc]]
      PROVE  Busied'
  <2>1. worker[w] \in Busy /\ worker[w] # Idle /\ Keep > 0
    BY <1>7 DEF Work, Busied
  <2> DEFINE b == [worker[w] EXCEPT !.doomed = doomed, !.pc = pc]
  <2>2. b \in Busy /\ b.todo = worker[w].todo
    BY <2>1 DEF Busy
  <2>3. worker' = [worker EXCEPT ![w] = b]
    BY <1>7
  <2> HIDE DEF b
  <2> QED
    BY <2>1, <2>2, <2>3 DEF Busied
<1>8. ASSUME NEW w \in Worker, Prune(w) PROVE Busied'
  <2>1. CASE Fails(w)
    BY <1>6, <1>8, <2>1 DEF Prune, Work
  <2>2. CASE ~ Fails(w)
    <3>1. Doomed(w) \in SUBSET Artifact
      BY DEF Doomed, Mine, Uploaded
    <3>2. PICK pc \in {"delete", "record"} :
            worker' = [worker EXCEPT ![w] = [worker[w] EXCEPT !.doomed = Doomed(w), !.pc = pc]]
      BY <1>8, <2>2 DEF Prune
    <3> QED
      BY <1>7, <1>8, <3>1, <3>2 DEF Prune
  <2> QED
    BY <2>1, <2>2
<1>9. ASSUME NEW w \in Worker, Delete(w) PROVE Busied'
  <2>1. CASE Fails(w)
    BY <1>6, <1>9, <2>1 DEF Delete, Work
  <2>2. CASE ~ Fails(w)
    <3>1. worker[w] \in Busy /\ worker[w].pc = "delete"
      BY <1>9 DEF Delete, Work, Busied
    <3>2. PICK a \in worker[w].doomed, pc \in {"delete", "record"} :
            worker' = [worker EXCEPT ![w] =
                         [worker[w] EXCEPT !.doomed = worker[w].doomed \ {a}, !.pc = pc]]
      BY <1>9, <2>2, <3>1 DEF Delete, Busy
    <3>3. worker[w].doomed \ {a} \in SUBSET Artifact
      BY <3>1 DEF Busy
    <3> QED
      BY <1>7, <1>9, <3>2, <3>3 DEF Delete
  <2> QED
    BY <2>1, <2>2
<1>10. ASSUME NEW w \in Worker, Killed(w) PROVE Busied'
  BY <1>10 DEF Killed, Busied
<1>11. CASE Minute \/ OpenTab \/ (\E j \in Job : NewJob(j) \/ DeleteJob(j)) \/ UNCHANGED vars
  <2>1. worker' = worker
    BY <1>11 DEF Minute, OpenTab, NewJob, DeleteJob, vars
  <2> QED
    BY <2>1 DEF Busied
<1>12. ASSUME NEW w \in Worker, NEW todo \in [1 .. 2 -> Job], Headless(w, todo)
       PROVE  Busied'
  <2>1. todo \in Seq(Job)
    BY SeqDef
  <2>2. todo # <<>>
    <3>1. 1 \in DOMAIN todo
      OBVIOUS
    <3> QED
      BY <3>1
  <2> QED
    BY <1>2, <1>12, <2>1, <2>2
<1>13. ASSUME NEW w \in Worker, NEW j \in Job, Headless(w, <<j>>) PROVE Busied'
  <2>1. <<j>> \in Seq(Job) /\ <<j>> # <<>>
    OBVIOUS
  <2> QED
    BY <1>2, <1>13, <2>1
<1>14. ASSUME NEW w \in Worker, UploadFails(w) PROVE Busied'
  BY <1>6, <1>14 DEF UploadFails, Work
<1>15. ASSUME NEW w \in Worker, Record(w) PROVE Busied'
  BY <1>4, <1>15 DEF Record
<1> QED
  BY <1>1, <1>3, <1>5, <1>8, <1>9, <1>10, <1>11, <1>12, <1>13, <1>14, <1>15 DEF Next

-----------------------------------------------------------------------------
\* What a step does to the artifacts and to those that are about to go.
LEMMA Deleting ==
  ASSUME Busied, NEW w \in Worker, Delete(w)
  PROVE  \/ dest' = dest /\ Fails(w)
         \/ \E a \in worker[w].doomed, pc \in {"delete", "record"} :
              /\ dest' = dest \ {a}
              /\ worker' = [worker EXCEPT ![w] =
                    [worker[w] EXCEPT !.doomed = worker[w].doomed \ {a}, !.pc = pc]]
<1>1. worker[w] \in Busy /\ worker[w].pc = "delete"
  BY DEF Delete, Work, Busied
<1> QED
  BY <1>1 DEF Delete, Busy

LEMMA UploadedStep ==
  ASSUME BackupAssumption, Busied, Uploaded, [Next]_vars
  PROVE  Uploaded'
<1>1. ASSUME NEW w \in Worker, Upload(w) PROVE Uploaded'
  <2> DEFINE a == [job |-> JobOf(w), started |-> worker[w].started, modified |-> now]
  <2>1. worker[w] \in Busy /\ worker[w].todo # <<>>
    BY <1>1 DEF Upload, Work, Busied
  <2>2. JobOf(w) \in Job
    BY <2>1, HeadTailProperties DEF JobOf, Busy
  <2>3. a \in Artifact
    BY <2>1, <2>2 DEF Busy, Artifact, Uploaded
  <2>4. dest' = dest \cup {a} /\ ever' = ever \cup {a} /\ now' = now
    BY <1>1 DEF Upload
  <2> HIDE DEF a
  <2>5. IsFiniteSet(dest')
    BY <2>4, FS_AddElement DEF Uploaded
  <2> QED
    BY <2>3, <2>4, <2>5 DEF Uploaded
<1>2. ASSUME NEW w \in Worker, Delete(w) PROVE Uploaded'
  <2>1. dest' \subseteq dest
    BY <1>2 DEF Delete
  <2>2. UNCHANGED <<now, ever>>
    BY <1>2 DEF Delete
  <2> QED
    BY <2>1, <2>2, FS_Subset DEF Uploaded
<1>3. CASE Minute
  BY <1>3 DEF Minute, Uploaded, BackupAssumption, Time
<1>4. CASE UNCHANGED <<now, dest, ever>>
  BY <1>4 DEF Uploaded
<1>5. ASSUME NEW w \in Worker,
             \/ \E j \in Job : RunNow(w, j) \/ Headless(w, <<j>>)
             \/ \E todo \in [1 .. 2 -> Job] : Headless(w, todo)
             \/ UploadFails(w) \/ Prune(w) \/ Record(w) \/ Killed(w)
      PROVE  Uploaded'
  BY <1>4, <1>5 DEF RunNow, Headless, UploadFails, Prune, Record, Killed
<1>6. CASE Tick \/ OpenTab \/ (\E j \in Job : NewJob(j) \/ DeleteJob(j)) \/ UNCHANGED vars
  BY <1>4, <1>6 DEF Tick, OpenTab, NewJob, DeleteJob, vars
<1> QED
  BY <1>1, <1>2, <1>3, <1>5, <1>6 DEF Next

\* Whatever a worker dooms in a step that is no prune, it had doomed before.
LEMMA StillDoomed ==
  ASSUME Busied, [Next]_vars, NEW w \in Worker, worker'[w] # Idle, ~ Prune(w),
         NEW a \in worker'[w].doomed
  PROVE  worker[w] # Idle /\ a \in worker[w].doomed
<1>0. worker \in [Worker -> Busy \cup {Idle}]
  BY DEF Busied
<1>1. CASE worker'[w] = worker[w]
  BY <1>1
<1>2. ASSUME NEW who, NEW s, NEW todo, worker'[w] = Task(who, s, todo) PROVE FALSE
  BY <1>2 DEF Task
<1>3. CASE Tick
  BY <1>1, <1>2, <1>3 DEF Tick
<1>4. ASSUME NEW v \in Worker, NEW j \in Job, RunNow(v, j) \/ Headless(v, <<j>>)
      PROVE  worker[w] # Idle /\ a \in worker[w].doomed
  BY <1>0, <1>1, <1>2, <1>4 DEF RunNow, Headless
<1>5. ASSUME NEW v \in Worker, NEW todo \in [1 .. 2 -> Job], Headless(v, todo)
      PROVE  worker[w] # Idle /\ a \in worker[w].doomed
  BY <1>0, <1>1, <1>2, <1>5 DEF Headless
<1>6. ASSUME NEW v \in Worker, Record(v)
      PROVE  worker[w] # Idle /\ a \in worker[w].doomed
  <2>1. worker' = [worker EXCEPT ![v] =
                     IF Len(@.todo) = 1 THEN Idle ELSE Task(@.by, worker[v].store, Tail(@.todo))]
    BY <1>6 DEF Record
  <2>2. CASE v = w
    BY <1>0, <1>2, <2>1, <2>2
  <2>3. CASE v # w
    BY <1>0, <1>1, <2>1, <2>3
  <2> QED
    BY <2>2, <2>3
<1>7. ASSUME NEW v \in Worker, Upload(v)
      PROVE  worker[w] # Idle /\ a \in worker[w].doomed
  <2>1. worker[v] \in Busy /\ worker[v] # Idle
    BY <1>7 DEF Upload, Work, Busied
  <2>2. PICK pc, ok : worker' = [worker EXCEPT ![v] = [worker[v] EXCEPT !.pc = pc, !.ok = ok]]
    BY <1>7 DEF Upload
  <2>3. [worker[v] EXCEPT !.pc = pc, !.ok = ok].doomed = worker[v].doomed
    BY <2>1 DEF Busy
  <2> QED
    BY <1>0, <1>1, <2>1, <2>2, <2>3
<1>8. ASSUME NEW v \in Worker, worker[v] # Idle, Fails(v)
      PROVE  worker[w] # Idle /\ a \in worker[w].doomed
  <2>1. worker[v] \in Busy
    BY <1>8 DEF Busied
  <2>2. [worker[v] EXCEPT !.pc = "record", !.ok = FALSE].doomed = worker[v].doomed
    BY <2>1 DEF Busy
  <2> QED
    BY <1>0, <1>1, <1>8, <2>2 DEF Fails
<1>9. ASSUME NEW v \in Worker, Delete(v)
      PROVE  worker[w] # Idle /\ a \in worker[w].doomed
  <2>1. worker[v] \in Busy /\ worker[v] # Idle
    BY <1>9 DEF Delete, Work, Busied
  <2>2. CASE Fails(v)
    BY <1>8, <2>1, <2>2
  <2>3. CASE ~ Fails(v)
    <3>1. PICK d, pc : worker' = [worker EXCEPT ![v] =
                [worker[v] EXCEPT !.doomed = worker[v].doomed \ {d}, !.pc = pc]]
      BY <1>9, <2>3, Deleting
    <3>2. [worker[v] EXCEPT !.doomed = worker[v].doomed \ {d}, !.pc = pc].doomed
            = worker[v].doomed \ {d}
      BY <2>1 DEF Busy
    <3> QED
      BY <1>0, <1>1, <2>1, <3>1, <3>2
  <2> QED
    BY <2>2, <2>3
<1>10. ASSUME NEW v \in Worker, Prune(v)
       PROVE  worker[w] # Idle /\ a \in worker[w].doomed
  <2>1. v # w
    BY <1>10
  <2>2. PICK rec : worker' = [worker EXCEPT ![v] = rec]
    BY <1>10 DEF Prune, Fails
  <2> QED
    BY <1>0, <1>1, <2>1, <2>2
<1>11. ASSUME NEW v \in Worker, Killed(v)
       PROVE  worker[w] # Idle /\ a \in worker[w].doomed
  BY <1>0, <1>1, <1>11 DEF Killed
<1>12. ASSUME NEW v \in Worker, UploadFails(v)
       PROVE  worker[w] # Idle /\ a \in worker[w].doomed
  BY <1>8, <1>12 DEF UploadFails, Work
<1>13. CASE Minute \/ OpenTab \/ (\E j \in Job : NewJob(j) \/ DeleteJob(j)) \/ UNCHANGED vars
  BY <1>1, <1>13 DEF Minute, OpenTab, NewJob, DeleteJob, vars
<1> QED
  BY <1>3, <1>4, <1>5, <1>6, <1>7, <1>9, <1>10, <1>11, <1>12, <1>13 DEF Next

\* The artifacts a step leaves or adds.
LEMMA DestStep ==
  ASSUME [Next]_vars, \A w \in Worker : ~ Delete(w)
  PROVE  dest \subseteq dest' /\ ever' \ dest' \subseteq ever \ dest
<1>1. ASSUME NEW w \in Worker, Upload(w)
      PROVE  dest \subseteq dest' /\ ever' \ dest' \subseteq ever \ dest
  BY <1>1 DEF Upload
<1>2. CASE UNCHANGED <<dest, ever>>
  BY <1>2
<1>3. ASSUME NEW w \in Worker,
             \/ \E j \in Job : RunNow(w, j) \/ Headless(w, <<j>>)
             \/ \E todo \in [1 .. 2 -> Job] : Headless(w, todo)
             \/ UploadFails(w) \/ Prune(w) \/ Record(w) \/ Killed(w)
      PROVE  UNCHANGED <<dest, ever>>
  BY <1>3 DEF RunNow, Headless, UploadFails, Prune, Record, Killed
<1>4. CASE Minute \/ Tick \/ OpenTab \/ (\E j \in Job : NewJob(j) \/ DeleteJob(j)) \/ UNCHANGED vars
  BY <1>2, <1>4 DEF Minute, Tick, OpenTab, NewJob, DeleteJob, vars
<1> QED
  BY <1>1, <1>2, <1>3, <1>4 DEF Next

LEMMA RetentionStep ==
  ASSUME BackupAssumption, Prefix = {}, RetentionInv, [Next]_vars
  PROVE  RetentionInv'
<1>1. Busied' /\ Uploaded'
  BY BusiedStep, UploadedStep DEF RetentionInv
<1>2. worker \in [Worker -> Busy \cup {Idle}] /\ dest \subseteq Artifact /\ ever \subseteq Artifact
  BY DEF RetentionInv, Busied, Uploaded
<1>3. ASSUME NEW w \in Worker, worker[w] # Idle, NEW a \in worker[w].doomed
      PROVE  a \in Artifact
  BY <1>2, <1>3 DEF Busy
<1>4. ASSUME NEW b \in Artifact, Covered(b) PROVE Covered(b)'
  <2>1. CASE \A w \in Worker : ~ Delete(w)
    BY <1>1, <1>4, <2>1, DestStep, CoveredMore
  <2>2. ASSUME NEW w \in Worker, Delete(w) PROVE Covered(b)'
    <3>1. CASE dest' = dest
      BY <1>1, <1>4, <3>1, CoveredMore
    <3>2. ASSUME NEW d \in worker[w].doomed, dest' = dest \ {d} PROVE Covered(b)'
      <4>1. worker[w] # Idle
        BY <2>2 DEF Delete, Work
      <4>2. Covered(d) /\ d \in Artifact
        BY <1>3, <3>2, <4>1 DEF RetentionInv
      <4> QED
        BY <1>4, <3>2, <4>2, CoveredLess DEF RetentionInv
    <3> QED
      BY <2>2, <3>1, <3>2, Deleting DEF RetentionInv
  <2> QED
    BY <2>1, <2>2
<1>5. ASSUME NEW a \in ever' \ dest' PROVE Covered(a)'
  <2>1. CASE a \in ever \ dest
    BY <1>2, <1>4, <2>1 DEF RetentionInv
  <2>2. CASE a \notin ever \ dest
    <3>1. PICK w \in Worker : Delete(w)
      BY <1>5, <2>2, DestStep
    <3>2. ever' = ever /\ worker[w] # Idle
      BY <3>1 DEF Delete, Work
    <3>3. a \in worker[w].doomed
      BY <1>5, <2>2, <3>1, <3>2, Deleting DEF RetentionInv
    <3> QED
      BY <1>3, <1>4, <3>2, <3>3 DEF RetentionInv
  <2> QED
    BY <2>1, <2>2
<1>6. ASSUME NEW w \in Worker, worker'[w] # Idle, NEW a \in worker'[w].doomed
      PROVE  Covered(a)'
  <2>1. CASE worker[w] # Idle /\ a \in worker[w].doomed
    BY <1>3, <1>4, <2>1 DEF RetentionInv
  <2>2. CASE ~ (worker[w] # Idle /\ a \in worker[w].doomed)
    <3>1. Prune(w)
      BY <1>6, <2>2, StillDoomed DEF RetentionInv
    <3>2. worker[w] \in Busy /\ Keep > 0 /\ UNCHANGED dest
      BY <3>1 DEF Prune, Work, RetentionInv, Busied
    <3>3. worker'[w].doomed = worker[w].doomed \/ worker'[w].doomed = Doomed(w)
      <4>1. CASE Fails(w)
        <5>1. worker'[w] = [worker[w] EXCEPT !.pc = "record", !.ok = FALSE]
          BY <1>2, <4>1 DEF Fails
        <5> QED
          BY <3>2, <5>1 DEF Busy
      <4>2. CASE ~ Fails(w)
        <5>1. PICK pc : worker'[w] = [worker[w] EXCEPT !.doomed = Doomed(w), !.pc = pc]
          BY <1>2, <3>1, <4>2 DEF Prune
        <5> QED
          BY <3>2, <5>1 DEF Busy
      <4> QED
        BY <4>1, <4>2
    <3>4. a \in Doomed(w)
      BY <1>6, <2>2, <3>1, <3>3 DEF Prune, Work
    <3>5. a \in Artifact /\ Covered(a)
      BY <1>2, <3>2, <3>4, DoomedCovered
    <3> QED
      BY <1>4, <3>5
  <2> QED
    BY <2>1, <2>2
<1> QED
  BY <1>1, <1>5, <1>6 DEF RetentionInv

\* "runner.prune": whatever runs of one job, by the clock, the tab and
\* sqlide-backup, overlap, prune at once, fail half-way or are killed, an
\* artifact is gone only if Keep newer ones of its job are still there: the
\* property NewestKept, for any number of jobs, workers and runs, as long as
\* no job's file names begin like another's (the run backups_prefix shows
\* what happens then).
THEOREM Retention == Prefix = {} /\ Spec => []NewestKept
<1> SUFFICES ASSUME Prefix = {} PROVE Spec => []NewestKept
  OBVIOUS
<1>1. Init => RetentionInv
  <2> SUFFICES ASSUME Init PROVE RetentionInv
    OBVIOUS
  <2>1. worker = [w \in Worker |-> Idle] /\ dest = {} /\ ever = {} /\ now = 1
    BY DEF Init
  <2>2. IsFiniteSet({})
    BY FS_EmptySet
  <2>3. 1 \in Time
    BY BackupAssumption DEF Time
  <2> QED
    BY <2>1, <2>2, <2>3 DEF RetentionInv, Busied, Uploaded
<1>2. RetentionInv /\ [Next]_vars => RetentionInv'
  BY RetentionStep, BackupAssumption
<1>3. RetentionInv => NewestKept
  BY DEF RetentionInv, NewestKept, Covered, Newers
<1> QED
  BY <1>1, <1>2, <1>3, PTL DEF Spec

-----------------------------------------------------------------------------
(* The clock's slots.                                                      *)

\* Counting numbers a set of naturals from 1, in its order.
LEMMA Ranked ==
  ASSUME NEW n \in Nat, NEW K \in SUBSET (1 .. n)
  PROVE  /\ Cardinality(K) \in Nat
         /\ \A i \in K : Rank(K, i) \in 1 .. Cardinality(K)
         /\ \A i, k \in K : i < k => Rank(K, i) < Rank(K, k)
         /\ \A m \in 1 .. Cardinality(K) : \E i \in K : Rank(K, i) = m
<1>1. IsFiniteSet(1 .. n)
  BY FS_Interval
<1>2. IsFiniteSet(K) /\ Cardinality(K) \in Nat
  BY <1>1, FS_Subset, FS_CardinalityType
<1> DEFINE Below(i) == {k \in K : k <= i}
<1>3. \A i : Rank(K, i) = Cardinality(Below(i))
  BY DEF Rank
<1>4. \A i : Below(i) \subseteq K
  OBVIOUS
<1>5. \A i \in K : i \in Below(i)
  OBVIOUS
<1>6. ASSUME NEW i \in K, NEW k \in K, i < k
      PROVE  Below(i) \subseteq Below(k) /\ k \notin Below(i)
  <2>1. i \in Nat /\ k \in Nat /\ \A l \in K : l \in Nat
    OBVIOUS
  <2>2. \A l \in Nat : l <= i => l <= k
    BY <1>6, <2>1
  <2>3. ~ (k <= i)
    BY <1>6, <2>1
  <2> QED
    BY <2>1, <2>2, <2>3
<1> HIDE DEF Below
<1>7. ASSUME NEW i \in K PROVE Rank(K, i) \in 1 .. Cardinality(K)
  <2>1. IsFiniteSet(Below(i)) /\ Cardinality(Below(i)) <= Cardinality(K)
    BY <1>2, <1>4, FS_Subset
  <2>2. Cardinality(Below(i)) \in Nat /\ Cardinality(Below(i)) # 0
    BY <1>5, <2>1, FS_CardinalityType, FS_EmptySet
  <2> QED
    BY <1>2, <1>3, <2>1, <2>2
<1>8. ASSUME NEW i \in K, NEW k \in K, i < k PROVE Rank(K, i) < Rank(K, k)
  <2>1. IsFiniteSet(Below(k))
    BY <1>2, <1>4, FS_Subset
  <2>2. Cardinality(Below(i)) <= Cardinality(Below(k)) /\ Cardinality(Below(i)) # Cardinality(Below(k))
    BY <1>5, <1>6, <1>8, <2>1, FS_Subset
  <2>3. Cardinality(Below(i)) \in Nat /\ Cardinality(Below(k)) \in Nat
    BY <1>2, <1>4, FS_Subset, FS_CardinalityType
  <2> QED
    BY <1>3, <2>2, <2>3
<1>9. ASSUME NEW m \in 1 .. Cardinality(K) PROVE \E i \in K : Rank(K, i) = m
  <2> DEFINE f == [i \in K |-> Rank(K, i)]
             T == 1 .. Cardinality(K)
  <2>1. f \in [K -> T]
    BY <1>7
  <2>2. \A i, k \in K : f[i] = f[k] => i = k
    <3> SUFFICES ASSUME NEW i \in K, NEW k \in K, Rank(K, i) = Rank(K, k) PROVE i = k
      OBVIOUS
    <3>1. i \in Nat /\ k \in Nat
      OBVIOUS
    <3>2. Rank(K, i) \in Nat
      BY <1>2, <1>7
    <3> QED
      BY <1>8, <3>1, <3>2
  <2>3. f \in Injection(K, T)
    BY <2>1, <2>2 DEF Injection, IsInjective
  <2>4. IsFiniteSet(T) /\ Cardinality(T) = Cardinality(K)
    BY <1>2, FS_Interval
  <2>5. f \in Surjection(K, T)
    BY <2>3, <2>4, FS_Injection
  <2>6. m \in T
    OBVIOUS
  <2>7. \E i \in K : f[i] = m
    BY <2>5, <2>6 DEF Surjection
  <2> QED
    BY <2>7
<1> QED
  BY <1>2, <1>7, <1>8, <1>9

\* i is where the newest run of job j stands among `runs'.
NewestAt(runs, j, i) ==
  /\ i \in DOMAIN runs /\ runs[i].job = j
  /\ \A k \in DOMAIN runs : runs[k].job = j => k <= i

\* Without the runs of one job, those of another are as they were.
LEMMA OthersStay ==
  ASSUME NEW runs \in Seq(Run), NEW j
  PROVE  /\ Without(runs, j) \in Seq(Run)
         /\ \A n \in DOMAIN Without(runs, j) : \E i \in DOMAIN runs : Without(runs, j)[n] = runs[i]
         /\ \A k, i : k # j /\ NewestAt(runs, k, i) =>
              \E n : NewestAt(Without(runs, j), k, n) /\ Without(runs, j)[n] = runs[i]
<1> DEFINE kept == {i \in DOMAIN runs : runs[i].job # j}
           new == Without(runs, j)
           at(n) == CHOOSE i \in kept : Rank(kept, i) = n
<1>1. Len(runs) \in Nat /\ DOMAIN runs = 1 .. Len(runs)
  BY LenProperties
<1>2. kept \in SUBSET (1 .. Len(runs))
  BY <1>1
<1>3. new = [n \in 1 .. Cardinality(kept) |-> runs[at(n)]]
  BY DEF Without
<1>4. \A i \in kept : i \in DOMAIN runs /\ runs[i] \in Run /\ i \in Nat
  BY <1>1, ElementOfSeq
<1>5. \A i \in DOMAIN runs : runs[i].job # j => i \in kept
  OBVIOUS
<1> HIDE DEF kept
<1>6. /\ Cardinality(kept) \in Nat
      /\ \A i \in kept : Rank(kept, i) \in 1 .. Cardinality(kept)
      /\ \A i, k \in kept : i < k => Rank(kept, i) < Rank(kept, k)
      /\ \A m \in 1 .. Cardinality(kept) : \E i \in kept : Rank(kept, i) = m
  BY <1>1, <1>2, Ranked
<1>7. ASSUME NEW m \in 1 .. Cardinality(kept) PROVE at(m) \in kept /\ Rank(kept, at(m)) = m
  BY <1>6
<1>8. ASSUME NEW i \in kept PROVE at(Rank(kept, i)) = i
  <2>1. at(Rank(kept, i)) \in kept /\ Rank(kept, at(Rank(kept, i))) = Rank(kept, i)
    BY <1>6, <1>7
  <2>2. Rank(kept, i) \in Nat
    BY <1>6
  <2> QED
    BY <1>4, <1>6, <2>1, <2>2
<1> HIDE DEF at
<1>9. new \in Seq(Run)
  <2>1. new \in [1 .. Cardinality(kept) -> Run]
    BY <1>3, <1>4, <1>7
  <2> QED
    BY <1>6, <2>1, SeqDef
<1>10. DOMAIN new = 1 .. Cardinality(kept)
  BY <1>3
<1>11. ASSUME NEW n \in DOMAIN new PROVE \E i \in DOMAIN runs : new[n] = runs[i]
  BY <1>3, <1>4, <1>7, <1>10, <1>11
<1>12. ASSUME NEW k, NEW i, k # j, NewestAt(runs, k, i)
       PROVE  \E n : NewestAt(new, k, n) /\ new[n] = runs[i]
  <2>1. i \in kept /\ runs[i].job = k
    BY <1>5, <1>12 DEF NewestAt
  <2>2. Rank(kept, i) \in DOMAIN new /\ new[Rank(kept, i)] = runs[i]
    BY <1>3, <1>6, <1>8, <2>1
  <2>3. ASSUME NEW m \in DOMAIN new, new[m].job = k PROVE m <= Rank(kept, i)
    <3>1. at(m) \in kept /\ Rank(kept, at(m)) = m /\ new[m] = runs[at(m)]
      BY <1>3, <1>7, <1>10
    <3>2. at(m) <= i
      BY <1>4, <1>12, <2>3, <3>1 DEF NewestAt
    <3>3. at(m) \in Nat /\ i \in Nat /\ m \in Nat /\ Rank(kept, i) \in Nat
      BY <1>4, <1>6, <1>10, <2>1, <3>1
    <3>4. at(m) = i \/ at(m) < i
      BY <3>2, <3>3
    <3> QED
      BY <1>6, <2>1, <3>1, <3>3, <3>4
  <2> QED
    BY <2>1, <2>2, <2>3 DEF NewestAt
<1> QED
  BY <1>9, <1>11, <1>12

\* A record is the newest run; of the runs before it, the history keeps a job's
\* newest or none.
LEMMA RecordedLast ==
  ASSUME BackupAssumption, NEW c \in Content, NEW run \in Run
  PROVE  LET d == Recorded(c, run)
         IN  /\ d \in Content /\ d.jobs = c.jobs
             /\ \A n \in DOMAIN d.runs :
                  d.runs[n] = run \/ \E i \in DOMAIN c.runs : d.runs[n] = c.runs[i]
             /\ \E n : NewestAt(d.runs, run.job, n) /\ d.runs[n] = run
             /\ \A k, i : k # run.job /\ NewestAt(c.runs, k, i) =>
                  \/ RunsFor(d, k) = {}
                  \/ \E n : NewestAt(d.runs, k, n) /\ d.runs[n] = c.runs[i]
<1> DEFINE d == Recorded(c, run)
           all == Append(c.runs, run)
<1>1. /\ c.jobs \in SUBSET Job /\ c.runs \in Seq(Run)
      /\ Len(c.runs) \in Nat /\ DOMAIN c.runs = 1 .. Len(c.runs)
  BY LenProperties DEF Content
<1>2. PICK len \in Nat : len = Len(c.runs)
  BY <1>1
<1>3. /\ all \in Seq(Run) /\ Len(all) = len + 1 /\ all[len + 1] = run
      /\ \A i \in 1 .. len : all[i] = c.runs[i]
  BY <1>1, <1>2, AppendProperties
<1>4. d = [jobs |-> c.jobs, runs |-> Newest(all)]
  BY <1>1 DEF Recorded, Content
<1> HIDE DEF all, d
<1>5. PICK off \in 0 .. len : Newest(all) = SubSeq(all, off + 1, len + 1)
  <2>1. CASE len + 1 > MaxRuns
    <3>1. len + 1 - MaxRuns \in 0 .. len /\ Newest(all) = SubSeq(all, (len + 1 - MaxRuns) + 1, len + 1)
      BY <1>3, <2>1 DEF Newest, BackupAssumption
    <3> QED
      BY <3>1
  <2>2. CASE ~ (len + 1 > MaxRuns)
    <3>1. Newest(all) = SubSeq(all, 0 + 1, len + 1)
      BY <1>3, <2>2 DEF Newest
    <3> QED
      BY <3>1
  <2> QED
    BY <2>1, <2>2
<1>6. /\ d.runs \in Seq(Run) /\ DOMAIN d.runs = 1 .. (len + 1 - off)
      /\ \A i \in 1 .. (len + 1 - off) : d.runs[i] = all[off + i]
  <2>1. SubSeq(all, off + 1, len + 1) \in Seq(Run)
    BY <1>3, SubSeqProperties
  <2>2. Len(SubSeq(all, off + 1, len + 1)) = len + 1 - off
    BY <1>3, SubSeqProperties
  <2>3. \A i \in 1 .. (len + 1 - off) : SubSeq(all, off + 1, len + 1)[i] = all[off + i]
    BY <1>3, SubSeqProperties
  <2>4. d.runs = SubSeq(all, off + 1, len + 1)
    BY <1>4, <1>5
  <2> QED
    BY <2>1, <2>2, <2>3, <2>4, LenProperties
<1>7. d \in Content /\ d.jobs = c.jobs
  BY <1>1, <1>4, <1>6 DEF Content
<1>8. ASSUME NEW n \in DOMAIN d.runs
      PROVE  /\ n \in 1 .. (len + 1 - off)
             /\ \/ n = len + 1 - off /\ d.runs[n] = run
                \/ off + n \in DOMAIN c.runs /\ d.runs[n] = c.runs[off + n]
  <2>1. n \in 1 .. (len + 1 - off) /\ d.runs[n] = all[off + n]
    BY <1>6
  <2>2. CASE off + n = len + 1
    BY <1>3, <2>1, <2>2
  <2>3. CASE off + n # len + 1
    BY <1>1, <1>2, <1>3, <2>1, <2>3
  <2> QED
    BY <2>1, <2>2, <2>3
<1>9. NewestAt(d.runs, run.job, len + 1 - off) /\ d.runs[len + 1 - off] = run
  BY <1>3, <1>6 DEF NewestAt
<1>10. ASSUME NEW k, NEW i, k # run.job, NewestAt(c.runs, k, i)
       PROVE  \/ RunsFor(d, k) = {}
              \/ \E n : NewestAt(d.runs, k, n) /\ d.runs[n] = c.runs[i]
  <2>1. i \in 1 .. len /\ c.runs[i].job = k
    BY <1>1, <1>2, <1>10 DEF NewestAt
  <2>2. ASSUME NEW n \in DOMAIN d.runs, d.runs[n].job = k PROVE off + n <= i
    <3>1. off + n \in DOMAIN c.runs /\ d.runs[n] = c.runs[off + n]
      BY <1>8, <1>10, <2>2
    <3> QED
      BY <1>10, <2>2, <3>1 DEF NewestAt
  <2>3. CASE off < i
    <3>1. i - off \in 1 .. (len + 1 - off) /\ off + (i - off) = i
      BY <2>1, <2>3
    <3>2. d.runs[i - off] = c.runs[i]
      BY <1>3, <1>6, <2>1, <3>1
    <3>3. \A n \in DOMAIN d.runs : d.runs[n].job = k => n <= i - off
      BY <1>6, <2>1, <2>2
    <3> QED
      BY <1>6, <2>1, <3>1, <3>2, <3>3 DEF NewestAt
  <2>4. CASE ~ (off < i)
    BY <1>6, <2>1, <2>2, <2>4 DEF RunsFor
  <2> QED
    BY <2>3, <2>4
<1>11. \A n \in DOMAIN d.runs : d.runs[n] = run \/ \E i \in DOMAIN c.runs : d.runs[n] = c.runs[i]
  BY <1>8
<1> QED
  BY <1>7, <1>9, <1>10, <1>11 DEF d
-----------------------------------------------------------------------------
Stored ==
  /\ DOMAIN store = Live(worker)
  /\ file \in Content /\ file.jobs \subseteq ids
  /\ \A s \in DOMAIN store : store[s] \in Content /\ store[s].jobs \subseteq ids
  /\ ids \subseteq Job /\ lost \subseteq Job
  /\ began \in [Job -> Time \cup {0}]
  /\ \A j \in Job : began[j] # 0 => j \in ids

\* No run in a list began after time t.
Past(runs, t) == \A i \in DOMAIN runs : runs[i].started <= t

\* Of the job whose run worker w is at, the runs in the copy it will write began
\* before it did.
Early(w) ==
  /\ worker[w].started <= now
  /\ worker[w].by = "clock" => Len(worker[w].todo) = 1
  /\ \A i \in DOMAIN store[worker[w].store].runs :
       store[worker[w].store].runs[i].job = JobOf(w) =>
         store[worker[w].store].runs[i].started <= worker[w].started

\* Whoever shares its copy runs another job, and only the threads of a tick do.
Apart(w) ==
  \A v \in Worker \ {w} : worker[v] # Idle /\ worker[v].store = worker[w].store =>
    JobOf(v) # JobOf(w) /\ Len(worker[w].todo) = 1

Tasks ==
  /\ Past(file.runs, now)
  /\ \A s \in DOMAIN store : Past(store[s].runs, now)
  /\ \A w \in Worker : worker[w] # Idle => Early(w) /\ Apart(w)

\* The run the clock started last is under way, or a run that began no earlier
\* is the newest of its job in the file.
Running(j)  == \E w \in Worker : /\ worker[w] # Idle /\ worker[w].by = "clock"
                                 /\ JobOf(w) = j /\ worker[w].started = began[j]
Recent(j)   == \E i \in DOMAIN file.runs : NewestAt(file.runs, j, i) /\ file.runs[i].started >= began[j]
Slotted(j)  == began[j] # 0 /\ j \in file.jobs /\ j \notin lost => Running(j) \/ Recent(j)

SlotInv ==
  /\ Busied /\ Uploaded /\ Stored /\ Tasks
  /\ \A j \in Job : Slotted(j)

-----------------------------------------------------------------------------
LEMMA TaskIs ==
  ASSUME NEW who, NEW s, NEW todo
  PROVE  /\ Task(who, s, todo) # Idle
         /\ Task(who, s, todo).by = who /\ Task(who, s, todo).store = s
         /\ Task(who, s, todo).todo = todo /\ Task(who, s, todo).started = now
<1>1. Task(who, s, todo).pc = "upload"
  BY DEF Task
<1>2. Idle.pc = "idle"
  BY DEF Idle
<1>3. Task(who, s, todo) # Idle
  BY <1>1, <1>2, Zenon
<1> QED
  BY <1>3 DEF Task

\* A worker at work and the copy it holds.
LEMMA Holding ==
  ASSUME Busied, Stored, Tasks, NEW w \in Worker, worker[w] # Idle
  PROVE  /\ worker[w] \in Busy /\ JobOf(w) \in Job
         /\ worker[w].store \in DOMAIN store /\ store[worker[w].store] \in Content
         /\ worker[w].started \in Time
<1>1. worker[w] \in Busy /\ worker[w].todo \in Seq(Job) /\ worker[w].todo # <<>>
  BY DEF Busied, Busy
<1>2. JobOf(w) \in Job
  BY <1>1, HeadTailProperties DEF JobOf
<1>3. worker[w].store \in DOMAIN store
  BY DEF Stored, Live
<1> QED
  BY <1>1, <1>2, <1>3 DEF Stored, Busy

\* What a worker does between its start and its record keeps its task.
LEMMA Stepping ==
  ASSUME Busied, NEW w \in Worker, Upload(w) \/ UploadFails(w) \/ Prune(w) \/ Delete(w)
  PROVE  \E b : /\ worker' = [worker EXCEPT ![w] = b]
                /\ b.pc \in {"record", "prune", "delete"} /\ b.store = worker[w].store
                /\ b.by = worker[w].by /\ b.todo = worker[w].todo
                /\ b.started = worker[w].started
<1>1. worker[w] \in Busy
  BY DEF Upload, UploadFails, Prune, Delete, Work, Busied
<1>2. CASE Fails(w)
  <2>1. /\ [worker[w] EXCEPT !.pc = "record", !.ok = FALSE].pc = "record"
        /\ [worker[w] EXCEPT !.pc = "record", !.ok = FALSE].store = worker[w].store
        /\ [worker[w] EXCEPT !.pc = "record", !.ok = FALSE].by = worker[w].by
        /\ [worker[w] EXCEPT !.pc = "record", !.ok = FALSE].todo = worker[w].todo
        /\ [worker[w] EXCEPT !.pc = "record", !.ok = FALSE].started = worker[w].started
    BY <1>1 DEF Busy
  <2> QED
    BY <1>2, <2>1 DEF Fails
<1>3. CASE Upload(w)
  <2>1. PICK pc \in {"record", "prune"} :
          worker' = [worker EXCEPT ![w] = [worker[w] EXCEPT !.pc = pc, !.ok = TRUE]]
    BY <1>3 DEF Upload
  <2> DEFINE b == [worker[w] EXCEPT !.pc = pc, !.ok = TRUE]
  <2>2. /\ b.pc = pc /\ b.store = worker[w].store /\ b.by = worker[w].by
        /\ b.todo = worker[w].todo /\ b.started = worker[w].started
    BY <1>1 DEF Busy
  <2>3. worker' = [worker EXCEPT ![w] = b]
    BY <2>1
  <2> HIDE DEF b
  <2> QED
    BY <2>2, <2>3
<1>4. CASE ~ Fails(w) /\ Prune(w)
  <2>1. PICK pc \in {"delete", "record"} :
          worker' = [worker EXCEPT ![w] = [worker[w] EXCEPT !.doomed = Doomed(w), !.pc = pc]]
    BY <1>4 DEF Prune
  <2> DEFINE b == [worker[w] EXCEPT !.doomed = Doomed(w), !.pc = pc]
  <2>2. /\ b.pc = pc /\ b.store = worker[w].store /\ b.by = worker[w].by
        /\ b.todo = worker[w].todo /\ b.started = worker[w].started
    BY <1>1 DEF Busy
  <2>3. worker' = [worker EXCEPT ![w] = b]
    BY <2>1
  <2> HIDE DEF b
  <2> QED
    BY <2>2, <2>3
<1>5. CASE ~ Fails(w) /\ Delete(w)
  <2>1. PICK a \in worker[w].doomed, pc \in {"delete", "record"} :
          worker' = [worker EXCEPT ![w] =
                       [worker[w] EXCEPT !.doomed = worker[w].doomed \ {a}, !.pc = pc]]
    BY <1>5, Deleting
  <2> DEFINE b == [worker[w] EXCEPT !.doomed = worker[w].doomed \ {a}, !.pc = pc]
  <2>2. /\ b.pc = pc /\ b.store = worker[w].store /\ b.by = worker[w].by
        /\ b.todo = worker[w].todo /\ b.started = worker[w].started
    BY <1>1 DEF Busy
  <2>3. worker' = [worker EXCEPT ![w] = b]
    BY <2>1
  <2> HIDE DEF b
  <2> QED
    BY <2>2, <2>3
<1> QED
  BY <1>2, <1>3, <1>4, <1>5 DEF UploadFails

\* A copy is saved.  If it is what the file says, the newest runs stay, but for
\* what the caller does to them.
LEMMA SaveStored ==
  ASSUME BackupAssumption, Busied, Stored, NEW s \in DOMAIN store, NEW c \in Content,
         c.jobs \subseteq ids', ids' \subseteq Job, ids \subseteq ids',
         Live(worker') \subseteq DOMAIN store, began' = began, Save(s, c)
  PROVE  Stored'
<1>1. /\ store' = [r \in Live(worker') |-> IF r = s THEN c ELSE store[r]]
      /\ file' = c
      /\ lost' = lost \cup (IF store[s] # file THEN Job ELSE Dropped(file, c))
  BY DEF Save
<1>2. Dropped(file, c) \subseteq Job
  BY DEF Dropped, Content
<1>3. lost' \subseteq Job
  BY <1>1, <1>2 DEF Stored
<1>4. \A r \in DOMAIN store' : store'[r] \in Content /\ store'[r].jobs \subseteq ids'
  BY <1>1 DEF Stored
<1>5. DOMAIN store' = Live(worker')
  BY <1>1
<1>6. file' \in Content /\ file'.jobs \subseteq ids'
  BY <1>1
<1>7. began' \in [Job -> Time \cup {0}] /\ \A j \in Job : began'[j] # 0 => j \in ids'
  BY DEF Stored
<1> QED
  BY <1>3, <1>4, <1>5, <1>6, <1>7 DEF Stored

LEMMA StoredStep ==
  ASSUME BackupAssumption, Busied, Uploaded, Stored, Tasks, [Next]_vars
  PROVE  Stored'
<1>0. worker \in [Worker -> Busy \cup {Idle}]
  BY DEF Busied
<1>1. CASE Tick
  <2>1. PICK s \in Worker, thread \in [DueJobs(file) -> Worker] :
          /\ \A j \in DueJobs(file) : worker[thread[j]] = Idle
          /\ store' = IF DueJobs(file) = {} THEN store ELSE Load(s)
          /\ worker' = [w \in Worker |->
                       IF \E j \in DueJobs(file) : thread[j] = w
                         THEN Task("clock", s, <<CHOOSE j \in DueJobs(file) : thread[j] = w>>)
                         ELSE worker[w]]
    BY <1>1 DEF Tick
  <2>2. /\ began' = [j \in Job |-> IF j \in DueJobs(file) THEN now ELSE began[j]]
        /\ UNCHANGED <<file, ids, lost>>
    BY <1>1 DEF Tick
  <2>3. DueJobs(file) \subseteq file.jobs
    BY DEF DueJobs
  <2>4. began' \in [Job -> Time \cup {0}] /\ \A j \in Job : began'[j] # 0 => j \in ids'
    BY <2>2, <2>3 DEF Stored, Uploaded
  <2>5. CASE DueJobs(file) = {}
    <3>1. worker' = worker /\ store' = store
      BY <1>0, <2>1, <2>5
    <3> QED
      BY <2>2, <2>4, <3>1 DEF Stored, Live
  <2>6. CASE DueJobs(file) # {}
    <3>1. store' = [r \in DOMAIN store \cup {s} |-> IF r = s THEN file ELSE store[r]]
      BY <2>1, <2>6 DEF Load
    <3>2. ASSUME NEW w \in Worker
          PROVE  \/ /\ \E j \in DueJobs(file) : thread[j] = w
                    /\ worker[w] = Idle /\ worker'[w] # Idle /\ worker'[w].store = s
                 \/ worker'[w] = worker[w]
      BY <2>1, TaskIs
    <3>3. \E w \in Worker : worker'[w] # Idle /\ worker'[w].store = s
      <4>1. PICK j \in DueJobs(file) : TRUE
        BY <2>6
      <4>2. worker'[thread[j]] = Task("clock", s, <<CHOOSE k \in DueJobs(file) : thread[k] = thread[j]>>)
        BY <2>1, <4>1
      <4> QED
        BY <2>1, <4>1, <4>2, TaskIs
    <3>4. Live(worker') = Live(worker) \cup {s}
      BY <3>2, <3>3 DEF Live
    <3> QED
      BY <2>2, <2>4, <3>1, <3>4 DEF Stored
  <2> QED
    BY <2>5, <2>6
<1>2. ASSUME NEW w \in Worker, NEW todo, Headless(w, todo) PROVE Stored'
  <2>1. /\ worker' = [worker EXCEPT ![w] = Task("user", w, todo)] /\ worker[w] = Idle
        /\ store' = [r \in DOMAIN store \cup {w} |-> IF r = w THEN file ELSE store[r]]
        /\ UNCHANGED <<file, ids, began, lost>>
    BY <1>2 DEF Headless, Load
  <2>2. worker'[w] # Idle /\ worker'[w].store = w /\ \A v \in Worker \ {w} : worker'[v] = worker[v]
    BY <1>0, <2>1, TaskIs
  <2>3. Live(worker') = Live(worker) \cup {w}
    BY <2>1, <2>2 DEF Live
  <2> QED
    BY <2>1, <2>3 DEF Stored
<1>3. CASE OpenTab
  <2>1. /\ store' = [r \in DOMAIN store \cup {"tab"} |-> IF r = "tab" THEN file ELSE store[r]]
        /\ UNCHANGED <<file, worker, ids, began, lost>>
    BY <1>3 DEF OpenTab, Load
  <2>2. "tab" \in DOMAIN store /\ Live(worker') = Live(worker)
    BY <2>1 DEF Stored, Live
  <2> QED
    BY <2>1, <2>2 DEF Stored
<1>4. "tab" \in DOMAIN store /\ store["tab"] \in Content /\ store["tab"].jobs \subseteq ids
  BY DEF Stored, Live
<1>5. ASSUME NEW j \in Job, NewJob(j) PROVE Stored'
  <2> DEFINE c == [store["tab"] EXCEPT !.jobs = store["tab"].jobs \cup {j}]
  <2>1. c \in Content /\ c.jobs = store["tab"].jobs \cup {j}
    BY <1>4 DEF Content
  <2>2. ids' = ids \cup {j} /\ began' = began /\ worker' = worker /\ Save("tab", c)
    BY <1>5 DEF NewJob
  <2> HIDE DEF c
  <2>3. ids' \subseteq Job /\ ids \subseteq ids' /\ c.jobs \subseteq ids'
    BY <1>4, <2>1, <2>2 DEF Stored
  <2>4. Live(worker') \subseteq DOMAIN store
    BY <2>2 DEF Stored
  <2> QED
    BY <1>4, <2>1, <2>2, <2>3, <2>4, SaveStored
<1>6. ASSUME NEW j \in Job, DeleteJob(j) PROVE Stored'
  <2> DEFINE c == [jobs |-> store["tab"].jobs \ {j}, runs |-> Without(store["tab"].runs, j)]
  <2>1. c \in Content /\ c.jobs \subseteq store["tab"].jobs
    BY <1>4, OthersStay DEF Content
  <2>2. ids' = ids /\ began' = began /\ worker' = worker /\ Save("tab", c)
    BY <1>6 DEF DeleteJob
  <2> HIDE DEF c
  <2>3. ids' \subseteq Job /\ ids \subseteq ids' /\ c.jobs \subseteq ids'
    BY <1>4, <2>1, <2>2 DEF Stored
  <2>4. Live(worker') \subseteq DOMAIN store
    BY <2>2 DEF Stored
  <2> QED
    BY <1>4, <2>1, <2>2, <2>3, <2>4, SaveStored
<1>7. ASSUME NEW w \in Worker, NEW j \in Job, RunNow(w, j) PROVE Stored'
  <2>1. /\ worker[w] = Idle /\ worker' = [worker EXCEPT ![w] = Task("user", "tab", <<j>>)]
        /\ ids' = ids /\ began' = began /\ Save("tab", store["tab"])
    BY <1>7 DEF RunNow
  <2>2. worker'[w].store = "tab" /\ \A v \in Worker \ {w} : worker'[v] = worker[v]
    BY <1>0, <2>1, TaskIs
  <2>3. Live(worker') \subseteq Live(worker)
    BY <2>2 DEF Live
  <2> QED
    BY <1>4, <2>1, <2>3, SaveStored DEF Stored
<1>8. ASSUME NEW w \in Worker, Record(w) PROVE Stored'
  <2> DEFINE s == worker[w].store
             run == [job |-> JobOf(w), started |-> worker[w].started, ok |-> worker[w].ok]
             next == IF Len(worker[w].todo) = 1 THEN Idle ELSE Task(worker[w].by, s, Tail(worker[w].todo))
  <2>1. /\ worker[w] # Idle /\ worker' = [worker EXCEPT ![w] = next]
        /\ ids' = ids /\ began' = began /\ Save(s, Recorded(store[s], run))
    BY <1>0, <1>8 DEF Record, Work
  <2>2. /\ worker[w] \in Busy /\ JobOf(w) \in Job
        /\ s \in DOMAIN store /\ store[s] \in Content
    BY <2>1, Holding
  <2>3. run \in Run
    BY <2>2 DEF Busy, Run
  <2>4. next = Idle \/ next.store = s
    BY TaskIs
  <2> HIDE DEF run, next
  <2>5. Recorded(store[s], run) \in Content /\ Recorded(store[s], run).jobs = store[s].jobs
    BY <2>2, <2>3, RecordedLast
  <2>6. \A v \in Worker : worker'[v] = IF v = w THEN next ELSE worker[v]
    BY <1>0, <2>1
  <2>7. Live(worker') \subseteq Live(worker)
    BY <2>1, <2>4, <2>6 DEF Live
  <2> QED
    BY <2>1, <2>2, <2>5, <2>7, SaveStored DEF Stored
<1>9. ASSUME NEW w \in Worker, Killed(w) PROVE Stored'
  <2>1. /\ worker' = [worker EXCEPT ![w] = Idle] /\ worker[w] # Idle
        /\ began' = IF worker[w].by = "clock" THEN [began EXCEPT ![JobOf(w)] = 0] ELSE began
        /\ store' = [r \in Live(worker') |-> store[r]]
        /\ UNCHANGED <<file, ids, lost>>
    BY <1>9 DEF Killed
  <2>2. Live(worker') \subseteq Live(worker)
    BY <1>0, <2>1 DEF Live
  <2>3. began' \in [Job -> Time \cup {0}] /\ \A j \in Job : began'[j] # 0 => j \in ids
    BY <2>1 DEF Stored
  <2> QED
    BY <2>1, <2>2, <2>3 DEF Stored
<1>10. ASSUME NEW w \in Worker, NEW b, worker[w] # Idle, b.store = worker[w].store, b # Idle,
              worker' = [worker EXCEPT ![w] = b], UNCHANGED <<file, store, ids, began, lost>>
       PROVE  Stored'
  <2>1. Live(worker') = Live(worker)
    BY <1>0, <1>10 DEF Live
  <2> QED
    BY <1>10, <2>1 DEF Stored
<1>11. ASSUME NEW w \in Worker, Upload(w) \/ UploadFails(w) \/ Prune(w) \/ Delete(w)
       PROVE  Stored'
  <2>1. worker[w] # Idle /\ worker[w] \in Busy /\ UNCHANGED <<file, store, ids, began, lost>>
    BY <1>11 DEF Upload, UploadFails, Prune, Delete, Work, Busied
  <2>2. PICK b : /\ worker' = [worker EXCEPT ![w] = b]
                 /\ b.pc \in {"record", "prune", "delete"} /\ b.store = worker[w].store
    BY <1>11, <2>1, Stepping
  <2>3. b # Idle
    BY <2>2 DEF Idle
  <2> QED
    BY <1>10, <2>1, <2>2, <2>3
<1>12. CASE Minute \/ UNCHANGED vars
  <2>1. UNCHANGED <<file, store, worker, ids, began, lost>>
    BY <1>12 DEF Minute, vars
  <2> QED
    BY <2>1 DEF Stored, Live
<1> QED
  BY <1>1, <1>2, <1>3, <1>5, <1>6, <1>7, <1>8, <1>9, <1>11, <1>12 DEF Next

\* A worker whose task stays, while its copy gains no run of its job, and nobody
\* joins it.
LEMMA TaskStays ==
  ASSUME Busied, Stored, Tasks, now' \in Time, now \in Time, now <= now',
         NEW w \in Worker, worker[w] # Idle,
         worker'[w].store = worker[w].store, worker'[w].by = worker[w].by,
         worker'[w].todo = worker[w].todo, worker'[w].started = worker[w].started,
         \A i \in DOMAIN store'[worker[w].store].runs :
           store'[worker[w].store].runs[i].job = JobOf(w) =>
             \E k \in DOMAIN store[worker[w].store].runs :
               store'[worker[w].store].runs[i] = store[worker[w].store].runs[k],
         \A v \in Worker \ {w} : worker'[v] # Idle /\ worker'[v].store = worker[w].store =>
           /\ worker[v] # Idle /\ worker[v].store = worker[w].store
           /\ worker'[v].todo = worker[v].todo
  PROVE  Early(w)' /\ Apart(w)'
<1>1. JobOf(w)' = JobOf(w)
  BY DEF JobOf
<1>2. Early(w) /\ Apart(w)
  BY DEF Tasks
<1>3. worker[w].started \in Time
  BY Holding
<1>4. worker[w].started <= now'
  BY <1>2, <1>3 DEF Early, Time
<1>5. \A i \in DOMAIN store'[worker[w].store].runs :
           store'[worker[w].store].runs[i].job = JobOf(w) =>
             store'[worker[w].store].runs[i].started <= worker[w].started
  BY <1>2 DEF Early
<1>6. Early(w)'
  BY <1>1, <1>2, <1>4, <1>5 DEF Early
<1>7. Apart(w)'
  BY <1>1, <1>2 DEF Apart, JobOf
<1> QED
  BY <1>6, <1>7

LEMMA PastMore ==
  ASSUME NEW c \in Content, NEW t \in Time, NEW u \in Time, t <= u, Past(c.runs, t)
  PROVE  Past(c.runs, u)
<1> SUFFICES ASSUME NEW i \in DOMAIN c.runs PROVE c.runs[i].started <= u
  BY DEF Past
<1>1. c.runs[i] \in Run
  BY ElementOfSeq, LenProperties DEF Content
<1> QED
  BY <1>1 DEF Past, Run, Time

LEMMA TasksStep ==
  ASSUME BackupAssumption, Busied, Uploaded, Stored, Tasks, [Next]_vars
  PROVE  Tasks'
<1>0. worker \in [Worker -> Busy \cup {Idle}] /\ now \in Time /\ now <= now /\ now' \in Time
  BY UploadedStep DEF Busied, Uploaded, Time
<1>t. "tab" \in DOMAIN store /\ store["tab"] \in Content /\ file \in Content
  BY DEF Stored, Live
<1>1. ASSUME NEW s \in Worker, s \notin DOMAIN store, UNCHANGED <<now, file>>,
             store' = [r \in DOMAIN store \cup {s} |-> IF r = s THEN file ELSE store[r]],
             NEW v \in Worker, worker'[v] = worker[v], worker[v] # Idle,
             \A u \in Worker : worker'[u] = worker[u] \/ worker'[u] = Idle \/ worker'[u].store = s
      PROVE  Early(v)' /\ Apart(v)'
  <2>1. worker[v].store # s /\ worker[v].store \in DOMAIN store
    BY <1>1, Holding
  <2>2. store'[worker[v].store] = store[worker[v].store]
    BY <1>1, <2>1
  <2> QED
    BY <1>0, <1>1, <2>1, <2>2, TaskStays
<1>2. ASSUME NEW s \in Worker, s \notin DOMAIN store, UNCHANGED <<now, file>>,
             store' = [r \in DOMAIN store \cup {s} |-> IF r = s THEN file ELSE store[r]]
      PROVE  /\ Past(file.runs, now)' /\ \A r \in DOMAIN store' : Past(store'[r].runs, now')
             /\ store'[s] = file
  BY <1>2 DEF Tasks
<1>3. ASSUME NEW v, NEW who, NEW s, NEW todo, worker'[v] = Task(who, s, todo),
             now' = now, Past(store'[s].runs, now), who = "clock" => Len(todo) = 1
      PROVE  Early(v)'
  <2>1. /\ worker'[v].started = now /\ worker'[v].by = who /\ worker'[v].store = s
        /\ worker'[v].todo = todo
    BY <1>3, TaskIs
  <2> QED
    BY <1>0, <1>3, <2>1 DEF Early, Past
<1>4. CASE Tick /\ DueJobs(file) = {}
  <2>1. UNCHANGED <<now, file, store>>
    BY <1>4 DEF Tick
  <2>2. worker' = worker
    BY <1>0, <1>4 DEF Tick
  <2> QED
    BY <2>1, <2>2 DEF Tasks, Early, Apart, JobOf
<1>5. CASE Tick /\ DueJobs(file) # {}
  <2>1. PICK s \in Worker, thread \in [DueJobs(file) -> Worker] :
          /\ s \notin DOMAIN store
          /\ \A j \in DueJobs(file) : worker[thread[j]] = Idle
          /\ store' = [r \in DOMAIN store \cup {s} |-> IF r = s THEN file ELSE store[r]]
          /\ worker' = [w \in Worker |->
                       IF \E j \in DueJobs(file) : thread[j] = w
                         THEN Task("clock", s, <<CHOOSE j \in DueJobs(file) : thread[j] = w>>)
                         ELSE worker[w]]
    BY <1>5 DEF Tick, Load
  <2>2. UNCHANGED <<now, file>>
    BY <1>5 DEF Tick
  <2> DEFINE due(w) == CHOOSE j \in DueJobs(file) : thread[j] = w
             New(w) == \E j \in DueJobs(file) : thread[j] = w
  <2>3. ASSUME NEW w \in Worker
        PROVE  IF New(w) THEN /\ worker'[w] = Task("clock", s, <<due(w)>>)
                              /\ thread[due(w)] = w /\ worker[w] = Idle
               ELSE worker'[w] = worker[w]
    BY <2>1
  <2> HIDE DEF due, New
  <2>4. ASSUME NEW w \in Worker, New(w)
        PROVE  worker'[w].store = s /\ worker'[w].todo = <<due(w)>> /\ worker'[w] # Idle
    <3>1. worker'[w] = Task("clock", s, <<due(w)>>)
      BY <2>3, <2>4
    <3> QED
      BY <3>1, TaskIs
  <2>5. \A w \in Worker : worker'[w] = worker[w] \/ worker'[w] = Idle \/ worker'[w].store = s
    BY <2>3, <2>4
  <2>6. Past(store'[s].runs, now)
    BY <1>2, <2>1, <2>2 DEF Tasks
  <2>7. ASSUME NEW w \in Worker, worker'[w] # Idle PROVE Early(w)' /\ Apart(w)'
    <3>1. CASE ~ New(w)
      BY <1>1, <2>1, <2>2, <2>3, <2>5, <2>7, <3>1
    <3>2. CASE New(w)
      <4>1. worker'[w] = Task("clock", s, <<due(w)>>) /\ Len(<<due(w)>>) = 1
        BY <2>3, <3>2
      <4>2. Early(w)'
        BY <1>3, <2>2, <2>6, <4>1
      <4>3. ASSUME NEW v \in Worker \ {w}, worker'[v] # Idle, worker'[v].store = worker'[w].store
            PROVE  JobOf(v)' # JobOf(w)' /\ Len(worker'[w].todo) = 1
        <5>1. worker'[w].store = s /\ worker'[w].todo = <<due(w)>> /\ thread[due(w)] = w
          BY <2>3, <2>4, <3>2
        <5>2. New(v)
          <6>1. CASE worker'[v] = worker[v]
            <7>1. s \in DOMAIN store
              BY <4>3, <5>1, <6>1, Holding
            <7> QED
              BY <2>1, <7>1
          <6> QED
            BY <2>3, <6>1
        <5>3. worker'[v].todo = <<due(v)>> /\ thread[due(v)] = v
          BY <2>3, <2>4, <5>2
        <5>4. JobOf(w)' = due(w) /\ JobOf(v)' = due(v)
          BY <5>1, <5>3 DEF JobOf
        <5> QED
          BY <5>1, <5>3, <5>4
      <4> QED
        BY <4>2, <4>3 DEF Apart
    <3> QED
      BY <3>1, <3>2
  <2> QED
    BY <1>2, <2>1, <2>2, <2>7 DEF Tasks
<1>6. ASSUME NEW w \in Worker, NEW todo, Headless(w, todo) PROVE Tasks'
  <2>1. /\ worker' = [worker EXCEPT ![w] = Task("user", w, todo)] /\ worker[w] = Idle
        /\ store' = [r \in DOMAIN store \cup {w} |-> IF r = w THEN file ELSE store[r]]
        /\ UNCHANGED <<now, file>> /\ w \notin DOMAIN store
    BY <1>6 DEF Headless, Load
  <2>2. worker'[w] = Task("user", w, todo) /\ \A v \in Worker \ {w} : worker'[v] = worker[v]
    BY <1>0, <2>1
  <2>3. worker'[w].store = w
    BY <2>2, TaskIs
  <2>4. ASSUME NEW v \in Worker, worker'[v] # Idle PROVE Early(v)' /\ Apart(v)'
    <3>1. CASE v # w
      BY <1>1, <2>1, <2>2, <2>3, <2>4, <3>1
    <3>2. CASE v = w
      <4>1. Early(w)'
        <5>1. Past(store'[w].runs, now) /\ now' = now
          BY <1>2, <2>1 DEF Tasks
        <5> QED
          BY <1>3, <2>2, <5>1
      <4>2. \A u \in Worker \ {w} : worker'[u] # Idle => worker'[u].store # w
        <5> SUFFICES ASSUME NEW u \in Worker \ {w}, worker[u] # Idle PROVE worker[u].store # w
          BY <2>2
        <5> QED
          BY <2>1, Holding
      <4> QED
        BY <2>3, <3>2, <4>1, <4>2 DEF Apart
    <3> QED
      BY <3>1, <3>2
  <2> QED
    BY <1>2, <2>1, <2>4 DEF Tasks
<1>7. CASE OpenTab
  <2>1. /\ store' = [r \in DOMAIN store \cup {"tab"} |-> IF r = "tab" THEN file ELSE store[r]]
        /\ UNCHANGED <<now, file, worker>>
        /\ \A w \in Worker : worker[w] # Idle => worker[w].store # "tab"
    BY <1>7 DEF OpenTab, Load
  <2>2. ASSUME NEW w \in Worker, worker[w] # Idle PROVE Early(w)' /\ Apart(w)'
    <3>1. store'[worker[w].store] = store[worker[w].store]
      BY <2>1, <2>2, Holding
    <3> QED
      BY <1>0, <2>1, <2>2, <3>1, TaskStays
  <2> QED
    BY <1>t, <2>1, <2>2 DEF Tasks
<1>8. ASSUME NEW c, NEW j \in Job, UNCHANGED <<now, worker>>, Save("tab", c),
             \A i \in DOMAIN c.runs : \E k \in DOMAIN store["tab"].runs : c.runs[i] = store["tab"].runs[k]
      PROVE  Tasks'
  <2>1. store' = [r \in Live(worker') |-> IF r = "tab" THEN c ELSE store[r]] /\ file' = c
    BY <1>8 DEF Save
  <2>2. DOMAIN store' = DOMAIN store
    BY <1>8, <2>1 DEF Stored
  <2>3. Past(c.runs, now)
    BY <1>t, <1>8 DEF Tasks, Past
  <2>4. ASSUME NEW w \in Worker, worker[w] # Idle PROVE Early(w)' /\ Apart(w)'
    <3>1. worker[w].store \in DOMAIN store
      BY <2>4, Holding
    <3>2. \A i \in DOMAIN store'[worker[w].store].runs :
             \E k \in DOMAIN store[worker[w].store].runs :
               store'[worker[w].store].runs[i] = store[worker[w].store].runs[k]
      BY <1>8, <2>1, <2>2, <3>1
    <3> QED
      BY <1>0, <1>8, <2>4, <3>2, TaskStays
  <2> QED
    BY <1>8, <2>1, <2>2, <2>3, <2>4 DEF Tasks
<1>9. ASSUME NEW j \in Job, NewJob(j) PROVE Tasks'
  <2> DEFINE c == [store["tab"] EXCEPT !.jobs = store["tab"].jobs \cup {j}]
  <2>1. c.runs = store["tab"].runs
    BY <1>t DEF Content
  <2>2. UNCHANGED <<now, worker>> /\ Save("tab", c)
    BY <1>9 DEF NewJob
  <2> HIDE DEF c
  <2> QED
    BY <1>8, <2>1, <2>2
<1>10. ASSUME NEW j \in Job, DeleteJob(j) PROVE Tasks'
  <2> DEFINE c == [jobs |-> store["tab"].jobs \ {j}, runs |-> Without(store["tab"].runs, j)]
  <2>1. c.runs = Without(store["tab"].runs, j) /\ store["tab"].runs \in Seq(Run)
    BY <1>t DEF Content
  <2>2. UNCHANGED <<now, worker>> /\ Save("tab", c)
    BY <1>10 DEF DeleteJob
  <2> HIDE DEF c
  <2>3. \A i \in DOMAIN c.runs : \E k \in DOMAIN store["tab"].runs : c.runs[i] = store["tab"].runs[k]
    BY <2>1, OthersStay
  <2> QED
    BY <1>8, <2>2, <2>3
<1>11. ASSUME NEW w \in Worker, NEW j \in Job, RunNow(w, j) PROVE Tasks'
  <2>1. /\ worker[w] = Idle /\ worker' = [worker EXCEPT ![w] = Task("user", "tab", <<j>>)]
        /\ now' = now /\ file' = store["tab"]
        /\ store' = [r \in Live(worker') |-> IF r = "tab" THEN store["tab"] ELSE store[r]]
        /\ \A v \in Worker : worker[v] # Idle => worker[v].store # "tab"
    BY <1>11 DEF RunNow, Save
  <2>2. worker'[w] = Task("user", "tab", <<j>>) /\ \A v \in Worker \ {w} : worker'[v] = worker[v]
    BY <1>0, <2>1
  <2>3. worker'[w].store = "tab" /\ worker'[w] # Idle
    BY <2>2, TaskIs
  <2>4. Live(worker') = Live(worker)
    BY <2>1, <2>2, <2>3 DEF Live
  <2>5. DOMAIN store' = DOMAIN store /\ \A r \in DOMAIN store : store'[r] = store[r]
    BY <2>1, <2>4 DEF Stored
  <2>6. ASSUME NEW v \in Worker, worker'[v] # Idle PROVE Early(v)' /\ Apart(v)'
    <3>1. CASE v # w
      <4>1. worker'[v] = worker[v] /\ worker[v] # Idle /\ worker[v].store # "tab"
        BY <2>1, <2>2, <2>6, <3>1
      <4>2. \A u \in Worker \ {v} : worker'[u] # Idle /\ worker'[u].store = worker[v].store =>
              worker'[u] = worker[u]
        BY <2>2, <2>3, <4>1
      <4>3. store'[worker[v].store] = store[worker[v].store]
        BY <2>5, <4>1, Holding
      <4> QED
        BY <1>0, <2>1, <4>1, <4>2, <4>3, TaskStays
    <3>2. CASE v = w
      <4>1. Early(w)'
        <5>1. Past(store'["tab"].runs, now')
          BY <1>t, <2>1, <2>5 DEF Tasks
        <5> QED
          BY <1>3, <2>1, <2>2, <5>1
      <4>2. \A u \in Worker \ {w} : worker'[u] # Idle => worker'[u].store # "tab"
        BY <2>1, <2>2
      <4> QED
        BY <2>3, <3>2, <4>1, <4>2 DEF Apart
    <3> QED
      BY <3>1, <3>2
  <2> QED
    BY <1>t, <2>1, <2>5, <2>6 DEF Tasks
<1>12. ASSUME NEW w \in Worker, Record(w) PROVE Tasks'
  <2> DEFINE s == worker[w].store
             run == [job |-> JobOf(w), started |-> worker[w].started, ok |-> worker[w].ok]
             c == Recorded(store[s], run)
             next == IF Len(worker[w].todo) = 1 THEN Idle ELSE Task(worker[w].by, s, Tail(worker[w].todo))
  <2>1. /\ worker[w] # Idle /\ worker' = [worker EXCEPT ![w] = next] /\ now' = now
        /\ file' = c /\ store' = [r \in Live(worker') |-> IF r = s THEN c ELSE store[r]]
    BY <1>0, <1>12 DEF Record, Work, Save
  <2>2. /\ worker[w] \in Busy /\ JobOf(w) \in Job
        /\ s \in DOMAIN store /\ store[s] \in Content
    BY <2>1, Holding
  <2>3. run \in Run /\ run.job = JobOf(w) /\ run.started = worker[w].started
    BY <2>2 DEF Busy, Run
  <2>4. /\ Len(worker[w].todo) = 1 => next = Idle
        /\ Len(worker[w].todo) # 1 => next = Task(worker[w].by, s, Tail(worker[w].todo))
    OBVIOUS
  <2> HIDE DEF run, next
  <2>5. \A n \in DOMAIN c.runs :
          c.runs[n] = run \/ \E i \in DOMAIN store[s].runs : c.runs[n] = store[s].runs[i]
    BY <2>2, <2>3, RecordedLast
  <2> HIDE DEF c
  <2>6. worker'[w] = next /\ \A v \in Worker \ {w} : worker'[v] = worker[v]
    BY <1>0, <2>1
  <2>7. Early(w) /\ Apart(w)
    BY <2>1 DEF Tasks
  <2>8. Past(c.runs, now)
    BY <2>2, <2>3, <2>5, <2>7 DEF Past, Tasks, Early
  <2>9. Live(worker') \subseteq DOMAIN store
    BY <2>1, <2>4, <2>6, TaskIs DEF Live, Stored
  <2>10. ASSUME NEW v \in Worker, worker'[v] # Idle PROVE Early(v)' /\ Apart(v)'
    <3>1. CASE v # w
      <4>1. worker'[v] = worker[v] /\ worker[v] # Idle
        BY <2>6, <2>10, <3>1
      <4>2. Apart(v) /\ worker[v].store \in Live(worker')
        BY <2>10, <4>1 DEF Tasks, Live
      <4>3. ASSUME NEW i \in DOMAIN store'[worker[v].store].runs,
                   store'[worker[v].store].runs[i].job = JobOf(v)
            PROVE  \E k \in DOMAIN store[worker[v].store].runs :
                     store'[worker[v].store].runs[i] = store[worker[v].store].runs[k]
        <5>1. CASE worker[v].store = s
          <6>1. store'[worker[v].store] = c
            BY <2>1, <4>2, <5>1
          <6>2. JobOf(v) # JobOf(w)
            BY <2>1, <3>1, <4>1, <4>2, <5>1 DEF Apart
          <6> QED
            BY <2>3, <2>5, <4>3, <5>1, <6>1, <6>2
        <5>2. CASE worker[v].store # s
          BY <2>1, <4>2, <5>2
        <5> QED
          BY <5>1, <5>2
      <4>4. ASSUME NEW u \in Worker \ {v}, worker'[u] # Idle, worker'[u].store = worker[v].store
            PROVE  /\ worker[u] # Idle /\ worker[u].store = worker[v].store
                   /\ worker'[u].todo = worker[u].todo
        <5>1. CASE u # w
          BY <2>6, <4>4, <5>1
        <5>2. CASE u = w
          <6>1. Len(worker[w].todo) # 1 /\ next.store = s
            BY <2>4, <2>6, <4>4, <5>2, TaskIs
          <6>2. worker[v].store = s
            BY <2>6, <4>4, <5>2, <6>1
          <6> QED
            BY <2>7, <3>1, <4>1, <6>1, <6>2 DEF Apart
        <5> QED
          BY <5>1, <5>2
      <4> QED
        BY <1>0, <2>1, <4>1, <4>3, <4>4, TaskStays
    <3>2. CASE v = w
      <4>1. Len(worker[w].todo) # 1 /\ worker'[w] = Task(worker[w].by, s, Tail(worker[w].todo))
        BY <2>4, <2>6, <2>10, <3>2
      <4>2. worker[w].by # "clock" /\ worker'[w].store = s
        BY <2>7, <4>1, TaskIs DEF Early
      <4>3. Early(w)'
        <5>1. s \in Live(worker')
          BY <2>10, <3>2, <4>2 DEF Live
        <5>2. Past(store'[s].runs, now)
          BY <2>1, <2>8, <5>1
        <5> QED
          BY <1>3, <2>1, <4>1, <4>2, <5>2
      <4>4. \A u \in Worker \ {w} : worker'[u] # Idle => worker'[u].store # s
        BY <2>6, <2>7, <4>1 DEF Apart
      <4> QED
        BY <3>2, <4>2, <4>3, <4>4 DEF Apart
    <3> QED
      BY <3>1, <3>2
  <2>11. \A r \in DOMAIN store' : Past(store'[r].runs, now')
    BY <2>1, <2>8, <2>9 DEF Tasks
  <2>12. Past(file'.runs, now')
    BY <2>1, <2>8
  <2> QED
    BY <2>10, <2>11, <2>12 DEF Tasks
<1>13. ASSUME NEW w \in Worker, Killed(w) PROVE Tasks'
  <2>1. /\ worker' = [worker EXCEPT ![w] = Idle] /\ UNCHANGED <<now, file>>
        /\ store' = [r \in Live(worker') |-> store[r]]
    BY <1>13 DEF Killed
  <2>2. \A v \in Worker : worker'[v] # Idle => worker'[v] = worker[v]
    BY <1>0, <2>1
  <2>3. Live(worker') \subseteq DOMAIN store
    BY <2>2 DEF Live, Stored
  <2>4. ASSUME NEW v \in Worker, worker'[v] # Idle PROVE Early(v)' /\ Apart(v)'
    <3>1. worker'[v] = worker[v] /\ worker[v].store \in Live(worker')
      BY <2>2, <2>4 DEF Live
    <3>2. store'[worker[v].store] = store[worker[v].store]
      BY <2>1, <3>1
    <3> QED
      BY <1>0, <2>1, <2>2, <2>4, <3>1, <3>2, TaskStays
  <2> QED
    BY <2>1, <2>3, <2>4 DEF Tasks
<1>14. ASSUME NEW w \in Worker, Upload(w) \/ UploadFails(w) \/ Prune(w) \/ Delete(w)
       PROVE  Tasks'
  <2>1. worker[w] # Idle /\ UNCHANGED <<now, file, store>>
    BY <1>14 DEF Upload, UploadFails, Prune, Delete, Work
  <2>2. PICK b : /\ worker' = [worker EXCEPT ![w] = b]
                 /\ b.store = worker[w].store /\ b.by = worker[w].by
                 /\ b.todo = worker[w].todo /\ b.started = worker[w].started
    BY <1>14, Stepping
  <2>3. \A v \in Worker : worker'[v] # Idle =>
          /\ worker[v] # Idle /\ worker'[v].store = worker[v].store /\ worker'[v].by = worker[v].by
          /\ worker'[v].todo = worker[v].todo /\ worker'[v].started = worker[v].started
    BY <1>0, <2>1, <2>2
  <2>4. ASSUME NEW v \in Worker, worker'[v] # Idle PROVE Early(v)' /\ Apart(v)'
    BY <1>0, <2>1, <2>3, <2>4, TaskStays
  <2> QED
    BY <2>1, <2>4 DEF Tasks
<1>15. CASE Minute
  <2>1. now' = now + 1 /\ UNCHANGED <<file, store, worker>>
    BY <1>15 DEF Minute
  <2>2. now <= now'
    BY <1>0, <2>1 DEF Time
  <2>3. Past(file.runs, now') /\ \A r \in DOMAIN store : Past(store[r].runs, now')
    BY <1>0, <1>t, <2>2, PastMore DEF Tasks, Stored
  <2>4. ASSUME NEW v \in Worker, worker'[v] # Idle PROVE Early(v)' /\ Apart(v)'
    BY <1>0, <2>1, <2>2, <2>4, TaskStays
  <2> QED
    BY <2>1, <2>3, <2>4 DEF Tasks
<1>16. CASE UNCHANGED vars
  BY <1>16 DEF Tasks, Early, Apart, JobOf, vars
<1> QED
  BY <1>4, <1>5, <1>6, <1>7, <1>9, <1>10, <1>11, <1>12, <1>13, <1>14, <1>15, <1>16 DEF Next

\* Runs under way go on, and the file keeps its newest run of the job or gets one
\* that began no earlier.
LEMMA SlotKept ==
  ASSUME NEW j \in Job, Slotted(j), began'[j] = began[j], j \in file.jobs, j \notin lost,
         NEW W1 \in SUBSET Worker,
         \A w \in W1 : worker[w] # Idle =>
           /\ worker'[w] # Idle /\ worker'[w].by = worker[w].by
           /\ worker'[w].todo = worker[w].todo /\ worker'[w].started = worker[w].started,
         \A w \in Worker \ W1 : worker[w] # Idle /\ worker[w].by = "clock" /\ JobOf(w) = j
                                  /\ worker[w].started = began[j] => Recent(j)',
         \A i : NewestAt(file.runs, j, i) /\ file.runs[i].started >= began[j] => Recent(j)'
  PROVE  Slotted(j)'
<1>1. CASE began[j] # 0
  <2>1. CASE Running(j)
    <3>1. PICK w \in Worker : /\ worker[w] # Idle /\ worker[w].by = "clock"
                              /\ JobOf(w) = j /\ worker[w].started = began[j]
      BY <2>1 DEF Running
    <3>2. CASE w \in W1
      <4>1. JobOf(w)' = j
        BY <3>1, <3>2 DEF JobOf
      <4> QED
        BY <3>1, <3>2, <4>1 DEF Slotted, Running
    <3> QED
      BY <3>1, <3>2 DEF Slotted
  <2>2. CASE Recent(j)
    BY <2>2 DEF Recent, Slotted
  <2> QED
    BY <1>1, <2>1, <2>2 DEF Slotted
<1>2. CASE began[j] = 0
  BY <1>2 DEF Slotted
<1> QED
  BY <1>1, <1>2

LEMMA SlotStep ==
  ASSUME BackupAssumption, SlotInv, [Next]_vars, NEW j \in Job
  PROVE  Slotted(j)'
<1>0. /\ worker \in [Worker -> Busy \cup {Idle}] /\ now \in Time /\ Slotted(j)
      /\ Busied /\ Stored /\ Tasks
  BY DEF Busied, Uploaded, SlotInv
<1>1. ASSUME UNCHANGED <<began, file, lost>>,
             \A w \in Worker : worker[w] # Idle => worker'[w] = worker[w]
      PROVE  Slotted(j)'
  <2>1. CASE j \in file.jobs /\ j \notin lost
    <3>1. \A i : NewestAt(file.runs, j, i) /\ file.runs[i].started >= began[j] => Recent(j)'
      BY <1>1 DEF Recent, NewestAt
    <3> QED
      BY <1>0, <1>1, <2>1, <3>1, SlotKept
  <2>2. CASE ~ (j \in file.jobs /\ j \notin lost)
    BY <1>1, <2>2 DEF Slotted
  <2> QED
    BY <2>1, <2>2
<1>2. CASE Tick /\ j \in DueJobs(file)
  <2>1. PICK s \in Worker, thread \in [DueJobs(file) -> Worker] :
          /\ \A k, l \in DueJobs(file) : thread[k] = thread[l] => k = l
          /\ worker' = [w \in Worker |->
                       IF \E k \in DueJobs(file) : thread[k] = w
                         THEN Task("clock", s, <<CHOOSE k \in DueJobs(file) : thread[k] = w>>)
                         ELSE worker[w]]
    BY <1>2 DEF Tick
  <2>2. PICK w \in Worker : w = thread[j]
    BY <1>2, <2>1
  <2>3. (CHOOSE k \in DueJobs(file) : thread[k] = w) = j
    BY <1>2, <2>1, <2>2
  <2>4. worker'[w] = Task("clock", s, <<j>>)
    BY <1>2, <2>1, <2>2, <2>3
  <2>5. /\ worker'[w] # Idle /\ worker'[w].by = "clock" /\ worker'[w].started = now
        /\ JobOf(w)' = j
    BY <2>4, TaskIs DEF JobOf
  <2>6. began'[j] = now
    BY <1>2 DEF Tick
  <2> QED
    BY <2>5, <2>6 DEF Slotted, Running
<1>3. CASE Tick /\ j \notin DueJobs(file)
  <2>1. began'[j] = began[j] /\ UNCHANGED <<file, lost>>
    BY <1>3 DEF Tick
  <2>2. PICK s \in Worker, thread \in [DueJobs(file) -> Worker] :
          /\ \A k \in DueJobs(file) : worker[thread[k]] = Idle
          /\ worker' = [w \in Worker |->
                       IF \E k \in DueJobs(file) : thread[k] = w
                         THEN Task("clock", s, <<CHOOSE k \in DueJobs(file) : thread[k] = w>>)
                         ELSE worker[w]]
    BY <1>3 DEF Tick
  <2>3. \A w \in Worker : worker[w] # Idle => worker'[w] = worker[w]
    BY <2>2
  <2>4. CASE j \in file.jobs /\ j \notin lost
    <3>1. \A i : NewestAt(file.runs, j, i) /\ file.runs[i].started >= began[j] => Recent(j)'
      BY <2>1 DEF Recent, NewestAt
    <3> QED
      BY <1>0, <2>1, <2>3, <2>4, <3>1, SlotKept
  <2>5. CASE ~ (j \in file.jobs /\ j \notin lost)
    BY <2>1, <2>5 DEF Slotted
  <2> QED
    BY <2>4, <2>5
<1>4. ASSUME NEW w \in Worker, NEW todo, Headless(w, todo) PROVE Slotted(j)'
  <2>1. /\ UNCHANGED <<began, file, lost>> /\ worker[w] = Idle
        /\ worker' = [worker EXCEPT ![w] = Task("user", w, todo)]
    BY <1>4 DEF Headless
  <2>2. \A v \in Worker : worker[v] # Idle => worker'[v] = worker[v]
    BY <1>0, <2>1
  <2> QED
    BY <1>1, <2>1, <2>2
<1>5. CASE OpenTab
  <2>1. UNCHANGED <<began, file, lost, worker>>
    BY <1>5 DEF OpenTab
  <2> QED
    BY <1>1, <2>1
<1>6. ASSUME NEW s \in DOMAIN store, NEW c \in Content, Save(s, c), began' = began,
             began[j] # 0 /\ j \in c.jobs => j \in store[s].jobs,
             NEW W1 \in SUBSET Worker,
             \A w \in W1 : worker[w] # Idle =>
               /\ worker'[w] # Idle /\ worker'[w].by = worker[w].by
               /\ worker'[w].todo = worker[w].todo /\ worker'[w].started = worker[w].started,
             \A w \in Worker \ W1 : worker[w] # Idle /\ JobOf(w) = j
                                      /\ worker[w].started = began[j] =>
               \E n : NewestAt(c.runs, j, n) /\ c.runs[n].started >= began[j],
             \A i : j \in c.jobs /\ NewestAt(store[s].runs, j, i) /\ store[s].runs[i].started >= began[j] =>
               \/ RunsFor(c, j) = {}
               \/ \E n : NewestAt(c.runs, j, n) /\ c.runs[n].started >= began[j]
      PROVE  Slotted(j)'
  <2>1. SUFFICES ASSUME began[j] # 0, j \in c.jobs, j \notin lost' PROVE Slotted(j)'
    BY <1>6 DEF Slotted, Save
  <2>2. /\ file' = c /\ lost' = lost \cup (IF store[s] # file THEN Job ELSE Dropped(file, c))
    BY <1>6 DEF Save
  <2>3. store[s] = file /\ j \notin lost /\ j \notin Dropped(file, c)
    BY <2>1, <2>2
  <2>4. j \in file.jobs
    BY <1>6, <2>1, <2>3
  <2>5. (\E n : NewestAt(c.runs, j, n) /\ c.runs[n].started >= began[j]) => Recent(j)'
    BY <1>6, <2>2 DEF Recent, NewestAt
  <2>6. ASSUME NEW i, NewestAt(file.runs, j, i), file.runs[i].started >= began[j]
        PROVE  Recent(j)'
    <3>1. i \in RunsFor(file, j)
      BY <2>6 DEF RunsFor, NewestAt
    <3>2. RunsFor(c, j) # {}
      BY <2>1, <2>3, <3>1 DEF Dropped
    <3> QED
      BY <1>6, <2>1, <2>3, <2>5, <2>6, <3>2
  <2>7. \A w \in Worker \ W1 : worker[w] # Idle /\ JobOf(w) = j
                                 /\ worker[w].started = began[j] => Recent(j)'
    BY <1>6, <2>5
  <2> QED
    BY <1>0, <1>6, <2>3, <2>4, <2>6, <2>7, SlotKept
<1>7. "tab" \in DOMAIN store /\ store["tab"] \in Content
  BY <1>0 DEF Stored, Live
<1>8. ASSUME NEW k \in Job, NewJob(k) PROVE Slotted(j)'
  <2> DEFINE c == [store["tab"] EXCEPT !.jobs = store["tab"].jobs \cup {k}]
  <2>1. c \in Content /\ c.jobs = store["tab"].jobs \cup {k} /\ c.runs = store["tab"].runs
    BY <1>7 DEF Content
  <2>2. k \notin ids /\ began' = began /\ worker' = worker /\ Save("tab", c)
    BY <1>8 DEF NewJob
  <2> HIDE DEF c
  <2>3. began[j] # 0 /\ j \in c.jobs => j \in store["tab"].jobs
    BY <1>0, <2>1, <2>2 DEF Stored
  <2>4. \A w \in Worker : worker'[w] = worker[w]
    BY <2>2
  <2> QED
    BY <1>6, <1>7, <2>1, <2>2, <2>3, <2>4
<1>9. ASSUME NEW k \in Job, DeleteJob(k) PROVE Slotted(j)'
  <2> DEFINE c == [jobs |-> store["tab"].jobs \ {k}, runs |-> Without(store["tab"].runs, k)]
  <2>1. /\ c \in Content /\ c.jobs = store["tab"].jobs \ {k}
        /\ c.runs = Without(store["tab"].runs, k) /\ store["tab"].runs \in Seq(Run)
    BY <1>7, OthersStay DEF Content
  <2>2. began' = began /\ worker' = worker /\ Save("tab", c)
    BY <1>9 DEF DeleteJob
  <2> HIDE DEF c
  <2>3. \A w \in Worker : worker'[w] = worker[w]
    BY <2>2
  <2>4. ASSUME NEW i, j \in c.jobs, NewestAt(store["tab"].runs, j, i),
               store["tab"].runs[i].started >= began[j]
        PROVE  \E n : NewestAt(c.runs, j, n) /\ c.runs[n].started >= began[j]
    <3>1. j # k
      BY <2>1, <2>4
    <3>2. PICK n : NewestAt(c.runs, j, n) /\ c.runs[n] = store["tab"].runs[i]
      BY <2>1, <2>4, <3>1, OthersStay
    <3> QED
      BY <2>4, <3>2
  <2> QED
    BY <1>6, <1>7, <2>1, <2>2, <2>3, <2>4
<1>10. ASSUME NEW w \in Worker, NEW k \in Job, RunNow(w, k) PROVE Slotted(j)'
  <2>1. /\ worker[w] = Idle /\ worker' = [worker EXCEPT ![w] = Task("user", "tab", <<k>>)]
        /\ began' = began /\ Save("tab", store["tab"])
    BY <1>10 DEF RunNow
  <2>2. \A v \in Worker : worker[v] # Idle => worker'[v] = worker[v]
    BY <1>0, <2>1
  <2> QED
    BY <1>6, <1>7, <2>1, <2>2
<1>11. ASSUME NEW w \in Worker, Record(w) PROVE Slotted(j)'
  <2> DEFINE s == worker[w].store
             run == [job |-> JobOf(w), started |-> worker[w].started, ok |-> worker[w].ok]
             c == Recorded(store[s], run)
             next == IF Len(worker[w].todo) = 1 THEN Idle ELSE Task(worker[w].by, s, Tail(worker[w].todo))
  <2>1. /\ worker[w] # Idle /\ worker' = [worker EXCEPT ![w] = next]
        /\ began' = began /\ Save(s, c)
    BY <1>0, <1>11 DEF Record, Work
  <2>2. /\ worker[w] \in Busy /\ JobOf(w) \in Job
        /\ s \in DOMAIN store /\ store[s] \in Content
    BY <1>0, <2>1, Holding
  <2>3. run \in Run /\ run.job = JobOf(w) /\ run.started = worker[w].started
    BY <2>2 DEF Busy, Run
  <2> HIDE DEF run, next
  <2>4. /\ c \in Content /\ c.jobs = store[s].jobs
        /\ \E n : NewestAt(c.runs, JobOf(w), n) /\ c.runs[n] = run
        /\ \A k, i : k # JobOf(w) /\ NewestAt(store[s].runs, k, i) =>
                  \/ RunsFor(c, k) = {}
                  \/ \E n : NewestAt(c.runs, k, n) /\ c.runs[n] = store[s].runs[i]
    <3>1. /\ c \in Content /\ c.jobs = store[s].jobs
          /\ \E n : NewestAt(c.runs, run.job, n) /\ c.runs[n] = run
          /\ \A k, i : k # run.job /\ NewestAt(store[s].runs, k, i) =>
                  \/ RunsFor(c, k) = {}
                  \/ \E n : NewestAt(c.runs, k, n) /\ c.runs[n] = store[s].runs[i]
      BY <2>2, <2>3, RecordedLast
    <3> HIDE DEF c
    <3> QED
      BY <2>3, <3>1
  <2> HIDE DEF c
  <2>5. \A v \in Worker \ {w} : worker'[v] = worker[v]
    BY <1>0, <2>1
  <2>a. \A v \in Worker \ {w} : worker[v] # Idle =>
               /\ worker'[v] # Idle /\ worker'[v].by = worker[v].by
               /\ worker'[v].todo = worker[v].todo /\ worker'[v].started = worker[v].started
    BY <2>5
  <2>b. began[j] # 0 /\ j \in c.jobs => j \in store[s].jobs
    BY <2>4
  <2>6. began[j] \in Nat /\ worker[w].started \in Nat
    BY <1>0, <2>2 DEF Stored, Busy, Time
  <2>7. CASE j = JobOf(w)
    <3>1. PICK n : NewestAt(c.runs, j, n) /\ c.runs[n].started = worker[w].started
      BY <2>3, <2>4, <2>7
    <3>2. worker[w].started = began[j] => c.runs[n].started >= began[j]
      BY <2>6, <3>1
    <3>3. ASSUME NEW i, NewestAt(store[s].runs, j, i), store[s].runs[i].started >= began[j]
          PROVE  c.runs[n].started >= began[j]
      <4>1. Early(w)
        BY <1>0, <2>1 DEF Tasks
      <4>2. store[s].runs[i].started <= worker[w].started
        BY <2>7, <3>3, <4>1 DEF Early, NewestAt
      <4>3. store[s].runs[i] \in Run
        BY <2>2, <3>3, ElementOfSeq, LenProperties DEF Content, NewestAt
      <4>4. store[s].runs[i].started \in Nat
        BY <4>3 DEF Run, Time
      <4> QED
        BY <2>6, <3>1, <3>3, <4>2, <4>4
    <3>4. \A v \in Worker \ (Worker \ {w}) : v = w
      OBVIOUS
    <3>5. \A v \in Worker \ (Worker \ {w}) : worker[v] # Idle /\ JobOf(v) = j
                                      /\ worker[v].started = began[j] =>
               \E m : NewestAt(c.runs, j, m) /\ c.runs[m].started >= began[j]
      BY <3>1, <3>2, <3>4
    <3>6. \A i : j \in c.jobs /\ NewestAt(store[s].runs, j, i) /\ store[s].runs[i].started >= began[j] =>
               \/ RunsFor(c, j) = {}
               \/ \E m : NewestAt(c.runs, j, m) /\ c.runs[m].started >= began[j]
      BY <3>1, <3>3
    <3> HIDE DEF s
    <3> QED
      BY <1>6, <2>1, <2>2, <2>4, <2>a, <2>b, <3>5, <3>6
  <2>8. CASE j # JobOf(w)
    <3>1. ASSUME NEW i, NewestAt(store[s].runs, j, i), store[s].runs[i].started >= began[j]
          PROVE  \/ RunsFor(c, j) = {}
                 \/ \E n : NewestAt(c.runs, j, n) /\ c.runs[n].started >= began[j]
      BY <2>4, <2>8, <3>1
    <3>2. \A v \in Worker \ (Worker \ {w}) : JobOf(v) # j
      BY <2>8
    <3>3. \A v \in Worker \ (Worker \ {w}) : worker[v] # Idle /\ JobOf(v) = j
                                      /\ worker[v].started = began[j] =>
               \E m : NewestAt(c.runs, j, m) /\ c.runs[m].started >= began[j]
      BY <3>2
    <3>4. \A i : j \in c.jobs /\ NewestAt(store[s].runs, j, i) /\ store[s].runs[i].started >= began[j] =>
               \/ RunsFor(c, j) = {}
               \/ \E m : NewestAt(c.runs, j, m) /\ c.runs[m].started >= began[j]
      BY <3>1
    <3> HIDE DEF s
    <3> QED
      BY <1>6, <2>1, <2>2, <2>4, <2>a, <2>b, <3>3, <3>4
  <2> QED
    BY <2>7, <2>8
<1>12. ASSUME NEW w \in Worker, Killed(w) PROVE Slotted(j)'
  <2>1. /\ worker' = [worker EXCEPT ![w] = Idle] /\ worker[w] # Idle
        /\ began' = IF worker[w].by = "clock" THEN [began EXCEPT ![JobOf(w)] = 0] ELSE began
        /\ UNCHANGED <<file, lost>>
    BY <1>12 DEF Killed
  <2>2. \A v \in Worker \ {w} : worker'[v] = worker[v]
    BY <1>0, <2>1
  <2>3. CASE worker[w].by = "clock" /\ JobOf(w) = j
    <3>1. began'[j] = 0
      BY <1>0, <2>1, <2>3 DEF Stored
    <3> QED
      BY <3>1 DEF Slotted
  <2>4. CASE ~ (worker[w].by = "clock" /\ JobOf(w) = j)
    <3>1. began'[j] = began[j]
      BY <1>0, <2>1, <2>4 DEF Stored
    <3>2. CASE j \in file.jobs /\ j \notin lost
      <4>1. \A i : NewestAt(file.runs, j, i) /\ file.runs[i].started >= began[j] => Recent(j)'
        BY <2>1, <3>1 DEF Recent, NewestAt
      <4>2. \A v \in Worker \ (Worker \ {w}) : ~ (worker[v].by = "clock" /\ JobOf(v) = j)
        BY <2>4
      <4> QED
        BY <1>0, <2>2, <3>1, <3>2, <4>1, <4>2, SlotKept
    <3>3. CASE ~ (j \in file.jobs /\ j \notin lost)
      BY <2>1, <3>3 DEF Slotted
    <3> QED
      BY <3>2, <3>3
  <2> QED
    BY <2>3, <2>4
<1>13. ASSUME NEW w \in Worker, Upload(w) \/ UploadFails(w) \/ Prune(w) \/ Delete(w)
       PROVE  Slotted(j)'
  <2>1. worker[w] # Idle /\ UNCHANGED <<file, began, lost>>
    BY <1>13 DEF Upload, UploadFails, Prune, Delete, Work
  <2>2. PICK b : /\ worker' = [worker EXCEPT ![w] = b]
                 /\ b.pc \in {"record", "prune", "delete"} /\ b.by = worker[w].by
                 /\ b.todo = worker[w].todo /\ b.started = worker[w].started
    BY <1>0, <1>13, Stepping
  <2>3. b # Idle
    BY <2>2 DEF Idle
  <2>4. \A v \in Worker : worker[v] # Idle =>
               /\ worker'[v] # Idle /\ worker'[v].by = worker[v].by
               /\ worker'[v].todo = worker[v].todo /\ worker'[v].started = worker[v].started
    BY <1>0, <2>2, <2>3
  <2>5. CASE j \in file.jobs /\ j \notin lost
    <3>1. \A i : NewestAt(file.runs, j, i) /\ file.runs[i].started >= began[j] => Recent(j)'
      BY <2>1 DEF Recent, NewestAt
    <3> QED
      BY <1>0, <2>1, <2>4, <2>5, <3>1, SlotKept
  <2>6. CASE ~ (j \in file.jobs /\ j \notin lost)
    BY <2>1, <2>6 DEF Slotted
  <2> QED
    BY <2>5, <2>6
<1>14. CASE Minute \/ UNCHANGED vars
  <2>1. UNCHANGED <<began, file, lost, worker>>
    BY <1>14 DEF Minute, vars
  <2> QED
    BY <1>1, <2>1
<1> QED
  BY <1>2, <1>3, <1>4, <1>5, <1>8, <1>9, <1>10, <1>11, <1>12, <1>13, <1>14 DEF Next

LEMMA DueLater ==
  ASSUME BackupAssumption, NEW j, NEW a \in Nat, NEW b \in Nat, a <= b
  PROVE  NextDue(j, a) \in Nat /\ NextDue(j, b) \in Nat /\ NextDue(j, a) <= NextDue(j, b)
<1> DEFINE day(t) == t \div Period
<1>1. Period \in Nat \ {0}
  BY DEF BackupAssumption
<1>2. PICK p \in Nat \ {0} : p = Period
  BY <1>1
<1>3. /\ a \div p \in Nat /\ b \div p \in Nat
      /\ p * (a \div p) <= a /\ a < p * (a \div p) + p
      /\ p * (b \div p) <= b /\ b < p * (b \div p) + p
  BY <1>2, Z3
<1>4. PICK m \in Nat, n \in Nat : m = a \div p /\ n = b \div p
  BY <1>3
<1>5. m <= n
  <2> SUFFICES ASSUME n + 1 <= m PROVE FALSE
    OBVIOUS
  <2>1. p * (n + 1) <= p * m
    BY <1>2, Z3
  <2>2. p * (n + 1) = p * n + p
    BY <1>2, Z3
  <2> QED
    BY <1>2, <1>3, <1>4, <2>1, <2>2
<1>6. (m + 1) * p \in Nat /\ (n + 1) * p \in Nat /\ (m + 1) * p <= (n + 1) * p
  BY <1>2, <1>5, Z3
<1> QED
  BY <1>2, <1>4, <1>6 DEF NextDue

\* The clock starts a job whose slot is due, or whose run is under way.
LEMMA SlotTick ==
  ASSUME BackupAssumption, SlotInv, [Next]_vars, NEW j \in Job,
         began[j] # 0, began'[j] = now, began[j] # now
  PROVE  NextDue(j, began[j]) <= now \/ InProgress(j) \/ j \in lost
<1>0. /\ worker \in [Worker -> Busy \cup {Idle}] /\ now \in Nat \ {0} /\ Slotted(j)
      /\ Busied /\ Stored /\ Tasks
  BY DEF Busied, Uploaded, SlotInv, Time
<1>1. PICK e \in Nat : e = began[j]
  BY <1>0 DEF Stored, Time
<1>2. Tick /\ j \in DueJobs(file)
  <2>1. CASE Tick
    BY <2>1 DEF Tick
  <2>2. ASSUME NEW w \in Worker, Killed(w) PROVE FALSE
    BY <1>0, <2>2 DEF Killed, Stored
  <2>3. ASSUME began' = began PROVE FALSE
    BY <2>3
  <2> QED
    BY <2>1, <2>2, <2>3 DEF Next, vars, Minute, OpenTab, NewJob, DeleteJob, RunNow, Headless,
         Upload, UploadFails, Prune, Delete, Record
<1>3. j \in file.jobs /\ (RunsFor(file, j) # {} => NextDue(j, LastRun(file, j).started) <= now)
  BY <1>2 DEF DueJobs
<1>4. CASE Running(j)
  <2>1. PICK w \in Worker : worker[w] # Idle /\ JobOf(w) = j
    BY <1>4 DEF Running
  <2>2. worker[w].todo \in Seq(Job) /\ worker[w].todo # <<>>
    BY <1>0, <2>1 DEF Busied, Busy
  <2>3. 1 \in DOMAIN worker[w].todo /\ worker[w].todo[1] = j
    BY <2>1, <2>2, EmptySeq, LenProperties, HeadTailProperties DEF JobOf
  <2> QED
    BY <2>1, <2>3 DEF InProgress
<1>5. CASE Recent(j)
  <2>1. PICK i : NewestAt(file.runs, j, i) /\ file.runs[i].started >= began[j]
    BY <1>5 DEF Recent
  <2>2. \A k \in RunsFor(file, j) : k \in Nat /\ k <= i
    BY <1>0, <2>1, LenProperties DEF RunsFor, NewestAt, Stored, Content
  <2>3. i \in RunsFor(file, j)
    BY <2>1 DEF RunsFor, NewestAt
  <2>4. (CHOOSE k \in RunsFor(file, j) : \A l \in RunsFor(file, j) : l <= k) = i
    <3> DEFINE K == RunsFor(file, j)
    <3>1. \A l \in K : l <= i
      BY <2>2
    <3>2. ASSUME NEW k \in K, \A l \in K : l <= k PROVE k = i
      BY <2>2, <2>3, <3>2
    <3> HIDE DEF K
    <3>3. i \in K
      BY <2>3 DEF K
    <3>4. (CHOOSE k \in K : \A l \in K : l <= k) = i
      BY <3>1, <3>2, <3>3
    <3> QED
      BY <3>4 DEF K
  <2>5. LastRun(file, j) = file.runs[i]
    BY <2>4 DEF LastRun
  <2>6. file.runs[i] \in Run
    BY <1>0, <2>1, ElementOfSeq, LenProperties DEF Stored, Content, NewestAt
  <2>7. PICK f \in Nat : f = file.runs[i].started
    BY <2>6 DEF Run, Time
  <2>8. e <= f /\ NextDue(j, f) <= now
    BY <1>1, <1>3, <2>1, <2>3, <2>5, <2>7
  <2>9. NextDue(j, e) <= now
    BY <1>0, <2>8, DueLater
  <2> QED
    BY <1>1, <2>9
<1> QED
  BY <1>0, <1>3, <1>4, <1>5 DEF Slotted

LEMMA SlotStart ==
  ASSUME BackupAssumption, Init
  PROVE  SlotInv
<1>1. /\ worker = [w \in Worker |-> Idle] /\ dest = {} /\ ever = {} /\ now = 1
      /\ file \in [jobs : SUBSET Job, runs : {<<>>}]
      /\ store = [s \in {"tab"} |-> file] /\ ids = file.jobs /\ lost = {}
      /\ began = [j \in Job |-> 0]
  BY DEF Init
<1>2. Busied
  BY <1>1 DEF Busied
<1>3. Uploaded
  <2>1. 1 \in Time
    BY BackupAssumption DEF Time
  <2> QED
    BY <1>1, <2>1, FS_EmptySet DEF Uploaded
<1>4. file \in Content /\ file.runs = <<>> /\ file.jobs \subseteq Job
  <2>1. <<>> \in Seq(Run)
    BY EmptySeq
  <2> QED
    BY <1>1, <2>1 DEF Content
<1>5. Live(worker) = {"tab"}
  BY <1>1 DEF Live
<1>6. Stored
  BY <1>1, <1>4, <1>5 DEF Stored
<1>7. Tasks
  BY <1>1, <1>4, EmptySeq DEF Tasks, Past
<1>8. \A j \in Job : Slotted(j)
  BY <1>1 DEF Slotted
<1> QED
  BY <1>2, <1>3, <1>6, <1>7, <1>8 DEF SlotInv

\* Catch-up, not a storm: the clock starts a job once for a slot, unless a run of
\* it is in progress or the record of its last run was lost.
THEOREM StartsOnce == Spec => OnceASlot
<1>1. Init => SlotInv
  BY BackupAssumption, SlotStart
<1>2. SlotInv /\ [Next]_vars => SlotInv'
  <2> SUFFICES ASSUME SlotInv, [Next]_vars PROVE SlotInv'
    OBVIOUS
  <2>1. Busied /\ Uploaded /\ Stored /\ Tasks
    BY DEF SlotInv
  <2>2. Busied' /\ Uploaded'
    BY <2>1, BackupAssumption, BusiedStep, UploadedStep
  <2>3. Stored' /\ Tasks'
    BY <2>1, BackupAssumption, StoredStep, TasksStep
  <2>4. \A j \in Job : Slotted(j)'
    BY BackupAssumption, SlotStep
  <2> QED
    BY <2>2, <2>3, <2>4 DEF SlotInv
<1>3. SlotInv /\ [Next]_vars =>
        [\A j \in Job :
           began[j] # 0 /\ began'[j] = now /\ began[j] # now =>
             \/ NextDue(j, began[j]) <= now
             \/ InProgress(j)
             \/ j \in lost]_vars
  <2> SUFFICES ASSUME SlotInv, [Next]_vars
               PROVE  \A j \in Job :
                        began[j] # 0 /\ began'[j] = now /\ began[j] # now =>
                          \/ NextDue(j, began[j]) <= now
                          \/ InProgress(j)
                          \/ j \in lost
    OBVIOUS
  <2> TAKE j \in Job
  <2> HAVE began[j] # 0 /\ began'[j] = now /\ began[j] # now
  <2> QED
    BY BackupAssumption, SlotTick
<1> QED
  BY <1>1, <1>2, <1>3, PTL DEF Spec, OnceASlot

-----------------------------------------------------------------------------
(* The tabs of a window.                                                   *)

FileEntry == [tab : Tab, kind : {"object", "console"}, conn : Name]

TabShapes ==
  /\ name \in [Profile -> Name] /\ W!Open \subseteq Tab /\ tab \in [W!Open -> W!Card]
  /\ txn \subseteq Name /\ begins \subseteq Tab \X Profile
  /\ rolling \in [Name -> Nat] /\ layout \subseteq FileEntry

\* A BEGIN on its way was sent from a console; a closed window has none, no
\* tabs and no transaction.
Sent ==
  /\ \A b \in begins : b[1] \in W!Open => tab[b[1]].kind = "console"
  /\ window = "closed" => W!Open = {} /\ txn = {} /\ begins = {}

VisibleInv == TabShapes /\ Sent /\ W!OpenIsVisible

-----------------------------------------------------------------------------
LEMMA EntriesType ==
  ASSUME TabShapes, NEW cards, cards \in [DOMAIN cards -> W!Card], DOMAIN cards \subseteq Tab
  PROVE  W!Entries(cards) \subseteq FileEntry
<1> SUFFICES ASSUME NEW t \in DOMAIN cards, cards[t].kind # "tool"
             PROVE  W!Entry(cards, t) \in FileEntry
  BY DEF W!Entries
<1>1. cards[t] \in W!Card
  OBVIOUS
<1>2. t \in Tab /\ name[cards[t].prof] \in Name /\ cards[t].kind \in {"object", "console"}
  BY <1>1 DEF TabShapes, W!Card, W!Kind
<1> QED
  BY <1>2 DEF W!Entry, FileEntry

\* A set is as large to the window's module as to this one.
LEMMA SameFinite == ASSUME NEW S PROVE W!IsFiniteSet(S) <=> IsFiniteSet(S)
BY DEF W!IsFiniteSet, IsFiniteSet

LEMMA SameCount == ASSUME NEW S PROVE W!Cardinality(S) = Cardinality(S)
BY Zenon DEF W!Cardinality, Cardinality

\* The tabs that a close leaves are those there were, on the same connections.
LEMMA ClosedEach ==
  ASSUME TabShapes, W!TabsAssumption, NEW S \in SUBSET W!Open, NEW c, W!CloseEach(S, c)
  PROVE  /\ tab' \in [W!Open' -> W!Card] /\ W!Open' \subseteq W!Open
         /\ \A t \in W!Open' : tab'[t].kind = tab[t].kind /\ tab'[t].prof = tab[t].prof
         /\ rolling' \in [Name -> Nat] /\ \A n \in Name : rolling'[n] >= rolling[n]
         /\ layout' \subseteq FileEntry
         /\ \A t \in W!Open \ W!Open' :
              tab[t].kind = "console" /\ W!Conn(t) \in txn => rolling'[W!Conn(t)] > 0
<1> DEFINE asks == {t \in S : W!Guard(t) \notin {NoName, c}}
           ends == {t \in S : W!Guard(t) = c /\ c # NoName}
<1>1. tab' = [t \in W!Open \ (S \ asks) |->
                IF t \in asks THEN [tab[t] EXCEPT !.asked = W!Guard(t)] ELSE tab[t]]
  BY DEF W!CloseEach
<1>2. rolling' = [n \in Name |-> IF n = c THEN rolling[n] + Cardinality(ends) ELSE rolling[n]]
  BY SameCount DEF W!CloseEach
<1>3. layout' = layout \/ layout' = W!Entries(tab')
  BY DEF W!CloseEach, W!NotSaved, W!SaveState
<1>4. IsFiniteSet(ends) /\ Cardinality(ends) \in Nat
  <2>1. ends \subseteq Tab
    BY DEF TabShapes
  <2> QED
    BY <2>1, SameFinite, FS_Subset, FS_CardinalityType DEF W!TabsAssumption
<1>5. \A t \in W!Open : W!Guard(t) \in Name \cup {NoName}
  BY DEF W!Guard, TabShapes, W!Conn, W!Card
<1> HIDE DEF asks, ends
<1>6. W!Open' = W!Open \ (S \ asks)
  BY <1>1 DEF W!Open
<1>7. ASSUME NEW t \in W!Open'
      PROVE  /\ tab'[t] \in W!Card
             /\ tab'[t].kind = tab[t].kind /\ tab'[t].prof = tab[t].prof
  <2>1. tab[t] \in W!Card /\ t \in W!Open
    BY <1>6 DEF TabShapes
  <2>2. tab'[t] = tab[t] \/ tab'[t] = [tab[t] EXCEPT !.asked = W!Guard(t)]
    BY <1>1, <1>6
  <2>3. W!Guard(t) \in Name \cup {NoName}
    BY <1>5, <2>1
  <2> QED
    BY <2>1, <2>2, <2>3 DEF W!Card
<1>8. tab' \in [W!Open' -> W!Card] /\ W!Open' \subseteq W!Open
  BY <1>1, <1>6, <1>7
<1>9. rolling' \in [Name -> Nat] /\ \A n \in Name : rolling'[n] >= rolling[n]
  BY <1>2, <1>4 DEF TabShapes
<1>10. layout' \subseteq FileEntry
  BY <1>3, <1>8, EntriesType DEF TabShapes, W!Open
<1>11. ASSUME NEW t \in W!Open \ W!Open', tab[t].kind = "console", W!Conn(t) \in txn
       PROVE  rolling'[W!Conn(t)] > 0
  <2>1. W!Guard(t) = W!Conn(t) /\ W!Conn(t) # NoName /\ W!Conn(t) \in Name
    BY <1>11 DEF W!Guard, TabShapes, W!TabsAssumption
  <2>2. t \in S /\ t \notin asks
    BY <1>6, <1>11
  <2>3. W!Conn(t) = c /\ t \in ends
    BY <2>1, <2>2 DEF asks, ends
  <2>4. Cardinality(ends) # 0
    BY <1>4, <2>3, FS_EmptySet
  <2> QED
    BY <1>2, <1>4, <2>1, <2>3, <2>4 DEF TabShapes
<1> QED
  BY <1>7, <1>8, <1>9, <1>10, <1>11

LEMMA CloseVisible ==
  ASSUME VisibleInv, W!TabsAssumption, NEW S \in SUBSET W!Open, NEW c, W!CloseEach(S, c),
         window # "closed", UNCHANGED <<name, window, leaving, txn, begins, excused>>
  PROVE  VisibleInv'
<1>1. TabShapes'
  BY ClosedEach DEF VisibleInv, TabShapes
<1>2. Sent'
  BY ClosedEach DEF VisibleInv, Sent
<1>3. ASSUME NEW n \in txn \ excused, n \notin leaving,
             ~ \E t \in W!Open' : tab'[t].kind = "console" /\ name[tab'[t].prof] = n
      PROVE  rolling'[n] > 0
  <2>1. n \in Name /\ rolling[n] \in Nat
    BY DEF VisibleInv, TabShapes
  <2>2. rolling'[n] >= rolling[n] /\ rolling'[n] \in Nat
    BY <2>1, ClosedEach DEF VisibleInv
  <2>3. CASE rolling[n] > 0
    BY <2>1, <2>2, <2>3
  <2>4. ASSUME NEW t \in W!Open, tab[t].kind = "console", W!Conn(t) = n
        PROVE  rolling'[n] > 0
    <3>1. t \notin W!Open'
      BY <1>3, <2>4, ClosedEach DEF VisibleInv, W!Conn
    <3> QED
      BY <2>4, <3>1, ClosedEach DEF VisibleInv
  <2> QED
    BY <1>3, <2>3, <2>4 DEF VisibleInv, W!OpenIsVisible
<1> QED
  BY <1>1, <1>2, <1>3 DEF VisibleInv, W!OpenIsVisible, W!Conn

-----------------------------------------------------------------------------
\* A tab more, or one that moved or was typed in, hides nothing.
LEMMA OpenedVisible ==
  ASSUME VisibleInv, NEW t \in Tab, NEW k \in W!Kind, NEW p \in Profile,
         NEW key \in Name \cup {NoName}, NEW out \in BOOLEAN,
         window # "closed", W!Append(t, k, p, key, out)
  PROVE  VisibleInv'
<1> DEFINE card == [kind |-> k, prof |-> p, key |-> key, out |-> out, dirty |-> FALSE,
                    asked |-> NoName]
<1>1. card \in W!Card
  BY DEF W!Card
<1>2. /\ tab' = W!WithTab(t, card) /\ t \notin W!Open /\ \A b \in begins : b[1] # t
      /\ layout' = W!Entries(tab')
      /\ UNCHANGED <<name, window, leaving, txn, begins, rolling, excused>>
  BY DEF W!Append, W!Unused, W!SaveState, W!Others
<1> HIDE DEF card
<1>3. /\ W!Open' = W!Open \cup {t} /\ tab'[t] = card /\ \A u \in W!Open : tab'[u] = tab[u]
      /\ tab' \in [W!Open' -> W!Card] /\ W!Open' \subseteq Tab
  BY <1>1, <1>2 DEF W!WithTab, VisibleInv, TabShapes, W!Open
<1>4. layout' \subseteq FileEntry
  BY <1>2, <1>3, EntriesType DEF VisibleInv, W!Open
<1>5. TabShapes'
  BY <1>2, <1>3, <1>4 DEF VisibleInv, TabShapes
<1>6. Sent'
  BY <1>2, <1>3 DEF VisibleInv, Sent
<1>7. W!OpenIsVisible'
  BY <1>2, <1>3 DEF VisibleInv, W!OpenIsVisible, W!Conn
<1> QED
  BY <1>5, <1>6, <1>7 DEF VisibleInv

\* One tab's card changes.
LEMMA CardVisible ==
  ASSUME VisibleInv, NEW t \in W!Open, NEW card \in W!Card, tab' = [tab EXCEPT ![t] = card],
         card.kind = tab[t].kind, layout' = layout \/ layout' = W!Entries(tab'), window # "closed",
         UNCHANGED <<name, window, leaving, txn, begins, rolling>>,
         \/ card.prof = tab[t].prof /\ UNCHANGED excused
         \/ excused' = excused \cup (txn \cap {W!Conn(t)})
  PROVE  VisibleInv'
<1>1. /\ W!Open' = W!Open /\ tab'[t] = card /\ \A u \in W!Open : u # t => tab'[u] = tab[u]
      /\ tab' \in [W!Open' -> W!Card]
  BY DEF VisibleInv, TabShapes, W!Open
<1>2. layout' \subseteq FileEntry
  BY <1>1, EntriesType DEF VisibleInv, TabShapes, W!Open
<1>3. TabShapes'
  BY <1>1, <1>2 DEF VisibleInv, TabShapes
<1>4. Sent'
  BY <1>1 DEF VisibleInv, Sent
<1>5. W!OpenIsVisible'
  BY <1>1 DEF VisibleInv, W!OpenIsVisible, W!Conn
<1> QED
  BY <1>3, <1>4, <1>5 DEF VisibleInv

\* The tabs stay as they are.
LEMMA TabsStay ==
  ASSUME VisibleInv, UNCHANGED <<name, tab>>, layout' \subseteq FileEntry,
         txn' \subseteq Name, begins' \subseteq Tab \X Profile, rolling' \in [Name -> Nat],
         Sent', W!OpenIsVisible'
  PROVE  VisibleInv'
BY DEF VisibleInv, TabShapes, W!Open

LEMMA RenameVisible ==
  ASSUME VisibleInv, NEW p \in Profile, NEW n \in Name, W!Rename(p, n)
  PROVE  VisibleInv'
<1>1. /\ name' = [name EXCEPT ![p] = n] /\ txn' = txn \ {name[p]}
      /\ excused' = excused \ {name[p]}
      /\ UNCHANGED <<tab, window, leaving, begins, rolling>>
  BY DEF W!Rename
<1>2. name \in [Profile -> Name] /\ name' \in [Profile -> Name] /\ tab \in [W!Open -> W!Card]
  BY <1>1 DEF VisibleInv, TabShapes
<1>3. layout' \subseteq FileEntry
  <2>1. CASE layout' = {[e EXCEPT !.conn = name'[tab[e.tab].prof]] : e \in W!Entries(tab)}
    <3> SUFFICES ASSUME NEW e \in W!Entries(tab)
                 PROVE  [e EXCEPT !.conn = name'[tab[e.tab].prof]] \in FileEntry
      BY <2>1
    <3>1. e \in FileEntry
      BY EntriesType DEF VisibleInv, TabShapes, W!Open
    <3>2. e.tab \in W!Open
      BY DEF W!Entries, W!Entry, W!Open
    <3>3. name'[tab[e.tab].prof] \in Name
      BY <1>2, <3>2 DEF W!Card
    <3> QED
      BY <3>1, <3>3 DEF FileEntry
  <2>2. CASE layout' = layout
    BY <2>2 DEF VisibleInv, TabShapes
  <2> QED
    BY <2>1, <2>2 DEF W!Rename
<1>4. TabShapes'
  BY <1>1, <1>2, <1>3 DEF VisibleInv, TabShapes, W!Open
<1>5. Sent'
  BY <1>1 DEF VisibleInv, Sent, W!Open
<1>6. ASSUME NEW m \in txn' \ excused'
      PROVE  \/ \E t \in W!Open : tab[t].kind = "console" /\ name'[tab[t].prof] = m
             \/ rolling[m] > 0
             \/ m \in leaving
  <2>1. m \in txn \ excused /\ m # name[p]
    BY <1>1
  <2>2. \A t \in W!Open : W!Conn(t) = m => name'[tab[t].prof] = m
    BY <1>1, <1>2, <2>1 DEF W!Conn, W!Card
  <2> QED
    BY <2>1, <2>2 DEF VisibleInv, W!OpenIsVisible
<1> QED
  BY <1>1, <1>4, <1>5, <1>6 DEF VisibleInv, W!OpenIsVisible, W!Conn, W!Open

LEMMA RespondVisible ==
  ASSUME VisibleInv, W!TabsAssumption, NEW t \in W!Open, W!Respond(t), window # "closed"
  PROVE  VisibleInv'
<1> DEFINE n == tab[t].asked
<1>1. /\ tab[t] \in W!Card /\ n \in Name
      /\ UNCHANGED <<name, window, leaving, txn, begins>>
  BY DEF VisibleInv, TabShapes, W!Card, W!Respond
<1>2. CASE tab' = [tab EXCEPT ![t].asked = NoName] /\ W!NotSaved /\ UNCHANGED <<rolling, excused>>
  <2>1. tab' = [tab EXCEPT ![t] = [tab[t] EXCEPT !.asked = NoName]]
    BY <1>2
  <2>2. [tab[t] EXCEPT !.asked = NoName] \in W!Card
    BY <1>1 DEF W!Card
  <2> QED
    BY <1>1, <1>2, <2>1, <2>2, CardVisible DEF W!NotSaved, W!Card
<1>3. CASE /\ rolling' = [rolling EXCEPT ![n] = @ + 1]
           /\ tab' = [u \in W!Open \ {t} |-> tab[u]] /\ layout' = W!Entries(tab')
           /\ excused' = excused \cup (txn \cap ({W!Conn(t)} \ {n}))
  <2>1. /\ W!Open' = W!Open \ {t} /\ tab' \in [W!Open' -> W!Card] /\ W!Open' \subseteq Tab
        /\ \A u \in W!Open' : tab'[u] = tab[u]
    BY <1>3 DEF VisibleInv, TabShapes, W!Open
  <2>2. rolling' \in [Name -> Nat] /\ rolling'[n] > 0
        /\ \A m \in Name : rolling[m] > 0 => rolling'[m] > 0
    BY <1>1, <1>3 DEF VisibleInv, TabShapes
  <2>3. layout' \subseteq FileEntry
    BY <1>3, <2>1, EntriesType DEF VisibleInv, W!Open
  <2>4. TabShapes'
    BY <1>1, <2>1, <2>2, <2>3 DEF VisibleInv, TabShapes
  <2>5. Sent'
    BY <1>1, <2>1 DEF VisibleInv, Sent
  <2>6. ASSUME NEW m \in txn \ excused'
        PROVE  \/ \E u \in W!Open' : tab'[u].kind = "console" /\ name[tab'[u].prof] = m
               \/ rolling'[m] > 0
               \/ m \in leaving
    <3>1. m \in txn \ excused /\ m \in Name /\ (m = W!Conn(t) => m = n)
      BY <1>3 DEF VisibleInv, TabShapes
    <3>2. CASE m = n
      BY <2>2, <3>2
    <3>3. CASE m # W!Conn(t)
      BY <2>1, <2>2, <3>1, <3>3 DEF VisibleInv, W!OpenIsVisible, W!Conn
    <3> QED
      BY <3>1, <3>2, <3>3
  <2> QED
    BY <1>1, <2>4, <2>5, <2>6 DEF VisibleInv, W!OpenIsVisible, W!Conn
<1> QED
  BY <1>2, <1>3 DEF W!Respond, W!SaveState

LEMMA StartVisible ==
  ASSUME VisibleInv, W!Start
  PROVE  VisibleInv'
<1>1. PICK S \in SUBSET {e \in layout : W!Found(e)}, first \in Profile :
        tab' = [t \in {e.tab : e \in S} |-> W!Restored(CHOOSE e \in S : e.tab = t, first)]
  BY DEF W!Start
<1>2. /\ UNCHANGED <<name, leaving, layout, txn, begins, rolling, excused>>
      /\ txn = {} /\ begins = {}
        /\ window' = "open"
  BY DEF W!Start, VisibleInv, Sent
<1>3. \A e \in S : W!Restored(e, first) \in W!Card
  <2> SUFFICES ASSUME NEW e \in S PROVE W!Restored(e, first) \in W!Card
    OBVIOUS
  <2>1. e.kind \in W!Kind /\ e.conn \in Name
    BY DEF VisibleInv, TabShapes, FileEntry, W!Kind
  <2> QED
    BY <2>1 DEF W!Restored, W!Card
<1>4. tab' \in [W!Open' -> W!Card] /\ W!Open' = {e.tab : e \in S}
  BY <1>1, <1>3 DEF W!Open
<1>5. W!Open' \subseteq Tab
  BY <1>4 DEF VisibleInv, TabShapes, FileEntry
<1> QED
  BY <1>2, <1>4, <1>5 DEF VisibleInv, TabShapes, Sent, W!OpenIsVisible

\* The process has gone.
LEMMA GoneVisible ==
  ASSUME VisibleInv, W!Gone, layout' = layout \/ layout' = W!Entries([t \in {u \in W!Open : ~ tab[u].out} |-> tab[t]])
  PROVE  VisibleInv'
<1>1. /\ name' = name /\ tab' = [t \in {} |-> t] /\ txn' = {} /\ begins' = {}
      /\ rolling' = [n \in Name |-> 0] /\ window' = "closed"
  BY DEF W!Gone
<1>2. W!Open' = {} /\ tab' \in [W!Open' -> W!Card]
  BY <1>1 DEF W!Open
<1>3. layout' \subseteq FileEntry
  <2> DEFINE cards == [t \in {u \in W!Open : ~ tab[u].out} |-> tab[t]]
  <2>1. cards \in [DOMAIN cards -> W!Card] /\ DOMAIN cards \subseteq Tab
    BY DEF VisibleInv, TabShapes
  <2> HIDE DEF cards
  <2>2. W!Entries(cards) \subseteq FileEntry
    BY <2>1, EntriesType DEF VisibleInv
  <2> QED
    BY <2>2 DEF cards, VisibleInv, TabShapes
<1> QED
  BY <1>1, <1>2, <1>3 DEF VisibleInv, TabShapes, Sent, W!OpenIsVisible

-----------------------------------------------------------------------------
LEMMA TransactionVisible ==
  ASSUME VisibleInv,
         \/ \E t \in W!Open : W!Begin(t) \/ W!End(t)
         \/ \E b \in begins : W!BeginRuns(b) \/ W!BeginFails(b)
         \/ \E n \in Name : W!RollBack(n) \/ W!LeaveNext(n)
  PROVE  VisibleInv'
<1>0. UNCHANGED <<name, tab, window, layout>>
  BY DEF W!Begin, W!End, W!BeginRuns, W!BeginFails, W!RollBack, W!LeaveNext, W!Sessions
<1>a. W!Open' = W!Open /\ TabShapes /\ Sent /\ W!OpenIsVisible
  BY <1>0 DEF W!Open, VisibleInv
<1>b. ASSUME begins' \subseteq begins, window = "closed" => txn' \subseteq txn
      PROVE  Sent'
  BY <1>0, <1>a, <1>b DEF Sent
<1>c. ASSUME txn' \subseteq Name, begins' \subseteq Tab \X Profile, rolling' \in [Name -> Nat],
             Sent', W!OpenIsVisible'
      PROVE  VisibleInv'
  BY <1>0, <1>a, <1>c, TabsStay DEF TabShapes
<1>1. ASSUME NEW t \in W!Open, W!Begin(t) PROVE VisibleInv'
  <2>1. /\ begins' = begins \cup {<<t, tab[t].prof>>} /\ tab[t].kind = "console"
        /\ window # "closed" /\ UNCHANGED <<leaving, txn, rolling, excused>>
    BY <1>1 DEF W!Begin, W!Awake, W!MainAwake
  <2>2. begins' \subseteq Tab \X Profile
    BY <1>a, <2>1 DEF TabShapes, W!Card
  <2>3. Sent'
    BY <1>0, <1>a, <2>1 DEF Sent
  <2>4. W!OpenIsVisible'
    BY <1>0, <1>a, <2>1 DEF W!OpenIsVisible, W!Conn
  <2> QED
    BY <1>a, <1>c, <2>1, <2>2, <2>3, <2>4 DEF TabShapes
<1>2. ASSUME NEW t \in W!Open, W!End(t) PROVE VisibleInv'
  <2>1. /\ txn' = txn \ {W!Conn(t)} /\ excused' = excused \ {W!Conn(t)}
        /\ UNCHANGED <<leaving, begins, rolling>>
    BY <1>2 DEF W!End
  <2>2. W!OpenIsVisible'
    BY <1>0, <1>a, <2>1 DEF W!OpenIsVisible, W!Conn
  <2> QED
    BY <1>a, <1>b, <1>c, <2>1, <2>2 DEF TabShapes
<1>3. ASSUME NEW b \in begins, W!BeginRuns(b) PROVE VisibleInv'
  <2> DEFINE n == name[b[2]]
  <2>1. /\ begins' = begins \ {b} /\ txn' = txn \cup {n}
        /\ UNCHANGED <<leaving, rolling>>
        /\ excused' = IF n \in txn \/ (b[1] \in W!Open /\ tab[b[1]].prof = b[2])
                      THEN excused ELSE excused \cup {n}
    BY <1>3 DEF W!BeginRuns
  <2>2. n \in Name /\ window # "closed"
    BY <1>a DEF TabShapes, Sent
  <2>3. Sent'
    BY <1>b, <2>1, <2>2
  <2>4. ASSUME NEW m \in txn' \ excused'
        PROVE  \/ \E t \in W!Open : tab[t].kind = "console" /\ W!Conn(t) = m
               \/ rolling[m] > 0
               \/ m \in leaving
    <3>1. CASE m \in txn \ excused
      BY <1>a, <3>1 DEF W!OpenIsVisible
    <3>2. CASE m \notin txn \ excused
      <4>1. m = n /\ b[1] \in W!Open /\ tab[b[1]].prof = b[2]
        BY <2>1, <2>4, <3>2
      <4> QED
        BY <1>a, <4>1 DEF Sent, W!Conn
    <3> QED
      BY <3>1, <3>2
  <2>5. W!OpenIsVisible'
    BY <1>0, <1>a, <2>1, <2>4 DEF W!OpenIsVisible, W!Conn
  <2> QED
    BY <1>a, <1>c, <2>1, <2>2, <2>3, <2>5 DEF TabShapes
<1>4. ASSUME NEW b \in begins, W!BeginFails(b) PROVE VisibleInv'
  <2>1. begins' = begins \ {b} /\ UNCHANGED <<leaving, txn, rolling, excused>>
    BY <1>4 DEF W!BeginFails
  <2>2. W!OpenIsVisible'
    BY <1>0, <1>a, <2>1 DEF W!OpenIsVisible, W!Conn
  <2> QED
    BY <1>a, <1>b, <1>c, <2>1, <2>2 DEF TabShapes
<1>5. ASSUME NEW n \in Name, W!RollBack(n) PROVE VisibleInv'
  <2>1. /\ rolling' = [rolling EXCEPT ![n] = @ - 1] /\ rolling[n] > 0
        /\ UNCHANGED <<leaving, begins>>
        /\ \/ txn' = txn \ {n} /\ excused' = excused \ {n}
           \/ txn' = txn /\ excused' = excused \cup (txn \cap {n})
    BY <1>5 DEF W!RollBack
  <2>2. rolling' \in [Name -> Nat] /\ \A m \in Name : m # n => rolling'[m] = rolling[m]
    BY <1>a, <2>1 DEF TabShapes
  <2>3. txn' \ excused' \subseteq txn \ excused /\ n \notin txn' \ excused'
    BY <2>1
  <2>4. W!OpenIsVisible'
    BY <1>0, <1>a, <2>1, <2>2, <2>3 DEF W!OpenIsVisible, W!Conn, TabShapes
  <2> QED
    BY <1>a, <1>b, <1>c, <2>1, <2>2, <2>4 DEF TabShapes
<1>6. ASSUME NEW n \in Name, W!LeaveNext(n) PROVE VisibleInv'
  <2>1. /\ txn' = txn \ {n} /\ excused' = excused \ {n} /\ leaving' = leaving \ {n}
        /\ UNCHANGED <<begins, rolling>>
    BY <1>6 DEF W!LeaveNext
  <2>2. W!OpenIsVisible'
    BY <1>0, <1>a, <2>1 DEF W!OpenIsVisible, W!Conn
  <2> QED
    BY <1>a, <1>b, <1>c, <2>1, <2>2 DEF TabShapes
<1> QED
  BY <1>1, <1>2, <1>3, <1>4, <1>5, <1>6

LEMMA WindowVisible ==
  ASSUME VisibleInv, W!RequestClose \/ W!KeepOpen \/ W!Confirm \/ W!Leave \/ W!Die \/ UNCHANGED W!vars
  PROVE  VisibleInv'
<1>1. CASE W!Finish \/ W!Die
  <2>1. W!Gone /\ (layout' = layout \/ layout' = W!Entries([t \in {u \in W!Open : ~ tab[u].out} |-> tab[t]]))
    BY <1>1 DEF W!Finish, W!Die
  <2> QED
    BY <2>1, GoneVisible
<1>2. CASE /\ UNCHANGED <<name, tab, txn, begins, rolling, excused>>
           /\ window' # "closed" \/ window' = window
           /\ leaving' = leaving \/ leaving' = txn
           /\ layout' = layout \/ layout' = W!Entries(tab)
  <2>1. layout' \subseteq FileEntry
    BY <1>2, EntriesType DEF VisibleInv, TabShapes, W!Open
  <2>2. Sent' /\ W!OpenIsVisible'
    BY <1>2 DEF VisibleInv, Sent, W!OpenIsVisible, W!Conn, W!Open
  <2> QED
    BY <1>2, <2>1, <2>2, TabsStay DEF VisibleInv, TabShapes
<1>3. CASE W!RequestClose \/ W!KeepOpen \/ UNCHANGED W!vars
  BY <1>2, <1>3 DEF W!RequestClose, W!KeepOpen, W!SaveState, W!vars
<1>4. CASE W!Confirm /\ ~ W!Finish
  BY <1>2, <1>4 DEF W!Confirm
<1> QED
  BY <1>1, <1>3, <1>4 DEF W!Leave

LEMMA TabVisible ==
  ASSUME VisibleInv, NEW t \in W!Open,
         W!Move(t) \/ W!Type(t) \/ \E p \in Profile : W!Switch(t, p)
  PROVE  VisibleInv'
<1>0. tab[t] \in W!Card
  BY DEF VisibleInv, TabShapes
<1>1. CASE W!Move(t)
  <2>1. [tab[t] EXCEPT !.out = ~ @] \in W!Card
    BY <1>0 DEF W!Card
  <2>2. tab' = [tab EXCEPT ![t] = [tab[t] EXCEPT !.out = ~ @]]
    BY <1>1 DEF W!Move
  <2>3. [tab[t] EXCEPT !.out = ~ @].kind = tab[t].kind
        /\ [tab[t] EXCEPT !.out = ~ @].prof = tab[t].prof
    BY <1>0 DEF W!Card
  <2>4. /\ layout' = W!Entries(tab') /\ window # "closed"
        /\ UNCHANGED <<name, window, leaving, txn, begins, rolling, excused>>
    BY <1>1 DEF W!Move, W!Awake, W!MainAwake, W!SaveState, W!Others
  <2> QED
    BY <2>1, <2>2, <2>3, <2>4, CardVisible
<1>2. CASE W!Type(t)
  <2>1. [tab[t] EXCEPT !.dirty = TRUE] \in W!Card
    BY <1>0 DEF W!Card
  <2>2. tab' = [tab EXCEPT ![t] = [tab[t] EXCEPT !.dirty = TRUE]]
    BY <1>2 DEF W!Type
  <2>3. [tab[t] EXCEPT !.dirty = TRUE].kind = tab[t].kind
        /\ [tab[t] EXCEPT !.dirty = TRUE].prof = tab[t].prof
    BY <1>0 DEF W!Card
  <2>4. /\ layout' = layout /\ window # "closed"
        /\ UNCHANGED <<name, window, leaving, txn, begins, rolling, excused>>
    BY <1>2 DEF W!Type, W!Awake, W!MainAwake, W!NotSaved, W!Others
  <2> QED
    BY <2>1, <2>2, <2>3, <2>4, CardVisible
<1>3. ASSUME NEW p \in Profile, W!Switch(t, p) PROVE VisibleInv'
  <2>1. [tab[t] EXCEPT !.prof = p] \in W!Card
    BY <1>0 DEF W!Card
  <2>2. tab' = [tab EXCEPT ![t] = [tab[t] EXCEPT !.prof = p]]
    BY <1>3 DEF W!Switch
  <2>3. [tab[t] EXCEPT !.prof = p].kind = tab[t].kind
    BY <1>0 DEF W!Card
  <2>4. /\ layout' = W!Entries(tab') /\ window # "closed"
        /\ excused' = excused \cup (txn \cap {W!Conn(t)})
        /\ UNCHANGED <<name, window, leaving, txn, begins, rolling>>
    BY <1>3 DEF W!Switch, W!Awake, W!MainAwake, W!SaveState
  <2> QED
    BY <2>1, <2>2, <2>3, <2>4, CardVisible
<1> QED
  BY <1>1, <1>2, <1>3

LEMMA ManyVisible ==
  ASSUME VisibleInv, W!TabsAssumption,
         \/ \E S \in SUBSET W!Closable : W!ClosePages(S)
         \/ \E p \in Profile : W!CloseRelated(p)
         \/ W!RespondRelated
  PROVE  VisibleInv'
<1>0. W!Closable \subseteq W!Open
  BY DEF W!Closable
<1>1. ASSUME NEW S \in SUBSET W!Closable, W!ClosePages(S) PROVE VisibleInv'
  <2>1. S \in SUBSET W!Open /\ W!CloseEach(S, NoName) /\ window # "closed"
        /\ UNCHANGED <<name, window, leaving, txn, begins, excused>>
    BY <1>0, <1>1 DEF W!ClosePages, W!Awake, W!MainAwake
  <2> QED
    BY <2>1, CloseVisible
<1>2. CASE /\ UNCHANGED <<name, tab, window, leaving, layout, txn, begins, rolling, excused>>
  BY <1>2 DEF VisibleInv, TabShapes, Sent, W!OpenIsVisible, W!Conn, W!Open
<1>3. ASSUME NEW p \in Profile, W!CloseRelated(p) PROVE VisibleInv'
  <2>1. window # "closed" /\ UNCHANGED <<name, window, leaving, txn, begins, excused>>
    BY <1>3 DEF W!CloseRelated, W!MainAwake
  <2>2. CASE W!CloseEach(W!Related(p) \cap W!Closable, name[p])
    BY <1>0, <2>1, <2>2, CloseVisible
  <2>3. CASE W!NotSaved /\ UNCHANGED <<tab, rolling>>
    BY <1>2, <2>1, <2>3 DEF W!NotSaved
  <2> QED
    BY <1>3, <2>2, <2>3 DEF W!CloseRelated
<1>4. ASSUME W!RespondRelated PROVE VisibleInv'
  <2>1. window # "closed" /\ UNCHANGED <<name, window, leaving, txn, begins, excused>>
    BY <1>4 DEF W!RespondRelated
  <2>2. CASE W!NotSaved /\ UNCHANGED <<tab, rolling>>
    BY <1>2, <2>1, <2>2 DEF W!NotSaved
  <2>3. ASSUME NEW r \in related,
               W!CloseEach({t \in DOMAIN r.pages \cap W!Closable : tab[t].out = r.pages[t]},
                         name[r.prof])
        PROVE  VisibleInv'
    <3> DEFINE S == {t \in DOMAIN r.pages \cap W!Closable : tab[t].out = r.pages[t]}
    <3>1. S \in SUBSET W!Open
      BY <1>0
    <3>2. W!CloseEach(S, name[r.prof])
      BY <2>3
    <3> HIDE DEF S
    <3> QED
      BY <2>1, <3>1, <3>2, CloseVisible
  <2> QED
    BY <1>4, <2>2, <2>3 DEF W!RespondRelated
<1> QED
  BY <1>1, <1>3, <1>4

LEMMA VisibleStep ==
  ASSUME VisibleInv, W!TabsAssumption, [W!Next]_(W!vars)
  PROVE  VisibleInv'
<1>1. ASSUME NEW t \in Tab, NEW p \in Profile, NEW out \in BOOLEAN,
             W!OpenObject(t, p, out) \/ W!OpenTool(t, p, out) \/ W!NewConsole(t, p, out)
      PROVE  VisibleInv'
  <2>1. PICK k \in W!Kind, key \in Name \cup {NoName} : W!Append(t, k, p, key, out)
    <3>1. name[p] \in Name
      BY DEF VisibleInv, TabShapes
    <3> QED
      BY <1>1, <3>1 DEF W!OpenObject, W!OpenTool, W!NewConsole, W!Kind
  <2>2. window # "closed"
    BY <1>1 DEF W!OpenObject, W!OpenTool, W!NewConsole, W!MainAwake
  <2> QED
    BY <2>1, <2>2, OpenedVisible
<1>2. ASSUME NEW t \in W!Open, W!Respond(t) PROVE VisibleInv'
  <2>1. window # "closed"
    BY <1>2 DEF VisibleInv, Sent
  <2> QED
    BY <1>2, <2>1, RespondVisible
<1> QED
  BY <1>1, <1>2, TabVisible, RenameVisible, TransactionVisible, ManyVisible,
     WindowVisible,
     StartVisible DEF W!Next

\* window.py:395-398, 1547-1595: a transaction that is open is in front of
\* somebody, or its rollback is on its way, however tabs are opened, moved,
\* switched, closed one by one or together, and the window closed, killed and
\* opened again; apart from what OpenIsVisible excuses.  For any number of
\* connections, names, tabs and transactions.
THEOREM Visible == W!TabsAssumption /\ W!Spec => []W!OpenIsVisible
<1> SUFFICES ASSUME W!TabsAssumption PROVE W!Spec => []W!OpenIsVisible
  OBVIOUS
<1>1. W!Init => VisibleInv
  BY DEF W!Init, VisibleInv, TabShapes, Sent, W!OpenIsVisible, W!Open
<1>2. VisibleInv /\ [W!Next]_(W!vars) => VisibleInv'
  BY VisibleStep
<1>3. VisibleInv => W!OpenIsVisible
  BY DEF VisibleInv
<1> QED
  BY <1>1, <1>2, <1>3, PTL DEF W!Spec

-----------------------------------------------------------------------------
(* The file.                                                               *)

\* What the file will bring back, and whether it brings back all it names.
Said(e, p) == <<e.kind, p, IF e.kind = "console" THEN {e.tab} ELSE {}>>
HeldIn == {Said(d[1], d[2]) : d \in {d \in layout \X Profile : name[d[2]] = d[1].conn}}
AllFound == \A e \in layout : \E p \in Profile : name[p] = e.conn

\* The tabs a file that is not stale says: those there are, and once the window
\* is closed, those there were but for the lost pop-outs.
FileInv ==
  /\ \A p, q \in Profile : name[p] = name[q] => p = q
  /\ \A d, e \in layout : d.tab = e.tab => d = e
  /\ ~ outdated => /\ AllFound
                   /\ HeldIn = IF window = "closed" THEN was \ gone ELSE W!Held(tab)

\* What is saved of a set of cards says which they are.
LEMMA SavedSays ==
  ASSUME TabShapes, NEW cards, cards \in [DOMAIN cards -> W!Card], layout' = W!Entries(cards),
         name' = name, \A p, q \in Profile : name[p] = name[q] => p = q
  PROVE  /\ AllFound' /\ HeldIn' = W!Held(cards)
         /\ \A d, e \in layout' : d.tab = e.tab => d = e
<1>0. name \in [Profile -> Name]
  BY DEF TabShapes
<1>1. \A e \in layout' : \E t \in DOMAIN cards :
        cards[t].kind # "tool" /\ e = W!Entry(cards, t)
  BY DEF W!Entries
<1>2. \A t \in DOMAIN cards : cards[t].kind # "tool" => W!Entry(cards, t) \in layout'
  BY DEF W!Entries
<1>3. \A t \in DOMAIN cards : cards[t].prof \in Profile
  BY DEF W!Card
<1>4. AllFound'
  BY <1>1, <1>3 DEF AllFound, W!Entry
<1>5. \A d, e \in layout' : d.tab = e.tab => d = e
  BY <1>1 DEF W!Entry
<1>6. \A t \in DOMAIN cards :
        Said(W!Entry(cards, t), cards[t].prof)
          = <<cards[t].kind, cards[t].prof, IF cards[t].kind = "console" THEN {t} ELSE {}>>
  BY DEF Said, W!Entry
<1>7. ASSUME NEW h \in HeldIn' PROVE h \in W!Held(cards)
  <2>1. PICK e \in layout', p \in Profile : name[p] = e.conn /\ h = Said(e, p)
    BY DEF HeldIn, Said
  <2>2. PICK t \in DOMAIN cards : cards[t].kind # "tool" /\ e = W!Entry(cards, t)
    BY <1>1
  <2>3. p = cards[t].prof
    BY <1>3, <2>1, <2>2 DEF W!Entry
  <2> QED
    BY <1>6, <2>1, <2>2, <2>3 DEF W!Held
<1>8. ASSUME NEW h \in W!Held(cards) PROVE h \in HeldIn'
  <2>1. PICK t \in DOMAIN cards :
          /\ cards[t].kind # "tool"
          /\ h = <<cards[t].kind, cards[t].prof, IF cards[t].kind = "console" THEN {t} ELSE {}>>
    BY DEF W!Held
  <2>2. W!Entry(cards, t) \in layout' /\ W!Entry(cards, t).conn = name[cards[t].prof]
    BY <1>2, <2>1 DEF W!Entry
  <2>3. h = Said(W!Entry(cards, t), cards[t].prof)
    BY <1>6, <2>1
  <2> DEFINE d == <<W!Entry(cards, t), cards[t].prof>>
  <2>4. d \in layout' \X Profile /\ d[1] = W!Entry(cards, t) /\ d[2] = cards[t].prof
    BY <1>3, <2>2
  <2> HIDE DEF d
  <2> QED
    BY <2>2, <2>3, <2>4 DEF HeldIn, Said
<1> QED
  BY <1>4, <1>5, <1>7, <1>8

LEMMA SavedFile ==
  ASSUME TabShapes, FileInv, TabShapes', layout' = W!Entries(tab'), outdated' = FALSE,
         name' = name, window' # "closed"
  PROVE  FileInv'
<1>1. tab' \in [DOMAIN tab' -> W!Card]
  BY DEF TabShapes, W!Open
<1>2. AllFound' /\ HeldIn' = W!Held(tab') /\ \A d, e \in layout' : d.tab = e.tab => d = e
  BY <1>1, SavedSays DEF FileInv
<1>3. W!Held(tab)' = W!Held(tab')
  BY DEF W!Held
<1> QED
  BY <1>2, <1>3 DEF FileInv

\* The same tabs, on the same connections.
LEMMA HeldSame ==
  ASSUME TabShapes, W!Open' = W!Open,
         \A t \in W!Open : tab'[t].kind = tab[t].kind /\ tab'[t].prof = tab[t].prof
  PROVE  W!Held(tab') = W!Held(tab)
BY DEF W!Held, W!Open

LEMMA KeptFile ==
  ASSUME FileInv, UNCHANGED <<name, layout, outdated, was, gone>>,
         \/ UNCHANGED <<window, tab>>
         \/ window # "closed" /\ window' # "closed" /\ W!Held(tab') = W!Held(tab)
  PROVE  FileInv'
<1>1. HeldIn' = HeldIn /\ AllFound' = AllFound
  BY DEF HeldIn, Said, AllFound
<1>2. W!Held(tab)' = W!Held(tab')
  BY DEF W!Held
<1>3. CASE UNCHANGED <<window, tab>>
  BY <1>1, <1>2, <1>3 DEF FileInv
<1>4. CASE window # "closed" /\ window' # "closed" /\ W!Held(tab') = W!Held(tab)
  BY <1>1, <1>2, <1>4 DEF FileInv
<1> QED
  BY <1>3, <1>4

LEMMA RenamedFile ==
  ASSUME TabShapes, FileInv, NEW p \in Profile, NEW n \in Name, W!Rename(p, n)
  PROVE  FileInv'
<1>1. /\ name' = [name EXCEPT ![p] = n] /\ \A q \in Profile : name[q] # n
      /\ window # "closed" /\ UNCHANGED <<tab, window>>
  BY DEF W!Rename, W!MainAwake
<1>2. name \in [Profile -> Name] /\ name' \in [Profile -> Name] /\ tab \in [DOMAIN tab -> W!Card]
  BY <1>1 DEF TabShapes, W!Open
<1>3. \A q, r \in Profile : name'[q] = name'[r] => q = r
  BY <1>1, <1>2 DEF FileInv
<1>4. W!Held(tab)' = W!Held(tab)
  BY <1>1 DEF W!Held
<1>5. CASE layout' = {[e EXCEPT !.conn = name'[tab[e.tab].prof]] : e \in W!Entries(tab)} /\ outdated' = FALSE
  <2>1. \A e \in layout' : \E t \in DOMAIN tab :
          /\ tab[t].kind # "tool"
          /\ e = [tab |-> t, kind |-> tab[t].kind, conn |-> name'[tab[t].prof]]
    BY <1>5 DEF W!Entries, W!Entry
  <2>2. \A t \in DOMAIN tab : tab[t].kind # "tool" =>
          [tab |-> t, kind |-> tab[t].kind, conn |-> name'[tab[t].prof]] \in layout'
    <3> SUFFICES ASSUME NEW t \in DOMAIN tab, tab[t].kind # "tool"
                 PROVE  [tab |-> t, kind |-> tab[t].kind, conn |-> name'[tab[t].prof]] \in layout'
      OBVIOUS
    <3>1. W!Entry(tab, t) \in W!Entries(tab)
      BY DEF W!Entries
    <3>2. [W!Entry(tab, t) EXCEPT !.conn = name'[tab[W!Entry(tab, t).tab].prof]]
            = [tab |-> t, kind |-> tab[t].kind, conn |-> name'[tab[t].prof]]
      BY DEF W!Entry
    <3> QED
      BY <1>5, <3>1, <3>2
  <2>3. \A t \in DOMAIN tab : tab[t].prof \in Profile
    BY <1>2 DEF W!Card
  <2>4. AllFound' /\ \A d, e \in layout' : d.tab = e.tab => d = e
    BY <2>1, <2>3 DEF AllFound
  <2>5. ASSUME NEW h \in HeldIn' PROVE h \in W!Held(tab)
    <3>1. PICK e \in layout', q \in Profile : name'[q] = e.conn /\ h = Said(e, q)
      BY DEF HeldIn, Said
    <3>2. PICK t \in DOMAIN tab :
            /\ tab[t].kind # "tool"
            /\ e = [tab |-> t, kind |-> tab[t].kind, conn |-> name'[tab[t].prof]]
      BY <2>1
    <3>3. q = tab[t].prof
      BY <1>3, <2>3, <3>1, <3>2
    <3>4. h = <<tab[t].kind, tab[t].prof, IF tab[t].kind = "console" THEN {t} ELSE {}>>
      BY <3>1, <3>2, <3>3 DEF Said
    <3> QED
      BY <3>2, <3>4 DEF W!Held
  <2>6. ASSUME NEW h \in W!Held(tab) PROVE h \in HeldIn'
    <3>1. PICK t \in DOMAIN tab :
            /\ tab[t].kind # "tool"
            /\ h = <<tab[t].kind, tab[t].prof, IF tab[t].kind = "console" THEN {t} ELSE {}>>
      BY DEF W!Held
    <3> DEFINE e == [tab |-> t, kind |-> tab[t].kind, conn |-> name'[tab[t].prof]]
               d == <<e, tab[t].prof>>
    <3>2. h = Said(e, tab[t].prof) /\ e.conn = name'[tab[t].prof]
      BY <3>1 DEF Said
    <3>3. d \in layout' \X Profile /\ d[1] = e /\ d[2] = tab[t].prof
      BY <2>2, <2>3, <3>1
    <3> HIDE DEF e, d
    <3> QED
      BY <3>2, <3>3 DEF HeldIn, Said
  <2> QED
    BY <1>1, <1>3, <1>4, <2>4, <2>5, <2>6 DEF FileInv
<1>6. CASE outdated' = (outdated \/ \E e \in layout : e.conn = name[p]) /\ UNCHANGED layout
  <2>1. SUFFICES ASSUME ~ outdated' PROVE AllFound' /\ HeldIn' = W!Held(tab)
    BY <1>1, <1>3, <1>4, <1>6 DEF FileInv
  <2>2. AllFound /\ HeldIn = W!Held(tab) /\ \A e \in layout : e.conn # name[p]
    BY <1>1, <1>6, <2>1 DEF FileInv
  <2>3. \A e \in layout, q \in Profile : name'[q] = e.conn <=> name[q] = e.conn
    BY <1>1, <1>2, <2>2 DEF AllFound
  <2>4. AllFound'
    BY <1>6, <2>2, <2>3 DEF AllFound
  <2>5. {d \in layout \X Profile : name'[d[2]] = d[1].conn}
          = {d \in layout \X Profile : name[d[2]] = d[1].conn}
    BY <2>3
  <2>6. HeldIn' = HeldIn
    BY <1>6, <2>5 DEF HeldIn, Said
  <2> QED
    BY <2>2, <2>4, <2>6
<1> QED
  BY <1>5, <1>6 DEF W!Rename

LEMMA GoneFile ==
  ASSUME TabShapes, FileInv, W!Finish \/ W!Die
  PROVE  FileInv'
<1> DEFINE cards == [t \in {u \in W!Open : ~ tab[u].out} |-> tab[t]]
<1>1. cards \in [DOMAIN cards -> W!Card] /\ W!Held(cards) \subseteq W!Held(tab)
  <2>1. \A t \in DOMAIN cards : t \in W!Open /\ cards[t] = tab[t] /\ tab[t] \in W!Card
    BY DEF TabShapes
  <2> QED
    BY <2>1 DEF W!Held, W!Open
<1> HIDE DEF cards
<1>2. CASE W!Finish
  <2>1. /\ layout' = W!Entries(cards) /\ name' = name /\ window' = "closed"
        /\ was' = W!Held(tab) /\ gone' = W!Held(tab) \ W!Held(cards)
    BY <1>2 DEF W!Finish, W!Gone, cards
  <2>2. AllFound' /\ HeldIn' = W!Held(cards) /\ \A d, e \in layout' : d.tab = e.tab => d = e
    BY <1>1, <2>1, SavedSays DEF FileInv
  <2>3. was' \ gone' = W!Held(cards)
    BY <1>1, <2>1
  <2> QED
    BY <2>1, <2>2, <2>3 DEF FileInv
<1>3. CASE W!Die
  <2>1. /\ UNCHANGED <<name, layout, outdated>> /\ window' = "closed" /\ window # "closed"
        /\ was' = W!Held(tab) /\ gone' = {}
    BY <1>3 DEF W!Die, W!Gone
  <2>2. HeldIn' = HeldIn /\ AllFound' = AllFound
    BY <2>1 DEF HeldIn, Said, AllFound
  <2> QED
    BY <2>1, <2>2 DEF FileInv
<1> QED
  BY <1>2, <1>3

\* What is restored is what the file says.
LEMMA StartHeld ==
  ASSUME TabShapes, FileInv, W!Start, ~ outdated
  PROVE  W!Held(tab') = HeldIn
<1>1. PICK S \in SUBSET {e \in layout : W!Found(e)}, first \in Profile :
        /\ \A e \in layout : W!Found(e) => \E d \in S : W!SameKey(d, e)
        /\ tab' = [t \in {e.tab : e \in S} |-> W!Restored(CHOOSE e \in S : e.tab = t, first)]
  BY DEF W!Start
<1>2. \A e \in layout : \E p \in Profile : name[p] = e.conn
  BY DEF FileInv, AllFound
<1>3. \A e \in layout : W!Found(e)
  BY <1>2 DEF W!Found
<1>4. \A e \in layout : e.kind \in {"object", "console"}
  BY DEF TabShapes, FileEntry
<1>5. ASSUME NEW e \in S
      PROVE  /\ e.tab \in DOMAIN tab' /\ tab'[e.tab].kind = e.kind
             /\ tab'[e.tab].prof \in Profile /\ name[tab'[e.tab].prof] = e.conn
  <2>1. \A d \in S : d.tab = e.tab => d = e
    BY DEF FileInv
  <2>2. (CHOOSE d \in S : d.tab = e.tab) = e
    BY <2>1
  <2>3. tab'[e.tab] = W!Restored(e, first)
    BY <1>1, <2>2
  <2>4. PICK p \in Profile : name[p] = e.conn
    BY <1>2
  <2> QED
    BY <1>1, <2>3, <2>4 DEF W!Restored
<1>6. \A t \in DOMAIN tab' : \E e \in S : t = e.tab
  BY <1>1
<1>7. ASSUME NEW h \in W!Held(tab') PROVE h \in HeldIn
  <2>1. PICK t \in DOMAIN tab' :
          h = <<tab'[t].kind, tab'[t].prof, IF tab'[t].kind = "console" THEN {t} ELSE {}>>
    BY DEF W!Held
  <2>2. PICK e \in S : t = e.tab
    BY <1>6
  <2>3. h = Said(e, tab'[t].prof)
    BY <1>5, <2>1, <2>2 DEF Said
  <2> DEFINE d == <<e, tab'[t].prof>>
  <2>4. d \in layout \X Profile /\ d[1] = e /\ d[2] = tab'[t].prof /\ name[d[2]] = d[1].conn
    BY <1>5, <2>2
  <2> HIDE DEF d
  <2> QED
    BY <2>3, <2>4 DEF HeldIn, Said
<1>8. ASSUME NEW h \in HeldIn PROVE h \in W!Held(tab')
  <2>1. PICK e \in layout, p \in Profile : name[p] = e.conn /\ h = Said(e, p)
    BY DEF HeldIn, Said
  <2>2. PICK d \in S : W!SameKey(d, e)
    BY <1>1, <1>3
  <2>3. d.conn = e.conn /\ d.kind = e.kind /\ (e.kind = "console" => d.tab = e.tab)
    BY <1>4, <2>2 DEF W!SameKey
  <2>4. tab'[d.tab].prof = p
    BY <1>5, <2>1, <2>3 DEF FileInv
  <2>5. h = <<tab'[d.tab].kind, tab'[d.tab].prof,
              IF tab'[d.tab].kind = "console" THEN {d.tab} ELSE {}>>
    BY <1>5, <2>1, <2>3, <2>4 DEF Said
  <2>6. tab'[d.tab].kind # "tool" /\ d.tab \in DOMAIN tab'
    BY <1>4, <1>5
  <2> QED
    BY <2>5, <2>6 DEF W!Held
<1> QED
  BY <1>7, <1>8

LEMMA StartFile ==
  ASSUME TabShapes, FileInv, W!Start
  PROVE  FileInv'
<1>1. UNCHANGED <<name, layout, outdated>> /\ window' = "open"
  BY DEF W!Start
<1>2. HeldIn' = HeldIn /\ AllFound' = AllFound /\ W!Held(tab)' = W!Held(tab')
  BY <1>1 DEF HeldIn, Said, AllFound, W!Held
<1> QED
  BY <1>1, <1>2, StartHeld DEF FileInv

\* A close saves, unless all it did was to ask.
LEMMA ClosedFile ==
  ASSUME VisibleInv, VisibleInv', W!TabsAssumption, FileInv, NEW S \in SUBSET W!Open, NEW c,
         W!CloseEach(S, c), window # "closed", UNCHANGED <<name, window, was, gone>>
  PROVE  FileInv'
<1> DEFINE asks == {t \in S : W!Guard(t) \notin {NoName, c}}
<1>1. CASE layout' = W!Entries(tab') /\ outdated' = FALSE
  BY <1>1, SavedFile DEF VisibleInv
<1>2. CASE S = asks /\ UNCHANGED <<layout, outdated>>
  <2>1. W!Open' = W!Open
    BY <1>2 DEF W!CloseEach, W!Open
  <2>2. W!Held(tab') = W!Held(tab)
    BY <2>1, ClosedEach, HeldSame DEF VisibleInv
  <2> QED
    BY <1>2, <2>2, KeptFile
<1> QED
  BY <1>1, <1>2 DEF W!CloseEach, W!NotSaved, W!SaveState

LEMMA FileStep ==
  ASSUME VisibleInv, VisibleInv', W!TabsAssumption, FileInv, [W!Next]_(W!vars)
  PROVE  FileInv'
<1>0. TabShapes /\ TabShapes' /\ W!Closable \subseteq W!Open
  BY DEF VisibleInv, W!Closable
<1>a. ASSUME layout' = W!Entries(tab'), outdated' = FALSE, UNCHANGED name, window' # "closed"
      PROVE  FileInv'
  BY <1>0, <1>a, SavedFile
<1>b. ASSUME UNCHANGED <<name, tab, layout, outdated, was, gone>>,
             window' = window \/ (window # "closed" /\ window' # "closed")
      PROVE  FileInv'
  BY <1>b, KeptFile
<1>c. ASSUME NEW t \in W!Open, NEW card, tab' = [tab EXCEPT ![t] = card],
             card.kind = tab[t].kind, card.prof = tab[t].prof, window # "closed",
             UNCHANGED <<name, window, layout, outdated, was, gone>>
      PROVE  FileInv'
  <2>1. /\ W!Open' = W!Open
        /\ \A u \in W!Open : tab'[u].kind = tab[u].kind /\ tab'[u].prof = tab[u].prof
    BY <1>0, <1>c DEF W!Open, TabShapes
  <2> QED
    BY <1>0, <1>c, <2>1, HeldSame, KeptFile
<1>1. ASSUME NEW t \in Tab, NEW p \in Profile, NEW out \in BOOLEAN,
             W!OpenObject(t, p, out) \/ W!OpenTool(t, p, out) \/ W!NewConsole(t, p, out)
      PROVE  FileInv'
  <2>1. /\ layout' = W!Entries(tab') /\ outdated' = FALSE
        /\ window # "closed" /\ UNCHANGED <<name, window>>
    BY <1>1 DEF W!OpenObject, W!OpenTool, W!NewConsole, W!Append, W!SaveState,
       W!Others, W!MainAwake
  <2> QED
    BY <1>a, <2>1
<1>2. ASSUME NEW t \in W!Open, W!Move(t) \/ \E p \in Profile : W!Switch(t, p) PROVE FileInv'
  <2>1. /\ layout' = W!Entries(tab') /\ outdated' = FALSE
        /\ window # "closed" /\ UNCHANGED <<name, window>>
    BY <1>2 DEF W!Move, W!Switch, W!Awake, W!MainAwake, W!SaveState, W!Others
  <2> QED
    BY <1>a, <2>1
<1>3. ASSUME NEW t \in W!Open, W!Type(t) PROVE FileInv'
  <2>1. /\ tab' = [tab EXCEPT ![t] = [tab[t] EXCEPT !.dirty = TRUE]]
        /\ window # "closed" /\ UNCHANGED <<name, window, layout, outdated, was, gone>>
    BY <1>3 DEF W!Type, W!Awake, W!MainAwake, W!NotSaved, W!Others
  <2>2. /\ [tab[t] EXCEPT !.dirty = TRUE].kind = tab[t].kind
        /\ [tab[t] EXCEPT !.dirty = TRUE].prof = tab[t].prof
    BY <1>0 DEF TabShapes, W!Card
  <2> QED
    BY <1>c, <2>1, <2>2
<1>4. ASSUME NEW t \in W!Open, W!Respond(t) PROVE FileInv'
  <2>1. window # "closed" /\ UNCHANGED <<name, window, was, gone>>
    BY <1>4 DEF W!Respond, VisibleInv, Sent
  <2>2. CASE tab' = [tab EXCEPT ![t].asked = NoName] /\ W!NotSaved
    <3>1. tab' = [tab EXCEPT ![t] = [tab[t] EXCEPT !.asked = NoName]]
      BY <2>2
    <3>2. /\ [tab[t] EXCEPT !.asked = NoName].kind = tab[t].kind
          /\ [tab[t] EXCEPT !.asked = NoName].prof = tab[t].prof
      BY <1>0 DEF TabShapes, W!Card
    <3> QED
      BY <1>c, <2>1, <2>2, <3>1, <3>2 DEF W!NotSaved
  <2>3. CASE W!SaveState(tab')
    BY <1>a, <2>1, <2>3 DEF W!SaveState
  <2> QED
    BY <1>4, <2>2, <2>3 DEF W!Respond
<1>5. CASE \/ \E t \in W!Open : W!Begin(t) \/ W!End(t)
           \/ \E b \in begins : W!BeginRuns(b) \/ W!BeginFails(b)
           \/ \E n \in Name : W!RollBack(n) \/ W!LeaveNext(n)
  BY <1>b, <1>5 DEF W!Begin, W!End, W!BeginRuns, W!BeginFails, W!RollBack, W!LeaveNext,
     W!Sessions
<1>6. ASSUME NEW S \in SUBSET W!Closable, W!ClosePages(S) PROVE FileInv'
  <2>1. S \in SUBSET W!Open /\ W!CloseEach(S, NoName) /\ window # "closed"
        /\ UNCHANGED <<name, window, was, gone>>
    BY <1>0, <1>6 DEF W!ClosePages, W!Awake, W!MainAwake
  <2> QED
    BY <2>1, ClosedFile
<1>7. ASSUME NEW p \in Profile, W!CloseRelated(p) PROVE FileInv'
  <2>1. window # "closed" /\ UNCHANGED <<name, window, was, gone>>
    BY <1>7 DEF W!CloseRelated, W!MainAwake
  <2>2. CASE W!CloseEach(W!Related(p) \cap W!Closable, name[p])
    BY <1>0, <2>1, <2>2, ClosedFile
  <2>3. CASE W!NotSaved /\ UNCHANGED tab
    BY <1>b, <2>1, <2>3 DEF W!NotSaved
  <2> QED
    BY <1>7, <2>2, <2>3 DEF W!CloseRelated
<1>8. ASSUME W!RespondRelated PROVE FileInv'
  <2>1. window # "closed" /\ UNCHANGED <<name, window, was, gone>>
    BY <1>8 DEF W!RespondRelated
  <2>2. CASE W!NotSaved /\ UNCHANGED tab
    BY <1>b, <2>1, <2>2 DEF W!NotSaved
  <2>3. ASSUME NEW r \in related,
               W!CloseEach({t \in DOMAIN r.pages \cap W!Closable : tab[t].out = r.pages[t]},
                         name[r.prof])
        PROVE  FileInv'
    <3> DEFINE S == {t \in DOMAIN r.pages \cap W!Closable : tab[t].out = r.pages[t]}
    <3>1. S \in SUBSET W!Open /\ W!CloseEach(S, name[r.prof])
      BY <1>0, <2>3
    <3> HIDE DEF S
    <3> QED
      BY <2>1, <3>1, ClosedFile
  <2> QED
    BY <1>8, <2>2, <2>3 DEF W!RespondRelated
<1>9. CASE W!RequestClose
  <2>1. UNCHANGED <<name, tab>> /\ window' = "asking" /\ layout' = W!Entries(tab) /\ outdated' = FALSE
    BY <1>9 DEF W!RequestClose, W!SaveState
  <2>2. W!Entries(tab') = W!Entries(tab)
    BY <2>1
  <2> QED
    BY <1>a, <2>1, <2>2
<1>10. CASE W!KeepOpen \/ (W!Confirm /\ ~ W!Finish) \/ UNCHANGED W!vars
  BY <1>b, <1>10 DEF W!KeepOpen, W!Confirm, W!vars
<1>11. CASE W!Finish \/ W!Die
  BY <1>0, <1>11, GoneFile
<1>12. CASE W!Start
  BY <1>0, <1>12, StartFile
<1> QED
  BY <1>0, <1>1, <1>2, <1>3, <1>4, <1>5, <1>6, <1>7, <1>8, <1>9, <1>10, <1>11, <1>12,
     RenamedFile DEF W!Next, W!Leave

\* window.py:62-64, "on reopen every tab is restored": whatever was opened,
\* moved, renamed, closed and confirmed before the window was closed or killed,
\* opening it again brings back the tabs there were; apart from the pop-outs
\* that closing loses, and a file that a rename has left stale.
THEOREM Reopens == W!TabsAssumption /\ W!Spec => W!ReopensAsLeft
<1> SUFFICES ASSUME W!TabsAssumption PROVE W!Spec => W!ReopensAsLeft
  OBVIOUS
<1>1. W!Init => VisibleInv /\ FileInv
  <2> SUFFICES ASSUME W!Init PROVE VisibleInv /\ FileInv
    OBVIOUS
  <2>1. VisibleInv
    BY DEF W!Init, VisibleInv, TabShapes, Sent, W!OpenIsVisible, W!Open
  <2>2. AllFound /\ HeldIn = {} /\ W!Held(tab) = {} /\ window = "open"
    BY DEF W!Init, AllFound, HeldIn, W!Held
  <2> QED
    BY <2>1, <2>2 DEF W!Init, FileInv
<1>2. VisibleInv /\ [W!Next]_(W!vars) => VisibleInv'
  BY VisibleStep
<1>3. VisibleInv /\ VisibleInv' /\ FileInv /\ [W!Next]_(W!vars) => FileInv'
  BY FileStep
<1>4. VisibleInv /\ FileInv /\ [W!Next]_(W!vars) =>
        [window = "closed" /\ window' = "open" /\ ~ outdated => W!Held(tab') = was \ gone]_(W!vars)
  <2> SUFFICES ASSUME VisibleInv, FileInv, [W!Next]_(W!vars), window = "closed", window' = "open",
                      ~ outdated
               PROVE  W!Held(tab') = was \ gone
    OBVIOUS
  <2>1. W!Open = {} /\ begins = {}
    BY DEF VisibleInv, Sent
  <2>2. ~ (\E n \in Name : W!RollBack(n) \/ W!LeaveNext(n))
    BY DEF W!RollBack, W!LeaveNext, W!Sessions
  <2>3. ~ (\E t \in Tab, p \in Profile, out \in BOOLEAN :
             W!OpenObject(t, p, out) \/ W!OpenTool(t, p, out) \/ W!NewConsole(t, p, out))
    BY DEF W!OpenObject, W!OpenTool, W!NewConsole, W!MainAwake
  <2>4. ~ (\E p \in Profile, n \in Name : W!Rename(p, n)) /\ ~ (\E p \in Profile : W!CloseRelated(p))
    BY DEF W!Rename, W!CloseRelated, W!MainAwake
  <2>5. ~ (\E S \in SUBSET W!Closable : W!ClosePages(S))
    BY <2>1 DEF W!ClosePages, W!Closable
  <2>6. ~ (W!RespondRelated \/ W!RequestClose \/ W!KeepOpen \/ W!Confirm \/ W!Leave \/ W!Die \/ UNCHANGED W!vars)
    BY DEF W!RespondRelated, W!RequestClose, W!KeepOpen, W!Confirm, W!Leave, W!Die,
       W!vars
  <2>7. W!Start
    BY <2>1, <2>2, <2>3, <2>4, <2>5, <2>6 DEF W!Next
  <2> QED
    BY <2>7, StartHeld DEF VisibleInv, FileInv
<1> QED
  BY <1>1, <1>2, <1>3, <1>4, PTL DEF W!Spec, W!ReopensAsLeft

-----------------------------------------------------------------------------
(* The configuration files.  Sequences.                                    *)

IsSeq(s) == s \in Seq(C!ToSet(s))

\* Induction over the natural numbers, as a fact about sets.
LEMMA FromZero ==
  ASSUME NEW T \in SUBSET Nat, 0 \in T, \A n \in T : n + 1 \in T
  PROVE  T = Nat
<1> SUFFICES ASSUME Nat \ T # {} PROVE FALSE
  OBVIOUS
<1>1. PICK x \in Nat \ T : \A y \in Nat \ T : ~ (<<y, x>> \in OpToRel(<, Nat))
  BY NatLessThanWellFounded, WFMin, Zenon
<1>2. x # 0 /\ x - 1 \in Nat /\ x - 1 < x
  OBVIOUS
<1>3. <<x - 1, x>> \in OpToRel(<, Nat)
  BY <1>2, Zenon DEF OpToRel
<1>4. x - 1 \in T
  BY <1>1, <1>2, <1>3
<1>5. x \in Nat /\ x \notin T
  OBVIOUS
<1> QED
  <2>1. (x - 1) + 1 \in T
    BY <1>4
  <2>2. (x - 1) + 1 = x
    BY <1>5
  <2> QED
    BY <1>5, <2>1, <2>2

LEMMA SeqIf ==
  ASSUME NEW S, NEW s \in Seq(S)
  PROVE  IsSeq(s) /\ DOMAIN s = 1 .. Len(s) /\ Len(s) \in Nat /\ IsFiniteSet(DOMAIN s)
<1>1. Len(s) \in Nat /\ s \in [1 .. Len(s) -> S] /\ DOMAIN s = 1 .. Len(s)
  BY LenProperties
<1>2. s \in [1 .. Len(s) -> C!ToSet(s)]
  BY <1>1 DEF C!ToSet
<1>3. s \in Seq(C!ToSet(s))
  BY <1>1, <1>2, SeqDef
<1>4. IsFiniteSet(1 .. Len(s))
  BY <1>1, FS_Interval
<1> QED
  BY <1>1, <1>3, <1>4 DEF IsSeq

LEMMA SeqDomain ==
  ASSUME NEW s, IsSeq(s)
  PROVE  DOMAIN s = 1 .. Len(s) /\ Len(s) \in Nat /\ IsFiniteSet(DOMAIN s)
BY SeqIf DEF IsSeq

LEMMA SeqOver ==
  ASSUME NEW n \in Nat, NEW s, s = [i \in 1 .. n |-> s[i]]
  PROVE  IsSeq(s)
<1>1. s \in [1 .. n -> C!ToSet(s)]
  BY DEF C!ToSet
<1> QED
  BY <1>1, SeqDef DEF IsSeq

\* u is s and then t.
Joined(s, t, u) ==
  /\ IsSeq(u) /\ Len(u) = Len(s) + Len(t)
  /\ \A i \in DOMAIN u :
       \/ i \in DOMAIN s /\ u[i] = s[i]
       \/ i - Len(s) \in DOMAIN t /\ i > Len(s) /\ u[i] = t[i - Len(s)]
  /\ \A i \in DOMAIN s : i \in DOMAIN u /\ u[i] = s[i]
  /\ \A i \in DOMAIN t : Len(s) + i \in DOMAIN u /\ u[Len(s) + i] = t[i]

LEMMA SeqJoin ==
  ASSUME NEW s, IsSeq(s), NEW t, IsSeq(t), NEW u, u = s \o t
  PROVE  Joined(s, t, u)
<1> DEFINE S == C!ToSet(s) \cup C!ToSet(t)
<1>1. s \in [1 .. Len(s) -> S] /\ Len(s) \in Nat /\ DOMAIN s = 1 .. Len(s)
  BY LenProperties DEF IsSeq
<1>2. t \in [1 .. Len(t) -> S] /\ Len(t) \in Nat /\ DOMAIN t = 1 .. Len(t)
  BY LenProperties DEF IsSeq
<1>3. s \in Seq(S) /\ t \in Seq(S)
  BY <1>1, <1>2, SeqDef
<1> HIDE DEF S
<1>4. /\ u \in Seq(S) /\ Len(u) = Len(s) + Len(t)
      /\ \A i \in 1 .. Len(s) + Len(t) : u[i] = IF i <= Len(s) THEN s[i] ELSE t[i - Len(s)]
  BY <1>3, ConcatProperties
<1>5. IsSeq(u) /\ DOMAIN u = 1 .. Len(s) + Len(t)
  BY <1>4, SeqIf
<1>6. ASSUME NEW i \in DOMAIN u
      PROVE  \/ i \in DOMAIN s /\ u[i] = s[i]
             \/ i - Len(s) \in DOMAIN t /\ i > Len(s) /\ u[i] = t[i - Len(s)]
  BY <1>1, <1>2, <1>4, <1>5
<1>7. ASSUME NEW i \in DOMAIN s PROVE i \in DOMAIN u /\ u[i] = s[i]
  BY <1>1, <1>2, <1>4, <1>5
<1>8. ASSUME NEW i \in DOMAIN t PROVE Len(s) + i \in DOMAIN u /\ u[Len(s) + i] = t[i]
  <2>1. Len(s) + i \in 1 .. Len(s) + Len(t) /\ ~ (Len(s) + i <= Len(s)) /\ Len(s) + i - Len(s) = i
    BY <1>1, <1>2
  <2> QED
    BY <1>4, <1>5, <2>1
<1> QED
  BY <1>4, <1>5, <1>6, <1>7, <1>8 DEF Joined

LEMMA JoinHolds ==
  ASSUME NEW s, IsSeq(s), NEW t, IsSeq(t)
  PROVE  C!ToSet(s \o t) = C!ToSet(s) \cup C!ToSet(t)
<1>1. PICK u : u = s \o t
  OBVIOUS
<1>2. Joined(s, t, u)
  BY <1>1, SeqJoin
<1>3. C!ToSet(u) = C!ToSet(s) \cup C!ToSet(t)
  BY <1>2 DEF C!ToSet, Joined
<1> QED
  BY <1>1, <1>3

LEMMA SameSize == ASSUME NEW S PROVE C!Cardinality(S) = Cardinality(S)
BY Zenon DEF C!Cardinality, Cardinality

LEMMA NoSeq == IsSeq(<< >>) /\ Len(<< >>) = 0 /\ DOMAIN << >> = {} /\ C!ToSet(<< >>) = {}
<1>1. << >> \in Seq({}) /\ Len(<< >>) = 0 /\ DOMAIN << >> = {}
  BY EmptySeq
<1>2. C!ToSet(<< >>) = {}
  BY <1>1 DEF C!ToSet
<1> QED
  BY <1>1, <1>2 DEF IsSeq

LEMMA EmptyIs ==
  ASSUME NEW s, IsSeq(s), Len(s) = 0
  PROVE  s = << >>
BY EmptySeq DEF IsSeq

LEMMA JoinNone ==
  ASSUME NEW s, IsSeq(s)
  PROVE  << >> \o s = s /\ s \o << >> = s
<1>1. PICK S : S = C!ToSet(s)
  OBVIOUS
<1>2. s \in Seq(S) /\ << >> \in Seq(S)
  BY <1>1 DEF IsSeq
<1> QED
  BY <1>2, ConcatEmptySeq

LEMMA OneSeq ==
  ASSUME NEW e
  PROVE  IsSeq(<< e >>) /\ Len(<< e >>) = 1 /\ << e >>[1] = e /\ DOMAIN << e >> = {1}
<1>1. << e >> \in Seq({e}) /\ Len(<< e >>) = 1
  OBVIOUS
<1>2. IsSeq(<< e >>) /\ DOMAIN << e >> = 1 .. 1
  BY <1>1, SeqIf
<1> QED
  BY <1>1, <1>2

\* The first entries of a sequence.
LEMMA PrefixIs ==
  ASSUME NEW s, IsSeq(s), NEW a \in Nat, NEW b \in Nat, a <= b, b <= Len(s)
  PROVE  /\ IsSeq(SubSeq(s, a + 1, b)) /\ Len(SubSeq(s, a + 1, b)) = b - a
         /\ \A i \in 1 .. b - a : SubSeq(s, a + 1, b)[i] = s[a + i]
<1>1. DOMAIN s = 1 .. Len(s) /\ Len(s) \in Nat
  BY SeqDomain
<1>2. \A i \in a + 1 .. b : s[i] \in C!ToSet(s)
  BY <1>1 DEF C!ToSet
<1> DEFINE u == SubSeq(s, a + 1, b)
<1>3. /\ u \in Seq(C!ToSet(s)) /\ Len(u) = IF a + 1 <= b THEN b - (a + 1) + 1 ELSE 0
      /\ \A i \in 1 .. b - (a + 1) + 1 : u[i] = s[a + 1 + i - 1]
  BY <1>2, SubSeqProperties
<1>4. IsSeq(u)
  BY <1>3, SeqIf
<1> HIDE DEF u
<1>5. Len(u) = b - a
  BY <1>3
<1>6. ASSUME NEW i \in 1 .. b - a PROVE u[i] = s[a + i]
  BY <1>3
<1> QED
  BY <1>4, <1>5, <1>6 DEF u

\* FlattenSeq joins its lists one by one.
LEMMA FlatBy ==
  ASSUME NEW n \in Nat, NEW ss, ss = [i \in 1 .. n |-> ss[i]], \A i \in 1 .. n : IsSeq(ss[i])
  PROVE  \E flat : /\ flat[0] = << >> /\ C!FlattenSeq(ss) = flat[n]
                   /\ \A m \in 0 .. n - 1 : flat[m + 1] = flat[m] \o ss[m + 1]
<1>1. IsSeq(ss) /\ Len(ss) = n
  <2>1. IsSeq(ss) /\ DOMAIN ss = 1 .. n
    BY SeqOver
  <2>2. DOMAIN ss = 1 .. Len(ss) /\ Len(ss) \in Nat
    BY <2>1, SeqDomain
  <2> QED
    BY <2>1, <2>2
<1>2. CASE n = 0
  <2>1. ss = << >>
    BY <1>1, <1>2, EmptyIs
  <2>2. C!FlattenSeq(ss) = << >>
    BY <1>1, <1>2, <2>1 DEF C!FlattenSeq
  <2>3. PICK f : f = [m \in {0} |-> << >>]
    OBVIOUS
  <2> QED
    BY <1>2, <2>2, <2>3
<1>3. CASE n # 0
  <2> DEFINE Flat(f, m) == f = [i \in 1 .. m |-> IF i = 1 THEN ss[i] ELSE f[i - 1] \o ss[i]]
             T == {m \in Nat : \E f : Flat(f, m)}
             flat == CHOOSE f : Flat(f, n)
  <2>1. 0 \in T
    <3>1. Flat([i \in 1 .. 0 |-> {}], 0)
      OBVIOUS
    <3> QED
      BY <3>1
  <2>2. ASSUME NEW m \in T PROVE m + 1 \in T
    <3>1. PICK f : Flat(f, m)
      OBVIOUS
    <3> DEFINE g == [i \in 1 .. m + 1 |->
                       IF i = 1 THEN ss[i] ELSE IF i = m + 1 THEN f[m] \o ss[i] ELSE f[i]]
    <3>2. ASSUME NEW i \in 1 .. m + 1
          PROVE  g[i] = IF i = 1 THEN ss[i] ELSE g[i - 1] \o ss[i]
      <4>1. CASE i = 1
        BY <4>1
      <4>2. CASE i # 1
        <5>1. m \in Nat /\ i - 1 \in 1 .. m + 1 /\ i - 1 \in 1 .. m /\ i - 1 # m + 1
          BY <4>2
        <5>2. f[i - 1] = IF i - 1 = 1 THEN ss[i - 1] ELSE f[i - 1 - 1] \o ss[i - 1]
          BY <3>1, <5>1
        <5>3. g[i - 1] = f[i - 1]
          BY <5>1, <5>2
        <5>4. CASE i = m + 1
          <6>1. i - 1 = m
            BY <5>1, <5>4
          <6>2. g[i] = f[m] \o ss[i]
            BY <4>2, <5>4
          <6> QED
            BY <4>2, <5>3, <6>1, <6>2
        <5>5. CASE i # m + 1
          <6>1. i \in 1 .. m /\ g[i] = f[i]
            BY <4>2, <5>1, <5>5
          <6>2. f[i] = f[i - 1] \o ss[i]
            BY <3>1, <4>2, <6>1
          <6> QED
            BY <4>2, <5>3, <6>1, <6>2
        <5> QED
          BY <5>4, <5>5
      <4> QED
        BY <4>1, <4>2
    <3>3. g = [i \in 1 .. m + 1 |-> g[i]]
      OBVIOUS
    <3> HIDE DEF g
    <3>4. Flat(g, m + 1)
      BY <3>2, <3>3
    <3>5. m + 1 \in Nat
      OBVIOUS
    <3> HIDE DEF Flat
    <3> QED
      BY <3>4, <3>5
  <2>3. n \in T
    <3> HIDE DEF T
    <3>1. T \in SUBSET Nat
      BY DEF T
    <3> QED
      BY <2>1, <2>2, <3>1, FromZero
  <2>4. Flat(flat, n)
    BY <2>3
  <2> DEFINE all == [m \in 0 .. n |-> IF m = 0 THEN << >> ELSE flat[m]]
  <2>5. C!FlattenSeq(ss) = flat[n]
    BY <1>1, <1>3 DEF C!FlattenSeq, flat
  <2> HIDE DEF flat
  <2>6. ASSUME NEW m \in 0 .. n - 1 PROVE all[m + 1] = all[m] \o ss[m + 1]
    <3>1. m + 1 \in 1 .. n /\ m \in 0 .. n /\ m + 1 \in 0 .. n /\ m + 1 # 0 /\ (m + 1) - 1 = m
      BY <1>3
    <3>2. all[m + 1] = flat[m + 1]
      BY <3>1
    <3>3. flat[m + 1] = IF m + 1 = 1 THEN ss[m + 1] ELSE flat[m] \o ss[m + 1]
      BY <2>4, <3>1
    <3>4. CASE m = 0
      <4>1. all[m] = << >> /\ IsSeq(ss[m + 1]) /\ flat[m + 1] = ss[m + 1]
        BY <3>1, <3>3, <3>4
      <4> HIDE DEF all
      <4> QED
        BY <3>2, <4>1, JoinNone
    <3>5. CASE m # 0
      <4>1. all[m] = flat[m] /\ m + 1 # 1
        BY <3>1, <3>5
      <4> HIDE DEF all
      <4> QED
        BY <3>2, <3>3, <4>1
    <3> QED
      BY <3>4, <3>5
  <2>7. all[0] = << >> /\ all[n] = flat[n]
    BY <1>3
  <2> HIDE DEF all
  <2> QED
    BY <2>5, <2>6, <2>7
<1> QED
  BY <1>2, <1>3

-----------------------------------------------------------------------------
(* Documents: what the lines of one say.                                   *)

\* The last header at or before line i.
Heads(X, i, u) ==
  /\ u \in 0 .. i
  /\ u # 0 => C!IsHeader(X[u])
  /\ \A h \in u + 1 .. i : ~ C!IsHeader(X[h])

LEMMA HeadsOne ==
  ASSUME NEW X, NEW i \in Nat, NEW u, NEW v, Heads(X, i, u), Heads(X, i, v)
  PROVE  u = v
<1>1. u \in 0 .. i /\ v \in 0 .. i
  BY DEF Heads
<1>2. ~ u < v
  <2> SUFFICES ASSUME u < v PROVE FALSE
    OBVIOUS
  <2>1. v # 0 /\ v \in u + 1 .. i
    BY <1>1
  <2> QED
    BY <2>1 DEF Heads
<1>3. ~ v < u
  <2> SUFFICES ASSUME v < u PROVE FALSE
    OBVIOUS
  <2>1. u # 0 /\ u \in v + 1 .. i
    BY <1>1
  <2> QED
    BY <2>1 DEF Heads
<1> QED
  BY <1>1, <1>2, <1>3

LEMMA HeadsSome ==
  ASSUME NEW X, NEW i \in Nat
  PROVE  \E u : Heads(X, i, u)
<1> DEFINE T == {n \in Nat : \E u : Heads(X, n, u)}
<1>1. 0 \in T
  <2>1. Heads(X, 0, 0)
    BY DEF Heads
  <2> QED
    BY <2>1
<1>2. ASSUME NEW n \in T PROVE n + 1 \in T
  <2>1. n \in Nat /\ n + 1 \in Nat
    OBVIOUS
  <2>2. PICK u : Heads(X, n, u)
    OBVIOUS
  <2>3. CASE C!IsHeader(X[n + 1])
    <3>1. Heads(X, n + 1, n + 1)
      BY <2>1, <2>3 DEF Heads
    <3> QED
      BY <2>1, <3>1
  <2>4. CASE ~ C!IsHeader(X[n + 1])
    <3>1. Heads(X, n + 1, u)
      BY <2>1, <2>2, <2>4 DEF Heads
    <3> QED
      BY <2>1, <3>1
  <2> QED
    BY <2>3, <2>4
<1>3. T = Nat
  <2> HIDE DEF T
  <2>1. T \in SUBSET Nat
    BY DEF T
  <2> QED
    BY <1>1, <1>2, <2>1, FromZero
<1> QED
  BY <1>3

LEMMA UnderIs ==
  ASSUME NEW X, NEW i \in Nat
  PROVE  /\ Heads(X, i, C!Under(X, i))
         /\ \A u : Heads(X, i, u) => u = C!Under(X, i)
<1>1. PICK u : Heads(X, i, u)
  BY HeadsSome
<1> DEFINE hs == {h \in 1 .. i : C!IsHeader(X[h])}
<1>2. Heads(X, i, C!Under(X, i))
  <2>1. C!Under(X, i) = IF hs = {} THEN 0 ELSE CHOOSE h \in hs : \A g \in hs : g <= h
    BY DEF C!Under
  <2>2. CASE hs = {}
    <3>1. \A h \in 0 + 1 .. i : ~ C!IsHeader(X[h])
      BY <2>2
    <3>2. Heads(X, i, 0)
      BY <3>1 DEF Heads
    <3> QED
      BY <2>1, <2>2, <3>2
  <2>3. CASE hs # {}
    <3>1. u # 0
      BY <1>1, <2>3 DEF Heads
    <3>2. u \in hs /\ \A g \in hs : g <= u
      <4>1. u \in hs
        BY <1>1, <3>1 DEF Heads
      <4>2. ASSUME NEW g \in hs PROVE g <= u
        <5>1. g \in 1 .. i /\ C!IsHeader(X[g]) /\ u \in 0 .. i
          BY <1>1 DEF Heads
        <5>2. g \notin u + 1 .. i
          BY <1>1, <5>1 DEF Heads
        <5> QED
          BY <5>1, <5>2
      <4> QED
        BY <4>1, <4>2
    <3> HIDE DEF hs
    <3>3. PICK w : w = CHOOSE h \in hs : \A g \in hs : g <= h
      OBVIOUS
    <3>4. w \in hs /\ \A g \in hs : g <= w
      BY <3>2, <3>3
    <3>5. hs \subseteq 1 .. i
      BY DEF hs
    <3>6. w = u
      BY <3>2, <3>4, <3>5
    <3> QED
      BY <1>1, <2>1, <2>3, <3>3, <3>6
  <2> QED
    BY <2>2, <2>3
<1> QED
  BY <1>2, HeadsOne

IsLine(l) == l = C!Line(l.k, l.n, l.v) /\ l.k \in {"key", "comment", "table", "array"}
IsDoc(X) == IsSeq(X) /\ \A i \in DOMAIN X : IsLine(X[i])

LEMMA DocIs ==
  ASSUME NEW X, IsDoc(X)
  PROVE  IsSeq(X) /\ DOMAIN X = 1 .. Len(X) /\ Len(X) \in Nat
BY SeqDomain DEF IsDoc

\* What the keys under a header say, and what the entries of an array say, in
\* their order.
IsFn(f) == f = [x \in DOMAIN f |-> f[x]]
Says(X, h, f) ==
  /\ IsFn(f) /\ DOMAIN f = C!NamedBy(X, C!KeysUnder(X, h))
  /\ \A i \in C!KeysUnder(X, h) : f[X[i].n] = X[i].v

Along(S, s, p) ==
  /\ p \in [1 .. Len(s) -> S] /\ \A h \in S : \E e \in 1 .. Len(s) : p[e] = h
  /\ \A e, f \in 1 .. Len(s) : e < f => p[e] < p[f]
Lists(X, n, s) ==
  /\ IsSeq(s)
  /\ \E p : Along(C!Entries(X, n), s, p) /\ \A e \in 1 .. Len(s) : Says(X, p[e], s[e])

\* Nothing where there is no array of the name.
Of(A, n) == IF n \in DOMAIN A THEN A[n] ELSE << >>

SaysTables(X, T) ==
  /\ IsFn(T) /\ DOMAIN T = C!NamedBy(X, C!HeadersOf(X, "table"))
  /\ \A h \in C!HeadersOf(X, "table") : Says(X, h, T[X[h].n])
SaysArrays(X, A) ==
  /\ IsFn(A) /\ DOMAIN A = C!NamedBy(X, C!HeadersOf(X, "array"))
  /\ \A n : Lists(X, n, Of(A, n))

\* A document that says S in its head, and has the tables T and arrays A.
Reads(X, S, T, A) ==
  IsDoc(X) /\ C!Valid(X) /\ Says(X, 0, S) /\ SaysTables(X, T) /\ SaysArrays(X, A)

-----------------------------------------------------------------------------
(* Two documents, one after the other.                                     *)

\* The lines of the second come after those of the first.
Joins(X, Y, Z) ==
  /\ IsDoc(Z) /\ DOMAIN Z = 1 .. Len(X) + Len(Y)
  /\ \A i \in 1 .. Len(X) : Z[i] = X[i]
  /\ \A j \in 1 .. Len(Y) : Z[Len(X) + j] = Y[j]

LEMMA DocJoins ==
  ASSUME NEW X, IsDoc(X), NEW Y, IsDoc(Y), NEW Z, Z = X \o Y
  PROVE  Joins(X, Y, Z) /\ Len(Z) = Len(X) + Len(Y)
<1>1. /\ IsSeq(X) /\ DOMAIN X = 1 .. Len(X) /\ Len(X) \in Nat
      /\ IsSeq(Y) /\ DOMAIN Y = 1 .. Len(Y) /\ Len(Y) \in Nat
  BY DocIs
<1>2. Joined(X, Y, Z)
  BY <1>1, SeqJoin
<1>3. DOMAIN Z = 1 .. Len(X) + Len(Y)
  BY <1>2, SeqDomain DEF Joined
<1>4. \A i \in DOMAIN Z : IsLine(Z[i])
  BY <1>2 DEF IsDoc, Joined
<1> QED
  BY <1>1, <1>2, <1>3, <1>4 DEF Joins, IsDoc, Joined

\* Lines keep their headers.
LEMMA JoinHeads ==
  ASSUME NEW X, IsDoc(X), NEW Y, IsDoc(Y), NEW Z, Joins(X, Y, Z)
  PROVE  /\ \A i \in 1 .. Len(X) : C!Under(Z, i) = C!Under(X, i)
         /\ \A j \in 1 .. Len(Y) : C!Under(Y, j) # 0 =>
              C!Under(Z, Len(X) + j) = Len(X) + C!Under(Y, j)
<1>1. DOMAIN X = 1 .. Len(X) /\ Len(X) \in Nat /\ DOMAIN Y = 1 .. Len(Y) /\ Len(Y) \in Nat
  BY DocIs
<1>2. PICK a, b : a = Len(X) /\ b = Len(Y)
  OBVIOUS
<1>3. a \in Nat /\ b \in Nat
  BY <1>1, <1>2
<1>4. (\A i \in 1 .. a : Z[i] = X[i]) /\ (\A j \in 1 .. b : Z[a + j] = Y[j])
  BY <1>2 DEF Joins
<1>5. ASSUME NEW i \in 1 .. a PROVE C!Under(Z, i) = C!Under(X, i)
  <2>1. Heads(X, i, C!Under(X, i))
    BY <1>3, UnderIs
  <2>2. PICK u : u = C!Under(X, i)
    OBVIOUS
  <2>3. Heads(Z, i, u)
    BY <1>3, <1>4, <2>1, <2>2 DEF Heads
  <2> QED
    BY <1>3, <2>2, <2>3, UnderIs
<1>6. ASSUME NEW j \in 1 .. b, C!Under(Y, j) # 0 PROVE C!Under(Z, a + j) = a + C!Under(Y, j)
  <2>1. Heads(Y, j, C!Under(Y, j))
    BY <1>3, UnderIs
  <2>2. PICK u : u = C!Under(Y, j)
    OBVIOUS
  <2>3. u \in 1 .. j /\ C!IsHeader(Y[u]) /\ \A h \in u + 1 .. j : ~ C!IsHeader(Y[h])
    BY <1>6, <2>1, <2>2 DEF Heads
  <2>4. ASSUME NEW h \in a + u + 1 .. a + j PROVE ~ C!IsHeader(Z[h])
    <3>1. h - a \in u + 1 .. j /\ h - a \in 1 .. b /\ a + (h - a) = h
      BY <1>3, <2>3
    <3> QED
      BY <1>4, <2>3, <3>1
  <2>5. C!IsHeader(Z[a + u]) /\ a + u \in 0 .. a + j
    <3>1. u \in 1 .. b
      BY <1>3, <2>3
    <3> QED
      BY <1>3, <1>4, <2>3, <3>1
  <2>6. Heads(Z, a + j, a + u)
    BY <2>4, <2>5 DEF Heads
  <2>7. a + j \in Nat
    BY <1>3
  <2> QED
    BY <2>2, <2>6, <2>7, UnderIs
<1> QED
  BY <1>2, <1>5, <1>6

\* No key of the document stands before its headers.
Headed(Y) == \A j \in DOMAIN Y : Y[j].k = "key" => C!Under(Y, j) # 0

Shifted(a, S) == {a + i : i \in S}

LEMMA JoinKeys ==
  ASSUME NEW X, IsDoc(X), NEW Y, IsDoc(Y), Headed(Y), NEW Z, Joins(X, Y, Z)
  PROVE  /\ \A h \in 0 .. Len(X) : C!KeysUnder(Z, h) = C!KeysUnder(X, h)
         /\ \A h \in 1 .. Len(Y) :
              C!KeysUnder(Z, Len(X) + h) = Shifted(Len(X), C!KeysUnder(Y, h))
<1>1. DOMAIN X = 1 .. Len(X) /\ Len(X) \in Nat /\ DOMAIN Y = 1 .. Len(Y) /\ Len(Y) \in Nat
  BY DocIs
<1>2. PICK a, b : a = Len(X) /\ b = Len(Y)
  OBVIOUS
<1>3. a \in Nat /\ b \in Nat /\ DOMAIN X = 1 .. a /\ DOMAIN Y = 1 .. b /\ DOMAIN Z = 1 .. a + b
  BY <1>1, <1>2 DEF Joins
<1>4. (\A i \in 1 .. a : Z[i] = X[i]) /\ (\A j \in 1 .. b : Z[a + j] = Y[j])
  BY <1>2 DEF Joins
<1>5. /\ \A i \in 1 .. a : C!Under(Z, i) = C!Under(X, i)
      /\ \A j \in 1 .. b : C!Under(Y, j) # 0 => C!Under(Z, a + j) = a + C!Under(Y, j)
  BY <1>2, JoinHeads
<1>6. /\ \A i \in 1 .. a : C!Under(X, i) \in 0 .. i
      /\ \A j \in 1 .. b : C!Under(Y, j) \in 0 .. j
  BY <1>3, UnderIs DEF Heads
<1>7. ASSUME NEW i \in 1 .. a + b, i > a, Z[i].k = "key"
      PROVE  /\ i - a \in 1 .. b /\ a + (i - a) = i /\ Y[i - a].k = "key"
             /\ C!Under(Z, i) = a + C!Under(Y, i - a) /\ C!Under(Y, i - a) \in 1 .. i - a
  <2>1. PICK j : j = i - a
    OBVIOUS
  <2>2. j \in 1 .. b /\ a + j = i
    BY <1>3, <1>7, <2>1
  <2>3. Y[j].k = "key" /\ C!Under(Y, j) # 0
    <3>1. Z[a + j] = Y[j]
      BY <1>4, <2>2
    <3> QED
      BY <1>3, <1>7, <2>2, <3>1 DEF Headed
  <2>4. C!Under(Z, a + j) = a + C!Under(Y, j)
    BY <1>5, <2>2, <2>3
  <2>5. C!Under(Y, j) \in 1 .. j
    BY <1>3, <1>6, <2>2, <2>3
  <2> QED
    BY <2>1, <2>2, <2>3, <2>4, <2>5
<1>8. ASSUME NEW h \in 0 .. a PROVE C!KeysUnder(Z, h) = C!KeysUnder(X, h)
  <2>1. ASSUME NEW i \in 1 .. a + b, Z[i].k = "key", C!Under(Z, i) = h PROVE i \in 1 .. a
    <3> SUFFICES ASSUME i > a PROVE FALSE
      BY <1>3
    <3>1. PICK u : u = C!Under(Y, i - a)
      OBVIOUS
    <3>2. C!Under(Z, i) = a + u /\ u \in 1 .. i - a
      BY <1>7, <2>1, <3>1
    <3> QED
      BY <1>3, <2>1, <3>2
  <2>2. \A i \in 1 .. a : i \in 1 .. a + b
    BY <1>3
  <2> QED
    BY <1>3, <1>4, <1>5, <2>1, <2>2 DEF C!KeysUnder
<1>9. ASSUME NEW h \in 1 .. b PROVE C!KeysUnder(Z, a + h) = Shifted(a, C!KeysUnder(Y, h))
  <2>1. ASSUME NEW i \in C!KeysUnder(Z, a + h) PROVE i \in Shifted(a, C!KeysUnder(Y, h))
    <3>1. i \in 1 .. a + b /\ Z[i].k = "key" /\ C!Under(Z, i) = a + h
      BY <1>3, <2>1 DEF C!KeysUnder
    <3>2. i > a
      <4> SUFFICES ASSUME ~ i > a PROVE FALSE
        OBVIOUS
      <4>1. i \in 1 .. a
        BY <1>3, <3>1
      <4>2. C!Under(X, i) = a + h /\ C!Under(X, i) \in 0 .. i
        BY <1>5, <1>6, <3>1, <4>1
      <4> QED
        BY <1>3, <4>1, <4>2
    <3>3. PICK j, u : j = i - a /\ u = C!Under(Y, j)
      OBVIOUS
    <3>4. j \in 1 .. b /\ a + j = i /\ Y[j].k = "key" /\ a + u = a + h /\ u \in 1 .. j
      BY <1>7, <3>1, <3>2, <3>3
    <3>5. u = h
      BY <1>3, <3>4
    <3>6. j \in C!KeysUnder(Y, h)
      BY <1>3, <3>3, <3>4, <3>5 DEF C!KeysUnder
    <3> QED
      BY <3>4, <3>6 DEF Shifted
  <2>2. ASSUME NEW j \in C!KeysUnder(Y, h) PROVE a + j \in C!KeysUnder(Z, a + h)
    <3>1. j \in 1 .. b /\ Y[j].k = "key" /\ C!Under(Y, j) = h
      BY <1>3, <2>2 DEF C!KeysUnder
    <3>2. h # 0
      BY <1>3
    <3>3. C!Under(Z, a + j) = a + h /\ Z[a + j] = Y[j] /\ a + j \in 1 .. a + b
      <4>1. C!Under(Z, a + j) = a + h
        BY <1>5, <3>1, <3>2
      <4>2. Z[a + j] = Y[j]
        BY <1>4, <3>1
      <4> QED
        BY <1>3, <3>1, <4>1, <4>2
    <3> QED
      BY <1>3, <3>1, <3>3 DEF C!KeysUnder
  <2> QED
    BY <2>1, <2>2 DEF Shifted
<1> QED
  BY <1>2, <1>8, <1>9

LEMMA JoinSays ==
  ASSUME NEW X, IsDoc(X), NEW Y, IsDoc(Y), Headed(Y), NEW Z, Joins(X, Y, Z), NEW f
  PROVE  /\ \A h \in 0 .. Len(X) : Says(X, h, f) => Says(Z, h, f)
         /\ \A h \in 1 .. Len(Y) : Says(Y, h, f) => Says(Z, Len(X) + h, f)
<1>1. DOMAIN X = 1 .. Len(X) /\ Len(X) \in Nat /\ DOMAIN Y = 1 .. Len(Y) /\ Len(Y) \in Nat
  BY DocIs
<1>2. PICK a, b : a = Len(X) /\ b = Len(Y)
  OBVIOUS
<1>4. (\A i \in 1 .. a : Z[i] = X[i]) /\ (\A j \in 1 .. b : Z[a + j] = Y[j])
  BY <1>2 DEF Joins
<1>5. ASSUME NEW h \in 0 .. a, Says(X, h, f) PROVE Says(Z, h, f)
  <2>1. PICK K : K = C!KeysUnder(X, h)
    OBVIOUS
  <2>2. C!KeysUnder(Z, h) = K
    BY <1>2, <2>1, JoinKeys
  <2>3. \A i \in K : Z[i] = X[i]
    BY <1>1, <1>2, <1>4, <2>1 DEF C!KeysUnder
  <2>4. IsFn(f) /\ DOMAIN f = {X[i].n : i \in K} /\ \A i \in K : f[X[i].n] = X[i].v
    BY <1>5, <2>1 DEF Says, C!NamedBy
  <2>5. DOMAIN f = {Z[i].n : i \in K} /\ \A i \in K : f[Z[i].n] = Z[i].v
    BY <2>3, <2>4
  <2> QED
    BY <2>2, <2>4, <2>5 DEF Says, C!NamedBy
<1>6. ASSUME NEW h \in 1 .. b, Says(Y, h, f) PROVE Says(Z, a + h, f)
  <2>1. PICK K, J : K = C!KeysUnder(Y, h) /\ J = Shifted(a, K)
    OBVIOUS
  <2>2. C!KeysUnder(Z, a + h) = J
    BY <1>2, <2>1, JoinKeys
  <2>3. \A i \in K : Z[a + i] = Y[i]
    BY <1>1, <1>2, <1>4, <2>1 DEF C!KeysUnder
  <2>4. IsFn(f) /\ DOMAIN f = {Y[i].n : i \in K} /\ \A i \in K : f[Y[i].n] = Y[i].v
    BY <1>6, <2>1 DEF Says, C!NamedBy
  <2>5. \A i \in J : \E j \in K : i = a + j
    BY <2>1 DEF Shifted
  <2>6. \A j \in K : a + j \in J
    BY <2>1 DEF Shifted
  <2>7. \A i \in J : f[Z[i].n] = Z[i].v
    BY <2>3, <2>4, <2>5
  <2>8. DOMAIN f = {Z[i].n : i \in J}
    <3>1. ASSUME NEW x \in DOMAIN f PROVE x \in {Z[i].n : i \in J}
      <4>1. PICK j \in K : x = Y[j].n
        BY <2>4
      <4> QED
        BY <2>3, <2>6, <4>1
    <3>2. ASSUME NEW i \in J PROVE Z[i].n \in DOMAIN f
      BY <2>3, <2>4, <2>5
    <3> QED
      BY <3>1, <3>2
  <2> QED
    BY <2>2, <2>4, <2>7, <2>8 DEF Says, C!NamedBy
<1> QED
  BY <1>2, <1>5, <1>6

\* The headers of the two documents, by kind and by name.
LEMMA JoinLines ==
  ASSUME NEW X, IsDoc(X), NEW Y, IsDoc(Y), NEW Z, Joins(X, Y, Z), NEW kind
  PROVE  /\ C!HeadersOf(Z, kind) =
              C!HeadersOf(X, kind) \cup Shifted(Len(X), C!HeadersOf(Y, kind))
         /\ \A n : C!Entries(Z, n) = C!Entries(X, n) \cup Shifted(Len(X), C!Entries(Y, n))
<1>1. DOMAIN X = 1 .. Len(X) /\ Len(X) \in Nat /\ DOMAIN Y = 1 .. Len(Y) /\ Len(Y) \in Nat
  BY DocIs
<1>2. PICK a, b : a = Len(X) /\ b = Len(Y)
  OBVIOUS
<1>3. a \in Nat /\ b \in Nat /\ DOMAIN X = 1 .. a /\ DOMAIN Y = 1 .. b /\ DOMAIN Z = 1 .. a + b
  BY <1>1, <1>2 DEF Joins
<1>4. (\A i \in 1 .. a : Z[i] = X[i]) /\ (\A j \in 1 .. b : Z[a + j] = Y[j])
  BY <1>2 DEF Joins
<1>5. /\ \A i \in 1 .. a + b : i \in 1 .. a \/ \E j \in 1 .. b : i = a + j
      /\ \A i \in 1 .. a : i \in 1 .. a + b
      /\ \A j \in 1 .. b : a + j \in 1 .. a + b
  <2>1. ASSUME NEW i \in 1 .. a + b, i \notin 1 .. a PROVE \E j \in 1 .. b : i = a + j
    <3>1. i - a \in 1 .. b /\ i = a + (i - a)
      BY <1>3, <2>1
    <3> QED
      BY <3>1
  <2>2. \A i \in 1 .. a : i \in 1 .. a + b
    BY <1>3
  <2>3. \A j \in 1 .. b : a + j \in 1 .. a + b
    BY <1>3
  <2> QED
    BY <2>1, <2>2, <2>3
<1>6. ASSUME NEW kk PROVE C!HeadersOf(Z, kk) = C!HeadersOf(X, kk) \cup Shifted(a, C!HeadersOf(Y, kk))
  BY <1>3, <1>4, <1>5 DEF C!HeadersOf, Shifted
<1>7. ASSUME NEW n PROVE C!Entries(Z, n) = C!Entries(X, n) \cup Shifted(a, C!Entries(Y, n))
  <2>1. PICK Ps, Q, R : Ps = C!HeadersOf(X, "array") /\ Q = C!HeadersOf(Y, "array")
                       /\ R = C!HeadersOf(Z, "array")
    OBVIOUS
  <2>2. R = Ps \cup Shifted(a, Q) /\ Ps \subseteq 1 .. a /\ Q \subseteq 1 .. b
    BY <1>3, <1>6, <2>1 DEF C!HeadersOf
  <2>3. PICK p, q : p = {h \in Ps : X[h].n = n} /\ q = {h \in Q : Y[h].n = n}
    OBVIOUS
  <2>4. (\A h \in Ps : Z[h].n = X[h].n) /\ (\A h \in Q : Z[a + h].n = Y[h].n)
    BY <1>4, <2>2
  <2>5. ASSUME NEW h \in R, Z[h].n = n PROVE h \in p \cup Shifted(a, q)
    <3>1. CASE h \in Ps
      BY <2>3, <2>4, <2>5, <3>1
    <3>2. CASE h \in Shifted(a, Q)
      <4>1. PICK g \in Q : h = a + g
        BY <3>2 DEF Shifted
      <4>2. g \in q
        BY <2>3, <2>4, <2>5, <4>1
      <4> QED
        BY <4>1, <4>2 DEF Shifted
    <3> QED
      BY <2>2, <3>1, <3>2
  <2>6. ASSUME NEW h \in p PROVE h \in R /\ Z[h].n = n
    BY <2>2, <2>3, <2>4, <2>6
  <2>7. ASSUME NEW h \in Shifted(a, q) PROVE h \in R /\ Z[h].n = n
    <3>1. PICK g \in q : h = a + g
      BY <2>7 DEF Shifted
    <3>2. g \in Q /\ Y[g].n = n
      BY <2>3
    <3>3. h \in Shifted(a, Q)
      BY <3>1, <3>2 DEF Shifted
    <3> QED
      BY <2>2, <2>4, <3>1, <3>2, <3>3
  <2>8. {h \in R : Z[h].n = n} = p \cup Shifted(a, q)
    BY <2>5, <2>6, <2>7
  <2> QED
    BY <2>1, <2>3, <2>8 DEF C!Entries
<1> QED
  BY <1>2, <1>6, <1>7

\* The second document gives no name anew, but an array more entries.
Unshared(S, T, A, U, B) ==
  /\ (DOMAIN S \cup DOMAIN T) \cap (DOMAIN U \cup DOMAIN B) = {}
  /\ DOMAIN A \cap DOMAIN U = {}

LEMMA NoScalars ==
  ASSUME NEW Y, IsDoc(Y), NEW S, Says(Y, 0, S), DOMAIN S = {}
  PROVE  Headed(Y)
<1> SUFFICES ASSUME NEW j \in DOMAIN Y, Y[j].k = "key", C!Under(Y, j) = 0 PROVE FALSE
  BY DEF Headed
<1>1. j \in C!KeysUnder(Y, 0)
  BY DEF C!KeysUnder
<1>2. Y[j].n \in DOMAIN S
  BY <1>1 DEF Says, C!NamedBy
<1> QED
  BY <1>2

\* What is there is named.
LEMMA NamesThere ==
  ASSUME NEW X, NEW S, NEW T, NEW A, Reads(X, S, T, A)
  PROVE  /\ \A i \in DOMAIN X : X[i].k = "key" /\ C!Under(X, i) = 0 => X[i].n \in DOMAIN S
         /\ \A i \in DOMAIN X : X[i].k = "table" => X[i].n \in DOMAIN T
         /\ \A i \in DOMAIN X : X[i].k = "array" => X[i].n \in DOMAIN A
BY DEF Reads, Says, SaysTables, SaysArrays, C!NamedBy, C!KeysUnder, C!HeadersOf

LEMMA JoinValid ==
  ASSUME NEW X, NEW S, NEW T, NEW A, Reads(X, S, T, A),
         NEW Y, NEW E, NEW U, NEW B, Reads(Y, E, U, B), DOMAIN E = {}, Unshared(S, T, A, U, B),
         NEW Z, Joins(X, Y, Z)
  PROVE  C!Valid(Z)
<1>1. /\ DOMAIN X = 1 .. Len(X) /\ Len(X) \in Nat /\ DOMAIN Y = 1 .. Len(Y) /\ Len(Y) \in Nat
      /\ IsDoc(X) /\ IsDoc(Y)
  BY DocIs DEF Reads
<1>2. PICK a, b : a = Len(X) /\ b = Len(Y)
  OBVIOUS
<1>3. a \in Nat /\ b \in Nat /\ DOMAIN X = 1 .. a /\ DOMAIN Y = 1 .. b /\ DOMAIN Z = 1 .. a + b
  BY <1>1, <1>2 DEF Joins
<1>4. (\A i \in 1 .. a : Z[i] = X[i]) /\ (\A j \in 1 .. b : Z[a + j] = Y[j])
  BY <1>2 DEF Joins
<1>5. /\ \A i \in 1 .. a : C!Under(Z, i) = C!Under(X, i)
      /\ \A j \in 1 .. b : C!Under(Y, j) # 0 => C!Under(Z, a + j) = a + C!Under(Y, j)
  BY <1>1, <1>2, JoinHeads
<1>6. /\ \A i \in 1 .. a : C!Under(X, i) \in 0 .. i
      /\ \A j \in 1 .. b : C!Under(Y, j) \in 0 .. j
  BY <1>3, UnderIs DEF Heads
<1>7. \A j \in 1 .. b : Y[j].k = "key" => C!Under(Y, j) # 0
  BY <1>1, <1>3, NoScalars DEF Reads, Headed
<1>8. \A i \in 1 .. a + b : i \in 1 .. a \/ (i - a \in 1 .. b /\ i = a + (i - a))
  BY <1>3
<1>9. /\ \A i \in 1 .. a : X[i].k = "key" /\ C!Under(X, i) = 0 => X[i].n \in DOMAIN S
      /\ \A i \in 1 .. a : X[i].k = "table" => X[i].n \in DOMAIN T
      /\ \A i \in 1 .. a : X[i].k = "array" => X[i].n \in DOMAIN A
  BY <1>3, NamesThere
<1>10. /\ \A i \in 1 .. b : Y[i].k = "table" => Y[i].n \in DOMAIN U
       /\ \A i \in 1 .. b : Y[i].k = "array" => Y[i].n \in DOMAIN B
  BY <1>3, NamesThere
<1>11. C!Valid(X) /\ C!Valid(Y)
  BY DEF Reads
<1> DEFINE Keys(Ws, i, j) == i # j /\ Ws[i].k = "key" /\ Ws[j].k = "key" /\ C!Under(Ws, i) = C!Under(Ws, j)
                              => Ws[i].n # Ws[j].n
           Heads2(Ws, i, j) == i # j /\ C!IsHeader(Ws[i]) /\ C!IsHeader(Ws[j]) /\ Ws[i].n = Ws[j].n
                              => Ws[i].k = "array" /\ Ws[j].k = "array"
           Mixed(Ws, i, j) == Ws[i].k = "key" /\ C!Under(Ws, i) = 0 /\ C!IsHeader(Ws[j])
                              => Ws[i].n # Ws[j].n
<1>12. \A Ws : C!Valid(Ws) <=> \A i, j \in DOMAIN Ws : Keys(Ws, i, j) /\ Heads2(Ws, i, j) /\ Mixed(Ws, i, j)
  BY DEF C!Valid
<1>13. ASSUME NEW i \in 1 .. a, NEW j \in 1 .. a PROVE Keys(Z, i, j) /\ Heads2(Z, i, j) /\ Mixed(Z, i, j)
  <2>1. Keys(X, i, j) /\ Heads2(X, i, j) /\ Mixed(X, i, j)
    <3> HIDE DEF Keys, Heads2, Mixed
    <3> QED
      BY <1>3, <1>11, <1>12
  <2>2. Z[i] = X[i] /\ Z[j] = X[j] /\ C!Under(Z, i) = C!Under(X, i) /\ C!Under(Z, j) = C!Under(X, j)
    BY <1>4, <1>5
  <2> QED
    BY <2>1, <2>2
<1>14. ASSUME NEW p \in 1 .. b, NEW q \in 1 .. b
       PROVE  Keys(Z, a + p, a + q) /\ Heads2(Z, a + p, a + q) /\ Mixed(Z, a + p, a + q)
  <2>1. Keys(Y, p, q) /\ Heads2(Y, p, q) /\ Mixed(Y, p, q)
    <3> HIDE DEF Keys, Heads2, Mixed
    <3> QED
      BY <1>3, <1>11, <1>12
  <2>2. Z[a + p] = Y[p] /\ Z[a + q] = Y[q]
    BY <1>4
  <2>3. PICK u, v : u = C!Under(Y, p) /\ v = C!Under(Y, q)
    OBVIOUS
  <2>4. u \in 0 .. p /\ v \in 0 .. q /\ (u = v <=> a + u = a + v) /\ (u # 0 => a + u # 0)
    BY <1>3, <1>6, <2>3
  <2>5. /\ Y[p].k = "key" => u # 0 /\ C!Under(Z, a + p) = a + u
        /\ Y[q].k = "key" => v # 0 /\ C!Under(Z, a + q) = a + v
    BY <1>5, <1>7, <2>3
  <2>6. Keys(Z, a + p, a + q)
    BY <2>1, <2>2, <2>3, <2>4, <2>5
  <2>7. Heads2(Z, a + p, a + q)
    BY <2>1, <2>2
  <2>8. Mixed(Z, a + p, a + q)
    BY <2>2, <2>4, <2>5
  <2> QED
    BY <2>6, <2>7, <2>8
<1>15. ASSUME NEW i \in 1 .. a, NEW q \in 1 .. b
       PROVE  /\ Keys(Z, i, a + q) /\ Heads2(Z, i, a + q) /\ Mixed(Z, i, a + q)
              /\ Keys(Z, a + q, i) /\ Heads2(Z, a + q, i) /\ Mixed(Z, a + q, i)
  <2>1. Z[i] = X[i] /\ Z[a + q] = Y[q] /\ C!Under(Z, i) = C!Under(X, i)
    BY <1>4, <1>5
  <2>2. PICK u, v : u = C!Under(X, i) /\ v = C!Under(Y, q)
    OBVIOUS
  <2>3. /\ u \in 0 .. i /\ v \in 0 .. q
        /\ Y[q].k = "key" => v # 0 /\ C!Under(Z, a + q) = a + v
    BY <1>5, <1>6, <1>7, <2>2
  <2>4. v # 0 => u # a + v /\ a + v # 0
    BY <1>3, <2>3
  <2>5. Keys(Z, i, a + q) /\ Keys(Z, a + q, i) /\ Mixed(Z, a + q, i)
    BY <2>1, <2>2, <2>3, <2>4
  <2>6. C!IsHeader(Y[q]) => Y[q].n \in DOMAIN U \cup DOMAIN B
    BY <1>10 DEF C!IsHeader
  <2>7. Mixed(Z, i, a + q)
    BY <1>9, <2>1, <2>6 DEF Unshared
  <2>8. ASSUME C!IsHeader(X[i]), C!IsHeader(Y[q]), X[i].n = Y[q].n
        PROVE  X[i].k = "array" /\ Y[q].k = "array"
    BY <1>9, <1>10, <2>8 DEF C!IsHeader, Unshared
  <2>9. Heads2(Z, i, a + q) /\ Heads2(Z, a + q, i)
    BY <2>1, <2>8
  <2> QED
    BY <2>5, <2>7, <2>9
<1> HIDE DEF Keys, Heads2, Mixed
<1>16. ASSUME NEW i \in 1 .. a + b, NEW j \in 1 .. a + b
       PROVE  Keys(Z, i, j) /\ Heads2(Z, i, j) /\ Mixed(Z, i, j)
  BY <1>8, <1>13, <1>14, <1>15
<1> QED
  BY <1>3, <1>12, <1>16

Over(F, G) == [x \in DOMAIN F \cup DOMAIN G |-> IF x \in DOMAIN F THEN F[x] ELSE G[x]]
Both(A, B) == [x \in DOMAIN A \cup DOMAIN B |-> Of(A, x) \o Of(B, x)]

LEMMA JoinTables ==
  ASSUME NEW X, IsDoc(X), NEW Y, IsDoc(Y), Headed(Y), NEW Z, Joins(X, Y, Z),
         NEW T, SaysTables(X, T), NEW U, SaysTables(Y, U), DOMAIN T \cap DOMAIN U = {}
  PROVE  SaysTables(Z, Over(T, U))
<1>1. DOMAIN X = 1 .. Len(X) /\ Len(X) \in Nat /\ DOMAIN Y = 1 .. Len(Y) /\ Len(Y) \in Nat
  BY DocIs
<1>2. PICK a, b, F : a = Len(X) /\ b = Len(Y) /\ F = Over(T, U)
  OBVIOUS
<1>3. PICK Ps, Q, R : Ps = C!HeadersOf(X, "table") /\ Q = C!HeadersOf(Y, "table")
                     /\ R = C!HeadersOf(Z, "table")
  OBVIOUS
<1>4. R = Ps \cup Shifted(a, Q)
  BY <1>2, <1>3, JoinLines
<1>5. Ps \subseteq 1 .. a /\ Q \subseteq 1 .. b
  BY <1>1, <1>2, <1>3 DEF C!HeadersOf
<1>6. /\ \A h \in Ps : Z[h] = X[h] /\ Z[h].n \in DOMAIN T /\ Says(Z, h, T[Z[h].n])
      /\ \A h \in Q : Z[a + h] = Y[h] /\ Z[a + h].n \in DOMAIN U /\ Says(Z, a + h, U[Z[a + h].n])
  <2>1. (\A i \in 1 .. a : Z[i] = X[i]) /\ (\A j \in 1 .. b : Z[a + j] = Y[j])
    BY <1>2 DEF Joins
  <2>2. ASSUME NEW h \in Ps PROVE Z[h] = X[h] /\ Z[h].n \in DOMAIN T /\ Says(Z, h, T[Z[h].n])
    <3>1. Z[h] = X[h] /\ h \in 0 .. a
      BY <1>5, <2>1
    <3>2. X[h].n \in DOMAIN T /\ Says(X, h, T[X[h].n])
      BY <1>3 DEF SaysTables, C!NamedBy
    <3>3. PICK f : f = T[X[h].n]
      OBVIOUS
    <3>4. Says(Z, h, f)
      BY <1>2, <3>1, <3>2, <3>3, JoinSays
    <3> QED
      BY <3>1, <3>2, <3>3, <3>4
  <2>3. ASSUME NEW h \in Q PROVE Z[a + h] = Y[h] /\ Z[a + h].n \in DOMAIN U /\ Says(Z, a + h, U[Z[a + h].n])
    <3>1. Z[a + h] = Y[h] /\ h \in 1 .. b
      BY <1>5, <2>1
    <3>2. Y[h].n \in DOMAIN U /\ Says(Y, h, U[Y[h].n])
      BY <1>3 DEF SaysTables, C!NamedBy
    <3>3. PICK f : f = U[Y[h].n]
      OBVIOUS
    <3>4. Says(Z, a + h, f)
      BY <1>2, <3>1, <3>2, <3>3, JoinSays
    <3> QED
      BY <3>1, <3>2, <3>3, <3>4
  <2> QED
    BY <2>2, <2>3
<1>7. DOMAIN T = {X[h].n : h \in Ps} /\ DOMAIN U = {Y[h].n : h \in Q}
  BY <1>3 DEF SaysTables, C!NamedBy
<1>8. IsFn(F) /\ DOMAIN F = DOMAIN T \cup DOMAIN U
      /\ \A x \in DOMAIN F : F[x] = IF x \in DOMAIN T THEN T[x] ELSE U[x]
  BY <1>2 DEF Over, IsFn
<1>9. \A h \in R : h \in Ps \/ \E g \in Q : h = a + g
  BY <1>4 DEF Shifted
<1>10. \A g \in Q : a + g \in R
  BY <1>4 DEF Shifted
<1>11. \A h \in R : Z[h].n \in DOMAIN F /\ Says(Z, h, F[Z[h].n])
  <2>1. ASSUME NEW h \in Ps PROVE Z[h].n \in DOMAIN F /\ F[Z[h].n] = T[Z[h].n]
    BY <1>6, <1>8
  <2>2. ASSUME NEW h \in Q PROVE Z[a + h].n \in DOMAIN F /\ F[Z[a + h].n] = U[Z[a + h].n]
    BY <1>6, <1>8
  <2> QED
    BY <1>6, <1>9, <2>1, <2>2
<1>12. DOMAIN F \subseteq {Z[h].n : h \in R}
  <2>1. \A x \in DOMAIN T : \E h \in R : Z[h].n = x
    BY <1>4, <1>6, <1>7
  <2>2. \A x \in DOMAIN U : \E h \in R : Z[h].n = x
    BY <1>6, <1>7, <1>10
  <2> QED
    BY <1>8, <2>1, <2>2
<1>13. DOMAIN F = C!NamedBy(Z, R)
  BY <1>11, <1>12 DEF C!NamedBy
<1>14. SaysTables(Z, F)
  BY <1>3, <1>8, <1>11, <1>13 DEF SaysTables
<1> QED
  BY <1>2, <1>14

\* The entries of the second document's array come after the first's.
LEMMA JoinLists ==
  ASSUME NEW X, IsDoc(X), NEW Y, IsDoc(Y), Headed(Y), NEW Z, Joins(X, Y, Z),
         NEW n, NEW s, Lists(X, n, s), NEW t, Lists(Y, n, t), NEW w, w = s \o t
  PROVE  Lists(Z, n, w)
<1>1. DOMAIN X = 1 .. Len(X) /\ Len(X) \in Nat /\ DOMAIN Y = 1 .. Len(Y) /\ Len(Y) \in Nat
  BY DocIs
<1>2. PICK a, b, Ps, Q, R : /\ a = Len(X) /\ b = Len(Y) /\ Ps = C!Entries(X, n)
                           /\ Q = C!Entries(Y, n) /\ R = C!Entries(Z, n)
  OBVIOUS
<1>3. R = Ps \cup Shifted(a, Q)
  BY <1>2, JoinLines
<1>4. Ps \subseteq 1 .. a /\ Q \subseteq 1 .. b /\ a \in Nat /\ b \in Nat
  BY <1>1, <1>2 DEF C!Entries, C!HeadersOf
<1>5. IsSeq(s) /\ IsSeq(t)
  BY DEF Lists
<1>6. PICK p : Along(Ps, s, p) /\ \A e \in 1 .. Len(s) : Says(X, p[e], s[e])
  BY <1>2 DEF Lists
<1>7. PICK q : Along(Q, t, q) /\ \A e \in 1 .. Len(t) : Says(Y, q[e], t[e])
  BY <1>2 DEF Lists
<1>8. PICK c, d : c = Len(s) /\ d = Len(t)
  OBVIOUS
<1>9. c \in Nat /\ d \in Nat /\ DOMAIN s = 1 .. c /\ DOMAIN t = 1 .. d
  BY <1>5, <1>8, SeqDomain
<1>10. Joined(s, t, w)
  BY <1>5, SeqJoin
<1>11. /\ IsSeq(w) /\ Len(w) = c + d
       /\ \A e \in 1 .. c : w[e] = s[e]
       /\ \A e \in 1 .. d : w[c + e] = t[e]
  BY <1>8, <1>9, <1>10 DEF Joined
<1>12. PICK r : r = [e \in 1 .. c + d |-> IF e <= c THEN p[e] ELSE a + q[e - c]]
  OBVIOUS
<1>13. /\ \A e \in 1 .. c : e \in 1 .. c + d /\ r[e] = p[e] /\ p[e] \in Ps
       /\ \A e \in 1 .. d : c + e \in 1 .. c + d /\ r[c + e] = a + q[e] /\ q[e] \in Q
       /\ \A e \in 1 .. c + d : e \in 1 .. c \/ \E f \in 1 .. d : e = c + f
  <2>1. ASSUME NEW e \in 1 .. c PROVE e \in 1 .. c + d /\ r[e] = p[e] /\ p[e] \in Ps
    <3>1. e \in 1 .. c + d /\ e <= c
      BY <1>9
    <3>2. r[e] = p[e]
      BY <1>12, <3>1
    <3>3. p[e] \in Ps
      BY <1>6, <1>8 DEF Along
    <3> QED
      BY <3>1, <3>2, <3>3
  <2>2. ASSUME NEW e \in 1 .. d PROVE c + e \in 1 .. c + d /\ r[c + e] = a + q[e] /\ q[e] \in Q
    <3>1. c + e \in 1 .. c + d /\ ~ (c + e <= c) /\ (c + e) - c = e
      BY <1>9
    <3>2. r[c + e] = a + q[e]
      BY <1>12, <3>1
    <3>3. q[e] \in Q
      BY <1>7, <1>8 DEF Along
    <3> QED
      BY <3>1, <3>2, <3>3
  <2>3. ASSUME NEW e \in 1 .. c + d, e \notin 1 .. c PROVE \E f \in 1 .. d : e = c + f
    <3>1. e - c \in 1 .. d /\ e = c + (e - c)
      BY <1>9, <2>3
    <3> QED
      BY <3>1
  <2> QED
    BY <2>1, <2>2, <2>3
<1>14. r \in [1 .. c + d -> R]
  <2>1. ASSUME NEW e \in 1 .. c + d PROVE r[e] \in R
    <3>1. CASE e \in 1 .. c
      BY <1>3, <1>13, <3>1
    <3>2. CASE \E f \in 1 .. d : e = c + f
      <4>1. PICK f \in 1 .. d : e = c + f
        BY <3>2
      <4>2. r[e] = a + q[f] /\ q[f] \in Q
        BY <1>13, <4>1
      <4> QED
        BY <1>3, <4>2 DEF Shifted
    <3> QED
      BY <1>13, <3>1, <3>2
  <2> QED
    BY <1>12, <2>1
<1>15. \A h \in R : \E e \in 1 .. c + d : r[e] = h
  <2>1. ASSUME NEW h \in Ps PROVE \E e \in 1 .. c + d : r[e] = h
    <3>1. PICK e \in 1 .. c : p[e] = h
      BY <1>6, <1>8 DEF Along
    <3> QED
      BY <1>13, <3>1
  <2>2. ASSUME NEW g \in Q PROVE \E e \in 1 .. c + d : r[e] = a + g
    <3>1. PICK e \in 1 .. d : q[e] = g
      BY <1>7, <1>8 DEF Along
    <3> QED
      BY <1>13, <3>1
  <2> QED
    BY <1>3, <2>1, <2>2 DEF Shifted
<1>16. ASSUME NEW e \in 1 .. c + d, NEW f \in 1 .. c + d, e < f PROVE r[e] < r[f]
  <2>1. CASE e \in 1 .. c /\ f \in 1 .. c
    BY <1>6, <1>8, <1>13, <1>16, <2>1 DEF Along
  <2>2. CASE e \in 1 .. c /\ f \notin 1 .. c
    <3>1. PICK g \in 1 .. d : f = c + g
      BY <1>13, <2>2
    <3>2. r[e] \in Ps /\ r[f] = a + q[g] /\ q[g] \in Q
      BY <1>13, <2>2, <3>1
    <3>3. r[e] \in 1 .. a /\ q[g] \in 1 .. b
      BY <1>4, <3>2
    <3> QED
      BY <1>4, <3>2, <3>3
  <2>3. CASE e \notin 1 .. c /\ f \notin 1 .. c
    <3>1. PICK g \in 1 .. d, h \in 1 .. d : e = c + g /\ f = c + h
      BY <1>13, <2>3
    <3>2. g < h
      BY <1>9, <1>16, <3>1
    <3>3. q[g] < q[h] /\ q[g] \in 1 .. b /\ q[h] \in 1 .. b
      BY <1>4, <1>7, <1>8, <1>13, <3>2 DEF Along
    <3>4. r[e] = a + q[g] /\ r[f] = a + q[h]
      BY <1>13, <3>1
    <3> QED
      BY <1>4, <3>3, <3>4
  <2>4. f \in 1 .. c => e \in 1 .. c
    BY <1>9, <1>16
  <2> QED
    BY <2>1, <2>2, <2>3, <2>4
<1>17. Along(R, w, r)
  BY <1>11, <1>14, <1>15, <1>16 DEF Along
<1>18. ASSUME NEW e \in 1 .. c + d PROVE Says(Z, r[e], w[e])
  <2>1. CASE e \in 1 .. c
    <3>1. PICK h, f : h = p[e] /\ f = s[e]
      OBVIOUS
    <3>2. r[e] = h /\ w[e] = f /\ h \in Ps
      BY <1>11, <1>13, <2>1, <3>1
    <3>3. h \in 0 .. Len(X) /\ Says(X, h, f)
      BY <1>2, <1>4, <1>6, <1>8, <2>1, <3>1, <3>2
    <3>4. Says(Z, h, f)
      BY <3>3, JoinSays
    <3> QED
      BY <3>2, <3>4
  <2>2. CASE \E g \in 1 .. d : e = c + g
    <3>1. PICK g \in 1 .. d : e = c + g
      BY <2>2
    <3>2. PICK h, f : h = q[g] /\ f = t[g]
      OBVIOUS
    <3>3. r[e] = a + h /\ w[e] = f /\ h \in Q
      BY <1>11, <1>13, <3>1, <3>2
    <3>4. h \in 1 .. Len(Y) /\ Says(Y, h, f)
      BY <1>2, <1>4, <1>7, <1>8, <3>1, <3>2, <3>3
    <3>5. Says(Z, Len(X) + h, f)
      BY <3>4, JoinSays
    <3> QED
      BY <1>2, <3>3, <3>5
  <2> QED
    BY <1>13, <2>1, <2>2
<1> QED
  BY <1>2, <1>11, <1>17, <1>18 DEF Lists

LEMMA JoinArrays ==
  ASSUME NEW X, IsDoc(X), NEW Y, IsDoc(Y), Headed(Y), NEW Z, Joins(X, Y, Z),
         NEW A, SaysArrays(X, A), NEW B, SaysArrays(Y, B)
  PROVE  SaysArrays(Z, Both(A, B))
<1>1. DOMAIN X = 1 .. Len(X) /\ Len(X) \in Nat /\ DOMAIN Y = 1 .. Len(Y) /\ Len(Y) \in Nat
  BY DocIs
<1>2. PICK a, b, F : a = Len(X) /\ b = Len(Y) /\ F = Both(A, B)
  OBVIOUS
<1>3. PICK Ps, Q, R : Ps = C!HeadersOf(X, "array") /\ Q = C!HeadersOf(Y, "array")
                     /\ R = C!HeadersOf(Z, "array")
  OBVIOUS
<1>4. R = Ps \cup Shifted(a, Q)
  BY <1>2, <1>3, JoinLines
<1>5. Ps \subseteq 1 .. a /\ Q \subseteq 1 .. b
  BY <1>1, <1>2, <1>3 DEF C!HeadersOf
<1>6. (\A i \in Ps : Z[i] = X[i]) /\ (\A j \in Q : Z[a + j] = Y[j])
  BY <1>2, <1>5 DEF Joins
<1>7. DOMAIN A = {X[h].n : h \in Ps} /\ DOMAIN B = {Y[h].n : h \in Q}
  BY <1>3 DEF SaysArrays, C!NamedBy
<1>8. /\ IsFn(F) /\ DOMAIN F = DOMAIN A \cup DOMAIN B
      /\ \A x \in DOMAIN F : F[x] = Of(A, x) \o Of(B, x)
  BY <1>2 DEF Both, IsFn
<1>9. DOMAIN F = C!NamedBy(Z, R)
  <2>1. \A h \in R : h \in Ps \/ \E g \in Q : h = a + g
    BY <1>4 DEF Shifted
  <2>2. \A g \in Q : a + g \in R
    BY <1>4 DEF Shifted
  <2>3. ASSUME NEW h \in R PROVE Z[h].n \in DOMAIN F
    BY <1>6, <1>7, <1>8, <2>1
  <2>4. \A x \in DOMAIN A : \E h \in R : Z[h].n = x
    BY <1>4, <1>6, <1>7
  <2>5. \A x \in DOMAIN B : \E h \in R : Z[h].n = x
    BY <1>6, <1>7, <2>2
  <2> QED
    BY <1>8, <2>3, <2>4, <2>5 DEF C!NamedBy
<1>10. ASSUME NEW n PROVE Lists(Z, n, Of(F, n))
  <2>1. PICK s, t, w : s = Of(A, n) /\ t = Of(B, n) /\ w = s \o t
    OBVIOUS
  <2>2. Lists(X, n, s) /\ Lists(Y, n, t)
    BY <2>1 DEF SaysArrays
  <2>3. Lists(Z, n, w)
    BY <2>1, <2>2, JoinLists
  <2>4. Of(F, n) = w
    <3>1. CASE n \in DOMAIN F
      BY <1>8, <2>1, <3>1 DEF Of
    <3>2. CASE n \notin DOMAIN F
      <4>1. s = << >> /\ t = << >>
        BY <1>8, <2>1, <3>2 DEF Of
      <4>2. w = << >>
        BY <2>1, <4>1, NoSeq, JoinNone
      <4> QED
        BY <3>2, <4>2 DEF Of
    <3> QED
      BY <3>1, <3>2
  <2> QED
    BY <2>3, <2>4
<1>11. SaysArrays(Z, F)
  BY <1>3, <1>8, <1>9, <1>10 DEF SaysArrays
<1> QED
  BY <1>2, <1>11

\* Two documents are read as one that says what both say.
LEMMA ReadsJoin ==
  ASSUME NEW X, NEW S, NEW T, NEW A, Reads(X, S, T, A),
         NEW Y, NEW E, NEW U, NEW B, Reads(Y, E, U, B), DOMAIN E = {}, Unshared(S, T, A, U, B)
  PROVE  Reads(X \o Y, S, Over(T, U), Both(A, B))
<1>1. PICK Z, F, G : Z = X \o Y /\ F = Over(T, U) /\ G = Both(A, B)
  OBVIOUS
<1>2. /\ IsDoc(X) /\ IsDoc(Y) /\ Says(X, 0, S) /\ SaysTables(X, T) /\ SaysArrays(X, A)
      /\ Says(Y, 0, E) /\ SaysTables(Y, U) /\ SaysArrays(Y, B)
  BY DEF Reads
<1>3. Joins(X, Y, Z)
  BY <1>1, <1>2, DocJoins
<1>4. Headed(Y)
  BY <1>2, NoScalars
<1>5. C!Valid(Z)
  BY <1>3, JoinValid
<1>6. Says(Z, 0, S)
  <2>1. 0 \in 0 .. Len(X)
    BY <1>2, DocIs
  <2> QED
    BY <1>2, <1>3, <1>4, <2>1, JoinSays
<1>7. SaysTables(Z, F)
  <2>1. DOMAIN T \cap DOMAIN U = {}
    BY DEF Unshared
  <2> QED
    BY <1>1, <1>2, <1>3, <1>4, <2>1, JoinTables
<1>8. SaysArrays(Z, G)
  BY <1>1, <1>2, <1>3, <1>4, JoinArrays
<1>9. IsDoc(Z)
  BY <1>3 DEF Joins
<1>10. Reads(Z, S, F, G)
  BY <1>5, <1>6, <1>7, <1>8, <1>9 DEF Reads
<1> QED
  BY <1>1, <1>10

-----------------------------------------------------------------------------
(* What is written over a document.                                        *)

\* s has the elements of S, each once.
Listing(S, s) ==
  /\ IsSeq(s)
  /\ \A i \in DOMAIN s : s[i] \in S
  /\ \A i, j \in DOMAIN s : s[i] = s[j] => i = j
  /\ \A x \in S : \E i \in DOMAIN s : s[i] = x

LEMMA SetSeq ==
  ASSUME NEW S, IsFiniteSet(S), NEW s, s = C!SetToSeq(S)
  PROVE  Listing(S, s)
<1>1. PICK n : n = Cardinality(S)
  OBVIOUS
<1>2. n \in Nat /\ ExistsBijection(1 .. n, S)
  BY <1>1, FS_CardinalityType
<1>3. C!Cardinality(S) = n
  BY <1>1, SameSize
<1>4. PICK g : g \in Bijection(1 .. n, S)
  BY <1>2 DEF ExistsBijection
<1>5. g \in [1 .. n -> S] /\ \A a, b \in 1 .. n : g[a] = g[b] => a = b
  BY <1>4 DEF Bijection, Injection, IsInjective
<1>6. s = CHOOSE f \in [1 .. n -> S] : C!IsInjective(f)
  BY <1>3 DEF C!SetToSeq
<1>7. C!IsInjective(g)
  BY <1>5 DEF C!IsInjective
<1>8. s \in [1 .. n -> S] /\ C!IsInjective(s)
  BY <1>5, <1>6, <1>7
<1>9. \A i, j \in DOMAIN s : s[i] = s[j] => i = j
  BY <1>8 DEF C!IsInjective
<1>10. IsSeq(s) /\ DOMAIN s = 1 .. n
  BY <1>2, <1>8, SeqDef, SeqIf
<1>11. s \in Injection(1 .. n, S)
  BY <1>8, <1>9, <1>10 DEF Injection, IsInjective
<1>12. IsFiniteSet(1 .. n) /\ Cardinality(1 .. n) = n
  <2>1. 1 \in Int /\ n \in Int
    BY <1>2
  <2>2. Cardinality(1 .. n) = IF 1 > n THEN 0 ELSE n - 1 + 1
    BY <2>1, FS_Interval
  <2> QED
    BY <1>2, <2>1, <2>2, FS_Interval
<1>13. s \in Surjection(1 .. n, S)
  BY <1>1, <1>11, <1>12, FS_Injection
<1>14. \A x \in S : \E i \in DOMAIN s : s[i] = x
  BY <1>10, <1>13 DEF Surjection
<1> QED
  BY <1>8, <1>9, <1>10, <1>14 DEF Listing

\* X is a line `key = value` for each of f, in some order.
KeysOf(X, f) ==
  /\ IsDoc(X)
  /\ \A i \in DOMAIN X : X[i].k = "key" /\ X[i].n \in DOMAIN f /\ X[i].v = f[X[i].n]
  /\ \A i, j \in DOMAIN X : X[i].n = X[j].n => i = j
  /\ \A x \in DOMAIN f : \E i \in DOMAIN X : X[i].n = x

LEMMA LineIs ==
  ASSUME NEW k, NEW n, NEW v, NEW l, l = C!Line(k, n, v),
         k \in {"key", "comment", "table", "array"}
  PROVE  IsLine(l) /\ l.k = k /\ l.n = n /\ l.v = v
BY DEF C!Line, IsLine

LEMMA KeyLinesAre ==
  ASSUME NEW f, IsFiniteSet(DOMAIN f), NEW X, X = C!KeyLines(f)
  PROVE  KeysOf(X, f)
<1>1. PICK s : s = C!SetToSeq(DOMAIN f)
  OBVIOUS
<1>2. Listing(DOMAIN f, s)
  BY <1>1, SetSeq
<1>3. X = [i \in DOMAIN s |-> C!KeyLine(s[i], f[s[i]])]
  BY <1>1 DEF C!KeyLines
<1>4. ASSUME NEW i \in DOMAIN s
      PROVE  IsLine(X[i]) /\ X[i].k = "key" /\ X[i].n = s[i] /\ X[i].v = f[s[i]]
  <2>1. X[i] = C!Line("key", s[i], f[s[i]])
    BY <1>3 DEF C!KeyLine
  <2> QED
    BY <2>1, LineIs
<1>5. DOMAIN s = 1 .. Len(s) /\ Len(s) \in Nat /\ DOMAIN X = DOMAIN s
  BY <1>2, <1>3, SeqDomain DEF Listing
<1>6. IsSeq(X)
  <2>1. X = [i \in 1 .. Len(s) |-> X[i]]
    BY <1>3, <1>5
  <2> QED
    BY <1>5, <2>1, SeqOver
<1>7. IsDoc(X)
  BY <1>4, <1>5, <1>6 DEF IsDoc
<1>8. \A i \in DOMAIN X : X[i].k = "key" /\ X[i].n \in DOMAIN f /\ X[i].v = f[X[i].n]
  BY <1>2, <1>4, <1>5 DEF Listing
<1>9. \A i, j \in DOMAIN X : X[i].n = X[j].n => i = j
  BY <1>2, <1>4, <1>5 DEF Listing
<1>10. \A x \in DOMAIN f : \E i \in DOMAIN X : X[i].n = x
  BY <1>2, <1>4, <1>5 DEF Listing
<1> QED
  BY <1>7, <1>8, <1>9, <1>10 DEF KeysOf

LEMMA EmptyFn == IsFn(C!Empty) /\ DOMAIN C!Empty = {} /\ \A f : IsFn(f) /\ DOMAIN f = {} => f = C!Empty
BY DEF IsFn, C!Empty

\* A document without headers.
NoHeader(X) == \A i \in DOMAIN X : ~ C!IsHeader(X[i])

LEMMA NoneUnder ==
  ASSUME NEW X, IsDoc(X), NoHeader(X)
  PROVE  \A i \in DOMAIN X : C!Under(X, i) = 0
<1>1. DOMAIN X = 1 .. Len(X) /\ Len(X) \in Nat
  BY DocIs
<1> SUFFICES ASSUME NEW i \in DOMAIN X PROVE C!Under(X, i) = 0
  OBVIOUS
<1>2. Heads(X, i, 0)
  <2>1. \A h \in 0 + 1 .. i : h \in DOMAIN X
    BY <1>1
  <2>2. i \in Nat
    BY <1>1
  <2> QED
    BY <2>1, <2>2 DEF Heads, NoHeader
<1>3. i \in Nat
  BY <1>1
<1> QED
  BY <1>2, <1>3, UnderIs

\* Nothing is listed where nothing is.
LEMMA NoEntries ==
  ASSUME NEW X, NEW n, \A h \in C!HeadersOf(X, "array") : X[h].n # n
  PROVE  Lists(X, n, << >>)
<1>1. C!Entries(X, n) = {}
  BY DEF C!Entries
<1>2. IsSeq(<< >>) /\ 1 .. Len(<< >>) = {}
  <2>1. IsSeq(<< >>) /\ Len(<< >>) = 0
    BY NoSeq
  <2> QED
    BY <2>1
<1>3. PICK c : c = 1 .. Len(<< >>)
  OBVIOUS
<1>4. PICK p : p \in [c -> {}]
  <2>1. [x \in {} |-> x] \in [{} -> {}]
    OBVIOUS
  <2> QED
    BY <1>2, <1>3, <2>1
<1>5. Along({}, << >>, p)
  BY <1>2, <1>3, <1>4 DEF Along
<1> QED
  BY <1>1, <1>2, <1>5 DEF Lists

LEMMA NoHeadersSay ==
  ASSUME NEW X, NoHeader(X)
  PROVE  SaysTables(X, C!Empty) /\ SaysArrays(X, C!Empty)
<1>1. C!HeadersOf(X, "table") = {} /\ C!HeadersOf(X, "array") = {}
  BY DEF NoHeader, C!IsHeader, C!HeadersOf
<1>2. SaysTables(X, C!Empty)
  BY <1>1, EmptyFn DEF SaysTables, C!NamedBy
<1>3. ASSUME NEW n PROVE Lists(X, n, Of(C!Empty, n))
  BY <1>1, EmptyFn, NoEntries DEF Of
<1> QED
  BY <1>1, <1>2, <1>3, EmptyFn DEF SaysArrays, C!NamedBy

\* S says the keys of a document without headers.
Spoken(X, S) ==
  /\ IsFn(S)
  /\ \A i \in DOMAIN X : X[i].k = "key" => X[i].n \in DOMAIN S /\ S[X[i].n] = X[i].v
  /\ \A x \in DOMAIN S : \E i \in DOMAIN X : X[i].k = "key" /\ X[i].n = x
  /\ \A i, j \in DOMAIN X : X[i].k = "key" /\ X[j].k = "key" /\ X[i].n = X[j].n => i = j

LEMMA NoHeaderReads ==
  ASSUME NEW X, IsDoc(X), NoHeader(X), NEW S, Spoken(X, S)
  PROVE  Reads(X, S, C!Empty, C!Empty)
<1>1. \A i \in DOMAIN X : C!Under(X, i) = 0
  BY NoneUnder
<1>2. C!Valid(X)
  BY <1>1 DEF C!Valid, NoHeader, Spoken
<1>3. C!KeysUnder(X, 0) = {i \in DOMAIN X : X[i].k = "key"}
  BY <1>1 DEF C!KeysUnder
<1>4. Says(X, 0, S)
  <2>1. DOMAIN S = C!NamedBy(X, C!KeysUnder(X, 0))
    <3>1. PICK K : K = C!KeysUnder(X, 0)
      OBVIOUS
    <3>2. ASSUME NEW x \in DOMAIN S PROVE \E i \in K : x = X[i].n
      BY <1>3, <3>1 DEF Spoken
    <3>3. ASSUME NEW i \in K PROVE X[i].n \in DOMAIN S
      BY <1>3, <3>1 DEF Spoken
    <3>4. DOMAIN S = {X[i].n : i \in K}
      BY <3>2, <3>3
    <3> QED
      BY <3>1, <3>4 DEF C!NamedBy
  <2>2. \A i \in C!KeysUnder(X, 0) : S[X[i].n] = X[i].v
    BY <1>3 DEF Spoken
  <2> QED
    BY <2>1, <2>2 DEF Says, Spoken
<1> QED
  BY <1>2, <1>4, NoHeadersSay DEF Reads

One(n, f) == [x \in {n} |-> f]

\* A header, and keys under it.
TableOf(X, n, kind, f) ==
  /\ IsDoc(X) /\ 1 \in DOMAIN X /\ X[1].k = kind /\ X[1].n = n
  /\ \A i \in DOMAIN X : i # 1 => X[i].k = "key" /\ X[i].n \in DOMAIN f /\ X[i].v = f[X[i].n]
  /\ \A i, j \in DOMAIN X \ {1} : X[i].n = X[j].n => i = j
  /\ \A x \in DOMAIN f : \E i \in DOMAIN X \ {1} : X[i].n = x

LEMMA TableLinesAre ==
  ASSUME NEW n, NEW kind \in {"table", "array"}, NEW f, IsFiniteSet(DOMAIN f),
         NEW X, X = C!TableLines(n, f, kind)
  PROVE  TableOf(X, n, kind, f)
<1>1. PICK h, H, K : h = C!Line(kind, n, "") /\ H = << h >> /\ K = C!KeyLines(f)
  OBVIOUS
<1>2. IsLine(h) /\ h.k = kind /\ h.n = n
  <2>1. kind \in {"key", "comment", "table", "array"}
    OBVIOUS
  <2>2. h = C!Line(kind, n, "")
    BY <1>1
  <2>3. h.k = kind /\ h.n = n /\ h.v = ""
    BY <2>2 DEF C!Line
  <2> QED
    BY <2>1, <2>2, <2>3 DEF IsLine
<1>3. IsSeq(H) /\ Len(H) = 1 /\ DOMAIN H = {1} /\ H[1] = h
  BY <1>1, OneSeq
<1>4. KeysOf(K, f)
  BY <1>1, KeyLinesAre
<1>5. IsDoc(K) /\ IsDoc(H)
  BY <1>2, <1>3, <1>4 DEF KeysOf, IsDoc
<1>6. X = H \o K
  BY <1>1 DEF C!TableLines
<1>7. Joins(H, K, X) /\ DOMAIN K = 1 .. Len(K) /\ Len(K) \in Nat
  BY <1>5, <1>6, DocJoins, DocIs
<1>8. /\ IsDoc(X) /\ DOMAIN X = 1 .. 1 + Len(K) /\ X[1] = h
      /\ \A j \in DOMAIN K : X[1 + j] = K[j]
  BY <1>3, <1>7 DEF Joins
<1>9. /\ 1 \in DOMAIN X
      /\ \A i \in DOMAIN X : i # 1 => i - 1 \in DOMAIN K /\ i = 1 + (i - 1)
      /\ \A j \in DOMAIN K : 1 + j \in DOMAIN X /\ 1 + j # 1
  BY <1>7, <1>8
<1>10. ASSUME NEW i \in DOMAIN X, i # 1
       PROVE  X[i] = K[i - 1] /\ i - 1 \in DOMAIN K
  BY <1>8, <1>9, <1>10
<1>11. \A i \in DOMAIN X : i # 1 => X[i].k = "key" /\ X[i].n \in DOMAIN f /\ X[i].v = f[X[i].n]
  BY <1>4, <1>10 DEF KeysOf
<1>12. \A i, j \in DOMAIN X \ {1} : X[i].n = X[j].n => i = j
  <2> SUFFICES ASSUME NEW i \in DOMAIN X \ {1}, NEW j \in DOMAIN X \ {1}, X[i].n = X[j].n
               PROVE  i = j
    OBVIOUS
  <2>1. i - 1 = j - 1
    BY <1>4, <1>10 DEF KeysOf
  <2> QED
    BY <1>8, <2>1
<1>13. \A x \in DOMAIN f : \E i \in DOMAIN X \ {1} : X[i].n = x
  <2> SUFFICES ASSUME NEW x \in DOMAIN f PROVE \E i \in DOMAIN X \ {1} : X[i].n = x
    OBVIOUS
  <2>1. PICK j \in DOMAIN K : K[j].n = x
    BY <1>4 DEF KeysOf
  <2>2. 1 + j \in DOMAIN X \ {1} /\ X[1 + j].n = x
    BY <1>8, <1>9, <2>1
  <2> QED
    BY <2>2
<1> QED
  BY <1>2, <1>8, <1>9, <1>11, <1>12, <1>13 DEF TableOf

LEMMA TableReads ==
  ASSUME NEW n, NEW kind \in {"table", "array"}, NEW f, IsFn(f), IsFiniteSet(DOMAIN f),
         NEW X, X = C!TableLines(n, f, kind)
  PROVE  /\ kind = "table" => Reads(X, C!Empty, One(n, f), C!Empty)
         /\ kind = "array" => Reads(X, C!Empty, C!Empty, One(n, << f >>))
<1>1. /\ IsDoc(X) /\ 1 \in DOMAIN X /\ X[1].k = kind /\ X[1].n = n
      /\ \A i \in DOMAIN X : i # 1 => X[i].k = "key" /\ X[i].n \in DOMAIN f /\ X[i].v = f[X[i].n]
      /\ \A i, j \in DOMAIN X \ {1} : X[i].n = X[j].n => i = j
      /\ \A x \in DOMAIN f : \E i \in DOMAIN X \ {1} : X[i].n = x
  <2>1. TableOf(X, n, kind, f)
    BY TableLinesAre
  <2> QED
    BY <2>1 DEF TableOf
<1>2. DOMAIN X = 1 .. Len(X) /\ Len(X) \in Nat
  BY <1>1, DocIs
<1>3. \A i \in DOMAIN X : C!IsHeader(X[i]) <=> i = 1
  BY <1>1 DEF C!IsHeader
<1>4. ASSUME NEW i \in DOMAIN X PROVE C!Under(X, i) = 1
  <2>1. \A h \in 1 + 1 .. i : h \in DOMAIN X /\ h # 1
    BY <1>2
  <2>2. i \in Nat /\ 1 \in 0 .. i
    BY <1>2
  <2>3. Heads(X, i, 1)
    BY <1>1, <1>3, <2>1, <2>2 DEF Heads
  <2> QED
    BY <2>2, <2>3, UnderIs
<1>5. C!Valid(X)
  <2> SUFFICES ASSUME NEW i \in DOMAIN X, NEW j \in DOMAIN X
               PROVE  /\ (i # j /\ X[i].k = "key" /\ X[j].k = "key") => X[i].n # X[j].n
                      /\ ~ (i # j /\ C!IsHeader(X[i]) /\ C!IsHeader(X[j]))
                      /\ C!Under(X, i) # 0
    BY DEF C!Valid
  <2>1. (i # j /\ X[i].k = "key" /\ X[j].k = "key") => X[i].n # X[j].n
    <3>1. X[1].k # "key"
      BY <1>1
    <3> QED
      BY <1>1, <3>1
  <2> QED
    BY <1>3, <1>4, <2>1
<1>6. C!KeysUnder(X, 0) = {} /\ C!KeysUnder(X, 1) = DOMAIN X \ {1}
  BY <1>1, <1>4 DEF C!KeysUnder
<1>7. Says(X, 0, C!Empty)
  BY <1>6, EmptyFn DEF Says, C!NamedBy
<1>8. Says(X, 1, f)
  <2>1. PICK K : K = C!KeysUnder(X, 1)
    OBVIOUS
  <2>2. \A x \in DOMAIN f : \E i \in K : X[i].n = x
    BY <1>1, <1>6, <2>1
  <2>3. \A i \in K : X[i].n \in DOMAIN f /\ f[X[i].n] = X[i].v
    BY <1>1, <1>6, <2>1
  <2>4. DOMAIN f = {X[i].n : i \in K}
    BY <2>2, <2>3
  <2> QED
    BY <2>1, <2>3, <2>4 DEF Says, C!NamedBy
<1>9. C!HeadersOf(X, kind) = {1} /\ \A k : k # kind /\ k # "key" => C!HeadersOf(X, k) = {}
  BY <1>1 DEF C!HeadersOf
<1>10. CASE kind = "table"
  <2>1. PICK T : T = One(n, f)
    OBVIOUS
  <2>2. IsFn(T) /\ DOMAIN T = {n} /\ T[n] = f
    BY <2>1 DEF One, IsFn
  <2>3. SaysTables(X, T)
    BY <1>1, <1>8, <1>9, <1>10, <2>2 DEF SaysTables, C!NamedBy
  <2>4. C!HeadersOf(X, "array") = {}
    BY <1>9, <1>10
  <2>5. SaysArrays(X, C!Empty)
    <3>1. ASSUME NEW m PROVE Lists(X, m, Of(C!Empty, m))
      BY <2>4, EmptyFn, NoEntries DEF Of
    <3> QED
      BY <2>4, <3>1, EmptyFn DEF SaysArrays, C!NamedBy
  <2> QED
    BY <1>1, <1>5, <1>7, <1>10, <2>1, <2>3, <2>5 DEF Reads
<1>11. CASE kind = "array"
  <2>1. PICK A, g : A = One(n, g) /\ g = << f >>
    OBVIOUS
  <2>2. IsFn(A) /\ DOMAIN A = {n} /\ A[n] = g
    BY <2>1 DEF One, IsFn
  <2>3. C!HeadersOf(X, "table") = {}
    BY <1>9, <1>11
  <2>4. SaysTables(X, C!Empty)
    BY <2>3, EmptyFn DEF SaysTables, C!NamedBy
  <2>5. IsSeq(g) /\ Len(g) = 1 /\ g[1] = f
    BY <2>1, OneSeq
  <2>6. ASSUME NEW m PROVE Lists(X, m, Of(A, m))
    <3>1. CASE m = n
      <4>1. C!Entries(X, m) = {1}
        BY <1>1, <1>9, <1>11, <3>1 DEF C!Entries
      <4>2. 1 .. Len(g) = {1}
        BY <2>5
      <4>3. PICK p : p = [e \in {1} |-> 1]
        OBVIOUS
      <4>4. Along({1}, g, p)
        BY <4>2, <4>3 DEF Along
      <4>5. \A e \in 1 .. Len(g) : Says(X, p[e], g[e])
        BY <1>8, <2>5, <4>2, <4>3
      <4>6. Lists(X, m, g)
        BY <2>5, <4>1, <4>4, <4>5 DEF Lists
      <4> QED
        BY <2>2, <3>1, <4>6 DEF Of
    <3>2. CASE m # n
      <4>1. \A h \in C!HeadersOf(X, "array") : X[h].n # m
        BY <1>1, <1>9, <1>11, <3>2
      <4> QED
        BY <2>2, <3>2, <4>1, NoEntries DEF Of
    <3> QED
      BY <3>1, <3>2
  <2>7. DOMAIN A = C!NamedBy(X, C!HeadersOf(X, "array"))
    BY <1>1, <1>9, <1>11, <2>2 DEF C!NamedBy
  <2>8. SaysArrays(X, A)
    BY <2>2, <2>6, <2>7 DEF SaysArrays
  <2> QED
    BY <1>1, <1>5, <1>7, <1>11, <2>1, <2>4, <2>8 DEF Reads
<1> QED
  BY <1>10, <1>11

LEMMA SeqSame ==
  ASSUME NEW s, IsSeq(s), NEW t, IsSeq(t), Len(s) = Len(t), \A i \in DOMAIN s : s[i] = t[i]
  PROVE  s = t
<1>1. PICK c : c = Len(s)
  OBVIOUS
<1>2. DOMAIN s = 1 .. c /\ DOMAIN t = 1 .. c /\ c \in Nat
  BY <1>1, SeqDomain
<1>3. s \in [1 .. c -> C!ToSet(s)] /\ t \in [1 .. c -> C!ToSet(t)]
  BY <1>1, LenProperties DEF IsSeq
<1> QED
  BY <1>2, <1>3

LEMMA NoneReads == Reads(<< >>, C!Empty, C!Empty, C!Empty)
<1>1. PICK X : X = << >>
  OBVIOUS
<1>2. IsDoc(X) /\ DOMAIN X = {}
  BY <1>1, NoSeq DEF IsDoc
<1>3. NoHeader(X) /\ Spoken(X, C!Empty)
  BY <1>2, EmptyFn DEF NoHeader, Spoken
<1> QED
  BY <1>1, <1>2, <1>3, NoHeaderReads

\* The first m entries of s, under the name n.
Upto(n, s, m) == [x \in IF m = 0 THEN {} ELSE {n} |-> SubSeq(s, 1, m)]

LEMMA UptoNext ==
  ASSUME NEW n, NEW s, IsSeq(s), NEW m \in Nat, m + 1 <= Len(s)
  PROVE  Both(Upto(n, s, m), One(n, << s[m + 1] >>)) = Upto(n, s, m + 1)
<1>1. Len(s) \in Nat
  BY SeqDomain
<1>2. PICK u, v, e, w : /\ u = SubSeq(s, 1, m) /\ v = SubSeq(s, 1, m + 1)
                        /\ e = << s[m + 1] >> /\ w = u \o e
  OBVIOUS
<1>3. IsSeq(u) /\ Len(u) = m /\ \A i \in 1 .. m : u[i] = s[i]
  <2>1. /\ IsSeq(SubSeq(s, 0 + 1, m)) /\ Len(SubSeq(s, 0 + 1, m)) = m - 0
        /\ \A i \in 1 .. m - 0 : SubSeq(s, 0 + 1, m)[i] = s[0 + i]
    <3>1. 0 \in Nat /\ 0 <= m /\ m <= Len(s)
      BY <1>1
    <3> QED
      BY <3>1, PrefixIs
  <2>2. 0 + 1 = 1 /\ m - 0 = m /\ \A i \in 1 .. m : 0 + i = i
    OBVIOUS
  <2> QED
    BY <1>2, <2>1, <2>2
<1>4. IsSeq(v) /\ Len(v) = m + 1 /\ \A i \in 1 .. m + 1 : v[i] = s[i]
  <2>1. PICK k : k = m + 1
    OBVIOUS
  <2>2. /\ IsSeq(SubSeq(s, 0 + 1, k)) /\ Len(SubSeq(s, 0 + 1, k)) = k - 0
        /\ \A i \in 1 .. k - 0 : SubSeq(s, 0 + 1, k)[i] = s[0 + i]
    <3>1. 0 \in Nat /\ k \in Nat /\ 0 <= k /\ k <= Len(s)
      BY <1>1, <2>1
    <3> QED
      BY <3>1, PrefixIs
  <2>3. 0 + 1 = 1 /\ k - 0 = k /\ \A i \in 1 .. k : 0 + i = i
    BY <2>1
  <2> QED
    BY <1>2, <2>1, <2>2, <2>3
<1>5. IsSeq(e) /\ Len(e) = 1 /\ DOMAIN e = {1} /\ e[1] = s[m + 1]
  BY <1>2, OneSeq
<1>6. Joined(u, e, w)
  BY <1>2, <1>3, <1>5, SeqJoin
<1>7. w = v
  <2>1. IsSeq(w) /\ Len(w) = m + 1
    BY <1>3, <1>5, <1>6 DEF Joined
  <2>2. DOMAIN w = 1 .. m + 1 /\ DOMAIN u = 1 .. m
    BY <1>3, <2>1, SeqDomain
  <2>3. ASSUME NEW i \in DOMAIN w PROVE w[i] = v[i]
    <3>1. i \in 1 .. m \/ i = m + 1
      BY <2>2
    <3>2. CASE i \in 1 .. m
      <4>1. w[i] = u[i] /\ u[i] = s[i]
        BY <1>3, <1>6, <2>2, <3>2 DEF Joined
      <4> QED
        BY <1>4, <2>2, <4>1
    <3>3. CASE i = m + 1
      <4>1. w[m + 1] = e[1]
        BY <1>3, <1>5, <1>6 DEF Joined
      <4> QED
        BY <1>4, <1>5, <2>2, <3>3, <4>1
    <3> QED
      BY <3>1, <3>2, <3>3
  <2> QED
    BY <1>4, <2>1, <2>3, SeqSame
<1>8. PICK F, G : F = Upto(n, s, m) /\ G = One(n, e)
  OBVIOUS
<1>9. DOMAIN F \cup DOMAIN G = {n}
  BY <1>8 DEF Upto, One
<1>10. Of(F, n) \o Of(G, n) = v
  <2>1. Of(G, n) = e
    BY <1>8 DEF Of, One
  <2>2. CASE m = 0
    <3>1. Of(F, n) = << >> /\ u = << >>
      BY <1>3, <1>8, <2>2, EmptyIs DEF Of, Upto
    <3> QED
      BY <1>2, <1>7, <2>1, <3>1
  <2>3. CASE m # 0
    <3>1. Of(F, n) = u
      BY <1>2, <1>8, <2>3 DEF Of, Upto
    <3> QED
      BY <1>2, <1>7, <2>1, <3>1
  <2> QED
    BY <2>2, <2>3
<1>11. Both(F, G) = [x \in {n} |-> v]
  BY <1>9, <1>10 DEF Both
<1>12. Upto(n, s, m + 1) = [x \in {n} |-> v]
  BY <1>2 DEF Upto
<1> QED
  BY <1>2, <1>8, <1>11, <1>12

\* The lines of an array are read as its entries.
LEMMA ArrayReads ==
  ASSUME NEW n, NEW s, IsSeq(s), s # << >>,
         \A i \in DOMAIN s : IsFn(s[i]) /\ IsFiniteSet(DOMAIN s[i]),
         NEW X, X = C!FlattenSeq([i \in DOMAIN s |-> C!TableLines(n, s[i], "array")])
  PROVE  Reads(X, C!Empty, C!Empty, One(n, s))
<1>1. PICK c : c = Len(s)
  OBVIOUS
<1>2. DOMAIN s = 1 .. c /\ c \in Nat /\ c # 0
  BY <1>1, SeqDomain, EmptyIs
<1>3. PICK ss : ss = [i \in 1 .. c |-> C!TableLines(n, s[i], "array")]
  OBVIOUS
<1>4. ASSUME NEW i \in 1 .. c PROVE Reads(ss[i], C!Empty, C!Empty, One(n, << s[i] >>))
  <2>1. ss[i] = C!TableLines(n, s[i], "array")
    BY <1>3
  <2>2. PICK f : f = s[i]
    OBVIOUS
  <2>3. IsFn(f) /\ IsFiniteSet(DOMAIN f)
    BY <1>2, <2>2
  <2>4. PICK kind : kind = "array"
    OBVIOUS
  <2>5. kind \in {"table", "array"} /\ ss[i] = C!TableLines(n, f, kind)
    BY <2>1, <2>2, <2>4
  <2> QED
    BY <2>2, <2>3, <2>4, <2>5, TableReads
<1>5. ss = [i \in 1 .. c |-> ss[i]] /\ \A i \in 1 .. c : IsSeq(ss[i])
  BY <1>3, <1>4 DEF Reads, IsDoc
<1>6. PICK flat : /\ flat[0] = << >> /\ C!FlattenSeq(ss) = flat[c]
                  /\ \A m \in 0 .. c - 1 : flat[m + 1] = flat[m] \o ss[m + 1]
  BY <1>2, <1>5, FlatBy
<1>7. X = flat[c]
  BY <1>2, <1>3, <1>6
<1> DEFINE T == {m \in Nat : m <= c => Reads(flat[m], C!Empty, C!Empty, Upto(n, s, m))}
<1>8. 0 \in T
  <2>1. Upto(n, s, 0) = C!Empty
    BY DEF Upto, C!Empty
  <2> QED
    BY <1>6, <2>1, NoneReads
<1>9. ASSUME NEW m \in T PROVE m + 1 \in T
  <2>1. m \in Nat /\ m + 1 \in Nat
    OBVIOUS
  <2> SUFFICES ASSUME m + 1 <= c
               PROVE  Reads(flat[m + 1], C!Empty, C!Empty, Upto(n, s, m + 1))
    BY <2>1
  <2>2. m <= c /\ m \in 0 .. c - 1 /\ m + 1 \in 1 .. c
    BY <1>2, <2>1
  <2>3. PICK Ps, Y, A, B : /\ Ps = flat[m] /\ Y = ss[m + 1] /\ A = Upto(n, s, m)
                          /\ B = One(n, << s[m + 1] >>)
    OBVIOUS
  <2>4. Reads(Ps, C!Empty, C!Empty, A) /\ Reads(Y, C!Empty, C!Empty, B)
    BY <1>4, <2>2, <2>3
  <2>5. Unshared(C!Empty, C!Empty, A, C!Empty, B)
    BY EmptyFn DEF Unshared
  <2>6. Over(C!Empty, C!Empty) = C!Empty
    BY EmptyFn DEF Over, C!Empty
  <2>7. Both(A, B) = Upto(n, s, m + 1)
    BY <1>1, <2>1, <2>3, UptoNext
  <2>8. Reads(Ps \o Y, C!Empty, Over(C!Empty, C!Empty), Both(A, B))
    BY <2>4, <2>5, EmptyFn, ReadsJoin
  <2>9. flat[m + 1] = Ps \o Y
    BY <1>6, <2>2, <2>3
  <2> QED
    BY <2>6, <2>7, <2>8, <2>9
<1>10. Reads(X, C!Empty, C!Empty, Upto(n, s, c))
  <2> HIDE DEF T
  <2>1. T \in SUBSET Nat
    BY DEF T
  <2>2. c \in T
    BY <1>2, <1>8, <1>9, <2>1, FromZero
  <2> QED
    BY <1>2, <1>7, <2>2 DEF T
<1>11. Upto(n, s, c) = One(n, s)
  <2>1. SubSeq(s, 1, c) = s
    <3>1. s \in Seq(C!ToSet(s))
      BY DEF IsSeq
    <3>2. /\ IsSeq(SubSeq(s, 0 + 1, c)) /\ Len(SubSeq(s, 0 + 1, c)) = c - 0
          /\ \A i \in 1 .. c - 0 : SubSeq(s, 0 + 1, c)[i] = s[0 + i]
      <4>1. 0 \in Nat /\ 0 <= c /\ c <= Len(s)
        BY <1>1, <1>2
      <4> QED
        BY <1>2, <4>1, PrefixIs
    <3>3. PICK u : u = SubSeq(s, 1, c)
      OBVIOUS
    <3>4. IsSeq(u) /\ Len(u) = c /\ \A i \in 1 .. c : u[i] = s[i]
      <4>1. 0 + 1 = 1 /\ c - 0 = c /\ \A i \in 1 .. c : 0 + i = i
        BY <1>2
      <4> QED
        BY <3>2, <3>3, <4>1
    <3>5. DOMAIN u = 1 .. c
      BY <3>4, SeqDomain
    <3>6. u = s
      BY <1>1, <3>4, <3>5, SeqSame
    <3> QED
      BY <3>3, <3>6
  <2> QED
    BY <1>2, <2>1 DEF Upto, One
<1> QED
  BY <1>10, <1>11

\* The part of f that is named in N.
Cut(f, N) == [x \in DOMAIN f \cap N |-> f[x]]

\* A document that has the tables of F and the arrays of G that N names.
Part(X, S, F, G, N) == Reads(X, S, Cut(F, N), Cut(G, N))
Seqs(G) == \A x \in DOMAIN G : IsSeq(G[x])

LEMMA CutOver ==
  ASSUME NEW F, NEW M, NEW N
  PROVE  Over(Cut(F, M), Cut(F, N)) = Cut(F, M \cup N)
<1>1. PICK Ps, Q : Ps = Cut(F, M) /\ Q = Cut(F, N)
  OBVIOUS
<1>2. /\ DOMAIN Ps = DOMAIN F \cap M /\ \A x \in DOMAIN Ps : Ps[x] = F[x]
      /\ DOMAIN Q = DOMAIN F \cap N /\ \A x \in DOMAIN Q : Q[x] = F[x]
  BY <1>1 DEF Cut
<1>3. DOMAIN Ps \cup DOMAIN Q = DOMAIN F \cap (M \cup N)
  BY <1>2
<1>4. \A x \in DOMAIN Ps \cup DOMAIN Q : (IF x \in DOMAIN Ps THEN Ps[x] ELSE Q[x]) = F[x]
  BY <1>2
<1>5. Over(Ps, Q) = [x \in DOMAIN F \cap (M \cup N) |-> F[x]]
  BY <1>3, <1>4 DEF Over
<1> QED
  BY <1>1, <1>5 DEF Cut

LEMMA CutBoth ==
  ASSUME NEW G, Seqs(G), NEW M, NEW N, M \cap N = {}
  PROVE  Both(Cut(G, M), Cut(G, N)) = Cut(G, M \cup N)
<1>1. PICK Ps, Q : Ps = Cut(G, M) /\ Q = Cut(G, N)
  OBVIOUS
<1>2. /\ DOMAIN Ps = DOMAIN G \cap M /\ \A x \in DOMAIN Ps : Ps[x] = G[x]
      /\ DOMAIN Q = DOMAIN G \cap N /\ \A x \in DOMAIN Q : Q[x] = G[x]
  BY <1>1 DEF Cut
<1>3. DOMAIN Ps \cup DOMAIN Q = DOMAIN G \cap (M \cup N)
  BY <1>2
<1>4. ASSUME NEW x \in DOMAIN Ps \cup DOMAIN Q PROVE Of(Ps, x) \o Of(Q, x) = G[x]
  <2>1. IsSeq(G[x])
    BY <1>2 DEF Seqs
  <2>2. CASE x \in DOMAIN Ps
    <3>1. x \notin DOMAIN Q
      BY <1>2, <2>2
    <3>2. Of(Ps, x) = G[x] /\ Of(Q, x) = << >>
      BY <1>2, <2>2, <3>1 DEF Of
    <3> QED
      BY <2>1, <3>2, JoinNone
  <2>3. CASE x \notin DOMAIN Ps
    <3>1. Of(Ps, x) = << >> /\ Of(Q, x) = G[x]
      BY <1>2, <2>3 DEF Of
    <3> QED
      BY <2>1, <3>1, JoinNone
  <2> QED
    BY <2>2, <2>3
<1>5. Both(Ps, Q) = [x \in DOMAIN G \cap (M \cup N) |-> G[x]]
  BY <1>3, <1>4 DEF Both
<1> QED
  BY <1>1, <1>5 DEF Cut

\* Parts with other names make a part.
LEMMA JoinParts ==
  ASSUME NEW F, NEW G, Seqs(G), NEW S, DOMAIN S \cap (DOMAIN F \cup DOMAIN G) = {},
         NEW M, NEW X, Part(X, S, F, G, M), NEW N, NEW Y, Part(Y, C!Empty, F, G, N),
         M \cap N = {}
  PROVE  Part(X \o Y, S, F, G, M \cup N)
<1>1. PICK T, A, U, B : T = Cut(F, M) /\ A = Cut(G, M) /\ U = Cut(F, N) /\ B = Cut(G, N)
  OBVIOUS
<1>2. Reads(X, S, T, A) /\ Reads(Y, C!Empty, U, B)
  BY <1>1 DEF Part
<1>3. /\ DOMAIN T = DOMAIN F \cap M /\ DOMAIN A = DOMAIN G \cap M
      /\ DOMAIN U = DOMAIN F \cap N /\ DOMAIN B = DOMAIN G \cap N
  BY <1>1 DEF Cut
<1>4. Unshared(S, T, A, U, B)
  BY <1>3 DEF Unshared
<1>5. Reads(X \o Y, S, Over(T, U), Both(A, B))
  BY <1>2, <1>4, EmptyFn, ReadsJoin
<1> QED
  BY <1>1, <1>5, CutOver, CutBoth DEF Part

LEMMA NoPart ==
  ASSUME NEW F, NEW G
  PROVE  Part(<< >>, C!Empty, F, G, {})
<1>1. Cut(F, {}) = C!Empty /\ Cut(G, {}) = C!Empty
  BY DEF Cut, C!Empty
<1> QED
  BY <1>1, NoneReads DEF Part

\* So do many, one after the other.
Parts(F, G, n, ss, Ns) ==
  /\ ss = [i \in 1 .. n |-> ss[i]]
  /\ \A i \in 1 .. n : Part(ss[i], C!Empty, F, G, Ns[i])
  /\ \A i, j \in 1 .. n : i # j => Ns[i] \cap Ns[j] = {}

Union(n, Ns) == UNION {Ns[i] : i \in 1 .. n}

LEMMA FlatParts ==
  ASSUME NEW F, NEW G, Seqs(G), NEW n \in Nat, NEW ss, NEW Ns, Parts(F, G, n, ss, Ns),
         NEW X, X = C!FlattenSeq(ss)
  PROVE  Part(X, C!Empty, F, G, Union(n, Ns))
<1>0. /\ ss = [i \in 1 .. n |-> ss[i]]
      /\ \A i \in 1 .. n : Part(ss[i], C!Empty, F, G, Ns[i])
      /\ \A i, j \in 1 .. n : i # j => Ns[i] \cap Ns[j] = {}
  BY DEF Parts
<1>1. \A i \in 1 .. n : IsSeq(ss[i])
  BY <1>0 DEF Part, Reads, IsDoc
<1>2. PICK flat : /\ flat[0] = << >> /\ C!FlattenSeq(ss) = flat[n]
                  /\ \A m \in 0 .. n - 1 : flat[m + 1] = flat[m] \o ss[m + 1]
  BY <1>0, <1>1, FlatBy
<1> DEFINE All(m) == UNION {Ns[i] : i \in 1 .. m}
           T == {m \in Nat : m <= n => Part(flat[m], C!Empty, F, G, All(m))}
<1>3. 0 \in T
  <2>1. All(0) = {}
    OBVIOUS
  <2>2. Part(flat[0], C!Empty, F, G, All(0))
    <3> HIDE DEF All
    <3> QED
      BY <1>2, <2>1, NoPart
  <2> HIDE DEF All
  <2> QED
    BY <2>2
<1>4. ASSUME NEW m \in T PROVE m + 1 \in T
  <2>1. m \in Nat /\ m + 1 \in Nat
    OBVIOUS
  <2> SUFFICES ASSUME m + 1 <= n PROVE Part(flat[m + 1], C!Empty, F, G, All(m + 1))
    BY <2>1
  <2>2. m <= n /\ m \in 0 .. n - 1 /\ m + 1 \in 1 .. n
    BY <2>1
  <2>3. PICK Ps, Y, M, N : Ps = flat[m] /\ Y = ss[m + 1] /\ M = All(m) /\ N = Ns[m + 1]
    OBVIOUS
  <2>4. Part(Ps, C!Empty, F, G, M) /\ Part(Y, C!Empty, F, G, N)
    BY <1>0, <2>2, <2>3
  <2>5. M \cap N = {}
    <3>1. \A i \in 1 .. m : i \in 1 .. n /\ i # m + 1
      BY <2>1, <2>2
    <3>2. \A i \in 1 .. m : Ns[i] \cap N = {}
      BY <1>0, <2>2, <2>3, <3>1
    <3> QED
      BY <2>3, <3>2
  <2>6. Part(Ps \o Y, C!Empty, F, G, M \cup N)
    BY <2>4, <2>5, EmptyFn, JoinParts
  <2>7. All(m + 1) = M \cup N
    <3>1. 1 .. m + 1 = (1 .. m) \cup {m + 1}
      BY <2>1
    <3> QED
      BY <2>3, <3>1
  <2>8. flat[m + 1] = Ps \o Y
    BY <1>2, <2>2, <2>3
  <2> QED
    BY <2>6, <2>7, <2>8
<1>5. n \in T
  <2> HIDE DEF T
  <2>1. T \in SUBSET Nat
    BY DEF T
  <2> QED
    BY <1>3, <1>4, <2>1, FromZero
<1> QED
  BY <1>2, <1>5 DEF Union
-----------------------------------------------------------------------------
(* What the stores write.                                                  *)

\* Functions of finite domain, and lists of such that are not empty.
IsMap(f) == IsFn(f) /\ IsFiniteSet(DOMAIN f)
IsList(s) == IsSeq(s) /\ s # << >> /\ \A i \in DOMAIN s : IsMap(s[i])
IsData(D) ==
  /\ IsMap(D.scalars) /\ IsMap(D.tables) /\ IsMap(D.arrays)
  /\ \A x \in DOMAIN D.tables : IsMap(D.tables[x])
  /\ \A x \in DOMAIN D.arrays : IsList(D.arrays[x])
  /\ DOMAIN D.scalars \cap (DOMAIN D.tables \cup DOMAIN D.arrays) = {}
  /\ DOMAIN D.tables \cap DOMAIN D.arrays = {}

LEMMA TablePart ==
  ASSUME NEW F, NEW G, NEW x \in DOMAIN F, x \notin DOMAIN G, IsMap(F[x])
  PROVE  Part(C!TableLines(x, F[x], "table"), C!Empty, F, G, {x})
<1>1. PICK f, kind, X : f = F[x] /\ kind = "table" /\ X = C!TableLines(x, f, kind)
  OBVIOUS
<1>2. IsFn(f) /\ IsFiniteSet(DOMAIN f) /\ kind \in {"table", "array"}
  BY <1>1 DEF IsMap
<1>3. Reads(X, C!Empty, One(x, f), C!Empty)
  BY <1>1, <1>2, TableReads
<1>4. Cut(F, {x}) = One(x, f) /\ Cut(G, {x}) = C!Empty
  <2>1. DOMAIN F \cap {x} = {x} /\ DOMAIN G \cap {x} = {}
    OBVIOUS
  <2>2. Cut(F, {x}) = One(x, f)
    BY <1>1, <2>1 DEF Cut, One
  <2>3. Cut(G, {x}) = C!Empty
    BY <2>1 DEF Cut, C!Empty
  <2> QED
    BY <2>2, <2>3
<1> QED
  BY <1>1, <1>3, <1>4 DEF Part

LEMMA ArrayPart ==
  ASSUME NEW D, NEW x \in DOMAIN D.arrays, x \notin DOMAIN D.tables, IsList(D.arrays[x])
  PROVE  Part(C!ArrayLines(D, x), C!Empty, D.tables, D.arrays, {x})
<1>1. PICK s, X : s = D.arrays[x] /\ X = C!ArrayLines(D, x)
  OBVIOUS
<1>2. X = C!FlattenSeq([i \in DOMAIN s |-> C!TableLines(x, s[i], "array")])
  BY <1>1 DEF C!ArrayLines
<1>3. IsSeq(s) /\ s # << >> /\ \A i \in DOMAIN s : IsFn(s[i]) /\ IsFiniteSet(DOMAIN s[i])
  BY <1>1 DEF IsList, IsMap
<1>4. Reads(X, C!Empty, C!Empty, One(x, s))
  BY <1>2, <1>3, ArrayReads
<1>5. Cut(D.tables, {x}) = C!Empty /\ Cut(D.arrays, {x}) = One(x, s)
  <2>1. DOMAIN D.arrays \cap {x} = {x} /\ DOMAIN D.tables \cap {x} = {}
    OBVIOUS
  <2>2. Cut(D.arrays, {x}) = One(x, s)
    BY <1>1, <2>1 DEF Cut, One
  <2>3. Cut(D.tables, {x}) = C!Empty
    BY <2>1 DEF Cut, C!Empty
  <2> QED
    BY <2>2, <2>3
<1> QED
  BY <1>1, <1>4, <1>5 DEF Part

LEMMA KeysRead ==
  ASSUME NEW f, IsMap(f), NEW X, X = C!KeyLines(f)
  PROVE  Reads(X, f, C!Empty, C!Empty)
<1>1. KeysOf(X, f)
  BY KeyLinesAre DEF IsMap
<1>2. IsDoc(X) /\ NoHeader(X)
  BY <1>1 DEF KeysOf, NoHeader, C!IsHeader
<1>3. Spoken(X, f)
  BY <1>1 DEF KeysOf, Spoken, IsMap
<1> QED
  BY <1>2, <1>3, NoHeaderReads

\* What is written anew is read back.
LEMMA DumpsReads ==
  ASSUME NEW D, IsData(D)
  PROVE  Reads(C!Dumps(D), D.scalars, D.tables, D.arrays)
<1>1. PICK S, F, G : S = D.scalars /\ F = D.tables /\ G = D.arrays
  OBVIOUS
<1>2. /\ IsMap(S) /\ IsMap(F) /\ IsMap(G) /\ DOMAIN S \cap (DOMAIN F \cup DOMAIN G) = {}
      /\ DOMAIN F \cap DOMAIN G = {}
      /\ \A x \in DOMAIN F : IsMap(F[x])
      /\ \A x \in DOMAIN G : IsList(G[x])
  BY <1>1 DEF IsData
<1>3. Seqs(G)
  BY <1>2 DEF Seqs, IsList
<1>4. PICK K, X, Y : /\ K = C!KeyLines(S) /\ X = C!AllTables(D)
                     /\ Y = C!FlattenSeq([i \in DOMAIN C!SetToSeq(DOMAIN D.arrays) |->
                              C!ArrayLines(D, C!SetToSeq(DOMAIN D.arrays)[i])])
  OBVIOUS
<1>5. C!Dumps(D) = (K \o X) \o Y
  BY <1>1, <1>4 DEF C!Dumps
<1>6. Part(K, S, F, G, {})
  <2>1. Reads(K, S, C!Empty, C!Empty)
    BY <1>2, <1>4, KeysRead
  <2>2. Cut(F, {}) = C!Empty /\ Cut(G, {}) = C!Empty
    BY DEF Cut, C!Empty
  <2> QED
    BY <2>1, <2>2 DEF Part
<1>7. Part(X, C!Empty, F, G, DOMAIN F)
  <2>1. PICK s : s = C!SetToSeq(DOMAIN F)
    OBVIOUS
  <2>2. Listing(DOMAIN F, s)
    BY <1>2, <2>1, SetSeq DEF IsMap
  <2>3. PICK n : n = Len(s)
    OBVIOUS
  <2>4. n \in Nat /\ DOMAIN s = 1 .. n
    BY <2>2, <2>3, SeqDomain DEF Listing
  <2>5. PICK ss, Ns : /\ ss = [i \in 1 .. n |-> C!TableLines(s[i], F[s[i]], "table")]
                      /\ Ns = [i \in 1 .. n |-> {s[i]}]
    OBVIOUS
  <2>6. X = C!FlattenSeq(ss)
    BY <1>1, <1>4, <2>1, <2>4, <2>5 DEF C!AllTables
  <2>7. \A i \in 1 .. n : Part(ss[i], C!Empty, F, G, Ns[i])
    <3> SUFFICES ASSUME NEW i \in 1 .. n PROVE Part(ss[i], C!Empty, F, G, Ns[i])
      OBVIOUS
    <3>1. PICK x : x = s[i]
      OBVIOUS
    <3>2. x \in DOMAIN F /\ x \notin DOMAIN G /\ IsMap(F[x])
      BY <1>2, <2>2, <2>4, <3>1 DEF Listing
    <3>3. Part(C!TableLines(x, F[x], "table"), C!Empty, F, G, {x})
      BY <3>2, TablePart
    <3> QED
      BY <2>5, <3>1, <3>3
  <2>8. \A i, j \in 1 .. n : i # j => Ns[i] \cap Ns[j] = {}
    BY <2>2, <2>4, <2>5 DEF Listing
  <2>9. Union(n, Ns) = DOMAIN F
    <3>1. \A i \in 1 .. n : Ns[i] = {s[i]} /\ s[i] \in DOMAIN F
      BY <2>2, <2>4, <2>5 DEF Listing
    <3>2. \A x \in DOMAIN F : \E i \in 1 .. n : s[i] = x
      BY <2>2, <2>4 DEF Listing
    <3>3. ASSUME NEW x \in DOMAIN F PROVE \E i \in 1 .. n : x \in Ns[i]
      BY <3>1, <3>2
    <3>4. ASSUME NEW i \in 1 .. n, NEW x \in Ns[i] PROVE x \in DOMAIN F
      BY <3>1
    <3> QED
      BY <3>3, <3>4 DEF Union
  <2>10. ss = [i \in 1 .. n |-> ss[i]]
    BY <2>5
  <2> QED
    <3>1. Parts(F, G, n, ss, Ns)
      BY <2>7, <2>8, <2>10 DEF Parts
    <3> QED
      BY <1>3, <2>4, <2>6, <2>9, <3>1, FlatParts
<1>8. Part(Y, C!Empty, F, G, DOMAIN G)
  <2>1. PICK s : s = C!SetToSeq(DOMAIN G)
    OBVIOUS
  <2>2. Listing(DOMAIN G, s)
    BY <1>2, <2>1, SetSeq DEF IsMap
  <2>3. PICK n : n = Len(s)
    OBVIOUS
  <2>4. n \in Nat /\ DOMAIN s = 1 .. n
    BY <2>2, <2>3, SeqDomain DEF Listing
  <2>5. PICK ss, Ns : /\ ss = [i \in 1 .. n |-> C!ArrayLines(D, s[i])]
                      /\ Ns = [i \in 1 .. n |-> {s[i]}]
    OBVIOUS
  <2>6. Y = C!FlattenSeq(ss)
    BY <1>1, <1>4, <2>1, <2>4, <2>5
  <2>7. \A i \in 1 .. n : Part(ss[i], C!Empty, F, G, Ns[i])
    <3> SUFFICES ASSUME NEW i \in 1 .. n PROVE Part(ss[i], C!Empty, F, G, Ns[i])
      OBVIOUS
    <3>1. PICK x : x = s[i]
      OBVIOUS
    <3>2. x \in DOMAIN D.arrays /\ x \notin DOMAIN D.tables /\ IsList(D.arrays[x])
      BY <1>1, <1>2, <2>2, <2>4, <3>1 DEF Listing
    <3>3. Part(C!ArrayLines(D, x), C!Empty, D.tables, D.arrays, {x})
      BY <3>2, ArrayPart
    <3> QED
      BY <1>1, <2>5, <3>1, <3>3
  <2>8. \A i, j \in 1 .. n : i # j => Ns[i] \cap Ns[j] = {}
    BY <2>2, <2>4, <2>5 DEF Listing
  <2>9. Union(n, Ns) = DOMAIN G
    <3>1. \A i \in 1 .. n : Ns[i] = {s[i]} /\ s[i] \in DOMAIN G
      BY <2>2, <2>4, <2>5 DEF Listing
    <3>2. \A x \in DOMAIN G : \E i \in 1 .. n : s[i] = x
      BY <2>2, <2>4 DEF Listing
    <3>3. ASSUME NEW x \in DOMAIN G PROVE \E i \in 1 .. n : x \in Ns[i]
      BY <3>1, <3>2
    <3>4. ASSUME NEW i \in 1 .. n, NEW x \in Ns[i] PROVE x \in DOMAIN G
      BY <3>1
    <3> QED
      BY <3>3, <3>4 DEF Union
  <2>10. ss = [i \in 1 .. n |-> ss[i]]
    BY <2>5
  <2> QED
    <3>1. Parts(F, G, n, ss, Ns)
      BY <2>7, <2>8, <2>10 DEF Parts
    <3> QED
      BY <1>3, <2>4, <2>6, <2>9, <3>1, FlatParts
<1>9. Part(K \o X, S, F, G, {} \cup DOMAIN F)
  BY <1>2, <1>3, <1>6, <1>7, JoinParts
<1>10. PICK Z : Z = K \o X
  OBVIOUS
<1>11. Part(Z, S, F, G, DOMAIN F)
  BY <1>9, <1>10
<1>12. Part(Z \o Y, S, F, G, DOMAIN F \cup DOMAIN G)
  BY <1>2, <1>3, <1>8, <1>11, JoinParts
<1>13. Cut(F, DOMAIN F \cup DOMAIN G) = F /\ Cut(G, DOMAIN F \cup DOMAIN G) = G
  BY <1>2 DEF Cut, IsMap, IsFn
<1> QED
  BY <1>1, <1>5, <1>10, <1>12, <1>13 DEF Part

-----------------------------------------------------------------------------
(* The head of a document.                                                 *)

LEMMA LeastOf ==
  ASSUME NEW S \in SUBSET Nat, S # {}
  PROVE  \E x \in S : \A y \in S : x <= y
<1>1. PICK x \in S : \A y \in S : ~ (<<y, x>> \in OpToRel(<, Nat))
  BY NatLessThanWellFounded, WFMin, Zenon
<1>2. ASSUME NEW y \in S, y < x PROVE FALSE
  <2>1. y \in Nat /\ x \in Nat
    OBVIOUS
  <2>2. <<y, x>> \in OpToRel(<, Nat)
    BY <1>2, <2>1, Zenon DEF OpToRel
  <2> QED
    BY <1>1, <2>2
<1>3. ASSUME NEW y \in S PROVE x <= y
  BY <1>2
<1> QED
  BY <1>3

\* The lines after the last that is not a comment.
LEMMA LastOther ==
  ASSUME NEW X, NEW m \in Nat
  PROVE  \E n \in 0 .. m : /\ n # 0 => X[n].k # "comment"
                           /\ \A i \in n + 1 .. m : X[i].k = "comment"
<1> DEFINE Ps(m_, n) == /\ n \in 0 .. m_ /\ (n # 0 => X[n].k # "comment")
                       /\ \A i \in n + 1 .. m_ : X[i].k = "comment"
           T == {m_ \in Nat : \E n : Ps(m_, n)}
<1>1. 0 \in T
  <2>1. Ps(0, 0)
    OBVIOUS
  <2> QED
    BY <2>1
<1>2. ASSUME NEW k \in T PROVE k + 1 \in T
  <2>1. k \in Nat /\ k + 1 \in Nat
    OBVIOUS
  <2>2. PICK n : Ps(k, n)
    OBVIOUS
  <2>3. CASE X[k + 1].k = "comment"
    <3>1. Ps(k + 1, n)
      BY <2>1, <2>2, <2>3
    <3> QED
      BY <2>1, <3>1
  <2>4. CASE X[k + 1].k # "comment"
    <3>1. Ps(k + 1, k + 1)
      BY <2>1, <2>4
    <3> QED
      BY <2>1, <3>1
  <2> QED
    BY <2>3, <2>4
<1>3. m \in T
  <2> HIDE DEF T
  <2>1. T \in SUBSET Nat
    BY DEF T
  <2> QED
    BY <1>1, <1>2, <2>1, FromZero
<1>4. PICK n : Ps(m, n)
  BY <1>3
<1> QED
  BY <1>4

\* a lines are its head, and h is its first header.
HeadOf(X, a, h) ==
  /\ a \in 0 .. Len(X) /\ h \in a + 1 .. Len(X) + 1
  /\ \A i \in 1 .. h - 1 : ~ C!IsHeader(X[i])
  /\ h \in DOMAIN X => C!IsHeader(X[h])
  /\ \A i \in a + 1 .. h - 1 : X[i].k = "comment"

LEMMA HeadIs ==
  ASSUME NEW X, IsDoc(X)
  PROVE  \E h : /\ HeadOf(X, C!HeadEnd(X), h)
                /\ C!Headers(X) # {} => h = C!First(X)
                /\ C!Headers(X) = {} => h = Len(X) + 1
<1>1. DOMAIN X = 1 .. Len(X) /\ Len(X) \in Nat
  BY DocIs
<1>2. PICK S : S = C!Headers(X)
  OBVIOUS
<1>3. S = {i \in DOMAIN X : C!IsHeader(X[i])}
  BY <1>2 DEF C!Headers
<1>4. CASE S = {}
  <2>1. C!HeadEnd(X) = Len(X)
    BY <1>2, <1>4 DEF C!HeadEnd
  <2>2. HeadOf(X, Len(X), Len(X) + 1)
    BY <1>1, <1>3, <1>4 DEF HeadOf
  <2> QED
    BY <1>2, <1>4, <2>1, <2>2
<1>5. CASE S # {}
  <2>1. S \in SUBSET Nat
    BY <1>1, <1>3
  <2>2. PICK x \in S : \A y \in S : x <= y
    BY <1>5, <2>1, LeastOf
  <2>3. PICK h : h = C!First(X)
    OBVIOUS
  <2>4. h = CHOOSE g \in S : \A y \in S : g <= y
    BY <1>2, <2>3 DEF C!First
  <2>5. h \in S /\ \A y \in S : h <= y
    BY <2>2, <2>4
  <2>6. h \in 1 .. Len(X) /\ C!IsHeader(X[h])
    BY <1>1, <1>3, <2>5
  <2>7. ASSUME NEW i \in 1 .. h - 1 PROVE ~ C!IsHeader(X[i])
    <3>1. i \in 1 .. Len(X) /\ ~ (h <= i)
      BY <1>1, <2>6
    <3> QED
      BY <1>1, <1>3, <2>5, <3>1
  <2>8. PICK m : m = h - 1
    OBVIOUS
  <2>9. m \in Nat /\ m + 1 = h
    BY <1>1, <2>6, <2>8
  <2>10. PICK n \in 0 .. m : /\ n # 0 => X[n].k # "comment"
                             /\ \A i \in n + 1 .. m : X[i].k = "comment"
    BY <2>9, LastOther
  <2>11. PICK a : a = C!HeadEnd(X)
    OBVIOUS
  <2>12. a = CHOOSE n_ \in 0 .. m : /\ n_ # 0 => X[n_].k # "comment"
                                    /\ \A i \in n_ + 1 .. m : X[i].k = "comment"
    BY <1>2, <1>5, <2>3, <2>8, <2>11 DEF C!HeadEnd
  <2>13. a \in 0 .. m /\ \A i \in a + 1 .. m : X[i].k = "comment"
    BY <2>10, <2>12
  <2>14. a \in 0 .. Len(X) /\ h \in a + 1 .. Len(X) + 1
    BY <1>1, <2>6, <2>9, <2>13
  <2>15. \A i \in a + 1 .. h - 1 : X[i].k = "comment"
    BY <2>8, <2>13
  <2>16. HeadOf(X, a, h)
    BY <2>6, <2>7, <2>14, <2>15 DEF HeadOf
  <2> QED
    BY <1>2, <1>5, <2>3, <2>11, <2>16
<1> QED
  BY <1>4, <1>5

\* The head, with its keys as S says them.
RewrittenAs(X, a, S, H) ==
  /\ IsDoc(H) /\ DOMAIN H = 1 .. a
  /\ \A i \in 1 .. a : H[i].k = X[i].k /\ H[i].n = X[i].n
  /\ \A i \in 1 .. a : H[i] = IF X[i].k = "key" /\ X[i].n \in DOMAIN S
                                THEN C!KeyLine(X[i].n, S[X[i].n]) ELSE X[i]

LEMMA Head1Is ==
  ASSUME NEW X, IsDoc(X), NEW a, a = C!HeadEnd(X), NEW H, H = C!Head1(X)
  PROVE  IsDoc(H) /\ DOMAIN H = 1 .. a /\ \A i \in 1 .. a : H[i] = X[i]
<1>1. DOMAIN X = 1 .. Len(X) /\ Len(X) \in Nat /\ IsSeq(X)
  BY DocIs
<1>2. a \in Nat /\ a <= Len(X)
  <2>1. PICK h : HeadOf(X, a, h)
    BY HeadIs
  <2> QED
    BY <1>1, <2>1 DEF HeadOf
<1>3. /\ IsSeq(SubSeq(X, 0 + 1, a)) /\ Len(SubSeq(X, 0 + 1, a)) = a - 0
      /\ \A i \in 1 .. a - 0 : SubSeq(X, 0 + 1, a)[i] = X[0 + i]
  <2>1. 0 \in Nat /\ 0 <= a
    BY <1>2
  <2> QED
    BY <1>1, <1>2, <2>1, PrefixIs
<1>4. 0 + 1 = 1 /\ a - 0 = a /\ \A i \in 1 .. a : 0 + i = i
  BY <1>2
<1>5. H = SubSeq(X, 1, a)
  BY DEF C!Head1
<1>6. IsSeq(H) /\ Len(H) = a /\ \A i \in 1 .. a : H[i] = X[i]
  BY <1>3, <1>4, <1>5
<1>7. DOMAIN H = 1 .. a
  BY <1>6, SeqDomain
<1>8. \A i \in 1 .. a : i \in DOMAIN X
  BY <1>1, <1>2
<1> QED
  BY <1>6, <1>7, <1>8 DEF IsDoc

LEMMA RewriteIs ==
  ASSUME NEW X, IsDoc(X), NEW a, a = C!HeadEnd(X), NEW S,
         NEW H, H = C!RewriteHead(C!Head1(X), S)
  PROVE  RewrittenAs(X, a, S, H)
<1>1. PICK Ps : Ps = C!Head1(X)
  OBVIOUS
<1>2. IsDoc(Ps) /\ DOMAIN Ps = 1 .. a /\ \A i \in 1 .. a : Ps[i] = X[i]
  BY <1>1, Head1Is
<1>3. H = [i \in DOMAIN Ps |-> IF Ps[i].k = "key" /\ Ps[i].n \in DOMAIN S
                                THEN C!KeyLine(Ps[i].n, S[Ps[i].n]) ELSE Ps[i]]
  BY <1>1 DEF C!RewriteHead
<1>4. DOMAIN H = 1 .. a
  BY <1>2, <1>3
<1>5. ASSUME NEW i \in 1 .. a
      PROVE  H[i] = IF X[i].k = "key" /\ X[i].n \in DOMAIN S
                      THEN C!KeyLine(X[i].n, S[X[i].n]) ELSE X[i]
  BY <1>2, <1>3
<1>6. ASSUME NEW i \in 1 .. a PROVE IsLine(H[i]) /\ H[i].k = X[i].k /\ H[i].n = X[i].n
  <2>1. CASE X[i].k = "key" /\ X[i].n \in DOMAIN S
    <3>1. H[i] = C!Line("key", X[i].n, S[X[i].n])
      BY <1>5, <2>1 DEF C!KeyLine
    <3>2. IsLine(H[i]) /\ H[i].k = "key" /\ H[i].n = X[i].n
      BY <3>1, LineIs
    <3> QED
      BY <2>1, <3>2
  <2>2. CASE ~ (X[i].k = "key" /\ X[i].n \in DOMAIN S)
    <3>1. H[i] = X[i]
      BY <1>5, <2>2
    <3>2. IsLine(X[i])
      BY <1>2 DEF IsDoc
    <3> QED
      BY <3>1, <3>2
  <2> QED
    BY <2>1, <2>2
<1>7. IsDoc(H)
  <2>1. a \in Nat
    <3>1. DOMAIN Ps = 1 .. Len(Ps) /\ Len(Ps) \in Nat /\ Len(X) \in Nat
      BY <1>2, DocIs
    <3>2. PICK h : HeadOf(X, a, h)
      BY HeadIs
    <3> QED
      BY <3>1, <3>2 DEF HeadOf
  <2>2. H = [i \in 1 .. a |-> H[i]]
    BY <1>2, <1>3
  <2> QED
    BY <1>4, <1>6, <2>1, <2>2, SeqOver DEF IsDoc
<1> QED
  BY <1>4, <1>5, <1>6, <1>7 DEF RewrittenAs

\* The names of the keys in the head.
HeadNames(X, a) == {X[i].n : i \in {j \in 1 .. a : X[j].k = "key"}}

LEMMA WrittenIs ==
  ASSUME NEW X, IsDoc(X), NEW a, a = C!HeadEnd(X)
  PROVE  C!Written(C!Head1(X)) = HeadNames(X, a)
<1>1. PICK Ps : Ps = C!Head1(X)
  OBVIOUS
<1>2. DOMAIN Ps = 1 .. a /\ \A i \in 1 .. a : Ps[i] = X[i]
  BY <1>1, Head1Is
<1>3. C!ToSet(Ps) = {X[i] : i \in 1 .. a}
  BY <1>2 DEF C!ToSet
<1>4. C!Written(Ps) = {l.n : l \in {x \in C!ToSet(Ps) : x.k = "key"}}
  BY DEF C!Written
<1>5. ASSUME NEW x \in C!Written(Ps) PROVE x \in HeadNames(X, a)
  <2>1. PICK l \in C!ToSet(Ps) : l.k = "key" /\ x = l.n
    BY <1>4
  <2>2. PICK i \in 1 .. a : l = X[i]
    BY <1>3
  <2> QED
    BY <2>1, <2>2 DEF HeadNames
<1>6. ASSUME NEW x \in HeadNames(X, a) PROVE x \in C!Written(Ps)
  <2>1. PICK i \in 1 .. a : X[i].k = "key" /\ x = X[i].n
    BY DEF HeadNames
  <2>2. X[i] \in C!ToSet(Ps)
    BY <1>3
  <2> QED
    BY <1>4, <2>1, <2>2
<1> QED
  BY <1>1, <1>5, <1>6

\* The head as it is written over, and the keys that are new.
NewHead(X, D) == C!RewriteHead(C!Head1(X), D.scalars) \o C!NewKeys(X, D)

HeadSays(X, a, S) ==
  [x \in HeadNames(X, a) \cup DOMAIN S |->
     IF x \in DOMAIN S THEN S[x]
     ELSE X[CHOOSE i \in 1 .. a : X[i].k = "key" /\ X[i].n = x].v]

LEMMA NewHeadIs ==
  ASSUME NEW X, IsDoc(X), NEW a, a = C!HeadEnd(X), NEW D, IsMap(D.scalars),
         NEW Z, Z = NewHead(X, D)
  PROVE  \E H, K : /\ RewrittenAs(X, a, D.scalars, H)
                   /\ KeysOf(K, C!Without(D.scalars, HeadNames(X, a)))
                   /\ Joins(H, K, Z) /\ IsDoc(H) /\ IsDoc(K)
<1>1. PICK H, K, f : /\ H = C!RewriteHead(C!Head1(X), D.scalars) /\ K = C!NewKeys(X, D)
                     /\ f = C!Without(D.scalars, HeadNames(X, a))
  OBVIOUS
<1>2. RewrittenAs(X, a, D.scalars, H)
  <2>1. PICK S : S = D.scalars
    OBVIOUS
  <2> QED
    BY <1>1, <2>1, RewriteIs
<1>3. IsFiniteSet(DOMAIN f)
  <2>1. DOMAIN f \subseteq DOMAIN D.scalars
    BY <1>1 DEF C!Without
  <2> QED
    BY <2>1, FS_Subset DEF IsMap
<1>4. K = C!KeyLines(f)
  BY <1>1, WrittenIs DEF C!NewKeys
<1>5. KeysOf(K, f)
  BY <1>3, <1>4, KeyLinesAre
<1>6. IsDoc(H) /\ IsDoc(K)
  BY <1>2, <1>5 DEF RewrittenAs, KeysOf
<1>7. Joins(H, K, Z)
  BY <1>1, <1>6, DocJoins DEF NewHead
<1> QED
  BY <1>1, <1>2, <1>5, <1>6, <1>7

LEMMA HeadDistinct ==
  ASSUME NEW X, IsDoc(X), C!Valid(X), NEW a, a = C!HeadEnd(X)
  PROVE  \A i, j \in 1 .. a : X[i].k = "key" /\ X[j].k = "key" /\ X[i].n = X[j].n => i = j
<1> SUFFICES ASSUME NEW i \in 1 .. a, NEW j \in 1 .. a, X[i].k = "key", X[j].k = "key",
                    X[i].n = X[j].n
             PROVE  i = j
  OBVIOUS
<1>1. PICK h : HeadOf(X, a, h)
  BY HeadIs
<1>2. DOMAIN X = 1 .. Len(X) /\ Len(X) \in Nat
  BY DocIs
<1>3. i \in DOMAIN X /\ j \in DOMAIN X /\ i \in Nat /\ j \in Nat
  BY <1>1, <1>2 DEF HeadOf
<1>4. Heads(X, i, 0) /\ Heads(X, j, 0)
  <2>1. \A g \in 0 + 1 .. i : g \in 1 .. h - 1
    BY <1>1, <1>2 DEF HeadOf
  <2>2. \A g \in 0 + 1 .. j : g \in 1 .. h - 1
    BY <1>1, <1>2 DEF HeadOf
  <2> QED
    BY <1>1, <1>3, <2>1, <2>2 DEF Heads, HeadOf
<1>5. C!Under(X, i) = 0 /\ C!Under(X, j) = 0
  BY <1>3, <1>4, UnderIs
<1> QED
  BY <1>3, <1>5 DEF C!Valid

LEMMA HeadReads ==
  ASSUME NEW X, IsDoc(X), C!Valid(X), NEW a, a = C!HeadEnd(X), NEW D, IsMap(D.scalars),
         NEW Z, Z = NewHead(X, D)
  PROVE  Reads(Z, HeadSays(X, a, D.scalars), C!Empty, C!Empty)
<1>1. PICK H, K : /\ RewrittenAs(X, a, D.scalars, H)
                  /\ KeysOf(K, C!Without(D.scalars, HeadNames(X, a)))
                  /\ Joins(H, K, Z) /\ IsDoc(H) /\ IsDoc(K)
  BY NewHeadIs
<1>2. PICK S, F, Ws, b : /\ S = D.scalars /\ F = HeadSays(X, a, S) /\ Ws = HeadNames(X, a)
                        /\ b = Len(K)
  OBVIOUS
<1>3. /\ DOMAIN H = 1 .. Len(H) /\ Len(H) \in Nat /\ DOMAIN K = 1 .. b /\ b \in Nat
      /\ DOMAIN H = 1 .. a
  BY <1>1, <1>2, DocIs DEF RewrittenAs
<1>4. PICK c : c = Len(H)
  OBVIOUS
<1>5. 1 .. c = 1 .. a /\ c \in Nat
  BY <1>3, <1>4
<1>6. /\ IsDoc(Z) /\ DOMAIN Z = 1 .. c + b
      /\ \A i \in 1 .. c : Z[i] = H[i]
      /\ \A j \in 1 .. b : Z[c + j] = K[j]
  BY <1>1, <1>2, <1>4 DEF Joins
<1>7. /\ \A i \in 1 .. c : i \in DOMAIN Z
      /\ \A j \in 1 .. b : c + j \in DOMAIN Z
      /\ \A i \in DOMAIN Z : i \in 1 .. c \/ \E j \in 1 .. b : i = c + j
  <2>1. ASSUME NEW i \in DOMAIN Z, i \notin 1 .. c PROVE \E j \in 1 .. b : i = c + j
    <3>1. i - c \in 1 .. b /\ i = c + (i - c)
      BY <1>3, <1>5, <1>6, <2>1
    <3> QED
      BY <3>1
  <2> QED
    BY <1>3, <1>5, <1>6, <2>1
<1>8. \A i \in 1 .. c : Z[i].k = X[i].k /\ Z[i].n = X[i].n
  BY <1>1, <1>5, <1>6 DEF RewrittenAs
<1>9. \A j \in 1 .. b : /\ Z[c + j].k = "key" /\ Z[c + j].n \in DOMAIN S \ Ws
                        /\ Z[c + j].v = S[Z[c + j].n]
  <2>1. PICK f : f = C!Without(S, Ws)
    OBVIOUS
  <2>2. DOMAIN f = DOMAIN S \ Ws /\ \A x \in DOMAIN f : f[x] = S[x]
    BY <2>1 DEF C!Without
  <2>3. KeysOf(K, f)
    BY <1>1, <1>2, <2>1
  <2> QED
    BY <1>3, <1>6, <2>2, <2>3 DEF KeysOf
<1>10. NoHeader(Z)
  <2>1. ASSUME NEW i \in 1 .. c PROVE ~ C!IsHeader(Z[i])
    <3>1. PICK h : HeadOf(X, a, h)
      BY HeadIs
    <3>2. Len(X) \in Nat
      BY DocIs
    <3>3. i \in 1 .. h - 1
      BY <1>5, <3>1, <3>2 DEF HeadOf
    <3>4. ~ C!IsHeader(X[i])
      BY <3>1, <3>3 DEF HeadOf
    <3> QED
      BY <1>8, <3>4 DEF C!IsHeader
  <2>2. ASSUME NEW j \in 1 .. b PROVE ~ C!IsHeader(Z[c + j])
    BY <1>9 DEF C!IsHeader
  <2> QED
    BY <1>7, <2>1, <2>2 DEF NoHeader
<1>11. \A i, j \in 1 .. c : X[i].k = "key" /\ X[j].k = "key" /\ X[i].n = X[j].n => i = j
  BY <1>5, HeadDistinct
<1>12. Ws = {X[i].n : i \in {j \in 1 .. c : X[j].k = "key"}}
  BY <1>2, <1>5 DEF HeadNames
<1>13. /\ IsFn(F) /\ DOMAIN F = Ws \cup DOMAIN S
       /\ \A x \in DOMAIN S : F[x] = S[x]
       /\ \A x \in Ws \ DOMAIN S : F[x] = X[CHOOSE i \in 1 .. a : X[i].k = "key" /\ X[i].n = x].v
  BY <1>2 DEF HeadSays, IsFn
<1>14. ASSUME NEW i \in 1 .. c, Z[i].k = "key"
       PROVE  Z[i].n \in DOMAIN F /\ F[Z[i].n] = Z[i].v
  <2>1. PICK x : x = X[i].n
    OBVIOUS
  <2>2. X[i].k = "key" /\ Z[i].n = x /\ x \in Ws
    BY <1>8, <1>12, <1>14, <2>1
  <2>3. CASE x \in DOMAIN S
    <3>1. Z[i] = C!KeyLine(x, S[x])
      BY <1>1, <1>2, <1>5, <1>6, <2>1, <2>2, <2>3 DEF RewrittenAs
    <3>2. Z[i].v = S[x]
      BY <3>1 DEF C!KeyLine, C!Line
    <3> QED
      BY <1>13, <2>2, <2>3, <3>2
  <2>4. CASE x \notin DOMAIN S
    <3>1. Z[i] = X[i]
      BY <1>1, <1>2, <1>5, <1>6, <2>1, <2>4 DEF RewrittenAs
    <3>2. PICK g : g = CHOOSE j \in 1 .. a : X[j].k = "key" /\ X[j].n = x
      OBVIOUS
    <3>3. g \in 1 .. a /\ X[g].k = "key" /\ X[g].n = x
      BY <1>5, <2>1, <2>2, <3>2
    <3>4. g = i
      BY <1>5, <1>11, <2>1, <2>2, <3>3
    <3>5. F[x] = X[g].v
      BY <1>13, <2>2, <2>4, <3>2
    <3> QED
      BY <1>13, <2>2, <3>1, <3>4, <3>5
  <2> QED
    BY <2>3, <2>4
<1>15. ASSUME NEW j \in 1 .. b PROVE Z[c + j].n \in DOMAIN F /\ F[Z[c + j].n] = Z[c + j].v
  BY <1>9, <1>13
<1>16. ASSUME NEW x \in DOMAIN F PROVE \E i \in DOMAIN Z : Z[i].k = "key" /\ Z[i].n = x
  <2>1. CASE x \in Ws
    <3>1. PICK i \in 1 .. c : X[i].k = "key" /\ x = X[i].n
      BY <1>12, <2>1
    <3> QED
      BY <1>7, <1>8, <3>1
  <2>2. CASE x \notin Ws
    <3>1. PICK f : f = C!Without(S, Ws)
      OBVIOUS
    <3>2. KeysOf(K, f)
      BY <1>1, <1>2, <3>1
    <3>3. x \in DOMAIN f
      BY <1>13, <2>2, <3>1 DEF C!Without
    <3>4. PICK j \in 1 .. b : K[j].n = x
      BY <1>3, <3>2, <3>3 DEF KeysOf
    <3> QED
      BY <1>6, <1>7, <1>9, <3>4
  <2> QED
    BY <2>1, <2>2
<1>17. ASSUME NEW i \in DOMAIN Z, NEW j \in DOMAIN Z, Z[i].k = "key", Z[j].k = "key",
              Z[i].n = Z[j].n
       PROVE  i = j
  <2>1. CASE i \in 1 .. c /\ j \in 1 .. c
    BY <1>8, <1>11, <1>17, <2>1
  <2>2. ASSUME NEW p \in 1 .. c, NEW q \in 1 .. b, Z[p].k = "key" PROVE Z[p].n # Z[c + q].n
    <3>1. Z[p].n \in Ws
      BY <1>8, <1>12, <2>2
    <3> QED
      BY <1>9, <3>1
  <2>3. CASE i \notin 1 .. c /\ j \notin 1 .. c
    <3>1. PICK p \in 1 .. b, q \in 1 .. b : i = c + p /\ j = c + q
      BY <1>7, <2>3
    <3>2. K[p].n = K[q].n
      BY <1>6, <1>17, <3>1
    <3>3. p = q
      BY <1>1, <1>3, <3>2 DEF KeysOf
    <3> QED
      BY <3>1, <3>3
  <2>4. CASE i \in 1 .. c /\ j \notin 1 .. c
    BY <1>7, <1>17, <2>2, <2>4
  <2>5. CASE i \notin 1 .. c /\ j \in 1 .. c
    BY <1>7, <1>17, <2>2, <2>5
  <2> QED
    BY <2>1, <2>3, <2>4, <2>5
<1>18. \A i \in DOMAIN Z : Z[i].k = "key" => Z[i].n \in DOMAIN F /\ F[Z[i].n] = Z[i].v
  BY <1>7, <1>14, <1>15
<1>19. Spoken(Z, F)
  BY <1>13, <1>16, <1>17, <1>18 DEF Spoken
<1>20. Reads(Z, F, C!Empty, C!Empty)
  BY <1>6, <1>10, <1>19, NoHeaderReads
<1> QED
  BY <1>2, <1>20

-----------------------------------------------------------------------------
(* The sections, and what is merged.                                       *)

\* The comments that lead the first section.
LEMMA LeadIs ==
  ASSUME NEW X, IsDoc(X), NEW h \in C!Headers(X), NEW Ls, Ls = C!Lead(X, h)
  PROVE  IsDoc(Ls) /\ \A i \in DOMAIN Ls : Ls[i].k = "comment"
<1>1. DOMAIN X = 1 .. Len(X) /\ Len(X) \in Nat /\ IsSeq(X)
  BY DocIs
<1>2. CASE h # C!First(X)
  <2>1. Ls = << >>
    BY <1>2 DEF C!Lead
  <2>2. IsSeq(Ls) /\ DOMAIN Ls = {}
    BY <2>1, NoSeq
  <2> QED
    BY <2>2 DEF IsDoc
<1>3. CASE h = C!First(X)
  <2>1. PICK a : a = C!HeadEnd(X)
    OBVIOUS
  <2>2. HeadOf(X, a, h)
    BY <1>3, <2>1, HeadIs
  <2>3. PICK m : m = h - 1
    OBVIOUS
  <2>4. /\ a \in Nat /\ m \in Nat /\ a <= m /\ m <= Len(X)
        /\ \A i \in a + 1 .. m : X[i].k = "comment"
    BY <1>1, <2>2, <2>3 DEF HeadOf
  <2>5. Ls = SubSeq(X, a + 1, m)
    BY <1>3, <2>1, <2>3 DEF C!Lead
  <2>6. IsSeq(Ls) /\ Len(Ls) = m - a /\ \A i \in 1 .. m - a : Ls[i] = X[a + i]
    BY <1>1, <2>4, <2>5, PrefixIs
  <2>7. DOMAIN Ls = 1 .. m - a
    BY <2>6, SeqDomain
  <2>8. \A i \in 1 .. m - a : a + i \in a + 1 .. m /\ a + i \in DOMAIN X
    BY <1>1, <2>4
  <2>9. ASSUME NEW i \in DOMAIN Ls PROVE IsLine(Ls[i]) /\ Ls[i].k = "comment"
    <3>1. Ls[i] = X[a + i]
      BY <2>6, <2>7
    <3> QED
      BY <2>4, <2>7, <2>8, <3>1 DEF IsDoc
  <2> QED
    BY <2>6, <2>9 DEF IsDoc
<1> QED
  BY <1>2, <1>3

\* Comments before a part belong to it.
LEMMA LedPart ==
  ASSUME NEW F, NEW G, Seqs(G), NEW N, NEW Y, Part(Y, C!Empty, F, G, N),
         NEW Ls, IsDoc(Ls), \A i \in DOMAIN Ls : Ls[i].k = "comment"
  PROVE  Part(Ls \o Y, C!Empty, F, G, N)
<1>1. NoHeader(Ls)
  BY DEF NoHeader, C!IsHeader
<1>2. Spoken(Ls, C!Empty)
  BY EmptyFn DEF Spoken
<1>3. Reads(Ls, C!Empty, C!Empty, C!Empty)
  BY <1>1, <1>2, NoHeaderReads
<1>4. Cut(F, {}) = C!Empty /\ Cut(G, {}) = C!Empty
  BY DEF Cut, C!Empty
<1>5. Part(Ls, C!Empty, F, G, {})
  BY <1>3, <1>4 DEF Part
<1>6. Part(Ls \o Y, C!Empty, F, G, {} \cup N)
  BY <1>5, EmptyFn, JoinParts
<1> QED
  BY <1>6

\* The names of the headers; the section of a header has those it writes.
Named(X) == {X[h].n : h \in C!Headers(X)}
Again(X, h) == \E g \in C!Headers(X) : g < h /\ X[g].n = X[h].n
Writes(X, D, h) ==
  IF C!IsHeader(X[h]) /\ (X[h].n \in DOMAIN D.tables \/ (X[h].n \in DOMAIN D.arrays /\ ~ Again(X, h)))
    THEN {X[h].n} ELSE {}

LEMMA SectionPart ==
  ASSUME NEW X, IsDoc(X), NEW D, IsData(D), NEW h \in C!Headers(X)
  PROVE  Part(C!Section(X, D, h), C!Empty, D.tables, D.arrays, Writes(X, D, h))
<1>1. PICK F, G, x, Ls : F = D.tables /\ G = D.arrays /\ x = X[h].n /\ Ls = C!Lead(X, h)
  OBVIOUS
<1>2. Seqs(G)
  BY <1>1 DEF Seqs, IsData, IsList
<1>3. IsDoc(Ls) /\ \A i \in DOMAIN Ls : Ls[i].k = "comment"
  BY <1>1, LeadIs
<1>4. C!IsHeader(X[h])
  BY DEF C!Headers
<1>5. C!Section(X, D, h) =
        IF x \in DOMAIN F THEN Ls \o C!TableLines(x, F[x], "table")
        ELSE IF x \in DOMAIN G /\ ~ Again(X, h) THEN Ls \o C!ArrayLines(D, x) ELSE << >>
  BY <1>1 DEF C!Section, Again
<1>6. Writes(X, D, h) = IF x \in DOMAIN F \/ (x \in DOMAIN G /\ ~ Again(X, h)) THEN {x} ELSE {}
  BY <1>1, <1>4 DEF Writes
<1>7. CASE x \in DOMAIN F
  <2>1. x \notin DOMAIN G /\ IsMap(F[x])
    BY <1>1, <1>7 DEF IsData
  <2>2. PICK Y : Y = C!TableLines(x, F[x], "table")
    OBVIOUS
  <2>3. Part(Y, C!Empty, F, G, {x})
    BY <1>7, <2>1, <2>2, TablePart
  <2>4. Part(Ls \o Y, C!Empty, F, G, {x})
    BY <1>2, <1>3, <2>3, LedPart
  <2> QED
    BY <1>1, <1>5, <1>6, <1>7, <2>2, <2>4
<1>8. CASE x \notin DOMAIN F /\ x \in DOMAIN G /\ ~ Again(X, h)
  <2>1. IsList(G[x])
    BY <1>1, <1>8 DEF IsData
  <2>2. PICK Y : Y = C!ArrayLines(D, x)
    OBVIOUS
  <2>3. Part(Y, C!Empty, F, G, {x})
    BY <1>1, <1>8, <2>1, <2>2, ArrayPart
  <2>4. Part(Ls \o Y, C!Empty, F, G, {x})
    BY <1>2, <1>3, <2>3, LedPart
  <2> QED
    BY <1>1, <1>5, <1>6, <1>8, <2>2, <2>4
<1>9. CASE x \notin DOMAIN F /\ ~ (x \in DOMAIN G /\ ~ Again(X, h))
  BY <1>1, <1>5, <1>6, <1>9, NoPart
<1> QED
  BY <1>7, <1>8, <1>9

LEMMA SectionsRead ==
  ASSUME NEW X, IsDoc(X), C!Valid(X), NEW D, IsData(D),
         \A h \in DOMAIN X : X[h].k = "array" => X[h].n \notin DOMAIN D.tables
  PROVE  Part(C!Sections(X, D), C!Empty, D.tables, D.arrays,
              Named(X) \cap (DOMAIN D.tables \cup DOMAIN D.arrays))
<1>1. PICK F, G, n, H : F = D.tables /\ G = D.arrays /\ n = Len(X) /\ H = C!Headers(X)
  OBVIOUS
<1>2. DOMAIN X = 1 .. n /\ n \in Nat
  BY <1>1, DocIs
<1>3. Seqs(G)
  BY <1>1 DEF Seqs, IsData, IsList
<1>4. PICK ss, Ns : /\ ss = [i \in 1 .. n |-> IF C!IsHeader(X[i]) THEN C!Section(X, D, i) ELSE << >>]
                    /\ Ns = [i \in 1 .. n |-> Writes(X, D, i)]
  OBVIOUS
<1>5. C!Sections(X, D) = C!FlattenSeq(ss)
  BY <1>2, <1>4 DEF C!Sections
<1>6. ASSUME NEW i \in 1 .. n PROVE Part(ss[i], C!Empty, F, G, Ns[i])
  <2>1. CASE C!IsHeader(X[i])
    <3>1. i \in C!Headers(X)
      BY <1>2, <2>1 DEF C!Headers
    <3>2. ss[i] = C!Section(X, D, i) /\ Ns[i] = Writes(X, D, i)
      BY <1>4, <2>1
    <3> QED
      BY <1>1, <3>1, <3>2, SectionPart
  <2>2. CASE ~ C!IsHeader(X[i])
    <3>1. ss[i] = << >> /\ Ns[i] = {}
      BY <1>4, <2>2 DEF Writes
    <3> QED
      BY <3>1, NoPart
  <2> QED
    BY <2>1, <2>2
<1>7. H = {i \in 1 .. n : C!IsHeader(X[i])}
  BY <1>1, <1>2 DEF C!Headers
<1>8. ASSUME NEW i \in 1 .. n, NEW j \in 1 .. n, i < j PROVE Ns[i] \cap Ns[j] = {}
  <2> SUFFICES ASSUME NEW x, x \in Ns[i], x \in Ns[j] PROVE FALSE
    OBVIOUS
  <2>1. /\ C!IsHeader(X[i]) /\ C!IsHeader(X[j]) /\ X[i].n = x /\ X[j].n = x
        /\ x \in DOMAIN F \/ (x \in DOMAIN G /\ ~ Again(X, j))
    BY <1>1, <1>4 DEF Writes
  <2>2. Again(X, j)
    BY <1>1, <1>7, <1>8, <2>1 DEF Again
  <2>3. i # j
    BY <1>2, <1>8
  <2>4. X[i].k = "array"
    BY <1>2, <2>1, <2>3 DEF C!Valid
  <2> QED
    BY <1>1, <1>2, <2>1, <2>2, <2>4
<1>9. \A i, j \in 1 .. n : i # j => Ns[i] \cap Ns[j] = {}
  <2>1. \A i, j \in 1 .. n : i # j => i < j \/ j < i
    BY <1>2
  <2> QED
    BY <1>8, <2>1
<1>10. Parts(F, G, n, ss, Ns)
  BY <1>4, <1>6, <1>9 DEF Parts
<1>11. Union(n, Ns) = Named(X) \cap (DOMAIN F \cup DOMAIN G)
  <2>1. ASSUME NEW i \in 1 .. n, NEW x \in Ns[i] PROVE x \in Named(X) \cap (DOMAIN F \cup DOMAIN G)
    <3>1. C!IsHeader(X[i]) /\ X[i].n = x /\ x \in DOMAIN F \cup DOMAIN G
      BY <1>1, <1>4 DEF Writes
    <3> QED
      BY <1>1, <1>7, <3>1 DEF Named
  <2>2. ASSUME NEW x \in Named(X) \cap (DOMAIN F \cup DOMAIN G) PROVE \E i \in 1 .. n : x \in Ns[i]
    <3>1. PICK Ps : Ps = {g \in H : X[g].n = x}
      OBVIOUS
    <3>2. Ps # {} /\ Ps \in SUBSET Nat
      BY <1>1, <1>2, <1>7, <3>1 DEF Named
    <3>3. PICK i \in Ps : \A g \in Ps : i <= g
      BY <3>2, LeastOf
    <3>4. i \in 1 .. n /\ C!IsHeader(X[i]) /\ X[i].n = x
      BY <1>7, <3>1
    <3>5. ~ Again(X, i)
      <4> SUFFICES ASSUME NEW g \in H, g < i, X[g].n = X[i].n PROVE FALSE
        BY <1>1 DEF Again
      <4>1. g \in Ps
        BY <3>1, <3>4
      <4> QED
        BY <1>2, <1>7, <3>3, <3>4, <4>1
    <3>6. Writes(X, D, i) = {x}
      BY <1>1, <3>4, <3>5 DEF Writes
    <3> QED
      BY <1>4, <3>4, <3>6
  <2> QED
    BY <2>1, <2>2 DEF Union
<1>12. Part(C!FlattenSeq(ss), C!Empty, F, G, Union(n, Ns))
  BY <1>2, <1>3, <1>10, FlatParts
<1> QED
  BY <1>1, <1>5, <1>11, <1>12

LEMMA RestReads ==
  ASSUME NEW X, NEW D, IsData(D)
  PROVE  Part(C!Dumps(C!Rest(X, D)), C!Empty, D.tables, D.arrays,
              (DOMAIN D.tables \cup DOMAIN D.arrays) \ Named(X))
<1>1. PICK F, G, R, N, M : /\ F = D.tables /\ G = D.arrays /\ R = C!Rest(X, D) /\ N = Named(X)
                           /\ M = (DOMAIN F \cup DOMAIN G) \ N
  OBVIOUS
<1>2. R.scalars = C!Empty /\ R.tables = C!Without(F, N) /\ R.arrays = C!Without(G, N)
  BY <1>1 DEF C!Rest, Named
<1>3. C!Without(F, N) = Cut(F, M) /\ C!Without(G, N) = Cut(G, M)
  <2>1. DOMAIN F \ N = DOMAIN F \cap M /\ DOMAIN G \ N = DOMAIN G \cap M
    BY <1>1
  <2> QED
    BY <2>1 DEF C!Without, Cut
<1>4. PICK Ps, Q : Ps = Cut(F, M) /\ Q = Cut(G, M)
  OBVIOUS
<1>5. /\ IsFn(Ps) /\ DOMAIN Ps \subseteq DOMAIN F /\ \A x \in DOMAIN Ps : Ps[x] = F[x]
      /\ IsFn(Q) /\ DOMAIN Q \subseteq DOMAIN G /\ \A x \in DOMAIN Q : Q[x] = G[x]
  BY <1>4 DEF Cut, IsFn
<1>6. IsMap(F) /\ IsMap(G)
  BY <1>1 DEF IsData
<1>7. IsMap(Ps) /\ IsMap(Q)
  BY <1>5, <1>6, FS_Subset DEF IsMap
<1>8. IsMap(C!Empty)
  <2>1. IsFiniteSet({})
    BY FS_EmptySet
  <2> QED
    BY <2>1, EmptyFn DEF IsMap
<1>9. /\ \A x \in DOMAIN Ps : IsMap(Ps[x])
      /\ \A x \in DOMAIN Q : IsList(Q[x])
      /\ DOMAIN Ps \cap DOMAIN Q = {}
  BY <1>1, <1>5 DEF IsData
<1>10. IsData(R)
  BY <1>2, <1>3, <1>4, <1>7, <1>8, <1>9, EmptyFn DEF IsData
<1>11. Reads(C!Dumps(R), C!Empty, Ps, Q)
  BY <1>2, <1>3, <1>4, <1>10, DumpsReads
<1> QED
  BY <1>1, <1>4, <1>11 DEF Part

\* The document says what the data is.
Tells(Z, D) ==
  \E S : /\ Reads(Z, S, D.tables, D.arrays)
         /\ \A x \in DOMAIN D.scalars : x \in DOMAIN S /\ S[x] = D.scalars[x]

\* What is merged into a document is read back, where no table of the data is
\* an array in it and no key of its head has a name of either.
THEOREM MergeReads ==
  ASSUME NEW X, IsDoc(X), C!Valid(X), NEW D, IsData(D),
         \A h \in DOMAIN X : X[h].k = "array" => X[h].n \notin DOMAIN D.tables,
         HeadNames(X, C!HeadEnd(X)) \cap (DOMAIN D.tables \cup DOMAIN D.arrays) = {}
  PROVE  Tells(C!Merge(X, D), D)
<1>1. PICK F, G, S0, a : F = D.tables /\ G = D.arrays /\ S0 = D.scalars /\ a = C!HeadEnd(X)
  OBVIOUS
<1>2. CASE X = << >>
  <2>1. C!Merge(X, D) = C!Dumps(D)
    BY <1>2 DEF C!Merge
  <2>2. Reads(C!Dumps(D), D.scalars, D.tables, D.arrays)
    BY DumpsReads
  <2> QED
    BY <2>1, <2>2 DEF Tells
<1>3. CASE X # << >>
  <2>1. PICK H, Y, R, S : /\ H = NewHead(X, D) /\ Y = C!Sections(X, D)
                          /\ R = C!Dumps(C!Rest(X, D)) /\ S = HeadSays(X, a, S0)
    OBVIOUS
  <2>2. C!Merge(X, D) = (H \o Y) \o R
    BY <1>3, <2>1 DEF C!Merge, NewHead
  <2>3. Reads(H, S, C!Empty, C!Empty)
    <3>1. IsMap(D.scalars)
      BY DEF IsData
    <3> QED
      BY <1>1, <2>1, <3>1, HeadReads
  <2>4. Cut(F, {}) = C!Empty /\ Cut(G, {}) = C!Empty
    BY DEF Cut, C!Empty
  <2>5. Part(H, S, F, G, {})
    BY <2>3, <2>4 DEF Part
  <2>6. Seqs(G)
    BY <1>1 DEF Seqs, IsData, IsList
  <2>7. PICK All, N : All = DOMAIN F \cup DOMAIN G /\ N = Named(X)
    OBVIOUS
  <2>8. DOMAIN S = HeadNames(X, a) \cup DOMAIN S0 /\ \A x \in DOMAIN S0 : S[x] = S0[x]
    BY <2>1 DEF HeadSays
  <2>9. DOMAIN S \cap All = {}
    BY <1>1, <2>7, <2>8 DEF IsData
  <2>10. Part(Y, C!Empty, F, G, N \cap All)
    BY <1>1, <2>1, <2>7, SectionsRead
  <2>11. Part(R, C!Empty, F, G, All \ N)
    BY <1>1, <2>1, <2>7, RestReads
  <2>12. Part(H \o Y, S, F, G, {} \cup (N \cap All))
    BY <2>5, <2>6, <2>7, <2>9, <2>10, JoinParts
  <2>13. PICK Z, M : Z = H \o Y /\ M = N \cap All
    OBVIOUS
  <2>14. Part(Z, S, F, G, M)
    BY <2>12, <2>13
  <2>15. M \cap (All \ N) = {}
    BY <2>13
  <2>16. Part(Z \o R, S, F, G, M \cup (All \ N))
    BY <2>6, <2>7, <2>9, <2>11, <2>14, <2>15, JoinParts
  <2>17. M \cup (All \ N) = All
    BY <2>13
  <2>18. Cut(F, All) = F /\ Cut(G, All) = G
    BY <1>1, <2>7 DEF Cut, IsData, IsMap, IsFn
  <2>19. Reads(Z \o R, S, F, G)
    BY <2>16, <2>17, <2>18 DEF Part
  <2> QED
    BY <1>1, <2>2, <2>8, <2>13, <2>19 DEF Tells
<1> QED
  BY <1>2, <1>3

-----------------------------------------------------------------------------
(* What is read is what the reader makes of it.                            *)

LEMMA BodyIs ==
  ASSUME NEW X, NEW h, NEW f, Says(X, h, f)
  PROVE  C!Body(X, h) = f
<1>1. PICK K : K = C!KeysUnder(X, h)
  OBVIOUS
<1>2. IsFn(f) /\ DOMAIN f = {X[i].n : i \in K} /\ \A i \in K : f[X[i].n] = X[i].v
  BY <1>1 DEF Says, C!NamedBy
<1>3. C!Body(X, h) = [n \in {X[i].n : i \in K} |-> X[CHOOSE i \in K : X[i].n = n].v]
  BY <1>1 DEF C!Body, C!NamedBy
<1>4. ASSUME NEW n \in DOMAIN f PROVE f[n] = X[CHOOSE i \in K : X[i].n = n].v
  <2>1. \E i \in K : X[i].n = n
    BY <1>2
  <2>2. PICK i : i = CHOOSE j \in K : X[j].n = n
    OBVIOUS
  <2>3. i \in K /\ X[i].n = n
    BY <2>1, <2>2
  <2> QED
    BY <1>2, <2>2, <2>3
<1> QED
  BY <1>2, <1>3, <1>4 DEF IsFn

LEMMA NthIs ==
  ASSUME NEW S \in SUBSET Nat, NEW s, IsSeq(s), NEW p, Along(S, s, p)
  PROVE  /\ C!Cardinality(S) = Len(s)
         /\ \A e \in 1 .. Len(s) : C!Nth(S, e) = p[e]
<1>1. PICK c : c = Len(s)
  OBVIOUS
<1>2. c \in Nat
  BY <1>1, SeqDomain
<1>3. /\ p \in [1 .. c -> S] /\ \A h \in S : \E e \in 1 .. c : p[e] = h
      /\ \A e, f \in 1 .. c : e < f => p[e] < p[f]
  BY <1>1 DEF Along
<1>4. \A e, f \in 1 .. c : e # f => p[e] # p[f] /\ p[e] \in Nat /\ p[f] \in Nat
  <2> SUFFICES ASSUME NEW e \in 1 .. c, NEW f \in 1 .. c, e # f
               PROVE  p[e] # p[f] /\ p[e] \in Nat /\ p[f] \in Nat
    OBVIOUS
  <2>1. e < f \/ f < e
    BY <1>2
  <2>2. p[e] \in Nat /\ p[f] \in Nat
    BY <1>3
  <2>3. p[e] < p[f] \/ p[f] < p[e]
    BY <1>3, <2>1
  <2> QED
    BY <2>2, <2>3
<1>5. ASSUME NEW m \in 0 .. c PROVE Cardinality({p[e] : e \in 1 .. m}) = m
  <2>1. PICK q, U : q = [e \in 1 .. m |-> p[e]] /\ U = {p[e] : e \in 1 .. m}
    OBVIOUS
  <2>2. m \in Nat /\ \A e \in 1 .. m : e \in 1 .. c
    BY <1>2
  <2>3. \A e, f \in 1 .. m : q[e] = q[f] => e = f
    BY <1>4, <2>1, <2>2
  <2>4. q \in [1 .. m -> U] /\ \A x \in U : \E e \in 1 .. m : q[e] = x
    BY <2>1
  <2>5. q \in Bijection(1 .. m, U)
    BY <2>3, <2>4 DEF Bijection, Injection, Surjection, IsInjective
  <2>6. Cardinality(U) = m
    BY <2>2, <2>5, FS_CountingElements DEF ExistsBijection
  <2> QED
    BY <2>1, <2>6
<1>6. C!Cardinality(S) = c
  <2>1. S = {p[e] : e \in 1 .. c}
    BY <1>3
  <2>2. c \in 0 .. c
    BY <1>2
  <2>3. Cardinality({p[e] : e \in 1 .. c}) = c
    BY <1>5, <2>2
  <2> QED
    BY <2>1, <2>3, SameSize
<1>7. ASSUME NEW e \in 1 .. c PROVE C!Cardinality({g \in S : g <= p[e]}) = e
  <2>1. ASSUME NEW f \in 1 .. c PROVE p[f] <= p[e] <=> f \in 1 .. e
    <3>1. p[f] \in Nat /\ p[e] \in Nat
      BY <1>3
    <3>2. CASE f = e
      BY <1>2, <3>1, <3>2
    <3>3. CASE f < e
      BY <1>2, <1>3, <3>1, <3>3
    <3>4. CASE e < f
      <4>1. p[e] < p[f]
        BY <1>3, <3>4
      <4> QED
        BY <1>2, <3>1, <3>4, <4>1
    <3> QED
      BY <1>2, <3>2, <3>3, <3>4
  <2>2. PICK U : U = {g \in S : g <= p[e]}
    OBVIOUS
  <2>3. \A f \in 1 .. e : f \in 1 .. c
    BY <1>2
  <2>4. ASSUME NEW g \in U PROVE \E f \in 1 .. e : g = p[f]
    <3>1. g \in S /\ g <= p[e]
      BY <2>2
    <3>2. PICK f \in 1 .. c : p[f] = g
      BY <1>3, <3>1
    <3> QED
      BY <2>1, <3>1, <3>2
  <2>5. ASSUME NEW f \in 1 .. e PROVE p[f] \in U
    BY <1>3, <2>1, <2>2, <2>3
  <2>6. U = {p[f] : f \in 1 .. e}
    BY <2>4, <2>5
  <2>7. e \in 0 .. c
    BY <1>2
  <2>8. Cardinality(U) = e
    BY <1>5, <2>6, <2>7
  <2> QED
    BY <2>2, <2>8, SameSize
<1>8. ASSUME NEW e \in 1 .. c PROVE C!Nth(S, e) = p[e]
  <2>1. PICK x : x = C!Nth(S, e)
    OBVIOUS
  <2>2. x = CHOOSE h \in S : C!Cardinality({g \in S : g <= h}) = e
    BY <2>1 DEF C!Nth
  <2>3. p[e] \in S /\ C!Cardinality({g \in S : g <= p[e]}) = e
    BY <1>3, <1>7
  <2>4. x \in S /\ C!Cardinality({g \in S : g <= x}) = e
    BY <2>2, <2>3
  <2>5. PICK f \in 1 .. c : p[f] = x
    BY <1>3, <2>4
  <2>6. C!Cardinality({g \in S : g <= p[f]}) = f
    BY <1>7
  <2>7. f = e
    BY <2>4, <2>5, <2>6
  <2> QED
    BY <2>1, <2>5, <2>7
<1> QED
  BY <1>1, <1>6, <1>8

LEMMA ArraysAre ==
  ASSUME NEW X, IsDoc(X), NEW A, SaysArrays(X, A)
  PROVE  C!Arrays(X) = A
<1>1. PICK Ps : Ps = C!NamedBy(X, C!HeadersOf(X, "array"))
  OBVIOUS
<1>2. IsFn(A) /\ DOMAIN A = Ps
  BY <1>1 DEF SaysArrays
<1>3. C!Arrays(X) = [n \in Ps |-> [e \in 1 .. C!Cardinality(C!Entries(X, n)) |->
                                    C!Body(X, C!Nth(C!Entries(X, n), e))]]
  BY <1>1 DEF C!Arrays
<1>4. ASSUME NEW n \in Ps
      PROVE  A[n] = [e \in 1 .. C!Cardinality(C!Entries(X, n)) |->
                       C!Body(X, C!Nth(C!Entries(X, n), e))]
  <2>1. PICK s, S, c : s = A[n] /\ S = C!Entries(X, n) /\ c = Len(s)
    OBVIOUS
  <2>2. Lists(X, n, s)
    <3>1. Of(A, n) = s
      BY <1>2, <2>1 DEF Of
    <3> QED
      BY <3>1 DEF SaysArrays
  <2>3. IsSeq(s)
    BY <2>2 DEF Lists
  <2>4. PICK p : Along(S, s, p) /\ \A e \in 1 .. c : Says(X, p[e], s[e])
    BY <2>1, <2>2 DEF Lists
  <2>5. S \in SUBSET Nat
    BY <2>1, DocIs DEF C!Entries, C!HeadersOf
  <2>6. C!Cardinality(S) = c /\ \A e \in 1 .. c : C!Nth(S, e) = p[e]
    BY <2>1, <2>3, <2>4, <2>5, NthIs
  <2>7. ASSUME NEW e \in 1 .. c PROVE C!Body(X, C!Nth(S, e)) = s[e]
    <3>1. PICK h, f : h = p[e] /\ f = s[e]
      OBVIOUS
    <3>2. C!Body(X, h) = f
      BY <2>4, <3>1, BodyIs
    <3> QED
      BY <2>6, <3>1, <3>2
  <2>8. s = [e \in 1 .. c |-> s[e]]
    <3>1. s \in [1 .. c -> C!ToSet(s)]
      BY <2>1, <2>3, LenProperties DEF IsSeq
    <3> QED
      BY <3>1
  <2>9. s = [e \in 1 .. c |-> C!Body(X, C!Nth(S, e))]
    BY <2>7, <2>8
  <2> QED
    BY <2>1, <2>6, <2>9
<1> QED
  BY <1>2, <1>3, <1>4 DEF IsFn

LEMMA TablesAre ==
  ASSUME NEW X, NEW T, SaysTables(X, T)
  PROVE  C!Tables(X) = T
<1>1. PICK Ps : Ps = C!HeadersOf(X, "table")
  OBVIOUS
<1>2. IsFn(T) /\ DOMAIN T = {X[i].n : i \in Ps} /\ \A h \in Ps : Says(X, h, T[X[h].n])
  BY <1>1 DEF SaysTables, C!NamedBy
<1>3. C!Tables(X) = [n \in {X[i].n : i \in Ps} |-> C!Body(X, CHOOSE h \in Ps : X[h].n = n)]
  BY <1>1 DEF C!Tables, C!NamedBy
<1>4. ASSUME NEW n \in DOMAIN T PROVE T[n] = C!Body(X, CHOOSE h \in Ps : X[h].n = n)
  <2>1. \E h \in Ps : X[h].n = n
    BY <1>2
  <2>2. PICK h, f : h = (CHOOSE g \in Ps : X[g].n = n) /\ f = T[n]
    OBVIOUS
  <2>3. h \in Ps /\ X[h].n = n
    BY <2>1, <2>2
  <2>4. Says(X, h, f)
    BY <1>2, <2>2, <2>3
  <2>5. C!Body(X, h) = f
    BY <2>4, BodyIs
  <2> QED
    BY <2>2, <2>5
<1> QED
  BY <1>2, <1>3, <1>4 DEF IsFn

LEMMA ReadsParse ==
  ASSUME NEW X, NEW S, NEW T, NEW A, Reads(X, S, T, A), NEW D, D = C!Parse(X)
  PROVE  C!Valid(X) /\ D.scalars = S /\ D.tables = T /\ D.arrays = A
<1>1. C!Valid(X) /\ Says(X, 0, S) /\ SaysTables(X, T) /\ SaysArrays(X, A) /\ IsDoc(X)
  BY DEF Reads
<1>2. C!Body(X, 0) = S /\ C!Tables(X) = T /\ C!Arrays(X) = A
  BY <1>1, BodyIs, TablesAre, ArraysAre
<1>3. D = [scalars |-> C!Body(X, 0), tables |-> C!Tables(X), arrays |-> C!Arrays(X)]
  BY <1>1 DEF C!Parse
<1> QED
  BY <1>1, <1>2, <1>3

-----------------------------------------------------------------------------
(* The lines of what is merged.                                            *)

LEMMA JoinThree ==
  ASSUME NEW s, IsSeq(s), NEW t, IsSeq(t), NEW u, IsSeq(u)
  PROVE  (s \o t) \o u = s \o (t \o u)
<1>1. PICK S : S = C!ToSet(s) \cup C!ToSet(t) \cup C!ToSet(u)
  OBVIOUS
<1>2. s \in Seq(S) /\ t \in Seq(S) /\ u \in Seq(S)
  <2>1. ASSUME NEW w, IsSeq(w), C!ToSet(w) \subseteq S PROVE w \in Seq(S)
    <3>1. w \in [1 .. Len(w) -> C!ToSet(w)] /\ Len(w) \in Nat
      BY <2>1, LenProperties DEF IsSeq
    <3>2. w \in [1 .. Len(w) -> S]
      BY <2>1, <3>1
    <3> QED
      BY <3>1, <3>2, SeqDef
  <2> QED
    BY <1>1, <2>1
<1> QED
  BY <1>2, ConcatAssociative

\* A list whose entries are in Ls.
Within(s, Ls) == IsSeq(s) /\ C!ToSet(s) \subseteq Ls

LEMMA WithinJoin ==
  ASSUME NEW Ls, NEW s, Within(s, Ls), NEW t, Within(t, Ls)
  PROVE  Within(s \o t, Ls)
<1>1. IsSeq(s) /\ IsSeq(t) /\ C!ToSet(s) \subseteq Ls /\ C!ToSet(t) \subseteq Ls
  BY DEF Within
<1>2. PICK u : u = s \o t
  OBVIOUS
<1>3. IsSeq(u)
  BY <1>1, <1>2, SeqJoin DEF Joined
<1>4. C!ToSet(u) = C!ToSet(s) \cup C!ToSet(t)
  BY <1>1, <1>2, JoinHolds
<1> QED
  BY <1>1, <1>2, <1>3, <1>4 DEF Within

LEMMA WithinNone == ASSUME NEW Ls PROVE Within(<< >>, Ls)
BY NoSeq DEF Within

LEMMA WithinFlat ==
  ASSUME NEW Ls, NEW n \in Nat, NEW ss, ss = [i \in 1 .. n |-> ss[i]],
         \A i \in 1 .. n : Within(ss[i], Ls)
  PROVE  Within(C!FlattenSeq(ss), Ls)
<1>1. \A i \in 1 .. n : IsSeq(ss[i])
  BY DEF Within
<1>2. PICK flat : /\ flat[0] = << >> /\ C!FlattenSeq(ss) = flat[n]
                  /\ \A m \in 0 .. n - 1 : flat[m + 1] = flat[m] \o ss[m + 1]
  BY <1>1, FlatBy
<1> DEFINE T == {m \in Nat : m <= n => Within(flat[m], Ls)}
<1>3. 0 \in T
  BY <1>2, WithinNone
<1>4. ASSUME NEW m \in T PROVE m + 1 \in T
  <2>1. m \in Nat /\ m + 1 \in Nat
    OBVIOUS
  <2> SUFFICES ASSUME m + 1 <= n PROVE Within(flat[m + 1], Ls)
    BY <2>1
  <2>2. m <= n /\ m \in 0 .. n - 1 /\ m + 1 \in 1 .. n
    BY <2>1
  <2>3. PICK s, t : s = flat[m] /\ t = ss[m + 1]
    OBVIOUS
  <2>4. Within(s, Ls) /\ Within(t, Ls)
    BY <2>2, <2>3
  <2>5. Within(s \o t, Ls)
    BY <2>4, WithinJoin
  <2>6. flat[m + 1] = s \o t
    BY <1>2, <2>2, <2>3
  <2> QED
    BY <2>5, <2>6
<1>5. n \in T
  <2> HIDE DEF T
  <2>1. T \in SUBSET Nat
    BY DEF T
  <2> QED
    BY <1>3, <1>4, <2>1, FromZero
<1> QED
  BY <1>2, <1>5

\* Ls has room for the tables and the arrays of the data.
Holds(Ls, D) ==
  /\ \A x \in DOMAIN D.tables : Within(C!TableLines(x, D.tables[x], "table"), Ls)
  /\ \A x \in DOMAIN D.arrays : \A i \in DOMAIN D.arrays[x] :
       Within(C!TableLines(x, D.arrays[x][i], "array"), Ls)

LEMMA ArrayWithin ==
  ASSUME NEW Ls, NEW D, IsData(D), Holds(Ls, D), NEW x \in DOMAIN D.arrays
  PROVE  Within(C!ArrayLines(D, x), Ls)
<1>1. PICK s, c : s = D.arrays[x] /\ c = Len(s)
  OBVIOUS
<1>2. IsSeq(s)
  BY <1>1 DEF IsData, IsList
<1>3. DOMAIN s = 1 .. c /\ c \in Nat
  BY <1>1, <1>2, SeqDomain
<1>4. PICK ss : ss = [i \in 1 .. c |-> C!TableLines(x, s[i], "array")]
  OBVIOUS
<1>5. ss = [i \in 1 .. c |-> ss[i]] /\ \A i \in 1 .. c : Within(ss[i], Ls)
  BY <1>1, <1>3, <1>4 DEF Holds
<1>6. Within(C!FlattenSeq(ss), Ls)
  BY <1>3, <1>5, WithinFlat
<1>7. C!ArrayLines(D, x) = C!FlattenSeq(ss)
  BY <1>1, <1>3, <1>4 DEF C!ArrayLines
<1> QED
  BY <1>6, <1>7

\* What is written anew begins with the scalars.
LEMMA DumpsWithin ==
  ASSUME NEW Ls, NEW D, IsData(D), Holds(Ls, D)
  PROVE  \E Y : Within(Y, Ls) /\ C!Dumps(D) = C!KeyLines(D.scalars) \o Y
<1>1. PICK F, G, K, X, Y : /\ F = D.tables /\ G = D.arrays
                     /\ K = C!KeyLines(D.scalars) /\ X = C!AllTables(D)
                     /\ Y = C!FlattenSeq([i \in DOMAIN C!SetToSeq(DOMAIN D.arrays) |->
                              C!ArrayLines(D, C!SetToSeq(DOMAIN D.arrays)[i])])
  OBVIOUS
<1>2. C!Dumps(D) = (K \o X) \o Y
  BY <1>1 DEF C!Dumps
<1>3. IsSeq(K)
  BY <1>1, KeyLinesAre DEF KeysOf, IsDoc, IsData, IsMap
<1>4. Within(X, Ls)
  <2>1. PICK s : s = C!SetToSeq(DOMAIN F)
    OBVIOUS
  <2>2. Listing(DOMAIN F, s)
    BY <1>1, <2>1, SetSeq DEF IsData, IsMap
  <2>3. PICK n : n = Len(s)
    OBVIOUS
  <2>4. n \in Nat /\ DOMAIN s = 1 .. n
    BY <2>2, <2>3, SeqDomain DEF Listing
  <2>5. PICK ss : ss = [i \in 1 .. n |-> C!TableLines(s[i], F[s[i]], "table")]
    OBVIOUS
  <2>6. X = C!FlattenSeq(ss)
    BY <1>1, <2>1, <2>4, <2>5 DEF C!AllTables
  <2>7. ss = [i \in 1 .. n |-> ss[i]] /\ \A i \in 1 .. n : Within(ss[i], Ls)
    BY <1>1, <2>2, <2>4, <2>5 DEF Holds, Listing
  <2> QED
    BY <2>4, <2>6, <2>7, WithinFlat
<1>5. Within(Y, Ls)
  <2>1. PICK s : s = C!SetToSeq(DOMAIN G)
    OBVIOUS
  <2>2. Listing(DOMAIN G, s)
    BY <1>1, <2>1, SetSeq DEF IsData, IsMap
  <2>3. PICK n : n = Len(s)
    OBVIOUS
  <2>4. n \in Nat /\ DOMAIN s = 1 .. n
    BY <2>2, <2>3, SeqDomain DEF Listing
  <2>5. PICK ss : ss = [i \in 1 .. n |-> C!ArrayLines(D, s[i])]
    OBVIOUS
  <2>6. Y = C!FlattenSeq(ss)
    BY <1>1, <2>1, <2>4, <2>5
  <2>7. \A i \in 1 .. n : s[i] \in DOMAIN D.arrays
    BY <1>1, <2>2, <2>4 DEF Listing
  <2>8. ss = [i \in 1 .. n |-> ss[i]] /\ \A i \in 1 .. n : Within(ss[i], Ls)
    BY <2>5, <2>7, ArrayWithin
  <2> QED
    BY <2>4, <2>6, <2>8, WithinFlat
<1>6. (K \o X) \o Y = K \o (X \o Y)
  BY <1>3, <1>4, <1>5, JoinThree DEF Within
<1>7. Within(X \o Y, Ls)
  BY <1>4, <1>5, WithinJoin
<1> QED
  BY <1>1, <1>2, <1>6, <1>7

LEMMA NoKeyLines ==
  ASSUME NEW K, K = C!KeyLines(C!Empty)
  PROVE  K = << >>
<1>1. IsFiniteSet(DOMAIN C!Empty)
  <2>1. IsFiniteSet({})
    BY FS_EmptySet
  <2> QED
    BY <2>1, EmptyFn
<1>2. KeysOf(K, C!Empty)
  BY <1>1, KeyLinesAre
<1>3. IsSeq(K) /\ DOMAIN K = {}
  BY <1>2, EmptyFn DEF KeysOf, IsDoc
<1>4. DOMAIN K = 1 .. Len(K) /\ Len(K) \in Nat
  BY <1>3, SeqDomain
<1>5. Len(K) = 0
  BY <1>3, <1>4
<1> QED
  BY <1>3, <1>5, EmptyIs

\* The comments of a document.
Comments(X) == {X[i] : i \in {j \in DOMAIN X : X[j].k = "comment"}}

LEMMA LeadWithin ==
  ASSUME NEW X, IsDoc(X), NEW h \in C!Headers(X), NEW Ls, Comments(X) \subseteq Ls
  PROVE  Within(C!Lead(X, h), Ls)
<1>1. DOMAIN X = 1 .. Len(X) /\ Len(X) \in Nat /\ IsSeq(X)
  BY DocIs
<1>2. CASE h # C!First(X)
  BY <1>2, WithinNone DEF C!Lead
<1>3. CASE h = C!First(X)
  <2>1. PICK a : a = C!HeadEnd(X)
    OBVIOUS
  <2>2. HeadOf(X, a, h)
    BY <1>3, <2>1, HeadIs
  <2>3. PICK m, l : m = h - 1 /\ l = C!Lead(X, h)
    OBVIOUS
  <2>4. /\ a \in Nat /\ m \in Nat /\ a <= m /\ m <= Len(X)
        /\ \A i \in a + 1 .. m : X[i].k = "comment"
    BY <1>1, <2>2, <2>3 DEF HeadOf
  <2>5. l = SubSeq(X, a + 1, m)
    BY <1>3, <2>1, <2>3 DEF C!Lead
  <2>6. IsSeq(l) /\ Len(l) = m - a /\ \A i \in 1 .. m - a : l[i] = X[a + i]
    BY <1>1, <2>4, <2>5, PrefixIs
  <2>7. DOMAIN l = 1 .. m - a
    BY <2>6, SeqDomain
  <2>8. \A i \in 1 .. m - a : a + i \in a + 1 .. m /\ a + i \in DOMAIN X
    BY <1>1, <2>4
  <2>9. ASSUME NEW i \in DOMAIN l PROVE l[i] \in Ls
    <3>1. l[i] = X[a + i] /\ a + i \in DOMAIN X /\ X[a + i].k = "comment"
      BY <2>4, <2>6, <2>7, <2>8
    <3> QED
      BY <3>1 DEF Comments
  <2> QED
    BY <2>3, <2>6, <2>9 DEF Within, C!ToSet
<1> QED
  BY <1>2, <1>3

LEMMA SectionsWithin ==
  ASSUME NEW X, IsDoc(X), NEW D, IsData(D), NEW Ls, Comments(X) \subseteq Ls, Holds(Ls, D)
  PROVE  Within(C!Sections(X, D), Ls)
<1>1. PICK n : n = Len(X)
  OBVIOUS
<1>2. DOMAIN X = 1 .. n /\ n \in Nat
  BY <1>1, DocIs
<1>3. PICK ss : ss = [i \in 1 .. n |-> IF C!IsHeader(X[i]) THEN C!Section(X, D, i) ELSE << >>]
  OBVIOUS
<1>4. C!Sections(X, D) = C!FlattenSeq(ss)
  BY <1>2, <1>3 DEF C!Sections
<1>5. ASSUME NEW i \in 1 .. n PROVE Within(ss[i], Ls)
  <2>1. CASE ~ C!IsHeader(X[i])
    <3>1. ss[i] = << >>
      BY <1>3, <2>1
    <3> QED
      BY <3>1, WithinNone
  <2>2. CASE C!IsHeader(X[i])
    <3>1. i \in C!Headers(X) /\ ss[i] = C!Section(X, D, i)
      BY <1>2, <1>3, <2>2 DEF C!Headers
    <3>2. PICK x, l : x = X[i].n /\ l = C!Lead(X, i)
      OBVIOUS
    <3>3. Within(l, Ls)
      BY <3>1, <3>2, LeadWithin
    <3>4. C!Section(X, D, i) =
            IF x \in DOMAIN D.tables THEN l \o C!TableLines(x, D.tables[x], "table")
            ELSE IF x \in DOMAIN D.arrays /\ ~ Again(X, i) THEN l \o C!ArrayLines(D, x) ELSE << >>
      BY <3>2 DEF C!Section, Again
    <3>5. CASE x \in DOMAIN D.tables
      <4>1. PICK t : t = C!TableLines(x, D.tables[x], "table")
        OBVIOUS
      <4>2. Within(t, Ls)
        BY <3>5, <4>1 DEF Holds
      <4>3. Within(l \o t, Ls)
        BY <3>3, <4>2, WithinJoin
      <4> QED
        BY <3>1, <3>4, <3>5, <4>1, <4>3
    <3>6. CASE x \notin DOMAIN D.tables /\ x \in DOMAIN D.arrays /\ ~ Again(X, i)
      <4>1. PICK t : t = C!ArrayLines(D, x)
        OBVIOUS
      <4>2. Within(t, Ls)
        BY <3>6, <4>1, ArrayWithin
      <4>3. Within(l \o t, Ls)
        BY <3>3, <4>2, WithinJoin
      <4> QED
        BY <3>1, <3>4, <3>6, <4>1, <4>3
    <3>7. CASE x \notin DOMAIN D.tables /\ ~ (x \in DOMAIN D.arrays /\ ~ Again(X, i))
      BY <3>1, <3>4, <3>7, WithinNone
    <3> QED
      BY <3>5, <3>6, <3>7
  <2> QED
    BY <2>1, <2>2
<1>6. ss = [i \in 1 .. n |-> ss[i]]
  BY <1>3
<1>7. Within(C!FlattenSeq(ss), Ls)
  BY <1>2, <1>5, <1>6, WithinFlat
<1> QED
  BY <1>4, <1>7

LEMMA RestIs ==
  ASSUME NEW X, NEW D, IsData(D), NEW R, R = C!Rest(X, D)
  PROVE  /\ IsData(R) /\ R.scalars = C!Empty
         /\ DOMAIN R.tables \subseteq DOMAIN D.tables
         /\ \A x \in DOMAIN R.tables : R.tables[x] = D.tables[x]
         /\ DOMAIN R.arrays \subseteq DOMAIN D.arrays
         /\ \A x \in DOMAIN R.arrays : R.arrays[x] = D.arrays[x]
<1>1. PICK F, G, N : F = D.tables /\ G = D.arrays /\ N = Named(X)
  OBVIOUS
<1>2. R.scalars = C!Empty /\ R.tables = C!Without(F, N) /\ R.arrays = C!Without(G, N)
  BY <1>1 DEF C!Rest, Named
<1>3. PICK Ps, Q : Ps = C!Without(F, N) /\ Q = C!Without(G, N)
  OBVIOUS
<1>4. /\ IsFn(Ps) /\ DOMAIN Ps \subseteq DOMAIN F /\ \A x \in DOMAIN Ps : Ps[x] = F[x]
      /\ IsFn(Q) /\ DOMAIN Q \subseteq DOMAIN G /\ \A x \in DOMAIN Q : Q[x] = G[x]
  BY <1>3 DEF C!Without, IsFn
<1>5. IsMap(F) /\ IsMap(G)
  BY <1>1 DEF IsData
<1>6. IsMap(Ps) /\ IsMap(Q)
  BY <1>4, <1>5, FS_Subset DEF IsMap
<1>7. IsMap(C!Empty)
  <2>1. IsFiniteSet({})
    BY FS_EmptySet
  <2> QED
    BY <2>1, EmptyFn DEF IsMap
<1>8. /\ \A x \in DOMAIN Ps : IsMap(Ps[x])
      /\ \A x \in DOMAIN Q : IsList(Q[x])
      /\ DOMAIN Ps \cap DOMAIN Q = {}
  BY <1>1, <1>4 DEF IsData
<1>9. IsData(R)
  BY <1>2, <1>3, <1>6, <1>7, <1>8, EmptyFn DEF IsData
<1> QED
  BY <1>1, <1>2, <1>3, <1>4, <1>9

LEMMA MergeWithin ==
  ASSUME NEW X, IsDoc(X), NEW D, IsData(D), NEW Ls, Comments(X) \subseteq Ls, Holds(Ls, D)
  PROVE  \E Y : Within(Y, Ls) /\ C!Merge(X, D) = NewHead(X, D) \o Y
<1>1. CASE X = << >>
  <2>1. PICK Y : Within(Y, Ls) /\ C!Dumps(D) = C!KeyLines(D.scalars) \o Y
    BY DumpsWithin
  <2>2. PICK a, S, H : a = C!HeadEnd(X) /\ S = D.scalars /\ H = C!RewriteHead(C!Head1(X), S)
    OBVIOUS
  <2>3. RewrittenAs(X, a, S, H)
    BY <2>2, RewriteIs
  <2>4. a = 0
    <3>1. Len(X) = 0
      BY <1>1, NoSeq
    <3>2. PICK h : HeadOf(X, a, h)
      BY <2>2, HeadIs
    <3> QED
      BY <3>1, <3>2 DEF HeadOf
  <2>5. H = << >>
    <3>1. IsSeq(H) /\ DOMAIN H = 1 .. 0
      BY <2>3, <2>4 DEF RewrittenAs, IsDoc
    <3>2. DOMAIN H = 1 .. Len(H) /\ Len(H) \in Nat
      BY <3>1, SeqDomain
    <3>3. Len(H) = 0
      BY <3>1, <3>2
    <3> QED
      BY <3>1, <3>3, EmptyIs
  <2>6. HeadNames(X, a) = {}
    BY <2>4 DEF HeadNames
  <2>7. C!Without(S, {}) = S
    BY <2>2 DEF C!Without, IsData, IsMap, IsFn
  <2>8. PICK K : K = C!KeyLines(S)
    OBVIOUS
  <2>9. C!NewKeys(X, D) = K
    BY <2>2, <2>6, <2>7, <2>8, WrittenIs DEF C!NewKeys
  <2>10. IsSeq(K)
    BY <2>2, <2>8, KeyLinesAre DEF KeysOf, IsDoc, IsData, IsMap
  <2>11. NewHead(X, D) = K
    BY <2>2, <2>5, <2>9, <2>10, JoinNone DEF NewHead
  <2>12. C!Merge(X, D) = C!Dumps(D)
    BY <1>1 DEF C!Merge
  <2> QED
    BY <2>1, <2>2, <2>8, <2>11, <2>12
<1>2. CASE X # << >>
  <2>1. PICK H, Y, R, Ws : /\ H = NewHead(X, D) /\ Y = C!Sections(X, D)
                          /\ R = C!Rest(X, D) /\ Ws = C!Dumps(R)
    OBVIOUS
  <2>2. C!Merge(X, D) = (H \o Y) \o Ws
    BY <1>2, <2>1 DEF C!Merge, NewHead
  <2>3. Within(Y, Ls)
    BY <2>1, SectionsWithin
  <2>4. IsData(R) /\ R.scalars = C!Empty
    BY <2>1, RestIs
  <2>5. Holds(Ls, R)
    <3>1. /\ DOMAIN R.tables \subseteq DOMAIN D.tables
          /\ \A x \in DOMAIN R.tables : R.tables[x] = D.tables[x]
      BY <2>1, RestIs
    <3>2. /\ DOMAIN R.arrays \subseteq DOMAIN D.arrays
          /\ \A x \in DOMAIN R.arrays : R.arrays[x] = D.arrays[x]
      BY <2>1, RestIs
    <3>3. \A x \in DOMAIN R.tables : Within(C!TableLines(x, R.tables[x], "table"), Ls)
      BY <3>1 DEF Holds
    <3>4. \A x \in DOMAIN R.arrays : \A i \in DOMAIN R.arrays[x] :
            Within(C!TableLines(x, R.arrays[x][i], "array"), Ls)
      BY <3>2 DEF Holds
    <3> QED
      BY <3>3, <3>4 DEF Holds
  <2>6. Within(Ws, Ls)
    <3>1. PICK V : Within(V, Ls) /\ Ws = C!KeyLines(R.scalars) \o V
      BY <2>1, <2>4, <2>5, DumpsWithin
    <3>2. C!KeyLines(R.scalars) = << >>
      BY <2>4, NoKeyLines
    <3>3. IsSeq(V)
      BY <3>1 DEF Within
    <3>4. << >> \o V = V
      BY <3>3, JoinNone
    <3> QED
      BY <3>1, <3>2, <3>4
  <2>7. IsSeq(H)
    <3>1. IsMap(D.scalars)
      BY DEF IsData
    <3>2. PICK a : a = C!HeadEnd(X)
      OBVIOUS
    <3>3. PICK Ps, K : /\ RewrittenAs(X, a, D.scalars, Ps)
                      /\ KeysOf(K, C!Without(D.scalars, HeadNames(X, a)))
                      /\ Joins(Ps, K, H) /\ IsDoc(Ps) /\ IsDoc(K)
      BY <2>1, <3>1, <3>2, NewHeadIs
    <3> QED
      BY <3>3 DEF Joins, IsDoc
  <2>8. (H \o Y) \o Ws = H \o (Y \o Ws)
    BY <2>3, <2>6, <2>7, JoinThree DEF Within
  <2>9. Within(Y \o Ws, Ls)
    BY <2>3, <2>6, WithinJoin
  <2> QED
    BY <2>1, <2>2, <2>8, <2>9
<1> QED
  BY <1>1, <1>2

\* What is merged: the head as it was but for the scalars, the scalars it did
\* not have, and then lines of Ls.
MergedTo(X, a, D, Ls, Z, b) ==
  /\ IsDoc(Z) /\ a \in 0 .. b /\ b \in 0 .. Len(Z)
  /\ \A i \in 1 .. a : /\ Z[i].k = X[i].k /\ Z[i].n = X[i].n
                       /\ Z[i] = IF X[i].k = "key" /\ X[i].n \in DOMAIN D.scalars
                                   THEN C!KeyLine(X[i].n, D.scalars[X[i].n]) ELSE X[i]
  /\ \A i \in a + 1 .. b : \E x \in DOMAIN D.scalars : Z[i] = C!KeyLine(x, D.scalars[x])
  /\ \A i \in 1 .. b : ~ C!IsHeader(Z[i])
  /\ \A i \in b + 1 .. Len(Z) : Z[i] \in Ls
  /\ \A x \in DOMAIN D.scalars : \E i \in 1 .. b : Z[i] = C!KeyLine(x, D.scalars[x])

LEMMA MergeIs ==
  ASSUME NEW X, IsDoc(X), NEW a, a = C!HeadEnd(X), NEW D, IsData(D),
         NEW Ls, Comments(X) \subseteq Ls, Holds(Ls, D), \A l \in Ls : IsLine(l),
         NEW Z, Z = C!Merge(X, D)
  PROVE  \E b : MergedTo(X, a, D, Ls, Z, b)
<1>1. PICK Y : Within(Y, Ls) /\ Z = NewHead(X, D) \o Y
  BY MergeWithin
<1>2. PICK N, S : N = NewHead(X, D) /\ S = D.scalars
  OBVIOUS
<1>3. PICK H, K : /\ RewrittenAs(X, a, S, H) /\ KeysOf(K, C!Without(S, HeadNames(X, a)))
                  /\ Joins(H, K, N) /\ IsDoc(H) /\ IsDoc(K)
  <2>1. IsMap(D.scalars)
    BY DEF IsData
  <2> QED
    BY <1>2, <2>1, NewHeadIs
<1>4. IsDoc(N) /\ IsDoc(Y)
  BY <1>1, <1>3 DEF Joins, Within, IsDoc, C!ToSet
<1>5. PICK b, c, d : b = Len(N) /\ c = Len(K) /\ d = Len(Y)
  OBVIOUS
<1>6. /\ DOMAIN H = 1 .. Len(H) /\ Len(H) \in Nat /\ DOMAIN H = 1 .. a /\ DOMAIN K = 1 .. c /\ c \in Nat
      /\ DOMAIN N = 1 .. b /\ b \in Nat /\ DOMAIN Y = 1 .. d /\ d \in Nat /\ Len(X) \in Nat
  BY <1>3, <1>4, <1>5, DocIs DEF RewrittenAs
<1>7. PICK h : HeadOf(X, a, h)
  BY HeadIs
<1>8. a \in Nat
  BY <1>6, <1>7 DEF HeadOf
<1>9. Len(H) = a
  BY <1>6, <1>8
<1>10. /\ b = a + c
       /\ \A i \in 1 .. a : N[i] = H[i]
       /\ \A j \in 1 .. c : N[a + j] = K[j]
  <2>1. DOMAIN N = 1 .. a + c
    BY <1>3, <1>5, <1>9 DEF Joins
  <2>2. b = a + c
    BY <1>6, <1>8, <2>1
  <2> QED
    BY <1>3, <1>5, <1>9, <2>2 DEF Joins
<1>11. Joins(N, Y, Z) /\ Len(Z) = b + d
  BY <1>1, <1>2, <1>4, <1>5, DocJoins
<1>12. /\ IsDoc(Z)
       /\ \A i \in 1 .. b : Z[i] = N[i]
       /\ \A j \in 1 .. d : Z[b + j] = Y[j]
  BY <1>5, <1>11 DEF Joins
<1>13. a \in 0 .. b /\ b \in 0 .. Len(Z)
  BY <1>6, <1>8, <1>10, <1>11
<1>14. \A i \in 1 .. a : i \in 1 .. b /\ Z[i] = H[i]
  BY <1>6, <1>8, <1>10, <1>12
<1>15. \A i \in 1 .. a : /\ Z[i].k = X[i].k /\ Z[i].n = X[i].n
                         /\ Z[i] = IF X[i].k = "key" /\ X[i].n \in DOMAIN S
                                     THEN C!KeyLine(X[i].n, S[X[i].n]) ELSE X[i]
  BY <1>3, <1>14 DEF RewrittenAs
<1>16. PICK f : f = C!Without(S, HeadNames(X, a))
  OBVIOUS
<1>17. DOMAIN f = DOMAIN S \ HeadNames(X, a) /\ \A x \in DOMAIN f : f[x] = S[x]
  BY <1>16 DEF C!Without
<1>18. ASSUME NEW j \in 1 .. c
       PROVE  /\ a + j \in 1 .. b /\ Z[a + j] = K[j] /\ K[j].n \in DOMAIN f
              /\ K[j] = C!KeyLine(K[j].n, S[K[j].n])
  <2>1. a + j \in 1 .. b
    BY <1>6, <1>8, <1>10
  <2>2. Z[a + j] = K[j]
    BY <1>10, <1>12, <2>1
  <2>3. K[j].k = "key" /\ K[j].n \in DOMAIN f /\ K[j].v = f[K[j].n] /\ IsLine(K[j])
    BY <1>3, <1>6, <1>16 DEF KeysOf, IsDoc
  <2>4. K[j] = C!KeyLine(K[j].n, S[K[j].n])
    BY <1>17, <2>3 DEF IsLine, C!KeyLine
  <2> QED
    BY <2>1, <2>2, <2>3, <2>4
<1>19. ASSUME NEW i \in a + 1 .. b PROVE \E x \in DOMAIN S : Z[i] = C!KeyLine(x, S[x])
  <2>1. PICK j : j = i - a
    OBVIOUS
  <2>2. j \in 1 .. c /\ a + j = i
    BY <1>6, <1>8, <1>10, <2>1
  <2>3. Z[i] = C!KeyLine(K[j].n, S[K[j].n]) /\ K[j].n \in DOMAIN S
    BY <1>17, <1>18, <2>2
  <2> QED
    BY <2>3
<1>20. ASSUME NEW i \in 1 .. b PROVE ~ C!IsHeader(Z[i])
  <2>1. CASE i \in 1 .. a
    <3>1. i \in 1 .. h - 1
      BY <1>6, <1>7, <2>1 DEF HeadOf
    <3>2. ~ C!IsHeader(X[i])
      BY <1>7, <3>1 DEF HeadOf
    <3> QED
      BY <1>15, <2>1, <3>2 DEF C!IsHeader
  <2>2. CASE i \notin 1 .. a
    <3>1. i \in a + 1 .. b
      BY <1>6, <1>8, <2>2
    <3>2. PICK x : Z[i] = C!KeyLine(x, S[x])
      BY <1>19, <3>1
    <3> QED
      BY <3>2 DEF C!KeyLine, C!Line, C!IsHeader
  <2> QED
    BY <2>1, <2>2
<1>21. ASSUME NEW i \in b + 1 .. Len(Z) PROVE Z[i] \in Ls
  <2>1. PICK j : j = i - b
    OBVIOUS
  <2>2. j \in 1 .. d /\ b + j = i
    BY <1>6, <1>11, <2>1
  <2>3. Z[i] = Y[j]
    BY <1>12, <2>2
  <2> QED
    BY <1>1, <1>6, <2>2, <2>3 DEF Within, C!ToSet
<1>22. ASSUME NEW x \in DOMAIN S PROVE \E i \in 1 .. b : Z[i] = C!KeyLine(x, S[x])
  <2>1. CASE x \in HeadNames(X, a)
    <3>1. PICK i \in 1 .. a : X[i].k = "key" /\ x = X[i].n
      BY <2>1 DEF HeadNames
    <3>2. Z[i] = C!KeyLine(x, S[x])
      BY <1>15, <3>1
    <3> QED
      BY <1>14, <3>2
  <2>2. CASE x \notin HeadNames(X, a)
    <3>1. x \in DOMAIN f
      BY <1>17, <2>2
    <3>2. PICK j \in 1 .. c : K[j].n = x
      BY <1>3, <1>6, <1>16, <3>1 DEF KeysOf
    <3> QED
      BY <1>18, <3>2
  <2> QED
    BY <2>1, <2>2
<1>23. MergedTo(X, a, D, Ls, Z, b)
  BY <1>2, <1>12, <1>13, <1>15, <1>19, <1>20, <1>21, <1>22 DEF MergedTo
<1> QED
  BY <1>23

-----------------------------------------------------------------------------
(* The settings.                                                           *)

KeyNames == {"theme", "future", "quit", "x"}
SettingsLine(l) ==
  /\ IsLine(l) /\ l.k # "array"
  /\ l.k = "key" => l.n \in KeyNames
SettingsDoc(X) == IsDoc(X) /\ \A i \in DOMAIN X : SettingsLine(X[i])
SettingsShape(s) ==
  /\ s = [theme |-> s.theme, keymap |-> s.keymap]
  /\ s.theme \in Theme /\ IsFn(s.keymap) /\ DOMAIN s.keymap \subseteq KeyNames

LEMMA KeyNamesFinite == ASSUME NEW S, S \subseteq KeyNames PROVE IsFiniteSet(S)
<1>1. IsFiniteSet({"theme"}) /\ IsFiniteSet({"future"}) /\ IsFiniteSet({"quit"}) /\ IsFiniteSet({"x"})
  BY FS_Singleton
<1>2. IsFiniteSet({"theme"} \cup {"future"}) /\ IsFiniteSet({"quit"} \cup {"x"})
  BY <1>1, FS_Union
<1>3. IsFiniteSet(({"theme"} \cup {"future"}) \cup ({"quit"} \cup {"x"}))
  BY <1>2, FS_Union
<1>4. KeyNames = ({"theme"} \cup {"future"}) \cup ({"quit"} \cup {"x"})
  BY DEF KeyNames
<1> QED
  BY <1>3, <1>4, FS_Subset

LEMMA BodyShape ==
  ASSUME NEW X, SettingsDoc(X), NEW h, NEW f, f = C!Body(X, h)
  PROVE  IsFn(f) /\ DOMAIN f \subseteq KeyNames
<1>1. DOMAIN f = C!NamedBy(X, C!KeysUnder(X, h)) /\ IsFn(f)
  BY DEF C!Body, IsFn
<1>2. ASSUME NEW n \in DOMAIN f PROVE n \in KeyNames
  <2>1. PICK i \in C!KeysUnder(X, h) : n = X[i].n
    BY <1>1 DEF C!NamedBy
  <2>2. i \in DOMAIN X /\ X[i].k = "key"
    BY DEF C!KeysUnder
  <2> QED
    BY <2>1, <2>2 DEF SettingsDoc, SettingsLine
<1> QED
  BY <1>1, <1>2

LEMMA LoadShape ==
  ASSUME C!DefaultAssumption, NEW X, SettingsDoc(X), NEW s, s = C!LoadSettings(X)
  PROVE  SettingsShape(s)
<1>1. PICK D, theme, t, m :
        /\ D = C!Parse(X)
        /\ theme = IF "theme" \in DOMAIN D.scalars THEN D.scalars["theme"] ELSE Default
        /\ t = IF theme \in Theme THEN theme ELSE Default
        /\ m = IF "keymap" \in DOMAIN D.tables THEN D.tables["keymap"] ELSE C!Empty
  OBVIOUS
<1>2. s = [theme |-> t, keymap |-> m]
  BY <1>1 DEF C!LoadSettings
<1>3. t \in Theme
  BY <1>1 DEF C!DefaultAssumption
<1>4. IsFn(m) /\ DOMAIN m \subseteq KeyNames
  <2>1. CASE "keymap" \notin DOMAIN D.tables
    BY <1>1, <2>1, EmptyFn
  <2>2. CASE "keymap" \in DOMAIN D.tables
    <3>1. C!Valid(X)
      <4> SUFFICES ASSUME ~ C!Valid(X) PROVE FALSE
        OBVIOUS
      <4>1. D = C!NoTables
        BY <1>1 DEF C!Parse
      <4>2. D.tables = C!Empty
        BY <4>1 DEF C!NoTables
      <4> QED
        BY <2>2, <4>2, EmptyFn
    <3>2. D.tables = C!Tables(X)
      BY <1>1, <3>1 DEF C!Parse
    <3>3. PICK h : m = C!Body(X, h)
      BY <1>1, <2>2, <3>2 DEF C!Tables
    <3> QED
      BY <3>3, BodyShape
  <2> QED
    BY <2>1, <2>2
<1> QED
  BY <1>2, <1>3, <1>4 DEF SettingsShape

LEMMA SettingsDataIs ==
  ASSUME NEW s, SettingsShape(s), NEW D, D = C!SettingsData(s)
  PROVE  /\ IsData(D) /\ DOMAIN D.scalars = {"theme"} /\ D.scalars["theme"] = s.theme
         /\ DOMAIN D.tables = {"keymap"} /\ D.tables["keymap"] = s.keymap
         /\ D.arrays = C!Empty
<1>1. PICK S, T : S = [n \in {"theme"} |-> s.theme] /\ T = [n \in {"keymap"} |-> s.keymap]
  OBVIOUS
<1>2. D.scalars = S /\ D.tables = T /\ D.arrays = C!Empty
  BY <1>1 DEF C!SettingsData
<1>3. IsFiniteSet({"theme"}) /\ IsFiniteSet({"keymap"}) /\ IsFiniteSet({})
  BY FS_Singleton, FS_EmptySet
<1>4. IsMap(S) /\ IsMap(T)
  BY <1>1, <1>3 DEF IsMap, IsFn
<1>5. IsMap(C!Empty)
  BY <1>3, EmptyFn DEF IsMap
<1>6. \A x \in DOMAIN T : IsMap(T[x])
  <2>1. IsMap(s.keymap)
    BY KeyNamesFinite DEF IsMap, SettingsShape
  <2> QED
    BY <1>1, <2>1
<1>7. /\ DOMAIN S \cap (DOMAIN T \cup DOMAIN C!Empty) = {}
      /\ DOMAIN T \cap DOMAIN C!Empty = {}
      /\ \A x \in DOMAIN C!Empty : IsList(C!Empty[x])
  BY <1>1, EmptyFn
<1>8. IsData(D)
  BY <1>2, <1>4, <1>5, <1>6, <1>7 DEF IsData
<1> QED
  BY <1>1, <1>2, <1>8

\* What the settings write over their document.
LEMMA SettingsMerged ==
  ASSUME NEW X, SettingsDoc(X), NEW s, SettingsShape(s), NEW D, D = C!SettingsData(s),
         NEW Z, Z = C!Merge(X, D), NEW a, a = C!HeadEnd(X)
  PROVE  SettingsDoc(Z) /\ \E Ls, b : MergedTo(X, a, D, Ls, Z, b)
<1>1. /\ IsData(D) /\ DOMAIN D.scalars = {"theme"}
      /\ DOMAIN D.tables = {"keymap"} /\ D.tables["keymap"] = s.keymap
      /\ D.arrays = C!Empty
  BY SettingsDataIs
<1>2. PICK Ws, f, kind, x : Ws = C!TableLines(x, f, kind) /\ f = s.keymap /\ kind = "table" /\ x = "keymap"
  OBVIOUS
<1>3. IsFiniteSet(DOMAIN f) /\ kind \in {"table", "array"}
  BY <1>2, KeyNamesFinite DEF SettingsShape
<1>4. TableOf(Ws, x, kind, f)
  BY <1>2, <1>3, TableLinesAre
<1>5. SettingsDoc(Ws)
  <2>1. ASSUME NEW i \in DOMAIN Ws PROVE SettingsLine(Ws[i])
    <3>1. IsLine(Ws[i])
      BY <1>4 DEF TableOf, IsDoc
    <3>2. CASE i = 1
      <4>1. Ws[i].k = "table"
        BY <1>2, <1>4, <3>2 DEF TableOf
      <4> QED
        BY <3>1, <4>1 DEF SettingsLine
    <3>3. CASE i # 1
      <4>1. Ws[i].k = "key" /\ Ws[i].n \in DOMAIN f
        BY <1>4, <3>3 DEF TableOf
      <4> QED
        BY <1>2, <3>1, <4>1 DEF SettingsLine, SettingsShape
    <3> QED
      BY <3>2, <3>3
  <2> QED
    BY <1>4, <2>1 DEF TableOf, SettingsDoc
<1>6. PICK Ls : Ls = Comments(X) \cup C!ToSet(Ws)
  OBVIOUS
<1>7. \A l \in Ls : SettingsLine(l)
  <2>1. \A l \in Comments(X) : SettingsLine(l)
    BY DEF Comments, SettingsDoc
  <2>2. \A l \in C!ToSet(Ws) : SettingsLine(l)
    BY <1>5 DEF C!ToSet, SettingsDoc
  <2> QED
    BY <1>6, <2>1, <2>2
<1>8. Holds(Ls, D)
  <2>1. Within(Ws, Ls)
    BY <1>5, <1>6 DEF Within, SettingsDoc, IsDoc
  <2> QED
    BY <1>1, <1>2, <2>1, EmptyFn DEF Holds
<1>9. PICK b : MergedTo(X, a, D, Ls, Z, b)
  <2>1. \A l \in Ls : IsLine(l)
    BY <1>7 DEF SettingsLine
  <2>2. IsDoc(X) /\ Comments(X) \subseteq Ls
    BY <1>6 DEF SettingsDoc
  <2> QED
    BY <1>1, <1>8, <2>1, <2>2, MergeIs
<1>10. DOMAIN Z = 1 .. Len(Z) /\ Len(Z) \in Nat /\ IsDoc(Z)
  BY <1>9, DocIs DEF MergedTo
<1>11. a \in 0 .. b /\ b \in 0 .. Len(Z)
  BY <1>9 DEF MergedTo
<1>12. ASSUME NEW i \in DOMAIN Z PROVE SettingsLine(Z[i])
  <2>1. IsLine(Z[i])
    BY <1>10 DEF IsDoc
  <2>2. CASE i \in 1 .. a
    <3>1. Z[i].k = X[i].k /\ Z[i].n = X[i].n
      BY <1>9, <2>2 DEF MergedTo
    <3>2. i \in DOMAIN X
      <4>1. PICK h : HeadOf(X, a, h)
        BY HeadIs DEF SettingsDoc
      <4>2. DOMAIN X = 1 .. Len(X) /\ Len(X) \in Nat
        BY DocIs DEF SettingsDoc
      <4> QED
        BY <2>2, <4>1, <4>2 DEF HeadOf
    <3> QED
      BY <2>1, <3>1, <3>2 DEF SettingsDoc, SettingsLine
  <2>3. CASE i \in a + 1 .. b
    <3>1. PICK n \in DOMAIN D.scalars : Z[i] = C!KeyLine(n, D.scalars[n])
      BY <1>9, <2>3 DEF MergedTo
    <3>2. Z[i].k = "key" /\ Z[i].n = "theme"
      BY <1>1, <3>1 DEF C!KeyLine, C!Line
    <3> QED
      BY <2>1, <3>2 DEF SettingsLine, KeyNames
  <2>4. CASE i \in b + 1 .. Len(Z)
    BY <1>7, <1>9, <2>4 DEF MergedTo
  <2>5. i \in 1 .. a \/ i \in a + 1 .. b \/ i \in b + 1 .. Len(Z)
    BY <1>10, <1>11
  <2> QED
    BY <2>2, <2>3, <2>4, <2>5
<1> QED
  BY <1>9, <1>10, <1>12 DEF SettingsDoc

LEMMA SettingsTold ==
  ASSUME NEW X, SettingsDoc(X), C!Valid(X), NEW s, SettingsShape(s), NEW D, D = C!SettingsData(s),
         NEW Z, Z = C!Merge(X, D)
  PROVE  C!Valid(Z) /\ C!LoadSettings(Z) = s
<1>1. /\ IsData(D) /\ DOMAIN D.scalars = {"theme"} /\ D.scalars["theme"] = s.theme
      /\ DOMAIN D.tables = {"keymap"} /\ D.tables["keymap"] = s.keymap
      /\ D.arrays = C!Empty
  BY SettingsDataIs
<1>2. IsDoc(X) /\ DOMAIN X = 1 .. Len(X) /\ Len(X) \in Nat
  BY DocIs DEF SettingsDoc
<1>3. \A h \in DOMAIN X : X[h].k = "array" => X[h].n \notin DOMAIN D.tables
  BY DEF SettingsDoc, SettingsLine
<1>4. PICK a : a = C!HeadEnd(X)
  OBVIOUS
<1>5. HeadNames(X, a) \subseteq KeyNames
  <2>1. PICK h : HeadOf(X, a, h)
    BY <1>2, <1>4, HeadIs
  <2>2. \A i \in 1 .. a : i \in DOMAIN X
    BY <1>2, <2>1 DEF HeadOf
  <2> QED
    BY <2>2 DEF HeadNames, SettingsDoc, SettingsLine
<1>6. HeadNames(X, a) \cap (DOMAIN D.tables \cup DOMAIN D.arrays) = {}
  BY <1>1, <1>5, EmptyFn DEF KeyNames
<1>7. Tells(Z, D)
  BY <1>1, <1>2, <1>3, <1>4, <1>6, MergeReads
<1>8. PICK S : Reads(Z, S, D.tables, D.arrays) /\ \A x \in DOMAIN D.scalars : x \in DOMAIN S /\ S[x] = D.scalars[x]
  BY <1>7 DEF Tells
<1>9. PICK E : E = C!Parse(Z)
  OBVIOUS
<1>10. C!Valid(Z) /\ E.scalars = S /\ E.tables = D.tables
  BY <1>8, <1>9, ReadsParse
<1>11. "theme" \in DOMAIN E.scalars /\ E.scalars["theme"] = s.theme /\ s.theme \in Theme
  BY <1>1, <1>8, <1>10 DEF SettingsShape
<1>12. "keymap" \in DOMAIN E.tables /\ E.tables["keymap"] = s.keymap
  BY <1>1, <1>10
<1>13. C!LoadSettings(Z) = [theme |-> s.theme, keymap |-> s.keymap]
  BY <1>9, <1>11, <1>12 DEF C!LoadSettings
<1> QED
  BY <1>10, <1>13 DEF SettingsShape

\* u is s from c to b.
Piece(s, c, b, u) ==
  Within(u, C!ToSet(s)) /\ Len(u) = b - c + 1 /\ \A i \in 1 .. b - c + 1 : u[i] = s[c - 1 + i]

LEMMA PieceWithin ==
  ASSUME NEW s, IsSeq(s), NEW c \in Nat, c # 0, NEW b \in Nat, c <= b + 1, b <= Len(s),
         NEW u, u = SubSeq(s, c, b)
  PROVE  Piece(s, c, b, u)
<1>1. PICK a : a = c - 1
  OBVIOUS
<1>2. a \in Nat /\ a + 1 = c /\ a <= b /\ b - a = b - c + 1
  BY <1>1
<1>3. /\ IsSeq(SubSeq(s, a + 1, b)) /\ Len(SubSeq(s, a + 1, b)) = b - a
      /\ \A i \in 1 .. b - a : SubSeq(s, a + 1, b)[i] = s[a + i]
  BY <1>2, PrefixIs
<1>4. IsSeq(u) /\ Len(u) = b - a /\ \A i \in 1 .. b - a : u[i] = s[a + i]
  BY <1>2, <1>3
<1>5. DOMAIN u = 1 .. b - a /\ DOMAIN s = 1 .. Len(s) /\ Len(s) \in Nat
  BY <1>4, SeqDomain
<1>6. \A i \in 1 .. b - a : a + i \in DOMAIN s
  BY <1>2, <1>5
<1>7. C!ToSet(u) \subseteq C!ToSet(s)
  BY <1>4, <1>5, <1>6 DEF C!ToSet
<1> QED
  BY <1>1, <1>2, <1>4, <1>7 DEF Within, Piece

LEMMA WithinMore ==
  ASSUME NEW s, NEW Ls, Within(s, Ls), NEW M, Ls \subseteq M
  PROVE  Within(s, M)
BY DEF Within

LEMMA OneWithin == ASSUME NEW e, NEW Ls, e \in Ls PROVE Within(<< e >>, Ls)
<1>1. PICK s : s = << e >>
  OBVIOUS
<1>2. IsSeq(s) /\ DOMAIN s = {1} /\ s[1] = e
  BY <1>1, OneSeq
<1>3. C!ToSet(s) \subseteq Ls
  BY <1>2 DEF C!ToSet
<1> QED
  BY <1>1, <1>2, <1>3 DEF Within

LEMMA TwoSeq ==
  ASSUME NEW e, NEW f, NEW w, w = << e, f >>
  PROVE  w = [i \in 1 .. 2 |-> w[i]] /\ DOMAIN w = 1 .. 2 /\ w[1] = e /\ w[2] = f
<1>1. w = [i \in 1 .. 2 |-> w[i]]
  OBVIOUS
<1>2. DOMAIN w = 1 .. 2 /\ w[1] = e /\ w[2] = f
  OBVIOUS
<1> QED
  BY <1>1, <1>2

LEMMA TwoWithin ==
  ASSUME NEW e, NEW f, NEW w, w = << e, f >>, NEW Ls, e \in Ls, f \in Ls
  PROVE  Within(w, Ls)
<1>1. w = [i \in 1 .. 2 |-> w[i]] /\ DOMAIN w = 1 .. 2 /\ w[1] = e /\ w[2] = f
  BY TwoSeq
<1>2. PICK n \in Nat : n = 2
  OBVIOUS
<1>3. w = [i \in 1 .. n |-> w[i]]
  BY <1>1, <1>2
<1>4. IsSeq(w)
  BY <1>2, <1>3, SeqOver
<1>5. 1 .. 2 = {1, 2}
  OBVIOUS
<1>6. \A i \in DOMAIN w : w[i] \in Ls
  BY <1>1, <1>5
<1> QED
  BY <1>4, <1>6 DEF Within, C!ToSet

LEMMA RemoveWithin ==
  ASSUME NEW s, IsSeq(s), NEW i \in DOMAIN s
  PROVE  Within(C!RemoveAt(s, i), C!ToSet(s))
<1>1. DOMAIN s = 1 .. Len(s) /\ Len(s) \in Nat
  BY SeqDomain
<1>2. PICK u, v, k, m, n : /\ u = SubSeq(s, 1, k) /\ v = SubSeq(s, m, n)
                        /\ k = i - 1 /\ m = i + 1 /\ n = Len(s)
  OBVIOUS
<1>3. /\ k \in Nat /\ 1 <= k + 1 /\ k <= Len(s)
      /\ m \in Nat /\ m # 0 /\ n \in Nat /\ m <= n + 1 /\ n <= Len(s) /\ 1 \in Nat /\ 1 # 0
  BY <1>1, <1>2
<1>4. Within(u, C!ToSet(s)) /\ Within(v, C!ToSet(s))
  BY <1>2, <1>3, PieceWithin DEF Piece
<1>5. C!RemoveAt(s, i) = u \o v
  BY <1>2 DEF C!RemoveAt
<1> QED
  BY <1>4, <1>5, WithinJoin

LEMMA InsertWithin ==
  ASSUME NEW s, IsSeq(s), NEW i \in 1 .. Len(s) + 1, NEW e, NEW Ls, C!ToSet(s) \subseteq Ls, e \in Ls
  PROVE  Within(C!InsertAt(s, i, e), Ls)
<1>1. Len(s) \in Nat
  BY SeqDomain
<1>2. PICK u, v, w, k, n : /\ u = SubSeq(s, 1, k) /\ v = SubSeq(s, i, n) /\ w = << e >>
                           /\ k = i - 1 /\ n = Len(s)
  OBVIOUS
<1>3. /\ k \in Nat /\ 1 <= k + 1 /\ k <= Len(s)
      /\ i \in Nat /\ i # 0 /\ n \in Nat /\ i <= n + 1 /\ n <= Len(s) /\ 1 \in Nat /\ 1 # 0
  BY <1>1, <1>2
<1>4. Within(u, C!ToSet(s)) /\ Within(v, C!ToSet(s))
  BY <1>2, <1>3, PieceWithin DEF Piece
<1>5. Within(u, Ls) /\ Within(v, Ls) /\ Within(w, Ls)
  BY <1>2, <1>4, WithinMore, OneWithin
<1>6. C!InsertAt(s, i, e) = (u \o w) \o v
  BY <1>2 DEF C!InsertAt
<1>7. PICK x : x = u \o w
  OBVIOUS
<1>8. Within(x, Ls)
  BY <1>5, <1>7, WithinJoin
<1> QED
  BY <1>5, <1>6, <1>7, <1>8, WithinJoin

LEMMA SettingsWithin ==
  ASSUME NEW X, NEW Ls, Within(X, Ls), \A l \in Ls : SettingsLine(l)
  PROVE  SettingsDoc(X)
BY DEF Within, C!ToSet, SettingsDoc, SettingsLine, IsDoc

LEMMA SettingsKept ==
  ASSUME NEW X, SettingsDoc(X)
  PROVE  IsSeq(X) /\ \A l \in C!ToSet(X) : SettingsLine(l)
BY DEF C!ToSet, SettingsDoc, IsDoc

\* An edit by hand leaves lines of the known kinds.
LEMMA EditedDoc ==
  ASSUME SettingsDoc(document), C!HandEdit
  PROVE  SettingsDoc(document')
<1>1. PICK X, Y : X = document /\ Y = document'
  OBVIOUS
<1>2. SettingsDoc(X) /\ DOMAIN X = 1 .. Len(X) /\ Len(X) \in Nat /\ IsSeq(X)
  BY <1>1, DocIs DEF SettingsDoc
<1>3. \A l \in C!ToSet(X) : SettingsLine(l)
  BY <1>2, SettingsKept
<1>4. \/ \E i \in DOMAIN X : \E v : Y = [X EXCEPT ![i].v = v]
      \/ \E i \in DOMAIN X : Y = C!RemoveAt(X, i)
      \/ \E i \in 1 .. Len(X) + 1 : Y = C!InsertAt(X, i, C!Comment("note"))
      \/ \E i \in 1 .. Len(X) + 1 : Y = C!InsertAt(X, i, C!KeyLine("future", "x"))
      \/ Y = X \o << C!Line("table", "future_table", ""), C!KeyLine("x", "x") >>
  BY <1>1 DEF C!HandEdit
<1>5. CASE \E i \in DOMAIN X : \E v : Y = [X EXCEPT ![i].v = v]
  <2>0. PICK i \in DOMAIN X : \E v : Y = [X EXCEPT ![i].v = v]
    BY <1>5
  <2>1. PICK v : Y = [X EXCEPT ![i].v = v]
    BY <2>0
  <2>2. PICK l, e : l = X[i] /\ e = [l EXCEPT !.v = v]
    OBVIOUS
  <2>3. SettingsLine(l)
    BY <1>2, <2>2 DEF SettingsDoc
  <2>4. e = C!Line(l.k, l.n, v)
    BY <2>2, <2>3 DEF SettingsLine, IsLine, C!Line
  <2>5. e.k = l.k /\ e.n = l.n /\ e.v = v
    BY <2>4 DEF C!Line
  <2>6. SettingsLine(e)
    BY <2>3, <2>4, <2>5 DEF SettingsLine, IsLine
  <2>7. DOMAIN Y = DOMAIN X /\ Y[i] = e /\ \A j \in DOMAIN X : j # i => Y[j] = X[j]
    BY <2>1, <2>2
  <2>8. IsSeq(Y)
    <3>1. X = [j \in 1 .. Len(X) |-> X[j]]
      BY <1>2, LenProperties DEF IsSeq
    <3>2. Y = [j \in 1 .. Len(X) |-> Y[j]]
      BY <1>2, <2>1, <3>1
    <3> QED
      BY <1>2, <3>2, SeqOver
  <2>9. \A j \in DOMAIN Y : SettingsLine(Y[j])
    BY <1>2, <2>6, <2>7 DEF SettingsDoc
  <2>10. SettingsDoc(Y)
    BY <2>8, <2>9 DEF SettingsDoc, SettingsLine, IsDoc
  <2> QED
    BY <1>1, <2>10
<1>6. CASE \E i \in DOMAIN X : Y = C!RemoveAt(X, i)
  <2>1. Within(Y, C!ToSet(X))
    BY <1>2, <1>6, RemoveWithin
  <2> QED
    BY <1>1, <1>3, <2>1, SettingsWithin
<1>7. ASSUME NEW i \in 1 .. Len(X) + 1, NEW e, SettingsLine(e), Y = C!InsertAt(X, i, e)
      PROVE  SettingsDoc(Y)
  <2>1. PICK Ls : Ls = C!ToSet(X) \cup {e}
    OBVIOUS
  <2>2. C!ToSet(X) \subseteq Ls /\ e \in Ls /\ \A l \in Ls : SettingsLine(l)
    BY <1>3, <1>7, <2>1
  <2>3. Within(Y, Ls)
    BY <1>2, <1>7, <2>2, InsertWithin
  <2> QED
    BY <2>2, <2>3, SettingsWithin
<1>8. CASE \E i \in 1 .. Len(X) + 1 : Y = C!InsertAt(X, i, C!Comment("note"))
  <2>1. PICK e : e = C!Comment("note")
    OBVIOUS
  <2>2. e = C!Line("comment", "note", "")
    BY <2>1 DEF C!Comment
  <2>3. e.k = "comment" /\ e.n = "note" /\ e.v = ""
    BY <2>2 DEF C!Line
  <2>4. SettingsLine(e)
    BY <2>2, <2>3 DEF SettingsLine, IsLine
  <2>5. PICK i \in 1 .. Len(X) + 1 : Y = C!InsertAt(X, i, e)
    BY <1>8, <2>1
  <2>6. SettingsDoc(Y)
    BY <1>7, <2>4, <2>5
  <2> QED
    BY <1>1, <2>6
<1>9. CASE \E i \in 1 .. Len(X) + 1 : Y = C!InsertAt(X, i, C!KeyLine("future", "x"))
  <2>1. PICK e : e = C!KeyLine("future", "x")
    OBVIOUS
  <2>2. e = C!Line("key", "future", "x")
    BY <2>1 DEF C!KeyLine
  <2>3. IsLine(e) /\ e.k = "key" /\ e.n = "future"
    BY <2>2, LineIs
  <2>4. SettingsLine(e)
    BY <2>3 DEF SettingsLine, KeyNames
  <2>5. PICK i \in 1 .. Len(X) + 1 : Y = C!InsertAt(X, i, e)
    BY <1>9, <2>1
  <2>6. SettingsDoc(Y)
    BY <1>7, <2>4, <2>5
  <2> QED
    BY <1>1, <2>6
<1>10. CASE Y = X \o << C!Line("table", "future_table", ""), C!KeyLine("x", "x") >>
  <2>1. PICK e, f, w : /\ e = C!Line("table", "future_table", "") /\ f = C!KeyLine("x", "x")
                       /\ w = << e, f >>
    OBVIOUS
  <2>2. f = C!Line("key", "x", "x")
    BY <2>1 DEF C!KeyLine
  <2>3. e.k = "table" /\ e.n = "future_table" /\ e.v = ""
    BY <2>1 DEF C!Line
  <2>11. f.k = "key" /\ f.n = "x" /\ f.v = "x"
    BY <2>2 DEF C!Line
  <2>12. SettingsLine(e)
    BY <2>1, <2>3 DEF SettingsLine, IsLine
  <2>4. SettingsLine(e) /\ SettingsLine(f)
    BY <2>2, <2>11, <2>12 DEF SettingsLine, IsLine, KeyNames
  <2>5. PICK Ls : Ls = C!ToSet(X) \cup {e, f}
    OBVIOUS
  <2>6. Within(w, Ls)
    <3>1. e \in Ls /\ f \in Ls /\ w = << e, f >>
      BY <2>1, <2>5
    <3> QED
      BY <3>1, TwoWithin
  <2>7. Within(X, Ls)
    BY <1>2, <2>5 DEF Within
  <2>8. Within(Y, Ls)
    BY <1>10, <2>1, <2>6, <2>7, WithinJoin
  <2>9. \A l \in Ls : SettingsLine(l)
    BY <1>3, <2>4, <2>5
  <2>10. SettingsDoc(Y)
    BY <2>8, <2>9, SettingsWithin
  <2> QED
    BY <1>1, <2>10
<1> QED
  BY <1>4, <1>5, <1>6, <1>8, <1>9, <1>10

\* A document that breaks off.
LEMMA PrefixReads ==
  ASSUME NEW X, SettingsDoc(X), C!Valid(X), NEW n \in 0 .. Len(X), NEW Y, Y = SubSeq(X, 1, n)
  PROVE  SettingsDoc(Y) /\ C!Valid(Y)
<1>1. IsSeq(X) /\ DOMAIN X = 1 .. Len(X) /\ Len(X) \in Nat
  BY DocIs DEF SettingsDoc
<1>2. PICK c : c = 1
  OBVIOUS
<1>3. n \in Nat /\ c <= n + 1 /\ n <= Len(X) /\ c \in Nat /\ c # 0 /\ n - c + 1 = n /\ c - 1 = 0
  BY <1>1, <1>2
<1>9. Within(Y, C!ToSet(X)) /\ Len(Y) = n - c + 1 /\ \A i \in 1 .. n - c + 1 : Y[i] = X[c - 1 + i]
  <2>1. Y = SubSeq(X, c, n)
    BY <1>2
  <2>2. Piece(X, c, n, Y)
    BY <1>1, <1>3, <2>1, PieceWithin
  <2> QED
    BY <2>2 DEF Piece
<1>4. SettingsDoc(Y)
  BY <1>9, SettingsKept, SettingsWithin
<1>5. DOMAIN Y = 1 .. n /\ \A i \in 1 .. n : Y[i] = X[i]
  <2>1. DOMAIN Y = 1 .. n
    BY <1>3, <1>9, SeqDomain DEF Within
  <2>2. \A i \in 1 .. n : c - 1 + i = i
    BY <1>3
  <2> QED
    BY <1>3, <1>9, <2>1, <2>2
<1>6. ASSUME NEW i \in 1 .. n PROVE C!Under(Y, i) = C!Under(X, i)
  <2>1. i \in Nat /\ \A h \in 1 .. i : h \in 1 .. n
    BY <1>3
  <2>2. Heads(X, i, C!Under(X, i))
    BY <2>1, UnderIs
  <2>3. PICK u : u = C!Under(X, i)
    OBVIOUS
  <2>4. u \in 0 .. i /\ (u # 0 => u \in 1 .. i) /\ \A h \in u + 1 .. i : h \in 1 .. i
    BY <2>1, <2>2, <2>3 DEF Heads
  <2>5. Heads(Y, i, u)
    BY <1>5, <2>1, <2>2, <2>3, <2>4 DEF Heads
  <2> QED
    BY <2>1, <2>3, <2>5, UnderIs
<1>7. \A i \in 1 .. n : i \in DOMAIN X
  BY <1>1, <1>3
<1>8. C!Valid(Y)
  BY <1>5, <1>6, <1>7 DEF C!Valid
<1> QED
  BY <1>4, <1>8

-----------------------------------------------------------------------------
(* The settings and their document, through every action.                  *)

SettingsInv ==
  /\ SettingsDoc(document) /\ C!Valid(document) /\ SettingsShape(settings)
  /\ ~ unseen => C!LoadSettings(document) = settings

LEMMA NoDoc == SettingsDoc(<< >>) /\ C!Valid(<< >>)
<1>1. PICK s : s = << >>
  OBVIOUS
<1>2. IsSeq(s) /\ DOMAIN s = {}
  BY <1>1, NoSeq
<1>3. SettingsDoc(s)
  BY <1>2 DEF SettingsDoc, IsDoc
<1>4. C!Valid(s)
  BY <1>2 DEF C!Valid
<1> QED
  BY <1>1, <1>3, <1>4

LEMMA SettingsFirst == ASSUME C!DefaultAssumption, C!Init PROVE SettingsInv
<1>1. document = << >> /\ settings = C!LoadSettings(document)
  BY DEF C!Init
<1>2. SettingsDoc(document) /\ C!Valid(document)
  BY <1>1, NoDoc
<1>3. SettingsShape(settings)
  BY <1>1, <1>2, LoadShape
<1> QED
  BY <1>1, <1>2, <1>3 DEF SettingsInv

\* The two of an update.
LEMMA KeymapShape ==
  ASSUME NEW m \in C!Keymaps
  PROVE  IsFn(m) /\ DOMAIN m \subseteq KeyNames
<1>1. PICK S \in SUBSET {"quit"} : m \in [S -> Binding]
  BY DEF C!Keymaps, C!Maps
<1>2. DOMAIN m = S /\ m = [x \in S |-> m[x]]
  BY <1>1
<1>3. S \subseteq KeyNames
  BY DEF KeyNames
<1> QED
  BY <1>2, <1>3 DEF IsFn

LEMMA UpdateShape == ASSUME C!Update PROVE SettingsShape(settings')
<1>1. PICK t \in Theme, m \in C!Keymaps : settings' = [theme |-> t, keymap |-> m]
  BY DEF C!Update
<1>2. PICK s : s = [theme |-> t, keymap |-> m]
  OBVIOUS
<1>3. s = [theme |-> s.theme, keymap |-> s.keymap] /\ s.theme = t /\ s.keymap = m
  BY <1>2
<1>4. SettingsShape(s)
  BY <1>3, KeymapShape DEF SettingsShape
<1> QED
  BY <1>1, <1>2, <1>4

LEMMA UpdateWrites ==
  ASSUME C!Update
  PROVE  document' = C!Merge(document, C!SettingsData(settings')) /\ unseen' = FALSE
BY DEF C!Update

LEMMA SettingsWritten ==
  ASSUME NEW X, SettingsDoc(X), C!Valid(X), NEW s, SettingsShape(s),
         NEW Z, Z = C!Merge(X, C!SettingsData(s))
  PROVE  SettingsDoc(Z) /\ C!Valid(Z) /\ C!LoadSettings(Z) = s
<1>1. PICK D, a : D = C!SettingsData(s) /\ a = C!HeadEnd(X)
  OBVIOUS
<1>2. Z = C!Merge(X, D)
  BY <1>1
<1>3. SettingsDoc(Z)
  BY <1>1, <1>2, SettingsMerged
<1>4. C!Valid(Z) /\ C!LoadSettings(Z) = s
  BY <1>1, <1>2, SettingsTold
<1> QED
  BY <1>3, <1>4

LEMMA UpdateKeeps == ASSUME SettingsInv, C!Update PROVE SettingsInv'
<1>1. PICK X, s, Z : X = document /\ s = settings' /\ Z = document'
  OBVIOUS
<1>2. SettingsDoc(X) /\ C!Valid(X) /\ SettingsShape(s) /\ Z = C!Merge(X, C!SettingsData(s))
  BY <1>1, UpdateShape, UpdateWrites DEF SettingsInv
<1>3. SettingsDoc(Z) /\ C!Valid(Z) /\ C!LoadSettings(Z) = s
  BY <1>2, SettingsWritten
<1> QED
  BY <1>1, <1>2, <1>3 DEF SettingsInv

LEMMA PollKeeps == ASSUME C!DefaultAssumption, SettingsInv, C!Poll PROVE SettingsInv'
<1>1. settings' = C!LoadSettings(document) /\ document' = document
  BY DEF C!Poll
<1>2. PICK X, s : X = document /\ s = settings'
  OBVIOUS
<1>3. SettingsDoc(X) /\ C!Valid(X) /\ s = C!LoadSettings(X)
  BY <1>1, <1>2 DEF SettingsInv
<1>4. SettingsShape(s)
  BY <1>3, LoadShape
<1> QED
  BY <1>1, <1>2, <1>3, <1>4 DEF SettingsInv

LEMMA HandEditKeeps == ASSUME SettingsInv, C!HandEdit PROVE SettingsInv'
<1>1. SettingsDoc(document')
  BY EditedDoc DEF SettingsInv
<1>2. C!Valid(document') /\ unseen' = TRUE /\ settings' = settings
  BY DEF C!HandEdit
<1> QED
  BY <1>1, <1>2 DEF SettingsInv

LEMMA RestartedKeeps ==
  ASSUME C!DefaultAssumption, SettingsDoc(document'), C!Valid(document'), C!Restarted
  PROVE  SettingsInv'
<1>1. settings' = C!LoadSettings(document')
  BY DEF C!Restarted
<1>2. PICK X, s : X = document' /\ s = settings'
  OBVIOUS
<1>3. SettingsShape(s)
  BY <1>1, <1>2, LoadShape
<1> QED
  BY <1>1, <1>2, <1>3 DEF SettingsInv

LEMMA DieKeeps == ASSUME C!DefaultAssumption, SettingsInv, C!Die PROVE SettingsInv'
<1>1. PICK whole, n : /\ whole = C!Merge(document, C!SettingsData(settings))
                      /\ n \in 0 .. Len(whole) /\ document' = SubSeq(whole, 1, n)
  BY DEF C!Die
<1>2. SettingsDoc(whole) /\ C!Valid(whole)
  BY <1>1, SettingsWritten DEF SettingsInv
<1>3. PICK Y : Y = document'
  OBVIOUS
<1>4. SettingsDoc(Y) /\ C!Valid(Y)
  BY <1>1, <1>2, <1>3, PrefixReads
<1>5. C!Restarted
  BY DEF C!Die
<1> QED
  BY <1>3, <1>4, <1>5, RestartedKeeps

LEMMA SettingsNext ==
  ASSUME C!DefaultAssumption, SettingsInv, [C!Next]_C!vars
  PROVE  SettingsInv'
<1>1. CASE C!Update
  BY <1>1, UpdateKeeps
<1>2. CASE C!Poll
  BY <1>2, PollKeeps
<1>3. CASE C!HandEdit
  BY <1>3, HandEditKeeps
<1>4. CASE C!Connect
  BY <1>4 DEF C!Connect, SettingsInv
<1>5. CASE C!Restart
  <2>1. document' = document /\ C!Restarted
    BY <1>5 DEF C!Restart
  <2> QED
    BY <2>1, RestartedKeeps DEF SettingsInv
<1>6. CASE C!Die
  BY <1>6, DieKeeps
<1>7. CASE UNCHANGED C!vars
  BY <1>7 DEF C!vars, SettingsInv
<1> QED
  BY <1>1, <1>2, <1>3, <1>4, <1>5, <1>6, <1>7 DEF C!Next

\* Whenever no edit waits for the watcher, settings.toml is valid and says what
\* the store holds: after any updates, reloads, edits by hand that keep it valid,
\* restarts, and deaths inside write_text.
THEOREM SettingsAgreeAlways ==
  ASSUME C!DefaultAssumption
  PROVE  C!Spec => []C!SettingsAgree
<1>1. C!Init => SettingsInv
  BY SettingsFirst
<1>2. SettingsInv /\ [C!Next]_C!vars => SettingsInv'
  BY SettingsNext
<1>3. SettingsInv => C!SettingsAgree
  BY DEF SettingsInv, C!SettingsAgree
<1> QED
  BY <1>1, <1>2, <1>3, PTL DEF C!Spec

\* What an update does not know in the head stays where it was.
Spared(i) ==
  /\ i \in DOMAIN C!Before(document')
  /\ IF C!Foreign(document[i]) THEN document'[i] = document[i] ELSE ~ C!Foreign(document'[i])

LEMMA UpdateSpares ==
  ASSUME SettingsInv, C!Update, NEW i \in DOMAIN C!Head1(document)
  PROVE  Spared(i)
<1>1. PICK X, s, Z, D, a, H : /\ X = document /\ s = settings' /\ Z = document'
                              /\ D = C!SettingsData(s) /\ a = C!HeadEnd(X) /\ H = C!Head1(X)
  OBVIOUS
<1>2. SettingsDoc(X) /\ SettingsShape(s) /\ Z = C!Merge(X, D)
  BY <1>1, UpdateShape, UpdateWrites DEF SettingsInv
<1>3. SettingsDoc(Z) /\ \E Ls, b : MergedTo(X, a, D, Ls, Z, b)
  BY <1>1, <1>2, SettingsMerged
<1>4. PICK Ls, b : MergedTo(X, a, D, Ls, Z, b)
  BY <1>3
<1>5. DOMAIN D.scalars = {"theme"}
  BY <1>1, <1>2, SettingsDataIs
<1>6. i \in 1 .. a
  BY <1>1, <1>2, Head1Is DEF SettingsDoc
<1>7. IF C!Foreign(X[i]) THEN Z[i] = X[i] ELSE ~ C!Foreign(Z[i])
  <2>1. /\ Z[i].k = X[i].k /\ Z[i].n = X[i].n
        /\ Z[i] = IF X[i].k = "key" /\ X[i].n \in DOMAIN D.scalars
                    THEN C!KeyLine(X[i].n, D.scalars[X[i].n]) ELSE X[i]
    BY <1>4, <1>6 DEF MergedTo
  <2>2. CASE C!Foreign(X[i])
    <3>1. ~ (X[i].k = "key" /\ X[i].n = "theme")
      BY <2>2 DEF C!Foreign
    <3>2. Z[i] = X[i]
      BY <1>5, <2>1, <3>1
    <3> QED
      BY <2>2, <3>2
  <2>3. CASE ~ C!Foreign(X[i])
    <3>1. ~ C!Foreign(Z[i])
      BY <2>1, <2>3 DEF C!Foreign
    <3> QED
      BY <2>3, <3>1
  <2> QED
    BY <2>2, <2>3
<1>8. IsDoc(Z) /\ DOMAIN Z = 1 .. Len(Z) /\ Len(Z) \in Nat /\ IsSeq(Z)
  BY <1>3, DocIs DEF SettingsDoc
<1>9. PICK h : /\ HeadOf(Z, C!HeadEnd(Z), h)
               /\ C!Headers(Z) # {} => h = C!First(Z)
               /\ C!Headers(Z) = {} => h = Len(Z) + 1
  BY <1>8, HeadIs
<1>10. a \in 0 .. b /\ b \in 0 .. Len(Z) /\ \A j \in 1 .. b : ~ C!IsHeader(Z[j])
  BY <1>4 DEF MergedTo
<1>11. i \in 1 .. b
  BY <1>6, <1>8, <1>10
<1>12. i \in DOMAIN C!Before(Z)
  <2>1. CASE C!Headers(Z) = {}
    <3>1. C!Before(Z) = Z
      BY <2>1 DEF C!Before
    <3> QED
      BY <1>8, <1>10, <1>11, <3>1
  <2>2. CASE C!Headers(Z) # {}
    <3>1. h = C!First(Z)
      BY <1>9, <2>2
    <3>2. h \in 1 .. Len(Z) + 1 /\ (h \in DOMAIN Z => C!IsHeader(Z[h]))
      BY <1>8, <1>9 DEF HeadOf
    <3>3. i < h
      BY <1>8, <1>10, <1>11, <3>2
    <3>4. PICK c, e, u : c = 1 /\ e = h - 1 /\ u = SubSeq(Z, c, e)
      OBVIOUS
    <3>5. c \in Nat /\ c # 0 /\ e \in Nat /\ c <= e + 1 /\ e <= Len(Z)
      BY <1>8, <3>2, <3>4
    <3>6. Piece(Z, c, e, u)
      BY <1>8, <3>4, <3>5, PieceWithin
    <3>7. DOMAIN u = 1 .. Len(u) /\ Len(u) = e - c + 1
      BY <3>6, SeqDomain DEF Piece, Within
    <3>8. i \in DOMAIN u
      BY <1>8, <1>11, <3>2, <3>3, <3>4, <3>7
    <3>9. C!Before(Z) = u
      BY <2>2, <3>1, <3>4 DEF C!Before
    <3> QED
      BY <3>8, <3>9
  <2> QED
    BY <2>1, <2>2
<1> QED
  BY <1>1, <1>7, <1>12 DEF Spared

\* An update of the settings keeps every line of the head where it is: what it does
\* not know as it was, and what it knows under its name.
THEOREM ForeignAlways ==
  ASSUME C!DefaultAssumption
  PROVE  C!Spec => C!ForeignSurvive
<1> DEFINE A == C!Update => \A i \in DOMAIN C!Head1(document) : Spared(i)
<1>1. C!Init => SettingsInv
  BY SettingsFirst
<1>2. SettingsInv /\ [C!Next]_C!vars => SettingsInv'
  BY SettingsNext
<1>3. SettingsInv /\ [C!Next]_C!vars => [A]_C!vars
  BY UpdateSpares
<1>4. C!ForeignSurvive <=> [][A]_C!vars
  BY DEF C!ForeignSurvive, Spared
<1> QED
  BY <1>1, <1>2, <1>3, <1>4, PTL DEF C!Spec

-----------------------------------------------------------------------------
(* The connections and their document.                                     *)

\* The line an empty list of connections writes, and the lines the store
\* writes at all.
Nil(l) == l.k = "key" /\ l.n = "connection" /\ l.v = "[]"
ListLine(l) == l.k # "table" /\ (l.k = "key" => l.n = "name" \/ Nil(l))
ListedDoc(X) ==
  /\ IsDoc(X) /\ \A i \in DOMAIN X : ListLine(X[i])
  /\ \A i \in DOMAIN X : Nil(X[i]) => \A j \in 1 .. i : ~ C!IsHeader(X[j])
NeverNil(X) == \A i \in DOMAIN X : ~ Nil(X[i])

LEMMA NilIs ==
  ASSUME NEW X, IsDoc(X)
  PROVE  NeverNil(X) <=> ~ \E l \in C!ToSet(X) : l = C!KeyLine("connection", "[]")
<1>1. PICK e, kind, n, v : e = C!KeyLine("connection", "[]") /\ kind = "key" /\ n = "connection" /\ v = "[]"
  OBVIOUS
<1>2. e = C!Line(kind, n, v)
  BY <1>1 DEF C!KeyLine
<1>3. \A i \in DOMAIN X : X[i] = C!Line(X[i].k, X[i].n, X[i].v)
  BY DEF IsDoc, IsLine
<1>4. e.k = kind /\ e.n = n /\ e.v = v
  BY <1>1, <1>2, LineIs
<1>5. \A i \in DOMAIN X : Nil(X[i]) <=> X[i] = e
  BY <1>1, <1>2, <1>3, <1>4 DEF Nil
<1>6. (\E l \in C!ToSet(X) : l = e) <=> \E i \in DOMAIN X : X[i] = e
  BY DEF C!ToSet
<1> QED
  BY <1>1, <1>5, <1>6 DEF NeverNil

\* A list of connections as data.
LEMMA NoneData ==
  ASSUME NEW D, D = C!ConnectionData(<< >>)
  PROVE  /\ IsData(D) /\ DOMAIN D.scalars = {"connection"} /\ D.scalars["connection"] = "[]"
         /\ D.tables = C!Empty /\ D.arrays = C!Empty
<1>1. PICK S, N : S = [n \in {"connection"} |-> "[]"] /\ N = C!NoTables
  OBVIOUS
<1>2. D = [N EXCEPT !.scalars = S]
  BY <1>1 DEF C!ConnectionData
<1>3. D.scalars = S /\ D.tables = C!Empty /\ D.arrays = C!Empty
  BY <1>1, <1>2 DEF C!NoTables
<1>4. IsFiniteSet({"connection"}) /\ IsFiniteSet({})
  BY FS_Singleton, FS_EmptySet
<1>5. IsMap(S)
  BY <1>1, <1>4 DEF IsMap, IsFn
<1>6. IsMap(C!Empty)
  BY <1>4, EmptyFn DEF IsMap
<1>7. IsData(D)
  BY <1>3, <1>5, <1>6, EmptyFn DEF IsData
<1> QED
  BY <1>1, <1>3, <1>7

\* Each connection is an entry with a name.
Entered(g, cs) ==
  /\ IsList(g) /\ Len(g) = Len(cs) /\ DOMAIN g = DOMAIN cs
  /\ \A i \in DOMAIN cs : DOMAIN g[i] = {"name"} /\ g[i]["name"] = cs[i]

LEMMA EntriesAre ==
  ASSUME NEW cs, IsSeq(cs), cs # << >>,
         NEW g, g = [i \in DOMAIN cs |-> [k \in {"name"} |-> cs[i]]]
  PROVE  Entered(g, cs)
<1>1. DOMAIN cs = 1 .. Len(cs) /\ Len(cs) \in Nat
  BY SeqDomain
<1>2. PICK n \in Nat : n = Len(cs)
  BY <1>1
<1>3. DOMAIN g = 1 .. n /\ g = [i \in 1 .. n |-> g[i]]
  BY <1>1, <1>2
<1>4. IsSeq(g)
  BY <1>3, SeqOver
<1>5. DOMAIN g = 1 .. Len(g) /\ Len(g) \in Nat
  BY <1>4, SeqDomain
<1>6. Len(g) = n
  BY <1>3, <1>5
<1>7. g # << >>
  <2>1. Len(cs) # 0
    BY EmptySeq, NoSeq, SeqSame, <1>1
  <2> QED
    BY <1>2, <1>6, <2>1, NoSeq
<1>8. IsFiniteSet({"name"})
  BY FS_Singleton
<1>9. \A i \in DOMAIN cs : g[i] = [k \in {"name"} |-> cs[i]]
  OBVIOUS
<1>10. \A i \in DOMAIN cs : DOMAIN g[i] = {"name"} /\ g[i]["name"] = cs[i] /\ IsFn(g[i])
  BY <1>9 DEF IsFn
<1>11. \A i \in DOMAIN g : IsMap(g[i])
  BY <1>1, <1>2, <1>3, <1>8, <1>10 DEF IsMap
<1>12. IsList(g)
  BY <1>4, <1>7, <1>11 DEF IsList
<1> QED
  BY <1>1, <1>2, <1>3, <1>6, <1>10, <1>12 DEF Entered

LEMMA SomeData ==
  ASSUME NEW cs, IsSeq(cs), cs # << >>, NEW D, D = C!ConnectionData(cs)
  PROVE  /\ IsData(D) /\ D.scalars = C!Empty /\ D.tables = C!Empty
         /\ DOMAIN D.arrays = {"connection"} /\ Entered(D.arrays["connection"], cs)
<1>1. PICK g : g = [i \in DOMAIN cs |-> [k \in {"name"} |-> cs[i]]]
  OBVIOUS
<1>2. PICK A, N : A = [n \in {"connection"} |-> g] /\ N = C!NoTables
  OBVIOUS
<1>3. D = [N EXCEPT !.arrays = A]
  BY <1>1, <1>2 DEF C!ConnectionData
<1>4. D.arrays = A /\ D.tables = C!Empty /\ D.scalars = C!Empty
  BY <1>2, <1>3 DEF C!NoTables
<1>5. Entered(g, cs)
  BY <1>1, EntriesAre
<1>6. IsFiniteSet({"connection"}) /\ IsFiniteSet({})
  BY FS_Singleton, FS_EmptySet
<1>7. IsMap(A) /\ DOMAIN A = {"connection"} /\ A["connection"] = g
  BY <1>2, <1>6 DEF IsMap, IsFn
<1>8. IsMap(C!Empty)
  BY <1>6, EmptyFn DEF IsMap
<1>9. IsData(D)
  BY <1>4, <1>5, <1>7, <1>8, EmptyFn DEF IsData, Entered
<1> QED
  BY <1>4, <1>5, <1>7, <1>9

\* What is merged has lines the store writes where what it adds has.
LEMMA ListedMerged ==
  ASSUME NEW X, ListedDoc(X), NEW D, NEW Ls, NEW Z, NEW b, MergedTo(X, C!HeadEnd(X), D, Ls, Z, b),
         \A x \in DOMAIN D.scalars : x = "connection" /\ D.scalars[x] = "[]",
         \A l \in Ls : ListLine(l) /\ ~ Nil(l)
  PROVE  ListedDoc(Z) /\ \A i \in 1 .. C!HeadEnd(X) : i \in DOMAIN X /\ i \in DOMAIN Z /\ (Nil(X[i]) => Nil(Z[i]))
<1>1. PICK a : a = C!HeadEnd(X)
  OBVIOUS
<1>2. /\ IsDoc(X) /\ DOMAIN X = 1 .. Len(X) /\ Len(X) \in Nat
  BY DocIs DEF ListedDoc
<1>3. PICK h : HeadOf(X, a, h)
  BY <1>1, <1>2, HeadIs
<1>4. IsDoc(Z) /\ DOMAIN Z = 1 .. Len(Z) /\ Len(Z) \in Nat /\ a \in 0 .. b /\ b \in 0 .. Len(Z)
  BY <1>1, DocIs DEF MergedTo
<1>5. \A i \in 1 .. a : i \in DOMAIN X /\ i \in DOMAIN Z
  BY <1>2, <1>3, <1>4 DEF HeadOf
<1>6. ASSUME NEW n, n \in DOMAIN D.scalars, NEW l, l = C!KeyLine(n, D.scalars[n])
      PROVE  ListLine(l) /\ Nil(l)
  <2>1. PICK kind, v : kind = "key" /\ v = "[]" /\ l = C!Line(kind, n, v)
    BY <1>6 DEF C!KeyLine
  <2>2. l.k = kind /\ l.n = n /\ l.v = v
    BY <2>1, LineIs
  <2> QED
    BY <1>6, <2>1, <2>2 DEF ListLine, Nil
<1>7. ASSUME NEW i \in 1 .. a PROVE ListLine(Z[i]) /\ (Nil(X[i]) => Nil(Z[i]))
  <2>1. Z[i] = IF X[i].k = "key" /\ X[i].n \in DOMAIN D.scalars
                 THEN C!KeyLine(X[i].n, D.scalars[X[i].n]) ELSE X[i]
    BY <1>1 DEF MergedTo
  <2>2. ListLine(X[i])
    BY <1>5 DEF ListedDoc
  <2>3. CASE X[i].k = "key" /\ X[i].n \in DOMAIN D.scalars
    BY <1>6, <2>1, <2>3
  <2>4. CASE ~ (X[i].k = "key" /\ X[i].n \in DOMAIN D.scalars)
    BY <2>1, <2>2, <2>4
  <2> QED
    BY <2>3, <2>4
<1>8. ASSUME NEW i \in a + 1 .. b PROVE ListLine(Z[i])
  <2>1. PICK n \in DOMAIN D.scalars : Z[i] = C!KeyLine(n, D.scalars[n])
    BY <1>1 DEF MergedTo
  <2> QED
    BY <1>6, <2>1
<1>9. ASSUME NEW i \in b + 1 .. Len(Z) PROVE ListLine(Z[i]) /\ ~ Nil(Z[i])
  BY <1>1 DEF MergedTo
<1>10. \A i \in DOMAIN Z : i \in 1 .. a \/ i \in a + 1 .. b \/ i \in b + 1 .. Len(Z)
  BY <1>4
<1>11. \A i \in DOMAIN Z : ListLine(Z[i])
  BY <1>7, <1>8, <1>9, <1>10
<1>12. ASSUME NEW i \in DOMAIN Z, Nil(Z[i]), NEW j \in 1 .. i PROVE ~ C!IsHeader(Z[j])
  <2>1. i \notin b + 1 .. Len(Z)
    BY <1>9, <1>12
  <2>2. j \in 1 .. b
    BY <1>4, <1>12, <2>1
  <2> QED
    BY <1>1, <2>2 DEF MergedTo
<1>13. ListedDoc(Z)
  BY <1>4, <1>11, <1>12 DEF ListedDoc
<1> QED
  BY <1>1, <1>5, <1>7, <1>13

\* Where an empty list stands in the head, whatever is merged leaves it.
LEMMA NilInHead ==
  ASSUME NEW X, ListedDoc(X), NEW i \in DOMAIN X, Nil(X[i])
  PROVE  i \in 1 .. C!HeadEnd(X)
<1>1. PICK a : a = C!HeadEnd(X)
  OBVIOUS
<1>2. IsDoc(X) /\ DOMAIN X = 1 .. Len(X) /\ Len(X) \in Nat
  BY DocIs DEF ListedDoc
<1>3. PICK h : HeadOf(X, a, h)
  BY <1>1, <1>2, HeadIs
<1>4. \A j \in 1 .. i : ~ C!IsHeader(X[j])
  BY DEF ListedDoc
<1>5. h > i
  <2>1. CASE h \in DOMAIN X
    <3>1. h \notin 1 .. i
      BY <1>3, <1>4, <2>1 DEF HeadOf
    <3> QED
      BY <1>2, <2>1, <3>1
  <2>2. CASE h \notin DOMAIN X
    BY <1>2, <1>3, <2>2 DEF HeadOf
  <2> QED
    BY <2>1, <2>2
<1>6. X[i].k # "comment"
  BY DEF Nil
<1>7. i \notin a + 1 .. h - 1
  BY <1>3, <1>6 DEF HeadOf
<1>8. a \in Nat /\ h \in Nat /\ i \in Nat /\ i # 0
  BY <1>2, <1>3 DEF HeadOf
<1> QED
  BY <1>1, <1>5, <1>7, <1>8

LEMMA NilKept ==
  ASSUME NEW X, ListedDoc(X), NEW D, NEW Ls, NEW Z, NEW b, MergedTo(X, C!HeadEnd(X), D, Ls, Z, b),
         \A x \in DOMAIN D.scalars : x = "connection" /\ D.scalars[x] = "[]",
         \A l \in Ls : ListLine(l) /\ ~ Nil(l), NeverNil(Z)
  PROVE  NeverNil(X)
<1>1. \A i \in 1 .. C!HeadEnd(X) : i \in DOMAIN X /\ i \in DOMAIN Z /\ (Nil(X[i]) => Nil(Z[i]))
  BY ListedMerged
<1>2. \A i \in DOMAIN X : Nil(X[i]) => i \in 1 .. C!HeadEnd(X)
  BY NilInHead
<1> QED
  BY <1>1, <1>2 DEF NeverNil

\* An empty list is written as a line.
LEMMA NoneMerged ==
  ASSUME NEW X, ListedDoc(X), NEW Z, Z = C!Merge(X, C!ConnectionData(<< >>))
  PROVE  ListedDoc(Z) /\ ~ NeverNil(Z)
<1>1. PICK D, Ls, a : D = C!ConnectionData(<< >>) /\ Ls = Comments(X) /\ a = C!HeadEnd(X)
  OBVIOUS
<1>2. /\ IsData(D) /\ DOMAIN D.scalars = {"connection"} /\ D.scalars["connection"] = "[]"
      /\ D.tables = C!Empty /\ D.arrays = C!Empty
  BY <1>1, NoneData
<1>3. Holds(Ls, D)
  BY <1>2, EmptyFn DEF Holds
<1>4. \A l \in Ls : IsLine(l) /\ ListLine(l) /\ ~ Nil(l)
  BY <1>1 DEF Comments, ListedDoc, IsDoc, ListLine, Nil
<1>5. IsDoc(X) /\ Comments(X) \subseteq Ls /\ Z = C!Merge(X, D)
  BY <1>1 DEF ListedDoc
<1>6. PICK b : MergedTo(X, a, D, Ls, Z, b)
  BY <1>1, <1>2, <1>3, <1>4, <1>5, MergeIs
<1>7. ListedDoc(Z)
  BY <1>1, <1>2, <1>4, <1>6, ListedMerged
<1>8. IsDoc(Z) /\ b \in 0 .. Len(Z) /\ DOMAIN Z = 1 .. Len(Z) /\ Len(Z) \in Nat
  BY <1>6, DocIs DEF MergedTo
<1>9. PICK n : n = "connection"
  OBVIOUS
<1>10. PICK i \in 1 .. b : Z[i] = C!KeyLine(n, D.scalars[n])
  BY <1>2, <1>6, <1>9 DEF MergedTo
<1>11. PICK l, kind, v : l = Z[i] /\ kind = "key" /\ v = D.scalars[n]
  OBVIOUS
<1>12. l = C!Line(kind, n, v)
  BY <1>10, <1>11 DEF C!KeyLine
<1>13. l.k = kind /\ l.n = n /\ l.v = v
  BY <1>11, <1>12, LineIs
<1>14. Nil(Z[i]) /\ i \in DOMAIN Z
  BY <1>2, <1>8, <1>9, <1>11, <1>13 DEF Nil
<1> QED
  BY <1>7, <1>14 DEF NeverNil

\* The entries of an array, as lines.
LEMMA EntryLines ==
  ASSUME NEW f, DOMAIN f = {"name"}, NEW Y, Y = C!TableLines("connection", f, "array")
  PROVE  IsSeq(Y) /\ \A l \in C!ToSet(Y) : IsLine(l) /\ ListLine(l) /\ ~ Nil(l)
<1>1. PICK n, kind : n = "connection" /\ kind = "array"
  OBVIOUS
<1>2. IsFiniteSet(DOMAIN f)
  BY FS_Singleton
<1>3. TableOf(Y, n, kind, f)
  BY <1>1, <1>2, TableLinesAre
<1>4. IsSeq(Y) /\ \A i \in DOMAIN Y : IsLine(Y[i])
  BY <1>3 DEF TableOf, IsDoc
<1>5. \A i \in DOMAIN Y : ListLine(Y[i]) /\ ~ Nil(Y[i])
  <2>1. ASSUME NEW i \in DOMAIN Y PROVE ListLine(Y[i]) /\ ~ Nil(Y[i])
    <3>1. CASE i = 1
      <4>1. Y[i].k = "array"
        BY <1>1, <1>3, <3>1 DEF TableOf
      <4> QED
        BY <4>1 DEF ListLine, Nil
    <3>2. CASE i # 1
      <4>1. Y[i].k = "key" /\ Y[i].n = "name"
        BY <1>3, <3>2 DEF TableOf
      <4> QED
        BY <4>1 DEF ListLine, Nil
    <3> QED
      BY <3>1, <3>2
  <2> QED
    BY <2>1
<1> QED
  BY <1>4, <1>5 DEF C!ToSet

\* The lines of all of them.
EntrySet(g) == UNION {C!ToSet(C!TableLines("connection", g[i], "array")) : i \in DOMAIN g}

LEMMA EntrySetIs ==
  ASSUME NEW g, \A i \in DOMAIN g : DOMAIN g[i] = {"name"}
  PROVE  /\ \A l \in EntrySet(g) : IsLine(l) /\ ListLine(l) /\ ~ Nil(l)
         /\ \A i \in DOMAIN g : Within(C!TableLines("connection", g[i], "array"), EntrySet(g))
<1>1. ASSUME NEW l \in EntrySet(g) PROVE IsLine(l) /\ ListLine(l) /\ ~ Nil(l)
  <2>1. PICK i \in DOMAIN g : l \in C!ToSet(C!TableLines("connection", g[i], "array"))
    BY DEF EntrySet
  <2>2. PICK f, Y : f = g[i] /\ Y = C!TableLines("connection", f, "array")
    OBVIOUS
  <2>3. DOMAIN f = {"name"} /\ l \in C!ToSet(Y)
    BY <2>1, <2>2
  <2> QED
    BY <2>2, <2>3, EntryLines
<1>2. ASSUME NEW i \in DOMAIN g PROVE Within(C!TableLines("connection", g[i], "array"), EntrySet(g))
  <2>1. PICK f, Y : f = g[i] /\ Y = C!TableLines("connection", f, "array")
    OBVIOUS
  <2>2. IsSeq(Y)
    BY <2>1, EntryLines
  <2>3. C!ToSet(Y) \subseteq EntrySet(g)
    BY <2>1 DEF EntrySet
  <2> QED
    BY <2>1, <2>2, <2>3 DEF Within
<1> QED
  BY <1>1, <1>2

\* Some connections are read back as they were written.
LEMMA SomeMerged ==
  ASSUME NEW X, ListedDoc(X), NEW cs, IsSeq(cs), cs # << >>,
         NEW Z, Z = C!Merge(X, C!ConnectionData(cs))
  PROVE  /\ ListedDoc(Z) /\ (NeverNil(Z) => NeverNil(X))
         /\ (NeverNil(X) /\ C!Valid(X)) => C!Valid(Z) /\ C!LoadConnections(Z) = cs
<1>1. PICK D, n, a : D = C!ConnectionData(cs) /\ n = "connection" /\ a = C!HeadEnd(X)
  OBVIOUS
<1>2. /\ IsData(D) /\ D.scalars = C!Empty /\ D.tables = C!Empty
      /\ DOMAIN D.arrays = {n} /\ Entered(D.arrays[n], cs)
  BY <1>1, SomeData
<1>3. PICK g : g = D.arrays[n]
  OBVIOUS
<1>4. Entered(g, cs)
  BY <1>2, <1>3
<1>5. DOMAIN g = DOMAIN cs /\ \A i \in DOMAIN cs : DOMAIN g[i] = {"name"} /\ g[i]["name"] = cs[i]
  BY <1>4 DEF Entered
<1>6. PICK Ls, Es : Es = EntrySet(g) /\ Ls = Comments(X) \cup Es
  OBVIOUS
<1>7. /\ \A l \in Es : IsLine(l) /\ ListLine(l) /\ ~ Nil(l)
      /\ \A i \in DOMAIN g : Within(C!TableLines(n, g[i], "array"), Es)
  BY <1>1, <1>5, <1>6, EntrySetIs
<1>8. \A i \in DOMAIN g : Within(C!TableLines(n, g[i], "array"), Ls)
  BY <1>6, <1>7 DEF Within
<1>9. Holds(Ls, D)
  BY <1>2, <1>3, <1>8, EmptyFn DEF Holds
<1>10. \A l \in Comments(X) : IsLine(l) /\ ListLine(l) /\ ~ Nil(l)
  BY DEF Comments, ListedDoc, IsDoc, ListLine, Nil
<1>11. \A l \in Ls : IsLine(l) /\ ListLine(l) /\ ~ Nil(l)
  BY <1>6, <1>7, <1>10
<1>12. IsDoc(X) /\ Comments(X) \subseteq Ls /\ Z = C!Merge(X, D)
  BY <1>1, <1>6 DEF ListedDoc
<1>13. PICK b : MergedTo(X, a, D, Ls, Z, b)
  BY <1>1, <1>2, <1>9, <1>11, <1>12, MergeIs
<1>14. \A x \in DOMAIN D.scalars : x = "connection" /\ D.scalars[x] = "[]"
  BY <1>2, EmptyFn
<1>15. ListedDoc(Z)
  BY <1>1, <1>11, <1>13, <1>14, ListedMerged
<1>16. NeverNil(Z) => NeverNil(X)
  BY <1>1, <1>11, <1>13, <1>14, NilKept
<1>17. ASSUME NeverNil(X), C!Valid(X) PROVE C!Valid(Z) /\ C!LoadConnections(Z) = cs
  <2>1. HeadNames(X, a) \cap (DOMAIN D.tables \cup DOMAIN D.arrays) = {}
    <3>1. PICK h : HeadOf(X, a, h)
      BY <1>1, <1>12, HeadIs
    <3>2. DOMAIN X = 1 .. Len(X) /\ Len(X) \in Nat
      BY <1>12, DocIs
    <3>3. \A i \in 1 .. a : i \in DOMAIN X
      BY <3>1, <3>2 DEF HeadOf
    <3>4. \A i \in 1 .. a : X[i].k = "key" => X[i].n = "name"
      BY <1>17, <3>3 DEF ListedDoc, ListLine, NeverNil
    <3>5. \A x \in HeadNames(X, a) : x = "name"
      BY <3>4 DEF HeadNames
    <3>6. DOMAIN D.tables \cup DOMAIN D.arrays = {n}
      BY <1>2, EmptyFn
    <3> QED
      BY <1>1, <3>5, <3>6
  <2>2. \A h \in DOMAIN X : X[h].k = "array" => X[h].n \notin DOMAIN D.tables
    BY <1>2, EmptyFn
  <2>3. Tells(Z, D)
    BY <1>1, <1>2, <1>12, <1>17, <2>1, <2>2, MergeReads
  <2>4. PICK S : Reads(Z, S, D.tables, D.arrays)
    BY <2>3 DEF Tells
  <2>5. PICK E : E = C!Parse(Z)
    OBVIOUS
  <2>6. C!Valid(Z) /\ E.arrays = D.arrays
    BY <2>4, <2>5, ReadsParse
  <2>7. C!LoadConnections(Z) = [i \in DOMAIN g |-> g[i]["name"]]
    BY <1>1, <1>2, <1>3, <2>5, <2>6 DEF C!LoadConnections
  <2>8. [i \in DOMAIN g |-> g[i]["name"]] = [i \in DOMAIN cs |-> cs[i]]
    BY <1>5
  <2>9. cs = [i \in DOMAIN cs |-> cs[i]]
    <3>1. cs \in [1 .. Len(cs) -> C!ToSet(cs)]
      BY LenProperties DEF IsSeq
    <3> QED
      BY <3>1
  <2> QED
    BY <2>6, <2>7, <2>8, <2>9
<1> QED
  BY <1>15, <1>16, <1>17

ConnectionsInv ==
  /\ ListedDoc(listed) /\ IsSeq(connections)
  /\ NeverNil(listed) => C!Valid(listed) /\ C!LoadConnections(listed) = connections

LEMMA ConnectionsWritten ==
  ASSUME NEW X, ListedDoc(X), NeverNil(X) => C!Valid(X), NEW cs, IsSeq(cs),
         NEW Z, Z = C!Merge(X, C!ConnectionData(cs))
  PROVE  ListedDoc(Z) /\ (NeverNil(Z) => C!Valid(Z) /\ C!LoadConnections(Z) = cs)
<1>1. CASE cs = << >>
  <2>1. ListedDoc(Z) /\ ~ NeverNil(Z)
    BY <1>1, NoneMerged
  <2> QED
    BY <2>1
<1>2. CASE cs # << >>
  <2>1. /\ ListedDoc(Z) /\ (NeverNil(Z) => NeverNil(X))
        /\ (NeverNil(X) /\ C!Valid(X)) => C!Valid(Z) /\ C!LoadConnections(Z) = cs
    BY <1>2, SomeMerged
  <2> QED
    BY <2>1
<1> QED
  BY <1>1, <1>2

LEMMA ConnectionsFirst == ASSUME C!Init PROVE ConnectionsInv
<1>1. PICK X, cs, Z : X = << >> /\ cs = connections /\ Z = listed
  OBVIOUS
<1>2. IsSeq(X) /\ DOMAIN X = {}
  BY <1>1, NoSeq
<1>3. ListedDoc(X)
  BY <1>2 DEF ListedDoc, IsDoc
<1>4. C!Valid(X)
  BY <1>2 DEF C!Valid
<1>5. IsSeq(cs)
  <2>1. cs = << >> \/ \E p : cs = << p >>
    BY <1>1 DEF C!Init
  <2>2. CASE cs = << >>
    BY <2>2, NoSeq
  <2>3. CASE \E p : cs = << p >>
    BY <2>3, OneSeq
  <2> QED
    BY <2>1, <2>2, <2>3
<1>6. Z = C!Dumps(C!ConnectionData(cs))
  BY <1>1 DEF C!Init
<1>7. Z = C!Merge(X, C!ConnectionData(cs))
  BY <1>1, <1>6 DEF C!Merge
<1>8. ListedDoc(Z) /\ (NeverNil(Z) => C!Valid(Z) /\ C!LoadConnections(Z) = cs)
  BY <1>3, <1>4, <1>5, <1>7, ConnectionsWritten
<1> QED
  BY <1>1, <1>5, <1>8 DEF ConnectionsInv

LEMMA LoadedIsSeq ==
  ASSUME NEW X, IsDoc(X), NEW cs, cs = C!LoadConnections(X)
  PROVE  IsSeq(cs)
<1>1. PICK D, n : D = C!Parse(X) /\ n = "connection"
  OBVIOUS
<1>2. CASE n \notin DOMAIN D.arrays
  <2>1. cs = << >>
    BY <1>1, <1>2 DEF C!LoadConnections
  <2> QED
    BY <2>1, NoSeq
<1>3. CASE n \in DOMAIN D.arrays
  <2>1. C!Valid(X)
    <3> SUFFICES ASSUME ~ C!Valid(X) PROVE FALSE
      OBVIOUS
    <3>1. D = C!NoTables
      BY <1>1 DEF C!Parse
    <3>2. D.arrays = C!Empty
      BY <3>1 DEF C!NoTables
    <3> QED
      BY <1>3, <3>2, EmptyFn
  <2>2. D.arrays = C!Arrays(X)
    BY <1>1, <2>1 DEF C!Parse
  <2>3. PICK g, S, m : g = D.arrays[n] /\ S = C!Entries(X, n) /\ m = C!Cardinality(S)
    OBVIOUS
  <2>4. DOMAIN g = 1 .. m
    BY <1>3, <2>2, <2>3 DEF C!Arrays
  <2>5. m \in Nat
    <3>1. IsSeq(X) /\ IsFiniteSet(DOMAIN X)
      BY SeqDomain DEF IsDoc
    <3>2. S \subseteq DOMAIN X
      BY <2>3 DEF C!Entries, C!HeadersOf
    <3>3. IsFiniteSet(S)
      BY <3>1, <3>2, FS_Subset
    <3>4. Cardinality(S) \in Nat
      BY <3>3, FS_CardinalityType
    <3>5. m = Cardinality(S)
      BY <2>3, SameSize
    <3> QED
      BY <3>4, <3>5
  <2>6. cs = [i \in DOMAIN g |-> g[i]["name"]]
    BY <1>1, <1>3, <2>3 DEF C!LoadConnections
  <2>7. cs = [i \in 1 .. m |-> cs[i]]
    BY <2>4, <2>6
  <2> QED
    BY <2>5, <2>7, SeqOver
<1> QED
  BY <1>2, <1>3

LEMMA ListChanged ==
  ASSUME IsSeq(connections), C!Connect
  PROVE  IsSeq(connections')
<1>1. \/ \E p : connections' = Append(connections, p)
      \/ \E i \in DOMAIN connections : connections' = C!RemoveAt(connections, i)
  BY DEF C!Connect
<1>2. CASE \E p : connections' = Append(connections, p)
  <2>1. PICK p : connections' = Append(connections, p)
    BY <1>2
  <2>2. PICK S : S = C!ToSet(connections) \cup {p}
    OBVIOUS
  <2>3. connections \in Seq(S)
    <3>1. connections \in [1 .. Len(connections) -> C!ToSet(connections)] /\ Len(connections) \in Nat
      BY LenProperties DEF IsSeq
    <3>2. connections \in [1 .. Len(connections) -> S]
      BY <2>2, <3>1
    <3> QED
      BY <3>1, <3>2, SeqDef
  <2>4. connections' \in Seq(S)
    BY <2>1, <2>2, <2>3, AppendProperties
  <2>5. PICK t, n : t = connections' /\ n = Len(t)
    OBVIOUS
  <2>6. t \in [1 .. n -> S] /\ n \in Nat
    BY <2>4, <2>5, LenProperties
  <2>7. t = [i \in 1 .. n |-> t[i]]
    BY <2>6
  <2>8. IsSeq(t)
    BY <2>6, <2>7, SeqOver
  <2> QED
    BY <2>5, <2>8
<1>3. CASE \E i \in DOMAIN connections : connections' = C!RemoveAt(connections, i)
  BY <1>3, RemoveWithin DEF Within
<1> QED
  BY <1>1, <1>2, <1>3

LEMMA ConnectKeeps == ASSUME ConnectionsInv, C!Connect PROVE ConnectionsInv'
<1>1. PICK X, cs, Z : X = listed /\ cs = connections' /\ Z = listed'
  OBVIOUS
<1>2. ListedDoc(X) /\ (NeverNil(X) => C!Valid(X))
  BY <1>1 DEF ConnectionsInv
<1>3. IsSeq(cs)
  BY <1>1, ListChanged DEF ConnectionsInv
<1>4. Z = C!Merge(X, C!ConnectionData(cs))
  BY <1>1 DEF C!Connect
<1>5. ListedDoc(Z) /\ (NeverNil(Z) => C!Valid(Z) /\ C!LoadConnections(Z) = cs)
  BY <1>2, <1>3, <1>4, ConnectionsWritten
<1> QED
  BY <1>1, <1>3, <1>5 DEF ConnectionsInv

LEMMA ReadAgain ==
  ASSUME ConnectionsInv, C!Restarted, listed' = listed
  PROVE  ConnectionsInv'
<1>1. connections' = C!LoadConnections(listed')
  BY DEF C!Restarted
<1>2. PICK X, cs : X = listed' /\ cs = connections'
  OBVIOUS
<1>3. ListedDoc(X) /\ (NeverNil(X) => C!Valid(X)) /\ cs = C!LoadConnections(X)
  BY <1>1, <1>2 DEF ConnectionsInv
<1>4. IsSeq(cs)
  BY <1>3, LoadedIsSeq DEF ListedDoc
<1> QED
  BY <1>2, <1>3, <1>4 DEF ConnectionsInv

LEMMA ConnectionsNext ==
  ASSUME ConnectionsInv, [C!Next]_C!vars
  PROVE  ConnectionsInv'
<1>1. CASE C!Update
  BY <1>1 DEF C!Update, ConnectionsInv
<1>2. CASE C!Poll
  BY <1>2 DEF C!Poll, ConnectionsInv
<1>3. CASE C!HandEdit
  BY <1>3 DEF C!HandEdit, ConnectionsInv
<1>4. CASE C!Connect
  BY <1>4, ConnectKeeps
<1>5. CASE C!Restart
  BY <1>5, ReadAgain DEF C!Restart
<1>6. CASE C!Die
  BY <1>6, ReadAgain DEF C!Die
<1>7. CASE UNCHANGED C!vars
  BY <1>7 DEF C!vars, ConnectionsInv
<1> QED
  BY <1>1, <1>2, <1>3, <1>4, <1>5, <1>6, <1>7 DEF C!Next

LEMMA ConnectionsTold == ASSUME ConnectionsInv PROVE C!ConnectionsAgree
BY NilIs DEF ConnectionsInv, C!ConnectionsAgree, ListedDoc

THEOREM ConnectionsAgreeAlways == C!Spec => []C!ConnectionsAgree
<1>1. C!Init => ConnectionsInv
  BY ConnectionsFirst
<1>2. ConnectionsInv /\ [C!Next]_C!vars => ConnectionsInv'
  BY ConnectionsNext
<1>3. ConnectionsInv => C!ConnectionsAgree
  BY ConnectionsTold
<1> QED
  BY <1>1, <1>2, <1>3, PTL DEF C!Spec

-----------------------------------------------------------------------------
(* Side by side with the other parts, which leave their state alone.       *)

LEMMA BackupsPart == MCSpec => Spec
<1>1. MCInit => Init
  BY DEF MCInit
<1>2. [MCNext]_allVars => [Next]_vars
  BY DEF MCNext, allVars
<1> QED
  BY <1>1, <1>2, PTL DEF MCSpec, Spec

LEMMA TabsPart == MCSpec => W!Spec
<1>1. MCInit => W!Init
  BY DEF MCInit
<1>2. [MCNext]_allVars => [W!Next]_(W!vars)
  BY DEF MCNext, allVars, windowVars, W!vars
<1> QED
  BY <1>1, <1>2, PTL DEF MCSpec, W!Spec

\* The property NewestKept of the run.
COROLLARY FilesRetention == Prefix = {} /\ MCSpec => []NewestKept
BY Retention, BackupsPart, PTL

\* The property OnceASlot of the run.
COROLLARY FilesSlots == MCSpec => OnceASlot
BY StartsOnce, BackupsPart, PTL

\* The property OpenIsVisible of the run: a transaction that is open is in front
\* of somebody.
COROLLARY FilesVisible == MCSpec => []OpenIsVisible
<1>1. W!OpenIsVisible => OpenIsVisible
  BY DEF OpenIsVisible
<1>2. W!TabsAssumption
  BY InstanceAssumption
<1> QED
  BY <1>1, <1>2, Visible, TabsPart, PTL

\* The property ReopensAsLeft of the run: what was open comes back.
COROLLARY FilesReopen == MCSpec => ReopensAsLeft
<1>1. W!TabsAssumption
  BY InstanceAssumption
<1> QED
  BY <1>1, Reopens, TabsPart, PTL DEF ReopensAsLeft

LEMMA ConfigPart == MCSpec => C!Spec
<1>1. MCInit => C!Init
  BY DEF MCInit
<1>2. [MCNext]_allVars => [C!Next]_(C!vars)
  BY DEF MCNext, allVars, configVars, C!vars
<1> QED
  BY <1>1, <1>2, PTL DEF MCSpec, C!Spec

\* The property StoresAgree of the run.
COROLLARY FilesAgree == MCSpec => []StoresAgree
<1>1. C!SettingsAgree /\ C!ConnectionsAgree => StoresAgree
  BY DEF StoresAgree
<1>2. C!DefaultAssumption
  BY InstanceAssumption
<1> QED
  BY <1>1, <1>2, SettingsAgreeAlways, ConnectionsAgreeAlways, ConfigPart, PTL

\* The property ForeignSurvive of the run.
COROLLARY FilesForeign == MCSpec => ForeignSurvive
<1>1. C!DefaultAssumption
  BY InstanceAssumption
<1> QED
  BY <1>1, ForeignAlways, ConfigPart, PTL DEF ForeignSurvive
=============================================================================
