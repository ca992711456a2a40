------------------------------ MODULE Backups ------------------------------
(***************************************************************************)
(* Backup jobs (backend/backups): the file backups.json, the app's clock,  *)
(* the headless sqlide-backup and the Backups tab that write it, the run   *)
(* of a job (dump, upload, prune, record), and what is left at the         *)
(* destination.                                                            *)
(*                                                                         *)
(* A BackupStore is a copy of the whole file, and saving writes the whole  *)
(* copy.  The tab keeps one as long as it is open; the clock makes one for *)
(* each of its ticks and sqlide-backup one for each invocation.            *)
(* Time is counted in ticks of the clock.  An artifact's name holds the    *)
(* time its run began, its modification time is the end of its upload.     *)
(***************************************************************************)
EXTENDS Naturals, Sequences, FiniteSets

CONSTANTS
  Job,         \* backup jobs
  Prefix,      \* pairs: the first's slug and a dash begin the second's slug
  Clocked,     \* those with an enabled schedule and no systemd timer
  Daily,       \* of these, those with a time of day; the others: an interval
  Period,      \* ticks in a day, or in the interval
  Keep,        \* artifacts a job keeps; 0: all
  Worker,      \* threads and processes that run jobs
  MaxRuns,     \* MAX_RUNS
  MaxTime,     \* bound: ticks
  MaxBegun     \* bound: runs begun in all

ASSUME BackupAssumption ==
  /\ Prefix \subseteq Job \X Job
  /\ Daily \subseteq Clocked /\ Clocked \subseteq Job
  /\ Period \in Nat \ {0} /\ Keep \in Nat
  /\ MaxRuns \in Nat \ {0} /\ MaxTime \in Nat \ {0} /\ MaxBegun \in Nat
  /\ "tab" \notin Worker

VARIABLES
  now,       \* ticks since the start
  ticked,    \* the clock has ticked now
  file,      \* backups.json: [jobs, runs]
  store,     \* the copies in memory
  worker,    \* what each worker does
  dest,      \* the artifacts at the destination
  ids,       \* history: the job ids ever given
  begun,     \* bound: how many runs have begun
  began,     \* history: when the clock last started each job, the runs that
             \* were killed apart; 0: never
  ever,      \* history: the artifacts ever uploaded
  lost       \* history: jobs whose last run may be missing from the file: a save
             \* wrote over another's changes, or the full history dropped it

vars ==
  <<now, ticked, file, store, worker, dest, ids, begun, began, ever, lost>>

Store == Worker \cup {"tab"}
Time  == 1 .. MaxTime
Run   == [job : Job, started : Time, ok : BOOLEAN]

Content  == [jobs : SUBSET Job, runs : Seq(Run)]
Artifact == [job : Job, started : Time, modified : Time]

Idle == [pc |-> "idle"]
Busy == [pc : {"upload", "prune", "delete", "record"},
         by : {"clock", "user"}, store : Store,
         todo : Seq(Job), started : Time, ok : BOOLEAN, doomed : SUBSET Artifact]

\* The stores somebody holds.
Live(work) == {"tab"} \cup {work[w].store : w \in {v \in Worker : work[v] # Idle}}

TypeOK ==
  /\ now \in Time
  /\ ticked \in BOOLEAN
  /\ file \in Content /\ Len(file.runs) <= MaxRuns
  /\ DOMAIN store = Live(worker) /\ \A s \in DOMAIN store : store[s] \in Content
  /\ worker \in [Worker -> Busy \cup {Idle}]
  /\ dest \subseteq ever /\ ever \subseteq Artifact
  /\ file.jobs \subseteq ids /\ ids \subseteq Job
  /\ begun \in 0 .. MaxBegun
  /\ began \in [Job -> Time \cup {0}]
  /\ lost \subseteq Job

Init ==
  /\ now = 1
  /\ ticked = FALSE
  /\ file \in [jobs : SUBSET Job, runs : {<<>>}]
  /\ store = [s \in {"tab"} |-> file]
  /\ worker = [w \in Worker |-> Idle]
  /\ dest = {}
  /\ ids = file.jobs
  /\ begun = 0
  /\ began = [j \in Job |-> 0]
  /\ ever = {}
  /\ lost = {}

-----------------------------------------------------------------------------
(***************************************************************************)
(* Who starts runs.                                                        *)
(***************************************************************************)

\* last_run: the newest in the list, failed ones included.
RunsFor(c, j) == {i \in DOMAIN c.runs : c.runs[i].job = j}
LastRun(c, j) ==
  c.runs[CHOOSE i \in RunsFor(c, j) : \A k \in RunsFor(c, j) : k <= i]

NextDue(j, t) == IF j \in Daily THEN (t \div Period + 1) * Period ELSE t + Period

\* Mutant: only a run that succeeded counts.
DueJobs_OkOnly(c) ==
  {j \in c.jobs \cap Clocked :
     \A i \in RunsFor(c, j) : c.runs[i].ok => NextDue(j, c.runs[i].started) <= now}

DueJobs(c) ==
  {j \in c.jobs \cap Clocked :
     RunsFor(c, j) # {} => NextDue(j, LastRun(c, j).started) <= now}

\* Bound: two runs of a job begin at different times, so that no two artifacts
\* have one name (names count seconds).
Unnamed(j) ==
  /\ \A a \in ever : a.job # j \/ a.started # now
  /\ \A w \in Worker :
       worker[w] # Idle => worker[w].started # now \/ Head(worker[w].todo) # j

Begin(n) ==
  /\ begun + n <= MaxBegun
  /\ begun' = begun + n

Task(who, s, todo) ==
  [pc |-> "upload", by |-> who, store |-> s, todo |-> todo, started |-> now,
   ok |-> FALSE, doomed |-> {}]

\* A new store, called after a worker, reads the file.
Load(s) == [r \in DOMAIN store \cup {s} |-> IF r = s THEN file ELSE store[r]]

\* _run_due_backups: a new store, and a thread for each due job.
Tick ==
  /\ ~ ticked
  /\ ticked' = TRUE
  /\ Begin(Cardinality(DueJobs(file)))
  /\ \E s \in Worker, thread \in [DueJobs(file) -> Worker] :
       /\ s \notin DOMAIN store
       /\ \A j \in DueJobs(file) : Unnamed(j)
       /\ \A j \in DueJobs(file) : worker[thread[j]] = Idle
       /\ \A j, k \in DueJobs(file) : thread[j] = thread[k] => j = k
       /\ store' = IF DueJobs(file) = {} THEN store ELSE Load(s)
       /\ worker' = [w \in Worker |->
                       IF \E j \in DueJobs(file) : thread[j] = w
                         THEN Task("clock", s, <<CHOOSE j \in DueJobs(file) : thread[j] = w>>)
                         ELSE worker[w]]
  /\ began' = [j \in Job |-> IF j \in DueJobs(file) THEN now ELSE began[j]]
  /\ UNCHANGED <<now, file, dest, ids, ever, lost>>

\* sqlide-backup run, for one job or (--all) for one after the other.
Headless(w, todo) ==
  /\ worker[w] = Idle /\ w \notin DOMAIN store
  /\ Unnamed(todo[1])
  /\ Begin(Len(todo))
  /\ \A i \in DOMAIN todo : todo[i] \in file.jobs
  /\ store' = Load(w)
  /\ worker' = [worker EXCEPT ![w] = Task("user", w, todo)]
  /\ UNCHANGED <<now, ticked, file, dest, ids, began, ever, lost>>

-----------------------------------------------------------------------------
(***************************************************************************)
(* BackupStore.                                                            *)
(***************************************************************************)
\* The jobs that are left with no run in the history.
Dropped(old, new) ==
  {j \in new.jobs : RunsFor(old, j) # {} /\ RunsFor(new, j) = {}}

Save(s, content) ==
  /\ store' = [r \in Live(worker') |-> IF r = s THEN content ELSE store[r]]
  /\ file' = content
  /\ lost' = lost \cup (IF store[s] # file THEN Job ELSE Dropped(file, content))

Newest(runs) == SubSeq(runs, IF Len(runs) > MaxRuns THEN Len(runs) - MaxRuns + 1
                                                    ELSE 1, Len(runs))

Recorded(c, run) == [c EXCEPT !.runs = Newest(Append(@, run))]

\* The tab is opened: its store reads the file.
OpenTab ==
  /\ \A w \in Worker : worker[w] # Idle => worker[w].store # "tab"
  /\ store' = Load("tab")
  /\ UNCHANGED <<now, ticked, file, worker, dest, ids, begun, began, ever, lost>>

NewJob(j) ==
  /\ j \notin ids
  /\ ids' = ids \cup {j}
  /\ UNCHANGED worker
  /\ Save("tab", [store["tab"] EXCEPT !.jobs = @ \cup {j}])
  /\ UNCHANGED <<now, ticked, dest, begun, began, ever>>

\* The runs of the other jobs, in their order (counted, not SelectSeq, of which
\* nothing can be proved).
Rank(kept, i) == Cardinality({k \in kept : k <= i})
Without(runs, j) ==
  LET kept == {i \in DOMAIN runs : runs[i].job # j}
  IN  [n \in 1 .. Cardinality(kept) |-> runs[CHOOSE i \in kept : Rank(kept, i) = n]]

\* remove_job: the job and its history.
DeleteJob(j) ==
  /\ j \in store["tab"].jobs
  /\ UNCHANGED worker
  /\ Save("tab", [jobs |-> store["tab"].jobs \ {j}, runs |-> Without(store["tab"].runs, j)])
  /\ UNCHANGED <<now, ticked, dest, ids, begun, began, ever>>

\* Back Up Now saves the edited job first; one run at a time in the tab.
RunNow(w, j) ==
  /\ worker[w] = Idle
  /\ Unnamed(j)
  /\ Begin(1)
  /\ j \in store["tab"].jobs
  /\ \A v \in Worker : worker[v] # Idle => worker[v].store # "tab"
  /\ worker' = [worker EXCEPT ![w] = Task("user", "tab", <<j>>)]
  /\ Save("tab", store["tab"])
  /\ UNCHANGED <<now, ticked, dest, ids, began, ever>>

-----------------------------------------------------------------------------
(***************************************************************************)
(* run_job.                                                                *)
(***************************************************************************)
Work(w, pc) == worker[w] # Idle /\ worker[w].pc = pc
Goto(w, pc) == worker' = [worker EXCEPT ![w].pc = pc]
Fails(w)    == worker' = [worker EXCEPT ![w] =
                            [worker[w] EXCEPT !.pc = "record", !.ok = FALSE]]
JobOf(w)    == Head(worker[w].todo)

\* The connection is dumped into a temporary file, and that uploaded.
Upload(w) ==
  LET a == [job |-> JobOf(w), started |-> worker[w].started, modified |-> now]
  IN /\ Work(w, "upload")
     /\ dest' = dest \cup {a}
     /\ ever' = ever \cup {a}
     /\ worker' = [worker EXCEPT ![w] =
                     [worker[w] EXCEPT !.pc = IF Keep = 0 THEN "record" ELSE "prune",
                                       !.ok = TRUE]]
     /\ UNCHANGED <<now, ticked, file, store, ids, begun, began, lost>>

\* No destination, no connection, a failing dump tool, a failing upload.
UploadFails(w) ==
  /\ Work(w, "upload")
  /\ Fails(w)
  /\ UNCHANGED <<now, ticked, file, store, dest, ids, begun, began, ever, lost>>

\* The order of a listing: newest first, equals by name.
Newer(a, b) ==
  \/ a.modified > b.modified
  \/ a.modified = b.modified /\ a.started < b.started

Mine(w) == {a \in dest : a.job = JobOf(w) \/ <<JobOf(w), a.job>> \in Prefix}

\* Mutant: the oldest are kept.
Doomed_Oldest(w) ==
  {a \in Mine(w) : Cardinality({b \in Mine(w) : Newer(a, b)}) >= Keep}

\* mine[job.keep:]
Doomed(w) == {a \in Mine(w) : Cardinality({b \in Mine(w) : Newer(b, a)}) >= Keep}

Prune(w) ==
  /\ Work(w, "prune")
  /\ \/ worker' = [worker EXCEPT ![w] =
                      [worker[w] EXCEPT !.doomed = Doomed(w),
                                        !.pc = IF Doomed(w) = {} THEN "record" ELSE "delete"]]
     \/ Fails(w)
  /\ UNCHANGED <<now, ticked, file, store, dest, ids, begun, began, ever, lost>>

\* One request for each; the first that fails ends the run as failed.
Delete(w) ==
  /\ Work(w, "delete")
  /\ \/ \E a \in worker[w].doomed :
          /\ dest' = dest \ {a}
          /\ worker' = [worker EXCEPT ![w] =
                [worker[w] EXCEPT !.doomed = @ \ {a},
                                  !.pc = IF worker[w].doomed = {a} THEN "record" ELSE @]]
     \/ Fails(w) /\ UNCHANGED dest
  /\ UNCHANGED <<now, ticked, file, store, ids, begun, began, ever, lost>>

\* The finally of run_job; then the next job of sqlide-backup run --all.
Record(w) ==
  LET s   == worker[w].store
      run == [job |-> JobOf(w), started |-> worker[w].started, ok |-> worker[w].ok]
  IN /\ Work(w, "record")
     /\ Len(worker[w].todo) > 1 => Unnamed(worker[w].todo[2])
     /\ worker' = [worker EXCEPT ![w] =
                     IF Len(@.todo) = 1 THEN Idle ELSE Task(@.by, s, Tail(@.todo))]
     /\ Save(s, Recorded(store[s], run))
     /\ UNCHANGED <<now, ticked, dest, ids, begun, began, ever>>

\* The process ends under its run, which is not recorded.
Killed(w) ==
  /\ worker[w] # Idle
  /\ worker' = [worker EXCEPT ![w] = Idle]
  /\ began' = IF worker[w].by = "clock" THEN [began EXCEPT ![JobOf(w)] = 0] ELSE began
  /\ store' = [r \in Live(worker') |-> store[r]]
  /\ UNCHANGED <<now, ticked, file, dest, ids, begun, ever, lost>>

Minute ==
  /\ now < MaxTime
  /\ now' = now + 1
  /\ ticked' = FALSE
  /\ UNCHANGED <<file, store, worker, dest, ids, begun, began, ever, lost>>

Next ==
  \/ Tick \/ Minute \/ OpenTab
  \/ \E j \in Job : NewJob(j) \/ DeleteJob(j)
  \/ \E w \in Worker :
       \/ \E j \in Job : RunNow(w, j) \/ Headless(w, <<j>>)
       \/ \E todo \in [1 .. 2 -> Job] : todo[1] # todo[2] /\ Headless(w, todo)
       \/ Upload(w) \/ UploadFails(w) \/ Prune(w) \/ Delete(w)
       \/ Record(w) \/ Killed(w)

Spec == Init /\ [][Next]_vars

-----------------------------------------------------------------------------
(***************************************************************************)
(* Properties.                                                             *)
(***************************************************************************)

\* Retention, whatever prunes overlap and fail: an artifact is gone only if
\* Keep newer ones of the same job are there.
NewestKept ==
  \A a \in ever \ dest :
    /\ Keep > 0
    /\ Cardinality({b \in dest : b.job = a.job /\ Newer(b, a)}) >= Keep

InProgress(j) ==
  \E w \in Worker : worker[w] # Idle /\ \E i \in DOMAIN worker[w].todo : worker[w].todo[i] = j

\* "Catch-up, not a storm": the clock starts a job once for a slot, unless a
\* run of it is in progress, a store saved over the record of it, or the full
\* history has dropped it.
OnceASlot ==
  [][\A j \in Job :
       began[j] # 0 /\ began'[j] = now /\ began[j] # now =>
         \/ NextDue(j, began[j]) <= now
         \/ InProgress(j)
         \/ j \in lost]_vars

\* "Runs the missed daily backup once": no two runs that the clock started
\* of one job at a time.
NoStorm ==
  \A v, w \in Worker :
    /\ worker[v] # Idle /\ worker[w] # Idle /\ v # w
    /\ worker[v].by = "clock" /\ worker[w].by = "clock"
    => JobOf(v) # JobOf(w)
=============================================================================
