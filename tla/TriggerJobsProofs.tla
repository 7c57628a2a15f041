--------------------------- MODULE TriggerJobsProofs ---------------------------
(***************************************************************************)
(* What TriggerJobs guarantees for every set of jobs, triggers and worker  *)
(* processes, all limits and any number of crashes: its types, one session *)
(* per trigger, one session per job, a job table that agrees with the run  *)
(* log, and runs within their limits.  At the end, the same for the        *)
(* schedule cursor that creates the jobs (ScheduleCursor).                 *)
(***************************************************************************)
EXTENDS TriggerJobs, ScheduleCursor, FiniteSetTheorems, FunctionTheorems,
        TLAPS

\* The bounds are numbers, and the limits are positive.
LEMMA Bounds ==
  /\ MaxNow \in Nat /\ MaxStarts \in Nat /\ MaxCrashes \in Nat /\ MinInterval \in Nat
  /\ Retry \in Nat /\ Day \in Nat \ {0} /\ MaxRunsPerDay \in Nat \ {0}
  /\ Fired \subseteq Jobs /\ NoJob \notin Jobs /\ IsFiniteSet(Jobs) /\ IsFiniteSet(Workers)
BY TriggerAssumption DEF TriggerAssumption

USE Bounds

On(w) == worker[w].phase # "off"
Holds(w) == worker[w].phase \in Holding
AtWork == {"claimed", "running", "ended"}
Counting == {"planned", "claimed", "running", "ended", "recorded"}
TriggerOf(w) == Trigger[worker[w].job]

\* Which job a run id was ever used for.
Uses ==
  {<<worker[w].run, worker[w].job>> : w \in {v \in Workers : On(v)}}
    \cup {<<h.run, h.job>> : h \in hosts}
    \cup {<<b.run, b.job>> : b \in begun}
    \cup {<<log[i].run, log[i].job>> : i \in DOMAIN log}
    \cup {<<jobs[j].run, j>> : j \in {i \in Jobs : jobs[i].run # 0}}

\* A run id names one run of one job: at most one process and session.
Ids ==
  /\ \A u \in Uses : u[1] \in 1..starts
  /\ \A u, v \in Uses : u[1] = v[1] => u[2] = v[2]
  /\ \A v, w \in Workers : On(v) /\ On(w) /\ worker[v].run = worker[w].run => v = w
  /\ \A b, c \in begun : b.run = c.run => b = c

\* The records of a run, of which there is a first and a newest one: one that is not the
\* first counts, and says the same time.
First(i) == \A k \in RecordsOf(log[i].run) : i <= k
Records ==
  /\ \A i, k \in DOMAIN log :
       log[i].run = log[k].run /\ i < k => log[i].at = log[k].at /\ ~log[k].skipped
  /\ \A i \in DOMAIN log : \E k \in DOMAIN log : log[k].run = log[i].run /\ First(k)
  /\ \A run \in 1..MaxStarts : RecordsOf(run) # {} =>
       \E k \in DOMAIN log : Newest(k, RecordsOf(run))

\* One holder of the lease of a trigger: a worker, alone or with the session it
\* started, or a session whose worker died.
OneHolder ==
  /\ \A v, w \in Workers : Holds(v) /\ Holds(w) /\ TriggerOf(v) = TriggerOf(w) => v = w
  /\ SingleFlight
  /\ \A w \in Workers, h \in hosts :
       Holds(w) /\ TriggerOf(w) = Trigger[h.job] =>
         worker[w].phase = "running" /\ worker[w].run = h.run

\* Where a worker stands, against the table, the sessions and the log.
Stands(w) ==
  /\ worker[w].phase \in Holding \ {"planned"} =>
       jobs[worker[w].job].state = "running" /\ jobs[worker[w].job].pid = worker[w].run
  /\ worker[w].phase \in Holding \ {"planned", "repeated"} =>
       jobs[worker[w].job].run = worker[w].run
  /\ worker[w].phase \in {"start", "looked", "planned", "claimed"} =>
       \A b \in begun : b.run # worker[w].run
  /\ worker[w].phase \in {"start", "looked", "planned", "claimed", "running", "ended", "repeated"} =>
       \A i \in DOMAIN log : log[i].run # worker[w].run
  /\ worker[w].phase \in Settling =>
       \E i \in DOMAIN log :
         Newest(i, RecordsOf(jobs[worker[w].job].run)) /\ log[i].code = worker[w].code
  /\ On(w) => \A i \in DOMAIN log : log[i].run = worker[w].run => log[i].at = worker[w].at
Standing == \A w \in Workers : Stands(w)

\* A session that began has a claimed job of its own, and records that are true to it.
Begun ==
  \A b \in begun :
    /\ b.job \notin Fired => /\ jobs[b.job].state \in {"running", "completed", "failed"}
                             /\ jobs[b.job].run = b.run
    /\ \A i \in DOMAIN log : log[i].run = b.run => ~log[i].skipped /\ log[i].at = b.at
    /\ \A w \in Workers : On(w) /\ worker[w].run = b.run => worker[w].at = b.at

\* As long as nothing is killed, a session that began is recorded or its worker holds
\* the lease, and a worker that decided to run its job is the first to.
Tracked ==
  crashes = 0 =>
    /\ \A b \in begun :
         \/ \E i \in DOMAIN log : log[i].run = b.run
         \/ \E w \in Workers : worker[w].phase \in {"running", "ended"} /\ worker[w].run = b.run
    /\ \A w \in Workers, b \in begun :
         worker[w].phase \in {"planned", "claimed"} => b.job # worker[w].job
    /\ \A b, c \in begun : b.job = c.job => b = c

\* The runs of a trigger in the log keep the limits, each counted at its first record,
\* and so does the run that a worker with the lease is about to record.
Firsts(t) == {i \in Runs(t) : First(i)}
Neighbours(k) == {i \in Firsts(Trigger[log[k].job]) \ {k} :
                    log[i].at <= log[k].at /\ log[k].at < log[i].at + Day}
LogLimits ==
  /\ \A t \in Triggers : Runs(t) # {} => \E i \in Runs(t) : Newest(i, Runs(t))
  /\ \A t \in Triggers : \A i, k \in Runs(t) :
       i < k /\ log[i].run # log[k].run => log[k].at >= log[i].at + MinInterval
  /\ \A t \in Triggers : \A k \in Firsts(t) : Cardinality(Neighbours(k)) < MaxRunsPerDay
Distant(t, run, at) == \A i \in Runs(t) : log[i].run # run => at >= log[i].at + MinInterval
WorkerLimits ==
  \A w \in Workers :
    /\ worker[w].phase \in Counting => Distant(TriggerOf(w), worker[w].run, worker[w].at)
    /\ worker[w].phase \in {"planned"} \cup AtWork => ~OverLimit(TriggerOf(w), worker[w].at)

IInv == /\ TypeOK /\ Ids /\ Records /\ OneHolder /\ Standing /\ Begun /\ Tracked
        /\ LogAndTableAgree /\ LogLimits /\ WorkerLimits

-----------------------------------------------------------------------------
\* Types

EntryType == [job : Jobs, run : 1..MaxStarts, at : Nat, code : Nat, skipped : BOOLEAN]
LockType == [run : 0..MaxStarts, at : Nat]

\* Postponing, claiming and finishing leave a job table.
LEMMA JobTables ==
  ASSUME NEW table \in [Jobs -> JobType], NEW j \in Jobs, NEW available \in Nat,
         NEW run \in Nat, NEW pid \in Nat, NEW state \in States
  PROVE  /\ [table EXCEPT ![j].available = available] \in [Jobs -> JobType]
         /\ [table EXCEPT ![j].state = state] \in [Jobs -> JobType]
         /\ [table EXCEPT ![j].state = state, ![j].run = run, ![j].pid = pid] \in [Jobs -> JobType]
BY DEF JobType

LEMMA FinishedType ==
  ASSUME TypeOK, NEW j \in Jobs, NEW code
  PROVE  Finished(j, code) \in [Jobs -> JobType]
<1>1. (IF code = 0 THEN "completed" ELSE "failed") \in States
  BY DEF States
<1>2. jobs \in [Jobs -> JobType]
  BY DEF TypeOK
<1>3. PICK state \in States : state = IF code = 0 THEN "completed" ELSE "failed"
  BY <1>1
<1>4. [jobs EXCEPT ![j].state = state] \in [Jobs -> JobType]
  BY <1>2 DEF JobType
<1> QED
  BY <1>2, <1>3, <1>4 DEF Finished

LEMMA ClaimedType ==
  ASSUME TypeOK, NEW j \in Jobs, NEW run \in Nat, NEW pid \in Nat
  PROVE  Claimed(j, run, pid) \in [Jobs -> JobType]
<1>1. "running" \in States /\ 0 \in Nat
  BY DEF States
<1> QED
  BY <1>1, JobTables DEF Claimed, TypeOK

LEMMA DeferredType ==
  ASSUME TypeOK, NEW j \in Jobs, NEW available \in Nat
  PROVE  Deferred(j, available) \in [Jobs -> JobType]
BY DEF Deferred, TypeOK, JobType

LEMMA InsertType ==
  ASSUME TypeOK, NEW j \in Jobs, NEW due \in Nat, Insert(j, due)
  PROVE  jobs' \in [Jobs -> JobType]
<1>1. Cardinality(Created) \in Nat
  <2>1. Created \in SUBSET Jobs
    BY DEF Created
  <2> QED
    BY <2>1, FS_Subset, FS_CardinalityType
<1> QED
  BY <1>1 DEF Insert, JobType, States, TypeOK

\* A worker that goes on, or exits, is a worker.
WorkersTyped(table) ==
  /\ table \in [Workers -> ProcessType]
  /\ \A w \in Workers : table[w].phase # "off" => table[w].job \in Jobs

LEMMA GotoType ==
  ASSUME TypeOK, NEW w \in Workers, On(w), NEW phase \in Holding \cup {"looked"},
         NEW code \in Nat, Goto(w, phase, code)
  PROVE  WorkersTyped(worker')
<1>1. worker[w] \in ProcessType /\ worker[w].job \in Jobs
  BY DEF TypeOK, On
<1>2. [worker[w] EXCEPT !.phase = phase, !.code = code] \in ProcessType
  BY <1>1 DEF ProcessType
<1>3. worker' = [worker EXCEPT ![w] = [worker[w] EXCEPT !.phase = phase, !.code = code]]
  BY DEF Goto
<1>4. [worker[w] EXCEPT !.phase = phase, !.code = code].job = worker[w].job
  BY <1>1 DEF ProcessType
<1> QED
  BY <1>1, <1>2, <1>3, <1>4 DEF TypeOK, WorkersTyped

LEMMA ExitType ==
  ASSUME TypeOK, NEW w \in Workers, Exit(w)
  PROVE  WorkersTyped(worker')
<1>1. Off \in ProcessType /\ Off.phase = "off"
  BY DEF Off, ProcessType
<1> QED
  BY <1>1 DEF Exit, TypeOK, WorkersTyped

LEMMA StartedType ==
  ASSUME TypeOK, NEW w \in Workers, NEW j \in Jobs, NEW child \in BOOLEAN,
         worker' = [worker EXCEPT ![w] = Started(j, child)]
  PROVE  WorkersTyped(worker')
<1>1. Started(j, child) \in ProcessType /\ Started(j, child).job \in Jobs
  BY DEF Started, ProcessType, TypeOK
<1> QED
  BY <1>1 DEF TypeOK, WorkersTyped

\* The run id of a process is one of those handed out.
LEMMA RunOfWorker ==
  ASSUME TypeOK, Ids, NEW w \in Workers, On(w)
  PROVE  worker[w].run \in 1..MaxStarts /\ worker[w].run \in 1..starts
<1>1. <<worker[w].run, worker[w].job>> \in Uses
  BY DEF Uses
<1> QED
  BY <1>1 DEF Ids, TypeOK

LEMMA UnlockedType ==
  ASSUME TypeOK, NEW t, NEW run
  PROVE  Unlocked(t, run) \in [Triggers -> LockType]
<1>1. NoLock \in LockType /\ lock \in [Triggers -> LockType]
  BY DEF TypeOK, LockType, NoLock
<1> QED
  BY <1>1 DEF Unlocked

\* Every step keeps the types.
Counted == now' \in 0..MaxNow /\ starts' \in 0..MaxStarts /\ crashes' \in 0..MaxCrashes
           /\ sched' \in {"down", "up", "draining"}
           /\ pids' \in [0..MaxStarts -> {"own", "taken", "free"}]

LEMMA CountedStep == TypeOK /\ [Next]_vars => Counted
<1> SUFFICES ASSUME TypeOK, [Next]_vars PROVE Counted
  OBVIOUS
<1>t. /\ now \in 0..MaxNow /\ starts \in 0..MaxStarts /\ crashes \in 0..MaxCrashes
      /\ sched \in {"down", "up", "draining"}
      /\ pids \in [0..MaxStarts -> {"own", "taken", "free"}]
  BY DEF TypeOK
<1>k. ASSUME now' = now \/ (now < MaxNow /\ now' = now + 1),
             starts' = starts \/ (starts < MaxStarts /\ starts' = starts + 1),
             crashes' = crashes \/ (crashes < MaxCrashes /\ crashes' = crashes + 1),
             sched' \in {sched, "down", "up", "draining"},
             \/ pids' = pids
             \/ \E run : \E pid \in {"taken", "free"} : pids' = [pids EXCEPT ![run] = pid]
      PROVE  Counted
  BY <1>t, <1>k DEF Counted
<1>1. CASE UNCHANGED vars
  BY <1>1, <1>k DEF vars
<1>2. CASE Tick \/ SchedulerStart \/ SchedulerStop \/ SchedulerExit \/ SchedulerCrash
  BY <1>2, <1>k DEF Tick, SchedulerStart, SchedulerStop, SchedulerExit, SchedulerCrash
<1>3. ASSUME NEW j \in Jobs,
             \/ \E due \in now..now + 1 : Create(j, due)
             \/ Accept(j) \/ Cancel(j) \/ LaunchFail(j) \/ Reconcile(j)
             \/ \E code \in {0, 1} : FireDirectly(j, code)
             \/ \E w \in Workers : Launch(j, w) \/ StartByHand(j, w)
      PROVE  Counted
  <2>1. CASE \/ \E due \in now..now + 1 : Create(j, due)
             \/ Accept(j) \/ Cancel(j) \/ LaunchFail(j) \/ Reconcile(j)
    BY <1>k, <2>1 DEF Create, Accept, Insert, Cancel, LaunchFail, Reconcile
  <2>2. CASE \E code \in {0, 1} : FireDirectly(j, code)
    BY <1>k, <2>2 DEF FireDirectly
  <2>3. CASE \E w \in Workers : Launch(j, w) \/ StartByHand(j, w)
    BY <1>k, <2>3 DEF Launch, StartByHand
  <2> QED
    BY <1>3, <2>1, <2>2, <2>3
<1>4. ASSUME NEW w \in Workers,
             \/ Look(w) \/ Postpone(w) \/ Repeat(w) \/ Limited(w) \/ Plan(w) \/ Claim(w)
             \/ StartHost(w) \/ Record(w) \/ NoMatch(w) \/ Throw(w) \/ Finish(w)
             \/ WorkerCrash(w)
      PROVE  Counted
  <2>1. UNCHANGED <<now, sched, starts, pids>>
    BY <1>4 DEF Look, Postpone, Repeat, Limited, Plan, Claim, StartHost, Record, NoMatch, Throw,
                Append1, Finish, WorkerCrash
  <2>2. crashes' = crashes \/ (crashes < MaxCrashes /\ crashes' = crashes + 1)
    BY <1>4 DEF Look, Postpone, Repeat, Limited, Plan, Claim, StartHost, Record, NoMatch, Throw,
                Append1, Finish, WorkerCrash
  <2> QED
    BY <1>k, <2>1, <2>2
<1>5. ASSUME NEW h \in hosts, NEW code \in {0, 1}, HostEnd(h, code)
      PROVE  Counted
  BY <1>5, <1>k DEF HostEnd
<1>6. ASSUME NEW run \in 1..starts, Recycle(run) \/ Vacate(run)
      PROVE  Counted
  BY <1>6, <1>k DEF Recycle, Vacate
<1> QED
  BY <1>1, <1>2, <1>3, <1>4, <1>5, <1>6 DEF Next

LEMMA TypeStep == TypeOK /\ Ids /\ [Next]_vars => TypeOK'
<1> SUFFICES ASSUME TypeOK, Ids, [Next]_vars PROVE TypeOK'
  OBVIOUS
<1>c. Counted
  BY CountedStep
<1>t. /\ now \in Nat /\ starts \in Nat /\ crashes \in Nat /\ jobs \in [Jobs -> JobType]
      /\ log \in Seq(EntryType) /\ worker \in [Workers -> ProcessType]
      /\ hosts \subseteq [job : Jobs, run : 1..MaxStarts]
      /\ begun \subseteq [job : Jobs, run : 1..MaxStarts, at : Nat]
      /\ lock \in [Triggers -> LockType] /\ WorkersTyped(worker)
  BY DEF TypeOK, EntryType, LockType, WorkersTyped
<1>q. ASSUME jobs' \in [Jobs -> JobType], log' \in Seq(EntryType),
             lock' \in [Triggers -> LockType], WorkersTyped(worker'),
             hosts' \subseteq [job : Jobs, run : 1..MaxStarts],
             begun' \subseteq [job : Jobs, run : 1..MaxStarts, at : Nat]
      PROVE  TypeOK'
  BY <1>c, <1>q DEF Counted, TypeOK, EntryType, LockType, WorkersTyped
<1>w. ASSUME NEW w \in Workers, On(w)
      PROVE  /\ worker[w].run \in 1..MaxStarts /\ worker[w].run \in Nat /\ worker[w].job \in Jobs
             /\ worker[w].at \in Nat /\ worker[w].code \in Nat
  BY <1>w, RunOfWorker DEF TypeOK, ProcessType, On
<1>1. CASE UNCHANGED vars
  BY <1>1, <1>t, <1>q DEF vars
<1>2. CASE \/ Tick \/ SchedulerStart \/ SchedulerStop \/ SchedulerExit
           \/ \E run \in 1..starts : Recycle(run) \/ Vacate(run)
  BY <1>2, <1>t, <1>q DEF Tick, SchedulerStart, SchedulerStop, SchedulerExit, Recycle, Vacate
<1>3. CASE SchedulerCrash
  <2>1. worker' = [w \in Workers |-> [worker[w] EXCEPT !.child = FALSE]]
    BY <1>3 DEF SchedulerCrash
  <2>2. \A w \in Workers : /\ [worker[w] EXCEPT !.child = FALSE] \in ProcessType
                           /\ [worker[w] EXCEPT !.child = FALSE].phase = worker[w].phase
                           /\ [worker[w] EXCEPT !.child = FALSE].job = worker[w].job
    BY <1>t DEF ProcessType
  <2>3. WorkersTyped(worker')
    BY <1>t, <2>1, <2>2 DEF WorkersTyped
  <2> QED
    BY <1>3, <1>t, <1>q, <2>3 DEF SchedulerCrash
<1>4. ASSUME NEW j \in Jobs,
             \/ \E due \in now..now + 1 : Create(j, due)
             \/ Accept(j) \/ Cancel(j) \/ LaunchFail(j) \/ Reconcile(j)
             \/ \E code \in {0, 1} : FireDirectly(j, code)
             \/ \E w \in Workers : Launch(j, w) \/ StartByHand(j, w)
      PROVE  TypeOK'
  <2>1. ASSUME NEW due \in now..now + 1, Create(j, due) \/ Accept(j) PROVE TypeOK'
    <3>1. PICK at \in Nat : Insert(j, at)
      BY <1>t, <2>1 DEF Create, Accept
    <3> QED
      BY <1>t, <1>q, <3>1, InsertType DEF Insert
  <2>2. CASE Cancel(j)
    <3>1. jobs' \in [Jobs -> JobType]
      BY <1>t, <2>2, JobTables DEF Cancel, States
    <3> QED
      BY <1>t, <1>q, <2>2, <3>1 DEF Cancel
  <2>3. CASE LaunchFail(j)
    BY <1>t, <1>q, <2>3, DeferredType DEF LaunchFail
  <2>4. CASE Reconcile(j)
    BY <1>t, <1>q, <2>4, FinishedType DEF Reconcile
  <2>5. ASSUME NEW code \in {0, 1}, FireDirectly(j, code) PROVE TypeOK'
    <3>1. starts + 1 \in 1..MaxStarts
      BY <1>t, <2>5 DEF FireDirectly
    <3>2. Entry(j, starts + 1, now, code, FALSE) \in EntryType
      BY <1>t, <3>1 DEF Entry, EntryType
    <3> QED
      BY <1>t, <1>q, <2>5, <3>1, <3>2 DEF FireDirectly
  <2>6. ASSUME NEW w \in Workers, Launch(j, w) \/ StartByHand(j, w) PROVE TypeOK'
    <3>1. \E child \in BOOLEAN : worker' = [worker EXCEPT ![w] = Started(j, child)]
      BY <2>6 DEF Launch, StartByHand
    <3> QED
      BY <1>t, <1>q, <2>6, <3>1, StartedType DEF Launch, StartByHand
  <2>7. now \in now..now + 1
    BY <1>t
  <2> QED
    BY <1>4, <2>1, <2>2, <2>3, <2>4, <2>5, <2>6, <2>7
<1>5. ASSUME NEW w \in Workers,
             \/ Look(w) \/ Postpone(w) \/ Repeat(w) \/ Limited(w) \/ Plan(w) \/ Claim(w)
             \/ StartHost(w) \/ Record(w) \/ NoMatch(w) \/ Throw(w) \/ Finish(w)
             \/ WorkerCrash(w)
      PROVE  TypeOK'
  <2>0. On(w)
    BY <1>5 DEF On, Look, Postpone, Repeat, Limited, Plan, Claim, StartHost, Record, NoMatch, Throw,
                Finish, WorkerCrash, Settling
  <2>w. /\ worker[w].run \in 1..MaxStarts /\ worker[w].run \in Nat /\ worker[w].job \in Jobs
        /\ worker[w].at \in Nat /\ worker[w].code \in Nat
    BY <1>w, <2>0
  <2>d. \A available \in Nat : Deferred(worker[w].job, available) \in [Jobs -> JobType]
    BY <2>w, DeferredType
  <2>l. \A i \in DOMAIN log : log[i].at \in Nat /\ log[i].run \in Nat /\ log[i].code \in Nat
    <3>1. \A i \in DOMAIN log : log[i] \in EntryType
      BY <1>t
    <3> QED
      BY <3>1 DEF EntryType
  <2>1. CASE Look(w)
    <3>1. WorkersTyped(worker')
      BY <2>0, <2>1, GotoType, ExitType DEF Look
    <3> QED
      BY <1>t, <1>q, <2>1, <3>1 DEF Look
  <2>2. CASE Postpone(w)
    BY <1>t, <1>q, <2>2, <2>d, <2>w, ExitType DEF Postpone
  <2>3. CASE Repeat(w)
    <3>1. PICK i \in RunsOf(worker[w].job) :
            IF Claimable(worker[w].job, worker[w].at)
            THEN jobs' = Claimed(worker[w].job, log[i].run, worker[w].run)
                 /\ Goto(w, "repeated", log[i].code)
            ELSE Exit(w) /\ UNCHANGED jobs
      BY <2>3 DEF Repeat
    <3>2. i \in DOMAIN log
      BY DEF RunsOf, Runs
    <3>3. log[i].run \in Nat /\ log[i].code \in Nat /\ "repeated" \in Holding
      BY <2>l, <3>2 DEF Holding
    <3>4. jobs' \in [Jobs -> JobType]
      BY <1>t, <2>w, <3>1, <3>3, ClaimedType
    <3>5. WorkersTyped(worker')
      BY <2>0, <3>1, <3>3, GotoType, ExitType
    <3> QED
      BY <1>t, <1>q, <2>3, <3>4, <3>5 DEF Repeat
  <2>4. CASE Limited(w)
    <3>1. \E available \in Nat : jobs' = Deferred(worker[w].job, available)
      <4>1. \A t, at : LastDay(t, at) \subseteq DOMAIN log /\ Runs(t) \subseteq DOMAIN log
        BY DEF LastDay, Runs
      <4> QED
        BY <2>4, <2>l, <4>1 DEF Limited
    <3> QED
      BY <1>t, <1>q, <2>4, <2>d, <3>1, ExitType DEF Limited
  <2>5. CASE Plan(w)
    <3>1. WorkersTyped(worker')
      BY <2>0, <2>5, GotoType DEF Plan, Holding
    <3>2. [run |-> worker[w].run, at |-> worker[w].at] \in LockType
      BY <2>w DEF LockType
    <3>3. lock' \in [Triggers -> LockType]
      BY <1>t, <2>5, <3>2 DEF Plan
    <3> QED
      BY <1>t, <1>q, <2>5, <3>1, <3>3 DEF Plan
  <2>6. CASE Claim(w)
    <3>1. WorkersTyped(worker')
      BY <2>0, <2>6, GotoType, ExitType DEF Claim, Holding
    <3>2. jobs' \in [Jobs -> JobType]
      <4>1. worker[w].at + Retry \in Nat
        BY <2>w
      <4> QED
        BY <2>6, <2>d, <2>w, <4>1, ClaimedType DEF Claim
    <3>3. lock' \in [Triggers -> LockType]
      BY <1>t, <2>6, UnlockedType DEF Claim
    <3> QED
      BY <1>t, <1>q, <2>6, <3>1, <3>2, <3>3 DEF Claim
  <2>7. CASE StartHost(w)
    <3>1. WorkersTyped(worker')
      BY <2>0, <2>7, GotoType DEF StartHost, Holding
    <3> QED
      BY <1>t, <1>q, <2>7, <2>w, <3>1 DEF StartHost
  <2>8. CASE Record(w) \/ NoMatch(w) \/ Throw(w)
    <3>1. PICK phase \in Holding, code \in Nat, skipped \in BOOLEAN : Append1(w, phase, code, skipped)
      BY <2>8, <2>w DEF Record, NoMatch, Throw, Holding
    <3>2. Entry(worker[w].job, worker[w].run, worker[w].at, code, skipped) \in EntryType
      BY <2>w DEF Entry, EntryType
    <3>3. WorkersTyped(worker')
      BY <2>0, <3>1, GotoType DEF Append1
    <3> QED
      BY <1>t, <1>q, <3>1, <3>2, <3>3 DEF Append1
  <2>9. CASE Finish(w)
    BY <1>t, <1>q, <2>9, <2>w, ExitType, FinishedType, UnlockedType DEF Finish
  <2>10. CASE WorkerCrash(w)
    <3>1. now + Retry \in Nat
      BY <1>t
    <3> QED
      BY <1>t, <1>q, <2>10, <2>d, <3>1, ExitType, UnlockedType DEF WorkerCrash
  <2> QED
    BY <1>5, <2>1, <2>2, <2>3, <2>4, <2>5, <2>6, <2>7, <2>8, <2>9, <2>10
<1>6. ASSUME NEW h \in hosts, NEW code \in {0, 1}, HostEnd(h, code)
      PROVE  TypeOK'
  <2>1. worker' = [w \in Workers |->
           IF worker[w].phase = "running" /\ worker[w].run = h.run
           THEN [worker[w] EXCEPT !.phase = "ended", !.code = code] ELSE worker[w]]
    BY <1>6 DEF HostEnd
  <2>2. \A w \in Workers : [worker[w] EXCEPT !.phase = "ended", !.code = code] \in ProcessType
    <3>1. code \in Nat /\ "ended" \in Holding \cup {"off", "start", "looked"}
      BY DEF Holding
    <3>2. \A w \in Workers : worker[w] \in ProcessType
      BY <1>t
    <3> QED
      BY <3>1, <3>2 DEF ProcessType
  <2>3. \A w \in Workers : [worker[w] EXCEPT !.phase = "ended", !.code = code].job = worker[w].job
    BY <1>t DEF ProcessType
  <2>4. WorkersTyped(worker')
    <3>1. \A w \in Workers : worker[w].phase = "running" => worker[w].job \in Jobs
      BY <1>t DEF WorkersTyped
    <3>2. \A w \in Workers : worker'[w] \in ProcessType
      BY <1>t, <2>1, <2>2
    <3>3. \A w \in Workers : worker'[w].phase # "off" => worker'[w].job \in Jobs
      BY <1>t, <2>1, <2>3, <3>1 DEF WorkersTyped
    <3>4. worker' \in [Workers -> ProcessType]
      BY <2>1, <3>2
    <3> QED
      BY <3>3, <3>4 DEF WorkersTyped
  <2> QED
    BY <1>6, <1>t, <1>q, <2>4 DEF HostEnd
<1> QED
  BY <1>1, <1>2, <1>3, <1>4, <1>5, <1>6 DEF Next

-----------------------------------------------------------------------------
\* What the ids of runs say: who has the same run has the same job.

LEMMA Owners ==
  ASSUME TypeOK, Ids
  PROVE  /\ \A w \in Workers : On(w) => worker[w].run \in 1..starts
         /\ \A h \in hosts : h.run \in 1..starts
         /\ \A b \in begun : b.run \in 1..starts
         /\ \A i \in DOMAIN log : log[i].run \in 1..starts
         /\ \A j \in Jobs : jobs[j].run \in 0..starts
         /\ \A w \in Workers, h \in hosts : On(w) /\ worker[w].run = h.run => h.job = worker[w].job
         /\ \A w \in Workers, b \in begun : On(w) /\ worker[w].run = b.run => b.job = worker[w].job
         /\ \A w \in Workers, j \in Jobs : On(w) /\ jobs[j].run = worker[w].run => j = worker[w].job
         /\ \A i \in DOMAIN log, b \in begun : log[i].run = b.run => log[i].job = b.job
         /\ \A i, k \in DOMAIN log : log[i].run = log[k].run => log[i].job = log[k].job
<1>1. /\ \A w \in Workers : On(w) => <<worker[w].run, worker[w].job>> \in Uses
      /\ \A h \in hosts : <<h.run, h.job>> \in Uses
      /\ \A b \in begun : <<b.run, b.job>> \in Uses
      /\ \A i \in DOMAIN log : <<log[i].run, log[i].job>> \in Uses
      /\ \A j \in Jobs : jobs[j].run # 0 => <<jobs[j].run, j>> \in Uses
  BY DEF Uses
<1>2. \A r, j : <<r, j>> \in Uses => r \in 1..starts
  BY DEF Ids
<1>3. \A r, i, j : <<r, i>> \in Uses /\ <<r, j>> \in Uses => i = j
  BY DEF Ids
<1>4. \A w \in Workers : On(w) => worker[w].run \in 1..starts
  BY <1>1, <1>2
<1>5. /\ \A h \in hosts : h.run \in 1..starts
      /\ \A b \in begun : b.run \in 1..starts
      /\ \A i \in DOMAIN log : log[i].run \in 1..starts
  BY <1>1, <1>2
<1>6. ASSUME NEW j \in Jobs PROVE jobs[j].run \in 0..starts
  <2>1. starts \in Nat
    BY DEF TypeOK
  <2>2. CASE jobs[j].run = 0
    BY <2>1, <2>2
  <2>3. CASE jobs[j].run # 0
    <3>1. jobs[j].run \in 1..starts
      BY <1>1, <1>2, <2>3
    <3> QED
      BY <2>1, <3>1
  <2> QED
    BY <2>2, <2>3
<1>7. \A w \in Workers, h \in hosts : On(w) /\ worker[w].run = h.run => h.job = worker[w].job
  <2> SUFFICES ASSUME NEW w \in Workers, NEW h \in hosts, On(w), worker[w].run = h.run
               PROVE  h.job = worker[w].job
    OBVIOUS
  <2>1. <<h.run, worker[w].job>> \in Uses /\ <<h.run, h.job>> \in Uses
    BY <1>1
  <2> QED
    BY <1>3, <2>1
<1>8. \A w \in Workers, b \in begun : On(w) /\ worker[w].run = b.run => b.job = worker[w].job
  <2> SUFFICES ASSUME NEW w \in Workers, NEW b \in begun, On(w), worker[w].run = b.run
               PROVE  b.job = worker[w].job
    OBVIOUS
  <2>1. <<b.run, worker[w].job>> \in Uses /\ <<b.run, b.job>> \in Uses
    BY <1>1
  <2> QED
    BY <1>3, <2>1
<1>9. \A w \in Workers, j \in Jobs : On(w) /\ jobs[j].run = worker[w].run => j = worker[w].job
  <2> SUFFICES ASSUME NEW w \in Workers, NEW j \in Jobs, On(w), jobs[j].run = worker[w].run
               PROVE  j = worker[w].job
    OBVIOUS
  <2>1. jobs[j].run # 0
    BY <1>4
  <2>2. <<jobs[j].run, j>> \in Uses /\ <<jobs[j].run, worker[w].job>> \in Uses
    BY <1>1, <2>1
  <2> QED
    BY <1>3, <2>2
<1>10. \A i \in DOMAIN log, b \in begun : log[i].run = b.run => log[i].job = b.job
  <2> SUFFICES ASSUME NEW i \in DOMAIN log, NEW b \in begun, log[i].run = b.run
               PROVE  log[i].job = b.job
    OBVIOUS
  <2>1. <<b.run, log[i].job>> \in Uses /\ <<b.run, b.job>> \in Uses
    BY <1>1
  <2> QED
    BY <1>3, <2>1
<1>11. \A i, k \in DOMAIN log : log[i].run = log[k].run => log[i].job = log[k].job
  <2> SUFFICES ASSUME NEW i \in DOMAIN log, NEW k \in DOMAIN log, log[i].run = log[k].run
               PROVE  log[i].job = log[k].job
    OBVIOUS
  <2>1. <<log[k].run, log[i].job>> \in Uses /\ <<log[k].run, log[k].job>> \in Uses
    BY <1>1
  <2> QED
    BY <1>3, <2>1
<1> QED
  BY <1>4, <1>5, <1>6, <1>7, <1>8, <1>9, <1>10, <1>11

\* A process that goes on, in the same phase or in another one.
Same(w) == /\ worker'[w].job = worker[w].job /\ worker'[w].run = worker[w].run
           /\ worker'[w].at = worker[w].at
Still(w) == Same(w) /\ worker'[w].phase = worker[w].phase /\ worker'[w].code = worker[w].code

LEMMA Unmoved == ASSUME NEW w, worker'[w] = worker[w] PROVE Still(w)
BY DEF Still, Same

\* What a step of a worker leaves alone.
LEMMA GotoFields ==
  ASSUME TypeOK, NEW w \in Workers, NEW phase, NEW code, Goto(w, phase, code)
  PROVE  /\ worker'[w].phase = phase /\ worker'[w].code = code /\ Same(w)
         /\ \A v \in Workers \ {w} : worker'[v] = worker[v] /\ Still(v)
<1>1. worker[w] \in ProcessType /\ worker \in [Workers -> ProcessType]
  BY DEF TypeOK
<1>2. worker' = [worker EXCEPT ![w] = [worker[w] EXCEPT !.phase = phase, !.code = code]]
  BY DEF Goto
<1> QED
  BY <1>1, <1>2 DEF ProcessType, Same, Still

LEMMA ExitFields ==
  ASSUME TypeOK, NEW w \in Workers, Exit(w)
  PROVE  /\ worker'[w] = Off /\ Off.phase = "off"
         /\ \A v \in Workers \ {w} : worker'[v] = worker[v] /\ Still(v)
BY DEF Exit, TypeOK, Off, Still, Same

\* No id is used anew by a step whose uses were there before.
LEMMA IdsKept ==
  ASSUME Ids, Uses' \subseteq Uses, UNCHANGED <<starts, begun>>,
         \A w \in Workers : On(w)' => On(w) /\ Same(w)
  PROVE  Ids'
BY DEF Ids, Same

\* Where a process stands does not change as long as it goes on, the log is the same, no
\* session begins under its run and its job is left alone.
LEMMA StandsStill ==
  ASSUME NEW w \in Workers, Stands(w), Still(w), UNCHANGED log,
         \A b \in begun' : b \in begun \/ b.run # worker[w].run,
         worker[w].phase \in Holding \ {"planned"} =>
           jobs'[worker[w].job] = jobs[worker[w].job]
  PROVE  Stands(w)'
<1>1. \A run : RecordsOf(run)' = RecordsOf(run)
  BY DEF RecordsOf
<1>2. Settling \subseteq Holding \ {"planned"}
  BY DEF Settling, Holding
<1> QED
  BY <1>1, <1>2 DEF Stands, Still, Same, On, Newest

LEMMA OffStands == ASSUME NEW w \in Workers, worker'[w] = Off PROVE Stands(w)'
<1>1. worker'[w].phase = "off" /\ "off" \notin Holding \cup Settling
  BY DEF Off, Holding, Settling
<1> QED
  BY <1>1 DEF Stands, On

\* As long as the log does not change, neither do the decisions that are drawn from it.
LEMMA SameLog ==
  ASSUME UNCHANGED log
  PROVE  /\ \A t : Runs(t)' = Runs(t)
         /\ \A run : RecordsOf(run)' = RecordsOf(run)
         /\ \A t, at : OverLimit(t, at)' = OverLimit(t, at)
         /\ \A t, run, at : Distant(t, run, at)' = Distant(t, run, at)
         /\ Records => Records'
         /\ LogLimits => LogLimits'
<1>1. \A t : Runs(t)' = Runs(t)
  BY DEF Runs
<1>2. \A t, at : LastDay(t, at)' = LastDay(t, at)
  BY <1>1 DEF LastDay
<1>3. \A run : RecordsOf(run)' = RecordsOf(run)
  BY DEF RecordsOf
<1>4. \A i : First(i)' = First(i)
  BY <1>3 DEF First
<1>5. \A t : Firsts(t)' = Firsts(t)
  BY <1>1, <1>4 DEF Firsts
<1>6. \A k : Neighbours(k)' = Neighbours(k)
  BY <1>5 DEF Neighbours
<1>7. Records => Records'
  BY <1>3, <1>4 DEF Records, Newest
<1>8. LogLimits => LogLimits'
  BY <1>1, <1>5, <1>6 DEF LogLimits, Newest
<1>9. /\ \A t, at : OverLimit(t, at)' = OverLimit(t, at)
      /\ \A t, run, at : Distant(t, run, at)' = Distant(t, run, at)
  BY <1>1, <1>2 DEF OverLimit, Distant
<1> QED
  BY <1>1, <1>3, <1>7, <1>8, <1>9

\* The limits hold as long as the log is the same and no worker was let through anew.
LEMMA LimitsKept ==
  ASSUME IInv, UNCHANGED log,
         \A w \in Workers : worker'[w].phase \in Counting =>
           /\ Same(w)
           /\ \/ worker[w].phase \in Counting
              \/ Distant(TriggerOf(w), worker[w].run, worker[w].at)
           /\ \/ worker'[w].phase \notin {"planned"} \cup AtWork
              \/ worker[w].phase \in {"planned"} \cup AtWork
              \/ ~OverLimit(TriggerOf(w), worker[w].at)
  PROVE  Records' /\ LogLimits' /\ WorkerLimits'
<1>1. Records' /\ LogLimits'
  BY SameLog DEF IInv
<1>2. {"planned"} \cup AtWork \subseteq Counting
  BY DEF AtWork, Counting
<1>3. ASSUME NEW w \in Workers, worker'[w].phase \in Counting
      PROVE  /\ Distant(TriggerOf(w), worker[w].run, worker[w].at)
             /\ worker'[w].phase \in {"planned"} \cup AtWork => ~OverLimit(TriggerOf(w), worker[w].at)
             /\ Same(w) /\ TriggerOf(w)' = TriggerOf(w)
  BY <1>3 DEF IInv, WorkerLimits, TriggerOf, Same
<1>4. WorkerLimits'
  <2> SUFFICES ASSUME NEW w \in Workers, worker'[w].phase \in Counting
               PROVE  /\ Distant(TriggerOf(w), worker[w].run, worker[w].at)'
                      /\ worker'[w].phase \in {"planned"} \cup AtWork =>
                           ~OverLimit(TriggerOf(w), worker[w].at)'
    BY <1>2 DEF WorkerLimits
  <2>1. /\ \A t, at : OverLimit(t, at)' = OverLimit(t, at)
        /\ \A t, run, at : Distant(t, run, at)' = Distant(t, run, at)
    BY SameLog
  <2> QED
    BY <1>3, <2>1 DEF Same
<1> QED
  BY <1>1, <1>4

\* The steps that touch no session, no record and no claimed job: processes that come
\* to nothing, and jobs that are created, postponed or cancelled.

Postponed ==
  \A j \in Jobs :
    \/ jobs'[j] = jobs[j]
    \/ /\ jobs[j].state \in {"none", "pending"} /\ jobs'[j].state \in {"pending", "cancelled"}
       /\ jobs'[j].run \in {0, jobs[j].run}

Calm ==
  \A w \in Workers :
    \/ worker'[w] = Off /\ (crashes' = 0 => worker[w].phase \notin {"running", "ended"})
    \/ Still(w)
    \/ Same(w) /\ worker[w].phase = "start" /\ worker'[w].phase = "looked"

LEMMA QuietStep ==
  ASSUME IInv, TypeOK', Postponed, Calm, UNCHANGED <<log, hosts, begun, starts>>,
         crashes' = crashes \/ crashes' # 0
  PROVE  IInv'
<1>h. /\ Off.phase = "off" /\ "off" \notin Holding \cup Settling \cup Counting
      /\ {"start", "looked"} \cap (Holding \cup Settling \cup Counting) = {}
  BY DEF Off, Holding, Settling, Counting
<1>o. \A w \in Workers : On(w)' => On(w) /\ Same(w)
  BY <1>h DEF Calm, On, Still
<1>p. \A w \in Workers : worker'[w].phase \in Holding \cup Counting => Still(w)
  BY <1>h DEF Calm
<1>j. \A j \in Jobs : jobs[j].state \in {"running", "completed", "failed"} => jobs'[j] = jobs[j]
  BY DEF Postponed
<1>1. Ids'
  <2>1. \A j \in Jobs : jobs'[j].run \in {0, jobs[j].run}
    BY DEF Postponed
  <2>2. Uses' \subseteq Uses
    BY <1>o, <2>1 DEF Uses, Same
  <2> QED
    BY <1>o, <2>2, IdsKept DEF IInv
<1>2. OneHolder'
  BY <1>p DEF OneHolder, SingleFlight, TriggerOf, Holds, Still, Same, IInv
<1>3. Standing'
  <2> SUFFICES ASSUME NEW w \in Workers PROVE Stands(w)'
    BY DEF Standing
  <2>1. CASE worker'[w] = Off
    BY <2>1, OffStands
  <2>2. CASE Still(w)
    <3>1. worker[w].phase \in Holding \ {"planned"} => jobs'[worker[w].job] = jobs[worker[w].job]
      <4>1. On(w) => worker[w].job \in Jobs
        BY DEF IInv, TypeOK, On
      <4> QED
        BY <1>h, <1>j, <4>1 DEF IInv, Standing, Stands, On
    <3> QED
      BY <2>2, <3>1, StandsStill DEF IInv, Standing
  <2>3. CASE Same(w) /\ worker[w].phase = "start" /\ worker'[w].phase = "looked"
    BY <1>h, <2>3 DEF IInv, Standing, Stands, Same, On
  <2> QED
    BY <2>1, <2>2, <2>3 DEF Calm
<1>4. Begun'
  <2>1. \A b \in begun : b.job \in Jobs
    BY DEF IInv, TypeOK
  <2> QED
    BY <1>j, <1>o, <2>1 DEF Begun, Same, IInv
<1>5. Tracked'
  <2> SUFFICES ASSUME crashes' = 0 PROVE Tracked'
    BY DEF Tracked
  <2>1. crashes = 0
    OBVIOUS
  <2>2. \A w \in Workers : worker[w].phase \in {"running", "ended"} =>
          worker'[w].phase = worker[w].phase /\ worker'[w].run = worker[w].run
    BY DEF Calm, Same, Still
  <2>3. \A w \in Workers : worker'[w].phase \in {"planned", "claimed"} => Still(w)
    BY <1>p DEF Holding
  <2> QED
    BY <2>1, <2>2, <2>3 DEF Tracked, Same, Still, IInv
<1>6. LogAndTableAgree'
  <2>1. \A run : RecordsOf(run)' = RecordsOf(run)
    BY SameLog
  <2> QED
    BY <1>j, <2>1 DEF LogAndTableAgree, IInv, Postponed, Newest
<1>7. Records' /\ LogLimits' /\ WorkerLimits'
  <2>1. \A w \in Workers : worker'[w].phase \in Counting =>
          Same(w) /\ worker[w].phase \in Counting /\ worker'[w].phase = worker[w].phase
    BY <1>p DEF Still
  <2> QED
    BY <2>1, LimitsKept
<1> QED
  BY <1>1, <1>2, <1>3, <1>4, <1>5, <1>6, <1>7 DEF IInv

\* A process starts with a run id of its own.
LEMMA StartStep ==
  ASSUME IInv, TypeOK', NEW w \in Workers, NEW j \in Jobs, NEW child \in BOOLEAN,
         worker[w] = Off, starts' = starts + 1,
         worker' = [worker EXCEPT ![w] = Started(j, child)],
         UNCHANGED <<jobs, log, hosts, begun, crashes>>
  PROVE  IInv'
<1>t. TypeOK /\ Ids /\ starts \in Nat /\ worker \in [Workers -> ProcessType]
  BY DEF IInv, TypeOK
<1>1. /\ worker'[w].phase = "start" /\ worker'[w].job = j /\ worker'[w].run = starts + 1
      /\ \A v \in Workers \ {w} : worker'[v] = worker[v] /\ Still(v)
  BY <1>t DEF Started, Still, Same
<1>2. /\ ~On(w) /\ ~Holds(w) /\ "start" \notin Holding \cup Settling \cup Counting
      /\ "start" # "off"
  BY DEF On, Holds, Off, Holding, Settling, Counting
<1>3. Ids'
  <2>1. Uses' \subseteq Uses \cup {<<starts + 1, j>>}
    BY <1>1 DEF Uses, On
  <2>2. \A u \in Uses : u[1] \in 1..starts
    BY DEF IInv, Ids
  <2>3. \A u \in Uses' : u[1] \in 1..starts'
    BY <1>t, <2>1, <2>2
  <2>4. \A u, v \in Uses' : u[1] = v[1] => u[2] = v[2]
    <3>1. \A u \in Uses : u[1] # starts + 1
      BY <1>t, <2>2
    <3>2. \A u, v \in Uses : u[1] = v[1] => u[2] = v[2]
      BY DEF IInv, Ids
    <3> QED
      BY <2>1, <3>1, <3>2
  <2>5. \A v \in Workers : On(v) => worker[v].run # starts + 1
    BY <1>t, Owners
  <2>6. \A u, v \in Workers : On(u)' /\ On(v)' /\ worker'[u].run = worker'[v].run => u = v
    BY <1>1, <1>2, <2>5 DEF On, IInv, Ids
  <2> QED
    BY <2>3, <2>4, <2>6 DEF IInv, Ids
<1>4. OneHolder'
  <2>1. \A v \in Workers : Holds(v)' => Holds(v) /\ worker'[v] = worker[v]
    BY <1>1, <1>2 DEF Holds
  <2> QED
    BY <2>1 DEF OneHolder, SingleFlight, TriggerOf, IInv
<1>5. Standing'
  <2>1. /\ \A b \in begun : b.run # starts + 1
        /\ \A i \in DOMAIN log : log[i].run # starts + 1
    BY <1>t, Owners
  <2>2. Stands(w)'
    BY <1>1, <1>2, <2>1 DEF Stands, On
  <2>3. \A v \in Workers \ {w} : Stands(v)'
    BY <1>1, StandsStill DEF IInv, Standing
  <2> QED
    BY <2>2, <2>3 DEF Standing
<1>6. Begun'
  <2>1. \A b \in begun : b.run # starts + 1
    BY <1>t, Owners
  <2> QED
    BY <1>1, <2>1 DEF Begun, IInv, On
<1>7. Tracked'
  BY <1>1, <1>2 DEF Tracked, IInv, Off
<1>8. LogAndTableAgree'
  BY DEF LogAndTableAgree, IInv, RecordsOf, Newest
<1>9. Records' /\ LogLimits' /\ WorkerLimits'
  <2>1. \A v \in Workers : worker'[v].phase \in Counting => Same(v) /\ worker'[v] = worker[v]
    BY <1>1, <1>2 DEF Still
  <2> QED
    BY <2>1, LimitsKept
<1> QED
  BY <1>3, <1>4, <1>5, <1>6, <1>7, <1>8, <1>9 DEF IInv

\* A running job is settled with the outcome that the newest record of its run has, by
\* its own worker or when that worker is gone.
LEMMA SettleStep ==
  ASSUME IInv, TypeOK', NEW j \in Jobs, jobs[j].state = "running", NEW code,
         jobs' = Finished(j, code),
         \A w \in Workers : worker'[w] = worker[w] \/ (worker'[w] = Off /\ worker[w].phase \in Settling),
         \A w \in Workers : worker'[w].phase \in Holding \ {"planned"} => worker[w].job # j,
         \A i \in DOMAIN log : Newest(i, RecordsOf(jobs[j].run)) => (code = 0 <=> log[i].code = 0),
         UNCHANGED <<log, hosts, begun, starts, crashes>>
  PROVE  IInv'
<1>t. TypeOK /\ Ids /\ jobs \in [Jobs -> JobType]
  BY DEF IInv, TypeOK
<1>h. Off.phase = "off" /\ "off" \notin Holding \cup Counting
  BY DEF Off, Holding, Counting
<1>1. /\ jobs'[j].state = IF code = 0 THEN "completed" ELSE "failed"
      /\ jobs'[j].run = jobs[j].run
      /\ \A i \in Jobs \ {j} : jobs'[i] = jobs[i]
  BY <1>t DEF Finished, JobType
<1>2. \A w \in Workers : worker'[w].phase # "off" => worker'[w] = worker[w] /\ Same(w)
  BY <1>h DEF Same
<1>3. Ids'
  <2>1. Uses' \subseteq Uses
    BY <1>1, <1>2 DEF Uses, On
  <2> QED
    BY <1>2, <2>1, IdsKept DEF IInv, On
<1>4. OneHolder'
  <2>1. \A v \in Workers : Holds(v)' => Holds(v) /\ worker'[v] = worker[v]
    BY <1>2, <1>h DEF Holds
  <2> QED
    BY <2>1 DEF OneHolder, SingleFlight, TriggerOf, IInv
<1>5. Standing'
  <2> SUFFICES ASSUME NEW w \in Workers PROVE Stands(w)'
    BY DEF Standing
  <2>1. CASE worker'[w] = Off
    BY <2>1, OffStands
  <2>2. CASE worker'[w] = worker[w]
    <3>1. worker[w].phase \in Holding \ {"planned"} => jobs'[worker[w].job] = jobs[worker[w].job]
      BY <1>1, <1>h, <1>t, <2>2 DEF TypeOK
    <3> QED
      BY <2>2, <3>1, StandsStill, Unmoved DEF IInv, Standing
  <2> QED
    BY <2>1, <2>2
<1>6. Begun'
  <2>1. \A b \in begun : b.job \in Jobs
    BY <1>t DEF TypeOK
  <2> QED
    BY <1>1, <1>2, <2>1 DEF Begun, IInv, On
<1>7. Tracked'
  <2>1. \A w \in Workers : worker[w].phase \in {"running", "ended"} => worker'[w] = worker[w]
    BY DEF Settling
  <2>2. \A w \in Workers : worker'[w].phase \in {"planned", "claimed"} => worker'[w] = worker[w]
    BY <1>2
  <2> QED
    BY <2>1, <2>2 DEF Tracked, IInv
<1>8. LogAndTableAgree'
  <2>1. \A run : RecordsOf(run)' = RecordsOf(run)
    BY SameLog
  <2> QED
    BY <1>1, <2>1 DEF LogAndTableAgree, IInv, Newest
<1>9. Records' /\ LogLimits' /\ WorkerLimits'
  <2>1. \A v \in Workers : worker'[v].phase \in Counting => Same(v) /\ worker'[v] = worker[v]
    BY <1>2, <1>h
  <2> QED
    BY <2>1, LimitsKept
<1> QED
  BY <1>3, <1>4, <1>5, <1>6, <1>7, <1>8, <1>9 DEF IInv

\* A worker that takes the lease is the only holder.
LEMMA TakesLease ==
  ASSUME IInv, NEW w \in Workers, ~LeaseHeld(TriggerOf(w)), UNCHANGED hosts, Same(w),
         \A v \in Workers \ {w} : worker'[v] = worker[v]
  PROVE  /\ OneHolder'
         /\ \A v \in Workers \ {w} : Holds(v) => TriggerOf(v) # TriggerOf(w)
<1>1. /\ \A v \in Workers : Holds(v) => TriggerOf(v) # TriggerOf(w)
      /\ \A h \in hosts : Trigger[h.job] # TriggerOf(w)
  BY DEF LeaseHeld, Holds, TriggerOf
<1>2. \A v \in Workers \ {w} : Holds(v)' <=> Holds(v)
  BY DEF Holds
<1>3. \A v \in Workers : TriggerOf(v)' = TriggerOf(v)
  BY DEF TriggerOf, Same
<1> QED
  BY <1>1, <1>2, <1>3 DEF OneHolder, SingleFlight, IInv

\* An event that has run: its job takes over the run, and the newest record of the job
\* is the newest of that run.
LEMMA RepeatStep ==
  ASSUME IInv, TypeOK', NEW w \in Workers, Repeat(w), Claimable(worker[w].job, worker[w].at)
  PROVE  IInv'
<1>t. TypeOK /\ Ids /\ jobs \in [Jobs -> JobType]
  BY DEF IInv, TypeOK
<1>j. PICK j \in Jobs : j = worker[w].job
  BY <1>t DEF TypeOK, Repeat
<1>1. PICK i \in RunsOf(j) :
        /\ Newest(i, RunsOf(j))
        /\ jobs' = Claimed(j, log[i].run, worker[w].run) /\ Goto(w, "repeated", log[i].code)
  BY <1>j DEF Repeat
<1>2. i \in DOMAIN log /\ log[i].job = j /\ log[i].run # 0
  BY <1>t, Owners DEF RunsOf, Runs
<1>3. /\ jobs'[j].state = "running" /\ jobs'[j].run = log[i].run /\ jobs'[j].pid = worker[w].run
      /\ \A k \in Jobs \ {j} : jobs'[k] = jobs[k]
  BY <1>t, <1>1 DEF Claimed, JobType
<1>4. /\ worker[w].phase = "looked" /\ worker'[w].phase = "repeated" /\ worker'[w].code = log[i].code
      /\ Same(w) /\ \A v \in Workers \ {w} : worker'[v] = worker[v] /\ Still(v)
      /\ UNCHANGED <<log, hosts, begun, starts, crashes>> /\ jobs[j].state = "pending"
      /\ ~LeaseHeld(TriggerOf(w))
  BY <1>j, <1>t, <1>1, GotoFields DEF Repeat, Claimable, TriggerOf
<1>5. \A v \in Workers : On(v)' => On(v) /\ Same(v)
  BY <1>4 DEF On, Still
<1>6. /\ OneHolder'
      /\ \A v \in Workers \ {w} : Holds(v) => TriggerOf(v) # TriggerOf(w)
  BY <1>4, TakesLease
<1>7. Newest(i, RecordsOf(log[i].run))
  <2> SUFFICES ASSUME NEW k \in RecordsOf(log[i].run) PROVE k <= i
    BY <1>2 DEF Newest, RecordsOf
  <2>1. k \in DOMAIN log /\ log[k].run = log[i].run /\ log[k].job = j /\ k \in Nat /\ i \in Nat
    <3>1. DOMAIN log = 1..Len(log) /\ Len(log) \in Nat
      BY <1>t DEF TypeOK
    <3> QED
      BY <1>2, <1>t, <3>1, Owners DEF RecordsOf
  <2>2. CASE i < k
    <3>1. ~log[k].skipped
      BY <1>2, <2>1, <2>2 DEF Records, IInv
    <3>2. k \in RunsOf(j)
      BY <2>1, <3>1 DEF RunsOf, Runs
    <3> QED
      BY <1>1, <3>2 DEF Newest
  <2> QED
    BY <2>1, <2>2
<1>8. TriggerOf(w) = Trigger[j]
  BY <1>j DEF TriggerOf
<1>9. Ids'
  <2>1. <<log[i].run, j>> \in Uses
    BY <1>2 DEF Uses
  <2>2. Uses' \subseteq Uses
    BY <1>3, <1>4, <1>5, <2>1 DEF Uses, Same
  <2> QED
    BY <1>4, <1>5, <2>2, IdsKept DEF IInv
<1>10. Standing'
  <2>1. Stands(w)'
    <3>1. worker'[w].job = j
      BY <1>j, <1>4 DEF Same
    <3>2. \A k \in DOMAIN log : log[k].run # worker[w].run
      BY <1>4 DEF Stands, Standing, IInv
    <3>3. Newest(i, RecordsOf(jobs[j].run))'
      BY <1>3, <1>4, <1>7 DEF Newest, RecordsOf
    <3> QED
      BY <1>2, <1>3, <1>4, <3>1, <3>2, <3>3 DEF Stands, Same, On, Holding
  <2>2. ASSUME NEW v \in Workers \ {w} PROVE Stands(v)'
    <3>1. worker[v].phase \in Holding \ {"planned"} => jobs'[worker[v].job] = jobs[worker[v].job]
      <4> SUFFICES ASSUME Holds(v) PROVE jobs'[worker[v].job] = jobs[worker[v].job]
        BY DEF Holds
      <4>1. worker[v].job # j /\ worker[v].job \in Jobs
        BY <1>6, <1>8, <1>t DEF TriggerOf, TypeOK, Holds, Holding
      <4> QED
        BY <1>3, <4>1
    <3> QED
      BY <1>4, <3>1, StandsStill DEF IInv, Standing
  <2> QED
    BY <2>1, <2>2 DEF Standing
<1>11. Begun'
  <2>1. \A b \in begun : b.job \in Jobs
    BY <1>t DEF TypeOK
  <2> QED
    BY <1>3, <1>4, <1>5, <2>1 DEF Begun, IInv, On, Same
<1>12. Tracked'
  <2>1. \A v \in Workers : worker[v].phase \in {"running", "ended"} => worker'[v] = worker[v]
    BY <1>4
  <2>2. \A v \in Workers : worker'[v].phase \in {"planned", "claimed"} => worker'[v] = worker[v]
    BY <1>4
  <2> QED
    BY <1>4, <2>1, <2>2 DEF Tracked, IInv
<1>13. LogAndTableAgree'
  <2>1. \A run : RecordsOf(run)' = RecordsOf(run)
    BY <1>4, SameLog
  <2> QED
    BY <1>3, <1>4, <2>1 DEF LogAndTableAgree, IInv, Newest
<1>14. Records' /\ LogLimits' /\ WorkerLimits'
  <2>1. \A v \in Workers : worker'[v].phase \in Counting => Same(v) /\ worker'[v] = worker[v]
    BY <1>4, <1>5 DEF Counting, Still
  <2> QED
    BY <1>4, <2>1, LimitsKept
<1> QED
  BY <1>6, <1>9, <1>10, <1>11, <1>12, <1>13, <1>14 DEF IInv

\* As long as nothing is killed, an event that may run has begun no session before.
LEMMA FirstRun ==
  ASSUME IInv, crashes = 0, NEW j \in Jobs, ~LeaseHeld(Trigger[j]), ~Duplicate(j), NEW b \in begun
  PROVE  b.job # j
<1>t. TypeOK /\ Ids
  BY DEF IInv
<1>1. CASE \E i \in DOMAIN log : log[i].run = b.run
  <2>1. PICK i \in DOMAIN log : log[i].run = b.run
    BY <1>1
  <2>2. ~log[i].skipped /\ log[i].job = b.job
    BY <1>t, <2>1, Owners DEF Begun, IInv
  <2> QED
    BY <2>2 DEF Duplicate, RunsOf, Runs
<1>2. CASE \E v \in Workers : worker[v].phase \in {"running", "ended"} /\ worker[v].run = b.run
  <2>1. PICK v \in Workers : worker[v].phase \in {"running", "ended"} /\ worker[v].run = b.run
    BY <1>2
  <2>2. worker[v].phase \in Holding /\ b.job = worker[v].job
    BY <1>t, <2>1, Owners DEF Holding, On
  <2> QED
    BY <2>2 DEF LeaseHeld
<1> QED
  BY <1>1, <1>2 DEF Tracked, IInv

\* A run that is not too soon after the newest one keeps its distance from all of them.
LEMMA KeepsDistance ==
  ASSUME IInv, NEW t \in Triggers, NEW at \in Nat, ~TooSoon(t, at), NEW run
  PROVE  Distant(t, run, at)
<1> SUFFICES ASSUME NEW i \in Runs(t) PROVE at >= log[i].at + MinInterval
  BY DEF Distant
<1>1. \A k \in Runs(t) : k \in DOMAIN log /\ k \in Nat /\ log[k].at \in Nat
  <2>1. log \in Seq(EntryType)
    BY DEF IInv, TypeOK, EntryType
  <2>2. \A k \in DOMAIN log : k \in Nat /\ log[k] \in EntryType
    BY <2>1
  <2> QED
    BY <2>2 DEF Runs, EntryType
<1>2. PICK m \in Runs(t) : Newest(m, Runs(t))
  BY DEF IInv, LogLimits
<1>3. at >= log[m].at + MinInterval
  BY <1>1, <1>2 DEF TooSoon
<1>4. i <= m
  BY <1>2 DEF Newest
<1>5. CASE i < m /\ log[i].run = log[m].run
  BY <1>1, <1>3, <1>5 DEF IInv, Records
<1>6. CASE i < m /\ log[i].run # log[m].run
  <2>1. log[m].at >= log[i].at + MinInterval
    BY <1>6 DEF IInv, LogLimits
  <2> QED
    BY <1>1, <1>3, <2>1
<1>7. CASE i = m
  BY <1>3, <1>7
<1> QED
  BY <1>1, <1>4, <1>5, <1>6, <1>7

\* A worker is let through: nobody holds the lease, the event has not run and the limits
\* leave room for it.
LEMMA PlanStep ==
  ASSUME IInv, TypeOK', NEW w \in Workers, Plan(w)
  PROVE  IInv'
<1>t. TypeOK /\ Ids
  BY DEF IInv
<1>j. PICK j \in Jobs : j = worker[w].job
  BY <1>t DEF TypeOK, Plan
<1>1. /\ worker[w].phase = "looked" /\ MayRun(j, worker[w].at)
      /\ UNCHANGED <<jobs, log, hosts, begun, starts, crashes>>
      /\ worker'[w].phase = "planned" /\ worker'[w].code = 0 /\ Same(w)
      /\ \A v \in Workers \ {w} : worker'[v] = worker[v] /\ Still(v)
  BY <1>j, <1>t, GotoFields DEF Plan
<1>2. TriggerOf(w) = Trigger[j] /\ TriggerOf(w) \in Triggers /\ worker[w].at \in Nat
  BY <1>j, <1>t DEF TriggerOf, Triggers, TypeOK, ProcessType
<1>3. \A v \in Workers : On(v)' => On(v) /\ Same(v)
  BY <1>1 DEF On, Still
<1>4. Ids'
  <2>1. Uses' \subseteq Uses
    BY <1>1, <1>3 DEF Uses, Same
  <2> QED
    BY <1>1, <1>3, <2>1, IdsKept DEF IInv
<1>5. OneHolder'
  BY <1>1, <1>2, TakesLease DEF MayRun
<1>6. Standing'
  <2>1. Stands(w)'
    <3>1. /\ \A b \in begun : b.run # worker[w].run
          /\ \A i \in DOMAIN log : log[i].run # worker[w].run
      BY <1>1 DEF IInv, Standing, Stands
    <3> QED
      BY <1>1, <3>1 DEF Stands, Same, On, Settling
  <2>2. \A v \in Workers \ {w} : Stands(v)'
    BY <1>1, StandsStill DEF IInv, Standing
  <2> QED
    BY <2>1, <2>2 DEF Standing
<1>7. Begun'
  BY <1>1, <1>3 DEF Begun, Same, IInv
<1>8. Tracked'
  <2> SUFFICES ASSUME crashes = 0 PROVE Tracked'
    BY <1>1 DEF Tracked
  <2>1. \A b \in begun : b.job # j
    BY <1>t, <1>1, FirstRun DEF MayRun
  <2>2. \A v \in Workers : worker[v].phase \in {"running", "ended"} => worker'[v] = worker[v]
    BY <1>1
  <2>3. \A v \in Workers, b \in begun : worker'[v].phase \in {"planned", "claimed"} => b.job # worker'[v].job
    BY <1>j, <1>1, <2>1 DEF Tracked, Same, IInv
  <2> QED
    BY <1>1, <2>2, <2>3 DEF Tracked, IInv
<1>9. LogAndTableAgree'
  BY <1>1 DEF LogAndTableAgree, RecordsOf, Newest, IInv
<1>10. Records' /\ LogLimits' /\ WorkerLimits'
  <2>1. ~OverLimit(TriggerOf(w), worker[w].at) /\ ~TooSoon(TriggerOf(w), worker[w].at)
    BY <1>1, <1>2 DEF MayRun
  <2>2. Distant(TriggerOf(w), worker[w].run, worker[w].at)
    BY <1>2, <2>1, KeepsDistance
  <2>3. \A v \in Workers \ {w} : worker'[v].phase = worker[v].phase /\ Same(v)
    BY <1>1 DEF Still
  <2> QED
    BY <1>1, <2>1, <2>2, <2>3, LimitsKept
<1> QED
  BY <1>4, <1>5, <1>6, <1>7, <1>8, <1>9, <1>10 DEF IInv

\* A planned worker claims the job, still pending.
LEMMA ClaimStep ==
  ASSUME IInv, TypeOK', NEW w \in Workers, Claim(w), Claimable(worker[w].job, worker[w].at)
  PROVE  IInv'
<1>t. TypeOK /\ Ids /\ jobs \in [Jobs -> JobType]
  BY DEF IInv, TypeOK
<1>j. PICK j \in Jobs : j = worker[w].job
  BY <1>t DEF TypeOK, Claim
<1>1. /\ worker[w].phase = "planned" /\ jobs[j].state = "pending"
      /\ UNCHANGED <<log, hosts, begun, starts, crashes>>
      /\ worker'[w].phase = "claimed" /\ worker'[w].code = 0 /\ Same(w)
      /\ \A v \in Workers \ {w} : worker'[v] = worker[v] /\ Still(v)
  BY <1>j, <1>t, GotoFields DEF Claim, Claimable
<1>2. /\ jobs'[j].state = "running" /\ jobs'[j].run = worker[w].run /\ jobs'[j].pid = worker[w].run
      /\ \A i \in Jobs \ {j} : jobs'[i] = jobs[i]
  <2>1. jobs' = Claimed(j, worker[w].run, worker[w].run)
    BY <1>j DEF Claim
  <2> QED
    BY <1>t, <2>1 DEF Claimed, JobType
<1>3. \A v \in Workers : On(v)' => On(v) /\ Same(v)
  BY <1>1 DEF On, Still
<1>4. Ids'
  <2>1. <<worker[w].run, j>> \in Uses
    BY <1>j, <1>1 DEF Uses, On
  <2>2. Uses' \subseteq Uses
    BY <1>1, <1>2, <1>3, <2>1 DEF Uses, Same
  <2> QED
    BY <1>1, <1>3, <2>2, IdsKept DEF IInv
<1>h. /\ \A v \in Workers : /\ (Holds(v)' <=> Holds(v)) /\ TriggerOf(v)' = TriggerOf(v)
                            /\ worker'[v].run = worker[v].run
                            /\ worker[v].phase = "running" => worker'[v].phase = "running"
      /\ Holds(w) /\ TriggerOf(w) = Trigger[j]
  BY <1>j, <1>1 DEF Holds, TriggerOf, Holding, Same
<1>5. OneHolder'
  BY <1>1, <1>h DEF OneHolder, SingleFlight, IInv
<1>6. Standing'
  <2>1. Stands(w)'
    <3>1. /\ \A b \in begun : b.run # worker[w].run
          /\ \A i \in DOMAIN log : log[i].run # worker[w].run
      BY <1>1 DEF IInv, Standing, Stands
    <3> QED
      BY <1>j, <1>1, <1>2, <3>1 DEF Stands, Same, On, Settling
  <2>2. ASSUME NEW v \in Workers \ {w} PROVE Stands(v)'
    <3>1. Holds(v) => worker[v].job # j /\ worker[v].job \in Jobs
      BY <1>h, <1>t DEF OneHolder, IInv, TriggerOf, TypeOK, Holds, Holding
    <3>2. worker[v].phase \in Holding \ {"planned"} => jobs'[worker[v].job] = jobs[worker[v].job]
      BY <1>2, <3>1 DEF Holds
    <3> QED
      BY <1>1, <3>2, StandsStill DEF IInv, Standing
  <2> QED
    BY <2>1, <2>2 DEF Standing
<1>7. Begun'
  <2>1. \A b \in begun : b.job \in Jobs
    BY <1>t DEF TypeOK
  <2> QED
    BY <1>1, <1>2, <1>3, <2>1 DEF Begun, Same, IInv
<1>8. Tracked'
  <2>1. \A v \in Workers : /\ worker[v].phase \in {"running", "ended"} => worker'[v] = worker[v]
                           /\ worker'[v].phase \in {"planned", "claimed"} =>
                                worker[v].phase \in {"planned", "claimed"} /\ Same(v)
    BY <1>1 DEF Still
  <2> QED
    BY <1>1, <2>1 DEF Tracked, Same, IInv
<1>9. LogAndTableAgree'
  <2>1. \A run : RecordsOf(run)' = RecordsOf(run)
    BY <1>1, SameLog
  <2> QED
    BY <1>1, <1>2, <2>1 DEF LogAndTableAgree, IInv, Newest
<1>10. Records' /\ LogLimits' /\ WorkerLimits'
  <2>1. \A v \in Workers : worker'[v].phase \in Counting =>
           worker[v].phase \in Counting /\ Same(v) /\
           (worker[v].phase \in {"planned"} \cup AtWork \/ worker'[v].phase = worker[v].phase)
    BY <1>1 DEF AtWork, Counting, Still
  <2> QED
    BY <1>1, <2>1, LimitsKept
<1> QED
  BY <1>4, <1>5, <1>6, <1>7, <1>8, <1>9, <1>10 DEF IInv

-----------------------------------------------------------------------------
\* Appending to the run log

LEMMA AppendedLog ==
  ASSUME TypeOK, NEW e, log' = Append(log, e), NEW n, n = Len(log) + 1
  PROVE  /\ DOMAIN log' = DOMAIN log \cup {n} /\ log'[n] = e /\ n \in Nat /\ n \notin DOMAIN log
         /\ \A i \in DOMAIN log : log'[i] = log[i] /\ i \in Nat /\ i < n
         /\ IsFiniteSet(DOMAIN log)
         /\ \A i \in DOMAIN log : log[i] \in EntryType
<1>1. log \in Seq(EntryType)
  BY DEF TypeOK, EntryType
<1>2. Len(log) \in Nat /\ DOMAIN log = 1..Len(log) /\ DOMAIN log' = 1..Len(log) + 1
      /\ \A i \in 1..Len(log) : log'[i] = log[i]
      /\ log'[Len(log) + 1] = e
  BY <1>1
<1>3. IsFiniteSet(1..Len(log))
  BY <1>2, FS_Interval
<1> QED
  BY <1>1, <1>2, <1>3

\* A record that does not count, or counts for another trigger, leaves the runs of a
\* trigger as they are.
LEMMA OtherRuns ==
  ASSUME TypeOK, NEW e, log' = Append(log, e)
  PROVE  \A t : e.skipped \/ Trigger[e.job] # t =>
           /\ Runs(t)' = Runs(t)
           /\ \A i \in Runs(t) : log'[i] = log[i]
           /\ \A at : OverLimit(t, at)' <=> OverLimit(t, at)
           /\ \A run, at : Distant(t, run, at)' <=> Distant(t, run, at)
<1> SUFFICES ASSUME NEW t, e.skipped \/ Trigger[e.job] # t
             PROVE  /\ Runs(t)' = Runs(t)
                    /\ \A i \in Runs(t) : log'[i] = log[i]
                    /\ \A at : OverLimit(t, at)' <=> OverLimit(t, at)
                    /\ \A run, at : Distant(t, run, at)' <=> Distant(t, run, at)
  OBVIOUS
<1>n. PICK n : n = Len(log) + 1
  OBVIOUS
<1>1. /\ DOMAIN log' = DOMAIN log \cup {n} /\ log'[n] = e
      /\ \A i \in DOMAIN log : log'[i] = log[i]
  BY <1>n, AppendedLog
<1>2. Runs(t)' = Runs(t)
  BY <1>1 DEF Runs
<1>3. \A i \in Runs(t) : log'[i] = log[i] /\ Trigger[log[i].job] = t
  BY <1>1 DEF Runs
<1>4. \A at : LastDay(t, at)' = LastDay(t, at)
  BY <1>2, <1>3 DEF LastDay
<1> QED
  BY <1>2, <1>3, <1>4 DEF OverLimit, Distant

\* The first record of a run stays the first.
LEMMA FirstsStay ==
  ASSUME TypeOK, NEW e, log' = Append(log, e), NEW n, n = Len(log) + 1
  PROVE  /\ \A i \in DOMAIN log : First(i)' <=> First(i)
         /\ First(n)' <=> \A i \in DOMAIN log : log[i].run # e.run
<1>1. /\ DOMAIN log' = DOMAIN log \cup {n} /\ log'[n] = e /\ n \in Nat /\ n \notin DOMAIN log
      /\ \A i \in DOMAIN log : log'[i] = log[i] /\ i \in Nat /\ i < n
  BY AppendedLog
<1>2. \A i \in DOMAIN log : First(i)' <=> First(i)
  <2> SUFFICES ASSUME NEW i \in DOMAIN log PROVE First(i)' <=> First(i)
    OBVIOUS
  <2>1. First(i)' <=> \A k \in DOMAIN log' : log'[k].run = log'[i].run => i <= k
    BY DEF First, RecordsOf
  <2>2. First(i) <=> \A k \in DOMAIN log : log[k].run = log[i].run => i <= k
    BY DEF First, RecordsOf
  <2>3. i <= n /\ i < n /\ log'[i] = log[i]
    BY <1>1
  <2> QED
    BY <1>1, <2>1, <2>2, <2>3
<1>3. First(n)' <=> \A i \in DOMAIN log : log[i].run # e.run
  <2>1. First(n)' <=> \A k \in DOMAIN log' : log'[k].run = log'[n].run => n <= k
    BY DEF First, RecordsOf
  <2>2. \A k \in DOMAIN log : ~(n <= k)
    BY <1>1
  <2> QED
    BY <1>1, <2>1, <2>2
<1> QED
  BY <1>2, <1>3

\* A record is added: the first of its run, by the one holder of its trigger and within
\* the limits, or a second one, or one that does not count.
LEMMA LimitsGrow ==
  ASSUME TypeOK, Records, LogLimits, NEW e \in EntryType, log' = Append(log, e),
         ~e.skipped => Distant(Trigger[e.job], e.run, e.at),
         ~e.skipped /\ (\A i \in DOMAIN log : log[i].run # e.run) =>
           ~OverLimit(Trigger[e.job], e.at),
         \A i \in DOMAIN log : log[i].run = e.run => log[i].at = e.at /\ ~e.skipped
  PROVE  Records' /\ LogLimits'
<1>d. PICK t : t = Trigger[e.job]
  OBVIOUS
<1>n. PICK n : n = Len(log) + 1
  OBVIOUS
<1>1. /\ DOMAIN log' = DOMAIN log \cup {n} /\ log'[n] = e /\ n \in Nat /\ n \notin DOMAIN log
      /\ \A i \in DOMAIN log : log'[i] = log[i] /\ i \in Nat /\ i < n
      /\ IsFiniteSet(DOMAIN log)
      /\ \A i \in DOMAIN log : log[i] \in EntryType
  BY <1>n, AppendedLog
<1>f. /\ \A i \in DOMAIN log : First(i)' <=> First(i)
      /\ First(n)' <=> \A i \in DOMAIN log : log[i].run # e.run
  BY <1>n, FirstsStay
<1>2. Records'
  <2>1. ASSUME NEW i \in DOMAIN log', NEW k \in DOMAIN log', log'[i].run = log'[k].run, i < k
        PROVE  log'[i].at = log'[k].at /\ ~log'[k].skipped
    <3>0. k \in Nat /\ k <= n
      BY <1>1
    <3>1. i \in DOMAIN log
      <4>1. i \in DOMAIN log \cup {n} /\ n \in Nat /\ i < k
        BY <1>1, <2>1
      <4>2. i # n
        BY <3>0, <4>1
      <4> QED
        BY <4>1, <4>2
    <3>2. CASE k \in DOMAIN log
      <4>1. log'[i] = log[i] /\ log'[k] = log[k]
        BY <1>1, <3>1, <3>2
      <4> QED
        BY <2>1, <3>1, <3>2, <4>1 DEF Records
    <3>3. CASE k = n
      BY <1>1, <2>1, <3>1, <3>3
    <3> QED
      BY <1>1, <3>2, <3>3
  <2>2. ASSUME NEW i \in DOMAIN log' PROVE \E k \in DOMAIN log' : log'[k].run = log'[i].run /\ First(k)'
    <3>1. CASE i \in DOMAIN log
      BY <1>1, <1>f, <3>1 DEF Records
    <3>2. CASE i = n /\ \A k \in DOMAIN log : log[k].run # e.run
      BY <1>1, <1>f, <3>2
    <3>3. CASE i = n /\ \E k \in DOMAIN log : log[k].run = e.run
      <4>1. PICK k \in DOMAIN log : log[k].run = e.run /\ First(k)
        BY <3>3 DEF Records
      <4> QED
        BY <1>1, <1>f, <3>3, <4>1
    <3> QED
      BY <1>1, <3>1, <3>2, <3>3
  <2>3. ASSUME NEW run \in 1..MaxStarts, RecordsOf(run)' # {}
        PROVE  \E k \in DOMAIN log' : Newest(k, RecordsOf(run)')
    <3>1. CASE run = e.run
      <4>1. \A k \in DOMAIN log' : k <= n
        BY <1>1
      <4> QED
        BY <1>1, <3>1, <4>1 DEF Newest, RecordsOf
    <3>2. CASE run # e.run
      <4>1. RecordsOf(run)' = RecordsOf(run)
        BY <1>1, <3>2 DEF RecordsOf
      <4>2. PICK k \in DOMAIN log : Newest(k, RecordsOf(run))
        BY <2>3, <4>1 DEF Records
      <4> QED
        BY <1>1, <4>1, <4>2
    <3> QED
      BY <3>1, <3>2
  <2>4. \A run \in 1..MaxStarts : RecordsOf(run)' # {} =>
          \E k \in DOMAIN log' : Newest(k, RecordsOf(run))'
    BY <2>3 DEF Newest
  <2> QED
    BY <2>1, <2>2, <2>4 DEF Records
<1>3. \A u \in Triggers : /\ Runs(u)' \subseteq Runs(u) \cup {n} /\ Runs(u) \subseteq Runs(u)'
                          /\ n \in Runs(u)' <=> u = t /\ ~e.skipped
                          /\ n \notin Runs(u)
  BY <1>1, <1>d DEF Runs
<1>4. /\ \A u : \A i \in Runs(u) : /\ log'[i] = log[i] /\ i \in Nat /\ i < n /\ i \in DOMAIN log
                                   /\ log[i].at \in Nat /\ Trigger[log[i].job] = u
      /\ e.at \in Nat /\ t \in Triggers
  BY <1>1, <1>d DEF Runs, EntryType, Triggers
<1>5. \A u \in Triggers : Runs(u)' # {} => \E i \in Runs(u)' : Newest(i, Runs(u)')
  <2> SUFFICES ASSUME NEW u \in Triggers, Runs(u)' # {} PROVE \E i \in Runs(u)' : Newest(i, Runs(u)')
    OBVIOUS
  <2>1. CASE n \in Runs(u)'
    <3>1. n <= n /\ \A i \in Runs(u) : i <= n
      BY <1>1, <1>4
    <3> QED
      BY <1>3, <2>1, <3>1 DEF Newest
  <2>2. CASE n \notin Runs(u)'
    <3>1. Runs(u)' = Runs(u)
      BY <1>3, <2>2
    <3> QED
      BY <3>1 DEF LogLimits, Newest
  <2> QED
    BY <2>1, <2>2
<1>6. \A u \in Triggers : \A i, k \in Runs(u)' :
        i < k /\ log'[i].run # log'[k].run => log'[k].at >= log'[i].at + MinInterval
  <2> SUFFICES ASSUME NEW u \in Triggers, NEW i \in Runs(u)', NEW k \in Runs(u)', i < k,
                      log'[i].run # log'[k].run
               PROVE  log'[k].at >= log'[i].at + MinInterval
    OBVIOUS
  <2>1. CASE i \in Runs(u) /\ k \in Runs(u)
    BY <1>4, <2>1 DEF LogLimits
  <2>2. CASE k = n /\ i \in Runs(u)
    BY <1>1, <1>3, <1>4, <1>d, <2>2 DEF Distant
  <2>3. CASE i = n
    BY <1>1, <1>3, <1>4, <2>3
  <2> QED
    BY <1>3, <2>1, <2>2, <2>3
<1>7. \A u \in Triggers : /\ Firsts(u)' \subseteq Firsts(u) \cup {n}
                          /\ n \in Firsts(u)' => /\ u = t /\ ~e.skipped
                                                 /\ \A i \in DOMAIN log : log[i].run # e.run
                          /\ \A i \in Runs(u) : i \in Firsts(u)' <=> i \in Firsts(u)
                          /\ Firsts(u) \subseteq Runs(u)
  BY <1>1, <1>3, <1>4, <1>f DEF Firsts
<1>8. ASSUME NEW u \in Triggers, NEW k \in Firsts(u), n \in Firsts(u)' => ~(e.at <= log[k].at)
      PROVE  Neighbours(k)' = Neighbours(k)
  <2>1. Trigger[log'[k].job] = u /\ Trigger[log[k].job] = u /\ log'[k] = log[k] /\ k # n
    BY <1>3, <1>4, <1>7
  <2>2. Neighbours(k)' = {i \in Firsts(u)' \ {k} : log'[i].at <= log'[k].at /\ log'[k].at < log'[i].at + Day}
    BY <2>1 DEF Neighbours
  <2>3. Neighbours(k) = {i \in Firsts(u) \ {k} : log[i].at <= log[k].at /\ log[k].at < log[i].at + Day}
    BY <2>1 DEF Neighbours
  <2>4. n \notin Neighbours(k)'
    BY <1>1, <1>8, <2>1, <2>2
  <2>5. \A i \in Firsts(u) : log'[i] = log[i] /\ i \in Firsts(u)'
    BY <1>4, <1>7
  <2> QED
    BY <1>7, <2>1, <2>2, <2>3, <2>4, <2>5
<1>9. \A u \in Triggers : \A k \in Firsts(u)' : Cardinality(Neighbours(k)') < MaxRunsPerDay
  <2> SUFFICES ASSUME NEW u \in Triggers, NEW k \in Firsts(u)'
               PROVE  Cardinality(Neighbours(k)') < MaxRunsPerDay
    OBVIOUS
  <2>1. CASE k \in Firsts(u) /\ (n \in Firsts(u)' => ~(e.at <= log[k].at))
    BY <1>8, <2>1 DEF LogLimits
  <2>2. ASSUME n \in Firsts(u)', k = n \/ (k \in Firsts(u) /\ e.at <= log[k].at)
        PROVE  Cardinality(Neighbours(k)') < MaxRunsPerDay
    <3>1. u = t /\ ~e.skipped /\ (\A i \in DOMAIN log : log[i].run # e.run) /\ Firsts(t) \subseteq Runs(t)
      BY <1>7, <2>2
    <3>2. \A i \in Runs(t) : e.at >= log[i].at + MinInterval
      BY <1>4, <1>d, <3>1 DEF Distant
    <3>3. k = n \/ (k \in Firsts(t) /\ log[k].at = e.at)
      BY <1>4, <2>2, <3>1, <3>2
    <3>4. /\ LastDay(t, e.at) \in SUBSET DOMAIN log /\ IsFiniteSet(LastDay(t, e.at))
          /\ Cardinality(LastDay(t, e.at)) \in Nat /\ Cardinality(LastDay(t, e.at)) < MaxRunsPerDay
      <4>1. LastDay(t, e.at) \in SUBSET DOMAIN log
        BY DEF LastDay, Runs
      <4>2. IsFiniteSet(LastDay(t, e.at))
        BY <1>1, <4>1, FS_Subset
      <4>3. Cardinality(LastDay(t, e.at)) \in Nat
        BY <4>2, FS_CardinalityType
      <4>4. ~(Cardinality(LastDay(t, e.at)) >= MaxRunsPerDay)
        BY <1>d, <3>1 DEF OverLimit
      <4> QED
        BY <4>1, <4>2, <4>3, <4>4
    <3>5. n \notin LastDay(t, e.at)
      BY <1>1, <3>4
    <3>6. Neighbours(k)' \in SUBSET ((LastDay(t, e.at) \cup {n}) \ {k})
      <4>1. Trigger[log'[k].job] = t /\ log'[k].at = e.at
        BY <1>1, <1>4, <1>7, <1>d, <3>1, <3>3
      <4>2. Neighbours(k)' = {i \in Firsts(t)' \ {k} : log'[i].at <= e.at /\ e.at < log'[i].at + Day}
        BY <4>1 DEF Neighbours
      <4>3. \A i \in Firsts(t) : log'[i] = log[i]
        BY <1>4, <3>1
      <4> QED
        BY <1>4, <1>7, <3>1, <4>2, <4>3 DEF LastDay
    <3>7. /\ IsFiniteSet((LastDay(t, e.at) \cup {n}) \ {k})
          /\ Cardinality((LastDay(t, e.at) \cup {n}) \ {k}) = Cardinality(LastDay(t, e.at))
      <4>1. /\ IsFiniteSet(LastDay(t, e.at) \cup {n})
            /\ Cardinality(LastDay(t, e.at) \cup {n}) = Cardinality(LastDay(t, e.at)) + 1
        BY <3>4, <3>5, FS_AddElement
      <4>2. k \in LastDay(t, e.at) \cup {n}
        BY <1>4, <3>1, <3>3 DEF LastDay
      <4>3. Cardinality((LastDay(t, e.at) \cup {n}) \ {k}) = Cardinality(LastDay(t, e.at) \cup {n}) - 1
        BY <4>1, <4>2, FS_RemoveElement
      <4>4. IsFiniteSet((LastDay(t, e.at) \cup {n}) \ {k})
        BY <4>1, FS_RemoveElement
      <4> QED
        BY <3>4, <4>1, <4>3, <4>4
    <3>8. /\ Cardinality(Neighbours(k)') <= Cardinality(LastDay(t, e.at))
          /\ IsFiniteSet(Neighbours(k)')
      BY <3>6, <3>7, FS_Subset
    <3>9. Cardinality(Neighbours(k)') \in Nat
      BY <3>8, FS_CardinalityType
    <3> QED
      BY <3>4, <3>8, <3>9
  <2> QED
    BY <1>7, <2>1, <2>2
<1> QED
  BY <1>2, <1>5, <1>6, <1>9 DEF LogLimits

\* The process that stands beside a new record of another run stands as before.
LEMMA StandsBeside ==
  ASSUME TypeOK, NEW w \in Workers, Stands(w), Still(w), NEW e, log' = Append(log, e),
         \A b \in begun' : b \in begun \/ b.run # worker[w].run,
         On(w) => e.run # worker[w].run,
         Holds(w) => e.run # jobs[worker[w].job].run,
         jobs' = jobs
  PROVE  Stands(w)'
<1>n. PICK n : n = Len(log) + 1
  OBVIOUS
<1>1. /\ DOMAIN log' = DOMAIN log \cup {n} /\ log'[n] = e
      /\ \A i \in DOMAIN log : log'[i] = log[i]
  BY <1>n, AppendedLog
<1>2. \A run : run # e.run => RecordsOf(run)' = RecordsOf(run)
  BY <1>1 DEF RecordsOf
<1>3. /\ Settling \subseteq Holding /\ "off" \notin Holding
      /\ On(w)' <=> On(w)
  BY DEF Settling, Holding, On, Still
<1>4. PICK run : run = jobs[worker[w].job].run
  OBVIOUS
<1>5. jobs'[worker'[w].job] = jobs[worker[w].job]
  BY DEF Still, Same
<1>6. On(w) => \A i \in DOMAIN log' : \/ i \in DOMAIN log /\ log'[i] = log[i]
                                      \/ log'[i].run # worker[w].run
  BY <1>1
<1>7. worker'[w].phase \in Settling =>
        \E i \in DOMAIN log' :
          Newest(i, RecordsOf(jobs[worker[w].job].run))' /\ log'[i].code = worker'[w].code
  <2> SUFFICES ASSUME worker'[w].phase \in Settling
               PROVE  \E i \in DOMAIN log' : Newest(i, RecordsOf(run)') /\ log'[i].code = worker'[w].code
    BY <1>4, <1>5 DEF Newest, RecordsOf
  <2>1. worker[w].phase \in Settling /\ worker'[w].code = worker[w].code /\ Holds(w)
    BY <1>3 DEF Still, Holds
  <2>2. PICK i \in DOMAIN log : Newest(i, RecordsOf(run)) /\ log[i].code = worker[w].code
    BY <1>4, <2>1 DEF Stands
  <2>3. RecordsOf(run)' = RecordsOf(run)
    BY <1>2, <1>4, <2>1
  <2> QED
    BY <1>1, <2>1, <2>2, <2>3 DEF Newest
<1>8. Same(w) /\ worker'[w].phase = worker[w].phase /\ worker'[w].code = worker[w].code
  BY DEF Still
<1>9. worker'[w].phase \in {"start", "looked", "planned", "claimed", "running", "ended", "repeated"} =>
        \A i \in DOMAIN log' : log'[i].run # worker'[w].run
  BY <1>6, <1>8 DEF Stands, On, Same
<1>10. On(w)' => \A i \in DOMAIN log' : log'[i].run = worker'[w].run => log'[i].at = worker'[w].at
  BY <1>3, <1>6, <1>8 DEF Stands, Same
<1> QED
  BY <1>5, <1>7, <1>8, <1>9, <1>10 DEF Stands, Same

\* A worker records how its run ended, that nothing matched, or that something was thrown.
LEMMA AppendStep ==
  ASSUME IInv, TypeOK', NEW w \in Workers, NEW phase \in {"recorded", "failing"},
         NEW code \in Nat, NEW skipped \in BOOLEAN, Append1(w, phase, code, skipped),
         worker[w].phase \in {"claimed", "ended", "recorded"},
         skipped => worker[w].phase = "claimed",
         worker[w].phase = "recorded" => phase = "failing"
  PROVE  IInv'
<1>e. PICK e : e = Entry(worker[w].job, worker[w].run, worker[w].at, code, skipped)
  OBVIOUS
<1>n. PICK n : n = Len(log) + 1
  OBVIOUS
<1>t. TypeOK /\ Ids /\ worker[w].job \in Jobs /\ On(w) /\ worker[w] \in ProcessType
  BY DEF IInv, TypeOK, On
<1>0. /\ log' = Append(log, e) /\ UNCHANGED <<jobs, hosts, begun, starts, crashes>>
      /\ e.job = worker[w].job /\ e.run = worker[w].run /\ e.at = worker[w].at
      /\ e.code = code /\ e.skipped = skipped
      /\ worker'[w].phase = phase /\ worker'[w].code = code /\ Same(w)
      /\ \A v \in Workers \ {w} : worker'[v] = worker[v] /\ Still(v)
  BY <1>e, <1>t, GotoFields DEF Append1, Entry
<1>1. /\ DOMAIN log' = DOMAIN log \cup {n} /\ log'[n] = e /\ n \notin DOMAIN log /\ n \in Nat
      /\ \A i \in DOMAIN log : log'[i] = log[i] /\ i \in Nat /\ i < n
  BY <1>n, <1>t, <1>0, AppendedLog
<1>2. /\ jobs[worker[w].job].state = "running" /\ jobs[worker[w].job].run = worker[w].run
      /\ jobs[worker[w].job].pid = worker[w].run
      /\ worker[w].phase \in AtWork => \A i \in DOMAIN log : log[i].run # worker[w].run
      /\ \A i \in DOMAIN log : log[i].run = worker[w].run => log[i].at = worker[w].at
      /\ worker[w].phase = "claimed" => \A b \in begun : b.run # worker[w].run
  BY <1>t DEF Standing, Stands, IInv, Holding, AtWork
<1>3. \A v \in Workers : (On(v)' <=> On(v)) /\ Same(v) /\ TriggerOf(v)' = TriggerOf(v)
  BY <1>0, <1>t DEF On, TriggerOf, Same, Still
<1>h. Holds(w) /\ \A v \in Workers : Holds(v)' <=> Holds(v)
  BY <1>0 DEF Holds, Holding
<1>4. Ids'
  <2>1. <<worker[w].run, worker[w].job>> \in Uses
    BY <1>t DEF Uses
  <2>2. Uses' \subseteq Uses
    BY <1>0, <1>1, <1>3, <2>1 DEF Uses, Same
  <2> QED
    BY <1>0, <1>3, <2>2, IdsKept DEF IInv
<1>5. OneHolder'
  <2>2. \A h \in hosts : TriggerOf(w) # Trigger[h.job]
    BY <1>h DEF OneHolder, IInv
  <2>3. \A v, u \in Workers : Holds(v)' /\ Holds(u)' /\ TriggerOf(v)' = TriggerOf(u)' => v = u
    BY <1>3, <1>h DEF OneHolder, IInv
  <2>4. \A v \in Workers, h \in hosts :
          Holds(v)' /\ TriggerOf(v)' = Trigger[h.job] =>
            worker'[v].phase = "running" /\ worker'[v].run = h.run
    BY <1>0, <1>3, <1>h, <2>2 DEF OneHolder, IInv
  <2> QED
    BY <1>0, <2>3, <2>4 DEF OneHolder, SingleFlight, IInv
<1>6. Standing'
  <2>1. Stands(w)'
    <3>1. \A i \in DOMAIN log' : log'[i].run = worker[w].run => log'[i].at = worker[w].at
      BY <1>0, <1>1, <1>2
    <3>2. Newest(n, RecordsOf(jobs[worker[w].job].run)') /\ n \in DOMAIN log' /\ log'[n].code = code
      <4>1. \A i \in DOMAIN log' : i <= n
        BY <1>1
      <4> QED
        BY <1>0, <1>1, <1>2, <4>1 DEF Newest, RecordsOf, Same
    <3>3. jobs'[worker'[w].job] = jobs[worker[w].job]
      BY <1>0 DEF Same
    <3>4. Newest(n, RecordsOf(jobs[worker[w].job].run))'
      BY <3>2 DEF Newest
    <3> QED
      BY <1>0, <1>2, <3>1, <3>2, <3>3, <3>4 DEF Stands, Same, On, Holding
  <2>2. ASSUME NEW v \in Workers \ {w} PROVE Stands(v)'
    <3>1. On(v) => e.run # worker[v].run
      BY <1>0, <1>t DEF Ids
    <3>2. Holds(v) => e.run # jobs[worker[v].job].run
      <4> SUFFICES ASSUME Holds(v), e.run = jobs[worker[v].job].run PROVE FALSE
        OBVIOUS
      <4>1. worker[v].job \in Jobs
        BY <1>t DEF TypeOK, Holds, Holding
      <4>2. worker[v].job = worker[w].job
        BY <1>0, <1>t, <4>1, Owners
      <4> QED
        BY <1>h, <4>2 DEF OneHolder, IInv, TriggerOf
    <3> QED
      BY <1>0, <1>t, <3>1, <3>2, StandsBeside DEF IInv, Standing
  <2> QED
    BY <2>1, <2>2 DEF Standing
<1>7. Begun'
  <2>1. \A b \in begun : b.run = worker[w].run => ~skipped /\ worker[w].at = b.at
    BY <1>t, <1>2 DEF Begun, IInv
  <2>2. \A b \in begun, i \in DOMAIN log' : log'[i].run = b.run => ~log'[i].skipped /\ log'[i].at = b.at
    BY <1>0, <1>1, <2>1 DEF Begun, IInv
  <2> QED
    BY <1>0, <1>3, <2>2 DEF Begun, Same, IInv
<1>8. Tracked'
  <2> SUFFICES ASSUME crashes = 0 PROVE Tracked'
    BY <1>0 DEF Tracked
  <2>1. ASSUME NEW b \in begun
        PROVE  \/ \E i \in DOMAIN log' : log'[i].run = b.run
               \/ \E v \in Workers : worker'[v].phase \in {"running", "ended"} /\ worker'[v].run = b.run
    <3>1. CASE \E i \in DOMAIN log : log[i].run = b.run
      BY <1>1, <3>1
    <3>2. ASSUME NEW v \in Workers, worker[v].phase \in {"running", "ended"}, worker[v].run = b.run
          PROVE  \/ \E i \in DOMAIN log' : log'[i].run = b.run
                 \/ \E u \in Workers : worker'[u].phase \in {"running", "ended"} /\ worker'[u].run = b.run
      <4>1. CASE v = w
        BY <1>0, <1>1, <3>2, <4>1
      <4>2. CASE v # w
        BY <1>0, <3>2, <4>2
      <4> QED
        BY <4>1, <4>2
    <3> QED
      BY <3>1, <3>2 DEF Tracked, IInv
  <2>2. \A v \in Workers : worker'[v].phase \in {"planned", "claimed"} => worker'[v] = worker[v]
    BY <1>0
  <2> QED
    BY <1>0, <2>1, <2>2 DEF Tracked, IInv
<1>9. LogAndTableAgree'
  <2>1. \A j \in Jobs : jobs[j].run = worker[w].run => jobs[j].state = "running"
    BY <1>t, <1>2, Owners
  <2>2. \A run : run # e.run => RecordsOf(run)' = RecordsOf(run)
    BY <1>1 DEF RecordsOf
  <2>3. \A j \in Jobs, i \in DOMAIN log' :
          Newest(i, RecordsOf(jobs[j].run)') /\ jobs[j].state \in {"completed", "failed"} =>
            i \in DOMAIN log /\ log'[i] = log[i] /\ Newest(i, RecordsOf(jobs[j].run))
    BY <1>0, <1>1, <2>1, <2>2 DEF Newest, RecordsOf
  <2>4. \A j \in Jobs, i \in DOMAIN log' :
          Newest(i, RecordsOf(jobs[j].run)') =>
            /\ jobs[j].state = "completed" => log'[i].code = 0
            /\ jobs[j].state = "failed" => log'[i].code # 0
    BY <2>3 DEF LogAndTableAgree, IInv
  <2> QED
    BY <1>0, <2>4 DEF LogAndTableAgree, Newest, RecordsOf
<1>x. Distant(TriggerOf(w), worker[w].run, worker[w].at)
      /\ (worker[w].phase \in AtWork => ~OverLimit(TriggerOf(w), worker[w].at))
      /\ TriggerOf(w) = Trigger[e.job]
  BY <1>0 DEF WorkerLimits, IInv, AtWork, Counting, TriggerOf
<1>10. Records' /\ LogLimits'
  <2>1. e \in EntryType
    BY <1>e, <1>t, RunOfWorker DEF Entry, EntryType, ProcessType
  <2>2. \A i \in DOMAIN log : log[i].run = e.run => log[i].at = e.at /\ ~e.skipped
    BY <1>0, <1>2 DEF AtWork
  <2>3. (\A i \in DOMAIN log : log[i].run # e.run) => worker[w].phase \in AtWork
    <3>1. worker[w].phase = "recorded" => \E i \in DOMAIN log : log[i].run = worker[w].run
      BY <1>2 DEF IInv, Standing, Stands, Settling, Newest, RecordsOf
    <3> QED
      BY <1>0, <3>1 DEF AtWork
  <2> QED
    BY <1>t, <1>0, <1>x, <2>1, <2>2, <2>3, LimitsGrow DEF IInv
<1>y. \A u : u # Trigger[e.job] => /\ \A at : OverLimit(u, at)' <=> OverLimit(u, at)
                                  /\ \A run, at : Distant(u, run, at)' <=> Distant(u, run, at)
  BY <1>t, <1>0, OtherRuns
<1>11. WorkerLimits'
  <2> SUFFICES ASSUME NEW v \in Workers
               PROVE  /\ worker'[v].phase \in Counting =>
                           Distant(TriggerOf(v), worker[v].run, worker[v].at)'
                      /\ worker'[v].phase \in {"planned"} \cup AtWork =>
                           ~OverLimit(TriggerOf(v), worker[v].at)'
    BY DEF WorkerLimits
  <2>1. CASE v = w
    <3>1. \A i \in Runs(TriggerOf(w))' : \/ i \in Runs(TriggerOf(w)) /\ log'[i] = log[i]
                                         \/ log'[i].run = worker[w].run
      BY <1>0, <1>1, <1>3 DEF Runs
    <3>2. Distant(TriggerOf(w), worker[w].run, worker[w].at)'
      BY <1>0, <1>3, <1>x, <3>1 DEF Distant, Same
    <3>3. phase \notin {"planned"} \cup AtWork
      BY DEF AtWork
    <3> QED
      BY <1>0, <2>1, <3>2, <3>3
  <2>2. CASE v # w /\ worker[v].phase \in Counting \cup {"planned"} \cup AtWork
    <3>1. TriggerOf(v) # Trigger[e.job]
      BY <1>h, <1>x, <2>2 DEF OneHolder, IInv, Holds, Holding, Counting, AtWork
    <3>2. /\ \A at : OverLimit(TriggerOf(v), at)' <=> OverLimit(TriggerOf(v), at)
          /\ \A run, at : Distant(TriggerOf(v), run, at)' <=> Distant(TriggerOf(v), run, at)
      <4>1. PICK u : u = TriggerOf(v)
        OBVIOUS
      <4>2. /\ \A at : OverLimit(u, at)' <=> OverLimit(u, at)
            /\ \A run, at : Distant(u, run, at)' <=> Distant(u, run, at)
        BY <1>y, <3>1, <4>1
      <4>3. TriggerOf(v)' = u
        BY <1>3, <4>1
      <4> QED
        BY <4>1, <4>2, <4>3
    <3>3. worker'[v] = worker[v] /\ v \in Workers \ {w}
      BY <1>0, <2>2
    <3> QED
      BY <3>2, <3>3 DEF WorkerLimits, IInv
  <2>3. CASE v # w /\ worker[v].phase \notin Counting \cup {"planned"} \cup AtWork
    BY <1>0, <2>3
  <2> QED
    BY <2>1, <2>2, <2>3
<1> QED
  BY <1>4, <1>5, <1>6, <1>7, <1>8, <1>9, <1>10, <1>11 DEF IInv

\* A claimed job's session begins: the trigger is its own, and no session of the job
\* began before.
LEMMA StartHostStep ==
  ASSUME IInv, TypeOK', NEW w \in Workers, StartHost(w)
  PROVE  IInv'
<1>b. PICK b0 : b0 = [job |-> worker[w].job, run |-> worker[w].run, at |-> worker[w].at]
  OBVIOUS
<1>h. PICK h0 : h0 = [job |-> worker[w].job, run |-> worker[w].run]
  OBVIOUS
<1>t. TypeOK /\ Ids /\ worker[w].job \in Jobs /\ On(w) /\ worker[w].phase = "claimed"
  BY DEF IInv, TypeOK, On, StartHost
<1>0. /\ hosts' = hosts \cup {h0} /\ begun' = begun \cup {b0}
      /\ UNCHANGED <<jobs, log, starts, crashes>>
      /\ h0.job = worker[w].job /\ h0.run = worker[w].run
      /\ b0.job = worker[w].job /\ b0.run = worker[w].run /\ b0.at = worker[w].at
      /\ worker'[w].phase = "running" /\ worker'[w].code = 0 /\ Same(w)
      /\ \A v \in Workers \ {w} : worker'[v] = worker[v] /\ Still(v)
  BY <1>b, <1>h, <1>t, GotoFields DEF StartHost
<1>2. /\ jobs[worker[w].job].state = "running" /\ jobs[worker[w].job].run = worker[w].run
      /\ jobs[worker[w].job].pid = worker[w].run
      /\ \A i \in DOMAIN log : log[i].run # worker[w].run
      /\ \A b \in begun : b.run # worker[w].run
  BY <1>t DEF Standing, Stands, IInv, Holding
<1>3. \A v \in Workers : (On(v)' <=> On(v)) /\ Same(v) /\ TriggerOf(v)' = TriggerOf(v)
  BY <1>0, <1>t DEF On, TriggerOf, Same, Still
<1>4. Ids'
  <2>1. <<worker[w].run, worker[w].job>> \in Uses
    BY <1>t DEF Uses
  <2>2. Uses' \subseteq Uses
    BY <1>0, <1>3, <2>1 DEF Uses, Same
  <2>3. \A b, c \in begun' : b.run = c.run => b = c
    BY <1>0, <1>2 DEF Ids, IInv
  <2> QED
    BY <1>0, <1>3, <2>2, <2>3 DEF Ids, IInv, Same
<1>h1. \A v \in Workers : Holds(v)' <=> Holds(v)
  BY <1>0, <1>t DEF Holds, Holding
<1>h2. Holds(w) /\ TriggerOf(w) = Trigger[h0.job] /\ \A h \in hosts : TriggerOf(w) # Trigger[h.job]
  BY <1>0, <1>t DEF Holds, Holding, TriggerOf, OneHolder, IInv
<1>5. OneHolder'
  <2>1. \A v, u \in Workers : Holds(v)' /\ Holds(u)' /\ TriggerOf(v)' = TriggerOf(u)' => v = u
    BY <1>3, <1>h1 DEF OneHolder, IInv
  <2>2. ASSUME NEW v \in Workers, NEW h \in hosts', Holds(v)', TriggerOf(v)' = Trigger[h.job]
        PROVE  worker'[v].phase = "running" /\ worker'[v].run = h.run
    <3>1. CASE v = w
      BY <1>0, <1>3, <1>h2, <2>2, <3>1 DEF Same
    <3>2. CASE v # w
      <4>1. h # h0
        BY <1>0, <1>3, <1>h1, <1>h2, <2>2, <3>2 DEF OneHolder, IInv
      <4> QED
        BY <1>0, <1>3, <1>h1, <2>2, <3>2, <4>1 DEF OneHolder, IInv
    <3> QED
      BY <3>1, <3>2
  <2>3. SingleFlight'
    BY <1>0, <1>h2 DEF SingleFlight, OneHolder, IInv
  <2> QED
    BY <2>1, <2>2, <2>3 DEF OneHolder
<1>6. Standing'
  <2>1. Stands(w)'
    BY <1>0, <1>2 DEF Stands, Same, On, Settling
  <2>2. ASSUME NEW v \in Workers \ {w} PROVE Stands(v)'
    <3>1. CASE On(v)
      <4>1. worker[v].run # worker[w].run
        BY <1>t, <3>1 DEF Ids
      <4> QED
        BY <1>0, <4>1, StandsStill DEF IInv, Standing
    <3>2. CASE ~On(v)
      <4>1. worker'[v].phase = "off" /\ "off" \notin Holding \cup Settling
        BY <1>0, <3>2 DEF On, Holding, Settling
      <4> QED
        BY <4>1 DEF Stands, On
    <3> QED
      BY <3>1, <3>2
  <2> QED
    BY <2>1, <2>2 DEF Standing
<1>7. Begun'
  <2>1. ASSUME NEW b \in begun
        PROVE  /\ b.job \notin Fired => /\ jobs'[b.job].state \in {"running", "completed", "failed"}
                                        /\ jobs'[b.job].run = b.run
               /\ \A i \in DOMAIN log' : log'[i].run = b.run => ~log'[i].skipped /\ log'[i].at = b.at
               /\ \A v \in Workers : On(v)' /\ worker'[v].run = b.run => worker'[v].at = b.at
    BY <1>0, <1>3 DEF Begun, IInv, Same
  <2>2. /\ jobs'[b0.job].state = "running" /\ jobs'[b0.job].run = b0.run
        /\ \A i \in DOMAIN log' : log'[i].run # b0.run
        /\ \A v \in Workers : On(v)' /\ worker'[v].run = b0.run => worker'[v].at = b0.at
    BY <1>0, <1>2, <1>3, <1>t DEF Ids, Same
  <2> QED
    BY <1>0, <2>1, <2>2 DEF Begun
<1>8. Tracked'
  <2> SUFFICES ASSUME crashes = 0 PROVE Tracked'
    BY <1>0 DEF Tracked
  <2>1. \A b \in begun : b.job # worker[w].job
    BY <1>t DEF Tracked, IInv
  <2>2. \A v \in Workers : worker'[v].phase \in {"planned", "claimed"} =>
          worker'[v] = worker[v] /\ worker[v].job # worker[w].job
    <3> SUFFICES ASSUME NEW v \in Workers, worker'[v].phase \in {"planned", "claimed"}
                 PROVE  worker'[v] = worker[v] /\ worker[v].job # worker[w].job
      OBVIOUS
    <3>1. v # w /\ worker'[v] = worker[v] /\ Holds(v)
      BY <1>0 DEF Holds, Holding
    <3> QED
      BY <1>h2, <3>1 DEF OneHolder, IInv, TriggerOf
  <2>3. \A v \in Workers : worker[v].phase \in {"running", "ended"} =>
          worker'[v].phase = worker[v].phase /\ worker'[v].run = worker[v].run
    BY <1>0, <1>t
  <2>4. \A b \in begun' : \/ \E i \in DOMAIN log' : log'[i].run = b.run
                          \/ \E v \in Workers : /\ worker'[v].phase \in {"running", "ended"}
                                                /\ worker'[v].run = b.run
    BY <1>0, <2>3 DEF Tracked, IInv, Same
  <2>5. \A v \in Workers, b \in begun' :
          worker'[v].phase \in {"planned", "claimed"} => b.job # worker'[v].job
    BY <1>0, <2>2 DEF Tracked, IInv
  <2>6. \A b, c \in begun' : b.job = c.job => b = c
    BY <1>0, <2>1 DEF Tracked, IInv
  <2> QED
    BY <2>4, <2>5, <2>6 DEF Tracked
<1>9. LogAndTableAgree'
  BY <1>0 DEF LogAndTableAgree, RecordsOf, Newest, IInv
<1>10. Records' /\ LogLimits' /\ WorkerLimits'
  <2>1. \A v \in Workers : worker'[v].phase \in Counting =>
           worker[v].phase \in Counting /\ Same(v) /\
           (worker[v].phase \in {"planned"} \cup AtWork \/ worker'[v].phase = worker[v].phase)
    BY <1>0, <1>t DEF AtWork, Counting, Still
  <2> QED
    BY <1>0, <2>1, LimitsKept
<1> QED
  BY <1>4, <1>5, <1>6, <1>7, <1>8, <1>9, <1>10 DEF IInv

\* A session ends: its worker, if it is alive, knows how.
LEMMA HostEndStep ==
  ASSUME IInv, TypeOK', NEW h \in hosts, NEW code, HostEnd(h, code)
  PROVE  IInv'
<1>t. TypeOK /\ Ids /\ worker \in [Workers -> ProcessType]
  BY DEF IInv, TypeOK
<1>1. hosts' = hosts \ {h} /\ UNCHANGED <<jobs, log, begun, starts, crashes>>
  BY DEF HostEnd
<1>2. \A v \in Workers :
        /\ Same(v)
        /\ \/ /\ worker'[v] = worker[v] /\ Still(v)
              /\ ~(worker[v].phase = "running" /\ worker[v].run = h.run)
           \/ worker[v].phase = "running" /\ worker[v].run = h.run /\ worker'[v].phase = "ended"
  <2>1. \A v \in Workers : worker'[v] =
           IF worker[v].phase = "running" /\ worker[v].run = h.run
           THEN [worker[v] EXCEPT !.phase = "ended", !.code = code] ELSE worker[v]
    BY DEF HostEnd
  <2>2. \A v \in Workers : /\ [worker[v] EXCEPT !.phase = "ended", !.code = code].phase = "ended"
                           /\ [worker[v] EXCEPT !.phase = "ended", !.code = code].job = worker[v].job
                           /\ [worker[v] EXCEPT !.phase = "ended", !.code = code].run = worker[v].run
                           /\ [worker[v] EXCEPT !.phase = "ended", !.code = code].at = worker[v].at
    BY <1>t DEF ProcessType
  <2> QED
    BY <2>1, <2>2 DEF Same, Still
<1>3. \A v \in Workers : /\ (On(v)' <=> On(v)) /\ (Holds(v)' <=> Holds(v))
                         /\ TriggerOf(v)' = TriggerOf(v)
  BY <1>2 DEF On, Holds, Holding, TriggerOf, Same
<1>4. Ids'
  <2>1. Uses' \subseteq Uses
    BY <1>1, <1>2, <1>3 DEF Uses, Same
  <2> QED
    BY <1>1, <1>2, <1>3, <2>1, IdsKept DEF IInv
<1>5. OneHolder'
  <2>1. ASSUME NEW v \in Workers, NEW g \in hosts', Holds(v)', TriggerOf(v)' = Trigger[g.job]
        PROVE  worker'[v].phase = "running" /\ worker'[v].run = g.run
    <3>1. worker[v].phase = "running" /\ worker[v].run = g.run /\ g \in hosts /\ g # h
      BY <1>1, <1>3, <2>1 DEF OneHolder, IInv
    <3>2. worker[v].run # h.run
      <4> SUFFICES ASSUME worker[v].run = h.run PROVE FALSE
        OBVIOUS
      <4>1. h.job = worker[v].job /\ g.job = worker[v].job
        BY <1>t, <3>1, Owners DEF On
      <4> QED
        BY <3>1, <4>1 DEF OneHolder, SingleFlight, IInv
    <3> QED
      BY <1>2, <3>1, <3>2
  <2>2. SingleFlight'
    BY <1>1 DEF SingleFlight, OneHolder, IInv
  <2>3. \A v, u \in Workers : Holds(v)' /\ Holds(u)' /\ TriggerOf(v)' = TriggerOf(u)' => v = u
    BY <1>3 DEF OneHolder, IInv
  <2> QED
    BY <2>1, <2>2, <2>3 DEF OneHolder
<1>6. Standing'
  <2> SUFFICES ASSUME NEW v \in Workers PROVE Stands(v)'
    BY DEF Standing
  <2>1. CASE Still(v)
    BY <1>1, <2>1, StandsStill DEF Standing, IInv
  <2>2. CASE worker[v].phase = "running" /\ worker'[v].phase = "ended" /\ Same(v)
    <3>1. Stands(v)
      BY DEF Standing, IInv
    <3> QED
      BY <1>1, <2>2, <3>1 DEF Stands, Same, On, Holding, Settling
  <2> QED
    BY <1>2, <2>1, <2>2
<1>7. Begun'
  BY <1>1, <1>2, <1>3 DEF Begun, IInv, Same
<1>8. Tracked'
  <2>1. \A v \in Workers : /\ worker[v].phase \in {"running", "ended"} =>
                                worker'[v].phase \in {"running", "ended"}
                           /\ worker'[v].phase \in {"planned", "claimed"} =>
                                worker[v].phase \in {"planned", "claimed"}
    BY <1>2
  <2> QED
    BY <1>1, <1>2, <2>1 DEF Tracked, IInv, Same
<1>9. LogAndTableAgree'
  BY <1>1 DEF LogAndTableAgree, RecordsOf, Newest, IInv
<1>10. Records' /\ LogLimits' /\ WorkerLimits'
  <2>1. \A v \in Workers : worker'[v].phase \in Counting =>
           worker[v].phase \in Counting /\ Same(v) /\
           (worker[v].phase \in {"planned"} \cup AtWork \/ worker'[v].phase = worker[v].phase)
    BY <1>2 DEF AtWork, Counting
  <2> QED
    BY <1>1, <2>1, LimitsKept
<1> QED
  BY <1>4, <1>5, <1>6, <1>7, <1>8, <1>9, <1>10 DEF IInv

\* An event fired directly runs and is recorded in one go, under the same checks.
LEMMA FireStep ==
  ASSUME IInv, TypeOK', NEW j \in Jobs, NEW code \in {0, 1}, FireDirectly(j, code)
  PROVE  IInv'
<1>e. PICK e : e = Entry(j, starts + 1, now, code, FALSE)
  OBVIOUS
<1>b. PICK b0 : b0 = [job |-> j, run |-> starts + 1, at |-> now]
  OBVIOUS
<1>n. PICK n : n = Len(log) + 1
  OBVIOUS
<1>t. TypeOK /\ Ids /\ starts \in Nat /\ now \in Nat
  BY DEF IInv, TypeOK
<1>0. /\ log' = Append(log, e) /\ begun' = begun \cup {b0} /\ starts' = starts + 1
      /\ UNCHANGED <<jobs, worker, hosts, crashes>> /\ j \in Fired /\ MayRun(j, now)
      /\ e.job = j /\ e.run = starts + 1 /\ e.at = now /\ e.code = code /\ e.skipped = FALSE
      /\ b0.job = j /\ b0.run = starts + 1 /\ b0.at = now
      /\ \A v \in Workers : worker'[v] = worker[v] /\ Still(v)
  BY <1>e, <1>b DEF FireDirectly, Entry, Still, Same
<1>1. /\ DOMAIN log' = DOMAIN log \cup {n} /\ log'[n] = e /\ n \notin DOMAIN log
      /\ \A i \in DOMAIN log : log'[i] = log[i]
  BY <1>n, <1>t, <1>0, AppendedLog
<1>2. /\ \A v \in Workers : On(v) => worker[v].run # starts + 1
      /\ \A b \in begun : b.run # starts + 1
      /\ \A i \in DOMAIN log : log[i].run # starts + 1
      /\ \A i \in Jobs : jobs[i].run # starts + 1
  BY <1>t, Owners
<1>3. \A v \in Workers : Holds(v) => TriggerOf(v) # Trigger[j]
  BY <1>0 DEF MayRun, LeaseHeld, Holds, TriggerOf
<1>4. Ids'
  <2>1. Uses' \subseteq Uses \cup {<<starts + 1, j>>}
    BY <1>0, <1>1 DEF Uses, On
  <2>2. \A u \in Uses : u[1] \in 1..starts
    BY DEF IInv, Ids
  <2>3. \A u \in Uses' : u[1] \in 1..starts'
    BY <1>t, <1>0, <2>1, <2>2
  <2>4. \A u, v \in Uses' : u[1] = v[1] => u[2] = v[2]
    <3>1. \A u \in Uses : u[1] # starts + 1
      BY <1>t, <2>2
    <3>2. \A u, v \in Uses : u[1] = v[1] => u[2] = v[2]
      BY DEF IInv, Ids
    <3> QED
      BY <2>1, <3>1, <3>2
  <2>6. \A b, c \in begun' : b.run = c.run => b = c
    BY <1>0, <1>2 DEF Ids, IInv
  <2> QED
    BY <1>0, <2>3, <2>4, <2>6 DEF Ids, IInv, On
<1>5. OneHolder'
  BY <1>0 DEF OneHolder, SingleFlight, Holds, TriggerOf, IInv
<1>6. Standing'
  <2> SUFFICES ASSUME NEW v \in Workers PROVE Stands(v)'
    BY DEF Standing
  <2>1. CASE On(v)
    <3>1. \A b \in begun' : b \in begun \/ b.run # worker[v].run
      BY <1>0, <1>2, <2>1
    <3>2. Holds(v) => e.run # jobs[worker[v].job].run
      BY <1>0, <1>2, <1>t DEF TypeOK, Holds, Holding
    <3> QED
      BY <1>0, <1>2, <1>t, <2>1, <3>1, <3>2, StandsBeside DEF Standing, IInv
  <2>2. CASE ~On(v)
    <3>1. worker'[v].phase = "off" /\ "off" \notin Holding \cup Settling
      BY <1>0, <2>2 DEF On, Holding, Settling
    <3> QED
      BY <3>1 DEF Stands, On
  <2> QED
    BY <2>1, <2>2
<1>7. Begun'
  <2>1. ASSUME NEW b \in begun
        PROVE  /\ \A i \in DOMAIN log' : log'[i].run = b.run => ~log'[i].skipped /\ log'[i].at = b.at
               /\ \A w \in Workers : On(w)' /\ worker'[w].run = b.run => worker'[w].at = b.at
    BY <1>0, <1>1, <1>2 DEF Begun, IInv, On
  <2>2. /\ \A i \in DOMAIN log' : log'[i].run = b0.run => ~log'[i].skipped /\ log'[i].at = b0.at
        /\ \A w \in Workers : On(w)' /\ worker'[w].run = b0.run => worker'[w].at = b0.at
    BY <1>0, <1>1, <1>2 DEF On
  <2>3. \A b \in begun' : b.job \notin Fired => /\ b \in begun
                                                /\ jobs[b.job].state \in {"running", "completed", "failed"}
                                                /\ jobs[b.job].run = b.run
    BY <1>0 DEF Begun, IInv
  <2> QED
    BY <1>0, <2>1, <2>2, <2>3 DEF Begun
<1>8. Tracked'
  <2> SUFFICES ASSUME crashes = 0 PROVE Tracked'
    BY <1>0 DEF Tracked
  <2>1. \A b \in begun : b.job # j
    BY <1>0, FirstRun DEF MayRun
  <2>2. \A v \in Workers : worker[v].phase \in {"planned", "claimed"} => worker[v].job # j
    BY <1>3 DEF Holds, Holding, TriggerOf
  <2>3. \A b \in begun' : \/ \E i \in DOMAIN log' : log'[i].run = b.run
                          \/ \E v \in Workers : worker'[v].phase \in {"running", "ended"} /\ worker'[v].run = b.run
    BY <1>0, <1>1 DEF Tracked, IInv
  <2>4. \A v \in Workers, b \in begun' :
          worker'[v].phase \in {"planned", "claimed"} => b.job # worker'[v].job
    BY <1>0, <2>2 DEF Tracked, IInv
  <2>5. \A b, c \in begun' : b.job = c.job => b = c
    BY <1>0, <2>1 DEF Tracked, IInv
  <2> QED
    BY <2>3, <2>4, <2>5 DEF Tracked
<1>9. LogAndTableAgree'
  <2>1. \A run : run # e.run => RecordsOf(run)' = RecordsOf(run)
    BY <1>1 DEF RecordsOf
  <2>2. \A i \in Jobs : RecordsOf(jobs[i].run)' = RecordsOf(jobs[i].run)
    <3> SUFFICES ASSUME NEW i \in Jobs PROVE RecordsOf(jobs[i].run)' = RecordsOf(jobs[i].run)
      OBVIOUS
    <3>1. PICK run : run = jobs[i].run /\ run = jobs'[i].run
      BY <1>0
    <3>2. RecordsOf(run)' = RecordsOf(run)
      BY <1>0, <1>2, <2>1, <3>1
    <3> QED
      BY <3>1, <3>2
  <2>3. \A run : RecordsOf(run) \subseteq DOMAIN log
    BY DEF RecordsOf
  <2> QED
    BY <1>0, <1>1, <2>2, <2>3 DEF LogAndTableAgree, IInv, Newest
<1>x. /\ ~OverLimit(Trigger[j], now) /\ ~TooSoon(Trigger[j], now)
      /\ Distant(Trigger[j], starts + 1, now)
  <2>1. Trigger[j] \in Triggers
    BY DEF Triggers
  <2> QED
    BY <1>0, <1>t, <2>1, KeepsDistance DEF MayRun
<1>10. Records' /\ LogLimits'
  <2>1. e \in EntryType
    <3>1. starts + 1 \in 1..MaxStarts
      BY <1>t DEF FireDirectly
    <3> QED
      BY <1>e, <1>t, <3>1 DEF Entry, EntryType
  <2>2. \A i \in DOMAIN log : log[i].run # e.run
    BY <1>0, <1>2
  <2> QED
    BY <1>t, <1>0, <1>x, <2>1, <2>2, LimitsGrow DEF IInv
<1>11. WorkerLimits'
  <2> SUFFICES ASSUME NEW v \in Workers
               PROVE  /\ worker'[v].phase \in Counting =>
                           Distant(TriggerOf(v), worker[v].run, worker[v].at)'
                      /\ worker'[v].phase \in {"planned"} \cup AtWork =>
                           ~OverLimit(TriggerOf(v), worker[v].at)'
    BY DEF WorkerLimits
  <2>1. CASE worker[v].phase \notin Counting \cup {"planned"} \cup AtWork
    BY <1>0, <2>1
  <2>2. CASE worker[v].phase \in Counting \cup {"planned"} \cup AtWork
    <3>1. PICK u : u = TriggerOf(v)
      OBVIOUS
    <3>2. u # Trigger[e.job] /\ TriggerOf(v)' = u
      BY <1>0, <1>3, <2>2, <3>1 DEF Holds, Holding, Counting, AtWork, TriggerOf
    <3>3. /\ \A at : OverLimit(u, at)' <=> OverLimit(u, at)
          /\ \A run, at : Distant(u, run, at)' <=> Distant(u, run, at)
      BY <1>t, <1>0, <3>2, OtherRuns
    <3> QED
      BY <1>0, <3>1, <3>2, <3>3 DEF WorkerLimits, IInv
  <2> QED
    BY <2>1, <2>2
<1> QED
  BY <1>4, <1>5, <1>6, <1>7, <1>8, <1>9, <1>10, <1>11 DEF IInv

-----------------------------------------------------------------------------
\* Every step

LEMMA PostponedJobs ==
  ASSUME TypeOK, NEW j \in Jobs, NEW available, jobs' = jobs \/ jobs' = Deferred(j, available)
  PROVE  Postponed
<1>1. jobs \in [Jobs -> JobType]
  BY DEF TypeOK
<1>2. CASE jobs' = jobs
  BY <1>2 DEF Postponed
<1>3. CASE jobs[j].state = "pending" /\ jobs' = [jobs EXCEPT ![j].available = available]
  <2>1. jobs'[j].state = "pending" /\ jobs'[j].run = jobs[j].run
    BY <1>1, <1>3 DEF JobType
  <2>2. \A i \in Jobs \ {j} : jobs'[i] = jobs[i]
    BY <1>1, <1>3
  <2> QED
    BY <1>3, <2>1, <2>2 DEF Postponed
<1> QED
  BY <1>2, <1>3 DEF Deferred

\* A worker that exits without a running session, or is killed.
LEMMA CalmExit ==
  ASSUME TypeOK, NEW w \in Workers, Exit(w),
         worker[w].phase \notin {"running", "ended"} \/ crashes' # 0
  PROVE  Calm
BY ExitFields DEF Calm

LEMMA SchedulerSteps ==
  ASSUME IInv, TypeOK', \/ UNCHANGED vars \/ Tick
                        \/ SchedulerStart \/ SchedulerStop \/ SchedulerExit \/ SchedulerCrash
                        \/ \E run \in 1..starts : Recycle(run) \/ Vacate(run)
  PROVE  IInv'
<1>t. TypeOK /\ worker \in [Workers -> ProcessType] /\ crashes \in Nat
  BY DEF IInv, TypeOK
<1>1. UNCHANGED <<jobs, log, hosts, begun, starts>>
  BY DEF vars, Tick, SchedulerStart, SchedulerStop, SchedulerExit, SchedulerCrash, Recycle, Vacate
<1>2. crashes' = crashes \/ crashes' # 0
  BY <1>t DEF vars, Tick, SchedulerStart, SchedulerStop, SchedulerExit, SchedulerCrash, Recycle, Vacate
<1>3. Calm
  <2>1. CASE worker' = worker
    BY <2>1, Unmoved DEF Calm
  <2>2. CASE worker' = [w \in Workers |-> [worker[w] EXCEPT !.child = FALSE]]
    <3>1. \A w \in Workers : worker'[w] = [worker[w] EXCEPT !.child = FALSE]
      BY <2>2
    <3>2. \A w \in Workers : Still(w)
      BY <1>t, <3>1 DEF Same, Still, ProcessType
    <3> QED
      BY <3>2 DEF Calm
  <2> QED
    BY <2>1, <2>2 DEF vars, Tick, SchedulerStart, SchedulerStop, SchedulerExit, SchedulerCrash, Recycle, Vacate
<1>4. Postponed
  BY <1>1 DEF Postponed
<1> QED
  BY <1>1, <1>2, <1>3, <1>4, QuietStep

\* A run has one newest record, whose outcome the scheduler finds.
LEMMA NewestIsOne ==
  ASSUME TypeOK, NEW S \in SUBSET DOMAIN log, NEW i, NEW k, Newest(i, S), Newest(k, S)
  PROVE  i = k
<1>1. \A m \in DOMAIN log : m \in Nat
  BY DEF TypeOK
<1>2. i <= k /\ k <= i /\ i \in Nat /\ k \in Nat
  BY <1>1 DEF Newest
<1> QED
  BY <1>2

LEMMA OutcomeIs ==
  ASSUME TypeOK, NEW j \in Jobs, NEW i \in DOMAIN log, Newest(i, RecordsOf(jobs[j].run))
  PROVE  Outcome(j) = log[i].code
<1>1. RecordsOf(jobs[j].run) \in SUBSET DOMAIN log /\ RecordsOf(jobs[j].run) # {}
  BY DEF RecordsOf, Newest
<1>2. PICK k : k = CHOOSE m \in RecordsOf(jobs[j].run) : Newest(m, RecordsOf(jobs[j].run))
  OBVIOUS
<1>3. i \in RecordsOf(jobs[j].run)
  BY DEF Newest
<1>4. Newest(k, RecordsOf(jobs[j].run))
  BY <1>2, <1>3
<1>5. k = i
  BY <1>1, <1>4, NewestIsOne
<1> QED
  BY <1>1, <1>2, <1>5 DEF Outcome

LEMMA JobSteps ==
  ASSUME IInv, TypeOK', NEW j \in Jobs,
         \/ \E due \in now..now + 1 : Create(j, due)
         \/ Accept(j) \/ Cancel(j) \/ LaunchFail(j) \/ Reconcile(j)
         \/ \E code \in {0, 1} : FireDirectly(j, code)
         \/ \E w \in Workers : Launch(j, w) \/ StartByHand(j, w)
  PROVE  IInv'
<1>t. TypeOK /\ Ids /\ jobs \in [Jobs -> JobType] /\ crashes \in Nat
  BY DEF IInv, TypeOK
<1>c. ASSUME UNCHANGED worker PROVE Calm
  BY <1>c, Unmoved DEF Calm
<1>1. ASSUME NEW due, Insert(j, due) PROVE IInv'
  <2>1. jobs'[j].state = "pending" /\ jobs'[j].run = 0 /\ \A i \in Jobs \ {j} : jobs'[i] = jobs[i]
    BY <1>t, <1>1 DEF Insert
  <2>2. Postponed
    BY <1>1, <2>1 DEF Postponed, Insert
  <2> QED
    BY <1>c, <1>1, <2>2, QuietStep DEF Insert
<1>2. CASE Cancel(j)
  <2>1. jobs' = [jobs EXCEPT ![j].state = "cancelled"]
    BY <1>2 DEF Cancel
  <2>2. /\ jobs'[j].state = "cancelled" /\ jobs'[j].run = jobs[j].run
        /\ \A i \in Jobs \ {j} : jobs'[i] = jobs[i]
    BY <1>t, <2>1 DEF JobType
  <2>3. Postponed
    BY <1>2, <2>2 DEF Postponed, Cancel
  <2> QED
    BY <1>c, <1>2, <2>3, QuietStep DEF Cancel
<1>3. CASE LaunchFail(j)
  <2>1. crashes' # 0
    BY <1>t, <1>3 DEF LaunchFail
  <2>2. Postponed
    BY <1>t, <1>3, PostponedJobs DEF LaunchFail
  <2> QED
    BY <1>c, <1>3, <2>1, <2>2, QuietStep DEF LaunchFail
<1>4. CASE Reconcile(j)
  <2>1. /\ jobs[j].state = "running" /\ ~Alive(jobs[j].pid) /\ jobs' = Finished(j, Outcome(j))
        /\ UNCHANGED <<worker, log, hosts, begun, starts, crashes>>
    BY <1>4 DEF Reconcile, Interrupted
  <2>2. \A w \in Workers : worker'[w].phase \in Holding \ {"planned"} => worker[w].job # j
    <3>1. \A w \in Workers : worker[w].phase \in Holding \ {"planned"} =>
            jobs[worker[w].job].pid = worker[w].run /\ worker[w].phase # "off"
      BY DEF Standing, Stands, IInv, Holding
    <3> QED
      BY <2>1, <3>1 DEF Alive, Working
  <2>3. \A i \in DOMAIN log :
          Newest(i, RecordsOf(jobs[j].run)) => (Outcome(j) = 0 <=> log[i].code = 0)
    BY <1>t, OutcomeIs
  <2> QED
    BY <2>1, <2>2, <2>3, SettleStep
<1>5. ASSUME NEW code \in {0, 1}, FireDirectly(j, code) PROVE IInv'
  BY <1>5, FireStep
<1>6. ASSUME NEW w \in Workers, Launch(j, w) \/ StartByHand(j, w) PROVE IInv'
  <2>1. PICK child \in BOOLEAN : worker' = [worker EXCEPT ![w] = Started(j, child)]
    BY <1>6 DEF Launch, StartByHand
  <2>2. worker[w] = Off /\ starts' = starts + 1 /\ UNCHANGED <<jobs, log, hosts, begun, crashes>>
    BY <1>6 DEF Launch, StartByHand
  <2> QED
    BY <2>1, <2>2, StartStep
<1> QED
  BY <1>1, <1>2, <1>3, <1>4, <1>5, <1>6 DEF Create, Accept

LEMMA WorkerSteps ==
  ASSUME IInv, TypeOK', NEW w \in Workers,
         \/ Look(w) \/ Postpone(w) \/ Repeat(w) \/ Limited(w) \/ Plan(w) \/ Claim(w)
         \/ StartHost(w) \/ Record(w) \/ NoMatch(w) \/ Throw(w) \/ Finish(w)
         \/ WorkerCrash(w)
  PROVE  IInv'
<1>t. TypeOK /\ Ids /\ jobs \in [Jobs -> JobType] /\ crashes \in Nat
  BY DEF IInv, TypeOK
<1>o. On(w) /\ worker[w].job \in Jobs /\ worker[w] \in ProcessType
  <2>1. On(w)
    BY DEF On, Look, Postpone, Repeat, Limited, Plan, Claim, StartHost, Record, NoMatch, Throw,
           Finish, Settling, WorkerCrash
  <2> QED
    BY <1>t, <2>1 DEF TypeOK, On
<1>q. ASSUME \/ UNCHANGED jobs
             \/ \E available : jobs' = Deferred(worker[w].job, available),
             Calm, UNCHANGED <<log, hosts, begun, starts>>, crashes' = crashes \/ crashes' # 0
      PROVE  IInv'
  <2>1. Postponed
    BY <1>q, <1>t, <1>o, PostponedJobs
  <2> QED
    BY <1>q, <2>1, QuietStep
<1>1. CASE Look(w)
  <2>1. CASE Goto(w, "looked", 0)
    <3>1. worker[w].phase = "start" /\ worker'[w].phase = "looked" /\ Same(w)
          /\ \A v \in Workers \ {w} : Still(v)
      BY <1>t, <1>1, <2>1, GotoFields DEF Look
    <3> QED
      BY <1>q, <1>1, <3>1 DEF Look, Calm
  <2>2. CASE Exit(w)
    <3>1. Calm
      BY <1>t, <1>1, <2>2, CalmExit DEF Look
    <3> QED
      BY <1>q, <1>1, <3>1 DEF Look
  <2> QED
    BY <1>1, <2>1, <2>2 DEF Look
<1>2. CASE Postpone(w)
  <2>1. Calm
    BY <1>t, <1>2, CalmExit DEF Postpone
  <2> QED
    BY <1>q, <1>2, <2>1 DEF Postpone
<1>3. CASE Repeat(w)
  <2>1. CASE Claimable(worker[w].job, worker[w].at)
    BY <1>3, <2>1, RepeatStep
  <2>2. CASE ~Claimable(worker[w].job, worker[w].at)
    <3>1. Exit(w) /\ UNCHANGED jobs
      BY <1>3, <2>2 DEF Repeat
    <3>2. Calm
      BY <1>t, <1>3, <3>1, CalmExit DEF Repeat
    <3> QED
      BY <1>q, <1>3, <3>1, <3>2 DEF Repeat
  <2> QED
    BY <2>1, <2>2
<1>4. CASE Limited(w)
  <2>1. Calm
    BY <1>t, <1>4, CalmExit DEF Limited
  <2>2. \E available : jobs' = Deferred(worker[w].job, available)
    BY <1>4 DEF Limited
  <2> QED
    BY <1>q, <1>4, <2>1, <2>2 DEF Limited
<1>5. CASE Plan(w)
  BY <1>5, PlanStep
<1>6. CASE Claim(w)
  <2>1. CASE Claimable(worker[w].job, worker[w].at)
    BY <1>6, <2>1, ClaimStep
  <2>2. CASE ~Claimable(worker[w].job, worker[w].at)
    <3>1. Calm
      BY <1>t, <1>6, <2>2, CalmExit DEF Claim
    <3> QED
      BY <1>q, <1>6, <2>2, <3>1 DEF Claim
  <2> QED
    BY <2>1, <2>2
<1>7. CASE StartHost(w)
  BY <1>7, StartHostStep
<1>8. CASE Record(w) \/ NoMatch(w) \/ Throw(w)
  <2>1. worker[w].code \in Nat
    BY <1>o DEF ProcessType
  <2>2. CASE Record(w)
    BY <2>1, <2>2, AppendStep DEF Record
  <2>3. CASE NoMatch(w)
    BY <2>3, AppendStep DEF NoMatch
  <2>4. CASE Throw(w)
    BY <2>4, AppendStep DEF Throw
  <2> QED
    BY <1>8, <2>2, <2>3, <2>4
<1>9. CASE Finish(w)
  <2>j. PICK j \in Jobs : j = worker[w].job
    BY <1>o
  <2>1. /\ worker[w].phase \in Settling /\ jobs' = Finished(j, worker[w].code)
        /\ worker'[w] = Off /\ Off.phase = "off" /\ \A v \in Workers \ {w} : worker'[v] = worker[v]
        /\ UNCHANGED <<log, hosts, begun, starts, crashes>>
    BY <1>9, <1>t, <2>j, ExitFields DEF Finish
  <2>2. jobs[j].state = "running" /\ jobs[j].pid = worker[w].run
    BY <2>1, <2>j DEF Standing, Stands, IInv, Holding, Settling
  <2>3. \A v \in Workers : worker'[v].phase \in Holding \ {"planned"} => worker[v].job # j
    <3> SUFFICES ASSUME NEW v \in Workers, worker'[v].phase \in Holding \ {"planned"},
                        worker[v].job = j
                 PROVE  FALSE
      OBVIOUS
    <3>1. v # w /\ worker'[v] = worker[v] /\ On(v)
      BY <2>1 DEF Holding, On
    <3>2. worker[v].run = worker[w].run
      BY <2>2, <3>1 DEF Standing, Stands, IInv
    <3> QED
      BY <1>o, <1>t, <3>1, <3>2 DEF Ids
  <2>4. \A i \in DOMAIN log :
          Newest(i, RecordsOf(jobs[j].run)) => (worker[w].code = 0 <=> log[i].code = 0)
    <3>1. PICK k \in DOMAIN log : Newest(k, RecordsOf(jobs[j].run)) /\ log[k].code = worker[w].code
      BY <2>1, <2>j DEF Standing, Stands, IInv
    <3>2. RecordsOf(jobs[j].run) \in SUBSET DOMAIN log
      BY DEF RecordsOf
    <3> QED
      BY <1>t, <3>1, <3>2, NewestIsOne
  <2>5. \A v \in Workers : worker'[v] = worker[v] \/ (worker'[v] = Off /\ worker[v].phase \in Settling)
    BY <2>1
  <2> QED
    BY <2>1, <2>2, <2>3, <2>4, <2>5, SettleStep
<1>10. CASE WorkerCrash(w)
  <2>1. crashes' # 0
    BY <1>t, <1>10 DEF WorkerCrash
  <2>2. Calm
    BY <1>t, <1>10, <2>1, CalmExit DEF WorkerCrash
  <2> QED
    BY <1>q, <1>10, <2>1, <2>2 DEF WorkerCrash
<1> QED
  BY <1>1, <1>2, <1>3, <1>4, <1>5, <1>6, <1>7, <1>8, <1>9, <1>10

LEMMA InductiveStep == IInv /\ [Next]_vars => IInv'
<1> SUFFICES ASSUME IInv, [Next]_vars PROVE IInv'
  OBVIOUS
<1>t. TypeOK'
  BY TypeStep DEF IInv
<1>1. CASE UNCHANGED vars
  BY <1>1, <1>t, SchedulerSteps
<1>2. CASE \/ Tick \/ SchedulerStart \/ SchedulerStop \/ SchedulerExit \/ SchedulerCrash
           \/ \E run \in 1..starts : Recycle(run) \/ Vacate(run)
  BY <1>2, <1>t, SchedulerSteps
<1>3. ASSUME NEW j \in Jobs,
             \/ \E due \in now..now + 1 : Create(j, due)
             \/ Accept(j) \/ Cancel(j) \/ LaunchFail(j) \/ Reconcile(j)
             \/ \E code \in {0, 1} : FireDirectly(j, code)
             \/ \E w \in Workers : Launch(j, w) \/ StartByHand(j, w)
      PROVE  IInv'
  BY <1>3, <1>t, JobSteps
<1>4. ASSUME NEW w \in Workers,
             \/ Look(w) \/ Postpone(w) \/ Repeat(w) \/ Limited(w) \/ Plan(w) \/ Claim(w)
             \/ StartHost(w) \/ Record(w) \/ NoMatch(w) \/ Throw(w) \/ Finish(w)
             \/ WorkerCrash(w)
      PROVE  IInv'
  BY <1>4, <1>t, WorkerSteps
<1>5. ASSUME NEW h \in hosts, NEW code \in {0, 1}, HostEnd(h, code) PROVE IInv'
  BY <1>5, <1>t, HostEndStep
<1> QED
  BY <1>1, <1>2, <1>3, <1>4, <1>5 DEF Next

LEMMA Initially == Init => IInv
<1> SUFFICES ASSUME Init PROVE IInv
  OBVIOUS
<1>1. /\ starts = 0 /\ crashes = 0 /\ log = <<>> /\ hosts = {} /\ begun = {} /\ DOMAIN log = {}
      /\ \A w \in Workers : worker[w] = Off
      /\ \A j \in Jobs : jobs[j].run = 0 /\ jobs[j].state = "none"
  BY DEF Init
<1>2. Off.phase = "off"
      /\ "off" \notin Holding \cup Settling \cup Counting \cup AtWork \cup {"planned", "start", "looked"}
  BY DEF Off, Holding, Settling, Counting, AtWork
<1>3. TypeOK
  <2>1. jobs \in [Jobs -> JobType]
    BY DEF Init, JobType, States
  <2>2. Off \in ProcessType
    BY DEF Off, ProcessType
  <2>3. worker \in [Workers -> ProcessType] /\ \A w \in Workers : worker[w].phase = "off"
    BY <2>2 DEF Init, Off
  <2>4. lock \in [Triggers -> LockType]
    BY DEF Init, LockType, NoLock
  <2>5. pids \in [0..MaxStarts -> {"own", "taken", "free"}]
    BY DEF Init
  <2> QED
    BY <1>1, <2>1, <2>3, <2>4, <2>5 DEF Init, TypeOK, LockType
<1>4. Uses = {} /\ Ids
  <2>1. Uses = {}
    BY <1>1, <1>2 DEF Uses, On
  <2> QED
    BY <1>1, <1>2, <2>1 DEF Ids, On
<1>5. OneHolder /\ Standing /\ Begun /\ Tracked /\ Records
  <2>1. \A run : RecordsOf(run) = {}
    BY <1>1 DEF RecordsOf
  <2>2. Records
    BY <1>1, <2>1 DEF Records
  <2> QED
    BY <1>1, <1>2, <2>2 DEF OneHolder, SingleFlight, Holds, Standing, Stands, Begun, Tracked, On
<1>6. LogAndTableAgree
  BY <1>1 DEF LogAndTableAgree
<1>7. LogLimits /\ WorkerLimits
  <2>1. \A t : Runs(t) = {} /\ Firsts(t) = {}
    BY <1>1 DEF Runs, Firsts
  <2> QED
    BY <1>1, <1>2, <2>1 DEF LogLimits, WorkerLimits
<1> QED
  BY <1>3, <1>4, <1>5, <1>6, <1>7 DEF IInv

\* The inductive invariant of the trigger jobs.
THEOREM Inductive == Spec => []IInv
BY Initially, InductiveStep, PTL DEF Spec

-----------------------------------------------------------------------------
\* What it says to a user of triggers

\* The job table, the run log, the locks and the processes keep their types, and every
\* process at work has a job: no step reads a job, an entry or a lock that is not there.
THEOREM TypeCorrect == Spec => []TypeOK
<1>1. IInv => TypeOK
  BY DEF IInv
<1> QED
  BY <1>1, Inductive, PTL

\* "An unattended run must never overlap its own previous run" (run.mjs): whatever dies
\* and whoever takes over, two sessions of a trigger never run at the same time.
THEOREM NeverOverlaps == Spec => []SingleFlight
<1>1. IInv => SingleFlight
  BY DEF IInv, OneHolder
<1> QED
  BY <1>1, Inductive, PTL

\* "A running job is never automatically retried" (jobs.mjs): a job starts at most one
\* session through crashes, restarts and runs by hand, and none once it is cancelled.
THEOREM StartsOnce == Spec => []RunOnce
<1>1. ASSUME IInv PROVE RunOnce
  <2>1. ASSUME NEW b \in begun, NEW c \in begun, b.job = c.job, b.job \in Fired => crashes = 0
        PROVE  b = c
    <3>1. CASE b.job \in Fired
      BY <1>1, <2>1, <3>1 DEF IInv, Tracked
    <3>2. CASE b.job \notin Fired
      <4>1. b.run = c.run
        BY <1>1, <2>1, <3>2 DEF IInv, Begun
      <4> QED
        BY <1>1, <4>1 DEF IInv, Ids
    <3> QED
      BY <3>1, <3>2
  <2>2. \A b \in begun : b.job \notin Fired => jobs[b.job].state # "cancelled"
    BY <1>1 DEF IInv, Begun
  <2> QED
    BY <2>1, <2>2 DEF RunOnce
<1> QED
  BY <1>1, Inductive, PTL

\* The job table and the run log tell the same story, wherever a worker died between its
\* two writes (job-cli.mjs finishes the job after run.mjs has appended the record), and
\* when an error after the first record made it append a second one that says the
\* contrary: a settled job has the outcome of the newest record of its run.
THEOREM TablesAgree == Spec => []LogAndTableAgree
<1>1. IInv => LogAndTableAgree
  BY DEF IInv
<1> QED
  BY <1>1, Inductive, PTL

\* Recorded runs are positions in the log: as many, at the same times.
LEMMA Positions ==
  ASSUME IInv, NEW b \in begun, NEW i \in DOMAIN log, log[i].run = b.run
  PROVE  /\ i \in Runs(Trigger[b.job]) /\ Trigger[b.job] \in Triggers
         /\ log[i].at = b.at /\ log[i].job = b.job /\ b.at \in Nat /\ i \in Nat
<1>1. TypeOK /\ Ids
  BY DEF IInv
<1>2. log[i].job = b.job
  BY <1>1, Owners
<1>3. ~log[i].skipped /\ log[i].at = b.at
  BY DEF IInv, Begun
<1>4. b.job \in Jobs /\ b.at \in Nat
  BY <1>1 DEF TypeOK
<1>5. i \in Nat
  <2>1. log \in Seq(EntryType)
    BY <1>1 DEF TypeOK, EntryType
  <2> QED
    BY <2>1
<1> QED
  BY <1>2, <1>3, <1>4, <1>5 DEF Runs, Triggers

\* A run "must never exceed the limits its definition declares" (run.mjs): the recorded
\* runs of a trigger keep their distance, and no day has more of them than allowed.
THEOREM KeepsLimits == Spec => []RecordedLimitsHeld
<1>1. ASSUME IInv PROVE RecordedLimitsHeld
  <2> DEFINE Recorded == {b \in begun : \E e \in ToSet(log) : e.run = b.run}
             Earlier(b) == {c \in Recorded : /\ Trigger[c.job] = Trigger[b.job] /\ c.run # b.run
                                             /\ c.at <= b.at}
             Near(b) == {c \in Earlier(b) : b.at < c.at + Day}
  <2>0. \A b \in Recorded : b \in begun /\ \E i \in DOMAIN log : log[i].run = b.run
    BY DEF ToSet
  <2>1. ASSUME NEW b \in Recorded, NEW c \in Earlier(b) PROVE b.at >= c.at + MinInterval
    <3>1. PICK i \in DOMAIN log : log[i].run = b.run
      BY <2>0
    <3>2. PICK k \in DOMAIN log : log[k].run = c.run
      BY <2>0
    <3>3. /\ i \in Runs(Trigger[b.job]) /\ k \in Runs(Trigger[b.job])
          /\ Trigger[b.job] \in Triggers
          /\ log[i].at = b.at /\ log[k].at = c.at /\ i \in Nat /\ k \in Nat /\ b.at \in Nat /\ c.at \in Nat
      BY <1>1, <2>0, <3>1, <3>2, Positions
    <3>4. i # k /\ c.at <= b.at
      BY <3>1, <3>2
    <3>5. CASE k < i
      BY <1>1, <3>1, <3>2, <3>3, <3>4, <3>5 DEF IInv, LogLimits
    <3>6. CASE i < k
      <4>1. c.at >= b.at + MinInterval
        BY <1>1, <3>1, <3>2, <3>3, <3>4, <3>6 DEF IInv, LogLimits
      <4> QED
        BY <3>3, <3>4, <4>1
    <3> QED
      BY <3>3, <3>4, <3>5, <3>6
  <2>2. ASSUME NEW b \in Recorded PROVE Cardinality(Near(b)) < MaxRunsPerDay
    <3>1. PICK i \in DOMAIN log : log[i].run = b.run /\ First(i)
      BY <1>1, <2>0 DEF IInv, Records
    <3>2. i \in Runs(Trigger[b.job]) /\ log[i].job = b.job /\ log[i].at = b.at
          /\ Trigger[b.job] \in Triggers
      BY <1>1, <2>0, <3>1, Positions
    <3> DEFINE place == [c \in Near(b) |-> CHOOSE k \in DOMAIN log : log[k].run = c.run /\ First(k)]
    <3>3. \A c \in Near(b) : place[c] \in DOMAIN log /\ log[place[c]].run = c.run /\ First(place[c])
      <4> SUFFICES ASSUME NEW c \in Near(b)
                   PROVE  place[c] \in DOMAIN log /\ log[place[c]].run = c.run /\ First(place[c])
        OBVIOUS
      <4>1. \E k \in DOMAIN log : log[k].run = c.run /\ First(k)
        BY <1>1, <2>0 DEF IInv, Records
      <4> QED
        BY <4>1
    <3>4. \A c \in Near(b) : /\ c \in begun /\ c.run # b.run /\ c.at <= b.at /\ b.at < c.at + Day
                             /\ Trigger[c.job] = Trigger[b.job]
      BY <2>0
    <3> HIDE DEF place
    <3>5. ASSUME NEW c \in Near(b) PROVE place[c] \in Neighbours(i)
      <4>1. place[c] \in Runs(Trigger[b.job]) /\ log[place[c]].at = c.at
        BY <1>1, <3>3, <3>4, <3>5, Positions
      <4>2. place[c] # i
        BY <3>1, <3>3, <3>4, <3>5
      <4> QED
        BY <3>2, <3>3, <3>4, <3>5, <4>1, <4>2 DEF Neighbours, Firsts
    <3>6. \A c, d \in Near(b) : place[c] = place[d] => c = d
      <4>1. \A c, d \in begun : c.run = d.run => c = d
        BY <1>1 DEF IInv, Ids
      <4> QED
        BY <3>3, <3>4, <4>1
    <3>7. place \in [Near(b) -> Neighbours(i)]
      BY <3>5 DEF place
    <3>8. place \in Injection(Near(b), Neighbours(i))
      BY <3>6, <3>7, Fun_IsInj
    <3>9. IsFiniteSet(Neighbours(i)) /\ Cardinality(Neighbours(i)) \in Nat
      <4>1. IsFiniteSet(DOMAIN log)
        <5>1. Len(log) \in Nat /\ DOMAIN log = 1..Len(log)
          BY <1>1 DEF IInv, TypeOK
        <5> QED
          BY <5>1, FS_Interval
      <4>2. Neighbours(i) \in SUBSET DOMAIN log
        BY DEF Neighbours, Firsts, Runs
      <4> QED
        BY <4>1, <4>2, FS_Subset, FS_CardinalityType
    <3>10. IsFiniteSet(Near(b)) /\ Cardinality(Near(b)) <= Cardinality(Neighbours(i))
      BY <3>8, <3>9, FS_Injection
    <3>11. Cardinality(Near(b)) \in Nat
      BY <3>10, FS_CardinalityType
    <3>12. Cardinality(Neighbours(i)) < MaxRunsPerDay
      BY <1>1, <3>1, <3>2 DEF IInv, LogLimits, Firsts
    <3> QED
      BY <3>9, <3>10, <3>11, <3>12
  <2> QED
    BY <2>1, <2>2 DEF RecordedLimitsHeld, Within
<1> QED
  BY <1>1, Inductive, PTL

-----------------------------------------------------------------------------
\* A step settles a job only when it may.
Settled == \A j \in Jobs :
  /\ jobs[j].state \in {"completed", "failed", "cancelled"} => jobs'[j] = jobs[j]
  /\ jobs[j].state = "running" /\ jobs'[j] # jobs[j] =>
       /\ jobs'[j].run = jobs[j].run
       /\ \/ \E w \in Workers : worker[w].phase \in Settling /\ worker[w].run = jobs[j].pid
          \/ ~Alive(jobs[j].pid) /\ ~LeaseHeld(Trigger[j])
       /\ jobs'[j].state = "completed" =>
            \E i \in DOMAIN log : Newest(i, RecordsOf(jobs[j].run)) /\ log[i].code = 0

\* Most handlers change a job that waits, or one that is not there yet.
WaitingOnly == \A j \in Jobs : jobs[j].state \notin {"none", "pending"} => jobs'[j] = jobs[j]

LEMMA WaitingSettles == ASSUME WaitingOnly PROVE Settled
BY DEF WaitingOnly, Settled

LEMMA DeferredWaits ==
  ASSUME TypeOK, NEW i \in Jobs, NEW at, jobs' = Deferred(i, at) PROVE WaitingOnly
BY DEF TypeOK, Deferred, WaitingOnly

LEMMA ClaimedWaits ==
  ASSUME TypeOK, NEW i \in Jobs, jobs[i].state = "pending", NEW run, NEW pid,
         jobs' = Claimed(i, run, pid)
  PROVE  WaitingOnly
BY DEF TypeOK, Claimed, WaitingOnly

\* The table after a finish: one running job has a settled state.
LEMMA FinishedIs ==
  ASSUME TypeOK, NEW i \in Jobs, NEW code, jobs' = Finished(i, code), NEW j \in Jobs
  PROVE  \/ jobs'[j] = jobs[j]
         \/ /\ j = i /\ jobs[j].state = "running" /\ jobs'[j].run = jobs[j].run
            /\ jobs'[j].state = IF code = 0 THEN "completed" ELSE "failed"
BY DEF TypeOK, JobType, Finished

LEMMA SettledStep == ASSUME IInv, Next PROVE Settled
<1>0. TypeOK /\ jobs \in [Jobs -> JobType]
  BY DEF IInv, TypeOK
<1>1. ASSUME UNCHANGED jobs PROVE Settled
  BY <1>1 DEF Settled
<1>2. ASSUME NEW w \in Workers, On(w) PROVE worker[w].job \in Jobs
  BY <1>0, <1>2 DEF TypeOK, On
<1>3. ASSUME NEW i \in Jobs, NEW due, Insert(i, due) \/ Cancel(i) PROVE Settled
  <2>1. WaitingOnly
    BY <1>0, <1>3 DEF Insert, Cancel, WaitingOnly
  <2> QED
    BY <2>1, WaitingSettles
<1>4. ASSUME NEW i \in Jobs, LaunchFail(i) PROVE Settled
  BY <1>0, <1>4, DeferredWaits, WaitingSettles DEF LaunchFail
<1>5. ASSUME NEW i \in Jobs, Reconcile(i) PROVE Settled
  <2>1. /\ jobs[i].state = "running" /\ ~Alive(jobs[i].pid) /\ ~LeaseHeld(Trigger[i])
        /\ jobs' = Finished(i, Outcome(i))
    BY <1>5 DEF Reconcile, Interrupted
  <2>2. ASSUME Outcome(i) = 0
        PROVE  \E k \in DOMAIN log : Newest(k, RecordsOf(jobs[i].run)) /\ log[k].code = 0
    <3>1. PICK m \in DOMAIN log : log[m].run = jobs[i].run
      BY <2>2 DEF Outcome, RecordsOf
    <3>2. PICK k \in DOMAIN log : Newest(k, RecordsOf(jobs[i].run))
      <4>1. log[m].run \in 1..MaxStarts
        <5>1. log \in Seq(EntryType)
          BY <1>0 DEF TypeOK, EntryType
        <5>2. log[m] \in EntryType
          BY <3>1, <5>1
        <5> QED
          BY <5>2 DEF EntryType
      <4>2. RecordsOf(jobs[i].run) # {}
        BY <3>1 DEF RecordsOf
      <4> QED
        BY <3>1, <4>1, <4>2 DEF IInv, Records
    <3> QED
      BY <1>0, <2>2, <3>2, OutcomeIs
  <2>3. ASSUME NEW j \in Jobs
        PROVE  \/ jobs'[j] = jobs[j]
               \/ /\ j = i /\ jobs[j].state = "running" /\ jobs'[j].run = jobs[j].run
                  /\ jobs'[j].state = IF Outcome(i) = 0 THEN "completed" ELSE "failed"
    BY <1>0, <2>1, FinishedIs
  <2> QED
    BY <2>1, <2>2, <2>3 DEF Settled
<1>6. ASSUME NEW w \in Workers, Finish(w) PROVE Settled
  <2>1. worker[w].phase \in Settling /\ worker[w].job \in Jobs
    BY <1>2, <1>6 DEF Finish, On, Settling
  <2>i. PICK i \in Jobs : i = worker[w].job
    BY <2>1
  <2>2. jobs' = Finished(i, worker[w].code)
    BY <1>6, <2>i DEF Finish
  <2>3. jobs[i].pid = worker[w].run
    BY <2>1, <2>i DEF IInv, Standing, Stands, Holding, Settling
  <2>4. \E k \in DOMAIN log : Newest(k, RecordsOf(jobs[i].run)) /\ log[k].code = worker[w].code
    BY <2>1, <2>i DEF IInv, Standing, Stands
  <2>5. ASSUME NEW j \in Jobs
        PROVE  \/ jobs'[j] = jobs[j]
               \/ /\ j = i /\ jobs[j].state = "running" /\ jobs'[j].run = jobs[j].run
                  /\ jobs'[j].state = IF worker[w].code = 0 THEN "completed" ELSE "failed"
    BY <1>0, <2>2, FinishedIs
  <2> QED
    BY <2>1, <2>3, <2>4, <2>5 DEF Settled
<1>7. ASSUME NEW w \in Workers, Postpone(w) \/ Limited(w) PROVE Settled
  <2>1. On(w) /\ \E at : jobs' = Deferred(worker[w].job, at)
    BY <1>7 DEF Postpone, Limited, On
  <2> QED
    BY <1>0, <1>2, <2>1, DeferredWaits, WaitingSettles
<1>8. ASSUME NEW w \in Workers, WorkerCrash(w) PROVE Settled
  <2>1. On(w) /\ (jobs' = jobs \/ jobs' = Deferred(worker[w].job, now + Retry))
    BY <1>8 DEF WorkerCrash, On
  <2> QED
    BY <1>0, <1>1, <1>2, <2>1, DeferredWaits, WaitingSettles
<1>9. ASSUME NEW w \in Workers, Claim(w) \/ Repeat(w) PROVE Settled
  <2>1. On(w) /\ worker[w].job \in Jobs
    BY <1>2, <1>9 DEF Claim, Repeat, On
  <2>2. CASE Claimable(worker[w].job, worker[w].at)
    <3>1. \E run, pid : jobs' = Claimed(worker[w].job, run, pid)
      BY <1>9, <2>2 DEF Claim, Repeat
    <3>2. WaitingOnly
      BY <1>0, <2>1, <2>2, <3>1, ClaimedWaits DEF Claimable
    <3> QED
      BY <3>2, WaitingSettles
  <2>3. CASE ~Claimable(worker[w].job, worker[w].at)
    <3>1. jobs' = jobs \/ \E at : jobs' = Deferred(worker[w].job, at)
      BY <1>9, <2>3 DEF Claim, Repeat
    <3> QED
      BY <1>0, <1>1, <2>1, <3>1, DeferredWaits, WaitingSettles
  <2> QED
    BY <2>2, <2>3
<1>10. CASE \/ Tick \/ SchedulerStart \/ SchedulerStop \/ SchedulerExit \/ SchedulerCrash
            \/ \E run \in 1..starts : Recycle(run) \/ Vacate(run)
  BY <1>1, <1>10 DEF Tick, SchedulerStart, SchedulerStop, SchedulerExit, SchedulerCrash, Recycle, Vacate
<1>11. ASSUME NEW i \in Jobs, NEW w \in Workers, Launch(i, w) \/ StartByHand(i, w)
       PROVE  Settled
  BY <1>1, <1>11 DEF Launch, StartByHand
<1>12. ASSUME NEW w \in Workers,
              Look(w) \/ Plan(w) \/ StartHost(w) \/ Record(w) \/ NoMatch(w) \/ Throw(w)
       PROVE  Settled
  BY <1>1, <1>12 DEF Look, Plan, StartHost, Record, NoMatch, Throw, Append1
<1>13. ASSUME NEW h \in hosts, NEW code, HostEnd(h, code) PROVE Settled
  BY <1>1, <1>13 DEF HostEnd
<1>14. ASSUME NEW i \in Jobs, NEW code, FireDirectly(i, code) PROVE Settled
  BY <1>1, <1>14 DEF FireDirectly
<1>15. ASSUME NEW i \in Jobs, NEW due, Create(i, due) \/ Accept(i) PROVE Settled
  BY <1>3, <1>15 DEF Create, Accept
<1> QED
  BY <1>3, <1>4, <1>5, <1>6, <1>7, <1>8, <1>9, <1>10, <1>11, <1>12, <1>13, <1>14, <1>15 DEF Next

\* jobs.mjs:98-102, scheduler.mjs:45-52: a claimed job is settled by the worker that
\* claimed it, or when no process has its pid and nobody the lease, as completed only if
\* the newest record of its run says so; and what is settled stays as it is.
THEOREM OwnRunSettles == Spec => SettledByOwnRun
<1>1. IInv /\ [Next]_vars => [Settled]_vars
  BY SettledStep
<1> QED
  BY <1>1, Inductive, PTL DEF Spec, SettledByOwnRun, Settled

-----------------------------------------------------------------------------
(* The schedule cursor (ScheduleCursor), which decides when a job is created: *)
(* for every set of sources, periods and rules.                               *)

\* Division by a positive period: the multiple below and the next one above.
LEMMA Multiple ==
  ASSUME NEW a \in Nat, NEW p \in Nat \ {0}
  PROVE  /\ a \div p \in Nat
         /\ (a \div p) * p <= a
         /\ a < (a \div p) * p + p
PROOF
<1>1. a = p * (a \div p) + (a % p) /\ a % p \in 0..(p - 1) BY SMT
<1>2. a \div p \in Nat BY SMT
<1> QED BY <1>1, <1>2, SMT

\* Multiples of a period are a period apart.
LEMMA Apart ==
  ASSUME NEW k \in Nat, NEW q \in Nat, NEW p \in Nat \ {0}, k * p > q * p
  PROVE  k * p >= q * p + p
PROOF
<1>1. k > q
  <2>1. SUFFICES ASSUME k <= q PROVE FALSE BY SMT
  <2>2. PICK d \in Nat : q = k + d BY <2>1, SMT
  <2>3. q * p = k * p + d * p /\ d * p >= 0 BY <2>2, SMT
  <2> QED BY <2>3, SMT
<1>2. PICK d \in Nat : k = q + 1 + d BY <1>1, SMT
<1>3. k * p = q * p + p + d * p /\ d * p >= 0 BY <1>2, SMT
<1> QED BY <1>3, SMT

\* The next firing is later than now, and an instant of a cron rule.
LEMMA NextIsLater ==
  ASSUME NEW s \in Sources, NEW t \in 0..MaxTime
  PROVE  /\ NextFiring(s, t) \in Nat /\ NextFiring(s, t) > t
         /\ s \in Calendars => NextFiring(s, t) \in Occurs[s]
PROOF
<1>1. CASE s \in Calendars
  <2>1. \E n \in Occurs[s] : n > t /\ \A o \in Occurs[s] : o > t => n <= o
    BY <1>1, CursorAssumption
  <2>2. NextFiring(s, t) \in Occurs[s] /\ NextFiring(s, t) > t
    BY <1>1, <2>1 DEF NextFiring
  <2>3. Occurs[s] \subseteq Nat BY <1>1, CursorAssumption
  <2> QED BY <2>2, <2>3
<1>2. CASE s \notin Calendars
  <2>1. Period[s] \in Nat \ {0} BY <1>2, CursorAssumption
  <2> QED BY <1>2, <2>1 DEF NextFiring
<1> QED BY <1>1, <1>2

\* The instant a due firing merges to: not before the cursor, not after now, and
\* the last of its kind.
LEMMA LatestIsLast ==
  ASSUME NEW s \in Sources, NEW from \in Nat, NEW t \in 0..MaxTime, from <= t,
         s \in Calendars => from \in Occurs[s]
  PROVE  /\ ScheduledAt(s, from, t) \in Nat
         /\ from <= ScheduledAt(s, from, t) /\ ScheduledAt(s, from, t) <= t
         /\ s \in Calendars =>
              \A o \in Occurs[s] : o > ScheduledAt(s, from, t) => o > t
         /\ s \notin Calendars =>
              \A k \in Nat : from + k * Period[s] > ScheduledAt(s, from, t)
                             => from + k * Period[s] > t
PROOF
<1> DEFINE last == ScheduledAt(s, from, t)
<1>1. CASE s \in Calendars
  <2>1. \E l \in Occurs[s] : l <= t /\ \A o \in Occurs[s] : o <= t => o <= l
    BY <1>1, CursorAssumption
  <2>2. last \in Occurs[s] /\ last <= t /\ \A o \in Occurs[s] : o <= t => o <= last
    BY <1>1, <2>1 DEF ScheduledAt
  <2>3. Occurs[s] \subseteq Nat BY <1>1, CursorAssumption
  <2>4. \A o \in Occurs[s] : o > last => o > t BY <2>2, <2>3
  <2> QED BY <1>1, <2>2, <2>3, <2>4
<1>2. CASE s \notin Calendars
  <2>1. Period[s] \in Nat \ {0} BY <1>2, CursorAssumption
  <2> DEFINE a == t - from
             q == a \div Period[s]
  <2>2. a \in Nat OBVIOUS
  <2>3. q \in Nat /\ q * Period[s] <= a /\ a < q * Period[s] + Period[s]
    BY <2>1, <2>2, Multiple
  <2>4. last = from + q * Period[s] BY <1>2 DEF ScheduledAt
  <2> HIDE DEF a, q, last
  <2>5. q * Period[s] \in Nat BY <2>1, <2>3
  <2>6. last \in Nat /\ from <= last /\ last <= t
    BY <2>3, <2>4, <2>5 DEF a
  <2>7. ASSUME NEW k \in Nat, from + k * Period[s] > last
        PROVE  from + k * Period[s] > t
    <3>1. k * Period[s] \in Nat BY <2>1
    <3>2. k * Period[s] > q * Period[s] BY <2>4, <2>5, <2>7, <3>1
    <3>3. k * Period[s] >= q * Period[s] + Period[s] BY <2>1, <2>3, <3>2, Apart
    <3> QED BY <2>1, <2>3, <2>5, <3>1, <3>3 DEF a
  <2> QED BY <1>2, <2>6, <2>7 DEF last
<1> QED BY <1>1, <1>2


CursorInv == /\ CursorTypeOK /\ CursorPastJobs /\ CursorOnRule
             /\ scan # None => scan <= clock

LEMMA CursorStarts == CursorInit => CursorInv
BY DEF CursorInit, CursorInv, CursorTypeOK, CursorPastJobs, CursorOnRule

\* A fresh cursor lies after the time it was computed from.
LEMMA FreshIsLater ==
  ASSUME NEW d \in Definition, NEW at \in 0..MaxTime
  PROVE  /\ Fresh(d, at) \in Row /\ Fresh(d, at).nextAt > at /\ Fresh(d, at).source = d.source
         /\ Fresh(d, at).source \in Calendars => Fresh(d, at).nextAt \in Occurs[Fresh(d, at).source]
<1>1. d.source \in Sources /\ d.workspace \in Workspaces /\ d.enabled \in BOOLEAN
  BY DEF Definition
<1>2. NextFiring(d.source, at) \in Nat /\ NextFiring(d.source, at) > at
      /\ (d.source \in Calendars => NextFiring(d.source, at) \in Occurs[d.source])
  BY <1>1, NextIsLater
<1> QED
  BY <1>1, <1>2 DEF Fresh, Row

\* What is due lies between the cursor and the time of the tick.
LEMMA DueIsLatest ==
  ASSUME CursorInv, IsDue
  PROVE  /\ Due \in Firing /\ Due.source = row.source /\ Due.at \in Nat
         /\ row.nextAt <= Due.at /\ Due.at <= scan
         /\ row \in Row /\ row # None /\ scan \in 0..MaxTime /\ scan # None /\ row.nextAt \in Nat
<1>1. row \in Row /\ row # None /\ scan \in 0..MaxTime /\ scan # None /\ scan >= row.nextAt
  BY DEF CursorInv, CursorTypeOK, IsDue, Found
<1>2. row.source \in Sources /\ row.nextAt \in Nat
  BY <1>1 DEF Row
<1>3. row.source \in Calendars => row.nextAt \in Occurs[row.source]
  BY <1>1 DEF CursorInv, CursorOnRule
<1> QED
  BY <1>1, <1>2, <1>3, LatestIsLast DEF Due, Firing

\* A row is written anew, from a time that no job of its source lies after.
LEMMA FreshStep ==
  ASSUME CursorInv, NEW d \in Definition, NEW at \in 0..MaxTime, row' = Fresh(d, at),
         late' \in BOOLEAN, ~late' => \A j \in firings : j.at <= at,
         UNCHANGED <<clock, def, firings>>,
         install' \in {None, install}, scan' \in {None, scan}
  PROVE  CursorInv'
<1>1. /\ row' \in Row /\ row'.nextAt > at /\ row'.source = d.source /\ row'.nextAt \in Nat
      /\ row'.source \in Calendars => row'.nextAt \in Occurs[row'.source]
  BY FreshIsLater DEF Row
<1>2. \A j \in firings : j.at \in Nat
  BY DEF CursorInv, CursorTypeOK, Firing
<1>3. CursorTypeOK'
  BY <1>1 DEF CursorInv, CursorTypeOK
<1>4. CursorPastJobs'
  BY <1>1, <1>2 DEF CursorInv, CursorPastJobs
<1>5. CursorOnRule'
  BY <1>1 DEF CursorOnRule
<1> QED
  BY <1>3, <1>4, <1>5 DEF CursorInv

\* A tick fires: the job is past the clock it read, and the cursor past the job.
LEMMA FirePast ==
  ASSUME CursorInv, Fire
  PROVE  CursorInv'
<1>1. IsDue
  BY DEF Fire
<1>2. /\ row \in Row /\ Due \in Firing /\ Due.source = row.source /\ Due.at \in Nat
      /\ Due.at <= scan /\ scan \in 0..MaxTime /\ scan <= clock /\ clock \in 0..MaxTime
  BY <1>1, DueIsLatest DEF CursorInv, CursorTypeOK
<1>3. PICK next : next = NextFiring(row.source, scan)
  OBVIOUS
<1>4. row.source \in Sources /\ row.workspace \in Workspaces /\ row.enabled \in BOOLEAN
  BY <1>2 DEF Row
<1>5. next \in Nat /\ next > scan /\ (row.source \in Calendars => next \in Occurs[row.source])
  BY <1>2, <1>3, <1>4, NextIsLater
<1>6. row' = [row EXCEPT !.nextAt = next]
  BY <1>3 DEF Fire
<1>7. /\ row' \in Row /\ row'.source = row.source /\ row'.nextAt = next
  BY <1>2, <1>5, <1>6 DEF Row
<1>8. /\ firings' \subseteq firings \cup {Due} /\ UNCHANGED <<clock, def>> /\ scan' = None
      /\ late' = FALSE
      /\ install' = IF install = None THEN None ELSE [install EXCEPT !.overtaken = TRUE]
  BY DEF Fire, FireJob
<1>9. \/ install' = None
      \/ /\ install # None /\ install' \in Install /\ install'.overtaken
         /\ install'.step = install.step /\ install'.def = install.def
  <2>1. install \in Install \/ install = None
    BY DEF CursorInv, CursorTypeOK
  <2> QED
    BY <1>8, <2>1 DEF Install
<1>10. CursorTypeOK'
  <2>1. install' # None /\ install'.step # "begun" => install'.def # None
    BY <1>9 DEF CursorInv, CursorTypeOK
  <2> QED
    BY <1>2, <1>7, <1>8, <1>9, <2>1 DEF CursorInv, CursorTypeOK
<1>11. CursorPastJobs'
  <2>1. \A j \in firings' : j.at \in Nat /\ j.at <= scan
    BY <1>1, <1>2, <1>8, DueIsLatest DEF CursorInv, CursorPastJobs, CursorTypeOK, Firing
  <2>2. \A j \in firings' : j.at <= clock /\ j.at < next
    BY <1>2, <1>5, <2>1
  <2> QED
    BY <1>7, <1>8, <1>9, <2>2 DEF CursorPastJobs
<1>12. CursorOnRule'
  BY <1>5, <1>7 DEF CursorOnRule
<1> QED
  BY <1>8, <1>10, <1>11, <1>12 DEF CursorInv

\* An install goes on: what it read stays what it read.
LEMMA InstallStep ==
  ASSUME CursorInv, BeginInstall \/ FindDefinition \/ CheckRow \/ LeaveInstall
  PROVE  CursorInv'
<1>1. UNCHANGED <<clock, def, row, firings, scan, late>>
  BY DEF BeginInstall, FindDefinition, CheckRow, LeaveInstall
<1>2. CASE install' = None
  BY <1>1, <1>2 DEF CursorInv, CursorTypeOK, CursorPastJobs, CursorOnRule
<1>3. CASE BeginInstall
  <2>1. install' = [step |-> "begun", at |-> clock, def |-> None, overtaken |-> FALSE]
    BY <1>3 DEF BeginInstall
  <2>2. install' \in Install /\ install'.at = clock /\ install'.step = "begun"
    BY <2>1 DEF Install, CursorInv, CursorTypeOK
  <2> QED
    BY <1>1, <2>2 DEF CursorInv, CursorTypeOK, CursorPastJobs, CursorOnRule
<1>4. CASE FindDefinition \/ CheckRow
  <2>1. install \in Install /\ install # None
    BY <1>4 DEF FindDefinition, CheckRow, CursorInv, CursorTypeOK
  <2>2. /\ install' \in Install /\ install'.at = install.at /\ install'.overtaken = install.overtaken
        /\ install'.def # None
    <3>1. CASE FindDefinition
      <4>1. install' = [install EXCEPT !.step = "found", !.def = def] /\ def # None
        BY <3>1 DEF FindDefinition
      <4>2. def \in Definition \cup {None}
        BY DEF CursorInv, CursorTypeOK
      <4> QED
        BY <2>1, <4>1, <4>2 DEF Install
    <3>2. CASE CheckRow
      <4>1. install' = [install EXCEPT !.step = "new"] /\ install.def # None
        BY <3>2 DEF CheckRow, CursorInv, CursorTypeOK
      <4> QED
        BY <2>1, <4>1 DEF Install
    <3> QED
      BY <1>4, <3>1, <3>2
  <2> QED
    BY <1>1, <2>1, <2>2 DEF CursorInv, CursorTypeOK, CursorPastJobs, CursorOnRule
<1> QED
  BY <1>2, <1>3, <1>4 DEF LeaveInstall

LEMMA CursorPreserved == ASSUME CursorInv, [CursorNext]_cursorVars PROVE CursorInv'
<1>1. /\ clock \in 0..MaxTime /\ \A j \in firings : j.at \in Nat /\ j.at <= clock
      /\ scan # None => scan \in 0..MaxTime /\ scan <= clock
  BY DEF CursorInv, CursorTypeOK, CursorPastJobs, Firing
<1>2. CASE Edit
  BY <1>2 DEF Edit, CursorInv, CursorTypeOK, CursorPastJobs, CursorOnRule
<1>3. CASE Unregister
  BY <1>3 DEF Unregister, CursorInv, CursorTypeOK, CursorPastJobs, CursorOnRule
<1>4. CASE BeginInstall \/ FindDefinition \/ CheckRow \/ LeaveInstall
  BY <1>4, InstallStep
<1>5. CASE Register
  <2>1. install \in Install /\ install # None /\ install.def # None /\ install.overtaken \in BOOLEAN
        /\ install.at \in 0..MaxTime /\ install.def \in Definition
    <3>1. install \in Install /\ install # None /\ install.def # None
      BY <1>5 DEF Register, CursorInv, CursorTypeOK
    <3> QED
      BY <3>1 DEF Install
  <2>2. ~install.overtaken => \A j \in firings : j.at <= install.at
    BY <2>1 DEF CursorInv, CursorPastJobs
  <2> QED
    BY <1>5, <2>1, <2>2, FreshStep DEF Register
<1>6. CASE BeginScan
  BY <1>1, <1>6 DEF BeginScan, CursorInv, CursorTypeOK, CursorPastJobs, CursorOnRule
<1>7. CASE Follow
  <2>1. def \in Definition /\ scan \in 0..MaxTime /\ \A j \in firings : j.at <= scan
    BY <1>7 DEF Follow, Found, CursorInv, CursorTypeOK, CursorPastJobs
  <2> QED
    BY <1>7, <2>1, FreshStep DEF Follow
<1>8. CASE Fire
  BY <1>8, FirePast
<1>9. CASE LeaveScan
  BY <1>9 DEF LeaveScan, CursorInv, CursorTypeOK, CursorPastJobs, CursorOnRule
<1>10. CASE Elapse
  <2>1. /\ clock' \in 0..MaxTime /\ clock < clock' /\ UNCHANGED <<def, row, firings, install, scan, late>>
    BY <1>10 DEF Elapse
  <2>2. \A j \in firings : j.at <= clock'
    BY <1>1, <2>1
  <2>3. scan # None => scan <= clock'
    BY <1>1, <2>1
  <2> QED
    BY <2>1, <2>2, <2>3 DEF CursorInv, CursorTypeOK, CursorPastJobs, CursorOnRule
<1>11. CASE UNCHANGED cursorVars
  BY <1>11 DEF cursorVars, CursorInv, CursorTypeOK, CursorPastJobs, CursorOnRule
<1> QED
  BY <1>2, <1>3, <1>4, <1>5, <1>6, <1>7, <1>8, <1>9, <1>10, <1>11 DEF CursorNext

LEMMA CursorInductive == CursorSpec => []CursorInv
<1>1. CursorInv /\ [CursorNext]_cursorVars => CursorInv'
  BY CursorPreserved
<1> QED
  BY <1>1, CursorStarts, PTL DEF CursorSpec

\* The row, the definition, the jobs, an install and a tick on their way keep their shape.
THEOREM CursorTypes == CursorSpec => []CursorTypeOK
<1>1. CursorInv => CursorTypeOK
  BY DEF CursorInv
<1> QED
  BY <1>1, CursorInductive, PTL

\* jobs.mjs:42, 141-147: with the cursor committed together with the job, and reset past
\* the tick's time by every edit, no due occurrence meets a job with its identity, so the
\* insert never drops one; unless an install wrote the row from a clock (cli.mjs:268) that
\* it had read before a tick fired.
THEOREM NothingIsSwallowed == CursorSpec => []NeverSwallowed
<1>1. ASSUME CursorInv PROVE NeverSwallowed
  <2> SUFFICES ASSUME IsDue, ~late, Due \in firings PROVE FALSE
    BY DEF NeverSwallowed
  <2>1. row.nextAt <= Due.at /\ Due.at \in Nat /\ row.nextAt \in Nat /\ row # None
        /\ Due.source = row.source
    BY <1>1, DueIsLatest
  <2>2. Due.at < row.nextAt
    BY <1>1, <2>1 DEF CursorInv, CursorPastJobs
  <2> QED
    BY <2>1, <2>2
<1> QED
  BY <1>1, CursorInductive, PTL

\* schedule.mjs:18-21: the firing of a late tick is the last overdue instant of
\* the rule or of the row's period, and none that lies before the cursor.
THEOREM LatestFires == CursorSpec => []FiresLatest
<1>1. ASSUME CursorInv PROVE FiresLatest
  <2> SUFFICES ASSUME IsDue PROVE FiresLatest
    BY DEF FiresLatest
  <2>1. row \in Row /\ row.nextAt <= Due.at /\ Due.at <= scan /\ scan \in 0..MaxTime /\ row # None
        /\ row.nextAt \in Nat /\ Due.at \in Nat
    BY <1>1, DueIsLatest
  <2>2. row.source \in Sources /\ row.nextAt <= scan
    BY <2>1 DEF Row
  <2>3. row.source \in Calendars => row.nextAt \in Occurs[row.source]
    BY <1>1, <2>1 DEF CursorInv, CursorOnRule
  <2>4. ASSUME NEW o \in Nat, o > Due.at,
               IF row.source \in Calendars THEN o \in Occurs[row.source]
               ELSE \E k \in Nat : o = row.nextAt + k * Period[row.source]
        PROVE  o > scan
    <3> DEFINE last == ScheduledAt(row.source, row.nextAt, scan)
    <3>1. Due.at = last
      BY DEF Due
    <3>2. /\ row.source \in Calendars => \A i \in Occurs[row.source] : i > last => i > scan
          /\ row.source \notin Calendars =>
               \A k \in Nat : row.nextAt + k * Period[row.source] > last
                              => row.nextAt + k * Period[row.source] > scan
      BY <2>1, <2>2, <2>3, LatestIsLast
    <3> HIDE DEF last
    <3>3. CASE row.source \in Calendars
      BY <2>4, <3>1, <3>2, <3>3
    <3>4. CASE row.source \notin Calendars
      <4>1. PICK k \in Nat : o = row.nextAt + k * Period[row.source]
        BY <2>4, <3>4
      <4> QED
        BY <2>4, <3>1, <3>2, <3>4, <4>1
    <3> QED
      BY <3>3, <3>4
  <2> QED
    BY <2>1, <2>4 DEF FiresLatest
<1> QED
  BY <1>1, CursorInductive, PTL

\* jobs.mjs:107-111,131-147: a row that no late install wrote is past the jobs of its
\* source, so that each new one is later than all that were there.
THEOREM FiringsGoOn == CursorSpec => FiresForward
<1> DEFINE Forward == ~late => \A f \in firings' \ firings, j \in firings :
                                 j.source = f.source => j.at < f.at
<1>1. ASSUME CursorInv, CursorNext PROVE Forward
  <2>1. CASE Fire
    <3>1. firings' \subseteq firings \cup {Due} /\ IsDue
      BY <2>1 DEF Fire, FireJob
    <3>2. row.nextAt <= Due.at /\ Due.at \in Nat /\ row.nextAt \in Nat /\ row # None
          /\ Due.source = row.source
      BY <1>1, <3>1, DueIsLatest
    <3>3. ~late => \A j \in firings : j.source = row.source => j.at < row.nextAt /\ j.at \in Nat
      BY <1>1, <3>2 DEF CursorInv, CursorPastJobs, CursorTypeOK, Firing
    <3> QED
      BY <3>1, <3>2, <3>3
  <2>2. CASE ~Fire
    <3>1. firings' = firings
      BY <1>1, <2>2 DEF CursorNext, Edit, Elapse, Unregister, BeginInstall, FindDefinition, CheckRow,
                        Register, LeaveInstall, BeginScan, Follow, LeaveScan
    <3> QED
      BY <3>1
  <2> QED
    BY <2>1, <2>2
<1>2. CursorInv /\ [CursorNext]_cursorVars => [Forward]_cursorVars
  BY <1>1
<1> QED
  BY <1>2, CursorInductive, PTL DEF CursorSpec, FiresForward
=============================================================================
