----------------------------- MODULE TriggerJobs -----------------------------
(***************************************************************************)
(* Durable trigger jobs, plugins/triggers: the job table (jobs.mjs), the   *)
(* one scheduler of a state directory (scheduler.mjs), the worker process  *)
(* it launches for each due job (job-cli.mjs, executeEvent in cli.mjs),    *)
(* the decision to run and the run log (run.mjs, log.mjs).                 *)
(*                                                                         *)
(* Every process may die between two durable writes.  A worker runs its    *)
(* session in a Host child, which inherits the descriptor of the trigger's *)
(* kernel lease: the Host may outlive the worker and the worker may        *)
(* outlive the scheduler.  A process reads the clock once, when it starts. *)
(* A run number stands for the pid of its process too; another process may *)
(* be given the pid of a dead one.  The skip reasons that only postpone a  *)
(* job are one action.                                                     *)
(***************************************************************************)
EXTENDS Naturals, Sequences, FiniteSets, SequencesExt

CONSTANTS
  Jobs,         \* the jobs that are ever created
  Trigger,      \* the trigger of each job
  Polls,        \* triggers whose source is a poll
  Events,       \* jobs that an accepted event creates
  Fired,        \* events that are also fired directly, outside the job table
  Workers,      \* process slots
  NoJob,        \* the job of an idle slot
  MaxActive,    \* workers one scheduler keeps at a time
  MaxQueued,    \* pending and running jobs a trigger may have to accept an event
  MaxRunsPerDay, MinInterval,  \* limits of every definition
  Day, Retry,   \* length of the day; delay of a postponed job
  LockTimeout,  \* timeout of a run, with the grace of its lock
  MaxNow, MaxStarts, MaxCrashes  \* model bounds

ASSUME TriggerAssumption ==
  /\ NoJob \notin Jobs /\ Fired \subseteq Events /\ Events \subseteq Jobs
  /\ IsFiniteSet(Jobs) /\ IsFiniteSet(Workers)
  /\ DOMAIN Trigger = Jobs
  /\ {MaxActive, MaxQueued, MaxRunsPerDay, Day, Retry} \subseteq Nat \ {0}
  /\ {MinInterval, LockTimeout, MaxNow, MaxStarts, MaxCrashes} \subseteq Nat

VARIABLES
  now,
  jobs,     \* the durable job table
  log,      \* the durable run log, oldest first
  lock,     \* lock file of each trigger: the run that wrote it (0 if none) and its start
  sched,    \* the scheduler: "down", "up" or "draining"
  worker,   \* worker processes
  hosts,    \* running sessions
  starts,   \* runs planned so far, the source of run ids
  pids,     \* the pid of each run's process: its own, taken by another process, or free
  crashes,  \* counter of the bound
  begun     \* history: the sessions ever started

vars == <<now, jobs, log, lock, sched, worker, hosts, starts, pids, crashes, begun>>

Triggers == {Trigger[j] : j \in Jobs}
Off == [phase |-> "off", job |-> NoJob, run |-> 0, at |-> 0, code |-> 0, child |-> FALSE]
Holding == {"planned", "claimed", "running", "ended", "recorded", "failing", "repeated"}
Settling == {"recorded", "failing", "repeated"}
NoLock == [run |-> 0, at |-> 0]
Children == {w \in Workers : worker[w].child}
Working(run) == \E w \in Workers : worker[w].phase # "off" /\ worker[w].run = run
\* Some process has the pid of a run's process, the run's own or another.
Alive(run) == Working(run) \/ pids[run] = "taken"

\* The kernel lease of a trigger is held by a worker or by the Host it started.
BugLeaseHeld(t) ==  \* mutant: the Host does not inherit the descriptor
  \E w \in Workers : worker[w].phase \in Holding /\ Trigger[worker[w].job] = t
LeaseHeld(t) ==
  \/ \E w \in Workers : worker[w].phase \in Holding /\ Trigger[worker[w].job] = t
  \/ \E h \in hosts : Trigger[h.job] = t

Init ==
  /\ now = 0
  /\ jobs = [j \in Jobs |-> [state |-> "none", due |-> 0, seq |-> 0, available |-> 0, run |-> 0, pid |-> 0]]
  /\ log = <<>>
  /\ lock = [t \in Triggers |-> NoLock]
  /\ sched = "down"
  /\ worker = [w \in Workers |-> Off]
  /\ hosts = {}
  /\ starts = 0 /\ crashes = 0 /\ pids = [run \in 0..MaxStarts |-> "own"]
  /\ begun = {}

-----------------------------------------------------------------------------
\* The job table

Open(t) == {j \in Jobs : jobs[j].state \in {"pending", "running"} /\ Trigger[j] = t}
Created == {j \in Jobs : jobs[j].state # "none"}

Insert(j, due) ==
  /\ jobs[j].state = "none"
  /\ jobs' = [jobs EXCEPT ![j] = [state |-> "pending", due |-> due, available |-> due,
                                  seq |-> Cardinality(Created) + 1, run |-> 0, pid |-> 0]]
  /\ UNCHANGED <<now, log, lock, sched, worker, hosts, starts, pids, crashes, begun>>

\* schedule or a firing of the cursor; a retry with the same identity finds the job.
Create(j, due) == j \notin Events /\ Insert(j, due)

\* An event is accepted, unless the queue of its trigger is full.
Accept(j) ==
  /\ j \in Events /\ Cardinality(Open(Trigger[j])) < MaxQueued
  /\ Insert(j, now)

BugCancel(j) ==  \* mutant: a running job too
  /\ jobs[j].state \in {"pending", "running"}
  /\ jobs' = [jobs EXCEPT ![j].state = "cancelled"]
  /\ UNCHANGED <<now, log, lock, sched, worker, hosts, starts, pids, crashes, begun>>
Cancel(j) ==
  /\ jobs[j].state = "pending"
  /\ jobs' = [jobs EXCEPT ![j].state = "cancelled"]
  /\ UNCHANGED <<now, log, lock, sched, worker, hosts, starts, pids, crashes, begun>>

Deferred(j, available) ==
  IF jobs[j].state = "pending" THEN [jobs EXCEPT ![j].available = available] ELSE jobs

Claimable(j, at) == jobs[j].state = "pending" /\ jobs[j].available <= at

Claimed(j, run, pid) ==
  [jobs EXCEPT ![j].state = "running", ![j].run = run, ![j].pid = pid]

Finished(j, code) ==
  IF jobs[j].state # "running" THEN jobs
  ELSE [jobs EXCEPT ![j].state = IF code = 0 THEN "completed" ELSE "failed"]

\* pending(): due, and first in line among the due jobs of its trigger.
Before(i, j) == \/ jobs[i].due < jobs[j].due
                \/ jobs[i].due = jobs[j].due /\ jobs[i].seq < jobs[j].seq
Ready(j) ==
  /\ Claimable(j, now)
  /\ ~ \E i \in Jobs : /\ Trigger[i] = Trigger[j] /\ jobs[i].state = "pending"
                       /\ jobs[i].due <= now /\ Before(i, j)

-----------------------------------------------------------------------------
\* The run log and the decision to run

Entry(j, run, at, code, skipped) ==
  [job |-> j, run |-> run, at |-> at, code |-> code, skipped |-> skipped]
\* Positions in the log: the runs of a trigger, those of its last day, those of a job.
Runs(t) == {i \in DOMAIN log : Trigger[log[i].job] = t /\ ~log[i].skipped}
LastDay(t, at) == {i \in Runs(t) : at < log[i].at + Day}
RunsOf(j) == {i \in Runs(Trigger[j]) : log[i].job = j}
Newest(i, S) == i \in S /\ \A k \in S : k <= i
RecordsOf(run) == {i \in DOMAIN log : log[i].run = run}
Duplicate(j) == RunsOf(j) # {}
BugOverLimit(t, at) == Cardinality(LastDay(t, at)) > MaxRunsPerDay  \* mutant: off by one
OverLimit(t, at) == Cardinality(LastDay(t, at)) >= MaxRunsPerDay
TooSoon(t, at) == \E i \in Runs(t) : Newest(i, Runs(t)) /\ at < log[i].at + MinInterval
\* A lock whose writer is dead, or that is older than its run may be, is taken over.
\* Who reads or writes the file holds the lease, so a worker drops it as it leaves.
Locked(t, at) == /\ lock[t].run # 0 /\ Alive(lock[t].run)
                 /\ at <= lock[t].at + LockTimeout
Unlocked(t, run) == IF lock[t].run = run THEN [lock EXCEPT ![t] = NoLock] ELSE lock

-----------------------------------------------------------------------------
\* The scheduler

SchedulerStart ==
  /\ sched = "down"
  /\ sched' = "up"
  /\ UNCHANGED <<now, jobs, log, lock, worker, hosts, starts, pids, crashes, begun>>

SchedulerStop ==
  /\ sched = "up"
  /\ sched' = "draining"
  /\ UNCHANGED <<now, jobs, log, lock, worker, hosts, starts, pids, crashes, begun>>

SchedulerExit ==
  /\ sched = "draining" /\ Children = {}
  /\ sched' = "down"
  /\ UNCHANGED <<now, jobs, log, lock, worker, hosts, starts, pids, crashes, begun>>

SchedulerCrash ==
  /\ sched # "down" /\ crashes < MaxCrashes
  /\ crashes' = crashes + 1
  /\ sched' = "down"
  /\ worker' = [w \in Workers |-> [worker[w] EXCEPT !.child = FALSE]]
  /\ UNCHANGED <<now, jobs, log, lock, hosts, starts, pids, begun>>

Started(j, child) ==
  [phase |-> "start", job |-> j, run |-> starts + 1, at |-> now, code |-> 0, child |-> child]

Launch(j, w) ==
  /\ sched = "up" /\ Ready(j)
  /\ Cardinality(Children) < MaxActive
  /\ \A v \in Children : Trigger[worker[v].job] # Trigger[j]
  /\ worker[w] = Off /\ starts < MaxStarts
  /\ starts' = starts + 1
  /\ worker' = [worker EXCEPT ![w] = Started(j, TRUE)]
  /\ UNCHANGED <<now, jobs, log, lock, sched, hosts, pids, crashes, begun>>

LaunchFail(j) ==
  /\ sched = "up" /\ Ready(j) /\ crashes < MaxCrashes
  /\ crashes' = crashes + 1
  /\ jobs' = Deferred(j, now + Retry)
  /\ UNCHANGED <<now, log, lock, sched, worker, hosts, starts, pids, begun>>

\* A running job whose process is gone and whose trigger nobody holds: the log says
\* how the run ended, or it was interrupted.
BugInterrupted(j) ==  \* mutant: waits for a record the dead worker never wrote
  ~Alive(jobs[j].pid) /\ ~LeaseHeld(Trigger[j]) /\ RecordsOf(jobs[j].run) # {}
Interrupted(j) == ~Alive(jobs[j].pid) /\ ~LeaseHeld(Trigger[j])
BugOutcome(j) == 130  \* mutant: forgets the record
Outcome(j) ==
  LET records == RecordsOf(jobs[j].run) IN
  IF records = {} THEN 130 ELSE log[CHOOSE i \in records : Newest(i, records)].code

Reconcile(j) ==
  /\ sched = "up" /\ jobs[j].state = "running"
  /\ Interrupted(j)
  /\ jobs' = Finished(j, Outcome(j))
  /\ UNCHANGED <<now, log, lock, sched, worker, hosts, starts, pids, crashes, begun>>

-----------------------------------------------------------------------------
\* A worker

\* dscode trigger run, by hand.
StartByHand(j, w) ==
  /\ jobs[j].state = "pending" /\ worker[w] = Off /\ starts < MaxStarts
  /\ starts' = starts + 1
  /\ worker' = [worker EXCEPT ![w] = Started(j, FALSE)]
  /\ UNCHANGED <<now, jobs, log, lock, sched, hosts, pids, crashes, begun>>

Goto(w, phase, code) == worker' = [worker EXCEPT ![w].phase = phase, ![w].code = code]
Exit(w) == worker' = [worker EXCEPT ![w] = Off]

Look(w) ==
  LET p == worker[w] IN
  /\ p.phase = "start"
  /\ IF Claimable(p.job, p.at) THEN Goto(w, "looked", 0) ELSE Exit(w)
  /\ UNCHANGED <<now, jobs, log, lock, sched, hosts, starts, pids, crashes, begun>>

\* The lease is taken, the definition is missing or changed, disabled, or locked.
Postpone(w) ==
  LET p == worker[w] IN
  /\ p.phase = "looked"
  /\ jobs' = Deferred(p.job, p.at + Retry)
  /\ Exit(w)
  /\ UNCHANGED <<now, log, lock, sched, hosts, starts, pids, crashes, begun>>

\* The event has run: the job takes over that run, and then the outcome of its record.
Repeat(w) ==
  LET p == worker[w] IN
  /\ p.phase = "looked" /\ ~LeaseHeld(Trigger[p.job])
  /\ \E i \in RunsOf(p.job) :
       /\ Newest(i, RunsOf(p.job))
       /\ IF Claimable(p.job, p.at)
          THEN jobs' = Claimed(p.job, log[i].run, p.run) /\ Goto(w, "repeated", log[i].code)
          ELSE Exit(w) /\ UNCHANGED jobs
  /\ UNCHANGED <<now, log, lock, sched, hosts, starts, pids, crashes, begun>>

Limited(w) ==
  LET p == worker[w]
      t == Trigger[p.job] IN
  /\ p.phase = "looked" /\ ~LeaseHeld(t)
  /\ ~Duplicate(p.job)
  /\ \/ /\ OverLimit(t, p.at)
        /\ \E i \in LastDay(t, p.at) :
             /\ \A k \in LastDay(t, p.at) : log[i].at <= log[k].at
             /\ jobs' = Deferred(p.job, Day + log[i].at)
     \/ /\ ~OverLimit(t, p.at) /\ TooSoon(t, p.at)
        /\ \E i \in Runs(t) : /\ Newest(i, Runs(t))
                              /\ jobs' = Deferred(p.job, log[i].at + MinInterval)
  /\ Exit(w)
  /\ UNCHANGED <<now, log, lock, sched, hosts, starts, pids, crashes, begun>>

MayRun(j, at) ==
  /\ ~LeaseHeld(Trigger[j]) /\ ~Duplicate(j)
  /\ ~OverLimit(Trigger[j], at) /\ ~TooSoon(Trigger[j], at)
  /\ ~Locked(Trigger[j], at)

Plan(w) ==
  LET p == worker[w] IN
  /\ p.phase = "looked" /\ MayRun(p.job, p.at)
  /\ lock' = [lock EXCEPT ![Trigger[p.job]] = [run |-> p.run, at |-> p.at]]
  /\ Goto(w, "planned", 0)
  /\ UNCHANGED <<now, jobs, log, sched, hosts, starts, pids, crashes, begun>>

\* The claim fails if the job was cancelled or postponed since it was read.
Claim(w) ==
  LET p == worker[w] IN
  /\ p.phase = "planned"
  /\ IF Claimable(p.job, p.at)
     THEN /\ jobs' = Claimed(p.job, p.run, p.run)
          /\ Goto(w, "claimed", 0)
          /\ UNCHANGED lock
     ELSE /\ jobs' = Deferred(p.job, p.at + Retry)
          /\ lock' = Unlocked(Trigger[p.job], p.run)
          /\ Exit(w)
  /\ UNCHANGED <<now, log, sched, hosts, starts, pids, crashes, begun>>

StartHost(w) ==
  LET p == worker[w] IN
  /\ p.phase = "claimed"
  /\ hosts' = hosts \cup {[job |-> p.job, run |-> p.run]}
  /\ begun' = begun \cup {[job |-> p.job, run |-> p.run, at |-> p.at]}
  /\ Goto(w, "running", 0)
  /\ UNCHANGED <<now, jobs, log, lock, sched, starts, pids, crashes>>

\* A session ends by itself, at its deadline or because it is killed.
HostEnd(h, code) ==
  /\ h \in hosts
  /\ hosts' = hosts \ {h}
  /\ worker' = [w \in Workers |->
       IF worker[w].phase = "running" /\ worker[w].run = h.run
       THEN [worker[w] EXCEPT !.phase = "ended", !.code = code] ELSE worker[w]]
  /\ UNCHANGED <<now, jobs, log, lock, sched, starts, pids, crashes, begun>>

\* A record is appended; the job is finished afterwards.
Append1(w, phase, code, skipped) ==
  LET p == worker[w] IN
  /\ log' = Append(log, Entry(p.job, p.run, p.at, code, skipped))
  /\ Goto(w, phase, code)
  /\ UNCHANGED <<now, jobs, lock, sched, hosts, starts, pids, crashes, begun>>

Record(w) == worker[w].phase = "ended" /\ Append1(w, "recorded", worker[w].code, FALSE)

NoMatch(w) ==
  /\ worker[w].phase = "claimed" /\ Trigger[worker[w].job] \in Polls
  /\ Append1(w, "recorded", 0, TRUE)

\* Something throws after the claim: the session cannot be started, its record not be
\* written, or the job not be finished.  The job's run is recorded as failed, whether
\* or not it has a record.
Throw(w) ==
  worker[w].phase \in {"claimed", "ended", "recorded"} /\ Append1(w, "failing", 1, FALSE)

Finish(w) ==
  LET p == worker[w] IN
  /\ p.phase \in Settling
  /\ jobs' = Finished(p.job, p.code)
  /\ lock' = Unlocked(Trigger[p.job], p.run)
  /\ Exit(w)
  /\ UNCHANGED <<now, log, sched, hosts, starts, pids, crashes, begun>>

\* A worker is killed, or leaves by an error that nothing catches and drops its lock; its
\* scheduler, if it is still there, postpones an unclaimed job.
WorkerCrash(w) ==
  LET p == worker[w] IN
  /\ p.phase # "off" /\ crashes < MaxCrashes
  /\ crashes' = crashes + 1
  /\ jobs' = IF p.child THEN Deferred(p.job, now + Retry) ELSE jobs
  /\ lock' \in {lock, Unlocked(Trigger[p.job], p.run)}
  /\ Exit(w)
  /\ UNCHANGED <<now, log, sched, hosts, starts, pids, begun>>

\* The system gives the pid of a dead worker to another process, which ends some time.
\* Bound: once for each run, and while a running job or a lock names it.
Recycle(run) ==
  /\ pids[run] = "own" /\ ~Working(run)
  /\ \/ \E j \in Jobs : jobs[j].state = "running" /\ jobs[j].pid = run
     \/ \E t \in Triggers : lock[t].run = run
  /\ pids' = [pids EXCEPT ![run] = "taken"]
  /\ UNCHANGED <<now, jobs, log, lock, sched, worker, hosts, starts, crashes, begun>>

Vacate(run) ==
  /\ pids[run] = "taken"
  /\ pids' = [pids EXCEPT ![run] = "free"]
  /\ UNCHANGED <<now, jobs, log, lock, sched, worker, hosts, starts, crashes, begun>>

-----------------------------------------------------------------------------
\* The same event fired directly (dscode trigger fire), outside the job table.
FireDirectly(j, code) ==
  /\ j \in Fired /\ starts < MaxStarts
  /\ MayRun(j, now)
  /\ starts' = starts + 1
  /\ log' = Append(log, Entry(j, starts + 1, now, code, FALSE))
  /\ begun' = begun \cup {[job |-> j, run |-> starts + 1, at |-> now]}
  /\ UNCHANGED <<now, jobs, lock, sched, worker, hosts, pids, crashes>>

Tick ==
  /\ now < MaxNow
  /\ now' = now + 1
  /\ UNCHANGED <<jobs, log, lock, sched, worker, hosts, starts, pids, crashes, begun>>

Next ==
  \/ Tick
  \/ SchedulerStart \/ SchedulerStop \/ SchedulerExit \/ SchedulerCrash
  \/ \E j \in Jobs :
       \/ \E due \in now..now + 1 : Create(j, due)
       \/ Accept(j) \/ Cancel(j) \/ LaunchFail(j) \/ Reconcile(j)
       \/ \E code \in {0, 1} : FireDirectly(j, code)
       \/ \E w \in Workers : Launch(j, w) \/ StartByHand(j, w)
  \/ \E w \in Workers :
       \/ Look(w) \/ Postpone(w) \/ Repeat(w) \/ Limited(w) \/ Plan(w) \/ Claim(w)
       \/ StartHost(w) \/ Record(w) \/ NoMatch(w) \/ Throw(w) \/ Finish(w)
       \/ WorkerCrash(w)
  \/ \E h \in hosts, code \in {0, 1} : HostEnd(h, code)
  \/ \E run \in 1..starts : Recycle(run) \/ Vacate(run)

Spec == Init /\ [][Next]_vars

\* A scheduler comes back and, once up, completes a scan; sessions end (they have a
\* timeout); a live worker goes on.
Advance(w) == Look(w) \/ Plan(w) \/ Postpone(w) \/ Claim(w) \/ StartHost(w) \/ Record(w) \/ Finish(w)
Fairness ==
  /\ WF_vars(SchedulerStart) /\ WF_vars(SchedulerExit)
  /\ \A j \in Jobs : SF_vars(Reconcile(j))
  /\ \A w \in Workers : WF_vars(Advance(w))
  /\ WF_vars(\E h \in hosts, code \in {0, 1} : HostEnd(h, code))

FairSpec == Spec /\ Fairness

-----------------------------------------------------------------------------
States == {"none", "pending", "running", "completed", "failed", "cancelled"}
JobType == [state : States, due : Nat, seq : Nat, available : Nat, run : Nat, pid : Nat]
ProcessType ==
  [phase : Holding \cup {"off", "start", "looked"}, job : Jobs \cup {NoJob}, run : Nat,
   at : Nat, code : Nat, child : BOOLEAN]

\* The job table, the log, the locks and the processes; a working process has a job.
TypeOK ==
  /\ now \in 0..MaxNow /\ starts \in 0..MaxStarts /\ crashes \in 0..MaxCrashes
  /\ jobs \in [Jobs -> JobType]
  /\ log \in Seq([job : Jobs, run : 1..MaxStarts, at : Nat, code : Nat, skipped : BOOLEAN])
  /\ lock \in [Triggers -> [run : 0..MaxStarts, at : Nat]]
  /\ sched \in {"down", "up", "draining"}
  /\ worker \in [Workers -> ProcessType]
  /\ \A w \in Workers : worker[w].phase # "off" => worker[w].job \in Jobs
  /\ hosts \subseteq [job : Jobs, run : 1..MaxStarts]
  /\ pids \in [0..MaxStarts -> {"own", "taken", "free"}]
  /\ begun \subseteq [job : Jobs, run : 1..MaxStarts, at : Nat]

\* "An unattended run must never overlap its own previous run" (run.mjs): one session
\* per trigger, even when its worker or the scheduler died and was replaced.
SingleFlight ==
  \A g, h \in hosts : Trigger[g.job] = Trigger[h.job] => g = h

\* "A running job is never automatically retried" (jobs.mjs): whatever crashes, restarts
\* and manual runs happen, a job starts at most one session; so does an event that is also
\* fired by hand, as long as nothing is killed.  And "only pending jobs can be cancelled": a
\* job reported cancelled never started and never will, although a worker may already be on
\* its way to claim it.
RunOnce ==
  /\ \A b, c \in begun : b.job = c.job /\ (b.job \in Fired => crashes = 0) => b = c
  /\ \A b \in begun : b.job \notin Fired => jobs[b.job].state # "cancelled"

\* The job table and the run log tell the same story: a settled job has the outcome that
\* the newest record of its run has, when the worker died between the two writes as when
\* an error after the first record made it write a second, contrary one.
LogAndTableAgree ==
  \A j \in Jobs, i \in DOMAIN log :
    Newest(i, RecordsOf(jobs[j].run)) =>
      /\ jobs[j].state = "completed" => log[i].code = 0
      /\ jobs[j].state = "failed" => log[i].code # 0

\* The limits of a definition: runs a day, and the interval between two runs.
Within(runs) ==
  \A b \in runs :
    LET earlier == {c \in runs : /\ Trigger[c.job] = Trigger[b.job] /\ c.run # b.run
                                 /\ c.at <= b.at} IN
    /\ \A c \in earlier : b.at >= c.at + MinInterval
    /\ Cardinality({c \in earlier : b.at < c.at + Day}) < MaxRunsPerDay

\* A run "must never exceed the limits its definition declares" (run.mjs): the runs of the
\* log never do, although workers decide on their own and at different times, in the table
\* and by hand.  A run whose worker died leaves no record and is not counted.
RecordedLimitsHeld == Within({b \in begun : \E e \in ToSet(log) : e.run = b.run})

\* The finish of a job asks only whether it is running (jobs.mjs:101), yet a claimed job is
\* settled by the worker that claimed it, after a record, or when no process has that
\* worker's pid and nobody holds the lease; as completed only if the newest record of its
\* run says so. What is settled stays as it is.
SettledByOwnRun ==
  [][\A j \in Jobs :
       /\ jobs[j].state \in {"completed", "failed", "cancelled"} => jobs'[j] = jobs[j]
       /\ jobs[j].state = "running" /\ jobs'[j] # jobs[j] =>
            /\ jobs'[j].run = jobs[j].run
            /\ \/ \E w \in Workers : worker[w].phase \in Settling /\ worker[w].run = jobs[j].pid
               \/ ~Alive(jobs[j].pid) /\ ~LeaseHeld(Trigger[j])
            /\ jobs'[j].state = "completed" =>
                 \E i \in DOMAIN log : Newest(i, RecordsOf(jobs[j].run)) /\ log[i].code = 0]_vars

\* A claimed job does not stay running for ever: its worker finishes it, or a scheduler
\* that finds the worker dead does once the orphaned session has let go of the lease;
\* unless another process was given the worker's pid and keeps it.
RunningSettles ==
  \A j \in Jobs :
    jobs[j].state = "running" ~>
      \/ jobs[j].state \in {"completed", "failed"}
      \/ [](pids[jobs[j].pid] = "taken")
=============================================================================
