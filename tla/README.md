# DSCODE: a TLA+ verification project

DSCODE is a coding agent: a terminal (or a desktop application) drives sessions of a Harness
(`@deepseek-ai/dsh-*`, vendored packages outside this repository), and plugins add what the Harness
does not have. This directory models the parts of DSCODE whose correctness depends on order: several
host processes that share SQLite tables and lock files, promises that are suspended while others run,
and processes that are killed between two durable writes.

The modules are translated from the source under `src/`. `PROJECT.json` maps each definition to the
lines it stands for; definitions marked external there stand for the Harness or another program and
are modelled from how the code in `src/` uses them.

## 1. Inventory

| component | source | state | operations | what is hard |
|---|---|---|---|---|
| ledger of session messages | `plugins/session-bridge/mailbox.mjs` | SQLite: messages, contexts (causal paths), task chains, owners | admit (request, notify, progress, reply), transition, deferred, cancel, expire, prune | several hosts write it; deadlines; causal paths that merge; budgets per chain; caps that delete rows |
| delivery of messages | `plugins/session-bridge/communication.mjs` | which rows were seen, claimed, acknowledged; the native inbox and log | start, recover, receive, deliver, preStep, confirm, cancel, discard | every handler is suspended at awaits; crash between memory and disk; claim races delivery |
| trigger jobs | `plugins/triggers/{jobs,scheduler,job-cli,run,lease,log}.mjs` | job table, run log, lock file, kernel lease | accept, cancel, claim, plan, record, finish, reconcile | scheduler, worker and session are three processes, each may die alone |
| delegate board and child admission | `plugins/dscode/{board,index}.mjs` | plan of tasks, children, reservations | add, update, launch, complete, reopen, drop; launch and wake of children | tool calls of one step run concurrently; status read before an await |
| package admission and update | `scripts/standalone*.mjs`, `packages/launcher/locks.mjs` | gates, run leases, owner record, program directory | launch, own, run, update with two renames and rollback | two gates with waits; a launcher killed while its child runs; a killed updater |
| shared Host | `scripts/host.mjs`, `plugins/local-carrier`, `stopIdleHost` of `scripts/standalone.mjs` | host lock, socket, launches, attached terminals | ensureHost, launch, boot, serve, attach, idle exit, signals, stop by an updater or the user | concurrent starts, stale launches, statuses used later, idle exit against attach |
| terminal and Host | `packages/tui/src/runtime/{typert,history,watch,views}.ts` | event stream, prompts, unsent answers; log, pages, shown state | connect, replay, answer; open, follow, page, catch up | streams break, answers outlive a reconnect, three sources for one running state |
| long-term memory | `plugins/memory/{pipeline,store,index}.mjs` | SQLite lease, jobs, memories, notes, snapshot; files | runPipeline, heartbeat, save, publish, write, clear, enable, resume | a lease that may expire during a model call; a clear in another process |
| self update | `scripts/self-update.mjs` | installed, staged and backup tree; the user's state directory | stage, install, recheck, two renames, rollback; pull, compare, npm ci, setup | no lock; user state carried along; killed updaters |
| session cards | `plugins/session-cards/manager.mjs` | requests, topics, one extraction, a timer, a file per session | track, observe, pump, extract, remove, close | stale answers, aborts, states that are replaced |
| trigger schedules | `plugins/triggers/{schedule,jobs}.mjs` | a row with a cursor per trigger | install (register), unregister, materialize | cursor and job together; edits, pauses and late ticks; clocks read before the write |
| Host delivery | `packages/tui/src/host/{delivery,agents}.ts`, `packages/tui/src/queue.ts` | receipts in the messages of a session; its inbox and log | deliver, updateQueued (remove, edit, steer), interrupt | calls repeated after a lost answer, over flushes, withdrawals and crashes |
| communication feed | `plugins/session-bridge/tasks.mjs` | rows and waiting requests | fold of events | results and replies in any order, caps |
| trigger sessions, sources, spool, desktop scheduler | `plugins/triggers/{session-run,sources,source-*,spool,desktop-scheduler}.mjs` | one promise of an unattended session; guardians of scripts; event files | start, finish, tick, stop, emit | four events end one session; a guardian dies without its group |
| npm launcher | `packages/launcher/manager.mjs` | installed runtimes, the current pointer | install, use, prune | the locks of package admission |
| the rest | adapters of providers, browser, computer use, email, reviews, compaction, metrics, UI, release tools | – | – | sequential, pure, external or generated; see PROJECT.json |

How they interact: a session's tools call the ledger and the delivery service of their host; hosts
meet in the shared ledger only. A trigger job starts a session in a Host process of its own. The
delegate board lives in the coordinating session. Every `dscode` command of a self-contained package
goes through package admission, and the run lease it takes is inherited by whatever it starts.

Correctness, per component, in one line each:

- ledger: a request gets one outcome, settled rows stay settled, causal paths are acyclic and end at
  their holder, every merged chain is charged, pruning never takes what is still needed;
- delivery: a message enters the session log at most once, is acknowledged only when durable, never
  enters after a recall, and does arrive;
- trigger jobs: one session per trigger at a time, one session per job, limits respected, job table
  and run log agree, a claimed job is settled in the end;
- delegation: the plan never deadlocks on itself, names mean one child, the number of running
  children is bounded;
- admission: a running session's program is never replaced, a data directory is used by one package,
  the last good version is never lost;
- Host: one Host serves a state directory, an attached terminal keeps it, superseded launches end;
- terminal: an open request is never forgotten and only a user's decision closes it; the log shown is
  the Host's, whole and in order, and so is the running state;
- Host delivery: a repeated call admits nothing twice and brings nothing back; an answer is durable;
- memory: what was cleared is not learned, published or written again; idle sessions are learned from;
- self update: the installation path serves a tree with its own dependencies, and the user's state stays;
- cards: a card covers the requests it says it covers; a card to make is made;
- schedules: the latest overdue occurrence fires, once, and none is dropped.

## 2. Modules

| module | stands for | state |
|---|---|---|
| `Mailbox` | one action per ledger transaction | the four tables as functions and sets; `now` is the clock the ledger reads |
| `SessionDelivery` | `CommunicationService` for one receiving session | `row`: ledger rows; `disk`, `mem`: the durable session and the host's copy; `turn`, `recovery`, `flushing`, `receipts`: what is suspended at an await |
| `DeliveryPromise` | abstract specification: a message is unsent, pending, and then entered or withdrawn for good | `status` |
| `TriggerJobs` | job table, scheduler, worker processes, sessions, run log | `jobs`, `log`, `lock` durable; `sched`, `worker`, `hosts` processes; `pids`: who has the pid of a run |
| `DelegateBoard` | the board and the `tools/execute` hook | `tasks`, `child`, `call` (one entry per tool call in flight) |
| `PackageAdmission` | `standaloneMain` and `updateStandalone` with their locks | `proc` per launcher, `gate`, `child`, owner records, program directories and backups |
| `HostLifecycle` | `ensureHost`, the carrier's serving and leaving, `stop` | `stage` of each launch, `lock`, `socket`, `terminal`, `stopper` |
| `TerminalAnswers` | approvals and questions over an event stream that breaks | `request` at the Host; `link`, `pending`, `unsent`, `calls` of each terminal |
| `TerminalFollow` | opening and following a session's log | `host` log, `follow` and `status` streams, `log`, `opening`, `catch`, `shown`, `lists` |
| `MemoryPipeline` | the runs of the memory pipeline in several processes, and what users do meanwhile | `session`, `generate`, `lease`, `store`, `snapshot`, `files`, `run` |
| `SelfUpdate` | `dscode update` of a tarball or a checkout | `installed`, `staged`, `backup` trees, `phase`, `from`, `to` of each updater |
| `SessionCards` | the manager of session cards | `requests`, `states`, `file`, `running`, `timer` |
| `ScheduleCursor` | one registered trigger and its cron jobs | `def`, `row`, `firings`, `clock`; `install`, `scan`: an install and a tick on their way |
| `HostDelivery` | the calls of terminals that change one session's inbox | `mem`, `disk`: inbox, log and receipts as held and as persisted; `call` under way |
| `HostPromise` | abstract specification: what lies on the disk of a request, and which requests a client was told of | `standing`, `told` |
| `CommunicationFeed` | the fold behind `/tasks`, as operators | none |
| `MailboxProofs`, `SessionDeliveryProofs`, `PackageAdmissionProofs`, `DelegateBoardProofs`, `SelfUpdateProofs` | theorems about the module they are named for, checked with TLAPS | |
| `TriggerJobsProofs` | theorems about `TriggerJobs` and `ScheduleCursor` | |
| `HostProofs` | theorems about `HostLifecycle`, `HostDelivery`, `TerminalAnswers` and `TerminalFollow` | |
| `MemoryProofs` | theorems about `MemoryPipeline` and `SessionCards` | |
| `MC*` | constants for TLC and symmetry; `MCTerminalFollow` also the inputs of the feed | |

Granularity follows the code. JavaScript runs a handler without interruption until an `await`, so
everything between two awaits is one action; a SQLite transaction is one action; each durable write
of a process that may be killed is an action of its own.

- **Mailbox.** `AdmitExternal`, `AdmitTask`, `AdmitProgress` and `AdmitReply` are the four paths of
  `admit`; a refused call rolls its transaction back and is a stuttering step, so refusals are guards.
  Bodies are one unit long: the row limit and the byte limit of a mailbox are one bound.
- **SessionDelivery.** `Crash` loses what was not persisted, `Dispose` is a graceful exit, whose native
  teardown discards the inbox like the user's stop does (the discard handler tells them apart).
  `Persist` is the Harness writing in the background. `Cancel(m, local)` is a cancellation on this host
  or on another one. The cut-off of a defer batch is a set of rows; a batch is any nonempty part of
  the eligible ones, which contains the choices the byte limit makes.
- **TriggerJobs.** A worker reads the clock once. `Postpone` stands for all reasons that only defer.
  `Create` is the job of a schedule or a firing, `Accept` that of an event, which alone asks whether the
  queue is full. A Host inherits the descriptor of the trigger's lease, so the lease outlives the worker.
  `Throw` is whatever throws after the claim, the finish of the job included: the catch appends a record
  with exit code 1, a second one if the run has one, and finishes the job with it. A run number stands for
  the pid of its process; once that is dead, `Recycle` gives the pid to another process, and `Vacate` is
  the end of that one. The lock is read and written under the lease only, so a worker drops it in the
  step in which it leaves. A directly fired event (`trigger fire` without a job) is one step: it holds
  the lease from plan to record.
- **DelegateBoard.** The catalog is read, and after that await the checks and the reservation are one
  step (`Admit`); `Start` is the `subagent/start` hook, `Return` the end of the call. `Settle` and
  `Dispose` are the Harness.
- **PackageAdmission.** A launcher waits for the gate of the data directory and for the gate of the
  installation in path order, then registers a run lease, whose descriptor its child inherits. An
  update takes both gates, gives them up to stop the server and the Host, takes them again, stages,
  swaps by two renames, checks, and rolls back on failure. `Crash` may hit a launcher in every phase.
- **HostLifecycle.** A status is asked over the socket and answered in one step; what a terminal, a
  launch or `stop` does with it is a later one: `AskIdle` is the status that `stopIdleHost` reads, `AskStop` the
  status that `stop` reads next (or first, for `dscode host stop`), `Shutdown` its call. A launch takes the lock and boots, or leaves.
  `Progress(l)` is what a launch does by itself; signals, deaths and the idle timer are separate. The
  order of disposal inside the Harness (socket before lock) is external.
- **TerminalAnswers.** Frames of a stream arrive in order and are lost with it. A call is separate from
  the stream and carries the client it was made for; its result may come after a reconnect. `Protocol(t)`
  is what the code of a terminal does by itself; the user, the Host and the faults are the rest.
- **TerminalFollow.** The log alternates start and end of a turn, so "running" is the parity of its
  length. `Step` is what the terminal's promises do; a page has any length.
- **MemoryPipeline.** Each SQL transaction and each write of files is a step, and so is each check before
  one. A suspended process is a fault: its heartbeat is late and the lease expires.
- **SelfUpdate.** Each command of an update (move, install, rename, removal) is a step of its updater, and
  it may be killed between any two. In a checkout these are the pull, the second look at HEAD, `npm ci`
  and `setup`; `npm ci` starts (it reads the lockfile and removes the dependencies) and ends in two steps,
  so that another update can pull or install in between. Versions are numbers: a pull goes forward only.
- **SessionCards.** The code between two awaits is one action; `Learn`, `Abandon`, `Fail` and `Drop` are
  the four exits of `extract`. A list of requests is its length, for lists only grow and the digest
  depends on the list alone.
- **ScheduleCursor.** A source is its JSON text. Periods are numbers and a cron rule is the set of instants
  it names. An install reads the clock, the definition and the row in one step each and writes the row in
  another; a tick reads the clock, and `Fire` is the transaction that creates the job and moves the cursor.
  The identity of a job is the source and the instant, without the workspace. The clock does not go back,
  and one install is on its way at a time.
- **HostDelivery.** A call is suspended while its session is resumed and while it is flushed; what lies
  between is one action. The queue is a set, for the properties do not depend on its order, and a message
  and its injected context carry the receipt in their source. `AdmitPartly` is a refusal between the
  injection and the message.

The state machines that a proof or an MC module takes together have names of their own for what all modules
have (`DeliveryInit`, `CursorNext`, `CardsSpec`, `AnswerTypeOK`, `followVars`), so one module can extend two.
Each component has a type invariant, and that it holds is a theorem; the runs spend their time on other
properties.

## 3. Runs

| run | question | bounds |
|---|---|---|
| `ledger_answers` | one outcome and one reply per request, final states final, no chain of an unexpired message pruned | 2 sessions; 3 messages of 1 chain or 2 of 2 chains; the clock passes the deadline and the retention window |
| `ledger_causes` | causal paths and budgets | 3 sessions, one a subagent of another, an external sender, 2 messages, 2 chains |
| `delivery_faults` | entered once, acknowledged durably, recalled never enters, the abstract promise, and arrival | two of a queued, a steered and a deferred message; two of: a crash, an abort, a user turn |
| `triggers` | single flight, run once and never after a cancellation, table agrees with log, recorded limits, and a claimed job is settled; the cursor swallows no firing | 2 jobs of a poll trigger, one of them an event that is also fired by hand (pids recycled with one job), 2 processes, 2 starts, 1 crash, limits of 1; a poll with pauses and 2 workspaces, or a poll and a cron rule that skips, 4 or 5 instants |
| `delegate_board` | plan goes on, own child per task under a unique name, bounded number of children | 2 tasks, 3 children, 2 concurrent calls, limit 2, 2 plan changes |
| `package_runs` | no swap under a run, one package per data directory, restore, nothing lost | 2 installations (one Homebrew's), 2 data directories, 2 versions, 2 launchers |
| `self_update` | path served, dependencies match, the user's state outlives updates | 3 updaters, 3 versions |
| `self_update_lost` | *violated*: a refused update changed nothing | 1 updater |
| `terminal_answers` | no request forgotten, users decide, prompts close | 2 terminals, 1 request, 2 answers, 2 faults |
| `terminal_follow` | the log follows the Host's, the running state shown is right, everything arrives; the feed | a log of 3 events, 2 breaks of streams, 1 failed call; feeds of 5 events |
| `memory` | what was forgotten stays so, the last revision is learned, files are repaired; no card waits | 2 processes, 1 session, 2 changes by users, 1 fault; 2 sessions with cards, 3 requests and 2 lives each |
| `host_lifecycle` | the socket is the lock holder's, an attached terminal is served, stale launches end; a message is admitted once | 2 terminals, 3 launches, 1 death, 1 stop by an updater or the user; 1 request with 2 bodies, 2 calls, 3 message ids |

Why the bounds suffice. Two sessions and a third message show every race of reply, second reply, cancel
and expiry; a merge needs two chains and a third session to return through. Two messages show every
interference of claims, deliveries, acknowledgements and withdrawals of one session; a second crash
adds nothing to a service whose volatile state is rebuilt from the durable one at each start. For
triggers, a worker, its scheduler and a manual worker are the three parties of every race, and a second
start is what overlap and limits need. For the package, two launchers give each pair of roles, and the
leases and gates never relate more than two (the proofs hold for any number). Two terminals give a first
and a late answer, and a start against a start; three launches are a Host, a launch that lost to it and
the next Host. A catch-up needs a page behind a page, so three events; two breaks let the second hit
the recovery from the first. In the memory, a run in one process against a clear, a resume or a second
run in the other is every race; a session is independent of the next one. Three updaters let one swap
while a second stages and a third is killed between its renames.

What the bounds do not reach: a crash, an abort and a user turn all in one behaviour; three messages of two
chains; boards with more than two tasks (cycles of length two are covered); two deaths of a worker and its
scheduler in one behaviour; a recycled pid beside a second job; two requests of one Host at once.

Deadlock is not checked: every model has counters that bound it, and a system at rest (no message,
job, launch or answer left) really stops.

Some models keep a history variable, to say when a property is not claimed. `begun` (`TriggerJobs`) holds
the sessions begun, `decided` (`TerminalAnswers`) what users chose. `doubt` (`TerminalFollow`) is set when
an answer of `session/list` is overtaken or fails, `overtaken` (`MemoryPipeline`) when a clear falls
between a check and the commit it guards, and `warned` (`HostLifecycle`) when a terminal's Host dies, was
found idle, was ended on a stale status or was stopped by the user. `mixed` (`SelfUpdate`) holds the updaters
during whose `npm ci` another one pulled or ran its own, and `late` (`ScheduleCursor`) says that a tick fired
while the install that wrote the row was on its way. In all of these the documents do not promise more, or
the code does not keep it (see below), and the properties show that there is no other way to break them.

`RunOnce` is claimed for an event that is also fired by hand only as long as nothing is killed, and not
after a cancellation: a direct fire does not look at the job table, and that is what the code intends.

`CommunicationFeed` has no state machine: `FeedAssumption` in `MCTerminalFollow` compares the fold with a
definition over the whole log (what waits, what is pending, which rows remain), for each log of up to
five events in which results follow their calls, with caps of one and two.

Three runs hold two modules each: `triggers` also `ScheduleCursor`, `memory` also `SessionCards`, `host_lifecycle`
also `HostDelivery`. The two modules of a run share no variable, so nothing is lost by letting one of them
move in each behaviour (`moves`) while the other stands in an initial state. A deeper instance of the second
module says little more, for its properties are proved for every size. The cursor needs a late tick over
several instants, an edit and back, and a reinstallation, and has two scopes: one source that is paused and moved
(`moved`), or two sources (`ruled`); a card needs a request that comes while the model
thinks, in a session that was replaced; a delivery needs a retry after a crash, with another body.

### Fairness

`SessionDelivery!Fairness`: a host resumes the session after a crash (the property speaks of sessions
that are opened again), its promises settle, and the native driver runs what waits in its inbox. All of
it is weak fairness of steps that stay enabled. Users, deadlines, aborts and senders' retries are not
fair. A failed recovery is run again only by who awaits it (`communication.mjs:73-79`), so `EnsureReady` is
fair for a step that has claimed its turn and waits, and for nobody else; `Arrives` speaks of behaviours in
which recovery does not stay failed.

`TriggerJobs!Fairness`: the scheduler service restarts its process, which the code leaves to launchd or
to the user; a live worker goes on; a session ends (it has a timeout). `Reconcile` is strongly fair: the
scheduler scans on every tick for as long as it lives, and being stopped and restarted disables the scan
again and again without preventing it. `Throw`, `Repeat`, `Limited` and `NoMatch` are not fair, nor is the end of
a process that was given a dead worker's pid: `RunningSettles` excuses a job whose pid stays taken.

The later modules assume that code which can go on does, and no more: `TerminalAnswers`, weak fairness
of `Protocol(t)` (the terminal reconnects, reads its frames, sends what it owes); `TerminalFollow`, of
`Step` (its promises and the Host's replies); `MemoryPipeline`, of `Work(p)` (a live process runs its
pipeline at each interval), of `Expire` (a lease that is not renewed runs out) and of `Wipe` (a clear
deletes the files); `HostLifecycle`, of `Progress(l)` (a launched process boots, exits, obeys a signal) and
of `Start(t)` (an `ensureHost` under way goes on). Streams, deaths, failures and users are never fair; they
are finite by their bounds, as in each liveness claim "once faults stop".

### Disagreements between code and documentation

One is a run; the others are traces of the models that the runs' properties exclude by name (a history
variable, or a weaker claim), each short enough to follow in the code.

- **A refused update loses the user's state** (`self-update.mjs:136`, run `self_update_lost`). The state
  directory is moved into the staged tree before the installation and the second check for running
  sessions. When a session has started meanwhile, the update is refused with "nothing was changed"
  (line 151) and the staged tree is deleted with the directory in it. A failed installation does the same.
- **A checkout is pulled but not reinstalled** (`self-update.mjs:92-98`). When the reinstallation fails, or
  is killed, the next update finds the checkout current and does not repeat it. `DependenciesMatch` says so.
- **Two updates of a checkout mix its dependencies** (`self-update.mjs:91-95`). Nothing excludes a second
  update. When it pulls while the first one's `npm ci` installs, or both install at once, the tree may keep
  the dependencies of the older commit or a mixture, and both report success. `Overlapped` names the case.
- **A reply in time is recorded late** (`mailbox.mjs:200`; `docs/session-communication.md:172`). The
  deadline of a reply is the earliest of the request's chains *and* of the replier's own. A replier that
  still holds an expired chain of another task answers an open request, and the reply is stored as
  `late`, is not delivered, and takes the only reply slot.
- **An owed reply may be refused for a chain that is gone** (`mailbox.mjs:129-130,176,192`; the comment
  at line 188 says that reply rights are reserved by the original request). A reply names the chains of the
  request and of the replier's own context; the prune deletes a chain that has expired long ago, or is
  surplus, without a look at contexts, and the reply then fails with `invalid_chain`. `LiveChainsKept` is claimed for the paths of the
  message itself.
- **An idle session is not recovered again** (`communication.mjs:73-79`). After a failed recovery nothing
  retries until a turn, a `receive` or a `send` comes; what waits in the inbox waits with it.
- **A killed run is forgotten** (`scheduler.mjs:50`; `run.mjs:3`). The record of a run is appended by the
  worker at the end. If the worker is killed, reconciliation fails the job without a record, and the run
  counts against no limit. `RecordedLimitsHeld` speaks of recorded runs.
- **A run may have two contrary records** (`job-cli.mjs:100-108`). When the finish of a job throws after the
  record of its run was appended, the catch appends a second one that says the run failed, with the same
  run id, and the job follows it. `LogAndTableAgree` compares with the newest record.
- **A recycled pid keeps a job running** (`scheduler.mjs:45`). Reconciliation asks only whether some process
  has the pid of the worker. The lock of a run ages out for this reason (`run.mjs:75-77`); the job does not.
- **A late install drops a firing** (`cli.mjs:268,388`; `jobs.mjs:42,143`). An install registers with the
  time at which it was started. If the row is new, or has another source or workspace, and a tick has fired
  the same source since, the cursor is set back before that firing; it comes due again, and the insert that
  ignores conflicts drops it in silence. The workspace is not in the job's identity, so a move to another
  one does not tell the two firings apart.
- **A message wakes a child beyond the limit** (`plugins/dscode/index.mjs:215`; `docs/dscode-ultra.md:60`). A
  message to a running child needs no slot; if the child settles before it arrives, it is woken without
  one. `OnlyDirectExceeds` shows that this is the only way past the limit.
- **A blocked task is launched** (`board.mjs:153`; `docs/dscode-ultra.md:75`). Blockers are checked at
  admission, the task is marked when the child has started; a change of the plan in between is not seen.
- **A second session of the same package is refused** (`standalone.mjs:22`; `docs/distribution.md:48`). The
  version is read before the wait for the gate, an update that ends meanwhile makes it stale, and it is
  recorded as the owner.
- **An owed answer waits for the next reconnect** (`typert.ts:155`; `docs/runtime-protocol.md:195`). When a
  call fails after its stream has come back and the request was replayed, the answer is kept unsent until
  the request is replayed again. `NoRequestForgotten` counts it as kept.
- **The running state may be overtaken** (`typert.ts:112-116`). An answer of `session/list` that was
  computed before a status frame and arrives after it overwrites it.
- **A clear may be undone** (`pipeline.mjs:20,55`; `docs/memory.md:26,60`). The check before a save, a
  publication or a write and the statement itself are two steps, and the heartbeat reads the owner and
  renews in two statements; a clear in another process that falls between them is overtaken.
- **A stale status ends a serving Host** (`host.mjs:157-163`). A start that was answered by one Host ends
  its other launches; one of these may have become the Host since.
- **A message may lose its context** (`queue.ts:95-99` with `delivery.ts:48-51`; `docs/runtime-protocol.md:178`).
  The context of a session reference is injected for the next step, also when its message waits for the
  next turn. An interrupt keeps the message and drops the context. A retry after a partial admission
  whose context was dropped meanwhile finds the receipt and does not inject it again. `ContextFirst`
  claims the order only.
- **An idle Host may leave under a terminal** (`local-carrier/index.mjs:272`, `standalone.mjs:16`). The
  decision to leave, and the status that `stopIdleHost` read, are older than the close of the socket.

## 4. Proofs

All theorems hold for every value of the constants that satisfies the named assumption of the module
(finite bounds are only `Nat`, so they are no restriction), and use no other assumption. TLC evaluates the
named assumptions on every run. `TypeCorrect` of a module is `Spec => []TypeOK`. What is assumed beyond
bounds and distinct values is little: `CursorAssumption`, that periods are positive and that a cron rule has a
next instant after any of the clock and a last one before any that has one; `CardsAssumption`, that a card
needs a request at least; in `Mailbox`, that the `Parent` relation has no cycle.

Each proof has the same shape: an inductive invariant `IInv` (first checked by TLC on the instance of the
component's run), `Init => IInv`, a lemma for each action or group of actions that it preserves `IInv`, and
the theorems, which follow from `IInv`. In most, a few operators describe what a kind of step does
(`Acts`, `Paces`, `Admits`), one lemma per part of the invariant says that such a step keeps it, and each
action is then shown to be a step of that kind.

**The ledger** (`MailboxProofs`): `OneFinalReply` for `FinalReplies`, `PathsStaySound` for `PathsSound`,
`BudgetsHold` for `BudgetAccounts`, `ChainsOutliveMessages` for `LiveChainsKept`, `SettledStaysSettled` for the
action property `SettledIsFinal`. None of the four invariants is inductive alone. That a reply closes no
second time needs `Answered` (a reply is younger than its request, and a request that is answered has a
reply in the table); that a path passes no session twice needs `Known` (a path names chains that were handed
out and only sessions its holder's `Lineage` allows) and `Asked` (the paths of a request arrive from its
sender, so a reply can return there). That a subagent inherits no cycle needs the order in which
sessions are created: the assumption says that the `Parent` relation has one (`born`), as a subagent's
header names a session that exists. Every transaction is one of four kinds of step: rows age (`Ages`), a
session continues on new paths (`Continues`), a message is admitted (`Admits`), a reply is (`Replies`).

**Delivery** (`SessionDeliveryProofs`): `AcknowledgedIsDurable` for `ConsumedIsDurable`, `EntersOnce` for
`AddedOnce`, `RecallsHold` for `RecalledNeverEnters` (what was cancelled before any claim), and `Implements` for `KeepsPromise`, the refinement of
`DeliveryPromise`, step by step. An acknowledgement marks what is in `receipts`, so `Acknowledgeable` adds
that everything in `receipts` is in the host's log, and that the host's log contains the durable one
while the host is up. That a message enters once needs, of both copies of the session (`Sound`), that what is
queued is not in the log and what is in the log was claimed; of the turn (`TurnSound`), that its batch is in
neither; and (`Noticed`) that what is in the log is settled, or about to be acknowledged, so that no batch
of notes takes it again. For the refinement, `Forward` says what a step may add to a log: the durable one
grows out of the host's, and nothing that was withdrawn is on its way in.

**Trigger jobs** (`TriggerJobsProofs`): `NeverOverlaps` for `SingleFlight`, `StartsOnce` for `RunOnce`,
`TablesAgree` for `LogAndTableAgree`, `KeepsLimits` for `RecordedLimitsHeld`. The invariant: a run id names one
job and at most one process and session (`Ids`); the records of a run say the same time, and one is the first and
one the newest (`Records`); one holder of each trigger's lease, a worker or
the session it left behind (`OneHolder`); where each worker stands against table, sessions and log
(`Standing`: a worker about to finish its job has the outcome of the newest record); what began was claimed (`Begun`); while nothing was killed, what began is recorded or held
(`Tracked`); and the runs of the log, with the run a lease holder is about to record, keep the limits
(`LogLimits`, `WorkerLimits`). They count, for the first record of each run, the first records of earlier runs of
its trigger that are less than a day older (`Neighbours`), and say that a trigger with records has a newest one, against which the interval of
the next is measured. `OwnRunSettles` is the action property `SettledByOwnRun`: the update that finishes a job asks for
nothing but its running state, and that the job nevertheless runs for the worker at hand follows from `Standing`
(a worker past its claim has the job, under its own pid).

**Schedules** (the end of `TriggerJobsProofs`): `NothingIsSwallowed` for `NeverSwallowed` and `LatestFires` for
`FiresLatest`, with `CursorTypes`. The invariant is `CursorPastJobs` (every job was due by now, by the time of a tick
on its way, and by the time an install on its way has read unless it was overtaken; and it lies before the cursor of
its own source unless a late install set that) with `CursorOnRule`; the lemmas about the arithmetic (`Multiple`, `Apart`, `LatestIsLast`) say that rounding
down to the period finds the last overdue instant. `FiringsGoOn` is the action property `FiresForward`: a
job that a tick adds lies at or after the cursor, and the jobs of its source lie before it.

**Delegation** (`DelegateBoardProofs`): `PlanAlwaysGoesOn` for `PlanGoesOn`, `EachTaskItsChild` for `OwnChild`,
`LimitHolds` for `OnlyDirectExceeds`. A plan goes on because its dependencies
have no cycle: additions may only name tasks that are on the board or added with them, and are refused when a cycle
would close; so among the pending tasks, which are finitely many, one waits for no other. Children keep the name of
their task because a reserved name is not in use and reserved once (`Promised`), through the await between
reservation and start, and a call that has started its child returns to it (`Returning`). The bound is an account
(`Fits`): running children, reserved slots and the direct messages under way, each of which may yet wake a child,
fit into the limit and the direct messages sent so far.

**Package admission** (`PackageAdmissionProofs`): `TypeCorrect` (with: a process in a guarded phase holds both
gates), `RunsAreProtected` for `NeverSwappedUnderRun`, `HomesAgree` for `OnePackagePerHome`, `UpdatesRestore`
for `Restores` and `NothingIsLost` for `NothingLost`. The inductive invariant is the conjunction of the
types with four named parts. `Versioned`: an updater in its swap knows the old and the new version.
`Protected`: a running child holds its lease, the root of an updater that has passed the check of the
leases has no running child, and hence no run loses its program. `Owned`: the owner record of a data
directory names the root of every run on it and of a launch that has passed the owner check. `Kept`:
the version an updater moves away is the last good one, and a killed updater leaves it in the backup.
`Owned` needs `Protected` for the versions to agree; there is a lemma per part that goes through the
actions of `Next`.

**Self update** (`SelfUpdateProofs`): `PathAlwaysServed` for `PathServed`, `InstalledIsComplete` for
`DependenciesMatch`, `HomeLostOnlyInFailure` for `HomeOutlivesUpdates`. With the three properties the invariant
has what each updater holds in each phase (`Carries`: a staged tree between staging and swap, complete from
the installation on, and a backup between the renames) and `InPlace` (a checkout is never moved away; a tree
that was moved in is complete). `Paced` places the update of a checkout against the tree: HEAD has not gone back
since it was read, and what is being installed is what the tree asks for, unless the updater is `mixed`. No lock is needed for these, and the proof shows why: a rename onto a path
that is taken fails, and what an updater moved aside is its own.

**The Host** (`HostProofs`): `OneHostServes` for `SocketIsHolders`, `TerminalsAreServed` for the action property
`AttachedIsServed`. Added are `Serving` (the Host at the socket is up or leaving) and `Served` (an attached
terminal's Host is the one at the socket, and once that one is to end the terminal counts as warned). A stop by the user warns whoever is attached when it arrives;
an updater's stop needs no such excuse, for it had found nobody attached, and who attached since was too late.

**Host delivery** (the end of `HostProofs`): `DeliveryTypes`, `RetriesAdmitOnce` for `AdmittedOnce`, `AnswersAreDurable`,
`RemovalsAreFinal` and `ContextLeads`. The invariant says of both copies of the session (`Sound`) that each
request has one message in one place, that receipts and messages account for each other, and that a message
with a context has the receipt of it; of the calls (`Done`), that one about to be answered has changed the
session in memory; and of the answers given (`Promised`), that both copies still show them. Nothing takes
a receipt out of a session but a crash, which restores the copy the answers were given for. `RequestsAreKept` is
the refinement of `HostPromise`, step by step (`PromiseStep`): the standing of a request is read off the disk
(`OnDisk`), the session in memory is the disk's or has gone on from it (`Follows`), and in two sound sessions of
which one follows the other a request has gone on as the promise allows (`StandingGoesOn`). One write may carry
several steps of a message, so the promise lets a request go from nothing to the end of its way at once.

**Approvals and questions** (`HostProofs`): `AnswerTypes`, `NoneForgotten` for
`NoRequestForgotten`, `UsersDecide` for `UserDecides`. What a terminal must still hold or learn about an open
request is the property itself; the invariant adds that each prompt, frame, kept answer and call is about a
request that was put (`Asked`), that a prompt is withdrawn and an answer known to be taken only when the
request is closed (`OnlyShut`), and that an answer which is kept or under way was chosen by a user (`Genuine`).
A reconnect replays the open requests as a sequence; that it names every one of them needs that they are
finitely many, which is part of the invariant.

**Followed sessions** (the end of `HostProofs`): `FollowTypes`, `LogFollows` for
`LogFollowsHost`, `RunningShown` for `RunningIsShown`. The log is a run of seqs of the Host's log (`LogRuns`), and
so are what the stream still carries (`Streams`) and what `catchUp()` has read (`Caught`): the stream goes on
where the terminal is, or where `catchUp()` will end, and reaches the end of the Host's log, so no event is
skipped or refused. The lemmas before it say what appending, filtering and paging do to runs (`SeqsJoin`,
`SeqsFrom`, `Pages`). The filter of `catchUp()` is `From`, which takes the events from the first new one on;
it is the filter, for `historyPage()` has checked that they follow each other. For the running state
(`Corrected`): when it is not the Host's, a status frame is under way, the event stream is down, a list call is
due or has the right answer, or events are missing; or an answer was overtaken. While nothing is shown
(`Unknown`), no answer under way says less than the log, and `open()` will ask.

**Long-term memory** (`MemoryProofs`): `ClearedForGood` for `ForgottenStaysForgotten`. A clear deletes the lease,
so a run that was under way is dirty but owns nothing: the invariant says (`Guarded`) that a run which owns
the lease, or has passed the check before a commit, lists, carries and merges only sessions that are not
forgotten (`Clean`). A dirty run cannot get the lease back, for only a run at its start acquires it. The
invariant is claimed until a clear falls between a check and its commit, as the property is.

**Session cards** (the end of `MemoryProofs`): `CardsTypes`; `CardsAreHonest` (topics belong to the digest they
are stored with), `StatusIsTrue` (ready is current, updating is running), `NoCardWaits` for `SomeonePumps` (the timer is set
whenever the Host is at rest with a card to make), `FilesFollow` (an action property: only the present state
of a session writes its file). The strengthening is `AbortedWhenStale`: an extraction whose list has grown is
aborted, and a state that replaced another is younger than any extraction of the old one. It also shows
that the early return of `manager.mjs:120` is never taken.

Model-checked only: liveness (`Arrives`, `RunningSettles`, `PromptsClose`, `CatchesUp`, `LastRevisionLearned`,
`FilesRepaired`, `StaleLaunchesEnd`), which is beyond the prover. The communication feed is recursive and stays
with TLC for its bounded inputs.

Proved only, in no run: the type invariants; `SettledByOwnRun`; `FiresForward` and `FiresLatest`;
`CardIsOfItsRequests`, `ReadyIsCurrent`, `UpdatingIsRunning` and `FileFollowsState`; `AcknowledgedIsDurable`,
`RemovedStaysOut`, `ContextFirst` and `KeepsRequests`.

## 5. Plan

The components whose order matters most are modelled, and every safety property that a run checks is a theorem.
What could be added, in this order: lemmas that bound what the liveness properties wait for (a measure that each
fair step lowers), and the parts named below that have some order to get right.

## 6. Not modelled

The repository has about 73,000 lines of implementation; the map covers a small part of them. The larger
part is a terminal client (layout, panels, key handling, markdown, animations), adapters that translate the
requests and answers of external services, and tools that run one command after another: a state machine
of these would restate them. The components with status `not_modelled` in `PROJECT.json` each give their
reason. Among them are four parts that have some order to get right and were left out for what they add:
trigger sessions (one flag keeps the first of four ends), script sources (the script inherits a kernel
lease, as a Host does in `TriggerJobs`), the npm launcher (the locks of `PackageAdmission`), and the
deletion of sessions (the subtree is planned before the Harness's write locks are taken, so a child created
in between outlives its parent).

Inside the modelled components: titles, priorities and wording; the notification tables of the ledger;
byte sizes of bodies; ownership of a session by credentials; the failure of a file write on the board and
of a rename during a rollback; the legacy PID file of a package and the pause of the managed service; the
content of a download and of the checks of an update; which of several reasons defers a job; a clock that
goes back; child sessions, assistant frames and refusals of a version in a terminal; the search tool,
limits of age and size and the usage of a memory; deliveries without a request id; the TCP listener of a Host and turns that run without a
terminal.
