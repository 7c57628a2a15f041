---------------------------- MODULE DelegateBoard ----------------------------
(***************************************************************************)
(* Delegation by one coordinating session: the delegate board              *)
(* (plugins/dscode/board.mjs) and the admission of child agents by the     *)
(* tools/execute hook (plugins/dscode/index.mjs).                          *)
(*                                                                         *)
(* The tool calls of one step run concurrently.  A call is suspended while *)
(* the catalog of children is read and again while the tool itself runs    *)
(* (a worktree is made, an approval is asked); between two suspensions it  *)
(* is one step.  Children are sessions of the Harness (external): they     *)
(* settle on their own and, when continuable, a message wakes them.        *)
(* Titles, priorities, verification texts and the waiting mark of a        *)
(* question are left out; a dependency is resolved to a task id.           *)
(***************************************************************************)
EXTENDS Naturals, FiniteSets, FiniteSetsExt

CONSTANTS
  MaxTasks,   \* tasks a board holds
  MaxBatch,   \* model bound: tasks of one add
  Names,      \* child names
  Children,   \* the child sessions ever started
  NoChild, NoName,
  Calls,      \* concurrent tool calls
  Limit,      \* children that may run at a time
  MaxPlans,   \* model bound: changes of the plan
  MaxDirect   \* model bound: messages sent to a child that is running

ASSUME BoardAssumption ==
  /\ {MaxTasks, MaxBatch, Limit} \subseteq Nat \ {0}
  /\ {MaxPlans, MaxDirect} \subseteq Nat
  /\ NoChild \notin Children /\ NoName \notin Names
  /\ IsFiniteSet(Children) /\ IsFiniteSet(Calls)

VARIABLES
  tasks,   \* the board: a record for each task id
  child,   \* child sessions
  call,    \* tool calls in progress
  plans, direct  \* counters of the bounds

vars == <<tasks, child, call, plans, direct>>

Ids == 1..MaxTasks
Stages == {"pending", "launched", "complete"}
NoTask == [stage |-> "none", name |-> NoName, deps |-> {}, agent |-> NoChild]
NoCall == [phase |-> "off", tool |-> "none", name |-> NoName, agent |-> NoChild]

OnBoard(table) == {t \in Ids : table[t].stage # "none"}
IsOpen(table, t) == table[t].stage \in {"pending", "launched"}
Blockers(table, t) == {d \in table[t].deps : table[d].stage # "complete"}

Running == {c \in Children : child[c].state = "running"}
Known(n) == \E c \in Children : child[c].state \in {"running", "settled"} /\ child[c].name = n
Reserved == {l \in Calls : call[l].phase = "reserved"}
Pending(n) == \E l \in Reserved : call[l].tool = "subagent" /\ call[l].name = n

Init ==
  /\ tasks = [t \in Ids |-> NoTask]
  /\ child = [c \in Children |-> [state |-> "none", name |-> NoName]]
  /\ call = [l \in Calls |-> NoCall]
  /\ plans = 0 /\ direct = 0

-----------------------------------------------------------------------------
\* The board

Plan == /\ plans < MaxPlans
        /\ plans' = plans + 1
        /\ UNCHANGED <<child, call, direct>>

\* A dependency cycle: a set of tasks each waiting for another of the set.
BugCyclic(table) == FALSE  \* mutant: cycles are accepted
Cyclic(table) ==
  \E S \in SUBSET OnBoard(table) : S # {} /\ \A t \in S : table[t].deps \cap S # {}

\* checkName(): no other open task has the name.
BugNameFree(table, n, t) ==  \* mutant: only pending tasks hold a name
  \A o \in Ids \ {t} : table[o].stage = "pending" => table[o].name # n
NameFree(table, n, t) == \A o \in Ids \ {t} : IsOpen(table, o) => table[o].name # n

\* A batch takes the ids after the highest in use; a dropped id comes back.
Highest == Max(OnBoard(tasks) \cup {0})
Add(n, names, deps) ==
  LET new == Highest + 1..Highest + n
      table == [t \in Ids |-> IF t \in new
                              THEN [stage |-> "pending", name |-> names[t - Highest],
                                    deps |-> deps[t - Highest], agent |-> NoChild]
                              ELSE tasks[t]] IN
  /\ Cardinality(OnBoard(tasks)) + n <= MaxTasks /\ Highest + n <= MaxTasks
  /\ \A i \in 1..n : deps[i] \subseteq OnBoard(table) \ {Highest + i}
  /\ \A t \in new : NameFree(table, table[t].name, t)
  /\ ~Cyclic(table)
  /\ tasks' = table
  /\ Plan

Update(t, deps) ==
  LET table == [tasks EXCEPT ![t].deps = deps] IN
  /\ tasks[t].stage = "pending"
  /\ deps \subseteq OnBoard(tasks) \ {t}
  /\ ~Cyclic(table)
  /\ tasks' = table
  /\ Plan

Complete(t) ==
  /\ tasks[t].stage = "launched"
  /\ tasks' = [tasks EXCEPT ![t].stage = "complete"]
  /\ Plan

Reopen(t, n) ==
  /\ tasks[t].stage \in {"launched", "complete"}
  /\ NameFree(tasks, n, t)
  /\ tasks' = [tasks EXCEPT ![t].stage = "pending", ![t].name = n, ![t].agent = NoChild]
  /\ Plan

Released(t, d) == tasks[t].deps \ {d}
Drop(d) ==
  /\ d \in OnBoard(tasks)
  /\ tasks' = [t \in Ids |-> IF t = d THEN NoTask ELSE [tasks[t] EXCEPT !.deps = Released(t, d)]]
  /\ Plan

Clear ==
  /\ OnBoard(tasks) # {}
  /\ tasks' = [t \in Ids |-> NoTask]
  /\ Plan

\* launched(): the pending task planned under the child's name is taken by the child.
Takes(t, n) == tasks[t].stage = "pending" /\ tasks[t].name = n
Launched(n, c) ==
  tasks' = [t \in Ids |-> IF Takes(t, n) THEN [tasks[t] EXCEPT !.stage = "launched", !.agent = c]
                          ELSE tasks[t]]

-----------------------------------------------------------------------------
\* subagent and send_message calls

Ask(l, tool, n, c) ==
  /\ call[l] = NoCall
  /\ call' = [call EXCEPT ![l] = [phase |-> "asked", tool |-> tool, name |-> n, agent |-> c]]
  /\ UNCHANGED <<tasks, child, plans, direct>>

AskLaunch(l, n) == (\E c \in Children : child[c].state = "none") /\ Ask(l, "subagent", n, NoChild)
AskMessage(l, c) == child[c].state \in {"running", "settled"} /\ Ask(l, "send_message", child[c].name, c)

\* The checks and the reservation, after the catalog has been read, are one step.
BugFull == Cardinality(Running) >= Limit  \* mutant: calls in progress are not counted
Full == Cardinality(Running) + Cardinality(Reserved) >= Limit
MayLaunch(n) ==
  /\ ~Known(n) /\ ~Pending(n)
  /\ \A t \in Ids : Takes(t, n) => Blockers(tasks, t) = {}

Admit(l) ==
  LET p == call[l]
      ok == /\ p.tool = "subagent" => MayLaunch(p.name)
            /\ p.tool = "send_message" => child[p.agent].state = "settled"
            /\ ~Full IN
  /\ p.phase = "asked"
  /\ p.tool = "send_message" => child[p.agent].state # "running"
  /\ call' = [call EXCEPT ![l] = IF ok THEN [p EXCEPT !.phase = "reserved"] ELSE NoCall]
  /\ UNCHANGED <<tasks, child, plans, direct>>

\* A message to a child that is running reserves nothing.
Direct(l) ==
  LET p == call[l] IN
  /\ p.phase = "asked" /\ p.tool = "send_message"
  /\ child[p.agent].state = "running" /\ direct < MaxDirect
  /\ direct' = direct + 1
  /\ call' = [call EXCEPT ![l].phase = "direct"]
  /\ UNCHANGED <<tasks, child, plans>>

\* subagent/start: the child runs, its name is known and the reservation released.
Start(l, c) ==
  LET p == call[l] IN
  /\ p.phase = "reserved" /\ p.tool = "subagent" /\ child[c].state = "none"
  /\ child' = [child EXCEPT ![c] = [state |-> "running", name |-> p.name]]
  /\ Launched(p.name, c)
  /\ call' = [call EXCEPT ![l].phase = "started", ![l].agent = c]
  /\ UNCHANGED <<plans, direct>>

\* The call returns the child it started.
Return(l) ==
  /\ call[l].phase = "started"
  /\ Launched(call[l].name, call[l].agent)
  /\ call' = [call EXCEPT ![l] = NoCall]
  /\ UNCHANGED <<child, plans, direct>>

\* A start or a delivery that fails releases its reservation.
Fail(l) ==
  /\ call[l].phase \in {"reserved", "direct"}
  /\ call' = [call EXCEPT ![l] = NoCall]
  /\ UNCHANGED <<tasks, child, plans, direct>>

\* The message arrives and wakes a child that has settled.
Deliver(l) ==
  LET p == call[l] IN
  /\ p.phase \in {"reserved", "direct"} /\ p.tool = "send_message"
  /\ child[p.agent].state \in {"running", "settled"}
  /\ child' = [child EXCEPT ![p.agent].state = "running"]
  /\ call' = [call EXCEPT ![l] = NoCall]
  /\ UNCHANGED <<tasks, plans, direct>>

Settle(c) ==
  /\ child[c].state = "running"
  /\ child' = [child EXCEPT ![c].state = "settled"]
  /\ UNCHANGED <<tasks, call, plans, direct>>

Dispose(c) ==
  /\ child[c].state = "settled"
  /\ child' = [child EXCEPT ![c].state = "gone"]
  /\ UNCHANGED <<tasks, call, plans, direct>>

Next ==
  \/ \E n \in 1..MaxBatch : \E names \in [1..n -> Names], deps \in [1..n -> SUBSET Ids] :
       Add(n, names, deps)
  \/ \E t \in Ids :
       \/ \E deps \in SUBSET Ids : Update(t, deps)
       \/ Complete(t) \/ Drop(t)
       \/ \E n \in Names : Reopen(t, n)
  \/ Clear
  \/ \E l \in Calls :
       \/ \E n \in Names : AskLaunch(l, n)
       \/ \E c \in Children : AskMessage(l, c) \/ Start(l, c)
       \/ Admit(l) \/ Direct(l) \/ Return(l) \/ Fail(l) \/ Deliver(l)
  \/ \E c \in Children : Settle(c) \/ Dispose(c)

Spec == Init /\ [][Next]_vars

-----------------------------------------------------------------------------
TaskType == [stage : Stages \cup {"none"}, name : Names \cup {NoName}, deps : SUBSET Ids,
             agent : Children \cup {NoChild}]
ChildType == [state : {"none", "running", "settled", "gone"}, name : Names \cup {NoName}]
CallType == [phase : {"off", "asked", "reserved", "direct", "started"},
             tool : {"none", "subagent", "send_message"}, name : Names \cup {NoName},
             agent : Children \cup {NoChild}]

\* The board, the children and the calls; a dependency always names a task on the board,
\* so that an id which comes back is never waited for by mistake.
TypeOK ==
  /\ tasks \in [Ids -> TaskType]
  /\ \A t \in OnBoard(tasks) : tasks[t].deps \subseteq OnBoard(tasks)
  /\ child \in [Children -> ChildType]
  /\ call \in [Calls -> CallType]
  /\ plans \in 0..MaxPlans /\ direct \in 0..MaxDirect

\* A plan can always go on: if a task is pending, some pending task is ready or a launched
\* one is still to be verified.  The board's "every pending task is blocked and nothing is
\* in flight" cannot come true, whatever is re-planned, reopened, dropped and added.
PlanGoesOn ==
  (\E t \in Ids : tasks[t].stage = "pending") =>
    \E t \in Ids : \/ tasks[t].stage = "pending" /\ Blockers(tasks, t) = {}
                   \/ tasks[t].stage = "launched"

\* Each launched task is worked on by a child of its own, started under its planned name,
\* although calls return late and names are reused; and a name means one child, "unique
\* among the parent's live, resumable and starting children" (docs/dscode-ultra.md), when
\* several launches run at once.
OwnChild ==
  /\ \A t \in Ids : tasks[t].stage = "launched" =>
       /\ tasks[t].agent # NoChild /\ child[tasks[t].agent].name = tasks[t].name
       /\ \A o \in Ids \ {t} : tasks[o].stage = "launched" => tasks[o].agent # tasks[t].agent
  /\ \A c, d \in Children :
       /\ {child[c].state, child[d].state} \subseteq {"running", "settled"}
       /\ child[c].name = child[d].name
       => c = d

\* "Admission reservations prevent concurrent launches from racing past the cap"
\* (docs/dscode-ultra.md): launches and wakes that reserve a slot never do; each child above
\* the limit was woken by a message delivered without a reservation.
OnlyDirectExceeds == Cardinality(Running) <= Limit + direct
=============================================================================
