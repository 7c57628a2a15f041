---------------------------- MODULE MemoryPipeline ----------------------------
(***************************************************************************)
(* The background pipeline of the long-term memory:                        *)
(* plugins/memory/pipeline.mjs, store.mjs and index.mjs.                   *)
(*                                                                         *)
(* Every process of a state directory may run the pipeline over one SQLite *)
(* database; a lease admits one at a time.  A run extracts a memory from   *)
(* each idle session, then merges the memories and the user's notes into a *)
(* snapshot, and writes it as files.  Each statement and transaction of    *)
(* the store is one step: between the check of a run and the commit it     *)
(* guards, another process may clear the memory, switch it off or resume   *)
(* the session.                                                            *)
(*                                                                         *)
(* A memory is the revision of the session it was extracted from; what the *)
(* models write, their usage, the age limits, the order of the sessions    *)
(* and the number taken per run are left out.  A backoff has passed when   *)
(* the next run begins.                                                    *)
(***************************************************************************)
EXTENDS Naturals, FiniteSets

CONSTANTS
  Processes,
  Sessions,
  Nobody,     \* the lease is free
  Gone,       \* the lease of a run whose process died
  None,       \* no revision, no snapshot
  MaxChanges, \* bound on what users do to sessions and memory
  MaxFaults   \* bound on failed model calls, deaths and suspended processes

ASSUME MemoryAssumption ==
  /\ MaxChanges \in Nat /\ MaxFaults \in Nat
  /\ {Nobody, Gone} \cap Processes = {} /\ Nobody # Gone /\ None \notin Nat

VARIABLES
  session,  \* the persisted sessions: created, revision, lease of a live process, contribution, before a clear
  generate, \* the global switch
  lease,    \* owner of the pipeline lease, and whether it has expired
  store,    \* per session the revision of its job and of its memory; the notes
  snapshot, \* published: revisions merged and notes
  files,    \* what the Markdown files show
  wiping,   \* a clear has committed and deletes the files
  run,      \* the run of each process
  changes, faults,  \* so far
  overtaken \* history: a clear came between a check and what it guards

vars == <<session, generate, lease, store, snapshot, files, wiping, run, changes, faults, overtaken>>

Revisions == 0..MaxChanges
Memories == [Sessions -> Revisions \cup {None}]
Inputs == [memory : Memories, notes : 0..MaxChanges]
Stages == {"idle", "list", "extract", "ask", "relist", "check", "save", "merge", "publish", "write"}
\* A run: stage, revisions listed and not dealt with, the session in hand and what its second
\* listing said, and the input of the merge, which is then published and written.
Runs == [stage : Stages, todo : Memories, item : Sessions \cup {None}, same : BOOLEAN,
         input : Inputs \cup {None}]

TypeOK ==
  /\ session \in [Sessions -> [created : BOOLEAN, revision : Revisions, active : BOOLEAN,
                               enabled : BOOLEAN, forgotten : BOOLEAN]]
  /\ generate \in BOOLEAN /\ wiping \in BOOLEAN /\ overtaken \in BOOLEAN
  /\ lease \in [owner : Processes \cup {Nobody, Gone}, expired : BOOLEAN]
  /\ store \in [jobs : Memories, memory : Memories, notes : 0..MaxChanges, fingerprint : Inputs \cup {None}]
  /\ snapshot \in Inputs \cup {None} /\ files \in Inputs \cup {None}
  /\ run \in [Processes -> Runs]
  /\ changes \in 0..MaxChanges /\ faults \in 0..MaxFaults

Empty == [s \in Sessions |-> None]
Idle == [stage |-> "idle", todo |-> Empty, item |-> None, same |-> FALSE, input |-> None]
Free == [owner |-> Nobody, expired |-> FALSE]
EmptyStore == [jobs |-> Empty, memory |-> Empty, notes |-> 0, fingerprint |-> None]

Init ==
  /\ session \in [Sessions -> [created : BOOLEAN, revision : {0}, active : {FALSE},
                               enabled : {TRUE}, forgotten : {FALSE}]]
  /\ generate = TRUE /\ lease = Free /\ store = EmptyStore
  /\ snapshot = None /\ files = None /\ wiping = FALSE
  /\ run = [p \in Processes |-> Idle]
  /\ changes = 0 /\ faults = 0 /\ overtaken = FALSE

-----------------------------------------------------------------------------
(* The lease                                                               *)

Owns(p) == lease.owner = p /\ ~lease.expired
Acquirable(p) == lease.owner \in {p, Nobody} \/ lease.expired
Released(p) == IF lease.owner = p THEN Free ELSE lease

\* check() failed, or the run is over: its finally block releases the lease.
Finish(p) == run' = [run EXCEPT ![p] = Idle] /\ lease' = Released(p)

\* A process that died renews nothing; nor does one that is suspended.
Expire ==
  /\ lease.owner = Gone /\ ~lease.expired
  /\ lease' = [lease EXCEPT !.expired = TRUE]
  /\ UNCHANGED <<session, generate, store, snapshot, files, wiping, run, changes, faults, overtaken>>

Suspend ==
  /\ lease.owner \in Processes /\ ~lease.expired /\ faults < MaxFaults
  /\ lease' = [lease EXCEPT !.expired = TRUE]
  /\ faults' = faults + 1
  /\ UNCHANGED <<session, generate, store, snapshot, files, wiping, run, changes, overtaken>>

-----------------------------------------------------------------------------
(* A run                                                                   *)

At(p, stage) == run[p].stage = stage
Kept == UNCHANGED <<session, generate, wiping, changes, overtaken>>

Start(p) ==
  /\ At(p, "idle") /\ generate /\ Acquirable(p)
  /\ lease' = [owner |-> p, expired |-> FALSE]
  /\ run' = [run EXCEPT ![p].stage = "list"]
  /\ UNCHANGED <<store, snapshot, files, faults>> /\ Kept

Usable(s) ==
  LET one == session[s] IN one.created /\ ~one.forgotten /\ one.enabled /\ ~one.active

List(p) ==
  /\ At(p, "list")
  /\ run' = [run EXCEPT ![p].stage = "extract",
                        ![p].todo = [s \in Sessions |-> IF Usable(s) THEN session[s].revision ELSE None]]
  /\ UNCHANGED <<lease, store, snapshot, files, faults>> /\ Kept

Next_(p, s) == [run[p] EXCEPT !.stage = "extract", !.todo[s] = None, !.item = None]

\* The next session: one whose revision has a job already is passed over.
Extract(p, s) ==
  /\ At(p, "extract") /\ run[p].todo[s] # None
  /\ IF Owns(p)
     THEN /\ run' = [run EXCEPT ![p] = IF store.jobs[s] # run[p].todo[s]
                                       THEN [@ EXCEPT !.stage = "ask", !.item = s] ELSE Next_(p, s)]
          /\ UNCHANGED lease
     ELSE Finish(p)
  /\ UNCHANGED <<store, snapshot, files, faults>> /\ Kept

\* The model answers, and the sessions are listed once more.
Asked(p) ==
  /\ At(p, "ask")
  /\ IF Owns(p) THEN run' = [run EXCEPT ![p].stage = "relist"] /\ UNCHANGED lease ELSE Finish(p)
  /\ UNCHANGED <<store, snapshot, files, faults>> /\ Kept

\* store.failed(): the revision stays due.
AskFails(p) ==
  /\ At(p, "ask") /\ faults < MaxFaults
  /\ faults' = faults + 1
  /\ IF Owns(p)
     THEN /\ store' = [store EXCEPT !.jobs[run[p].item] = None]
          /\ run' = [run EXCEPT ![p] = Next_(p, run[p].item)]
          /\ UNCHANGED lease
     ELSE Finish(p) /\ UNCHANGED store
  /\ UNCHANGED <<snapshot, files>> /\ Kept

Relist(p) ==
  /\ At(p, "relist")
  /\ run' = [run EXCEPT ![p].stage = "check", ![p].same = session[run[p].item].revision = run[p].todo[run[p].item]]
  /\ UNCHANGED <<lease, store, snapshot, files, faults>> /\ Kept

Check(p) ==
  /\ At(p, "check")
  /\ IF Owns(p)
     THEN /\ run' = [run EXCEPT ![p] = IF @.same /\ session[@.item].enabled /\ ~session[@.item].active
                                       THEN [@ EXCEPT !.stage = "save"] ELSE Next_(p, @.item)]
          /\ UNCHANGED lease
     ELSE Finish(p)
  /\ UNCHANGED <<store, snapshot, files, faults>> /\ Kept

\* save(): the job and the memory, or no memory when there is nothing to keep.
BugSave(p) ==  \* mutant: the job is recorded with the session's revision of now
  /\ At(p, "save")
  /\ LET s == run[p].item
         kept == run[p].todo[s]
     IN \E memory \in {kept, None} :
          store' = [store EXCEPT !.jobs[s] = session[s].revision, !.memory[s] = memory]
  /\ run' = [run EXCEPT ![p] = Next_(p, run[p].item)]
  /\ UNCHANGED <<lease, snapshot, files, faults>> /\ Kept
Save(p) ==
  /\ At(p, "save")
  /\ LET s == run[p].item
         kept == run[p].todo[s]
     IN \E memory \in {kept, None} :
          store' = [store EXCEPT !.jobs[s] = kept, !.memory[s] = memory]
  /\ run' = [run EXCEPT ![p] = Next_(p, run[p].item)]
  /\ UNCHANGED <<lease, snapshot, files, faults>> /\ Kept

Input == [memory |-> [s \in Sessions |-> IF session[s].enabled THEN store.memory[s] ELSE None],
          notes |-> store.notes]

\* All sessions are dealt with: read the input of the merge; when it is the one published
\* last, only the files are written again.
BugGather(p) ==  \* mutant: nothing is written when nothing changed
  /\ At(p, "extract") /\ run[p].todo = Empty
  /\ IF Owns(p) /\ Input # store.fingerprint
     THEN run' = [run EXCEPT ![p].stage = "merge", ![p].input = Input] /\ UNCHANGED lease
     ELSE Finish(p)
  /\ UNCHANGED <<store, snapshot, files, faults>> /\ Kept
Gather(p) ==
  /\ At(p, "extract") /\ run[p].todo = Empty
  /\ IF Owns(p)
     THEN /\ run' = [run EXCEPT ![p] = IF Input = store.fingerprint
                                       THEN [@ EXCEPT !.stage = "write", !.input = snapshot]
                                       ELSE [@ EXCEPT !.stage = "merge", !.input = Input]]
          /\ UNCHANGED lease
     ELSE Finish(p)
  /\ UNCHANGED <<store, snapshot, files, faults>> /\ Kept

MergeFails(p) ==
  /\ At(p, "merge") /\ faults < MaxFaults
  /\ faults' = faults + 1
  /\ Finish(p)
  /\ UNCHANGED <<store, snapshot, files>> /\ Kept

\* What the user changed during the call defers the publication.
Merged(p) ==
  /\ At(p, "merge")
  /\ IF /\ Owns(p)
        /\ \A s \in Sessions : run[p].input.memory[s] # None => session[s].enabled
        /\ store.notes = run[p].input.notes
     THEN run' = [run EXCEPT ![p].stage = "publish"] /\ UNCHANGED lease
     ELSE Finish(p)
  /\ UNCHANGED <<store, snapshot, files, faults>> /\ Kept

Publish(p) ==
  /\ At(p, "publish")
  /\ snapshot' = run[p].input
  /\ store' = [store EXCEPT !.fingerprint = run[p].input]
  /\ run' = [run EXCEPT ![p].stage = "write"]
  /\ UNCHANGED <<lease, files, faults>> /\ Kept

\* materialize(), and the lease is released.
Write(p) ==
  /\ At(p, "write")
  /\ files' = IF run[p].input = None THEN files ELSE run[p].input
  /\ Finish(p)
  /\ UNCHANGED <<store, snapshot, faults>> /\ Kept

Die(p) ==
  /\ run[p].stage # "idle" /\ faults < MaxFaults
  /\ faults' = faults + 1
  /\ run' = [run EXCEPT ![p] = Idle]
  /\ lease' = IF lease.owner = p THEN [lease EXCEPT !.owner = Gone] ELSE lease
  /\ UNCHANGED <<store, snapshot, files>> /\ Kept

-----------------------------------------------------------------------------
(* Users, in any process                                                   *)

Change == changes < MaxChanges /\ changes' = changes + 1

\* The lease of the pipeline is deleted.  A heartbeat asks whether it owns the lease and
\* acquires it again in a second statement: when the deletion falls between, it is back.
Cancel ==
  \/ lease' = Free
  \/ lease.owner \in Processes /\ ~lease.expired /\ UNCHANGED lease

Create(s) ==
  /\ ~session[s].created /\ Change
  /\ session' = [session EXCEPT ![s].created = TRUE]
  /\ UNCHANGED <<generate, lease, store, snapshot, files, wiping, run, faults, overtaken>>

\* A process resumes a session and changes it; its own lease makes the session active.
Resume(s) ==
  /\ session[s].created /\ ~session[s].active /\ Change
  /\ session' = [session EXCEPT ![s].active = TRUE, ![s].revision = @ + 1]
  /\ UNCHANGED <<generate, lease, store, snapshot, files, wiping, run, faults, overtaken>>

Leave(s) ==
  /\ session[s].active
  /\ session' = [session EXCEPT ![s].active = FALSE]
  /\ UNCHANGED <<generate, lease, store, snapshot, files, wiping, run, changes, faults, overtaken>>

\* /memories on and off, for one session and for all.
Switch(s, on) ==
  /\ session[s].created /\ session[s].enabled # on /\ Change
  /\ session' = [session EXCEPT ![s].enabled = on]
  /\ Cancel
  /\ UNCHANGED <<generate, store, snapshot, files, wiping, run, faults, overtaken>>

GlobalSwitch(on) ==
  /\ generate # on /\ Change
  /\ generate' = on
  /\ IF on THEN UNCHANGED lease ELSE Cancel
  /\ UNCHANGED <<session, store, snapshot, files, wiping, run, faults, overtaken>>

Note ==
  /\ Change
  /\ store' = [store EXCEPT !.notes = @ + 1]
  /\ UNCHANGED <<session, generate, lease, snapshot, files, wiping, run, faults, overtaken>>

\* /memories clear: one transaction, then the files.
Committing(p) == run[p].stage \in {"save", "publish", "write"}
BugClear ==  \* mutant: the lease of a running pipeline is left alone
  /\ Change /\ ~wiping
  /\ store' = EmptyStore /\ snapshot' = None
  /\ session' = [s \in Sessions |-> [session[s] EXCEPT !.forgotten = session[s].created]]
  /\ overtaken' = (overtaken \/ \E p \in Processes : Committing(p))
  /\ wiping' = TRUE
  /\ UNCHANGED <<generate, lease, files, run, faults>>
Clear ==
  /\ Change /\ ~wiping
  /\ store' = EmptyStore /\ snapshot' = None
  /\ session' = [s \in Sessions |-> [session[s] EXCEPT !.forgotten = session[s].created]]
  /\ Cancel
  /\ overtaken' = (overtaken \/ lease' # Free \/ \E p \in Processes : Committing(p))
  /\ wiping' = TRUE
  /\ UNCHANGED <<generate, files, run, faults>>

Wipe ==
  /\ wiping
  /\ files' = None /\ wiping' = FALSE
  /\ UNCHANGED <<session, generate, lease, store, snapshot, run, changes, faults, overtaken>>

Work(p) ==
  \/ Start(p) \/ List(p) \/ Asked(p) \/ Relist(p) \/ Check(p) \/ Save(p)
  \/ Gather(p) \/ Merged(p) \/ Publish(p) \/ Write(p)
  \/ \E s \in Sessions : Extract(p, s)

Next ==
  \/ \E p \in Processes : Work(p) \/ AskFails(p) \/ MergeFails(p) \/ Die(p)
  \/ Expire \/ Suspend \/ Clear \/ Wipe \/ Note
  \/ \E s \in Sessions : Create(s) \/ Resume(s) \/ Leave(s) \/ \E on \in BOOLEAN : Switch(s, on)
  \/ \E on \in BOOLEAN : GlobalSwitch(on)

Spec == Init /\ [][Next]_vars
Fairness ==
  /\ WF_vars(Expire) /\ WF_vars(Wipe)
  /\ \A p \in Processes : WF_vars(Work(p))
FairSpec == Spec /\ Fairness

-----------------------------------------------------------------------------
(* Properties                                                              *)

Shows(value) == value # None /\ \E s \in Sessions : value.memory[s] # None /\ session[s].forgotten

\* docs/memory.md:26,60: after a clear nothing of the sessions before it is kept, published or
\* written again, by whichever run was under way; unless the clear fell between the last
\* check of a run and its commit, or between the two statements of a heartbeat.
ForgottenStaysForgotten ==
  overtaken \/
    /\ \A s \in Sessions : session[s].forgotten => store.memory[s] = None
    /\ ~Shows(snapshot)
    /\ Shows(files) => wiping

\* A session left idle and contributing is in the end learned from at its last revision,
\* whatever failed, died or was overtaken before.
LastRevisionLearned ==
  \A s \in Sessions :
    <>[](generate /\ Usable(s)) =>
      <>[](store.jobs[s] = session[s].revision /\ store.memory[s] \in {None, session[s].revision})

\* The files come to show the published snapshot, although runs die before they write them
\* and write them out of order.
FilesRepaired == <>[]generate => <>[](overtaken \/ files = snapshot)
=============================================================================
