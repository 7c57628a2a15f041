--------------------------- MODULE PackageAdmission ---------------------------
(***************************************************************************)
(* Admission of sessions and updates of the self-contained package:        *)
(* scripts/standalone.mjs, scripts/standalone-update.mjs and the kernel    *)
(* locks of packages/launcher/locks.mjs.                                   *)
(*                                                                         *)
(* A launcher takes the gates (file locks) of its data directory and of    *)
(* its installation, registers a run lease in each and starts a child,     *)
(* which inherits the leases: a killed launcher leaves the child running   *)
(* and its leases held.  An updater holds both gates while it replaces the *)
(* program directory by renames, and rolls back when a step fails.         *)
(*                                                                         *)
(* A lease file nobody holds is removed by the next activeRuns(), so only  *)
(* held leases are kept here.  The gates are taken in the order in which   *)
(* the default paths sort.  The legacy PID file, the pause of a managed    *)
(* server, the download and a rollback that fails itself are left out.     *)
(***************************************************************************)
EXTENDS Naturals, FiniteSets

CONSTANTS
  Roots,     \* installations (program directories)
  Homes,     \* data directories
  Brewed,    \* installations that Homebrew owns
  Versions,
  Launchers, \* process slots: a launcher and the child it starts
  Absent     \* no package at a root, no owner, nobody

ASSUME AdmissionAssumption ==
  /\ Absent \notin Versions \cup Launchers
  /\ Brewed \subseteq Roots /\ Roots # {} /\ Homes # {} /\ Roots \cap Homes = {}

VARIABLES
  package,  \* version in each program directory, or Absent
  backup,   \* versions kept in sibling backup directories
  owner,    \* .standalone-runtime.json of each data directory
  gate,     \* launcher holding each .launcher.guard lock
  lease,    \* processes holding the run lease of each slot
  proc,     \* launcher processes
  child,    \* the runtime a launcher started
  good,     \* history: version of the last completed installation
  torn      \* history: roots whose updater died between its renames

vars == <<package, backup, owner, gate, lease, proc, child, good, torn>>

Gates == Roots \cup Homes
NoOwner == [root |-> Absent, version |-> Absent]
Idle == [phase |-> "off", command |-> "none", root |-> CHOOSE r \in Roots : TRUE,
         home |-> CHOOSE h \in Homes : TRUE, seen |-> Absent, old |-> Absent, new |-> Absent]
NoChild == [running |-> FALSE, root |-> CHOOSE r \in Roots : TRUE,
            home |-> CHOOSE h \in Homes : TRUE, version |-> Absent]

Waiting == {"gates", "regates"}
Swapping == {"out", "in", "undo"}

\* The gates and the leases of a process are released when it ends, however it ends.
Freed(l) == [g \in Gates |-> IF gate[g] = l THEN Absent ELSE gate[g]]
Runs(g) ==
  {l \in Launchers : \/ "child" \in lease[l] /\ g \in {child[l].root, child[l].home}
                     \/ "launcher" \in lease[l] /\ g \in {proc[l].root, proc[l].home}}
BugActiveRuns(g) == {l \in Runs(g) : "launcher" \in lease[l]}  \* mutant: orphans are missed
ActiveRuns(g) == Runs(g)

Init ==
  /\ package \in [Roots -> Versions] /\ good = package
  /\ backup = [r \in Roots |-> {}]
  /\ owner = [h \in Homes |-> NoOwner]
  /\ gate = [g \in Gates |-> Absent]
  /\ lease = [l \in Launchers |-> {}]
  /\ proc = [l \in Launchers |-> Idle]
  /\ child = [l \in Launchers |-> NoChild]
  /\ torn = {}

Go(l, p) == proc' = [proc EXCEPT ![l] = p]
Step(l, phase) == Go(l, [proc[l] EXCEPT !.phase = phase])
Exit(l) == Go(l, Idle) /\ gate' = Freed(l)

-----------------------------------------------------------------------------
\* Locks

\* standaloneMain reads the package before it takes a gate.
Begin(l, command, r, h) ==
  /\ proc[l].phase \in {"off", "refused"} /\ lease[l] = {} /\ package[r] # Absent
  /\ Go(l, [phase |-> "gates", command |-> command, root |-> r, home |-> h,
            seen |-> package[r], old |-> Absent, new |-> Absent])
  /\ UNCHANGED <<package, backup, owner, gate, lease, child, good, torn>>

Acquire(l, g) ==
  /\ gate[g] = Absent
  /\ gate' = [gate EXCEPT ![g] = l]
  /\ UNCHANGED <<package, backup, owner, lease, proc, child, good, torn>>
AcquireHome(l) == proc[l].phase \in Waiting /\ Acquire(l, proc[l].home)
AcquireRoot(l) ==
  proc[l].phase \in Waiting /\ gate[proc[l].home] = l /\ Acquire(l, proc[l].root)

\* Two seconds have passed and a gate is still held by another process.
GiveUp(l) ==
  /\ proc[l].phase \in Waiting
  /\ \E g \in {proc[l].home, proc[l].root} : gate[g] \notin {Absent, l}
  /\ Exit(l)
  /\ UNCHANGED <<package, backup, owner, lease, child, good, torn>>

HasGates(l) == gate[proc[l].home] = l /\ gate[proc[l].root] = l

-----------------------------------------------------------------------------
\* A session

Mine(l) == [root |-> proc[l].root, version |-> proc[l].seen]
BugForeign(l) == owner[proc[l].home].version # proc[l].seen  \* mutant: the root is not compared
Foreign(l) == owner[proc[l].home] # Mine(l)

Refuse(l) ==
  /\ proc[l].phase = "gates" /\ proc[l].command = "session" /\ HasGates(l)
  /\ Foreign(l) /\ ActiveRuns(proc[l].home) # {}
  /\ Go(l, [Idle EXCEPT !.phase = "refused"]) /\ gate' = Freed(l)
  /\ UNCHANGED <<package, backup, owner, lease, child, good, torn>>

Own(l) ==
  /\ proc[l].phase = "gates" /\ proc[l].command = "session" /\ HasGates(l)
  /\ Foreign(l) => ActiveRuns(proc[l].home) = {}
  /\ owner' = [owner EXCEPT ![proc[l].home] = Mine(l)]
  /\ Step(l, "owned")
  /\ UNCHANGED <<package, backup, gate, lease, child, good, torn>>

\* The leases are registered and inherited by the child, then the gates are released.
Spawn(l) ==
  LET p == proc[l] IN
  /\ p.phase = "owned" /\ package[p.root] # Absent
  /\ lease' = [lease EXCEPT ![l] = {"launcher", "child"}]
  /\ child' = [child EXCEPT ![l] = [running |-> TRUE, root |-> p.root, home |-> p.home,
                                    version |-> package[p.root]]]
  /\ Step(l, "spawned")
  /\ UNCHANGED <<package, backup, owner, gate, good, torn>>

SpawnFail(l) ==
  /\ proc[l].phase = "owned"
  /\ Exit(l)
  /\ UNCHANGED <<package, backup, owner, lease, child, good, torn>>

Release(l) ==
  /\ proc[l].phase = "spawned"
  /\ gate' = Freed(l) /\ Step(l, "running")
  /\ UNCHANGED <<package, backup, owner, lease, child, good, torn>>

ChildEnd(l) ==
  /\ child[l].running
  /\ child' = [child EXCEPT ![l] = NoChild]
  /\ lease' = [lease EXCEPT ![l] = @ \ {"child"}]
  /\ UNCHANGED <<package, backup, owner, gate, proc, good, torn>>

Finish(l) ==
  /\ proc[l].phase = "running" /\ ~child[l].running
  /\ lease' = [lease EXCEPT ![l] = @ \ {"launcher"}]
  /\ Exit(l)
  /\ UNCHANGED <<package, backup, owner, child, good, torn>>

-----------------------------------------------------------------------------
\* An update

\* Homebrew updates its own packages.
Brew(l) ==
  /\ proc[l].phase = "gates" /\ proc[l].command = "update" /\ HasGates(l)
  /\ proc[l].root \in Brewed
  /\ Exit(l)
  /\ UNCHANGED <<package, backup, owner, lease, child, good, torn>>

\* The gates are released while a managed server is paused and an idle Host stopped.
LetGo(l) ==
  /\ proc[l].phase = "gates" /\ proc[l].command = "update" /\ HasGates(l)
  /\ proc[l].root \notin Brewed
  /\ gate' = Freed(l) /\ Step(l, "regates")
  /\ UNCHANGED <<package, backup, owner, lease, child, good, torn>>

NoRuns(l) == \A g \in {proc[l].root, proc[l].home} : ActiveRuns(g) = {}

\* The gates are held again, no run is active, and the package of v has been verified.
Stage(l, v) ==
  LET p == proc[l] IN
  /\ p.phase = "regates" /\ HasGates(l) /\ NoRuns(l)
  /\ package[p.root] \notin {Absent, v}
  /\ Go(l, [p EXCEPT !.phase = "staged", !.old = package[p.root], !.new = v])
  /\ UNCHANGED <<package, backup, owner, gate, lease, child, good, torn>>

\* A run is active, the package is current, or the download does not verify.
StageFail(l) ==
  /\ proc[l].phase = "regates" /\ HasGates(l)
  /\ Exit(l)
  /\ UNCHANGED <<package, backup, owner, lease, child, good, torn>>

SwapOut(l) ==
  /\ proc[l].phase = "staged"
  /\ package' = [package EXCEPT ![proc[l].root] = Absent]
  /\ Step(l, "out")
  /\ UNCHANGED <<backup, owner, gate, lease, child, good, torn>>

SwapIn(l) ==
  /\ proc[l].phase = "out"
  /\ package' = [package EXCEPT ![proc[l].root] = proc[l].new]
  /\ Step(l, "in")
  /\ UNCHANGED <<backup, owner, gate, lease, child, good, torn>>

SwapFail(l) ==
  /\ proc[l].phase = "out"
  /\ Step(l, "undo")
  /\ UNCHANGED <<package, backup, owner, gate, lease, child, good, torn>>

\* dscode --check succeeds at its final place.
Updated(l) ==
  LET p == proc[l] IN
  /\ p.phase = "in"
  /\ backup' = [backup EXCEPT ![p.root] = @ \cup {p.old}]
  /\ good' = [good EXCEPT ![p.root] = p.new]
  /\ torn' = torn \ {p.root}
  /\ Exit(l)
  /\ UNCHANGED <<package, owner, lease, child>>

\* It fails: the new package is moved away, then the old one back.
CheckFail(l) ==
  /\ proc[l].phase = "in"
  /\ package' = [package EXCEPT ![proc[l].root] = Absent]
  /\ Step(l, "undo")
  /\ UNCHANGED <<backup, owner, gate, lease, child, good, torn>>

BugRestored(l) == proc[l].new  \* mutant: the failed package is put back
Restored(l) == proc[l].old
Restore(l) ==
  LET r == proc[l].root IN
  /\ proc[l].phase = "undo"
  /\ package' = [package EXCEPT ![r] = Restored(l)]
  /\ Exit(l)
  /\ UNCHANGED <<backup, owner, lease, child, good, torn>>

\* A killed launcher: the kernel closes its descriptors; its child goes on.
Crash(l) ==
  LET p == proc[l] IN
  /\ p.phase \notin {"off", "refused"}
  /\ lease' = [lease EXCEPT ![l] = @ \ {"launcher"}]
  /\ backup' = [backup EXCEPT ![p.root] = IF p.phase \in Swapping THEN @ \cup {p.old} ELSE @]
  /\ torn' = IF p.phase \in Swapping THEN torn \cup {p.root} ELSE torn
  /\ Exit(l)
  /\ UNCHANGED <<package, owner, child, good>>

Next ==
  \E l \in Launchers :
    \/ \E command \in {"session", "update"}, r \in Roots, h \in Homes : Begin(l, command, r, h)
    \/ AcquireHome(l) \/ AcquireRoot(l) \/ GiveUp(l)
    \/ Refuse(l) \/ Own(l) \/ Spawn(l) \/ SpawnFail(l) \/ Release(l) \/ ChildEnd(l) \/ Finish(l)
    \/ Brew(l) \/ LetGo(l) \/ StageFail(l) \/ \E v \in Versions : Stage(l, v)
    \/ SwapOut(l) \/ SwapIn(l) \/ SwapFail(l) \/ Updated(l) \/ CheckFail(l) \/ Restore(l)
    \/ Crash(l)

Spec == Init /\ [][Next]_vars

-----------------------------------------------------------------------------
Phases == {"off", "refused", "gates", "owned", "spawned", "running", "regates", "staged"} \cup Swapping
ProcType == [phase : Phases, command : {"none", "session", "update"}, root : Roots, home : Homes,
             seen : Versions \cup {Absent}, old : Versions \cup {Absent},
             new : Versions \cup {Absent}]
ChildType == [running : BOOLEAN, root : Roots, home : Homes, version : Versions \cup {Absent}]

\* Program and data directories, locks and processes; past the waits of a launch or of an
\* update, and until the session runs, both gates are its own.
Guarded == {"owned", "spawned", "staged"} \cup Swapping
TypeOK ==
  /\ package \in [Roots -> Versions \cup {Absent}] /\ good \in [Roots -> Versions]
  /\ backup \in [Roots -> SUBSET Versions]
  /\ owner \in [Homes -> [root : Roots \cup {Absent}, version : Versions \cup {Absent}]]
  /\ gate \in [Gates -> Launchers \cup {Absent}]
  /\ lease \in [Launchers -> SUBSET {"launcher", "child"}]
  /\ proc \in [Launchers -> ProcType]
  /\ child \in [Launchers -> ChildType]
  /\ torn \in SUBSET Roots
  /\ \A l \in Launchers : proc[l].phase \in Guarded =>
       gate[proc[l].home] = l /\ gate[proc[l].root] = l

\* The program directory of a running session is never replaced or missing, even when the
\* launcher that started it has been killed ("each running child retains protection even if
\* its launcher is killed", docs/distribution.md).
NeverSwappedUnderRun ==
  \A l \in Launchers : child[l].running => package[child[l].root] = child[l].version

\* Sessions that share a data directory run the same package: the owner record and the
\* lease check keep another installation, or another version of it, out.
OnePackagePerHome ==
  \A l, k \in Launchers :
    child[l].running /\ child[k].running /\ child[l].home = child[k].home
    => child[l].root = child[k].root /\ child[l].version = child[k].version

\* A failed update restores the old application: with no update in progress, and none
\* killed between its renames, the program directory holds the last good version.
Restores ==
  \A r \in Roots \ torn :
    (\A l \in Launchers : proc[l].phase \in Swapping => proc[l].root # r) => package[r] = good[r]

\* Whatever fails or dies, the last good version is in place or in a directory beside it.
NothingLost ==
  \A r \in Roots :
    \/ package[r] = good[r] \/ good[r] \in backup[r]
    \/ \E l \in Launchers : proc[l].phase \in Swapping /\ proc[l].root = r /\ proc[l].old = good[r]
=============================================================================
