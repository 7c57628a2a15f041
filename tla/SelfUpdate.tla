------------------------------ MODULE SelfUpdate ------------------------------
(***************************************************************************)
(* `dscode update` of a tar installation and of a git checkout:            *)
(* scripts/self-update.mjs.                                                *)
(*                                                                         *)
(* An update of a tar installation stages a new tree beside the installed  *)
(* one, moves the user's state directory (.runtime) into it, installs its  *)
(* dependencies and swaps the two trees by two renames; whatever happens,  *)
(* its work directory is removed at the end.  A checkout is updated in     *)
(* place: pull, then npm ci and setup.  Nothing excludes a second update:  *)
(* the check for running sessions overlooks update processes.              *)
(*                                                                         *)
(* An updater is a process, so a retry is another updater.  The release    *)
(* lookup, the digest and the copies of .env and config/ are left out.     *)
(***************************************************************************)
EXTENDS Naturals

CONSTANTS
  Updaters,  \* processes that run `dscode update`, each once
  Versions,  \* releases, or the commits of the upstream branch in their order
  Nothing    \* no tree at a place, no dependencies in a tree

VARIABLES
  checkout,   \* the installation is a git working tree
  installed,  \* the tree at the installation path
  staged,     \* the tree in each updater's work directory
  backup,     \* the tree each updater moved aside
  session,    \* a session runs from the installation path
  phase,      \* of each updater
  from, to,   \* the version each updater found and the one it installs
  mixed       \* updaters in whose npm ci another one pulled or ran npm ci

vars == <<checkout, installed, staged, backup, session, phase, from, to, mixed>>

\* home: the .runtime directory with the user's sessions, a newly provisioned one, or none
Tree == [version : Versions, deps : Versions \cup {Nothing}, home : {"user", "fresh", "none"}]

ASSUME UpdateAssumption == Versions \subseteq Nat /\ Nothing \notin Nat \cup Tree

Places == Tree \cup {Nothing}
Working == {"pull", "compare", "ci", "installing", "setup", "stage", "install", "recheck", "aside", "in"}
Ended == {"current", "busy", "failed", "started", "updated", "killed"}

TypeOK ==
  /\ checkout \in BOOLEAN /\ session \in BOOLEAN
  /\ installed \in Places
  /\ staged \in [Updaters -> Places] /\ backup \in [Updaters -> Places]
  /\ phase \in [Updaters -> {"idle"} \cup Working \cup Ended]
  /\ from \in [Updaters -> Versions \cup {Nothing}] /\ to \in [Updaters -> Versions \cup {Nothing}]
  /\ mixed \subseteq Updaters

Init ==
  /\ checkout \in BOOLEAN /\ session = FALSE
  /\ \E v \in Versions : installed = [version |-> v, deps |-> v, home |-> "user"]
  /\ staged = [u \in Updaters |-> Nothing] /\ backup = [u \in Updaters |-> Nothing]
  /\ phase = [u \in Updaters |-> "idle"]
  /\ from = [u \in Updaters |-> Nothing] /\ to = [u \in Updaters |-> Nothing]
  /\ mixed = {}

\* The updaters whose npm ci is under way.
Installing == {u \in Updaters : phase[u] = "installing"}
Go(u, p) == phase' = [phase EXCEPT ![u] = p]
WithHome(tree) == [tree EXCEPT !.home = IF @ = "none" THEN "fresh" ELSE @]
Provisioned(tree) == [WithHome(tree) EXCEPT !.deps = tree.version]
\* `finally`: the work directory of u is removed.
Cleanup(u) == staged' = [staged EXCEPT ![u] = Nothing]

-----------------------------------------------------------------------------
(* Sessions: harness.mjs provisions a state directory when there is none.  *)

StartSession ==
  /\ ~session /\ installed # Nothing
  /\ session' = TRUE
  /\ installed' = WithHome(installed)
  /\ UNCHANGED <<checkout, staged, backup, phase, from, to, mixed>>

EndSession ==
  /\ session /\ session' = FALSE
  /\ UNCHANGED <<checkout, installed, staged, backup, phase, from, to, mixed>>

-----------------------------------------------------------------------------
(* Both kinds                                                              *)

Begin(u) ==
  /\ phase[u] = "idle" /\ installed # Nothing
  /\ from' = [from EXCEPT ![u] = installed.version]
  /\ Go(u, IF session THEN "busy" ELSE IF checkout THEN "pull" ELSE "stage")
  /\ UNCHANGED <<checkout, installed, staged, backup, session, to, mixed>>

\* A command fails, or the first rename does: the error leaves through `finally`.
Fail(u) ==
  /\ phase[u] \in Working \ {"installing", "in"}
  /\ Go(u, "failed") /\ Cleanup(u)
  /\ UNCHANGED <<checkout, installed, backup, session, from, to, mixed>>

\* The process dies where it is; its work directory stays.
Kill(u) ==
  /\ phase[u] \in Working /\ Go(u, "killed")
  /\ UNCHANGED <<checkout, installed, staged, backup, session, from, to, mixed>>

-----------------------------------------------------------------------------
(* updateCheckout                                                          *)

\* A pull only goes forward.  `from' is the HEAD before it; HEAD is read again after it.
Pull(u) ==
  /\ phase[u] = "pull" /\ Go(u, "compare")
  /\ \E v \in {n \in Versions : n >= installed.version} :
       /\ installed' = [installed EXCEPT !.version = v]
       /\ to' = [to EXCEPT ![u] = v]
       /\ mixed' = IF v = installed.version THEN mixed ELSE mixed \cup Installing
  /\ UNCHANGED <<checkout, staged, backup, session, from>>

BugCompare(u) ==  \* mutant: HEAD is read for the first time after the pull
  /\ phase[u] = "compare" /\ Go(u, "current")
  /\ UNCHANGED <<checkout, installed, staged, backup, session, from, to, mixed>>
Compare(u) ==
  /\ phase[u] = "compare"
  /\ Go(u, IF installed.version = from[u] THEN "current" ELSE "ci")
  /\ UNCHANGED <<checkout, installed, staged, backup, session, from, to, mixed>>

\* npm ci reads the lockfile, removes the dependencies and installs those it has read.
NpmCi(u) ==
  /\ phase[u] = "ci" /\ Go(u, "installing")
  /\ to' = [to EXCEPT ![u] = installed.version]
  /\ installed' = [installed EXCEPT !.deps = Nothing]
  /\ mixed' = IF Installing = {} THEN mixed ELSE mixed \cup Installing \cup {u}
  /\ UNCHANGED <<checkout, staged, backup, session, from>>

\* Two that run at once leave the one's dependencies, the other's, or a mixture.
Locked(u) == {to[u]} \cup (IF u \in mixed THEN {Nothing} ELSE {})

InstalledBy(u) ==
  /\ phase[u] = "installing" /\ Go(u, "setup")
  /\ \E d \in Locked(u) : installed' = [installed EXCEPT !.deps = d]
  /\ UNCHANGED <<checkout, staged, backup, session, from, to, mixed>>

\* An error of npm ci is not made good.
NpmCiFails(u) ==
  /\ phase[u] = "installing" /\ Go(u, "failed")
  /\ \E d \in {installed.deps, to[u], Nothing} : installed' = [installed EXCEPT !.deps = d]
  /\ UNCHANGED <<checkout, staged, backup, session, from, to, mixed>>

Setup(u) ==
  /\ phase[u] = "setup" /\ Go(u, "updated")
  /\ installed' = WithHome(installed)
  /\ UNCHANGED <<checkout, staged, backup, session, from, to, mixed>>

-----------------------------------------------------------------------------
(* The tarball                                                             *)

\* The lookup, the download and its extraction, then migrateState().
TakenHome == IF installed = Nothing THEN "none" ELSE installed.home
LeftTree == IF installed = Nothing THEN Nothing ELSE [installed EXCEPT !.home = "none"]

Stage(u) ==
  /\ phase[u] = "stage"
  /\ \E v \in Versions :
       \/ /\ v = from[u] /\ Go(u, "current")
          /\ UNCHANGED <<installed, staged, to>>
       \/ /\ v # from[u] /\ Go(u, "install")
          /\ to' = [to EXCEPT ![u] = v]
          /\ staged' = [staged EXCEPT ![u] = [version |-> v, deps |-> Nothing, home |-> TakenHome]]
          /\ installed' = LeftTree
  /\ UNCHANGED <<checkout, backup, session, from, mixed>>

Install(u) ==
  /\ phase[u] = "install" /\ Go(u, "recheck")
  /\ staged' = [staged EXCEPT ![u] = Provisioned(staged[u])]
  /\ UNCHANGED <<checkout, installed, backup, session, from, to, mixed>>

\* A session was started meanwhile: "nothing was changed".
Recheck(u) ==
  /\ phase[u] = "recheck"
  /\ IF session THEN Go(u, "started") /\ Cleanup(u) ELSE Go(u, "aside") /\ UNCHANGED staged
  /\ UNCHANGED <<checkout, installed, backup, session, from, to, mixed>>

MoveAside(u) ==
  /\ phase[u] = "aside" /\ installed # Nothing
  /\ backup' = [backup EXCEPT ![u] = installed]
  /\ installed' = Nothing
  /\ Go(u, "in")
  /\ UNCHANGED <<checkout, staged, session, from, to, mixed>>

BugMoveIn(u) ==  \* mutant: the previous installation is removed once the new one is in place
  /\ phase[u] = "in" /\ installed = Nothing
  /\ installed' = staged[u] /\ Cleanup(u)
  /\ Go(u, "updated")
  /\ backup' = [backup EXCEPT ![u] = Nothing]
  /\ UNCHANGED <<checkout, session, from, to, mixed>>
MoveIn(u) ==
  /\ phase[u] = "in" /\ installed = Nothing
  /\ installed' = staged[u] /\ Cleanup(u)
  /\ Go(u, "updated")
  /\ UNCHANGED <<checkout, backup, session, from, to, mixed>>

\* The second rename fails, by itself or because another update has put a tree there.
BugMoveInFails(u) ==  \* mutant: the old tree is not moved back
  /\ phase[u] = "in" /\ Go(u, "failed") /\ Cleanup(u)
  /\ UNCHANGED <<checkout, installed, backup, session, from, to, mixed>>
MoveInFails(u) ==
  /\ phase[u] = "in" /\ Go(u, "failed") /\ Cleanup(u)
  /\ IF installed = Nothing
     THEN installed' = backup[u] /\ backup' = [backup EXCEPT ![u] = Nothing]
     ELSE UNCHANGED <<installed, backup>>
  /\ UNCHANGED <<checkout, session, from, to, mixed>>

Next ==
  \/ StartSession \/ EndSession
  \/ \E u \in Updaters :
       \/ Begin(u) \/ Fail(u) \/ Kill(u) \/ Pull(u) \/ Compare(u)
       \/ NpmCi(u) \/ InstalledBy(u) \/ NpmCiFails(u) \/ Setup(u)
       \/ Stage(u) \/ Install(u) \/ Recheck(u)
       \/ MoveAside(u) \/ MoveIn(u) \/ MoveInFails(u)

Spec == Init /\ [][Next]_vars

-----------------------------------------------------------------------------
(* Properties                                                              *)

\* The installation path is empty only between the two renames of an updater,
\* or because one was killed there; an error never leaves it empty.
PathServed ==
  installed = Nothing => \E u \in Updaters : backup[u] # Nothing /\ phase[u] \in {"in", "killed"}

\* What is installed has its own dependencies.  A swapped tree has them whatever else
\* updates at the same time.  A checkout is without them only while an update that has
\* pulled has still to go through its npm ci, or did not get through it, and when another
\* update pulled or ran npm ci during that of an updater: nothing keeps the two apart, and
\* both report success.
Unfinished == \E u \in Updaters :
  /\ to[u] # Nothing
  /\ \/ phase[u] \in {"ci", "installing", "failed", "killed"}
     \/ phase[u] = "compare" /\ installed.version # from[u]
Overlapped == \E u \in mixed : installed.deps \in {to[u], Nothing}
DependenciesMatch ==
  \/ installed = Nothing \/ installed.deps = installed.version
  \/ checkout /\ (Unfinished \/ Overlapped)

Trees == ({installed} \cup {staged[u] : u \in Updaters} \cup {backup[u] : u \in Updaters}) \ {Nothing}

\* The user's state disappears only when an updater that had staged a tree was turned
\* away or failed before its swap: neither completed updates nor killed ones, nor any
\* interleaving of these, discard it.
HomeOutlivesUpdates ==
  (\A t \in Trees : t.home # "user") =>
    \E u \in Updaters : to[u] # Nothing /\ phase[u] \in {"failed", "started"}
\* The claim of the second refusal, scripts/self-update.mjs:151: "nothing was changed".
RefusalChangesNothing ==
  (\E u \in Updaters : phase[u] = "started") => \E t \in Trees : t.home = "user"
=============================================================================
