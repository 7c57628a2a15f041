------------------------ MODULE PackageAdmissionProofs ------------------------
(***************************************************************************)
(* Proofs about package admission, for every set of installations, data    *)
(* directories, versions and launchers.                                    *)
(***************************************************************************)
EXTENDS PackageAdmission, TLAPS

Replacing == {"staged"} \cup Swapping

\* An updater that has staged a package knows both versions.
Versioned ==
  \A l \in Launchers : proc[l].phase \in Replacing =>
    proc[l].old \in Versions /\ proc[l].new \in Versions

\* Why no run is swapped away: a running child holds its lease, and the root of an updater
\* that has passed the check of the leases has no running child.
Leased == \A l \in Launchers : child[l].running => "child" \in lease[l]
Unused ==
  \A l, k \in Launchers :
    proc[l].phase \in Replacing /\ child[k].running => child[k].root # proc[l].root
Protected == Leased /\ Unused /\ NeverSwappedUnderRun

\* Why runs of one data directory agree: the owner record names the root of every run, and
\* of a launch that has passed the owner check.
Owned ==
  /\ \A l \in Launchers : child[l].running => owner[child[l].home].root = child[l].root
  /\ \A l \in Launchers : proc[l].phase = "owned" => owner[proc[l].home].root = proc[l].root

\* Why the last good version survives: an updater moves it away only as its old version,
\* and a killed one leaves it in the backup directory.
Kept ==
  /\ \A r \in torn : good[r] \in backup[r]
  /\ Restores
  /\ \A l \in Launchers :
       /\ proc[l].phase = "staged" => package[proc[l].root] = proc[l].old
       /\ proc[l].phase = "in" => package[proc[l].root] = proc[l].new
       /\ proc[l].phase \in Swapping /\ proc[l].root \notin torn => proc[l].old = good[proc[l].root]

IInv == TypeOK /\ Versioned /\ Protected /\ Owned /\ Kept

\* An idle process and the absent child are well typed.
LEMMA IdleType ==
  /\ Idle \in ProcType /\ NoChild \in ChildType
  /\ Idle.phase = "off" /\ NoChild.running = FALSE
  BY AdmissionAssumption DEF AdmissionAssumption, Idle, NoChild, ProcType, ChildType, Phases

\* Initially nothing runs and nothing is held.
LEMMA InitType == Init => TypeOK
<1> SUFFICES ASSUME Init PROVE TypeOK
  OBVIOUS
<1>1. package \in [Roots -> Versions \cup {Absent}] /\ good \in [Roots -> Versions]
  BY DEF Init
<1>2. backup \in [Roots -> SUBSET Versions] /\ torn \in SUBSET Roots
  BY DEF Init
<1>3. owner \in [Homes -> [root : Roots \cup {Absent}, version : Versions \cup {Absent}]]
  BY DEF Init, NoOwner
<1>4. gate \in [Gates -> Launchers \cup {Absent}]
  BY DEF Init
<1>5. lease \in [Launchers -> SUBSET {"launcher", "child"}]
  BY DEF Init
<1>6. proc \in [Launchers -> ProcType] /\ child \in [Launchers -> ChildType]
  BY IdleType DEF Init
<1>7. \A l \in Launchers : proc[l].phase \notin Guarded
  BY IdleType DEF Init, Guarded, Swapping
<1> QED
  BY <1>1, <1>2, <1>3, <1>4, <1>5, <1>6, <1>7 DEF TypeOK

\* What every step does to processes and gates.
LEMMA GoType ==
  ASSUME TypeOK, NEW l \in Launchers, NEW p \in ProcType, Go(l, p)
  PROVE  /\ proc' \in [Launchers -> ProcType] /\ proc'[l] = p
         /\ \A k \in Launchers \ {l} : proc'[k] = proc[k]
  BY DEF TypeOK, Go

\* A process that exits becomes idle, holds no gate and leaves the other processes alone.
LEMMA ExitType ==
  ASSUME TypeOK, NEW l \in Launchers, Exit(l)
  PROVE  /\ proc' \in [Launchers -> ProcType] /\ proc'[l] = Idle
         /\ \A k \in Launchers \ {l} : proc'[k] = proc[k]
         /\ gate' \in [Gates -> Launchers \cup {Absent}]
         /\ \A g \in Gates, k \in Launchers \ {l} : gate'[g] = k <=> gate[g] = k
<1>1. Go(l, Idle) /\ gate' = Freed(l)
  BY DEF Exit
<1>2. l # Absent
  BY AdmissionAssumption DEF AdmissionAssumption
<1> QED
  BY <1>1, <1>2, IdleType, GoType, AdmissionAssumption DEF TypeOK, Freed, AdmissionAssumption

\* A step to another phase changes nothing else of the process and no other process.
LEMMA StepType ==
  ASSUME TypeOK, NEW l \in Launchers, NEW phase \in Phases, Step(l, phase)
  PROVE  /\ proc' \in [Launchers -> ProcType]
         /\ proc'[l].phase = phase /\ proc'[l].root = proc[l].root /\ proc'[l].home = proc[l].home
         /\ proc'[l].seen = proc[l].seen /\ proc'[l].old = proc[l].old /\ proc'[l].new = proc[l].new
         /\ \A k \in Launchers \ {l} : proc'[k] = proc[k]
<1>1. proc[l] \in ProcType
  BY DEF TypeOK
<1> DEFINE p == [proc[l] EXCEPT !.phase = phase]
<1>2. p \in ProcType /\ p.phase = phase /\ p.root = proc[l].root /\ p.home = proc[l].home
      /\ p.seen = proc[l].seen /\ p.old = proc[l].old /\ p.new = proc[l].new
  BY <1>1 DEF ProcType
<1>3. Go(l, p)
  BY DEF Step
<1> HIDE DEF p
<1> QED
  BY <1>2, <1>3, GoType

\* Moving on while holding both gates, or to a phase that needs none, keeps the types.
LEMMA GatesKept ==
  ASSUME TypeOK, UNCHANGED gate, NEW l \in Launchers, proc' \in [Launchers -> ProcType],
         \A k \in Launchers \ {l} : proc'[k] = proc[k],
         \/ proc'[l].phase \notin Guarded
         \/ gate[proc'[l].home] = l /\ gate[proc'[l].root] = l
  PROVE  \A k \in Launchers : proc'[k].phase \in Guarded =>
           gate'[proc'[k].home] = k /\ gate'[proc'[k].root] = k
  BY DEF TypeOK

\* A process that leaves its guarded phases and frees its gates takes no gate from another.
LEMMA GatesFreed ==
  ASSUME TypeOK, NEW l \in Launchers, gate' = Freed(l), proc' \in [Launchers -> ProcType],
         \A k \in Launchers \ {l} : proc'[k] = proc[k], proc'[l].phase \notin Guarded
  PROVE  /\ gate' \in [Gates -> Launchers \cup {Absent}]
         /\ \A k \in Launchers : proc'[k].phase \in Guarded =>
              gate'[proc'[k].home] = k /\ gate'[proc'[k].root] = k
<1>1. gate' \in [Gates -> Launchers \cup {Absent}]
  BY DEF TypeOK, Freed
<1>2. ASSUME NEW k \in Launchers \ {l}, NEW g \in Gates, gate[g] = k PROVE gate'[g] = k
  BY <1>2 DEF Freed
<1>3. \A k \in Launchers : proc[k].home \in Gates /\ proc[k].root \in Gates
  BY DEF TypeOK, ProcType, Gates
<1> QED
  BY <1>1, <1>2, <1>3 DEF TypeOK

\* Every step keeps the types.
LEMMA TypeStep == TypeOK /\ Versioned /\ [Next]_vars => TypeOK'
<1> SUFFICES ASSUME TypeOK, Versioned, [Next]_vars PROVE TypeOK'
  OBVIOUS
<1> USE DEF Phases, Swapping
<1>0. Idle \in ProcType /\ Idle.phase = "off" /\ "off" \notin Guarded
  BY IdleType DEF Guarded
<1>1. CASE UNCHANGED vars
  BY <1>1 DEF vars, TypeOK
<1>2. ASSUME NEW l \in Launchers, NEW command \in {"session", "update"}, NEW r \in Roots,
             NEW h \in Homes, Begin(l, command, r, h)
      PROVE  TypeOK'
  <2> DEFINE p == [phase |-> "gates", command |-> command, root |-> r, home |-> h,
                   seen |-> package[r], old |-> Absent, new |-> Absent]
  <2>1. p \in ProcType /\ p.phase = "gates"
    BY <1>0, IdleType DEF TypeOK, ProcType
  <2>2. Go(l, p)
    BY <1>2 DEF Begin
  <2> HIDE DEF p
  <2>3. proc' \in [Launchers -> ProcType] /\ proc'[l] = p
        /\ \A k \in Launchers \ {l} : proc'[k] = proc[k]
    BY <2>1, <2>2, GoType
  <2>4. "gates" \notin Guarded /\ UNCHANGED gate
    BY <1>2 DEF Guarded, Begin
  <2> QED
    BY <1>2, <2>1, <2>3, <2>4, GatesKept DEF Begin, TypeOK
<1>3. ASSUME NEW l \in Launchers, NEW g \in Gates, Acquire(l, g), proc[l].phase \in Waiting
      PROVE  TypeOK'
  <2>1. \A k \in Launchers : proc[k].phase \in Guarded => gate[proc[k].home] = k /\ gate[proc[k].root] = k
    BY DEF TypeOK
  <2>2. gate' \in [Gates -> Launchers \cup {Absent}] /\ \A f \in Gates : gate[f] # Absent => gate'[f] = gate[f]
    BY <1>3 DEF Acquire, TypeOK
  <2>3. \A k \in Launchers : proc[k].home \in Gates /\ proc[k].root \in Gates /\ k # Absent
    BY AdmissionAssumption DEF TypeOK, ProcType, Gates, AdmissionAssumption
  <2> QED
    BY <1>3, <2>1, <2>2, <2>3 DEF Acquire, TypeOK
<1>4. ASSUME NEW l \in Launchers, GiveUp(l) \/ Brew(l) \/ SpawnFail(l) \/ StageFail(l)
      PROVE  TypeOK'
  <2>1. Exit(l) /\ UNCHANGED <<package, backup, owner, lease, child, good, torn>>
    BY <1>4 DEF GiveUp, Brew, SpawnFail, StageFail
  <2> QED
    BY <1>0, <2>1, ExitType, GatesFreed DEF Exit, TypeOK
<1>5. ASSUME NEW l \in Launchers, Refuse(l) PROVE TypeOK'
  <2> DEFINE p == [Idle EXCEPT !.phase = "refused"]
  <2>1. p \in ProcType /\ p.phase = "refused" /\ "refused" \notin Guarded
    BY <1>0, IdleType DEF ProcType, Guarded
  <2>2. Go(l, p) /\ gate' = Freed(l) /\ UNCHANGED <<package, backup, owner, lease, child, good, torn>>
    BY <1>5 DEF Refuse
  <2> HIDE DEF p
  <2> QED
    BY <2>1, <2>2, GoType, GatesFreed DEF TypeOK
<1>6. ASSUME NEW l \in Launchers, Own(l) PROVE TypeOK'
  <2>1. Mine(l) \in [root : Roots \cup {Absent}, version : Versions \cup {Absent}]
    BY DEF Mine, TypeOK, ProcType
  <2>2. Step(l, "owned") /\ HasGates(l)
        /\ UNCHANGED <<package, backup, gate, lease, child, good, torn>>
    BY <1>6 DEF Own
  <2>3. proc'[l].home = proc[l].home /\ proc'[l].root = proc[l].root
    BY <2>2, StepType DEF TypeOK, ProcType
  <2>4. owner' = [owner EXCEPT ![proc[l].home] = Mine(l)]
    BY <1>6 DEF Own
  <2>5. owner' \in [Homes -> [root : Roots \cup {Absent}, version : Versions \cup {Absent}]]
    BY <2>1, <2>4 DEF TypeOK
  <2> QED
    BY <2>2, <2>3, <2>5, StepType, GatesKept DEF TypeOK, HasGates
<1>7. ASSUME NEW l \in Launchers, Spawn(l) PROVE TypeOK'
  <2>1. Step(l, "spawned") /\ proc[l].phase = "owned" /\ UNCHANGED <<package, backup, owner, gate, good, torn>>
    BY <1>7 DEF Spawn
  <2>2. lease' \in [Launchers -> SUBSET {"launcher", "child"}]
    BY <1>7 DEF Spawn, TypeOK
  <2>3. [running |-> TRUE, root |-> proc[l].root, home |-> proc[l].home,
         version |-> package[proc[l].root]] \in ChildType
    BY DEF TypeOK, ProcType, ChildType
  <2>4. child' \in [Launchers -> ChildType]
    BY <1>7, <2>3 DEF Spawn, TypeOK
  <2>5. proc'[l].home = proc[l].home /\ proc'[l].root = proc[l].root
    BY <2>1, StepType DEF TypeOK, ProcType
  <2>6. gate[proc[l].home] = l /\ gate[proc[l].root] = l
    BY <2>1 DEF TypeOK, Guarded
  <2> QED
    BY <2>1, <2>2, <2>4, <2>5, <2>6, StepType, GatesKept DEF TypeOK
<1>8. ASSUME NEW l \in Launchers, NEW phase \in {"running", "regates"}, Step(l, phase),
             gate' = Freed(l), UNCHANGED <<package, backup, owner, lease, child, good, torn>>
      PROVE  TypeOK'
  <2>1. proc'[l].phase = phase /\ phase \notin Guarded
    BY <1>8, StepType DEF TypeOK, ProcType, Guarded
  <2> QED
    BY <1>8, <2>1, StepType, GatesFreed DEF TypeOK
<1>9. ASSUME NEW l \in Launchers, ChildEnd(l) PROVE TypeOK'
  <2>1. lease' \in [Launchers -> SUBSET {"launcher", "child"}]
    BY <1>9 DEF ChildEnd, TypeOK
  <2>3. child' \in [Launchers -> ChildType]
    BY <1>9, IdleType DEF ChildEnd, TypeOK
  <2> QED
    BY <1>9, <2>1, <2>3 DEF ChildEnd, TypeOK
<1>10. ASSUME NEW l \in Launchers, Finish(l) PROVE TypeOK'
  <2>1. lease' \in [Launchers -> SUBSET {"launcher", "child"}]
    BY <1>10 DEF Finish, TypeOK
  <2>2. Exit(l) /\ UNCHANGED <<package, backup, owner, child, good, torn>>
    BY <1>10 DEF Finish
  <2> QED
    BY <1>0, <2>1, <2>2, ExitType, GatesFreed DEF Exit, TypeOK
<1>11. ASSUME NEW l \in Launchers, NEW v \in Versions, Stage(l, v) PROVE TypeOK'
  <2> DEFINE p == [proc[l] EXCEPT !.phase = "staged", !.old = package[proc[l].root], !.new = v]
  <2>0. proc[l] \in ProcType /\ package[proc[l].root] \in Versions \cup {Absent}
    BY DEF TypeOK, ProcType
  <2>1. p \in ProcType /\ p.home = proc[l].home /\ p.root = proc[l].root
    BY <2>0 DEF ProcType
  <2>2. Go(l, p) /\ HasGates(l) /\ UNCHANGED <<package, backup, owner, gate, lease, child, good, torn>>
    BY <1>11 DEF Stage
  <2> HIDE DEF p
  <2> QED
    BY <2>1, <2>2, GoType, GatesKept DEF TypeOK, HasGates
<1>12. ASSUME NEW l \in Launchers, NEW phase \in Swapping, Step(l, phase),
              proc[l].phase \in {"staged", "out", "in"},
              package' \in [Roots -> Versions \cup {Absent}],
              UNCHANGED <<backup, owner, gate, lease, child, good, torn>>
       PROVE  TypeOK'
  <2>1. proc'[l].home = proc[l].home /\ proc'[l].root = proc[l].root
    BY <1>12, StepType DEF TypeOK, ProcType
  <2>2. gate[proc[l].home] = l /\ gate[proc[l].root] = l
    BY <1>12 DEF TypeOK, Guarded
  <2> QED
    BY <1>12, <2>1, <2>2, StepType, GatesKept DEF TypeOK
<1>13. ASSUME NEW l \in Launchers, SwapOut(l) \/ SwapIn(l) \/ SwapFail(l) \/ CheckFail(l)
       PROVE  TypeOK'
  <2>1. package' \in [Roots -> Versions \cup {Absent}]
    BY <1>13 DEF SwapOut, SwapIn, SwapFail, CheckFail, TypeOK, ProcType
  <2> QED
    BY <1>12, <1>13, <2>1 DEF SwapOut, SwapIn, SwapFail, CheckFail
<1>14. ASSUME NEW l \in Launchers, Updated(l), proc[l].old \in Versions, proc[l].new \in Versions
       PROVE  TypeOK'
  <2>1. backup' \in [Roots -> SUBSET Versions] /\ good' \in [Roots -> Versions] /\ torn' \in SUBSET Roots
    BY <1>14 DEF Updated, TypeOK
  <2> QED
    BY <1>0, <1>14, <2>1, ExitType, GatesFreed DEF Updated, Exit, TypeOK
<1>15. ASSUME NEW l \in Launchers, Restore(l), proc[l].old \in Versions PROVE TypeOK'
  <2>1. package' \in [Roots -> Versions \cup {Absent}]
    BY <1>15 DEF Restore, Restored, TypeOK
  <2> QED
    BY <1>0, <1>15, <2>1, ExitType, GatesFreed DEF Restore, Exit, TypeOK
<1>16. ASSUME NEW l \in Launchers, Crash(l), proc[l].phase \in Swapping => proc[l].old \in Versions
       PROVE  TypeOK'
  <2>1. lease' \in [Launchers -> SUBSET {"launcher", "child"}]
    BY <1>16 DEF Crash, TypeOK
  <2>2. backup' \in [Roots -> SUBSET Versions] /\ torn' \in SUBSET Roots
    BY <1>16 DEF Crash, TypeOK, ProcType
  <2> QED
    BY <1>0, <1>16, <2>1, <2>2, ExitType, GatesFreed DEF Crash, Exit, TypeOK
<1>17. ASSUME NEW l \in Launchers, \E command \in {"session", "update"}, r \in Roots, h \in Homes :
                Begin(l, command, r, h)
       PROVE  TypeOK'
  BY <1>2, <1>17
<1>18. ASSUME NEW l \in Launchers, AcquireHome(l) \/ AcquireRoot(l) PROVE TypeOK'
  <2>1. proc[l].home \in Gates /\ proc[l].root \in Gates
    BY DEF TypeOK, ProcType, Gates
  <2> QED
    BY <1>3, <1>18, <2>1 DEF AcquireHome, AcquireRoot
<1>19. ASSUME NEW l \in Launchers, Release(l) \/ LetGo(l) PROVE TypeOK'
  BY <1>8, <1>19 DEF Release, LetGo
<1>20. ASSUME NEW l \in Launchers, Updated(l) \/ Restore(l) \/ Crash(l) PROVE TypeOK'
  <2>1. proc[l].phase \in Swapping => proc[l].old \in Versions /\ proc[l].new \in Versions
    BY DEF Versioned, Replacing
  <2>2. Updated(l) \/ Restore(l) => proc[l].phase \in Swapping
    BY DEF Updated, Restore
  <2> QED
    BY <1>14, <1>15, <1>16, <1>20, <2>1, <2>2
<1> QED
  BY <1>1, <1>4, <1>5, <1>6, <1>7, <1>9, <1>10, <1>11, <1>13, <1>17, <1>18, <1>19, <1>20
     DEF Next

\* The steps that replace no package and start no child.
Quiet(l) ==
  \/ \E command \in {"session", "update"}, r \in Roots, h \in Homes : Begin(l, command, r, h)
  \/ AcquireHome(l) \/ AcquireRoot(l) \/ GiveUp(l) \/ Refuse(l) \/ Own(l) \/ SpawnFail(l)
  \/ Release(l) \/ Finish(l) \/ Brew(l) \/ LetGo(l) \/ StageFail(l) \/ SwapFail(l) \/ Updated(l) \/ Crash(l)
Rename(l) == SwapOut(l) \/ SwapIn(l) \/ CheckFail(l) \/ Restore(l)

\* What each step does to the process that takes it.
LEMMA Moves ==
  ASSUME TypeOK, NEW l \in Launchers
  PROVE  /\ Quiet(l) \/ Rename(l) \/ Spawn(l) \/ (\E v \in Versions : Stage(l, v)) =>
              \A k \in Launchers \ {l} : proc'[k] = proc[k]
         /\ Quiet(l) \/ Spawn(l) =>
              \/ proc'[l].phase \notin Replacing
              \/ proc'[l] = proc[l]
              \/ SwapFail(l) /\ proc[l].phase = "out" /\ proc'[l].phase = "undo"
                 /\ proc'[l].root = proc[l].root /\ proc'[l].old = proc[l].old /\ proc'[l].new = proc[l].new
         /\ Rename(l) =>
              /\ proc[l].phase \in Replacing
              /\ Restore(l) \/ proc'[l].phase \in Swapping
              /\ Restore(l) => proc'[l].phase = "off"
              /\ ~Restore(l) => proc'[l].root = proc[l].root /\ proc'[l].old = proc[l].old
                                /\ proc'[l].new = proc[l].new
         /\ \A v \in Versions : Stage(l, v) =>
              /\ proc'[l].phase = "staged" /\ proc'[l].root = proc[l].root
              /\ proc'[l].old = package[proc[l].root] /\ proc'[l].new = v
<1> USE DEF Phases, Swapping, Replacing
<1>1. ASSUME NEW command \in {"session", "update"}, NEW r \in Roots, NEW h \in Homes,
             Begin(l, command, r, h)
      PROVE  proc'[l].phase = "gates" /\ \A k \in Launchers \ {l} : proc'[k] = proc[k]
  BY <1>1 DEF Begin, Go, TypeOK
<1>2. AcquireHome(l) \/ AcquireRoot(l) => proc' = proc
  BY DEF AcquireHome, AcquireRoot, Acquire
<1>3. GiveUp(l) \/ Brew(l) \/ SpawnFail(l) \/ StageFail(l) \/ Finish(l) \/ Updated(l) \/ Restore(l) \/ Crash(l)
      => proc'[l].phase = "off" /\ \A k \in Launchers \ {l} : proc'[k] = proc[k]
  BY ExitType, IdleType DEF GiveUp, SpawnFail, Brew, StageFail, Finish, Updated, Restore, Crash
<1>4. Refuse(l) => proc'[l].phase = "refused" /\ \A k \in Launchers \ {l} : proc'[k] = proc[k]
  <2>1. [Idle EXCEPT !.phase = "refused"].phase = "refused"
    BY IdleType DEF ProcType
  <2> QED
    BY <2>1 DEF Refuse, Go, TypeOK
<1>5. /\ Own(l) => Step(l, "owned")
      /\ Spawn(l) => Step(l, "spawned")
      /\ Release(l) => Step(l, "running")
      /\ LetGo(l) => Step(l, "regates")
      /\ SwapOut(l) => Step(l, "out") /\ proc[l].phase = "staged"
      /\ SwapIn(l) => Step(l, "in") /\ proc[l].phase = "out"
      /\ SwapFail(l) => Step(l, "undo") /\ proc[l].phase = "out"
      /\ CheckFail(l) => Step(l, "undo") /\ proc[l].phase = "in"
  BY DEF Own, Spawn, Release, LetGo, SwapOut, SwapIn, SwapFail, CheckFail
<1>6. ASSUME NEW v \in Versions, Stage(l, v)
      PROVE  /\ proc'[l].phase = "staged" /\ proc'[l].root = proc[l].root
             /\ proc'[l].old = package[proc[l].root] /\ proc'[l].new = v
             /\ \A k \in Launchers \ {l} : proc'[k] = proc[k]
  <2> DEFINE p == [proc[l] EXCEPT !.phase = "staged", !.old = package[proc[l].root], !.new = v]
  <2>1. proc[l] \in ProcType
    BY DEF TypeOK
  <2>2. p.phase = "staged" /\ p.root = proc[l].root /\ p.old = package[proc[l].root] /\ p.new = v
    BY <2>1 DEF ProcType
  <2>3. proc' = [proc EXCEPT ![l] = p]
    BY <1>6 DEF Stage, Go
  <2> HIDE DEF p
  <2> QED
    BY <2>2, <2>3 DEF TypeOK
<1>7. Restore(l) => proc[l].phase \in Replacing
  BY DEF Restore
<1>8. Quiet(l) \/ Rename(l) \/ Spawn(l) \/ (\E v \in Versions : Stage(l, v)) =>
        \A k \in Launchers \ {l} : proc'[k] = proc[k]
  BY <1>1, <1>2, <1>3, <1>4, <1>5, <1>6, StepType DEF Quiet, Rename
<1>9. Quiet(l) \/ Spawn(l) =>
        \/ proc'[l].phase \notin Replacing
        \/ proc'[l] = proc[l]
        \/ SwapFail(l) /\ proc[l].phase = "out" /\ proc'[l].phase = "undo"
           /\ proc'[l].root = proc[l].root /\ proc'[l].old = proc[l].old /\ proc'[l].new = proc[l].new
  BY <1>1, <1>2, <1>3, <1>4, <1>5, StepType DEF Quiet
<1>10. Rename(l) =>
         /\ proc[l].phase \in Replacing
         /\ Restore(l) \/ proc'[l].phase \in Swapping
         /\ Restore(l) => proc'[l].phase = "off"
         /\ ~Restore(l) => proc'[l].root = proc[l].root /\ proc'[l].old = proc[l].old
                           /\ proc'[l].new = proc[l].new
  BY <1>3, <1>5, <1>7, StepType DEF Rename
<1> QED
  BY <1>6, <1>8, <1>9, <1>10

\* Only Own takes a launch past the owner check.
LEMMA QuietPhase ==
  ASSUME TypeOK, NEW l \in Launchers, Quiet(l), ~Own(l)
  PROVE  proc'[l].phase # "owned" \/ proc'[l] = proc[l]
<1> USE DEF Phases, Swapping
<1>1. ASSUME NEW command \in {"session", "update"}, NEW r \in Roots, NEW h \in Homes,
             Begin(l, command, r, h)
      PROVE  proc'[l].phase = "gates"
  BY <1>1 DEF Begin, Go, TypeOK
<1>2. AcquireHome(l) \/ AcquireRoot(l) => proc' = proc
  BY DEF AcquireHome, AcquireRoot, Acquire
<1>3. GiveUp(l) \/ Brew(l) \/ SpawnFail(l) \/ StageFail(l) \/ Finish(l) \/ Updated(l) \/ Crash(l)
      => proc'[l].phase = "off"
  BY ExitType, IdleType DEF GiveUp, SpawnFail, Brew, StageFail, Finish, Updated, Crash
<1>4. Refuse(l) => proc'[l].phase = "refused"
  <2>1. [Idle EXCEPT !.phase = "refused"].phase = "refused"
    BY IdleType DEF ProcType
  <2> QED
    BY <2>1 DEF Refuse, Go, TypeOK
<1>5. Release(l) \/ LetGo(l) \/ SwapFail(l) => proc'[l].phase # "owned"
  BY StepType DEF Release, LetGo, SwapFail
<1> QED
  BY <1>1, <1>2, <1>3, <1>4, <1>5 DEF Quiet

\* The phases of an updater change in one place only, so its versions stay known.
LEMMA VersionedStep == TypeOK /\ Versioned /\ [Next]_vars => Versioned'
<1> SUFFICES ASSUME TypeOK, Versioned, [Next]_vars PROVE Versioned'
  OBVIOUS
<1> USE DEF Versioned, Swapping, Replacing
<1>1. CASE UNCHANGED vars
  BY <1>1 DEF vars
<1>2. ASSUME NEW l \in Launchers, Quiet(l) \/ Spawn(l) \/ Rename(l) PROVE Versioned'
  BY <1>2, Moves
<1>3. ASSUME NEW l \in Launchers, NEW v \in Versions, Stage(l, v) PROVE Versioned'
  <2>1. package[proc[l].root] \in Versions
    BY <1>3 DEF Stage, TypeOK, ProcType
  <2> QED
    BY <1>3, <2>1, Moves
<1>4. ASSUME NEW l \in Launchers, ChildEnd(l) PROVE Versioned'
  BY <1>4 DEF ChildEnd
<1> QED
  BY <1>1, <1>2, <1>3, <1>4 DEF Next, Quiet, Rename

\* At most one process works on a root with its gate held.
LEMMA Exclusive ==
  ASSUME TypeOK, NEW l \in Launchers, NEW k \in Launchers,
         proc[l].phase \in Guarded, proc[k].phase \in Guarded, proc[l].root = proc[k].root
  PROVE  l = k
  BY DEF TypeOK

\* Every step keeps each running session's directory and lease.
LEMMA ProtectedStep == TypeOK /\ Protected /\ [Next]_vars => Protected'
<1> SUFFICES ASSUME TypeOK, Protected, [Next]_vars PROVE Protected'
  OBVIOUS
<1> USE DEF Protected, Leased, Unused, NeverSwappedUnderRun
<1>1. CASE UNCHANGED vars
  BY <1>1 DEF vars
<1>2. ASSUME NEW l \in Launchers, Quiet(l) PROVE Protected'
  <2>1. UNCHANGED <<package, child>>
    BY <1>2 DEF Quiet, Begin, AcquireHome, AcquireRoot, Acquire, GiveUp, Refuse, Own, SpawnFail,
                Release, Finish, Brew, LetGo, StageFail, SwapFail, Updated, Crash
  <2>2. \A k \in Launchers : "child" \in lease[k] => "child" \in lease'[k]
    <3>1. CASE UNCHANGED lease
      BY <3>1
    <3>2. CASE lease' = [lease EXCEPT ![l] = @ \ {"launcher"}]
      BY <3>2 DEF TypeOK
    <3> QED
      BY <1>2, <3>1, <3>2
         DEF Quiet, Begin, AcquireHome, AcquireRoot, Acquire, GiveUp, Refuse, Own, SpawnFail,
             Release, Finish, Brew, LetGo, StageFail, SwapFail, Updated, Crash
  <2>3. \A k \in Launchers : proc'[k].phase \in Replacing =>
          proc[k].phase \in Replacing /\ proc'[k].root = proc[k].root
    BY <1>2, Moves DEF Replacing, Swapping
  <2> QED
    BY <2>1, <2>2, <2>3
<1>3. ASSUME NEW l \in Launchers, Rename(l) PROVE Protected'
  <2>1. UNCHANGED <<child, lease>>
    BY <1>3 DEF Rename, SwapOut, SwapIn, CheckFail, Restore
  <2>2. proc[l].phase \in Replacing /\ \A r \in Roots \ {proc[l].root} : package'[r] = package[r]
    BY <1>3, Moves DEF Rename, SwapOut, SwapIn, CheckFail, Restore, TypeOK
  <2>3. \A k \in Launchers : proc'[k].phase \in Replacing =>
          proc[k].phase \in Replacing /\ proc'[k].root = proc[k].root
    BY <1>3, Moves DEF Replacing, Swapping
  <2>4. \A k \in Launchers : child[k].root \in Roots
    BY DEF TypeOK, ChildType
  <2> QED
    BY <2>1, <2>2, <2>3, <2>4
<1>4. ASSUME NEW l \in Launchers, NEW v \in Versions, Stage(l, v) PROVE Protected'
  <2>1. UNCHANGED <<package, child, lease>>
    BY <1>4 DEF Stage
  <2>2. ASSUME NEW k \in Launchers, child[k].running PROVE child[k].root # proc[l].root
    BY <1>4, <2>2 DEF Stage, NoRuns, ActiveRuns, Runs
  <2> QED
    BY <1>4, <2>1, <2>2, Moves
<1>5. ASSUME NEW l \in Launchers, Spawn(l) PROVE Protected'
  <2>1. /\ UNCHANGED package /\ proc[l].phase \in Guarded
        /\ child'[l].root = proc[l].root /\ child'[l].version = package[proc[l].root]
        /\ \A k \in Launchers \ {l} : child'[k] = child[k]
    BY <1>5 DEF Spawn, TypeOK, Guarded
  <2>2. "child" \in lease'[l] /\ \A k \in Launchers \ {l} : lease'[k] = lease[k]
    BY <1>5 DEF Spawn, TypeOK
  <2>3. \A k \in Launchers : proc'[k].phase \in Replacing => k # l /\ proc'[k] = proc[k]
    BY <1>5, StepType, Moves DEF Spawn, Phases, Replacing, Swapping
  <2>4. \A k \in Launchers : proc[k].phase \in Replacing /\ k # l => proc[k].root # proc[l].root
    BY <2>1, Exclusive DEF Replacing, Guarded
  <2>5. Leased' /\ NeverSwappedUnderRun'
    BY <2>1, <2>2
  <2>6. ASSUME NEW k \in Launchers, NEW j \in Launchers, proc'[k].phase \in Replacing,
               child'[j].running
        PROVE  child'[j].root # proc'[k].root
    <3>1. k # l /\ proc[k].phase \in Replacing /\ proc'[k].root = proc[k].root
      BY <2>3, <2>6
    <3>2. CASE j = l
      BY <2>1, <2>4, <3>1, <3>2
    <3>3. CASE j # l
      BY <2>1, <2>6, <3>1, <3>3
    <3> QED
      BY <3>2, <3>3
  <2> QED
    BY <2>5, <2>6
<1>6. ASSUME NEW l \in Launchers, ChildEnd(l) PROVE Protected'
  <2>1. UNCHANGED <<package, proc>>
        /\ \A k \in Launchers \ {l} : child'[k] = child[k] /\ lease'[k] = lease[k]
    BY <1>6 DEF ChildEnd, TypeOK
  <2>2. child'[l].running = FALSE
    BY <1>6, IdleType DEF ChildEnd, TypeOK
  <2> QED
    BY <2>1, <2>2
<1> QED
  BY <1>1, <1>2, <1>3, <1>4, <1>5, <1>6 DEF Next, Quiet, Rename

\* Every step keeps the owner record of a data directory in agreement with its sessions.
LEMMA OwnedStep == TypeOK /\ Protected /\ Owned /\ [Next]_vars => Owned'
<1> SUFFICES ASSUME TypeOK, Protected, Owned, [Next]_vars PROVE Owned'
  OBVIOUS
<1> USE DEF Owned
<1>1. CASE UNCHANGED vars
  BY <1>1 DEF vars
<1>2. ASSUME NEW l \in Launchers, UNCHANGED <<owner, child>>, proc'[l].phase # "owned" \/ proc'[l] = proc[l],
             \A k \in Launchers \ {l} : proc'[k] = proc[k]
      PROVE  Owned'
  BY <1>2
<1>3. ASSUME NEW l \in Launchers, Own(l) PROVE Owned'
  <2> DEFINE h == proc[l].home
  <2>1. owner' = [owner EXCEPT ![h] = Mine(l)] /\ Mine(l).root = proc[l].root /\ h \in Homes
    BY <1>3 DEF Own, Mine, TypeOK, ProcType
  <2>2. proc'[l].home = h /\ proc'[l].root = proc[l].root /\ \A k \in Launchers \ {l} : proc'[k] = proc[k]
    BY <1>3, StepType DEF Own, Phases
  <2>3. owner'[h].root = proc[l].root /\ \A g \in Homes \ {h} : owner'[g] = owner[g]
    BY <2>1 DEF TypeOK
  <2>4. ASSUME NEW k \in Launchers, child[k].running, child[k].home = h
        PROVE  owner[h] = Mine(l)
    <3>1. k \in Runs(h)
      BY <2>4 DEF Runs, Protected, Leased
    <3> QED
      BY <1>3, <3>1 DEF Own, ActiveRuns, Foreign
  <2>5. ASSUME NEW k \in Launchers \ {l}, proc[k].phase = "owned" PROVE proc[k].home # h
    BY <1>3, <2>5 DEF Own, HasGates, TypeOK, Guarded
  <2>6. UNCHANGED child /\ \A k \in Launchers : child[k].home \in Homes /\ proc[k].home \in Homes
    BY <1>3 DEF Own, TypeOK, ChildType, ProcType
  <2>7. ASSUME NEW k \in Launchers, child'[k].running
        PROVE  owner'[child'[k].home].root = child'[k].root
    <3>1. CASE child[k].home = h
      BY <2>1, <2>3, <2>4, <2>6, <2>7, <3>1
    <3>2. CASE child[k].home # h
      BY <2>3, <2>6, <2>7, <3>2
    <3> QED
      BY <3>1, <3>2
  <2>8. ASSUME NEW k \in Launchers, proc'[k].phase = "owned"
        PROVE  owner'[proc'[k].home].root = proc'[k].root
    <3>1. CASE k = l
      BY <2>2, <2>3, <3>1
    <3>2. CASE k # l
      BY <2>2, <2>3, <2>5, <2>6, <2>8, <3>2
    <3> QED
      BY <3>1, <3>2
  <2> QED
    BY <2>7, <2>8
<1>4. ASSUME NEW l \in Launchers, Spawn(l) PROVE Owned'
  <2>1. /\ UNCHANGED owner /\ proc[l].phase = "owned"
        /\ child'[l].root = proc[l].root /\ child'[l].home = proc[l].home
        /\ \A k \in Launchers \ {l} : child'[k] = child[k]
    BY <1>4 DEF Spawn, TypeOK
  <2>2. proc'[l].phase = "spawned" /\ \A k \in Launchers \ {l} : proc'[k] = proc[k]
    BY <1>4, StepType DEF Spawn, Phases
  <2> QED
    BY <2>1, <2>2
<1>5. ASSUME NEW l \in Launchers, ChildEnd(l) PROVE Owned'
  <2>1. UNCHANGED <<owner, proc>> /\ \A k \in Launchers \ {l} : child'[k] = child[k]
    BY <1>5 DEF ChildEnd, TypeOK
  <2>2. child'[l].running = FALSE
    BY <1>5, IdleType DEF ChildEnd, TypeOK
  <2> QED
    BY <2>1, <2>2
<1>6. ASSUME NEW l \in Launchers, Quiet(l) \/ Rename(l) \/ (\E v \in Versions : Stage(l, v)), ~Own(l)
      PROVE  Owned'
  <2>1. UNCHANGED <<owner, child>>
    BY <1>6 DEF Quiet, Rename, Begin, AcquireHome, AcquireRoot, Acquire, GiveUp, Refuse, SpawnFail,
                Release, Finish, Brew, LetGo, StageFail, SwapFail, Updated, Crash, Stage, SwapOut, SwapIn,
                CheckFail, Restore
  <2>2. proc'[l].phase # "owned" \/ proc'[l] = proc[l]
    <3>1. Quiet(l) => proc'[l].phase # "owned" \/ proc'[l] = proc[l]
      BY <1>6, QuietPhase
    <3>2. Rename(l) \/ (\E v \in Versions : Stage(l, v)) => proc'[l].phase # "owned"
      BY Moves DEF Rename, Swapping
    <3> QED
      BY <1>6, <3>1, <3>2
  <2> QED
    BY <1>2, <1>6, <2>1, <2>2, Moves
<1> QED
  BY <1>1, <1>3, <1>4, <1>5, <1>6 DEF Next, Quiet, Rename

\* The effects of the steps of an update on the packages.
LEMMA UpdateEffects ==
  ASSUME TypeOK, NEW l \in Launchers
  PROVE  /\ Rename(l) => /\ UNCHANGED <<backup, good, torn>>
                         /\ \A r \in Roots \ {proc[l].root} : package'[r] = package[r]
         /\ Restore(l) => package'[proc[l].root] = proc[l].old /\ proc[l].phase = "undo"
         /\ SwapIn(l) => package'[proc[l].root] = proc[l].new /\ proc'[l].phase = "in"
         /\ SwapOut(l) \/ CheckFail(l) => proc'[l].phase \in {"out", "undo"}
         /\ Updated(l) =>
              /\ proc[l].phase = "in" /\ UNCHANGED package /\ proc'[l].phase = "off"
              /\ good'[proc[l].root] = proc[l].new
              /\ \A r \in Roots \ {proc[l].root} : good'[r] = good[r]
              /\ \A r \in Roots : backup[r] \subseteq backup'[r]
              /\ torn' = torn \ {proc[l].root}
         /\ Crash(l) =>
              /\ UNCHANGED <<package, good>> /\ proc'[l].phase = "off"
              /\ \A r \in Roots : backup[r] \subseteq backup'[r]
              /\ proc[l].phase \notin Swapping => torn' = torn
              /\ proc[l].phase \in Swapping =>
                   torn' = torn \cup {proc[l].root} /\ proc[l].old \in backup'[proc[l].root]
<1>0. proc[l].root \in Roots
  BY DEF TypeOK, ProcType
<1>1. Rename(l) => /\ UNCHANGED <<backup, good, torn>>
                   /\ \A r \in Roots \ {proc[l].root} : package'[r] = package[r]
  BY <1>0 DEF Rename, SwapOut, SwapIn, CheckFail, Restore, TypeOK
<1>2. Restore(l) => package'[proc[l].root] = proc[l].old /\ proc[l].phase = "undo"
  BY <1>0 DEF Restore, Restored, TypeOK
<1>3. SwapIn(l) => package'[proc[l].root] = proc[l].new /\ proc'[l].phase = "in"
  BY <1>0, StepType DEF SwapIn, Phases, Swapping, TypeOK
<1>4. SwapOut(l) \/ CheckFail(l) => proc'[l].phase \in {"out", "undo"}
  BY StepType DEF SwapOut, CheckFail, Phases, Swapping
<1>5. Updated(l) \/ Crash(l) => proc'[l].phase = "off" /\ UNCHANGED package
  BY ExitType, IdleType DEF Updated, Crash
<1>6. Updated(l) =>
        /\ proc[l].phase = "in" /\ good'[proc[l].root] = proc[l].new
        /\ \A r \in Roots \ {proc[l].root} : good'[r] = good[r]
        /\ \A r \in Roots : backup[r] \subseteq backup'[r]
        /\ torn' = torn \ {proc[l].root}
  BY <1>0 DEF Updated, TypeOK
<1>7. Crash(l) /\ proc[l].phase \notin Swapping =>
        /\ UNCHANGED good /\ torn' = torn
        /\ \A r \in Roots : backup[r] \subseteq backup'[r]
  BY <1>0 DEF Crash, TypeOK
<1>8. Crash(l) /\ proc[l].phase \in Swapping =>
        /\ UNCHANGED good /\ torn' = torn \cup {proc[l].root}
        /\ \A r \in Roots : backup[r] \subseteq backup'[r]
        /\ proc[l].old \in backup'[proc[l].root]
  BY <1>0 DEF Crash, TypeOK
<1> QED
  BY <1>1, <1>2, <1>3, <1>4, <1>5, <1>6, <1>7, <1>8

\* The steps that touch neither a package nor the record of what was installed.
Calm(l) == (Quiet(l) /\ ~Updated(l) /\ ~Crash(l)) \/ Spawn(l)

\* An updater between its renames leaves them only by a rename, its end or its death.
LEMMA CalmSteps ==
  ASSUME TypeOK, NEW l \in Launchers, Calm(l)
  PROVE  /\ UNCHANGED <<package, backup, good, torn>>
         /\ proc[l].phase \in Swapping => SwapFail(l) \/ proc' = proc
<1>1. UNCHANGED <<package, backup, good, torn>>
  BY DEF Calm, Quiet, Begin, AcquireHome, AcquireRoot, Acquire, GiveUp, Refuse, Own, SpawnFail,
         Release, Finish, Brew, LetGo, StageFail, SwapFail, Spawn
<1>2. proc[l].phase \in Swapping => SwapFail(l) \/ proc' = proc
  BY DEF Calm, Quiet, Begin, AcquireHome, AcquireRoot, Acquire, GiveUp, Refuse, Own, SpawnFail,
         Release, Finish, Brew, LetGo, StageFail, Spawn, Swapping, Waiting
<1> QED
  BY <1>1, <1>2

\* Through every step the last good version stays in place, in the hands of the updater
\* that moved it away, or in the backup directory a killed updater left.
LEMMA KeptStep == TypeOK /\ Versioned /\ Kept /\ [Next]_vars => Kept'
<1> SUFFICES ASSUME TypeOK, Versioned, Kept, [Next]_vars PROVE Kept'
  OBVIOUS
<1> USE DEF Kept, Restores
<1>0. /\ \A k \in Launchers : proc[k].root \in Roots
      /\ torn \subseteq Roots
  BY DEF TypeOK, ProcType
<1>1. CASE UNCHANGED vars
  BY <1>1 DEF vars
<1>2. ASSUME NEW l \in Launchers, Calm(l) PROVE Kept'
  <2>1. UNCHANGED <<package, backup, good, torn>>
    BY <1>2, CalmSteps
  <2>2. \A k \in Launchers \ {l} : proc'[k] = proc[k]
    BY <1>2, Moves DEF Calm
  <2>3. \/ proc[l].phase \notin Swapping /\ proc'[l].phase \notin Replacing
        \/ proc'[l] = proc[l]
        \/ /\ proc[l].phase = "out" /\ proc'[l].phase = "undo"
           /\ proc'[l].root = proc[l].root /\ proc'[l].old = proc[l].old
    <3>1. CASE SwapFail(l)
      BY <3>1, StepType DEF SwapFail, Phases, Swapping
    <3>2. CASE ~SwapFail(l)
      BY <1>2, <3>2, CalmSteps, Moves DEF Calm
    <3> QED
      BY <3>1, <3>2
  <2> QED
    BY <2>1, <2>2, <2>3 DEF Replacing, Swapping
<1>3. ASSUME NEW l \in Launchers, NEW v \in Versions, Stage(l, v) PROVE Kept'
  <2>1. UNCHANGED <<package, backup, good, torn>> /\ proc[l].phase = "regates"
    BY <1>3 DEF Stage
  <2>2. /\ \A k \in Launchers \ {l} : proc'[k] = proc[k]
        /\ proc'[l].phase = "staged" /\ proc'[l].root = proc[l].root
        /\ proc'[l].old = package[proc[l].root]
    BY <1>3, Moves
  <2> QED
    BY <2>1, <2>2 DEF Swapping
<1>4. ASSUME NEW l \in Launchers, Rename(l) PROVE Kept'
  <2> DEFINE r == proc[l].root
  <2>1. /\ UNCHANGED <<backup, good, torn>> /\ proc[l].phase \in Replacing
        /\ \A s \in Roots \ {r} : package'[s] = package[s]
        /\ \A k \in Launchers \ {l} : proc'[k] = proc[k]
    BY <1>4, Moves, UpdateEffects
  <2>2. \A k \in Launchers \ {l} : proc[k].phase \in Replacing => proc[k].root # r
    BY <2>1, Exclusive DEF Replacing, Guarded
  <2>3. r \notin torn => proc[l].old = good[r]
    <3>1. CASE proc[l].phase \in Swapping
      BY <3>1
    <3>2. CASE proc[l].phase = "staged" /\ r \notin torn
      <4>1. package[r] = good[r]
        BY <1>0, <2>2, <3>2 DEF Replacing, Swapping
      <4> QED
        BY <3>2, <4>1
    <3> QED
      BY <2>1, <3>1, <3>2 DEF Replacing
  <2>4. CASE Restore(l)
    <3>1. package'[r] = proc[l].old /\ proc'[l].phase = "off"
      BY <1>4, <2>4, Moves, UpdateEffects
    <3>2. ASSUME NEW k \in Launchers, proc'[k].phase \in Replacing
          PROVE  k # l /\ proc'[k] = proc[k] /\ package'[proc[k].root] = package[proc[k].root]
      BY <1>0, <2>1, <2>2, <3>1, <3>2 DEF Replacing, Swapping
    <3>3. Restores'
      BY <2>1, <2>3, <3>1
    <3> QED
      BY <2>1, <3>2, <3>3 DEF Replacing, Swapping
  <2>5. CASE ~Restore(l)
    <3>1. proc'[l].phase \in Swapping /\ proc'[l].root = r /\ proc'[l].old = proc[l].old
          /\ proc'[l].new = proc[l].new
      BY <1>4, <2>5, Moves
    <3>2. proc'[l].phase = "in" => package'[r] = proc[l].new
      BY <1>4, <2>5, UpdateEffects DEF Rename
    <3>3. ASSUME NEW k \in Launchers \ {l}, proc'[k].phase \in Replacing
          PROVE  proc'[k] = proc[k] /\ package'[proc[k].root] = package[proc[k].root]
      BY <1>0, <2>1, <2>2, <3>3
    <3>4. Restores'
      BY <2>1, <3>1
    <3>5. proc'[l].phase # "staged"
      BY <3>1 DEF Swapping
    <3> QED
      BY <2>1, <2>3, <3>1, <3>2, <3>3, <3>4, <3>5 DEF Replacing, Swapping
  <2> QED
    BY <2>4, <2>5
<1>5. ASSUME NEW l \in Launchers, Updated(l) PROVE Kept'
  <2> DEFINE r == proc[l].root
  <2>1. /\ proc[l].phase = "in" /\ UNCHANGED package /\ proc'[l].phase = "off"
        /\ good'[r] = proc[l].new /\ torn' = torn \ {r}
        /\ \A s \in Roots \ {r} : good'[s] = good[s]
        /\ \A s \in Roots : backup[s] \subseteq backup'[s]
    BY <1>5, UpdateEffects
  <2>2. \A k \in Launchers \ {l} : proc'[k] = proc[k]
    BY <1>5, Moves DEF Quiet
  <2>3. \A k \in Launchers \ {l} : proc[k].phase \in Replacing => proc[k].root # r
    BY <2>1, Exclusive DEF Replacing, Guarded, Swapping
  <2>4. package[r] = good'[r]
    BY <2>1
  <2>5. \A s \in torn' : good'[s] \in backup'[s]
    BY <1>0, <2>1
  <2>6. Restores'
    BY <1>0, <2>1, <2>2, <2>4
  <2>7. ASSUME NEW k \in Launchers, proc'[k].phase \in Replacing
        PROVE  k # l /\ proc'[k] = proc[k] /\ proc[k].root \in Roots \ {r}
    BY <1>0, <2>1, <2>2, <2>3, <2>7 DEF Replacing, Swapping
  <2> QED
    BY <2>1, <2>5, <2>6, <2>7 DEF Replacing, Swapping
<1>6. ASSUME NEW l \in Launchers, Crash(l) PROVE Kept'
  <2> DEFINE r == proc[l].root
  <2>1. /\ UNCHANGED <<package, good>> /\ proc'[l].phase = "off"
        /\ \A s \in Roots : backup[s] \subseteq backup'[s]
        /\ proc[l].phase \notin Swapping => torn' = torn
        /\ proc[l].phase \in Swapping => torn' = torn \cup {r} /\ proc[l].old \in backup'[r]
    BY <1>6, UpdateEffects
  <2>2. \A k \in Launchers \ {l} : proc'[k] = proc[k]
    BY <1>6, Moves DEF Quiet
  <2>3. \A s \in torn' : good'[s] \in backup'[s]
    BY <1>0, <2>1
  <2>4. Restores'
    BY <1>0, <2>1, <2>2
  <2>5. torn \subseteq torn'
    BY <2>1
  <2> QED
    BY <2>1, <2>2, <2>3, <2>4, <2>5 DEF Swapping
<1>7. ASSUME NEW l \in Launchers, ChildEnd(l) PROVE Kept'
  BY <1>7 DEF ChildEnd
<1> QED
  BY <1>1, <1>2, <1>3, <1>4, <1>5, <1>6, <1>7 DEF Next, Quiet, Rename, Calm

\* Initially nothing runs, nothing is being replaced and every package is the good one.
LEMMA InitInv == Init => IInv
<1> SUFFICES ASSUME Init PROVE IInv
  OBVIOUS
<1>1. TypeOK
  BY InitType
<1>2. \A l \in Launchers : proc[l] = Idle /\ proc[l].phase = "off" /\ ~child[l].running
  BY IdleType DEF Init
<1>3. package = good /\ torn = {}
  BY DEF Init
<1> QED
  BY <1>1, <1>2, <1>3
     DEF IInv, Versioned, Protected, Leased, Unused, NeverSwappedUnderRun, Owned, Kept, Restores,
         Replacing, Swapping

\* The invariant the theorems rest on.
THEOREM Inductive == Spec => []IInv
<1>1. Init => IInv
  BY InitInv
<1>2. IInv /\ [Next]_vars => IInv'
  BY TypeStep, VersionedStep, ProtectedStep, OwnedStep, KeptStep DEF IInv
<1> QED
  BY <1>1, <1>2, PTL DEF Spec

\* Every variable keeps its type, and a launch or an update past its waits holds the gates
\* of its data directory and of its installation (scripts/standalone.mjs).
THEOREM TypeCorrect == Spec => []TypeOK
<1>1. IInv => TypeOK
  BY DEF IInv
<1> QED
  BY <1>1, Inductive, PTL

\* No update replaces or removes the program directory of a running session, even one
\* whose launcher was killed: the leases the child inherited keep the updater out.
THEOREM RunsAreProtected == Spec => []NeverSwappedUnderRun
<1>1. IInv => NeverSwappedUnderRun
  BY DEF IInv, Protected
<1> QED
  BY <1>1, Inductive, PTL

\* All sessions running on one data directory are of one installation and one version.
THEOREM HomesAgree == Spec => []OnePackagePerHome
<1>1. IInv => OnePackagePerHome
  BY DEF IInv, Protected, NeverSwappedUnderRun, Owned, OnePackagePerHome
<1> QED
  BY <1>1, Inductive, PTL

\* An update that fails at any step before its end leaves the old application in place.
THEOREM UpdatesRestore == Spec => []Restores
<1>1. IInv => Restores
  BY DEF IInv, Kept
<1> QED
  BY <1>1, Inductive, PTL

\* Whatever fails or is killed, the last good version is in place, in the hands of the
\* updater that moved it, or in a backup directory.
THEOREM NothingIsLost == Spec => []NothingLost
<1>1. ASSUME IInv PROVE NothingLost
  <2> SUFFICES ASSUME NEW r \in Roots
               PROVE  \/ package[r] = good[r] \/ good[r] \in backup[r]
                      \/ \E l \in Launchers : /\ proc[l].phase \in Swapping /\ proc[l].root = r
                                              /\ proc[l].old = good[r]
    BY DEF NothingLost
  <2>1. CASE r \in torn
    BY <1>1, <2>1 DEF IInv, Kept
  <2>2. CASE r \notin torn /\ \E l \in Launchers : proc[l].phase \in Swapping /\ proc[l].root = r
    BY <1>1, <2>2 DEF IInv, Kept
  <2>3. CASE r \notin torn /\ \A l \in Launchers : proc[l].phase \in Swapping => proc[l].root # r
    BY <1>1, <2>3 DEF IInv, Kept, Restores
  <2> QED
    BY <2>1, <2>2, <2>3
<1> QED
  BY <1>1, Inductive, PTL
=============================================================================
