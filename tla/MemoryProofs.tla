----------------------------- MODULE MemoryProofs -----------------------------
(***************************************************************************)
(* What the long-term memory guarantees for every set of processes and     *)
(* sessions: nothing of the sessions before a clear is kept, published or  *)
(* written.  At the end, the same for the session cards (SessionCards).    *)
(***************************************************************************)
EXTENDS MemoryPipeline, SessionCards, TLAPS

\* A run has a session in hand between its listing and its commit.
InHand == {"ask", "relist", "check", "save"}
Listed == InHand \cup {"extract"}
Merging == {"merge", "publish", "write"}
Handed(r) == r.stage \in InHand => r.item \in Sessions

\* Nothing of a run is of a session before a clear.
Clean(r) ==
  /\ r.stage \in Listed => \A s \in Sessions : r.todo[s] # None => ~session[s].forgotten
  /\ r.stage \in Merging => ~Shows(r.input)

\* A run that still has the lease, or is past its last check, is clean.
Guarded(p) == lease.owner = p \/ Committing(p) => Clean(run[p])

Unlearned == \A s \in Sessions : session[s].forgotten => store.memory[s] = None
Cleared ==
  /\ Unlearned /\ ~Shows(snapshot) /\ (Shows(files) => wiping)
  /\ \A p \in Processes : Guarded(p)

\* Revisions and notes are counted as changes.
Counted == store.notes <= changes /\ \A s \in Sessions : session[s].revision <= changes

IInv ==
  /\ TypeOK /\ Counted
  /\ \A p \in Processes : Handed(run[p])
  /\ overtaken \/ Cleared

LEMMA Bounds ==
  /\ MaxChanges \in Nat /\ MaxFaults \in Nat
  /\ Nobody \notin Processes /\ Gone \notin Processes /\ Nobody # Gone /\ None \notin Nat
BY MemoryAssumption

USE Bounds

Leases == [owner : Processes \cup {Nobody, Gone}, expired : BOOLEAN]
Stores == [jobs : Memories, memory : Memories, notes : 0..MaxChanges, fingerprint : Inputs \cup {None}]
OneSession == [created : BOOLEAN, revision : Revisions, active : BOOLEAN, enabled : BOOLEAN, forgotten : BOOLEAN]

LEMMA Nothing ==
  /\ Empty \in Memories /\ Free \in Leases /\ Free.owner = Nobody
  /\ EmptyStore \in Stores /\ EmptyStore.notes = 0 /\ \A s \in Sessions : EmptyStore.memory[s] = None
  /\ Idle \in Runs /\ Handed(Idle) /\ Clean(Idle) /\ Idle.stage = "idle"
<1>1. Empty \in Memories
  BY DEF Empty, Memories
<1>2. EmptyStore \in Stores /\ EmptyStore.notes = 0 /\ \A s \in Sessions : EmptyStore.memory[s] = None
  BY <1>1 DEF EmptyStore, Stores, Empty
<1>3. Idle \in Runs /\ Idle.stage = "idle"
  BY <1>1 DEF Idle, Runs, Stages
<1> QED
  BY <1>1, <1>2, <1>3 DEF Free, Leases, Handed, Clean, InHand, Listed, Merging

LEMMA Initially == Init => IInv
<1> SUFFICES ASSUME Init PROVE IInv
  OBVIOUS
<1>1. /\ store \in Stores /\ store.notes = 0 /\ store.memory = EmptyStore.memory
      /\ lease \in Leases /\ lease.owner = Nobody
      /\ run \in [Processes -> Runs] /\ \A p \in Processes : run[p] = Idle
  BY Nothing DEF Init
<1>2. /\ session \in [Sessions -> OneSession]
      /\ \A s \in Sessions : session[s].revision = 0 /\ ~session[s].forgotten
  <2>1. session \in [Sessions -> [created : BOOLEAN, revision : {0}, active : {FALSE},
                                  enabled : {TRUE}, forgotten : {FALSE}]]
    BY DEF Init
  <2>2. 0 \in Revisions
    BY DEF Revisions
  <2> QED
    BY <2>1, <2>2 DEF OneSession
<1>5. TypeOK
  <2>1. changes \in 0..MaxChanges /\ faults \in 0..MaxFaults
    BY DEF Init
  <2>2. /\ generate \in BOOLEAN /\ wiping \in BOOLEAN /\ overtaken \in BOOLEAN
        /\ snapshot \in Inputs \cup {None} /\ files \in Inputs \cup {None}
    BY DEF Init
  <2> QED
    BY <1>1, <1>2, <2>1, <2>2 DEF TypeOK, Stores, Leases, OneSession
<1>6. Counted
  BY <1>1, <1>2 DEF Init, Counted
<1>3. \A p \in Processes : Handed(run[p]) /\ Clean(run[p])
  BY <1>1, Nothing
<1>4. Unlearned /\ ~Shows(snapshot) /\ ~Shows(files)
  BY DEF Init, Unlearned, Shows
<1> QED
  BY <1>3, <1>4, <1>5, <1>6 DEF IInv, Cleared, Guarded

-----------------------------------------------------------------------------
\* A step of the run of p, which becomes r

Paces(p, r) ==
  /\ run' = [run EXCEPT ![p] = r]
  /\ lease' \in Leases /\ \A q \in Processes \ {p} : lease'.owner = q => lease.owner = q
  /\ Kept /\ faults' \in 0..MaxFaults

\* What it makes of the store, the snapshot and the files.
Leaves_ ==
  /\ store' \in Stores /\ store'.notes = store.notes
  /\ snapshot' \in Inputs \cup {None} /\ files' \in Inputs \cup {None}
  /\ overtaken \/ (Unlearned' /\ ~Shows(snapshot)' /\ (Shows(files)' => wiping))

LEMMA Paced ==
  ASSUME IInv, NEW p \in Processes, NEW r \in Runs, Handed(r), Paces(p, r), Leaves_,
         overtaken \/ (lease'.owner = p \/ r.stage \in {"save", "publish", "write"} => Clean(r))
  PROVE  IInv'
<1>1. /\ run \in [Processes -> Runs] /\ run' \in [Processes -> Runs] /\ run'[p] = r
      /\ \A q \in Processes \ {p} : run'[q] = run[q]
  BY DEF IInv, TypeOK, Paces
<1>2. UNCHANGED <<session, generate, wiping, changes, overtaken>>
  BY DEF Paces, Kept
<1>3. TypeOK'
  BY <1>1, <1>2 DEF IInv, TypeOK, Paces, Leaves_, Leases, Stores
<1>4. Counted'
  BY <1>2 DEF IInv, Counted, Leaves_
<1>5. \A q \in Processes : Handed(run[q])'
  BY <1>1 DEF IInv, Handed
<1>6. ASSUME ~overtaken PROVE Cleared'
  <2>1. Unlearned' /\ ~Shows(snapshot)' /\ (Shows(files)' => wiping')
    BY <1>2, <1>6 DEF Leaves_
  <2>2. Guarded(p)'
    BY <1>1, <1>2, <1>6 DEF Guarded, Committing, Clean, Shows
  <2>3. ASSUME NEW q \in Processes \ {p} PROVE Guarded(q)'
    <3>1. Guarded(q) /\ (lease'.owner = q => lease.owner = q)
      BY <1>6 DEF IInv, Cleared, Paces
    <3> QED
      BY <1>1, <1>2, <3>1 DEF Guarded, Committing, Clean, Shows
  <2> QED
    BY <2>1, <2>2, <2>3 DEF Cleared
<1> QED
  BY <1>2, <1>3, <1>4, <1>5, <1>6 DEF IInv

\* A step that leaves the store and the files alone.
LEMMA Untouched ==
  ASSUME IInv, UNCHANGED <<session, store, snapshot, files>>
  PROVE  Leaves_
<1>1. TypeOK /\ (overtaken \/ Cleared)
  BY DEF IInv
<1> QED
  BY <1>1 DEF Leaves_, TypeOK, Stores, Cleared, Unlearned, Shows

\* The lease stays, or is released by p.
LEMMA Leasing ==
  ASSUME IInv, NEW p \in Processes, lease' = lease \/ lease' = Released(p)
  PROVE  lease' \in Leases /\ \A q \in Processes : lease'.owner = q => lease.owner = q
BY Nothing DEF IInv, TypeOK, Leases, Released

\* A run that gives up.
LEMMA Ending ==
  ASSUME IInv, NEW p \in Processes, Finish(p), Kept, Leaves_, faults' \in 0..MaxFaults
  PROVE  IInv'
<1>1. lease' \in Leases /\ \A q \in Processes : lease'.owner = q => lease.owner = q
  BY Leasing DEF Finish
<1>2. PICK r : r = Idle
  OBVIOUS
<1>3. Paces(p, r)
  BY <1>1, <1>2 DEF Paces, Finish
<1>4. r \in Runs /\ Handed(r) /\ Clean(r)
  BY <1>2, Nothing
<1> QED
  BY <1>3, <1>4, Paced

\* What a run is before its step.
LEMMA Running ==
  ASSUME IInv, NEW p \in Processes
  PROVE  /\ run[p] \in Runs /\ Handed(run[p])
         /\ overtaken \/ (lease.owner = p \/ Committing(p) => Clean(run[p]))
         /\ faults \in 0..MaxFaults
         /\ run[p].todo \in Memories /\ run[p].input \in Inputs \cup {None}
<1>1. run[p] \in Runs
  BY DEF IInv, TypeOK
<1> QED
  BY <1>1 DEF IInv, TypeOK, Cleared, Guarded, Owns, Runs

\* A step that only brings the run on and keeps what it has, while p owns the lease.
LEMMA Going ==
  ASSUME IInv, NEW p \in Processes, NEW r \in Runs, Handed(r), Owns(p),
         run' = [run EXCEPT ![p] = r], UNCHANGED <<lease, snapshot, files>>, Kept,
         faults' \in 0..MaxFaults, Leaves_,
         Clean(run[p]) => Clean(r)
  PROVE  IInv'
<1>1. lease' \in Leases /\ \A q \in Processes : lease'.owner = q => lease.owner = q
  BY Leasing
<1>2. Paces(p, r)
  BY <1>1 DEF Paces
<1>3. overtaken \/ Clean(r)
  BY Running DEF Owns
<1> QED
  BY <1>2, <1>3, Paced

\* The next session of a run.
LEMMA Goes ==
  ASSUME NEW p, run[p] \in Runs, run[p].stage \in Listed, NEW s \in Sessions, NEW r, r = Next_(p, s)
  PROVE  r \in Runs /\ Handed(r) /\ (Clean(run[p]) => Clean(r))
<1>1. run[p].todo \in Memories
  BY DEF Runs
<1>2. PICK todo : todo = [run[p].todo EXCEPT ![s] = None]
  OBVIOUS
<1>3. todo \in Memories /\ \A w \in Sessions : todo[w] # None => run[p].todo[w] # None
  BY <1>1, <1>2 DEF Memories
<1>4. /\ r.stage = "extract" /\ r.todo = todo /\ r.item = None /\ r.same = run[p].same
      /\ r.input = run[p].input /\ r \in Runs
  BY <1>2, <1>3 DEF Next_, Runs, Stages
<1> QED
  BY <1>3, <1>4 DEF Handed, Clean, InHand, Listed, Merging

LEMMA StartSteps == ASSUME IInv, NEW p \in Processes, Start(p) PROVE IInv'
<1>1. PICK r : r = [run[p] EXCEPT !.stage = "list"]
  OBVIOUS
<1>2. run[p] \in Runs /\ faults \in 0..MaxFaults
  BY Running
<1>3. r \in Runs /\ r.stage = "list"
  BY <1>1, <1>2 DEF Runs, Stages
<1>4. Handed(r) /\ Clean(r)
  BY <1>3 DEF Handed, Clean, InHand, Listed, Merging
<1>5. lease' \in Leases /\ lease'.owner = p
  BY DEF Start, Leases
<1>6. run' = [run EXCEPT ![p] = r]
  BY <1>1, <1>2 DEF Start, IInv, TypeOK
<1>7. Paces(p, r) /\ Leaves_
  BY <1>2, <1>5, <1>6, Untouched DEF Paces, Start, Kept
<1> QED
  BY <1>3, <1>4, <1>7, Paced

LEMMA ListSteps == ASSUME IInv, NEW p \in Processes, List(p) PROVE IInv'
<1>1. PICK todo : todo = [s \in Sessions |-> IF Usable(s) THEN session[s].revision ELSE None]
  OBVIOUS
<1>2. todo \in Memories
  BY <1>1 DEF IInv, TypeOK, Memories
<1>3. \A s \in Sessions : todo[s] # None => ~session[s].forgotten
  BY <1>1 DEF Usable
<1>4. PICK r : r = [run[p] EXCEPT !.stage = "extract", !.todo = todo]
  OBVIOUS
<1>5. run[p] \in Runs /\ faults \in 0..MaxFaults
  BY Running
<1>6. r \in Runs /\ r.stage = "extract" /\ r.todo = todo
  BY <1>2, <1>4, <1>5 DEF Runs, Stages
<1>7. Handed(r) /\ Clean(r)
  BY <1>3, <1>6 DEF Handed, Clean, InHand, Listed, Merging
<1>8. run' = [run EXCEPT ![p] = r]
  BY <1>1, <1>4 DEF List, IInv, TypeOK
<1>9. lease' \in Leases /\ \A q \in Processes : lease'.owner = q => lease.owner = q
  BY Leasing DEF List
<1>10. Paces(p, r) /\ Leaves_
  BY <1>5, <1>8, <1>9, Untouched DEF Paces, List, Kept
<1> QED
  BY <1>6, <1>7, <1>10, Paced

LEMMA ExtractSteps == ASSUME IInv, NEW p \in Processes, NEW s \in Sessions, Extract(p, s) PROVE IInv'
<1>1. run[p] \in Runs /\ run[p].stage \in Listed /\ faults' \in 0..MaxFaults
  BY Running DEF Extract, At, Listed
<1>2. Leaves_ /\ Kept /\ UNCHANGED <<snapshot, files>>
  BY Untouched DEF Extract, Kept
<1>3. CASE ~Owns(p)
  BY <1>1, <1>2, <1>3, Ending DEF Extract
<1>4. CASE Owns(p) /\ store.jobs[s] # run[p].todo[s]
  <2>1. PICK r : r = [run[p] EXCEPT !.stage = "ask", !.item = s]
    OBVIOUS
  <2>2. r \in Runs /\ r.stage = "ask" /\ r.item = s /\ r.todo = run[p].todo
    BY <1>1, <2>1 DEF Runs, Stages
  <2>3. Handed(r) /\ (Clean(run[p]) => Clean(r))
    BY <1>1, <2>2 DEF Handed, Clean, InHand, Listed, Merging
  <2>4. run' = [run EXCEPT ![p] = r] /\ UNCHANGED lease
    BY <1>4, <2>1 DEF Extract, IInv, TypeOK
  <2> QED
    BY <1>1, <1>2, <1>4, <2>2, <2>3, <2>4, Going
<1>5. CASE Owns(p) /\ store.jobs[s] = run[p].todo[s]
  <2>1. PICK r : r = Next_(p, s)
    OBVIOUS
  <2>2. r \in Runs /\ Handed(r) /\ (Clean(run[p]) => Clean(r))
    BY <1>1, <2>1, Goes
  <2>3. run' = [run EXCEPT ![p] = r] /\ UNCHANGED lease
    BY <1>5, <2>1 DEF Extract
  <2> QED
    BY <1>1, <1>2, <1>5, <2>2, <2>3, Going
<1> QED
  BY <1>3, <1>4, <1>5

LEMMA AskedSteps == ASSUME IInv, NEW p \in Processes, Asked(p) PROVE IInv'
<1>1. run[p] \in Runs /\ run[p].stage = "ask" /\ Handed(run[p]) /\ faults' \in 0..MaxFaults
  BY Running DEF Asked, At
<1>2. Leaves_ /\ Kept /\ UNCHANGED <<snapshot, files>>
  BY Untouched DEF Asked, Kept
<1>3. CASE ~Owns(p)
  BY <1>1, <1>2, <1>3, Ending DEF Asked
<1>4. CASE Owns(p)
  <2>1. PICK r : r = [run[p] EXCEPT !.stage = "relist"]
    OBVIOUS
  <2>2. r \in Runs /\ r.stage = "relist" /\ r.item = run[p].item /\ r.todo = run[p].todo
    BY <1>1, <2>1 DEF Runs, Stages
  <2>3. Handed(r) /\ (Clean(run[p]) => Clean(r))
    BY <1>1, <2>2 DEF Handed, Clean, InHand, Listed, Merging
  <2>4. run' = [run EXCEPT ![p] = r] /\ UNCHANGED lease
    BY <1>4, <2>1 DEF Asked, IInv, TypeOK
  <2> QED
    BY <1>1, <1>2, <1>4, <2>2, <2>3, <2>4, Going
<1> QED
  BY <1>3, <1>4

\* What the store and the files are before a step.
LEMMA Storing ==
  ASSUME IInv
  PROVE  /\ store \in Stores /\ store.jobs \in Memories /\ store.memory \in Memories
         /\ store.notes \in 0..MaxChanges /\ snapshot \in Inputs \cup {None} /\ files \in Inputs \cup {None}
         /\ overtaken \/ (Unlearned /\ ~Shows(snapshot) /\ (Shows(files) => wiping))
         /\ session \in [Sessions -> OneSession]
BY DEF IInv, TypeOK, Stores, Cleared, OneSession

\* A job or a memory of one session is set.
LEMMA Saving ==
  ASSUME IInv, UNCHANGED <<session, snapshot, files>>, NEW s \in Sessions,
         NEW j \in Revisions \cup {None}, NEW m \in Revisions \cup {None},
         store' = [store EXCEPT !.jobs[s] = j, !.memory[s] = m],
         overtaken \/ (m # None => ~session[s].forgotten)
  PROVE  Leaves_
<1>1. PICK jobs : jobs = [store.jobs EXCEPT ![s] = j]
  OBVIOUS
<1>2. PICK memory : memory = [store.memory EXCEPT ![s] = m]
  OBVIOUS
<1>3. jobs \in Memories /\ memory \in Memories
  BY <1>1, <1>2, Storing DEF Memories
<1>4. store' = [store EXCEPT !.jobs = jobs, !.memory = memory]
  BY <1>1, <1>2, Storing DEF Stores
<1>5. store' \in Stores /\ store'.notes = store.notes /\ store'.memory = memory
  BY <1>3, <1>4, Storing DEF Stores
<1>6. overtaken \/ Unlearned'
  <2>1. ASSUME ~overtaken, NEW w \in Sessions, session[w].forgotten PROVE memory[w] = None
    <3>1. store.memory[w] = None
      BY <2>1, Storing DEF Unlearned
    <3> QED
      BY <1>2, <2>1, <3>1, Storing DEF Memories
  <2> QED
    BY <1>5, <2>1 DEF Unlearned
<1>7. overtaken \/ (~Shows(snapshot)' /\ (Shows(files)' => wiping))
  BY Storing DEF Shows
<1> QED
  BY <1>5, <1>6, <1>7, Storing DEF Leaves_

LEMMA AskFailsSteps == ASSUME IInv, NEW p \in Processes, AskFails(p) PROVE IInv'
<1>1. /\ run[p] \in Runs /\ run[p].stage = "ask" /\ Handed(run[p])
      /\ faults \in 0..MaxFaults /\ faults < MaxFaults /\ faults' = faults + 1
  BY Running DEF AskFails, At
<1>2. faults' \in 0..MaxFaults
  BY <1>1
<1>3. Kept /\ UNCHANGED <<session, snapshot, files>>
  BY DEF AskFails, Kept
<1>4. CASE ~Owns(p)
  <2>1. Finish(p) /\ UNCHANGED store
    BY <1>4 DEF AskFails
  <2> QED
    BY <1>2, <1>3, <2>1, Untouched, Ending
<1>5. CASE Owns(p)
  <2> DEFINE s == run[p].item
  <2>1. s \in Sessions /\ run[p].stage \in Listed
    BY <1>1 DEF Handed, InHand, Listed
  <2>2. PICK r : r = Next_(p, s)
    OBVIOUS
  <2>3. r \in Runs /\ Handed(r) /\ (Clean(run[p]) => Clean(r))
    BY <1>1, <2>1, <2>2, Goes
  <2>4. run' = [run EXCEPT ![p] = r] /\ UNCHANGED lease
    BY <1>5, <2>2 DEF AskFails
  <2>5. Leaves_
    <3>1. store' = [store EXCEPT !.jobs[s] = None]
      BY <1>5 DEF AskFails
    <3>2. PICK jobs : jobs = [store.jobs EXCEPT ![s] = None]
      OBVIOUS
    <3>3. jobs \in Memories
      BY <3>2, Storing DEF Memories
    <3>4. store' = [store EXCEPT !.jobs = jobs]
      BY <3>1, <3>2, Storing DEF Stores
    <3>5. store' \in Stores /\ store'.notes = store.notes /\ store'.memory = store.memory
      BY <3>3, <3>4, Storing DEF Stores
    <3> QED
      BY <1>3, <3>5, Storing DEF Leaves_, Unlearned, Shows
  <2> QED
    BY <1>2, <1>3, <1>5, <2>3, <2>4, <2>5, Going
<1> QED
  BY <1>4, <1>5

LEMMA RelistSteps == ASSUME IInv, NEW p \in Processes, Relist(p) PROVE IInv'
<1>1. /\ run[p] \in Runs /\ run[p].stage = "relist" /\ Handed(run[p]) /\ faults \in 0..MaxFaults
      /\ overtaken \/ (lease.owner = p => Clean(run[p]))
  BY Running DEF Relist, At
<1>2. PICK same \in BOOLEAN : same = (session[run[p].item].revision = run[p].todo[run[p].item])
  OBVIOUS
<1>3. PICK r : r = [run[p] EXCEPT !.stage = "check", !.same = same]
  OBVIOUS
<1>4. r \in Runs /\ r.stage = "check" /\ r.item = run[p].item /\ r.todo = run[p].todo
  BY <1>1, <1>3 DEF Runs, Stages
<1>5. Handed(r) /\ (Clean(run[p]) => Clean(r))
  BY <1>1, <1>4 DEF Handed, Clean, InHand, Listed, Merging
<1>6. run' = [run EXCEPT ![p] = r]
  BY <1>2, <1>3 DEF Relist, IInv, TypeOK
<1>7. lease' = lease /\ lease' \in Leases /\ \A q \in Processes : lease'.owner = q => lease.owner = q
  BY Leasing DEF Relist
<1>8. Paces(p, r) /\ Leaves_
  BY <1>1, <1>6, <1>7, Untouched DEF Paces, Relist, Kept
<1>9. r.stage \notin {"save", "publish", "write"}
  BY <1>4
<1> QED
  BY <1>1, <1>4, <1>5, <1>7, <1>8, <1>9, Paced

LEMMA CheckSteps == ASSUME IInv, NEW p \in Processes, Check(p) PROVE IInv'
<1>1. run[p] \in Runs /\ run[p].stage = "check" /\ Handed(run[p]) /\ faults' \in 0..MaxFaults
  BY Running DEF Check, At
<1>2. Leaves_ /\ Kept /\ UNCHANGED <<snapshot, files>>
  BY Untouched DEF Check, Kept
<1> DEFINE fit == run[p].same /\ session[run[p].item].enabled /\ ~session[run[p].item].active
<1>3. CASE ~Owns(p)
  BY <1>1, <1>2, <1>3, Ending DEF Check
<1>4. CASE Owns(p) /\ fit
  <2>1. PICK r : r = [run[p] EXCEPT !.stage = "save"]
    OBVIOUS
  <2>2. r \in Runs /\ r.stage = "save" /\ r.item = run[p].item /\ r.todo = run[p].todo
    BY <1>1, <2>1 DEF Runs, Stages
  <2>3. Handed(r) /\ (Clean(run[p]) => Clean(r))
    BY <1>1, <2>2 DEF Handed, Clean, InHand, Listed, Merging
  <2>4. run' = [run EXCEPT ![p] = r] /\ UNCHANGED lease
    BY <1>4, <2>1 DEF Check, IInv, TypeOK
  <2> HIDE DEF fit
  <2> QED
    BY <1>1, <1>2, <1>4, <2>2, <2>3, <2>4, Going
<1>5. CASE Owns(p) /\ ~fit
  <2>1. run[p].item \in Sessions /\ run[p].stage \in Listed
    BY <1>1 DEF Handed, InHand, Listed
  <2>2. PICK r : r = Next_(p, run[p].item)
    OBVIOUS
  <2>3. r \in Runs /\ Handed(r) /\ (Clean(run[p]) => Clean(r))
    BY <1>1, <2>1, <2>2, Goes
  <2>4. run' = [run EXCEPT ![p] = r] /\ UNCHANGED lease
    BY <1>5, <2>2 DEF Check, IInv, TypeOK
  <2> HIDE DEF fit
  <2> QED
    BY <1>1, <1>2, <1>5, <2>3, <2>4, Going
<1> QED
  BY <1>3, <1>4, <1>5

LEMMA SaveSteps == ASSUME IInv, NEW p \in Processes, Save(p) PROVE IInv'
<1> DEFINE s == run[p].item
<1>1. /\ run[p] \in Runs /\ run[p].stage = "save" /\ s \in Sessions /\ run[p].stage \in Listed
      /\ faults \in 0..MaxFaults /\ run[p].todo \in Memories
      /\ overtaken \/ Clean(run[p])
  BY Running DEF Save, At, Handed, InHand, Listed, Committing
<1>2. PICK memory \in {run[p].todo[s], None} :
        store' = [store EXCEPT !.jobs[s] = run[p].todo[s], !.memory[s] = memory]
  BY DEF Save
<1>3. run[p].todo[s] \in Revisions \cup {None} /\ memory \in Revisions \cup {None}
  BY <1>1, <1>2 DEF Memories
<1>4. overtaken \/ (memory # None => ~session[s].forgotten)
  BY <1>1, <1>2 DEF Clean
<1>5. UNCHANGED <<session, snapshot, files>>
  BY DEF Save, Kept
<1>6. Leaves_
  BY <1>1, <1>2, <1>3, <1>4, <1>5, Saving
<1>7. PICK r : r = Next_(p, s)
  OBVIOUS
<1>8. r \in Runs /\ Handed(r) /\ (Clean(run[p]) => Clean(r))
  BY <1>1, <1>7, Goes
<1>9. lease' \in Leases /\ \A q \in Processes : lease'.owner = q => lease.owner = q
  BY Leasing DEF Save
<1>10. Paces(p, r)
  BY <1>1, <1>7, <1>9 DEF Paces, Save, Kept
<1> QED
  BY <1>1, <1>6, <1>8, <1>10, Paced

\* What a run gathers to merge: nothing of a session before a clear.
LEMMA Gathered == ASSUME IInv PROVE Input \in Inputs /\ (overtaken \/ ~Shows(Input))
<1>1. PICK memory : memory = [s \in Sessions |-> IF session[s].enabled THEN store.memory[s] ELSE None]
  OBVIOUS
<1>2. memory \in Memories
  BY <1>1, Storing DEF Memories
<1>3. Input = [memory |-> memory, notes |-> store.notes]
  BY <1>1 DEF Input
<1>4. Input \in Inputs /\ Input.memory = memory
  BY <1>2, <1>3, Storing DEF Inputs
<1>5. ASSUME ~overtaken PROVE ~Shows(Input)
  BY <1>1, <1>4, <1>5, Storing DEF Shows, Unlearned
<1> QED
  BY <1>4, <1>5

LEMMA GatherSteps == ASSUME IInv, NEW p \in Processes, Gather(p) PROVE IInv'
<1>1. run[p] \in Runs /\ run[p].stage = "extract" /\ faults' \in 0..MaxFaults
  BY Running DEF Gather, At
<1>2. Leaves_ /\ Kept /\ UNCHANGED <<snapshot, files>>
  BY Untouched DEF Gather, Kept
<1>3. CASE ~Owns(p)
  BY <1>1, <1>2, <1>3, Ending DEF Gather
<1>4. ASSUME Owns(p), NEW stage \in {"write", "merge"}, NEW input \in Inputs \cup {None},
             run' = [run EXCEPT ![p] = [run[p] EXCEPT !.stage = stage, !.input = input]],
             UNCHANGED lease, overtaken \/ ~Shows(input)
      PROVE  IInv'
  <2>1. PICK r : r = [run[p] EXCEPT !.stage = stage, !.input = input]
    OBVIOUS
  <2>2. r \in Runs /\ r.stage = stage /\ r.input = input
    BY <1>1, <2>1 DEF Runs, Stages
  <2>3. Handed(r) /\ (overtaken \/ Clean(r))
    BY <1>4, <2>2 DEF Handed, Clean, InHand, Listed, Merging
  <2>4. lease' \in Leases /\ \A q \in Processes : lease'.owner = q => lease.owner = q
    BY <1>4, Leasing
  <2>5. Paces(p, r)
    BY <1>1, <1>2, <1>4, <2>1, <2>4 DEF Paces
  <2> QED
    BY <1>2, <2>2, <2>3, <2>5, Paced
<1>5. CASE Owns(p) /\ Input = store.fingerprint
  <2>1. UNCHANGED lease
    BY <1>5 DEF Gather
  <2>2. run' = [run EXCEPT ![p] = [run[p] EXCEPT !.stage = "write", !.input = snapshot]]
    BY <1>5 DEF Gather, IInv, TypeOK
  <2>3. PICK stage \in {"write", "merge"} : stage = "write"
    OBVIOUS
  <2>4. run' = [run EXCEPT ![p] = [run[p] EXCEPT !.stage = stage, !.input = snapshot]]
    BY <2>2, <2>3
  <2> QED
    BY <1>4, <1>5, <2>1, <2>4, Storing
<1>6. CASE Owns(p) /\ Input # store.fingerprint
  <2>1. UNCHANGED lease
    BY <1>6 DEF Gather
  <2>2. run' = [run EXCEPT ![p] = [run[p] EXCEPT !.stage = "merge", !.input = Input]]
    BY <1>6 DEF Gather, IInv, TypeOK
  <2>3. PICK stage \in {"write", "merge"} : stage = "merge"
    OBVIOUS
  <2>4. run' = [run EXCEPT ![p] = [run[p] EXCEPT !.stage = stage, !.input = Input]]
    BY <2>2, <2>3
  <2> QED
    BY <1>4, <1>6, <2>1, <2>4, Gathered
<1> QED
  BY <1>3, <1>5, <1>6

LEMMA MergeFailsSteps == ASSUME IInv, NEW p \in Processes, MergeFails(p) PROVE IInv'
<1>1. Finish(p) /\ Kept /\ faults' \in 0..MaxFaults
  BY Running DEF MergeFails
<1>2. Leaves_
  BY Untouched DEF MergeFails, Kept
<1> QED
  BY <1>1, <1>2, Ending

LEMMA MergedSteps == ASSUME IInv, NEW p \in Processes, Merged(p) PROVE IInv'
<1>1. run[p] \in Runs /\ run[p].stage = "merge" /\ faults' \in 0..MaxFaults
  BY Running DEF Merged, At
<1>2. Leaves_ /\ Kept /\ UNCHANGED <<snapshot, files>>
  BY Untouched DEF Merged, Kept
<1>3. CASE Finish(p)
  BY <1>1, <1>2, <1>3, Ending
<1>4. CASE Owns(p) /\ run' = [run EXCEPT ![p].stage = "publish"] /\ UNCHANGED lease
  <2>1. PICK r : r = [run[p] EXCEPT !.stage = "publish"]
    OBVIOUS
  <2>2. r \in Runs /\ r.stage = "publish" /\ r.input = run[p].input
    BY <1>1, <2>1 DEF Runs, Stages
  <2>3. Handed(r) /\ (Clean(run[p]) => Clean(r))
    BY <1>1, <2>2 DEF Handed, Clean, InHand, Listed, Merging
  <2>4. run' = [run EXCEPT ![p] = r]
    BY <1>4, <2>1 DEF IInv, TypeOK
  <2> QED
    BY <1>1, <1>2, <1>4, <2>2, <2>3, <2>4, Going
<1> QED
  BY <1>3, <1>4 DEF Merged

LEMMA PublishSteps == ASSUME IInv, NEW p \in Processes, Publish(p) PROVE IInv'
<1>1. /\ run[p] \in Runs /\ run[p].stage = "publish" /\ faults \in 0..MaxFaults
      /\ run[p].input \in Inputs \cup {None} /\ (overtaken \/ ~Shows(run[p].input))
  BY Running DEF Publish, At, Committing, Clean, Merging
<1>2. PICK r : r = [run[p] EXCEPT !.stage = "write"]
  OBVIOUS
<1>3. r \in Runs /\ r.stage = "write" /\ r.input = run[p].input
  BY <1>1, <1>2 DEF Runs, Stages
<1>4. Handed(r) /\ (overtaken \/ Clean(r))
  BY <1>1, <1>3 DEF Handed, Clean, InHand, Listed, Merging
<1>5. run' = [run EXCEPT ![p] = r]
  BY <1>2 DEF Publish, IInv, TypeOK
<1>6. lease' \in Leases /\ \A q \in Processes : lease'.owner = q => lease.owner = q
  BY Leasing DEF Publish
<1>7. Paces(p, r)
  BY <1>1, <1>5, <1>6 DEF Paces, Publish, Kept
<1>8. Leaves_
  <2>1. /\ store' = [store EXCEPT !.fingerprint = run[p].input] /\ snapshot' = run[p].input
        /\ UNCHANGED <<session, files>>
    BY DEF Publish, Kept
  <2>2. store' \in Stores /\ store'.notes = store.notes /\ store'.memory = store.memory
    BY <1>1, <2>1, Storing DEF Stores
  <2> QED
    BY <1>1, <2>1, <2>2, Storing DEF Leaves_, Unlearned, Shows
<1> QED
  BY <1>3, <1>4, <1>7, <1>8, Paced

LEMMA WriteSteps == ASSUME IInv, NEW p \in Processes, Write(p) PROVE IInv'
<1>1. /\ faults \in 0..MaxFaults
      /\ run[p].input \in Inputs \cup {None} /\ (overtaken \/ ~Shows(run[p].input))
  BY Running DEF Write, At, Committing, Clean, Merging
<1>2. Finish(p) /\ Kept /\ faults' \in 0..MaxFaults
  BY <1>1 DEF Write
<1>3. files' = files \/ files' = run[p].input
  BY DEF Write
<1>4. Leaves_
  <2>1. UNCHANGED <<session, store, snapshot>>
    BY DEF Write, Kept
  <2> QED
    BY <1>1, <1>3, <2>1, Storing DEF Leaves_, Unlearned, Shows
<1> QED
  BY <1>2, <1>4, Ending

LEMMA DieSteps == ASSUME IInv, NEW p \in Processes, Die(p) PROVE IInv'
<1>1. faults \in 0..MaxFaults /\ faults < MaxFaults /\ faults' = faults + 1 /\ Kept
  BY Running DEF Die
<1>2. PICK r : r = Idle
  OBVIOUS
<1>3. lease' \in Leases /\ \A q \in Processes : lease'.owner = q => lease.owner = q
  BY DEF Die, IInv, TypeOK, Leases
<1>4. faults' \in 0..MaxFaults
  BY <1>1
<1>5. Paces(p, r)
  BY <1>1, <1>2, <1>3, <1>4 DEF Paces, Die
<1>6. Leaves_
  BY Untouched DEF Die, Kept
<1> QED
  BY <1>2, <1>5, <1>6, Nothing, Paced

-----------------------------------------------------------------------------
\* Users, and the clock of the lease

\* What a user's step leaves: no run and no memory changes, and nothing is forgotten.
Meanwhile ==
  /\ UNCHANGED <<run, snapshot, overtaken>>
  /\ session' \in [Sessions -> OneSession]
  /\ \A s \in Sessions : session'[s].forgotten = session[s].forgotten /\ session'[s].revision <= changes'
  /\ store' \in Stores /\ store'.memory = store.memory /\ store'.notes <= changes'
  /\ lease' \in Leases /\ \A q \in Processes : lease'.owner = q => lease.owner = q
  /\ generate' \in BOOLEAN /\ changes' \in 0..MaxChanges /\ faults' \in 0..MaxFaults
  /\ \/ UNCHANGED <<files, wiping>>
     \/ files' = None /\ wiping' = FALSE

LEMMA Between == ASSUME IInv, Meanwhile PROVE IInv'
<1>1. /\ TypeOK /\ (overtaken \/ Cleared) /\ \A p \in Processes : Handed(run[p])
  BY DEF IInv
<1>2. TypeOK'
  BY <1>1 DEF Meanwhile, TypeOK, Stores, Leases, OneSession
<1>3. Counted' /\ \A p \in Processes : Handed(run[p])'
  BY <1>1 DEF Meanwhile, Counted, Handed
<1>4. ASSUME NEW value PROVE Shows(value)' <=> Shows(value)
  BY DEF Meanwhile, Shows
<1>5. ASSUME ~overtaken PROVE Cleared'
  <2>1. Unlearned' /\ ~Shows(snapshot)' /\ (Shows(files)' => wiping')
    BY <1>1, <1>5 DEF Meanwhile, Cleared, Unlearned, Shows
  <2>2. ASSUME NEW p \in Processes PROVE Guarded(p)'
    BY <1>1, <1>5 DEF Meanwhile, Cleared, Guarded, Committing, Clean, Shows
  <2> QED
    BY <2>1, <2>2 DEF Cleared
<1> QED
  BY <1>2, <1>3, <1>5 DEF IInv, Meanwhile

\* What the counters are before a step.
LEMMA Counting ==
  ASSUME IInv
  PROVE  /\ changes \in 0..MaxChanges /\ faults \in 0..MaxFaults /\ generate \in BOOLEAN
         /\ lease \in Leases /\ store.notes \in 0..MaxChanges /\ store.notes <= changes
         /\ \A s \in Sessions : session[s] \in OneSession /\ session[s].revision \in 0..MaxChanges
                                /\ session[s].revision <= changes
         /\ Change => changes' \in 0..MaxChanges /\ changes <= changes'
<1>1. changes \in 0..MaxChanges
  BY DEF IInv, TypeOK
<1>2. Change => changes' \in 0..MaxChanges /\ changes <= changes'
  BY <1>1 DEF Change
<1> QED
  BY <1>1, <1>2 DEF IInv, TypeOK, Counted, OneSession, Revisions, Leases

LEMMA Cancels ==
  ASSUME IInv, Cancel \/ UNCHANGED lease
  PROVE  lease' \in Leases /\ \A q \in Processes : lease'.owner = q => lease.owner = q
BY Nothing, Counting DEF Cancel

\* One session becomes one, which is not forgotten by that.
LEMMA OneChanges ==
  ASSUME IInv, NEW s \in Sessions, NEW one \in OneSession,
         session' = [session EXCEPT ![s] = one], one.forgotten = session[s].forgotten,
         changes' \in 0..MaxChanges, changes <= changes', one.revision <= changes',
         Cancel \/ UNCHANGED lease, faults' = faults,
         UNCHANGED <<generate, store, snapshot, files, wiping, run, overtaken>>
  PROVE  IInv'
<1>1. /\ session' \in [Sessions -> OneSession]
      /\ \A w \in Sessions : session'[w] = IF w = s THEN one ELSE session[w]
  BY Storing
<1>2. ASSUME NEW w \in Sessions
      PROVE  session'[w].forgotten = session[w].forgotten /\ session'[w].revision <= changes'
  <2>1. CASE w = s
    BY <1>1, <2>1
  <2>2. CASE w # s
    <3>1. /\ session'[w] = session[w] /\ session[w].revision \in Nat
          /\ session[w].revision <= changes /\ changes \in Nat /\ changes' \in Nat
      BY <1>1, <2>2, Counting
    <3> QED
      BY <3>1
  <2> QED
    BY <2>1, <2>2
<1>3. lease' \in Leases /\ \A q \in Processes : lease'.owner = q => lease.owner = q
  BY Cancels
<1>4. store' \in Stores /\ store'.memory = store.memory /\ store'.notes <= changes'
  <2>1. store.notes \in Nat /\ store.notes <= changes /\ changes \in Nat /\ changes' \in Nat
    BY Counting
  <2> QED
    BY <2>1, Storing
<1>5. generate' \in BOOLEAN /\ faults' \in 0..MaxFaults
  BY Counting
<1>6. Meanwhile
  BY <1>1, <1>2, <1>3, <1>4, <1>5 DEF Meanwhile
<1> QED
  BY <1>6, Between

LEMMA SessionSteps ==
  ASSUME IInv, NEW s \in Sessions,
         Create(s) \/ Resume(s) \/ Leave(s) \/ \E on \in BOOLEAN : Switch(s, on)
  PROVE  IInv'
<1>1. /\ session[s] \in OneSession /\ session[s].revision \in 0..MaxChanges
      /\ session[s].revision <= changes /\ changes \in 0..MaxChanges
      /\ Change => changes' \in 0..MaxChanges /\ changes <= changes'
  BY Counting
<1>2. CASE Create(s)
  <2>1. PICK one : one = [session[s] EXCEPT !.created = TRUE]
    OBVIOUS
  <2>2. one \in OneSession /\ one.forgotten = session[s].forgotten /\ one.revision = session[s].revision
    BY <1>1, <2>1 DEF OneSession
  <2>3. session' = [session EXCEPT ![s] = one]
    BY <1>2, <2>1 DEF Create
  <2>4. Change /\ UNCHANGED <<lease, faults, generate, store, snapshot, files, wiping, run, overtaken>>
    BY <1>2 DEF Create
  <2>5. one.revision <= changes'
    BY <1>1, <2>2, <2>4
  <2> QED
    BY <1>1, <2>2, <2>3, <2>4, <2>5, OneChanges
<1>3. CASE Resume(s)
  <2>1. PICK one : one = [session[s] EXCEPT !.active = TRUE, !.revision = @ + 1]
    OBVIOUS
  <2>2. Change /\ UNCHANGED <<lease, faults, generate, store, snapshot, files, wiping, run, overtaken>>
    BY <1>3 DEF Resume
  <2>3. session[s].revision + 1 \in 0..MaxChanges /\ session[s].revision + 1 <= changes'
    BY <1>1, <2>2 DEF Change
  <2>4. /\ one \in OneSession /\ one.forgotten = session[s].forgotten
        /\ one.revision = session[s].revision + 1
    BY <1>1, <2>1, <2>3 DEF OneSession, Revisions
  <2>5. session' = [session EXCEPT ![s] = one]
    BY <1>3, <2>1 DEF Resume
  <2> QED
    BY <1>1, <2>2, <2>3, <2>4, <2>5, OneChanges
<1>4. CASE Leave(s)
  <2>1. PICK one : one = [session[s] EXCEPT !.active = FALSE]
    OBVIOUS
  <2>2. one \in OneSession /\ one.forgotten = session[s].forgotten /\ one.revision = session[s].revision
    BY <1>1, <2>1 DEF OneSession
  <2>3. session' = [session EXCEPT ![s] = one]
    BY <1>4, <2>1 DEF Leave
  <2>4. UNCHANGED <<changes, lease, faults, generate, store, snapshot, files, wiping, run, overtaken>>
    BY <1>4 DEF Leave
  <2>5. changes <= changes' /\ one.revision <= changes'
    BY <1>1, <2>2, <2>4
  <2> QED
    BY <1>1, <2>2, <2>3, <2>4, <2>5, OneChanges
<1>5. ASSUME NEW on \in BOOLEAN, Switch(s, on) PROVE IInv'
  <2>1. PICK one : one = [session[s] EXCEPT !.enabled = on]
    OBVIOUS
  <2>2. one \in OneSession /\ one.forgotten = session[s].forgotten /\ one.revision = session[s].revision
    BY <1>1, <2>1 DEF OneSession
  <2>3. session' = [session EXCEPT ![s] = one]
    BY <1>5, <2>1 DEF Switch
  <2>4. Change /\ Cancel /\ UNCHANGED <<faults, generate, store, snapshot, files, wiping, run, overtaken>>
    BY <1>5 DEF Switch
  <2>5. one.revision <= changes'
    BY <1>1, <2>2, <2>4
  <2> QED
    BY <1>1, <2>2, <2>3, <2>4, <2>5, OneChanges
<1> QED
  BY <1>2, <1>3, <1>4, <1>5

LEMMA OtherSteps ==
  ASSUME IInv, Expire \/ Suspend \/ Wipe \/ Note \/ (\E on \in BOOLEAN : GlobalSwitch(on)) \/ UNCHANGED vars
  PROVE  IInv'
<1>1. /\ \A s \in Sessions : session[s].revision \in Nat /\ session[s].revision <= changes
      /\ store.notes \in Nat /\ store.notes <= changes /\ changes \in 0..MaxChanges
      /\ faults \in 0..MaxFaults /\ generate \in BOOLEAN /\ lease \in Leases
      /\ Change => changes' \in 0..MaxChanges /\ changes <= changes'
      /\ store \in Stores /\ session \in [Sessions -> OneSession]
  BY Counting, Storing
<1>2. \A s \in Sessions : changes' \in 0..MaxChanges /\ changes <= changes' => session[s].revision <= changes'
  BY <1>1
<1>3. changes' \in 0..MaxChanges /\ changes <= changes' => store.notes <= changes'
  BY <1>1
<1>4. CASE Expire
  <2>1. lease' \in Leases /\ lease'.owner = lease.owner
    BY <1>1, <1>4 DEF Expire, Leases
  <2>2. Meanwhile
    BY <1>1, <1>4, <2>1 DEF Meanwhile, Expire
  <2> QED
    BY <2>2, Between
<1>5. CASE Suspend
  <2>1. lease' \in Leases /\ lease'.owner = lease.owner
    BY <1>1, <1>5 DEF Suspend, Leases
  <2>2. faults' \in 0..MaxFaults
    BY <1>1, <1>5 DEF Suspend
  <2>3. Meanwhile
    BY <1>1, <1>5, <2>1, <2>2 DEF Meanwhile, Suspend
  <2> QED
    BY <2>3, Between
<1>6. CASE Wipe
  <2>1. Meanwhile
    BY <1>1, <1>6 DEF Meanwhile, Wipe
  <2> QED
    BY <2>1, Between
<1>7. CASE Note
  <2>1. store' \in Stores /\ store'.memory = store.memory /\ store'.notes <= changes'
    <3>1. store.notes + 1 \in 0..MaxChanges /\ store.notes + 1 <= changes'
      BY <1>1, <1>7 DEF Note, Change
    <3>2. PICK n \in 0..MaxChanges : n = store.notes + 1
      BY <3>1
    <3>3. store' = [store EXCEPT !.notes = n]
      BY <1>7, <3>2 DEF Note
    <3>4. store' \in Stores /\ store'.memory = store.memory /\ store'.notes = n
      BY <1>1, <3>3 DEF Stores
    <3> QED
      BY <3>1, <3>2, <3>4
  <2>2. Meanwhile
    BY <1>1, <1>2, <1>7, <2>1 DEF Meanwhile, Note
  <2> QED
    BY <2>2, Between
<1>8. ASSUME NEW on \in BOOLEAN, GlobalSwitch(on) PROVE IInv'
  <2>1. lease' \in Leases /\ \A q \in Processes : lease'.owner = q => lease.owner = q
    BY <1>8, Cancels DEF GlobalSwitch
  <2>2. Meanwhile
    BY <1>1, <1>2, <1>3, <1>8, <2>1 DEF Meanwhile, GlobalSwitch
  <2> QED
    BY <2>2, Between
<1>9. CASE UNCHANGED vars
  <2>1. Meanwhile
    BY <1>1, <1>9 DEF Meanwhile, vars
  <2> QED
    BY <2>1, Between
<1> QED
  BY <1>4, <1>5, <1>6, <1>7, <1>8, <1>9

\* A clear forgets every session there is, and no run that goes on has the lease.
LEMMA ClearSteps == ASSUME IInv, Clear PROVE IInv'
<1>1. store' = EmptyStore /\ snapshot' = None /\ wiping' = TRUE /\ UNCHANGED <<generate, files, run, faults>>
  BY DEF Clear
<1>2. /\ \A s \in Sessions : session[s] \in OneSession
      /\ changes \in 0..MaxChanges /\ changes' \in 0..MaxChanges /\ changes <= changes'
      /\ \A s \in Sessions : session[s].revision \in Nat /\ session[s].revision <= changes
  BY Counting DEF Clear
<1>3. \A s \in Sessions : session[s].revision <= changes'
  BY <1>2
<1>4. /\ session' \in [Sessions -> OneSession]
      /\ \A s \in Sessions : session'[s].revision <= changes'
  <2>1. ASSUME NEW s \in Sessions, NEW one, one = [session[s] EXCEPT !.forgotten = session[s].created]
        PROVE  one \in OneSession /\ one.revision = session[s].revision
    BY <1>2, <2>1 DEF OneSession
  <2>2. session' = [s \in Sessions |-> [session[s] EXCEPT !.forgotten = session[s].created]]
    BY DEF Clear
  <2>3. ASSUME NEW s \in Sessions PROVE session'[s] \in OneSession /\ session'[s].revision <= changes'
    BY <1>3, <2>1, <2>2
  <2> QED
    BY <2>2, <2>3
<1>5. lease' \in Leases
  BY Cancels DEF Clear
<1>6. overtaken' = (overtaken \/ lease' # Free \/ \E p \in Processes : Committing(p))
  BY DEF Clear
<1>7. overtaken' \in BOOLEAN
  BY <1>6
<1>8. TypeOK'
  BY <1>1, <1>2, <1>4, <1>5, <1>7, Nothing DEF IInv, TypeOK, Stores, Leases, OneSession
<1>9. Counted' /\ \A p \in Processes : Handed(run[p])'
  <2>1. store'.notes <= changes'
    BY <1>1, <1>2, Nothing
  <2> QED
    BY <1>1, <1>4, <2>1 DEF IInv, Counted, Handed
<1>10. ASSUME ~overtaken' PROVE Cleared'
  <2>1. lease' = Free /\ \A p \in Processes : ~Committing(p)
    BY <1>6, <1>10
  <2>2. ASSUME NEW p \in Processes PROVE Guarded(p)'
    <3>1. ~Committing(p)' /\ lease'.owner # p
      BY <1>1, <2>1, Nothing DEF Committing
    <3> QED
      BY <3>1 DEF Guarded
  <2>3. Unlearned' /\ ~Shows(snapshot)' /\ (Shows(files)' => wiping')
    BY <1>1, Nothing DEF Unlearned, Shows
  <2> QED
    BY <2>2, <2>3 DEF Cleared
<1> QED
  BY <1>8, <1>9, <1>10 DEF IInv

LEMMA InductiveStep == IInv /\ [Next]_vars => IInv'
<1> SUFFICES ASSUME IInv, [Next]_vars PROVE IInv'
  OBVIOUS
<1>1. ASSUME NEW p \in Processes, Work(p) PROVE IInv'
  BY <1>1, StartSteps, ListSteps, ExtractSteps, AskedSteps, RelistSteps, CheckSteps, SaveSteps,
     GatherSteps, MergedSteps, PublishSteps, WriteSteps DEF Work
<1>2. ASSUME NEW p \in Processes, AskFails(p) \/ MergeFails(p) \/ Die(p) PROVE IInv'
  BY <1>2, AskFailsSteps, MergeFailsSteps, DieSteps
<1>3. CASE Clear
  BY <1>3, ClearSteps
<1>4. ASSUME NEW s \in Sessions, Create(s) \/ Resume(s) \/ Leave(s) \/ \E on \in BOOLEAN : Switch(s, on)
      PROVE  IInv'
  BY <1>4, SessionSteps
<1>5. CASE Expire \/ Suspend \/ Wipe \/ Note \/ (\E on \in BOOLEAN : GlobalSwitch(on)) \/ UNCHANGED vars
  BY <1>5, OtherSteps
<1> QED
  BY <1>1, <1>2, <1>3, <1>4, <1>5 DEF Next

LEMMA Inductive == Spec => []IInv
BY Initially, InductiveStep, PTL DEF Spec

-----------------------------------------------------------------------------
\* The sessions, the lease, the store, the snapshot and every run keep their shape;
\* no revision and no count of notes exceeds the changes of the users.
THEOREM TypeCorrect == Spec => []TypeOK
<1>1. IInv => TypeOK
  BY DEF IInv
<1> QED
  BY <1>1, Inductive, PTL

\* docs/memory.md:26,60: with the lease deleted in the transaction of the clear
\* (store.mjs) and asked for before every commit of the pipeline, no run of any
\* process brings back, publishes or writes what was learned before the clear.
THEOREM ClearedForGood == Spec => []ForgottenStaysForgotten
<1>1. IInv => ForgottenStaysForgotten
  BY DEF IInv, Cleared, Unlearned, ForgottenStaysForgotten
<1> QED
  BY <1>1, Inductive, PTL

-----------------------------------------------------------------------------
(* The session cards (SessionCards), for any number of sessions and requests. *)

\* An extraction whose list has grown was aborted, and states are born in order.
AbortedWhenStale ==
  running # Null =>
    /\ running.state <= born[running.session]
    /\ Mine /\ ~running.aborted => ~Stale

Current == ReadyIsCurrent /\ UpdatingIsRunning /\ AbortedWhenStale

CardsInv == /\ CardsTypeOK /\ CardIsOfItsRequests /\ ReadyIsCurrent
        /\ UpdatingIsRunning /\ AbortedWhenStale /\ SomeonePumps

LEMMA StatusIsKnown ==
  ASSUME NEW h \in Nat, NEW n \in Nat
  PROVE  /\ StatusOf(h, n) \in Status /\ StatusOf(h, n) # "updating"
         /\ StatusOf(h, n) = "ready" => h = n
<1>1. CASE n = 0 BY <1>1 DEF StatusOf, Status
<1>2. CASE n # 0 /\ h = n BY <1>2 DEF StatusOf, Status
<1>3. CASE n # 0 /\ h # n /\ n < MinMessages BY <1>3 DEF StatusOf, Status
<1>4. CASE n # 0 /\ h # n /\ ~(n < MinMessages) BY <1>4 DEF StatusOf, Status
<1> QED BY <1>1, <1>2, <1>3, <1>4

LEMMA Starts == CardsInit => CardsInv
<1> SUFFICES ASSUME CardsInit PROVE CardsInv OBVIOUS
<1>1. \A s \in Carded : states[s] = Null /\ file[s] = NoCard BY DEF CardsInit
<1>2. CardsTypeOK
  <2>1. requests \in [Carded -> Nat] BY CardsAssumption DEF CardsInit
  <2> QED BY <2>1 DEF CardsInit, CardsTypeOK, NoCard, Card
<1>3. CardIsOfItsRequests /\ ReadyIsCurrent /\ UpdatingIsRunning
  BY <1>1 DEF CardIsOfItsRequests, ReadyIsCurrent, UpdatingIsRunning, Tracked, NoCard
<1>4. SomeonePumps BY <1>1 DEF SomeonePumps, Candidates
<1>5. AbortedWhenStale BY DEF CardsInit, AbortedWhenStale
<1> QED BY <1>2, <1>3, <1>4, <1>5 DEF CardsInv

LEMMA TypesStep == ASSUME CardsInv, [CardsNext]_cardsVars PROVE CardsTypeOK'
<1> USE DEF CardsInv, CardsTypeOK
<1>1. ASSUME NEW s \in Carded
      PROVE  /\ states[s] # Null => /\ states[s] \in State /\ states[s].card \in Card
                                    /\ states[s].card.hash \in Nat
             /\ file[s] \in Card /\ NoCard \in Card
  BY DEF State, Card, NoCard
<1>2. /\ running # Null => running \in Extraction /\ running.session \in Carded
      /\ Armed => timer' \in BOOLEAN
  BY DEF Extraction, Armed
<1>3. ASSUME NEW s \in Carded PROVE Aborted(s) \in Extraction \cup {Null}
  BY <1>2 DEF Aborted, Extraction
<1>4. ASSUME NEW s \in Carded, Track(s) PROVE CardsTypeOK'
  <2>1. PICK c \in {file[s], NoCard} :
          states' = [states EXCEPT ![s] = [card |-> c, status |-> StatusOf(c.hash, requests[s])]]
    BY <1>4 DEF Track, Loaded
  <2>2. c \in Card /\ c.hash \in Nat BY <1>1 DEF Card
  <2>3. StatusOf(c.hash, requests[s]) \in Status BY <2>2, StatusIsKnown
  <2>4. states' \in [Carded -> State \cup {Null}] BY <2>1, <2>2, <2>3 DEF State
  <2>5. later' \subseteq Carded BY <1>4 DEF Track, Keeps
  <2> QED BY <1>2, <1>4, <2>4, <2>5 DEF Track
<1>5. ASSUME NEW s \in Carded, Observe(s) PROVE CardsTypeOK'
  <2>1. Tracked(s) BY <1>5 DEF Observe
  <2>2. StatusOf(states[s].card.hash, requests[s] + 1) \in Status
    BY <1>1, <2>1, StatusIsKnown DEF Tracked
  <2>3. states' \in [Carded -> State \cup {Null}]
    BY <1>1, <1>5, <2>1, <2>2 DEF Observe, State, Tracked
  <2>4. later' \subseteq Carded /\ requests' \in [Carded -> Nat]
    BY <1>5 DEF Observe, Keeps
  <2> QED BY <1>2, <1>3, <1>5, <2>3, <2>4 DEF Observe
<1>6. ASSUME NEW s \in Carded, Unobserved(s) \/ Header(s) \/ Comes(s) PROVE CardsTypeOK'
  BY <1>2, <1>6 DEF Unobserved, Header, Comes
<1>7. ASSUME NEW s \in Carded, SaveProject(s) PROVE CardsTypeOK'
  BY <1>1, <1>7 DEF SaveProject, Tracked
<1>8. ASSUME NEW s \in Carded, Remove(s) PROVE CardsTypeOK'
  BY <1>2, <1>3, <1>8 DEF Remove
<1>9. ASSUME NEW a \in {"good", "bad"}, Answer(a) PROVE CardsTypeOK'
  BY <1>2, <1>9 DEF Answer, Extraction
<1>10. CASE Pump
  <2>1. PICK s \in Carded :
          /\ states[s] # Null
          /\ running' = [session |-> s, state |-> born[s], hash |-> requests[s],
                         aborted |-> FALSE, answer |-> "none"]
          /\ states' = [states EXCEPT ![s] = [card |-> states[s].card, status |-> "updating"]]
    BY <1>10 DEF Pump, Candidates
  <2>2. states' \in [Carded -> State \cup {Null}] BY <1>1, <2>1 DEF State, Status
  <2>3. running' \in Extraction BY <2>1 DEF Extraction
  <2> QED BY <1>10, <2>2, <2>3 DEF Pump
<1>11. ASSUME NEW st \in State \cup {Null}, NEW saved \in BOOLEAN, running # Null,
              saved => st # Null, Concluded(st, saved), later' \subseteq Carded
       PROVE  CardsTypeOK'
  <2>1. states' \in [Carded -> State \cup {Null}] BY <1>11, <1>2 DEF Concluded
  <2>2. file' \in [Carded -> Card] BY <1>11, <1>2 DEF Concluded, State
  <2> QED BY <1>2, <1>11, <2>1, <2>2 DEF Concluded
<1>12. CASE Learn
  <2>1. [card |-> [topics |-> running.hash, hash |-> running.hash], status |-> "ready"] \in State
    BY <1>12, <1>2 DEF Learn, State, Card, Status, Extraction
  <2> QED BY <1>11, <1>12, <2>1, Zenon, CardsAssumption DEF Learn
<1>13. CASE Abandon
  <2> DEFINE s == running.session
             card == states[s].card
  <2>1. running # Null /\ s \in Carded /\ states[s] # Null
    BY <1>2, <1>13 DEF Abandon, Mine, Tracked
  <2>2. [card |-> card, status |-> StatusOf(card.hash, requests[s])] \in State
    BY <1>1, <2>1, StatusIsKnown DEF State
  <2> QED BY <1>11, <1>13, <2>1, <2>2, CardsAssumption DEF Abandon
<1>14. CASE Fail
  <2>1. running # Null /\ running.session \in Carded /\ states[running.session] # Null
    BY <1>2, <1>14 DEF Fail, Mine, Tracked
  <2>2. [card |-> states[running.session].card, status |-> "error"] \in State
    BY <1>1, <2>1 DEF State, Status
  <2>3. later' \subseteq Carded BY <1>14, <2>1 DEF Fail
  <2> QED BY <1>11, <1>14, <2>1, <2>2, <2>3, CardsAssumption DEF Fail
<1>15. CASE Drop
  BY <1>2, <1>11, <1>15 DEF Drop, Mine, Tracked
<1>16. CASE Close BY <1>16 DEF Close
<1>17. CASE Restart BY <1>17 DEF Restart
<1>18. CASE UNCHANGED cardsVars BY <1>18 DEF cardsVars
<1> QED BY <1>4, <1>5, <1>6, <1>7, <1>8, <1>9, <1>10, <1>12, <1>13, <1>14, <1>15,
          <1>16, <1>17, <1>18 DEF CardsNext

\* The facts of the types that the steps below use.
LEMMA Shapes ==
  ASSUME CardsInv
  PROVE  /\ \A s \in Carded : states[s] # Null =>
              /\ states[s] \in State /\ states[s].card \in Card
              /\ states[s].card.hash \in Nat
         /\ \A s \in Carded : /\ file[s] \in Card /\ file[s].hash \in Nat
                                /\ requests[s] \in Nat /\ born[s] \in Nat
         /\ running # Null => running \in Extraction /\ running.session \in Carded
                              /\ running.state \in Nat
BY DEF CardsInv, CardsTypeOK, State, Card, Extraction

LEMMA CardsStep == ASSUME CardsInv, [CardsNext]_cardsVars PROVE CardIsOfItsRequests'
<1> USE DEF CardIsOfItsRequests, Tracked
<1>1. CardIsOfItsRequests /\ states \in [Carded -> State \cup {Null}]
      /\ file \in [Carded -> Card] BY DEF CardsInv, CardsTypeOK
<1>2. ASSUME NEW s \in Carded, Track(s) PROVE CardIsOfItsRequests'
  <2>1. PICK c \in {file[s], NoCard} :
          states' = [states EXCEPT ![s] = [card |-> c, status |-> StatusOf(c.hash, requests[s])]]
    BY <1>2 DEF Track, Loaded
  <2>2. c.topics = c.hash BY <1>1, <2>1 DEF NoCard
  <2> QED BY <1>1, <1>2, <2>1, <2>2 DEF Track
<1>3. ASSUME NEW s \in Carded, Unobserved(s) \/ Header(s) \/ Comes(s) PROVE CardIsOfItsRequests'
  BY <1>1, <1>3 DEF Unobserved, Header, Comes
<1>4. ASSUME NEW s \in Carded, Observe(s) PROVE CardIsOfItsRequests'
  BY <1>1, <1>4 DEF Observe
<1>5. ASSUME NEW s \in Carded, SaveProject(s) PROVE CardIsOfItsRequests'
  BY <1>1, <1>5 DEF SaveProject
<1>6. ASSUME NEW s \in Carded, Remove(s) PROVE CardIsOfItsRequests'
  BY <1>1, <1>6 DEF Remove
<1>7. ASSUME NEW a \in {"good", "bad"}, Answer(a) PROVE CardIsOfItsRequests'
  BY <1>1, <1>7 DEF Answer
<1>8. CASE Pump
  <2>1. PICK s \in Carded :
          states' = [states EXCEPT ![s] = [card |-> states[s].card, status |-> "updating"]]
          /\ states[s] # Null
    BY <1>8 DEF Pump, Candidates
  <2> QED BY <1>1, <1>8, <2>1 DEF Pump
<1>9. ASSUME NEW st, NEW saved, running # Null, st # Null => st.card.topics = st.card.hash,
             saved => st # Null, Concluded(st, saved)
      PROVE  CardIsOfItsRequests'
  <2>1. running.session \in Carded BY <1>9, Shapes
  <2>2. \A s \in Carded : s # running.session => states'[s] = states[s]
    BY <1>1, <1>9 DEF Concluded
  <2>3. states'[running.session] = st BY <1>1, <1>9, <2>1 DEF Concluded
  <2>4. \A s \in Carded : s # running.session => file'[s] = file[s]
    BY <1>1, <1>9 DEF Concluded
  <2>5. file'[running.session] = IF saved THEN st.card ELSE file[running.session]
    BY <1>1, <1>9, <2>1 DEF Concluded
  <2> QED BY <1>1, <1>9, <2>1, <2>2, <2>3, <2>4, <2>5
<1>10. CASE Learn
  <2> DEFINE st == [card |-> [topics |-> running.hash, hash |-> running.hash], status |-> "ready"]
  <2>1. running # Null /\ Concluded(st, TRUE) BY <1>10 DEF Learn
  <2>2. st.card.topics = st.card.hash OBVIOUS
  <2>3. Tracked(running.session) /\ running.session \in Carded /\ running.hash \in Nat
    BY <1>10, Shapes DEF Learn, Mine, Extraction
  <2>4. st \in State BY <2>3 DEF State, Card, Status
  <2>5. st # Null BY <2>4, CardsAssumption
  <2> QED BY <1>9, <2>1, <2>2, <2>5
<1>11. ASSUME NEW status \in Status, NEW saved \in BOOLEAN, running # Null, Mine,
              Concluded([card |-> states[running.session].card, status |-> status], saved)
       PROVE  CardIsOfItsRequests'
  <2> DEFINE st == [card |-> states[running.session].card, status |-> status]
  <2>1. running.session \in Carded /\ states[running.session] # Null
    BY <1>11, Shapes DEF Mine
  <2>2. st.card.topics = st.card.hash BY <1>1, <2>1
  <2>3. st \in State BY <2>1, Shapes DEF State
  <2>4. st # Null BY <2>3, CardsAssumption
  <2> QED BY <1>9, <1>11, <2>2, <2>4
<1>12. CASE Abandon
  <2> DEFINE s == running.session
             card == states[s].card
  <2>1. running # Null /\ Mine /\ s \in Carded /\ states[s] # Null
    BY <1>12, Shapes DEF Abandon, Mine
  <2>2. StatusOf(card.hash, requests[s]) \in Status BY <2>1, Shapes, StatusIsKnown
  <2>3. PICK saved \in BOOLEAN :
          Concluded([card |-> card, status |-> StatusOf(card.hash, requests[s])], saved)
    BY <1>12 DEF Abandon
  <2> QED BY <1>11, <2>1, <2>2, <2>3
<1>13. CASE Fail
  BY <1>11, <1>13 DEF Fail, Status
<1>14. CASE Drop
  <2>1. PICK saved \in BOOLEAN : (saved => Mine) /\ Concluded(states[running.session], saved)
    BY <1>14 DEF Drop
  <2>2. running # Null /\ running.session \in Carded BY <1>14, Shapes DEF Drop
  <2>3. saved => states[running.session] # Null BY <2>1 DEF Mine
  <2>4. states[running.session] # Null =>
          states[running.session].card.topics = states[running.session].card.hash
    BY <1>1, <2>2
  <2> QED BY <1>9, <2>1, <2>2, <2>3, <2>4
<1>15. CASE Close BY <1>1, <1>15 DEF Close
<1>16. CASE Restart BY <1>1, <1>16 DEF Restart
<1>17. CASE UNCHANGED cardsVars BY <1>1, <1>17 DEF cardsVars
<1> QED BY <1>2, <1>3, <1>4, <1>5, <1>6, <1>7, <1>8, <1>10, <1>12, <1>13, <1>14,
          <1>15, <1>16, <1>17 DEF CardsNext

LEMMA CurrentStep == ASSUME CardsInv, [CardsNext]_cardsVars PROVE Current'
<1> USE DEF Current, ReadyIsCurrent, UpdatingIsRunning, AbortedWhenStale, Tracked, Mine, Stale
<1>1. Current /\ states \in [Carded -> State \cup {Null}] /\ born \in [Carded -> Nat]
      /\ requests \in [Carded -> Nat]
  BY DEF CardsInv, CardsTypeOK
<1>2. ASSUME NEW s \in Carded, Track(s) PROVE Current'
  <2>1. PICK c \in {file[s], NoCard} :
          states' = [states EXCEPT ![s] = [card |-> c, status |-> StatusOf(c.hash, requests[s])]]
    BY <1>2 DEF Track, Loaded
  <2>2. c.hash \in Nat /\ requests[s] \in Nat BY <2>1, Shapes DEF NoCard
  <2>3. /\ StatusOf(c.hash, requests[s]) # "updating"
        /\ StatusOf(c.hash, requests[s]) = "ready" => c.hash = requests[s]
    BY <2>2, StatusIsKnown
  <2>4. states[s] = Null /\ running' = running /\ requests' = requests /\ closed' = closed
        /\ born' = [born EXCEPT ![s] = @ + 1]
    BY <1>2 DEF Track
  <2>5. ReadyIsCurrent' BY <1>1, <2>1, <2>3, <2>4
  <2>6. UpdatingIsRunning' BY <1>1, <2>1, <2>3, <2>4
  <2>7. AbortedWhenStale' BY <1>1, <2>1, <2>4, Shapes
  <2> QED BY <2>5, <2>6, <2>7
<1>3. ASSUME NEW s \in Carded, Unobserved(s) PROVE Current'
  BY <1>1, <1>3 DEF Unobserved
<1>4. ASSUME NEW s \in Carded, Header(s) \/ Comes(s) \/ SaveProject(s) PROVE Current'
  BY <1>1, <1>4 DEF Header, Comes, SaveProject
<1>5. ASSUME NEW s \in Carded
      PROVE  /\ running = Null => Aborted(s) = Null
             /\ running # Null => /\ Aborted(s) # Null
                                  /\ Aborted(s).session = running.session
                                  /\ Aborted(s).state = running.state
                                  /\ Aborted(s).hash = running.hash
                                  /\ running.session = s /\ running.state = born[s]
                                       => Aborted(s).aborted
                                  /\ running.aborted => Aborted(s).aborted
                                  /\ running.session # s => Aborted(s) = running
  <2>1. CASE running = Null BY <2>1 DEF Aborted
  <2>2. CASE running # Null
    <3>1. running \in Extraction BY <2>2, Shapes
    <3>2. [running EXCEPT !.aborted = TRUE] \in Extraction BY <3>1 DEF Extraction
    <3>3. [running EXCEPT !.aborted = TRUE] # Null BY <3>2, CardsAssumption
    <3> QED BY <2>2, <3>1, <3>3 DEF Aborted, Extraction
  <2> QED BY <2>1, <2>2
<1>6. ASSUME NEW s \in Carded, Observe(s) PROVE Current'
  <2>1. states[s] # Null /\ ~closed /\ running' = Aborted(s) /\ born' = born /\ closed' = closed
        /\ requests' = [requests EXCEPT ![s] = @ + 1]
        /\ states' = [states EXCEPT ![s] = [card |-> states[s].card,
                         status |-> StatusOf(states[s].card.hash, requests[s] + 1)]]
    BY <1>6 DEF Observe
  <2>2. states[s].card.hash \in Nat /\ requests[s] + 1 \in Nat BY <2>1, Shapes
  <2>3. /\ StatusOf(states[s].card.hash, requests[s] + 1) # "updating"
        /\ StatusOf(states[s].card.hash, requests[s] + 1) = "ready"
             => states[s].card.hash = requests[s] + 1
    BY <2>2, StatusIsKnown
  <2>4. ReadyIsCurrent' BY <1>1, <2>1, <2>3
  <2>5. UpdatingIsRunning' BY <1>1, <1>5, <2>1, <2>3
  <2>6. AbortedWhenStale' BY <1>1, <1>5, <2>1, Shapes
  <2> QED BY <2>4, <2>5, <2>6
<1>7. ASSUME NEW s \in Carded, Remove(s) PROVE Current'
  <2>1. states' = [states EXCEPT ![s] = Null] /\ running' = Aborted(s)
        /\ born' = born /\ closed' = closed /\ requests' = requests
    BY <1>7 DEF Remove
  <2>2. ReadyIsCurrent' BY <1>1, <2>1
  <2>3. UpdatingIsRunning' BY <1>1, <1>5, <2>1
  <2>4. AbortedWhenStale' BY <1>1, <1>5, <2>1, Shapes
  <2> QED BY <2>2, <2>3, <2>4
<1>8. ASSUME NEW a \in {"good", "bad"}, Answer(a) PROVE Current'
  <2>1. running # Null /\ running' = [running EXCEPT !.answer = a]
        /\ UNCHANGED <<requests, states, born, closed>> BY <1>8 DEF Answer
  <2>2. running \in Extraction /\ running' \in Extraction
    BY <2>1, Shapes DEF Extraction
  <2>3. running' # Null BY <2>2, CardsAssumption
  <2>4. running'.session = running.session /\ running'.state = running.state
        /\ running'.hash = running.hash /\ running'.aborted = running.aborted
    BY <2>1, <2>2 DEF Extraction
  <2> QED BY <1>1, <2>1, <2>3, <2>4
<1>9. CASE Pump
  <2>1. PICK s \in Carded :
          /\ states[s] # Null
          /\ running' = [session |-> s, state |-> born[s], hash |-> requests[s],
                         aborted |-> FALSE, answer |-> "none"]
          /\ states' = [states EXCEPT ![s] = [card |-> states[s].card, status |-> "updating"]]
    BY <1>9 DEF Pump, Candidates
  <2>2. running = Null /\ UNCHANGED <<requests, born, closed>> BY <1>9 DEF Pump
  <2>3. running' \in Extraction BY <1>1, <2>1 DEF Extraction
  <2>4. running' # Null BY <2>3, CardsAssumption
  <2> QED BY <1>1, <2>1, <2>2, <2>4
<1>10. ASSUME NEW st, NEW saved, running # Null, Concluded(st, saved),
              st # Null => /\ ~closed => st.status # "updating"
                           /\ ~closed /\ st.status = "ready" =>
                                st.card.hash = requests[running.session]
       PROVE  Current'
  <2>1. running.session \in Carded BY <1>10, Shapes
  <2>2. states' = [states EXCEPT ![running.session] = st] /\ running' = Null
        /\ UNCHANGED <<requests, born, closed>> BY <1>10 DEF Concluded
  <2> QED BY <1>1, <1>10, <2>1, <2>2
<1>11. CASE Learn
  <2>1. running # Null /\ ~Stale
        /\ Concluded([card |-> [topics |-> running.hash, hash |-> running.hash],
                      status |-> "ready"], TRUE)
    BY <1>11 DEF Learn
  <2> QED BY <1>10, <2>1
<1>12. CASE Abandon
  <2> DEFINE s == running.session
             card == states[s].card
  <2>1. running # Null /\ s \in Carded /\ states[s] # Null
    BY <1>12, Shapes DEF Abandon
  <2>2. /\ StatusOf(card.hash, requests[s]) # "updating"
        /\ StatusOf(card.hash, requests[s]) = "ready" => card.hash = requests[s]
    BY <2>1, Shapes, StatusIsKnown
  <2>3. PICK saved \in BOOLEAN :
          Concluded([card |-> card, status |-> StatusOf(card.hash, requests[s])], saved)
    BY <1>12 DEF Abandon
  <2> QED BY <1>10, <2>1, <2>2, <2>3
<1>13. CASE Fail
  <2>1. PICK saved \in BOOLEAN :
          Concluded([card |-> states[running.session].card, status |-> "error"], saved)
    BY <1>13 DEF Fail
  <2>2. running # Null BY <1>13 DEF Fail
  <2> QED BY <1>10, <2>1, <2>2
<1>14. CASE Drop
  <2>1. PICK saved \in BOOLEAN : Concluded(states[running.session], saved)
    BY <1>14 DEF Drop
  <2>2. running # Null /\ running.session \in Carded /\ ~Mine
    BY <1>1, <1>14, Shapes DEF Drop
  <2> QED BY <1>1, <1>10, <2>1, <2>2
<1>15. CASE Close BY <1>1, <1>15 DEF Close
<1>16. CASE Restart BY <1>1, <1>16 DEF Restart
<1>17. CASE UNCHANGED cardsVars BY <1>1, <1>17 DEF cardsVars
<1> QED BY <1>2, <1>3, <1>4, <1>6, <1>7, <1>8, <1>9, <1>11, <1>12, <1>13, <1>14,
          <1>15, <1>16, <1>17 DEF CardsNext

\* Every handler that can make a candidate or end an extraction arms the timer.
LEMMA PumpsStep == ASSUME CardsInv, [CardsNext]_cardsVars PROVE SomeonePumps'
<1> USE DEF SomeonePumps
<1>1. SomeonePumps BY DEF CardsInv
<1>2. Armed => SomeonePumps' BY DEF Armed
<1>3. ASSUME NEW s \in Carded, Track(s) \/ Observe(s) \/ Header(s) \/ Remove(s)
      PROVE  SomeonePumps'
  BY <1>2, <1>3 DEF Track, Observe, Header, Remove
<1>4. CASE Learn \/ Abandon \/ Fail \/ Drop
  BY <1>2, <1>4 DEF Learn, Abandon, Fail, Drop, Concluded
<1>5. ASSUME NEW s \in Carded, Unobserved(s) PROVE SomeonePumps'
  <2>1. requests' = [requests EXCEPT ![s] = @ + 1] /\ (closed \/ states[s] = Null)
        /\ UNCHANGED <<headed, states, running, timer, closed>>
    BY <1>5 DEF Unobserved, Tracked
  <2>2. ~closed => Candidates(states', requests', headed') = Candidates(states, requests, headed)
    BY <2>1 DEF Candidates, CardsInv, CardsTypeOK
  <2> QED BY <1>1, <2>1, <2>2
<1>6. ASSUME NEW s \in Carded, SaveProject(s) \/ Comes(s) PROVE SomeonePumps'
  BY <1>1, <1>6 DEF SaveProject, Comes, Candidates
<1>7. ASSUME NEW a \in {"good", "bad"}, Answer(a) PROVE SomeonePumps'
  <2>1. running # Null /\ running' = [running EXCEPT !.answer = a] BY <1>7 DEF Answer
  <2>2. running' \in Extraction BY <1>7, <2>1, Shapes DEF Extraction
  <2> QED BY <2>2, CardsAssumption
<1>8. CASE Pump
  <2>1. PICK s \in Carded :
          running' = [session |-> s, state |-> born[s], hash |-> requests[s],
                      aborted |-> FALSE, answer |-> "none"]
    BY <1>8 DEF Pump, Candidates
  <2>2. running' \in Extraction BY <2>1, Shapes DEF Extraction
  <2> QED BY <2>2, CardsAssumption
<1>9. CASE Close BY <1>9 DEF Close
<1>10. CASE Restart BY <1>10 DEF Restart, Candidates
<1>11. CASE UNCHANGED cardsVars BY <1>1, <1>11 DEF cardsVars, Candidates
<1> QED BY <1>3, <1>4, <1>5, <1>6, <1>7, <1>8, <1>9, <1>10, <1>11 DEF CardsNext

LEMMA CardsInductive == CardsSpec => []CardsInv
<1>1. CardsInv /\ [CardsNext]_cardsVars => CardsInv'
  BY TypesStep, CardsStep, CurrentStep, PumpsStep DEF CardsInv, Current
<1> QED BY <1>1, Starts, PTL DEF CardsSpec

\* The tables of the manager keep their shape.
THEOREM CardsTypes == CardsSpec => []CardsTypeOK
<1>1. CardsInv => CardsTypeOK BY DEF CardsInv
<1> QED BY <1>1, CardsInductive, PTL

\* manager.mjs:118-128: the topics shown or saved were found in exactly the
\* requests their digest names.
THEOREM CardsAreHonest == CardsSpec => []CardIsOfItsRequests
<1>1. CardsInv => CardIsOfItsRequests BY DEF CardsInv
<1> QED BY <1>1, CardsInductive, PTL

\* manager.mjs:62-77, 118-136: ready means that every request is covered, and
\* updating that an extraction runs; a list that grew aborted its extraction.
THEOREM StatusIsTrue == CardsSpec => [](ReadyIsCurrent /\ UpdatingIsRunning)
<1>1. CardsInv => ReadyIsCurrent /\ UpdatingIsRunning BY DEF CardsInv
<1> QED BY <1>1, CardsInductive, PTL

\* manager.mjs:93-108: a Host at rest with a card to make has its timer set.
THEOREM NoCardWaits == CardsSpec => []SomeonePumps
<1>1. CardsInv => SomeonePumps BY DEF CardsInv
<1> QED BY <1>1, CardsInductive, PTL

\* manager.mjs:110-138: no extraction that outlived its state writes the file.
THEOREM FilesFollow == CardsSpec => FileFollowsState
<1> DEFINE Follows == \A s \in Carded : file'[s] # file[s] =>
                        ~closed /\ Tracked(s) /\ file'[s] = states'[s].card
<1>1. ASSUME CardsInv, [CardsNext]_cardsVars PROVE Follows \/ UNCHANGED cardsVars
  <2> SUFFICES ASSUME NEW t \in Carded, file'[t] # file[t]
      PROVE  ~closed /\ Tracked(t) /\ file'[t] = states'[t].card
    OBVIOUS
  <2>1. file \in [Carded -> Card] /\ states \in [Carded -> State \cup {Null}]
    BY <1>1 DEF CardsInv, CardsTypeOK
  <2>2. ASSUME NEW st, NEW saved, running # Null, Concluded(st, saved), saved => Mine
        PROVE  ~closed /\ Tracked(t) /\ file'[t] = states'[t].card
    <3>1. running.session \in Carded BY <1>1, <2>2, Shapes
    <3>2. saved /\ t = running.session /\ file'[t] = st.card
      BY <2>1, <2>2, <3>1 DEF Concluded
    <3>3. states'[t] = st BY <2>1, <2>2, <3>2 DEF Concluded
    <3> QED BY <2>2, <3>2, <3>3 DEF Mine
  <2>3. CASE Learn BY <2>2, <2>3 DEF Learn
  <2>4. CASE Abandon BY <2>2, <2>4 DEF Abandon
  <2>5. CASE Fail BY <2>2, <2>5 DEF Fail
  <2>6. CASE Drop BY <2>2, <2>6 DEF Drop
  <2>7. ASSUME NEW s \in Carded, SaveProject(s)
        PROVE  ~closed /\ Tracked(t) /\ file'[t] = states'[t].card
    BY <2>1, <2>7 DEF SaveProject
  <2> QED BY <1>1, <2>3, <2>4, <2>5, <2>6, <2>7 DEF CardsNext, Track, Unobserved, Observe,
        Header, Comes, Remove, Answer, Pump, Close, Restart, cardsVars
<1>2. CardsInv /\ [CardsNext]_cardsVars => [Follows]_cardsVars BY <1>1
<1> QED BY <1>2, CardsInductive, PTL DEF CardsSpec, FileFollowsState
=============================================================================
