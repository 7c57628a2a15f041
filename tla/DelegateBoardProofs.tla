------------------------- MODULE DelegateBoardProofs -------------------------
(* Theorems about delegation for every board, every set of children and calls, *)
(* and every limit on the children that run.                                   *)
EXTENDS DelegateBoard, FiniteSetTheorems, TLAPS

LEMMA Bounds ==
  /\ MaxTasks \in Nat /\ MaxBatch \in Nat /\ Limit \in Nat /\ MaxPlans \in Nat /\ MaxDirect \in Nat
  /\ NoChild \notin Children /\ NoName \notin Names /\ IsFiniteSet(Children) /\ IsFiniteSet(Calls)
BY BoardAssumption

-----------------------------------------------------------------------------
\* Ids

\* A finite set of numbers has a greatest one: the one with the fewest above it.
LEMMA Greatest ==
  ASSUME NEW S, S \subseteq Nat, IsFiniteSet(S), S # {}
  PROVE  Max(S) \in S
<1> DEFINE Above(x) == {y \in S : y > x}
           Aboves == {Above(x) : x \in S}
<1>1. IsWellFoundedOn(StrictSubsetOrdering(S), FiniteSubsetsOf(S))
  BY FS_StrictSubsetOrderingWellFounded
<1>2. Aboves \subseteq FiniteSubsetsOf(S) /\ Aboves # {}
  <2>1. \A x \in S : Above(x) \in FiniteSubsetsOf(S)
    BY FS_Subset DEF FiniteSubsetsOf
  <2> QED
    BY <2>1
<1>3. PICK A \in Aboves : \A B \in Aboves : <<B, A>> \notin StrictSubsetOrdering(S)
  <2> HIDE DEF Aboves
  <2> QED
    BY <1>1, <1>2, WFMin
<1>4. PICK x \in S : A = Above(x)
  BY <1>3
<1>5. ASSUME NEW y \in S PROVE x >= y
  <2>n. x \in Nat /\ y \in Nat
    OBVIOUS
  <2> SUFFICES ASSUME y > x PROVE FALSE
    BY <2>n
  <2>1. Above(y) \subseteq Above(x) /\ y \in Above(x) /\ y \notin Above(y)
    <3>1. \A z \in S : z > y => z > x
      BY <2>n
    <3>2. ~(y > y)
      BY <2>n
    <3> QED
      BY <3>1, <3>2
  <2>2. <<Above(y), Above(x)>> \in StrictSubsetOrdering(S)
    <3>1. Above(y) \in SUBSET S /\ Above(x) \in SUBSET S /\ Above(y) # Above(x) /\ Above(y) \subseteq Above(x)
      BY <2>1
    <3> HIDE DEF Above
    <3> QED
      BY <3>1 DEF StrictSubsetOrdering
  <2> QED
    BY <1>3, <1>4, <2>2
<1> QED
  BY <1>5 DEF Max

LEMMA HighestIsNat == ASSUME TypeOK PROVE Highest \in Nat
<1>1. OnBoard(tasks) \in SUBSET (1..MaxTasks) /\ MaxTasks \in Nat
  BY Bounds DEF OnBoard, Ids
<1>2. IsFiniteSet(OnBoard(tasks))
  <2>1. IsFiniteSet(1..MaxTasks)
    BY <1>1, FS_Interval
  <2> QED
    BY <1>1, <2>1, FS_Subset
<1>3. IsFiniteSet(OnBoard(tasks) \cup {0})
  BY <1>2, FS_AddElement
<1>4. OnBoard(tasks) \cup {0} \subseteq Nat
  BY <1>1
<1> QED
  BY <1>3, <1>4, Greatest DEF Highest

-----------------------------------------------------------------------------
\* The inductive invariant

\* Two open tasks never plan the same child.
Distinct == \A t, o \in Ids :
  t # o /\ IsOpen(tasks, t) /\ IsOpen(tasks, o) => tasks[t].name # tasks[o].name

\* A child that was started under a name keeps it.
Started(c, n) == c \in Children /\ child[c].state # "none" /\ child[c].name = n

Owned == \A t \in Ids : tasks[t].stage = "launched" => Started(tasks[t].agent, tasks[t].name)
Returning == \A l \in Calls : call[l].phase = "started" => Started(call[l].agent, call[l].name)

\* A reserved name is not in use, and reserved once.
Launching(l) == call[l].phase = "reserved" /\ call[l].tool = "subagent"
Promised == \A l \in Calls : Launching(l) =>
  /\ ~Known(call[l].name)
  /\ \A m \in Calls : Launching(m) /\ m # l => call[m].name # call[l].name

Unique == \A c, d \in Children :
  /\ {child[c].state, child[d].state} \subseteq {"running", "settled"}
  /\ child[c].name = child[d].name
  => c = d

\* Slots in use, held and overdrawn: a direct message may yet wake its child.
Unreserved == {l \in Calls : call[l].phase = "direct"}
Fits ==
  /\ Cardinality(Unreserved) <= direct
  /\ Cardinality(Running) + Cardinality(Reserved) + Cardinality(Unreserved) <= Limit + direct

Board ==
  /\ tasks \in [Ids -> TaskType]
  /\ \A t \in OnBoard(tasks) : tasks[t].deps \subseteq OnBoard(tasks)
  /\ ~Cyclic(tasks) /\ Distinct
Typed ==
  /\ child \in [Children -> ChildType] /\ call \in [Calls -> CallType]
  /\ plans \in 0..MaxPlans /\ direct \in 0..MaxDirect
Named == Owned /\ Returning /\ Promised /\ Unique
IInv == Board /\ Typed /\ Named /\ Fits

-----------------------------------------------------------------------------
\* The board

\* Fewer tasks with fewer dependencies make no new cycle.
LEMMA FewerCycles ==
  ASSUME NEW old, NEW new, ~Cyclic(old), OnBoard(new) \subseteq OnBoard(old),
         \A t \in OnBoard(new) : new[t].deps \subseteq old[t].deps
  PROVE  ~Cyclic(new)
<1> SUFFICES ASSUME NEW S \in SUBSET OnBoard(new), S # {}, \A t \in S : new[t].deps \cap S # {}
             PROVE  FALSE
  BY DEF Cyclic
<1>1. S \in SUBSET OnBoard(old) /\ \A t \in S : old[t].deps \cap S # {}
  OBVIOUS
<1> QED
  BY <1>1 DEF Cyclic

\* A change of the plan keeps the board in order and launches nothing.
Replans ==
  /\ Board' /\ plans' \in 0..MaxPlans /\ UNCHANGED <<child, call, direct>>
  /\ \A t \in Ids : tasks'[t].stage = "launched" =>
       /\ tasks[t].stage = "launched"
       /\ tasks'[t].agent = tasks[t].agent /\ tasks'[t].name = tasks[t].name

LEMMA PlanCounts == ASSUME Typed, Plan PROVE plans' \in 0..MaxPlans /\ UNCHANGED <<child, call, direct>>
BY Bounds DEF Typed, Plan

LEMMA AddReplans ==
  ASSUME IInv, NEW n \in 1..MaxBatch, NEW names \in [1..n -> Names], NEW deps \in [1..n -> SUBSET Ids],
         Add(n, names, deps)
  PROVE  Replans
<1>h. PICK h : h = Highest
  OBVIOUS
<1>n. h \in Nat /\ n \in Nat
  <2>1. TypeOK
    BY DEF IInv, Board, Typed, TypeOK
  <2> QED
    BY <1>h, <2>1, HighestIsNat, Bounds
<1> DEFINE new == h + 1..h + n
           fresh(t) == [stage |-> "pending", name |-> names[t - h], deps |-> deps[t - h], agent |-> NoChild]
<1>1. /\ tasks' = [t \in Ids |-> IF t \in new THEN fresh(t) ELSE tasks[t]]
      /\ \A i \in 1..n : deps[i] \subseteq OnBoard(tasks') \ {h + i}
      /\ \A t \in new : NameFree(tasks', tasks'[t].name, t)
      /\ ~Cyclic(tasks') /\ Plan
  BY <1>h DEF Add
<1>2. \A t \in new : t - h \in 1..n /\ names[t - h] \in Names /\ deps[t - h] \in SUBSET Ids
  <2>1. \A t \in new : t - h \in 1..n
    BY <1>n
  <2> QED
    BY <2>1
<1>3. \A t \in new : /\ fresh(t) \in TaskType /\ fresh(t).stage = "pending"
                     /\ fresh(t).deps \subseteq OnBoard(tasks')
  BY <1>1, <1>2 DEF TaskType, Stages
<1>4. \A t \in Ids : tasks'[t] = IF t \in new THEN fresh(t) ELSE tasks[t]
  BY <1>1
<1> HIDE DEF new, fresh
<1>5. tasks' \in [Ids -> TaskType]
  BY <1>1, <1>3 DEF IInv, Board
<1>6. \A t \in OnBoard(tasks') : tasks'[t].deps \subseteq OnBoard(tasks')
  <2>1. OnBoard(tasks) \subseteq OnBoard(tasks')
    BY <1>3, <1>4 DEF OnBoard
  <2> QED
    BY <1>3, <1>4, <2>1 DEF IInv, Board, OnBoard
<1>7. Distinct'
  <2> SUFFICES ASSUME NEW t \in Ids, NEW o \in Ids, t # o, IsOpen(tasks', t), IsOpen(tasks', o)
               PROVE  tasks'[t].name # tasks'[o].name
    BY DEF Distinct
  <2>1. CASE t \in new
    BY <1>1, <2>1 DEF NameFree
  <2>2. CASE o \in new
    BY <1>1, <2>2 DEF NameFree
  <2>3. CASE t \notin new /\ o \notin new
    BY <1>4, <2>3 DEF IInv, Board, Distinct, IsOpen
  <2> QED
    BY <2>1, <2>2, <2>3
<1>8. \A t \in Ids : tasks'[t].stage = "launched" =>
        tasks[t].stage = "launched" /\ tasks'[t].agent = tasks[t].agent /\ tasks'[t].name = tasks[t].name
  BY <1>3, <1>4
<1> QED
  BY <1>1, <1>5, <1>6, <1>7, <1>8, PlanCounts DEF IInv, Board, Replans

\* A change that adds neither tasks nor dependencies nor open names keeps the board.
LEMMA Replanned ==
  ASSUME IInv, Plan, NEW table, tasks' = table, table \in [Ids -> TaskType],
         OnBoard(table) \subseteq OnBoard(tasks),
         \A t \in OnBoard(table) : table[t].deps \subseteq tasks[t].deps \cap OnBoard(table),
         \A t \in Ids : IsOpen(table, t) => table[t].name = tasks[t].name /\ IsOpen(tasks, t),
         \A t \in Ids : table[t].stage = "launched" =>
           tasks[t].stage = "launched" /\ table[t].agent = tasks[t].agent
  PROVE  Replans
<1>1. ~Cyclic(tasks')
  BY FewerCycles DEF IInv, Board
<1>2. Distinct'
  BY DEF IInv, Board, Distinct
<1>3. \A t \in OnBoard(tasks') : tasks'[t].deps \subseteq OnBoard(tasks')
  OBVIOUS
<1>4. \A t \in Ids : table[t].stage = "launched" => table[t].name = tasks[t].name
  BY DEF IsOpen
<1> QED
  BY <1>1, <1>2, <1>3, <1>4, PlanCounts DEF IInv, Board, Replans

LEMMA PlanReplans ==
  ASSUME IInv, NEW t \in Ids,
         \/ \E deps \in SUBSET Ids : Update(t, deps)
         \/ Complete(t) \/ Drop(t) \/ Clear
         \/ \E n \in Names : Reopen(t, n)
  PROVE  Replans
<1>b. /\ tasks \in [Ids -> TaskType] /\ ~Cyclic(tasks) /\ Distinct
      /\ \A o \in OnBoard(tasks) : tasks[o].deps \subseteq OnBoard(tasks)
  BY DEF IInv, Board
<1>1. ASSUME NEW deps \in SUBSET Ids, Update(t, deps) PROVE Replans
  <2>1. /\ tasks' = [tasks EXCEPT ![t].deps = deps] /\ tasks[t].stage = "pending"
        /\ deps \subseteq OnBoard(tasks) /\ ~Cyclic(tasks') /\ Plan
    BY <1>1 DEF Update
  <2>2. /\ tasks' \in [Ids -> TaskType] /\ tasks'[t].deps = deps
        /\ \A o \in Ids : /\ tasks'[o].stage = tasks[o].stage /\ tasks'[o].name = tasks[o].name
                          /\ tasks'[o].agent = tasks[o].agent
                          /\ o # t => tasks'[o].deps = tasks[o].deps
    BY <1>b, <2>1 DEF TaskType
  <2>3. OnBoard(tasks') = OnBoard(tasks)
    BY <2>2 DEF OnBoard
  <2>4. \A o \in OnBoard(tasks') : tasks'[o].deps \subseteq OnBoard(tasks')
    BY <1>b, <2>1, <2>2, <2>3 DEF OnBoard
  <2>5. Distinct'
    BY <1>b, <2>2 DEF Distinct, IsOpen
  <2> QED
    BY <2>1, <2>2, <2>4, <2>5, PlanCounts DEF IInv, Board, Replans
<1>2. ASSUME Complete(t) PROVE Replans
  <2>1. /\ tasks' = [tasks EXCEPT ![t].stage = "complete"] /\ tasks[t].stage = "launched" /\ Plan
    BY <1>2 DEF Complete
  <2>2. /\ tasks' \in [Ids -> TaskType] /\ tasks'[t].stage = "complete"
        /\ \A o \in Ids : /\ tasks'[o].deps = tasks[o].deps /\ tasks'[o].name = tasks[o].name
                          /\ tasks'[o].agent = tasks[o].agent
                          /\ o # t => tasks'[o].stage = tasks[o].stage
    BY <1>b, <2>1 DEF TaskType, Stages
  <2>3. OnBoard(tasks') = OnBoard(tasks)
    BY <2>1, <2>2 DEF OnBoard
  <2>4. \A o \in OnBoard(tasks') : tasks'[o].deps \subseteq tasks[o].deps \cap OnBoard(tasks')
    BY <1>b, <2>2, <2>3 DEF OnBoard
  <2>5. \A o \in Ids : IsOpen(tasks', o) => tasks'[o].name = tasks[o].name /\ IsOpen(tasks, o)
    BY <2>2 DEF IsOpen
  <2> QED
    BY <2>1, <2>2, <2>3, <2>4, <2>5, Replanned
<1>3. ASSUME Drop(t) PROVE Replans
  <2>1. /\ tasks' = [o \in Ids |-> IF o = t THEN NoTask ELSE [tasks[o] EXCEPT !.deps = Released(o, t)]] /\ Plan
    BY <1>3 DEF Drop
  <2>2. /\ tasks' \in [Ids -> TaskType] /\ tasks'[t].stage = "none"
        /\ \A o \in Ids \ {t} : /\ tasks'[o].deps = tasks[o].deps \ {t} /\ tasks'[o].name = tasks[o].name
                                /\ tasks'[o].agent = tasks[o].agent /\ tasks'[o].stage = tasks[o].stage
    BY <1>b, <2>1 DEF TaskType, NoTask, Released
  <2>3. OnBoard(tasks') = OnBoard(tasks) \ {t}
    BY <2>2 DEF OnBoard
  <2>4. \A o \in OnBoard(tasks') : tasks'[o].deps \subseteq tasks[o].deps \cap OnBoard(tasks')
    BY <1>b, <2>2, <2>3 DEF OnBoard
  <2>5. \A o \in Ids : IsOpen(tasks', o) => tasks'[o].name = tasks[o].name /\ IsOpen(tasks, o)
    BY <2>2 DEF IsOpen
  <2>6. \A o \in Ids : tasks'[o].stage = "launched" =>
          tasks[o].stage = "launched" /\ tasks'[o].agent = tasks[o].agent
    BY <2>2
  <2>7. OnBoard(tasks') \subseteq OnBoard(tasks) /\ Plan
    BY <2>1, <2>3
  <2>8. PICK table : table = tasks'
    OBVIOUS
  <2> QED
    BY <2>2, <2>4, <2>5, <2>6, <2>7, <2>8, Replanned
<1>4. ASSUME Clear PROVE Replans
  <2>1. tasks' = [o \in Ids |-> NoTask] /\ Plan
    BY <1>4 DEF Clear
  <2>2. /\ tasks' \in [Ids -> TaskType] /\ \A o \in Ids : tasks'[o].stage = "none"
    BY <2>1 DEF TaskType, NoTask
  <2>3. OnBoard(tasks') = {}
    BY <2>2 DEF OnBoard
  <2>4. \A o \in Ids : ~IsOpen(tasks', o)
    BY <2>2 DEF IsOpen
  <2> QED
    BY <2>1, <2>2, <2>3, <2>4, Replanned
<1>5. ASSUME NEW n \in Names, Reopen(t, n) PROVE Replans
  <2>1. /\ tasks' = [tasks EXCEPT ![t].stage = "pending", ![t].name = n, ![t].agent = NoChild]
        /\ tasks[t].stage \in {"launched", "complete"} /\ NameFree(tasks, n, t) /\ Plan
    BY <1>5 DEF Reopen
  <2>2. /\ tasks' \in [Ids -> TaskType] /\ tasks'[t].stage = "pending" /\ tasks'[t].name = n
        /\ \A o \in Ids : /\ tasks'[o].deps = tasks[o].deps
                          /\ o # t => tasks'[o] = tasks[o]
    <3>1. PICK row : row = [tasks[t] EXCEPT !.stage = "pending", !.name = n, !.agent = NoChild]
      OBVIOUS
    <3>2. tasks[t] \in TaskType
      BY <1>b
    <3>3. row \in TaskType /\ row.stage = "pending" /\ row.name = n /\ row.deps = tasks[t].deps
      BY <3>1, <3>2 DEF TaskType, Stages
    <3>4. tasks' = [tasks EXCEPT ![t] = row]
      BY <1>b, <2>1, <3>1
    <3> QED
      BY <1>b, <3>3, <3>4
  <2>3. OnBoard(tasks') = OnBoard(tasks)
    BY <2>1, <2>2 DEF OnBoard
  <2>4. \A o \in OnBoard(tasks') : tasks'[o].deps \subseteq OnBoard(tasks')
    BY <1>b, <2>2, <2>3 DEF OnBoard
  <2>5. ~Cyclic(tasks')
    <3>1. \A o \in OnBoard(tasks') : tasks'[o].deps \subseteq tasks[o].deps
      BY <2>2 DEF OnBoard
    <3> QED
      BY <1>b, <2>3, <3>1, FewerCycles
  <2>6. Distinct'
    BY <1>b, <2>1, <2>2 DEF Distinct, IsOpen, NameFree
  <2>7. \A o \in Ids : tasks'[o].stage = "launched" => o # t
    BY <2>2
  <2> QED
    BY <2>1, <2>2, <2>4, <2>5, <2>6, <2>7, PlanCounts DEF IInv, Board, Replans
<1> QED
  BY <1>1, <1>2, <1>3, <1>4, <1>5

LEMMA ReplansStep == IInv /\ Replans => IInv'
<1> SUFFICES ASSUME IInv, Replans PROVE IInv'
  OBVIOUS
<1>1. Board' /\ Typed'
  BY DEF IInv, Typed, Replans
<1>2. Owned'
  BY DEF IInv, Named, Owned, Started, Replans
<1>3. Returning' /\ Promised' /\ Unique'
  BY DEF IInv, Named, Returning, Started, Promised, Launching, Known, Unique, Replans
<1>4. Fits'
  BY DEF IInv, Fits, Unreserved, Running, Reserved, Replans
<1> QED
  BY <1>1, <1>2, <1>3, <1>4 DEF IInv, Named

\* The pending task of a name becomes the task of the child.
LEMMA LaunchedBoard ==
  ASSUME Board, NEW n, NEW c \in Children, Launched(n, c)
  PROVE  /\ Board'
         /\ \A t \in Ids : tasks'[t].stage = "launched" =>
              \/ tasks[t].stage = "launched" /\ tasks'[t].agent = tasks[t].agent
                 /\ tasks'[t].name = tasks[t].name
              \/ tasks'[t].agent = c /\ tasks'[t].name = n
<1>b. \A t \in Ids : tasks[t] \in TaskType
  BY DEF Board
<1>1. \A t \in Ids : tasks'[t] = IF Takes(t, n) THEN [tasks[t] EXCEPT !.stage = "launched", !.agent = c]
                               ELSE tasks[t]
  BY DEF Launched
<1>2. ASSUME NEW t \in Ids
      PROVE  /\ tasks'[t] \in TaskType
             /\ tasks'[t].deps = tasks[t].deps /\ tasks'[t].name = tasks[t].name
             /\ IF Takes(t, n) THEN tasks'[t].stage = "launched" /\ tasks'[t].agent = c
                ELSE tasks'[t].stage = tasks[t].stage /\ tasks'[t].agent = tasks[t].agent
  <2>1. CASE Takes(t, n)
    <3>1. tasks'[t] = [tasks[t] EXCEPT !.stage = "launched", !.agent = c]
      BY <1>1, <2>1
    <3> QED
      BY <1>b, <2>1, <3>1 DEF TaskType, Stages
  <2>2. CASE ~Takes(t, n)
    BY <1>b, <1>1, <2>2
  <2> QED
    BY <2>1, <2>2
<1>3. tasks' \in [Ids -> TaskType]
  BY <1>2 DEF Launched
<1>4. \A t \in Ids : Takes(t, n) => tasks[t].stage = "pending" /\ tasks[t].name = n
  BY DEF Takes
<1>5. OnBoard(tasks') = OnBoard(tasks) /\ \A t \in Ids : IsOpen(tasks', t) => IsOpen(tasks, t)
  BY <1>2, <1>4 DEF OnBoard, IsOpen
<1>6. \A t \in OnBoard(tasks') : tasks'[t].deps = tasks[t].deps
  BY <1>2 DEF OnBoard
<1>7. ~Cyclic(tasks')
  BY <1>5, <1>6, FewerCycles DEF Board
<1>8. Distinct'
  BY <1>2, <1>5 DEF Board, Distinct
<1>9. \A t \in OnBoard(tasks') : tasks'[t].deps \subseteq OnBoard(tasks')
  BY <1>5, <1>6 DEF Board
<1> QED
  BY <1>2, <1>3, <1>4, <1>7, <1>8, <1>9 DEF Board

-----------------------------------------------------------------------------
\* Slots

\* Removing or adding one element of a part of a finite set.
LEMMA Part ==
  ASSUME NEW S, IsFiniteSet(S), NEW P \in SUBSET S, NEW x
  PROVE  /\ Cardinality(P) \in Nat /\ Cardinality(P \ {x}) \in Nat /\ Cardinality(P \cup {x}) \in Nat
         /\ x \in P => Cardinality(P \ {x}) = Cardinality(P) - 1
         /\ Cardinality(P \cup {x}) <= Cardinality(P) + 1
         /\ Cardinality(P \ {x}) <= Cardinality(P)
<1>1. IsFiniteSet(P)
  BY FS_Subset
<1>2. IsFiniteSet(P \ {x}) /\ IsFiniteSet(P \cup {x})
  BY <1>1, FS_AddElement, FS_RemoveElement
<1>3. Cardinality(P) \in Nat /\ Cardinality(P \ {x}) \in Nat /\ Cardinality(P \cup {x}) \in Nat
  BY <1>1, <1>2, FS_CardinalityType
<1>4. /\ Cardinality(P \cup {x}) = IF x \in P THEN Cardinality(P) ELSE Cardinality(P) + 1
      /\ Cardinality(P \ {x}) = IF x \in P THEN Cardinality(P) - 1 ELSE Cardinality(P)
  BY <1>1, FS_AddElement, FS_RemoveElement
<1> QED
  BY <1>3, <1>4

\* One call goes on.
Goes(l, r) == call' = [call EXCEPT ![l] = r]
LEMMA CallGoes ==
  ASSUME Typed, NEW l \in Calls, NEW r \in CallType, Goes(l, r)
  PROVE  /\ call' \in [Calls -> CallType] /\ call'[l] = r /\ \A m \in Calls \ {l} : call'[m] = call[m]
         /\ Reserved' = IF r.phase = "reserved" THEN Reserved \cup {l} ELSE Reserved \ {l}
         /\ Unreserved' = IF r.phase = "direct" THEN Unreserved \cup {l} ELSE Unreserved \ {l}
<1>1. call' \in [Calls -> CallType] /\ call'[l] = r /\ \A m \in Calls \ {l} : call'[m] = call[m]
  BY DEF Typed, Goes
<1> QED
  BY <1>1 DEF Reserved, Unreserved

\* One child changes.
Turns(c, r) == child' = [child EXCEPT ![c] = r]
LEMMA ChildTurns ==
  ASSUME Typed, NEW c \in Children, NEW r \in ChildType, Turns(c, r)
  PROVE  /\ child' \in [Children -> ChildType] /\ child'[c] = r /\ \A d \in Children \ {c} : child'[d] = child[d]
         /\ Running' = IF r.state = "running" THEN Running \cup {c} ELSE Running \ {c}
<1>1. child' \in [Children -> ChildType] /\ child'[c] = r /\ \A d \in Children \ {c} : child'[d] = child[d]
  BY DEF Typed, Turns
<1> QED
  BY <1>1 DEF Running

\* The three counts, before a step.
LEMMA Counts ==
  ASSUME IInv
  PROVE  /\ Cardinality(Running) \in Nat /\ Cardinality(Reserved) \in Nat
         /\ Cardinality(Unreserved) \in Nat /\ direct \in Nat /\ Limit \in Nat
         /\ Running \in SUBSET Children /\ Reserved \in SUBSET Calls /\ Unreserved \in SUBSET Calls
         /\ Cardinality(Unreserved) <= direct
         /\ Cardinality(Running) + Cardinality(Reserved) + Cardinality(Unreserved) <= Limit + direct
<1>1. Running \in SUBSET Children /\ Reserved \in SUBSET Calls /\ Unreserved \in SUBSET Calls
  BY DEF Running, Reserved, Unreserved
<1>2. /\ Cardinality(Running) \in Nat /\ Cardinality(Reserved) \in Nat
      /\ Cardinality(Unreserved) \in Nat
  BY <1>1, Bounds, Part
<1> QED
  BY <1>1, <1>2, Bounds DEF IInv, Typed, Fits

-----------------------------------------------------------------------------
\* Calls and children

\* What becomes of a call that starts nothing, and what it takes.
Proceeds(l, r) ==
  /\ r \in CallType /\ Goes(l, r) /\ r.phase # "started"
  /\ r.phase = "reserved" =>
       /\ Cardinality(Running) + Cardinality(Reserved) < Limit /\ direct' = direct
       /\ r.tool = "subagent" => ~Known(r.name) /\ ~Pending(r.name)
  /\ r.phase = "direct" => direct' = direct + 1 /\ direct' <= MaxDirect
  /\ r.phase \in {"off", "asked"} => direct' = direct

\* A call is asked, turned away, sent directly, or fails: no name is reserved.
LEMMA CallStep ==
  ASSUME IInv, NEW l \in Calls,
         \/ \E n \in Names : AskLaunch(l, n)
         \/ \E c \in Children : AskMessage(l, c)
         \/ Admit(l) \/ Direct(l) \/ Fail(l)
  PROVE  IInv'
<1>t. Typed /\ Board /\ call[l] \in CallType /\ direct \in 0..MaxDirect /\ UNCHANGED <<tasks, child, plans>>
  BY DEF IInv, Typed, AskLaunch, AskMessage, Ask, Admit, Direct, Fail
<1> DEFINE p == call[l]
<1>1. \E r : Proceeds(l, r)
  <2>1. ASSUME NEW tool \in {"subagent", "send_message"}, NEW n \in Names \cup {NoName},
               NEW c \in Children \cup {NoChild}, Ask(l, tool, n, c)
        PROVE  \E r : Proceeds(l, r)
    <3> DEFINE r == [phase |-> "asked", tool |-> tool, name |-> n, agent |-> c]
    <3>1. r \in CallType /\ Goes(l, r) /\ r.phase = "asked" /\ direct' = direct
      BY <2>1 DEF CallType, Ask, Goes
    <3> HIDE DEF r
    <3> QED
      BY <3>1 DEF Proceeds
  <2>2. ASSUME Admit(l) PROVE \E r : Proceeds(l, r)
    <3>1. CASE call' = [call EXCEPT ![l] = NoCall]
      <4>1. NoCall \in CallType /\ Goes(l, NoCall) /\ NoCall.phase = "off" /\ direct' = direct
        BY <2>2, <3>1 DEF CallType, NoCall, Goes, Admit
      <4> QED
        BY <4>1 DEF Proceeds
    <3>2. CASE call' # [call EXCEPT ![l] = NoCall]
      <4>1. /\ call' = [call EXCEPT ![l] = [p EXCEPT !.phase = "reserved"]] /\ direct' = direct
            /\ p.tool = "subagent" => MayLaunch(p.name)
            /\ ~Full
        BY <2>2, <3>2 DEF Admit
      <4>2. PICK r : r = [p EXCEPT !.phase = "reserved"]
        OBVIOUS
      <4>3. r \in CallType /\ r.phase = "reserved" /\ r.tool = p.tool /\ r.name = p.name
        BY <1>t, <4>2 DEF CallType
      <4>4. Goes(l, r) /\ (r.tool = "subagent" => ~Known(r.name) /\ ~Pending(r.name))
        BY <4>1, <4>2, <4>3 DEF Goes, MayLaunch
      <4>5. Cardinality(Running) + Cardinality(Reserved) < Limit
        BY <4>1, Counts DEF Full
      <4> QED
        BY <4>1, <4>3, <4>4, <4>5 DEF Proceeds
    <3> QED
      BY <3>1, <3>2
  <2>3. ASSUME Direct(l) PROVE \E r : Proceeds(l, r)
    <3>1. PICK r : r = [p EXCEPT !.phase = "direct"]
      OBVIOUS
    <3>2. r \in CallType /\ r.phase = "direct"
      BY <1>t, <3>1 DEF CallType
    <3>3. Goes(l, r)
      BY <2>3, <3>1 DEF Direct, Goes
    <3>4. direct' = direct + 1 /\ direct' <= MaxDirect
      BY <2>3, <1>t, Bounds DEF Direct
    <3> QED
      BY <3>2, <3>3, <3>4 DEF Proceeds
  <2>4. ASSUME Fail(l) PROVE \E r : Proceeds(l, r)
    <3>1. NoCall \in CallType /\ Goes(l, NoCall) /\ NoCall.phase = "off" /\ direct' = direct
      BY <2>4 DEF CallType, NoCall, Goes, Fail
    <3> QED
      BY <3>1 DEF Proceeds
  <2>5. NoChild \in Children \cup {NoChild} /\ \A n \in Names : n \in Names \cup {NoName}
    OBVIOUS
  <2>6. \A c \in Children : child[c].name \in Names \cup {NoName}
    BY <1>t DEF Typed, ChildType
  <2> QED
    BY <2>1, <2>2, <2>3, <2>4, <2>5, <2>6 DEF AskLaunch, AskMessage
<1>2. PICK r : Proceeds(l, r)
  BY <1>1
<1>p. r \in CallType /\ Goes(l, r)
  BY <1>2 DEF Proceeds
<1>3. /\ call' \in [Calls -> CallType] /\ call'[l] = r /\ \A m \in Calls \ {l} : call'[m] = call[m]
      /\ Reserved' = IF r.phase = "reserved" THEN Reserved \cup {l} ELSE Reserved \ {l}
      /\ Unreserved' = IF r.phase = "direct" THEN Unreserved \cup {l} ELSE Unreserved \ {l}
  BY <1>t, <1>p, CallGoes
<1>4. r.phase \in {"off", "asked", "reserved", "direct"}
  BY <1>p, <1>2 DEF CallType, Proceeds
<1>5. Board' /\ Typed' /\ Running' = Running
  <2>1. direct' \in 0..MaxDirect
    BY <1>t, <1>2, <1>4, Bounds DEF Proceeds
  <2>2. Board'
    BY <1>t DEF Board, OnBoard, Cyclic, Distinct, IsOpen
  <2> QED
    BY <1>t, <1>3, <2>1, <2>2 DEF Typed, Running
<1>6. Named'
  <2>1. Owned' /\ Unique'
    BY <1>t DEF IInv, Named, Owned, Started, Unique
  <2>2. Returning'
    BY <1>t, <1>2, <1>3 DEF Proceeds, IInv, Named, Returning, Started
  <2>3. Promised'
    <3>1. \A n : Known(n)' <=> Known(n)
      BY <1>t DEF Known
    <3>2. \A m \in Calls \ {l} : Launching(m)' <=> Launching(m)
      BY <1>3 DEF Launching
    <3>3. Launching(l)' => /\ ~Known(r.name)
                           /\ \A m \in Calls \ {l} : Launching(m) => call[m].name # r.name
      BY <1>2, <1>3 DEF Proceeds, Launching, Pending, Reserved
    <3> QED
      BY <1>3, <3>1, <3>2, <3>3 DEF IInv, Named, Promised
  <2> QED
    BY <2>1, <2>2, <2>3 DEF Named
<1>7. Fits'
  <2>n. IsFiniteSet(Calls)
    BY Bounds
  <2>1. CASE r.phase = "reserved"
    <3>1. Reserved' = Reserved \cup {l} /\ Unreserved' = Unreserved \ {l} /\ direct' = direct
          /\ Cardinality(Running) + Cardinality(Reserved) < Limit
      BY <1>2, <1>3, <2>1 DEF Proceeds
    <3>2. /\ Cardinality(Reserved') <= Cardinality(Reserved) + 1 /\ Cardinality(Reserved') \in Nat
          /\ Cardinality(Unreserved') <= Cardinality(Unreserved) /\ Cardinality(Unreserved') \in Nat
      BY <2>n, <3>1, Part, Counts
    <3> QED
      BY <1>5, <3>1, <3>2, Counts DEF Fits
  <2>2. CASE r.phase = "direct"
    <3>1. Reserved' = Reserved \ {l} /\ Unreserved' = Unreserved \cup {l} /\ direct' = direct + 1
      BY <1>2, <1>3, <2>2 DEF Proceeds
    <3>2. /\ Cardinality(Reserved') <= Cardinality(Reserved) /\ Cardinality(Reserved') \in Nat
          /\ Cardinality(Unreserved') <= Cardinality(Unreserved) + 1 /\ Cardinality(Unreserved') \in Nat
      BY <2>n, <3>1, Part, Counts
    <3> QED
      BY <1>5, <3>1, <3>2, Counts DEF Fits
  <2>3. CASE r.phase \in {"off", "asked"}
    <3>1. Reserved' = Reserved \ {l} /\ Unreserved' = Unreserved \ {l} /\ direct' = direct
      BY <1>2, <1>3, <2>3 DEF Proceeds
    <3>2. /\ Cardinality(Reserved') <= Cardinality(Reserved) /\ Cardinality(Reserved') \in Nat
          /\ Cardinality(Unreserved') <= Cardinality(Unreserved) /\ Cardinality(Unreserved') \in Nat
      BY <2>n, <3>1, Part, Counts
    <3> QED
      BY <1>5, <3>1, <3>2, Counts DEF Fits
  <2> QED
    BY <1>4, <2>1, <2>2, <2>3
<1> QED
  BY <1>5, <1>6, <1>7 DEF IInv

\* Started, after the step.
Stays(c, n) == c \in Children /\ child'[c].state # "none" /\ child'[c].name = n

\* A child starts: it takes the reserved name, the slot and the task.
LEMMA StartStep == ASSUME IInv, NEW l \in Calls, NEW c \in Children, Start(l, c) PROVE IInv'
<1> DEFINE p == call[l]
<1>n. PICK n : n = p.name
  OBVIOUS
<1>t. Typed /\ Board /\ p \in CallType
  BY DEF IInv, Typed
<1>1. /\ p.phase = "reserved" /\ p.tool = "subagent" /\ child[c].state = "none"
      /\ Turns(c, [state |-> "running", name |-> n]) /\ Launched(n, c)
      /\ call' = [call EXCEPT ![l].phase = "started", ![l].agent = c] /\ UNCHANGED <<plans, direct>>
  BY <1>n DEF Start, Turns
<1>2. PICK r : r = [p EXCEPT !.phase = "started", !.agent = c]
  OBVIOUS
<1>3. r \in CallType /\ r.phase = "started" /\ r.agent = c /\ r.name = n
  BY <1>n, <1>t, <1>2 DEF CallType
<1>4. Goes(l, r)
  BY <1>1, <1>2 DEF Goes
<1>5. /\ call' \in [Calls -> CallType] /\ call'[l] = r /\ \A m \in Calls \ {l} : call'[m] = call[m]
      /\ Reserved' = Reserved \ {l} /\ Unreserved' = Unreserved \ {l}
  BY <1>t, <1>3, <1>4, CallGoes
<1>6. PICK q : q = [state |-> "running", name |-> n]
  OBVIOUS
<1>7. q \in ChildType /\ q.state = "running" /\ q.name = n
  BY <1>n, <1>t, <1>6 DEF CallType, ChildType
<1>8. /\ child' \in [Children -> ChildType] /\ child'[c] = q
      /\ \A d \in Children \ {c} : child'[d] = child[d]
      /\ Running' = Running \cup {c}
  BY <1>t, <1>1, <1>6, <1>7, ChildTurns
<1>9. /\ Board'
      /\ \A t \in Ids : tasks'[t].stage = "launched" =>
           \/ /\ tasks[t].stage = "launched" /\ tasks'[t].agent = tasks[t].agent
              /\ tasks'[t].name = tasks[t].name
           \/ tasks'[t].agent = c /\ tasks'[t].name = n
  BY <1>t, <1>1, LaunchedBoard
<1>10. Typed'
  BY <1>t, <1>1, <1>5, <1>8 DEF Typed
<1>s. /\ Stays(c, n) /\ \A d, m : Started(d, m) => Stays(d, m)
  BY <1>1, <1>7, <1>8 DEF Started, Stays
<1>u. ~Known(n) /\ \A m \in Calls \ {l} : Launching(m) => call[m].name # n
  <2>1. Launching(l)
    BY <1>1 DEF Launching
  <2> QED
    BY <1>n, <2>1 DEF IInv, Named, Promised
<1>11. Owned'
  <2> SUFFICES ASSUME NEW t \in Ids, tasks'[t].stage = "launched"
               PROVE  Stays(tasks'[t].agent, tasks'[t].name)
    BY DEF Owned, Started, Stays
  <2>1. CASE tasks[t].stage = "launched" /\ tasks'[t].agent = tasks[t].agent /\ tasks'[t].name = tasks[t].name
    <3>1. Started(tasks[t].agent, tasks[t].name)
      BY <2>1 DEF IInv, Named, Owned
    <3>2. PICK d, m : d = tasks[t].agent /\ m = tasks[t].name
      OBVIOUS
    <3>3. Stays(d, m)
      BY <1>s, <3>1, <3>2
    <3> QED
      BY <2>1, <3>2, <3>3
  <2>2. CASE tasks'[t].agent = c /\ tasks'[t].name = n
    BY <1>s, <2>2
  <2> QED
    BY <1>9, <2>1, <2>2
<1>12. Returning'
  <2> SUFFICES ASSUME NEW m \in Calls, call'[m].phase = "started"
               PROVE  Stays(call'[m].agent, call'[m].name)
    BY DEF Returning, Started, Stays
  <2>1. CASE m = l
    BY <1>3, <1>5, <1>s, <2>1
  <2>2. CASE m # l
    <3>1. call'[m] = call[m] /\ Started(call[m].agent, call[m].name)
      BY <1>5, <2>2 DEF IInv, Named, Returning
    <3>2. PICK d, k : d = call[m].agent /\ k = call[m].name
      OBVIOUS
    <3>3. Stays(d, k)
      BY <1>s, <3>1, <3>2
    <3> QED
      BY <3>1, <3>2, <3>3
  <2> QED
    BY <2>1, <2>2
<1>13. Promised'
  <2>1. \A m \in Calls : Launching(m)' => m # l /\ Launching(m) /\ call'[m] = call[m]
    BY <1>3, <1>5 DEF Launching
  <2>2. \A k : Known(k)' => Known(k) \/ k = n
    BY <1>7, <1>8 DEF Known
  <2> QED
    BY <1>u, <2>1, <2>2 DEF IInv, Named, Promised
<1>14. Unique'
  <2> SUFFICES ASSUME NEW d \in Children, NEW e \in Children,
                      {child'[d].state, child'[e].state} \subseteq {"running", "settled"},
                      child'[d].name = child'[e].name
               PROVE  d = e
    BY DEF Unique
  <2>1. CASE d = c /\ e # c
    BY <1>u, <1>7, <1>8, <2>1 DEF Known
  <2>2. CASE e = c /\ d # c
    BY <1>u, <1>7, <1>8, <2>2 DEF Known
  <2>3. CASE d # c /\ e # c
    BY <1>8, <2>3 DEF IInv, Named, Unique
  <2> QED
    BY <2>1, <2>2, <2>3
<1>15. Fits'
  <2>1. l \in Reserved /\ IsFiniteSet(Calls) /\ IsFiniteSet(Children)
    BY <1>1, Bounds DEF Reserved
  <2>2. /\ Cardinality(Reserved') = Cardinality(Reserved) - 1 /\ Cardinality(Reserved') \in Nat
        /\ Cardinality(Unreserved') <= Cardinality(Unreserved) /\ Cardinality(Unreserved') \in Nat
        /\ Cardinality(Running') <= Cardinality(Running) + 1 /\ Cardinality(Running') \in Nat
    BY <1>5, <1>8, <2>1, Part, Counts
  <2> QED
    BY <1>1, <2>2, Counts DEF Fits
<1> QED
  BY <1>9, <1>10, <1>11, <1>12, <1>13, <1>14, <1>15 DEF IInv, Named

\* A call returns: a task that was planned under the name meanwhile is its child's too.
LEMMA ReturnStep == ASSUME IInv, NEW l \in Calls, Return(l) PROVE IInv'
<1>n. PICK n, c : n = call[l].name /\ c = call[l].agent
  OBVIOUS
<1>t. Typed /\ Board
  BY DEF IInv
<1>1. call[l].phase = "started" /\ Launched(n, c) /\ Goes(l, NoCall) /\ UNCHANGED <<child, plans, direct>>
  BY <1>n DEF Return, Goes
<1>2. Started(c, n) /\ c \in Children
  BY <1>n, <1>1 DEF IInv, Named, Returning, Started
<1>3. NoCall \in CallType /\ NoCall.phase = "off"
  BY DEF CallType, NoCall
<1>5. /\ call' \in [Calls -> CallType] /\ call'[l] = NoCall /\ \A m \in Calls \ {l} : call'[m] = call[m]
      /\ Reserved' = Reserved \ {l} /\ Unreserved' = Unreserved \ {l}
  BY <1>t, <1>1, <1>3, CallGoes
<1>9. /\ Board'
      /\ \A t \in Ids : tasks'[t].stage = "launched" =>
           \/ /\ tasks[t].stage = "launched" /\ tasks'[t].agent = tasks[t].agent
              /\ tasks'[t].name = tasks[t].name
           \/ tasks'[t].agent = c /\ tasks'[t].name = n
  BY <1>t, <1>1, <1>2, LaunchedBoard
<1>10. Typed'
  BY <1>t, <1>1, <1>5 DEF Typed
<1>11. Owned' /\ Unique'
  BY <1>1, <1>2, <1>9 DEF IInv, Named, Owned, Started, Unique
<1>12. Returning'
  BY <1>1, <1>3, <1>5 DEF IInv, Named, Returning, Started
<1>13. Promised'
  <2>1. \A m \in Calls : Launching(m)' => m # l /\ Launching(m) /\ call'[m] = call[m]
    BY <1>3, <1>5 DEF Launching
  <2>2. \A k : Known(k)' => Known(k)
    BY <1>1 DEF Known
  <2> QED
    BY <2>1, <2>2 DEF IInv, Named, Promised
<1>15. Fits'
  <2>1. IsFiniteSet(Calls) /\ Running' = Running
    BY <1>1, Bounds DEF Running
  <2>2. /\ Cardinality(Reserved') <= Cardinality(Reserved) /\ Cardinality(Reserved') \in Nat
        /\ Cardinality(Unreserved') <= Cardinality(Unreserved) /\ Cardinality(Unreserved') \in Nat
    BY <1>5, <2>1, Part, Counts
  <2> QED
    BY <1>1, <2>1, <2>2, Counts DEF Fits
<1> QED
  BY <1>9, <1>10, <1>11, <1>12, <1>13, <1>15 DEF IInv, Named

\* A child that has started settles, wakes or is disposed of: names stay theirs.
LEMMA ChildStep ==
  ASSUME IInv, Typed', UNCHANGED tasks, NEW c \in Children, NEW state,
         child[c].state \in {"running", "settled"}, state \in {"running", "settled", "gone"},
         child'[c].state = state, child'[c].name = child[c].name,
         \A d \in Children \ {c} : child'[d] = child[d],
         \A l \in Calls : call'[l] # call[l] => call'[l].phase = "off"
  PROVE  Board' /\ Named'
<1>1. Board'
  BY DEF IInv, Board, OnBoard, Cyclic, Distinct, IsOpen
<1>2. \A d \in Children : /\ child'[d].name = child[d].name
                          /\ child[d].state # "none" => child'[d].state # "none"
                          /\ child'[d].state \in {"running", "settled"} => child[d].state \in {"running", "settled"}
  OBVIOUS
<1>3. Owned' /\ Returning'
  BY <1>2 DEF IInv, Named, Owned, Returning, Started
<1>4. Unique'
  BY <1>2 DEF IInv, Named, Unique
<1>5. Promised'
  <2>1. \A n : Known(n)' => Known(n)
    BY <1>2 DEF Known
  <2>2. \A l \in Calls : Launching(l)' => Launching(l) /\ call'[l] = call[l]
    BY DEF Launching
  <2> QED
    BY <2>1, <2>2 DEF IInv, Named, Promised
<1> QED
  BY <1>1, <1>3, <1>4, <1>5 DEF Named

LEMMA DeliverStep == ASSUME IInv, NEW l \in Calls, Deliver(l) PROVE IInv'
<1>c. PICK c : c = call[l].agent
  OBVIOUS
<1>t. Typed /\ Board /\ call[l] \in CallType /\ c \in Children \cup {NoChild}
  BY <1>c DEF IInv, Typed, CallType
<1>1. /\ call[l].phase \in {"reserved", "direct"} /\ child[c].state \in {"running", "settled"}
      /\ child' = [child EXCEPT ![c].state = "running"] /\ Goes(l, NoCall)
      /\ UNCHANGED <<tasks, plans, direct>>
  BY <1>c DEF Deliver, Goes
<1>3. NoCall \in CallType /\ NoCall.phase = "off"
  BY DEF CallType, NoCall
<1>5. /\ call' \in [Calls -> CallType] /\ call'[l] = NoCall /\ \A m \in Calls \ {l} : call'[m] = call[m]
      /\ Reserved' = Reserved \ {l} /\ Unreserved' = Unreserved \ {l}
  BY <1>t, <1>1, <1>3, CallGoes
<1>6. /\ child' \in [Children -> ChildType] /\ Running' \in SUBSET (Running \cup {c})
      /\ Board' /\ (Typed' => Named')
  <2>1. CASE c \in Children
    <3>1. PICK r : r = [child[c] EXCEPT !.state = "running"]
      OBVIOUS
    <3>2. r \in ChildType /\ r.state = "running" /\ r.name = child[c].name
      BY <1>t, <2>1, <3>1 DEF Typed, ChildType
    <3>3. Turns(c, r)
      BY <1>1, <3>1 DEF Turns
    <3>4. /\ child' \in [Children -> ChildType] /\ child'[c] = r
          /\ \A d \in Children \ {c} : child'[d] = child[d] /\ Running' = Running \cup {c}
      BY <1>t, <2>1, <3>2, <3>3, ChildTurns
    <3>5. Typed'
      BY <1>t, <1>1, <1>5, <3>4 DEF Typed
    <3>6. \A m \in Calls : call'[m] # call[m] => call'[m].phase = "off"
      BY <1>3, <1>5
    <3>7. Board' /\ Named'
      BY <1>1, <2>1, <3>2, <3>4, <3>5, <3>6, ChildStep
    <3>8. Running' = Running \cup {c}
      <4>1. \A d \in Children : child'[d].state = "running" <=> d \in Running \/ d = c
        BY <3>2, <3>4 DEF Running
      <4> QED
        BY <2>1, <4>1 DEF Running
    <3> QED
      BY <3>4, <3>7, <3>8
  <2>2. CASE c \notin Children
    <3>1. child' = child
      BY <1>t, <1>1, <2>2 DEF Typed
    <3>2. Board'
      BY <1>1 DEF IInv, Board, OnBoard, Cyclic, Distinct, IsOpen
    <3>3. Owned' /\ Unique'
      BY <1>1, <3>1 DEF IInv, Named, Owned, Started, Unique
    <3>4. Returning'
      BY <1>3, <1>5, <3>1 DEF IInv, Named, Returning, Started
    <3>5. Promised'
      <4>1. \A m \in Calls : Launching(m)' => m # l /\ Launching(m) /\ call'[m] = call[m]
        BY <1>3, <1>5 DEF Launching
      <4>2. \A k : Known(k)' => Known(k)
        BY <3>1 DEF Known
      <4> QED
        BY <4>1, <4>2 DEF IInv, Named, Promised
    <3>6. child' \in [Children -> ChildType] /\ Running' = Running
      BY <1>t, <3>1 DEF Typed, Running
    <3> QED
      BY <3>2, <3>3, <3>4, <3>5, <3>6 DEF Named
  <2> QED
    BY <2>1, <2>2
<1>7. Typed'
  BY <1>t, <1>1, <1>5, <1>6 DEF Typed
<1>8. Fits'
  <2>1. IsFiniteSet(Calls) /\ IsFiniteSet(Children)
    BY Bounds
  <2>2. /\ Cardinality(Reserved \ {l}) \in Nat /\ Cardinality(Unreserved \ {l}) \in Nat
        /\ l \in Reserved => Cardinality(Reserved \ {l}) = Cardinality(Reserved) - 1
        /\ l \in Unreserved => Cardinality(Unreserved \ {l}) = Cardinality(Unreserved) - 1
        /\ Cardinality(Reserved \ {l}) <= Cardinality(Reserved)
        /\ Cardinality(Unreserved \ {l}) <= Cardinality(Unreserved)
    BY <2>1, Part, Counts
  <2>3. l \in Reserved \/ l \in Unreserved
    BY <1>1 DEF Reserved, Unreserved
  <2>4. Cardinality(Running') <= Cardinality(Running) + 1 /\ Cardinality(Running') \in Nat
    <3>1. IsFiniteSet(Running)
      BY <2>1, Counts, FS_Subset
    <3>2. /\ IsFiniteSet(Running \cup {c})
          /\ Cardinality(Running \cup {c}) = IF c \in Running THEN Cardinality(Running) ELSE Cardinality(Running) + 1
      BY <3>1, FS_AddElement
    <3>3. IsFiniteSet(Running') /\ Cardinality(Running') <= Cardinality(Running \cup {c})
      BY <1>6, <3>2, FS_Subset
    <3>4. Cardinality(Running') \in Nat
      BY <3>3, FS_CardinalityType
    <3> QED
      BY <3>2, <3>3, <3>4, Counts
  <2> QED
    BY <1>1, <1>5, <2>2, <2>3, <2>4, Counts DEF Fits
<1> QED
  BY <1>6, <1>7, <1>8 DEF IInv

LEMMA SettleStep == ASSUME IInv, NEW c \in Children, Settle(c) \/ Dispose(c) PROVE IInv'
<1>t. Typed
  BY DEF IInv
<1>1. PICK state \in {"settled", "gone"} :
        /\ child[c].state \in {"running", "settled"}
        /\ child' = [child EXCEPT ![c].state = state]
        /\ UNCHANGED <<tasks, call, plans, direct>>
  BY DEF Settle, Dispose
<1>2. PICK r : r = [child[c] EXCEPT !.state = state]
  OBVIOUS
<1>3. r \in ChildType /\ r.state = state /\ r.name = child[c].name
  BY <1>t, <1>2 DEF Typed, ChildType
<1>4. Turns(c, r)
  BY <1>1, <1>2 DEF Turns
<1>5. /\ child' \in [Children -> ChildType] /\ child'[c] = r
      /\ \A d \in Children \ {c} : child'[d] = child[d]
      /\ Running' = Running \ {c}
  BY <1>t, <1>3, <1>4, ChildTurns
<1>6. Typed'
  BY <1>t, <1>1, <1>5 DEF Typed
<1>7. Board' /\ Named'
  <2>1. state \in {"running", "settled", "gone"} /\ UNCHANGED tasks /\ UNCHANGED call
    BY <1>1
  <2>2. child'[c].state = state /\ child'[c].name = child[c].name
    BY <1>3, <1>5
  <2> QED
    BY <1>1, <1>5, <1>6, <2>1, <2>2, ChildStep
<1>8. Fits'
  <2>1. Cardinality(Running') <= Cardinality(Running) /\ Cardinality(Running') \in Nat
    BY <1>5, Bounds, Part, Counts
  <2>2. Reserved' = Reserved /\ Unreserved' = Unreserved /\ direct' = direct
    BY <1>1 DEF Reserved, Unreserved
  <2> QED
    BY <2>1, <2>2, Counts DEF Fits
<1> QED
  BY <1>6, <1>7, <1>8 DEF IInv

-----------------------------------------------------------------------------
\* The invariant is inductive

LEMMA Initially == Init => IInv
<1> SUFFICES ASSUME Init PROVE IInv
  OBVIOUS
<1>1. /\ \A t \in Ids : tasks[t] = NoTask
      /\ \A c \in Children : child[c].state = "none"
      /\ \A l \in Calls : call[l].phase = "off"
  BY DEF Init, NoCall
<1>2. OnBoard(tasks) = {} /\ \A t \in Ids : tasks[t].stage = "none"
  BY <1>1 DEF OnBoard, NoTask
<1>3. Board
  <2>1. tasks \in [Ids -> TaskType]
    BY DEF Init, TaskType, NoTask
  <2>2. ~Cyclic(tasks)
    BY <1>2 DEF Cyclic
  <2>3. Distinct
    BY <1>2 DEF Distinct, IsOpen
  <2> QED
    BY <1>2, <2>1, <2>2, <2>3 DEF Board
<1>4. Typed
  BY Bounds DEF Init, Typed, ChildType, CallType, NoCall
<1>5. Named
  <2>1. Owned /\ Returning
    BY <1>1, <1>2 DEF Owned, Returning
  <2>2. Promised
    BY <1>1 DEF Promised, Launching
  <2>3. Unique
    BY <1>1 DEF Unique
  <2> QED
    BY <2>1, <2>2, <2>3 DEF Named
<1>6. Fits
  <2>1. Running = {} /\ Reserved = {} /\ Unreserved = {}
    BY <1>1 DEF Running, Reserved, Unreserved
  <2>2. Cardinality({}) = 0
    BY FS_EmptySet
  <2> QED
    BY <2>1, <2>2, Bounds DEF Init, Fits
<1> QED
  BY <1>3, <1>4, <1>5, <1>6 DEF IInv

LEMMA Unchanged == ASSUME IInv, UNCHANGED vars PROVE IInv'
<1>1. Board' /\ Typed'
  BY DEF IInv, Board, Typed, OnBoard, Cyclic, Distinct, IsOpen, vars
<1>2. Named'
  BY DEF IInv, Named, Owned, Started, Returning, Promised, Launching, Known, Unique, vars
<1>3. Fits'
  BY DEF IInv, Fits, Unreserved, Running, Reserved, vars
<1> QED
  BY <1>1, <1>2, <1>3 DEF IInv

LEMMA InductiveStep == IInv /\ [Next]_vars => IInv'
<1> SUFFICES ASSUME IInv, [Next]_vars PROVE IInv'
  OBVIOUS
<1>1. ASSUME NEW n \in 1..MaxBatch, NEW names \in [1..n -> Names], NEW deps \in [1..n -> SUBSET Ids],
             Add(n, names, deps)
      PROVE  IInv'
  <2>1. Replans
    BY <1>1, AddReplans
  <2> QED
    BY <2>1, ReplansStep
<1>2. ASSUME NEW t \in Ids,
             \/ \E deps \in SUBSET Ids : Update(t, deps)
             \/ Complete(t) \/ Drop(t)
             \/ \E n \in Names : Reopen(t, n)
      PROVE  IInv'
  <2>1. Replans
    BY <1>2, PlanReplans
  <2> QED
    BY <2>1, ReplansStep
<1>3. CASE Clear
  <2>1. PICK t : t \in Ids
    BY <1>3 DEF Clear, OnBoard
  <2>2. Replans
    BY <1>3, <2>1, PlanReplans
  <2> QED
    BY <2>2, ReplansStep
<1>4. ASSUME NEW l \in Calls, \/ \E n \in Names : AskLaunch(l, n)
                              \/ \E c \in Children : AskMessage(l, c)
                              \/ Admit(l) \/ Direct(l) \/ Fail(l)
      PROVE  IInv'
  BY <1>4, CallStep
<1>5. ASSUME NEW l \in Calls, NEW c \in Children, Start(l, c) PROVE IInv'
  BY <1>5, StartStep
<1>6. ASSUME NEW l \in Calls, Return(l) PROVE IInv'
  BY <1>6, ReturnStep
<1>7. ASSUME NEW l \in Calls, Deliver(l) PROVE IInv'
  BY <1>7, DeliverStep
<1>8. ASSUME NEW c \in Children, Settle(c) \/ Dispose(c) PROVE IInv'
  BY <1>8, SettleStep
<1>9. CASE UNCHANGED vars
  BY <1>9, Unchanged
<1> QED
  BY <1>1, <1>2, <1>3, <1>4, <1>5, <1>6, <1>7, <1>8, <1>9 DEF Next

\* The plan, the names, the calls and the slots are in order together, whatever calls
\* overlap: a launch relies on the name it reserved, a task on the child that took it
\* (board.mjs, and the hooks of tools/execute and subagent/start in index.mjs).
THEOREM Inductive == Spec => []IInv
<1> QED
  BY Initially, InductiveStep, PTL DEF Spec

\* The board, the children and the calls keep their shape, and a dependency names a task on
\* the board: drop() takes the id out of every list, so an id that comes back is not waited
\* for by mistake (board.mjs, drop and add).
THEOREM TypeCorrect == Spec => []TypeOK
<1>1. IInv => TypeOK
  BY DEF IInv, Board, Typed, TypeOK
<1> QED
  BY Inductive, <1>1, PTL

\* The pending tasks are no cycle: one of them waits for no pending task, so it is ready or
\* waits for one that is launched (board.mjs, acyclic and blockers).
THEOREM PlanAlwaysGoesOn == Spec => []PlanGoesOn
<1>1. ASSUME IInv PROVE PlanGoesOn
  <2> DEFINE S == {t \in Ids : tasks[t].stage = "pending"}
  <2> SUFFICES ASSUME S # {},
                      \A t \in S : Blockers(tasks, t) # {},
                      \A t \in Ids : tasks[t].stage # "launched"
               PROVE  FALSE
    BY DEF PlanGoesOn
  <2>1. /\ \A t \in Ids : tasks[t].stage \in Stages \cup {"none"}
        /\ \A t \in OnBoard(tasks) : tasks[t].deps \subseteq OnBoard(tasks)
        /\ ~Cyclic(tasks)
    BY <1>1 DEF IInv, Board, TaskType
  <2>2. S \in SUBSET OnBoard(tasks)
    BY DEF OnBoard
  <2>3. ASSUME NEW t \in S PROVE tasks[t].deps \cap S # {}
    <3>1. PICK d \in tasks[t].deps : tasks[d].stage # "complete"
      BY DEF Blockers
    <3>2. d \in Ids /\ tasks[d].stage # "none"
      BY <2>1, <2>2, <3>1 DEF OnBoard
    <3>3. tasks[d].stage = "pending"
      BY <2>1, <3>1, <3>2 DEF Stages
    <3> QED
      BY <3>1, <3>2, <3>3
  <2> QED
    BY <2>1, <2>2, <2>3 DEF Cyclic
<1> QED
  BY Inductive, <1>1, PTL

\* A launched task has a child of its own, started under its name, and a name means one
\* live child: checkName(), the reservation and "Child name ... is already used"
\* hold together over calls that overlap and return late (index.mjs, tools/execute).
THEOREM EachTaskItsChild == Spec => []OwnChild
<1>1. ASSUME IInv PROVE OwnChild
  <2>1. Owned /\ Unique /\ Distinct
    BY <1>1 DEF IInv, Named, Board
  <2>2. ASSUME NEW t \in Ids, tasks[t].stage = "launched"
        PROVE  /\ tasks[t].agent # NoChild /\ child[tasks[t].agent].name = tasks[t].name
               /\ \A o \in Ids \ {t} : tasks[o].stage = "launched" => tasks[o].agent # tasks[t].agent
    <3>1. Started(tasks[t].agent, tasks[t].name)
      BY <2>1, <2>2 DEF Owned
    <3>2. ASSUME NEW o \in Ids \ {t}, tasks[o].stage = "launched" PROVE tasks[o].agent # tasks[t].agent
      <4>1. Started(tasks[o].agent, tasks[o].name)
        BY <2>1, <3>2 DEF Owned
      <4>2. tasks[o].name # tasks[t].name
        BY <2>1, <2>2, <3>2 DEF Distinct, IsOpen
      <4> QED
        BY <3>1, <4>1, <4>2 DEF Started
    <3> QED
      BY <3>1, <3>2, Bounds DEF Started
  <2> QED
    BY <2>1, <2>2 DEF OwnChild, Unique
<1> QED
  BY Inductive, <1>1, PTL

\* Reservations keep launches and wakes within the limit, whatever is in progress: a child
\* above it was woken by a message that was sent while it still ran (index.mjs, tools/execute).
THEOREM LimitHolds == Spec => []OnlyDirectExceeds
<1>1. ASSUME IInv PROVE OnlyDirectExceeds
  <2>1. direct \in Nat /\ Limit \in Nat
    BY <1>1, Bounds DEF IInv, Typed
  <2> QED
    BY <1>1, <2>1, Counts DEF IInv, Fits, OnlyDirectExceeds
<1> QED
  BY Inductive, <1>1, PTL
=============================================================================
