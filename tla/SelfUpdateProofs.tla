--------------------------- MODULE SelfUpdateProofs ---------------------------
(* Theorems about updates of a tar installation and of a checkout, for every  *)
(* set of updaters and releases.                                              *)
EXTENDS SelfUpdate, TLAPS

\* Where an updater of each kind can be.
Pulling == {"pull", "compare", "ci", "installing", "setup"}
Staging == {"stage", "install", "recheck", "aside", "in"}

\* What an updater has in its hands, by its phase.
Carries(u) ==
  /\ phase[u] \in Pulling => checkout
  /\ phase[u] \in Staging => ~checkout
  /\ phase[u] \in Pulling \cup {"idle", "current", "busy", "stage", "failed", "started", "updated"} => staged[u] = Nothing
  /\ phase[u] \in {"install", "recheck", "aside", "in"} => staged[u] # Nothing
  /\ phase[u] \in {"recheck", "aside", "in"} => staged[u].deps = staged[u].version
  /\ phase[u] \in {"idle", "stage", "install", "recheck", "aside"} => backup[u] = Nothing
  /\ phase[u] = "in" => backup[u] # Nothing
  /\ backup[u] # Nothing => backup[u].deps = backup[u].version /\ ~checkout
  /\ staged[u] # Nothing => to[u] # Nothing

Carried == \A u \in Updaters : Carries(u)

\* Where the update of a checkout stands against the tree: HEAD has not gone back since it
\* was read; the dependencies being installed are those of the tree, unless the updater
\* is mixed up with another.
Paces(u) ==
  /\ phase[u] \in {"pull", "compare"} => from[u] \in Versions /\ from[u] <= installed.version
  /\ phase[u] \in Pulling \ {"pull"} => to[u] # Nothing
  /\ phase[u] = "installing" /\ u \notin mixed => to[u] = installed.version
  /\ u \in mixed => phase[u] \in {"installing", "setup", "updated", "failed", "killed"}

Paced == checkout => \A u \in Updaters : Paces(u)

\* A checkout is updated in place; a tree that was swapped in has its dependencies.
InPlace ==
  /\ checkout => installed # Nothing
  /\ ~checkout /\ installed # Nothing => installed.deps = installed.version

IInv == TypeOK /\ Carried /\ Paced /\ InPlace /\ PathServed /\ DependenciesMatch /\ HomeOutlivesUpdates

LEMMA Absent == Versions \subseteq Nat /\ Nothing \notin Versions /\ Nothing \notin Tree
BY UpdateAssumption

-----------------------------------------------------------------------------
\* Trees

Holds(place) == place # Nothing /\ place.home = "user"

LEMMA Shapes ==
  ASSUME NEW tree \in Tree
  PROVE  /\ tree # Nothing /\ tree.version \in Versions
         /\ \A v \in Versions : \A t : t = [tree EXCEPT !.version = v] =>
              t \in Tree /\ t.home = tree.home /\ t.deps = tree.deps /\ t.version = v
         /\ \A t : t = [tree EXCEPT !.home = "none"] =>
              t \in Tree /\ t.deps = tree.deps /\ t.version = tree.version
         /\ \A t : t = WithHome(tree) =>
              /\ t \in Tree /\ t.deps = tree.deps /\ t.version = tree.version
              /\ tree.home = "user" => t.home = "user"
         /\ \A t : t = Provisioned(tree) =>
              /\ t \in Tree /\ t.deps = t.version
              /\ tree.home = "user" => t.home = "user"
<1>1. tree # Nothing
  BY Absent
<1>2. /\ tree.version \in Versions /\ tree.deps \in Versions \cup {Nothing}
      /\ tree.home \in {"user", "fresh", "none"}
  BY DEF Tree
<1>3. ASSUME NEW t, t = Provisioned(tree)
      PROVE  t \in Tree /\ t.deps = t.version /\ (tree.home = "user" => t.home = "user")
  BY <1>2, <1>3 DEF Provisioned, WithHome, Tree
<1>4. \A v \in Versions : \A t : t = [tree EXCEPT !.version = v] =>
        t \in Tree /\ t.home = tree.home /\ t.deps = tree.deps /\ t.version = v
  BY DEF Tree
<1>6. \A t : t = [tree EXCEPT !.home = "none"] =>
              t \in Tree /\ t.deps = tree.deps /\ t.version = tree.version
  BY DEF Tree
<1>7. \A t : t = WithHome(tree) =>
              /\ t \in Tree /\ t.deps = tree.deps /\ t.version = tree.version
              /\ tree.home = "user" => t.home = "user"
  BY <1>2 DEF Tree, WithHome
<1> QED
  BY <1>1, <1>2, <1>3, <1>4, <1>6, <1>7

LEMMA DepsShape ==
  ASSUME NEW tree \in Tree, NEW d \in Versions \cup {Nothing}, NEW t, t = [tree EXCEPT !.deps = d]
  PROVE  t \in Tree /\ t.home = tree.home /\ t.deps = d /\ t.version = tree.version
BY DEF Tree

\* Somewhere is the user's state, or an updater that had taken it has ended without its swap.
HomeKept == Holds(installed) \/ \E u \in Updaters : Holds(staged[u]) \/ Holds(backup[u])
Lost == \E u \in Updaters : to[u] # Nothing /\ phase[u] \in {"failed", "started"}

LEMMA HomeIs == HomeOutlivesUpdates <=> HomeKept \/ Lost
<1>1. (\E t \in Trees : t.home = "user") <=> HomeKept
  BY DEF Trees, HomeKept, Holds
<1> QED
  BY <1>1 DEF HomeOutlivesUpdates, Lost

LEMMA Initially == Init => IInv
<1> SUFFICES ASSUME Init PROVE IInv
  OBVIOUS
<1>1. PICK v \in Versions : installed = [version |-> v, deps |-> v, home |-> "user"]
  BY DEF Init
<1>2. installed \in Tree /\ installed.deps = installed.version /\ installed.home = "user"
  BY <1>1 DEF Tree
<1>3. installed # Nothing
  BY <1>2, Absent
<1>4. TypeOK
  BY <1>2 DEF Init, TypeOK, Places
<1>5. Carried /\ Paced
  BY DEF Init, Carried, Carries, Paced, Paces, Pulling, Staging
<1>6. HomeKept
  BY <1>2, <1>3 DEF HomeKept, Holds
<1> QED
  BY <1>2, <1>3, <1>4, <1>5, <1>6, HomeIs DEF IInv, InPlace, PathServed, DependenciesMatch

-----------------------------------------------------------------------------
\* One updater at a time

\* What a step of u leaves alone, and what it makes of u's places and phase.
Acts(u, s, b, p, t) ==
  /\ staged' = [staged EXCEPT ![u] = s] /\ backup' = [backup EXCEPT ![u] = b]
  /\ phase' = [phase EXCEPT ![u] = p] /\ to' = [to EXCEPT ![u] = t]
  /\ checkout' = checkout

LEMMA Others ==
  ASSUME TypeOK, NEW u \in Updaters, NEW s, NEW b, NEW p, NEW t, Acts(u, s, b, p, t)
  PROVE  /\ staged'[u] = s /\ backup'[u] = b /\ phase'[u] = p /\ to'[u] = t
         /\ \A w \in Updaters \ {u} : /\ staged'[w] = staged[w] /\ backup'[w] = backup[w]
                                      /\ phase'[w] = phase[w] /\ to'[w] = to[w]
BY DEF TypeOK, Acts

\* Carries, of what u holds after the step.
Carrying(s, b, p, t) ==
  /\ p \in Pulling => checkout
  /\ p \in Staging => ~checkout
  /\ p \in Pulling \cup {"idle", "current", "busy", "stage", "failed", "started", "updated"} => s = Nothing
  /\ p \in {"install", "recheck", "aside", "in"} => s # Nothing
  /\ p \in {"recheck", "aside", "in"} => s.deps = s.version
  /\ p \in {"idle", "stage", "install", "recheck", "aside"} => b = Nothing
  /\ p = "in" => b # Nothing
  /\ b # Nothing => b.deps = b.version /\ ~checkout
  /\ s # Nothing => t # Nothing

LEMMA CarriesIs == ASSUME NEW u PROVE Carries(u) <=> Carrying(staged[u], backup[u], phase[u], to[u])
BY DEF Carries, Carrying

LEMMA ActsCarry ==
  ASSUME TypeOK, Carried, NEW u \in Updaters, NEW s \in Places, NEW b \in Places,
         NEW p \in {"idle"} \cup Working \cup Ended, NEW t \in Versions \cup {Nothing},
         Acts(u, s, b, p, t), Carrying(s, b, p, t)
  PROVE  /\ Carried'
         /\ staged' \in [Updaters -> Places] /\ backup' \in [Updaters -> Places]
         /\ phase' \in [Updaters -> {"idle"} \cup Working \cup Ended]
         /\ to' \in [Updaters -> Versions \cup {Nothing}]
<1>1. /\ staged'[u] = s /\ backup'[u] = b /\ phase'[u] = p /\ to'[u] = t
      /\ \A w \in Updaters \ {u} : /\ staged'[w] = staged[w] /\ backup'[w] = backup[w]
                                   /\ phase'[w] = phase[w] /\ to'[w] = to[w]
  BY Others
<1>2. checkout' = checkout
  BY DEF Acts
<1>3. Carries(u)'
  BY <1>1, <1>2 DEF Carries, Carrying
<1>4. ASSUME NEW w \in Updaters \ {u} PROVE Carries(w)'
  BY <1>1, <1>2 DEF Carried, Carries
<1>5. Carried'
  BY <1>3, <1>4 DEF Carried
<1> QED
  BY <1>5 DEF TypeOK, Acts

\* What a step of u has to do to keep the path served, its dependencies matched
\* and the user's state somewhere.
Serves(u, b, p) ==
  installed' = Nothing => \/ b # Nothing /\ p \in {"in", "killed"}
                          \/ installed = Nothing /\ phase[u] \notin {"in", "killed"}

Matches == checkout => (\A w \in Updaters : Paces(w))' /\ DependenciesMatch'

KeepsHome(u, s, b, p, t) ==
  /\ phase[u] \notin {"failed", "started"}
  /\ Holds(installed) \/ Holds(staged[u]) \/ Holds(backup[u]) =>
       Holds(installed)' \/ Holds(s) \/ Holds(b) \/ (t # Nothing /\ p \in {"failed", "started"})

LEMMA ActsServe ==
  ASSUME TypeOK, PathServed, NEW u \in Updaters, NEW s, NEW b, NEW p, NEW t,
         Acts(u, s, b, p, t), Serves(u, b, p)
  PROVE  PathServed'
<1>1. /\ backup'[u] = b /\ phase'[u] = p
      /\ \A w \in Updaters \ {u} : backup'[w] = backup[w] /\ phase'[w] = phase[w]
  BY Others
<1> QED
  BY <1>1 DEF PathServed, Serves

LEMMA ActsMatch ==
  ASSUME InPlace', checkout' = checkout, Matches
  PROVE  Paced' /\ DependenciesMatch'
<1>1. CASE ~checkout
  BY <1>1 DEF InPlace, DependenciesMatch, Paced
<1>2. CASE checkout
  BY <1>2 DEF Matches, Paced
<1> QED
  BY <1>1, <1>2

LEMMA ActsKeep ==
  ASSUME TypeOK, HomeOutlivesUpdates, NEW u \in Updaters, NEW s, NEW b, NEW p, NEW t,
         Acts(u, s, b, p, t), KeepsHome(u, s, b, p, t)
  PROVE  HomeOutlivesUpdates'
<1>1. /\ staged'[u] = s /\ backup'[u] = b /\ phase'[u] = p /\ to'[u] = t
      /\ \A w \in Updaters \ {u} : /\ staged'[w] = staged[w] /\ backup'[w] = backup[w]
                                   /\ phase'[w] = phase[w] /\ to'[w] = to[w]
  BY Others
<1>2. CASE Lost
  <2>1. PICK w \in Updaters : to[w] # Nothing /\ phase[w] \in {"failed", "started"}
    BY <1>2 DEF Lost
  <2>2. w # u
    BY <2>1 DEF KeepsHome
  <2>3. Lost'
    BY <1>1, <2>1, <2>2 DEF Lost
  <2> QED
    BY <2>3, HomeIs, PTL
<1>3. CASE HomeKept
  <2>1. ASSUME \E w \in Updaters \ {u} : Holds(staged[w]) \/ Holds(backup[w])
        PROVE  HomeKept'
    BY <1>1, <2>1 DEF HomeKept, Holds
  <2>2. ASSUME Holds(installed) \/ Holds(staged[u]) \/ Holds(backup[u])
        PROVE  HomeKept' \/ Lost'
    BY <1>1, <2>2 DEF HomeKept, Holds, Lost, KeepsHome
  <2>3. HomeKept' \/ Lost'
    BY <1>3, <2>1, <2>2 DEF HomeKept
  <2> QED
    BY <2>3, HomeIs, PTL
<1> QED
  BY <1>2, <1>3, HomeIs

-----------------------------------------------------------------------------
\* The actions

Typed(s, b, p, t) ==
  /\ s \in Places /\ b \in Places /\ p \in {"idle"} \cup Working \cup Ended
  /\ t \in Versions \cup {Nothing}

\* The part of a step that is not about the updater that takes it.
Around == /\ installed' \in Places /\ session' \in BOOLEAN
          /\ from' \in [Updaters -> Versions \cup {Nothing}] /\ mixed' \subseteq Updaters
          /\ InPlace'

LEMMA Acted ==
  ASSUME IInv, Around, NEW u \in Updaters, NEW s, NEW b, NEW p, NEW t,
         Acts(u, s, b, p, t), Typed(s, b, p, t), Carrying(s, b, p, t),
         Serves(u, b, p), Matches, KeepsHome(u, s, b, p, t)
  PROVE  IInv'
<1>1. TypeOK /\ Carried /\ InPlace /\ PathServed /\ DependenciesMatch /\ HomeOutlivesUpdates
  BY DEF IInv
<1>2. /\ s \in Places /\ b \in Places /\ p \in {"idle"} \cup Working \cup Ended
      /\ t \in Versions \cup {Nothing}
  BY DEF Typed
<1>3. /\ Carried'
      /\ staged' \in [Updaters -> Places] /\ backup' \in [Updaters -> Places]
      /\ phase' \in [Updaters -> {"idle"} \cup Working \cup Ended]
      /\ to' \in [Updaters -> Versions \cup {Nothing}]
  BY <1>1, <1>2, ActsCarry
<1>4. checkout' \in BOOLEAN
  BY <1>1 DEF TypeOK, Acts
<1>5. TypeOK'
  BY <1>3, <1>4 DEF TypeOK, Around
<1>6. InPlace'
  BY DEF Around
<1>7. PathServed'
  BY <1>1, ActsServe
<1>8. Paced' /\ DependenciesMatch'
  BY <1>6, ActsMatch DEF Acts
<1>9. HomeOutlivesUpdates'
  BY <1>1, ActsKeep
<1> QED
  BY <1>3, <1>5, <1>6, <1>7, <1>8, <1>9 DEF IInv

\* What holds of an updater before its step.
LEMMA Before ==
  ASSUME IInv, NEW u \in Updaters
  PROVE  /\ Carrying(staged[u], backup[u], phase[u], to[u])
         /\ Typed(staged[u], backup[u], phase[u], to[u])
         /\ installed \in Places /\ session \in BOOLEAN /\ checkout \in BOOLEAN
         /\ from \in [Updaters -> Versions \cup {Nothing}] /\ mixed \subseteq Updaters
         /\ InPlace
         /\ Acts(u, staged[u], backup[u], phase[u], to[u]) <=> UNCHANGED <<checkout, staged, backup, phase, to>>
<1>1. TypeOK /\ Carried /\ InPlace
  BY DEF IInv
<1>2. Carrying(staged[u], backup[u], phase[u], to[u])
  BY <1>1, CarriesIs DEF Carried
<1>3. Typed(staged[u], backup[u], phase[u], to[u])
  BY <1>1 DEF TypeOK, Typed
<1>4. Acts(u, staged[u], backup[u], phase[u], to[u]) <=> UNCHANGED <<checkout, staged, backup, phase, to>>
  BY <1>1 DEF TypeOK, Acts
<1> QED
  BY <1>1, <1>2, <1>3, <1>4 DEF TypeOK

\* An updater whose checkout has moved under it and still has to get its dependencies.
Owes(u) ==
  /\ to[u] # Nothing
  /\ \/ phase[u] \in {"ci", "installing", "failed", "killed"}
     \/ phase[u] = "compare" /\ installed.version # from[u]

LEMMA OwesIs ==
  /\ Unfinished <=> \E u \in Updaters : Owes(u)
  /\ Unfinished' <=> \E u \in Updaters : Owes(u)'
BY DEF Unfinished, Owes

\* What the invariant says while u is at work on a checkout.
Tracked(u) ==
  /\ checkout /\ installed \in Tree /\ installed # Nothing /\ installed.version \in Versions
  /\ installed.version \in Nat /\ mixed \subseteq Updaters
  /\ \A w \in Updaters : Paces(w)
  /\ \/ installed.deps = installed.version
     \/ \E w \in Updaters : Owes(w)
     \/ Overlapped

LEMMA Tracking ==
  ASSUME IInv, NEW u \in Updaters, phase[u] \in Pulling \/ checkout
  PROVE  TypeOK /\ Tracked(u)
<1>1. checkout
  BY DEF IInv, Carried, Carries
<1>2. TypeOK /\ InPlace /\ DependenciesMatch /\ Paced
  BY DEF IInv
<1>3. installed \in Tree /\ installed # Nothing
  BY <1>1, <1>2 DEF InPlace, TypeOK, Places
<1>4. installed.version \in Versions /\ installed.version \in Nat
  BY <1>3, Absent DEF Tree
<1> QED
  BY <1>1, <1>2, <1>3, <1>4, OwesIs DEF Tracked, TypeOK, Paced, DependenciesMatch

\* A step that leaves the commit and the dependencies of a checkout alone.
LEMMA Steady ==
  ASSUME IInv, checkout, NEW u \in Updaters, NEW s, NEW p, Acts(u, s, backup[u], p, to[u]),
         installed'.version = installed.version, installed'.deps = installed.deps,
         mixed' = mixed, \A w \in Updaters \ {u} : from'[w] = from[w], Paces(u)',
         Owes(u) => p \in {"ci", "installing", "failed", "killed"}
  PROVE  Matches
<1>1. TypeOK /\ Tracked(u)
  BY Tracking
<1>2. /\ phase'[u] = p /\ to'[u] = to[u]
      /\ \A w \in Updaters \ {u} : phase'[w] = phase[w] /\ to'[w] = to[w]
  BY <1>1, Others
<1>7. checkout'
  BY DEF Acts
<1>3. ASSUME NEW w \in Updaters PROVE Paces(w)'
  BY <1>1, <1>2 DEF Tracked, Paces
<1>4. ASSUME NEW w \in Updaters, Owes(w) PROVE Owes(w)'
  BY <1>2, <1>4 DEF Owes
<1>5. Overlapped => Overlapped'
  BY <1>1, <1>2 DEF Overlapped, Tracked
<1>6. DependenciesMatch'
  BY <1>1, <1>4, <1>5, <1>7, OwesIs DEF Tracked, DependenciesMatch
<1> QED
  BY <1>3, <1>6 DEF Matches

\* Steps that only move an updater on, and may drop what it has staged.
LEMMA Moved ==
  ASSUME IInv, NEW u \in Updaters, NEW s, NEW p, NEW t,
         Acts(u, s, backup[u], p, t), UNCHANGED <<installed, session, mixed>>, Matches,
         from' \in [Updaters -> Versions \cup {Nothing}],
         Typed(s, backup[u], p, t), Carrying(s, backup[u], p, t),
         phase[u] \notin {"failed", "started", "killed"},
         phase[u] = "in" => p = "killed",
         Holds(staged[u]) => Holds(s) \/ (t # Nothing /\ p \in {"failed", "started"})
  PROVE  IInv'
<1>1. /\ InPlace /\ installed \in Places /\ session \in BOOLEAN /\ mixed \subseteq Updaters
      /\ Carrying(staged[u], backup[u], phase[u], to[u])
  BY Before
<1>2. InPlace'
  BY <1>1 DEF InPlace, Acts
<1>3. Around
  BY <1>1, <1>2 DEF Around
<1>4. Serves(u, backup[u], p)
  BY <1>1 DEF Serves, Carrying
<1>6. KeepsHome(u, s, backup[u], p, t)
  BY DEF KeepsHome, Holds
<1> QED
  BY <1>3, <1>4, <1>6, Acted

LEMMA StartSessionSteps == ASSUME IInv, StartSession PROVE IInv'
<1>1. installed \in Tree
  BY DEF IInv, TypeOK, Places, StartSession
<1>2. PICK t : t = WithHome(installed) /\ installed' = t
  BY DEF StartSession
<1>3. /\ installed' \in Tree /\ installed' # Nothing /\ installed # Nothing
      /\ installed'.deps = installed.deps /\ installed'.version = installed.version
      /\ installed.home = "user" => installed'.home = "user"
  BY <1>1, <1>2, Shapes, Absent
<1>4. TypeOK' /\ Carried' /\ Paced' /\ InPlace' /\ PathServed' /\ DependenciesMatch'
  <2>1. TypeOK'
    BY <1>3 DEF IInv, TypeOK, Places, StartSession
  <2>2. Carried' /\ Paced'
    BY <1>3 DEF IInv, Carried, Carries, Paced, Paces, StartSession
  <2>3. InPlace' /\ PathServed'
    BY <1>3 DEF IInv, InPlace, PathServed, StartSession
  <2>4. DependenciesMatch'
    BY <1>3 DEF IInv, DependenciesMatch, Unfinished, Overlapped, StartSession
  <2> QED
    BY <2>1, <2>2, <2>3, <2>4
<1>5. HomeKept \/ Lost
  BY HomeIs DEF IInv
<1>6. HomeKept' \/ Lost'
  BY <1>3, <1>5 DEF HomeKept, Lost, Holds, StartSession
<1>7. HomeOutlivesUpdates'
  BY <1>6, HomeIs, PTL
<1> QED
  BY <1>4, <1>7 DEF IInv

LEMMA UnchangedSteps ==
  ASSUME IInv, UNCHANGED <<checkout, installed, staged, backup, phase, from, to, mixed>>, session' \in BOOLEAN
  PROVE  IInv'
<1>1. TypeOK' /\ Carried' /\ Paced'
  BY DEF IInv, TypeOK, Carried, Carries, Paced, Paces
<1>2. InPlace' /\ PathServed' /\ DependenciesMatch'
  BY DEF IInv, InPlace, PathServed, DependenciesMatch, Unfinished, Overlapped
<1>3. HomeOutlivesUpdates'
  BY DEF IInv, HomeOutlivesUpdates, Trees
<1> QED
  BY <1>1, <1>2, <1>3 DEF IInv

LEMMA BeginSteps == ASSUME IInv, NEW u \in Updaters, Begin(u) PROVE IInv'
<1> DEFINE p == IF session THEN "busy" ELSE IF checkout THEN "pull" ELSE "stage"
<1>1. /\ Carrying(staged[u], backup[u], phase[u], to[u]) /\ Typed(staged[u], backup[u], phase[u], to[u])
      /\ from \in [Updaters -> Versions \cup {Nothing}] /\ phase[u] = "idle"
      /\ installed \in Tree
  BY Before DEF Begin, Places
<1>2. TypeOK
  BY DEF IInv
<1>3. Acts(u, staged[u], backup[u], p, to[u])
  BY <1>2 DEF Acts, Begin, Go, TypeOK
<1>4. Carrying(staged[u], backup[u], p, to[u])
  BY <1>1 DEF Carrying, Pulling, Staging
<1>5. Typed(staged[u], backup[u], p, to[u])
  BY <1>1 DEF Typed, Working, Ended
<1>6. from' \in [Updaters -> Versions \cup {Nothing}]
  BY <1>1 DEF Begin, Tree
<1>7. UNCHANGED <<installed, session, mixed>>
  BY DEF Begin
<1>8. Holds(staged[u]) => FALSE
  BY <1>1 DEF Holds, Carrying
<1>9. ASSUME checkout PROVE Matches
  <2>1. Tracked(u)
    BY <1>9, Tracking
  <2>2. phase'[u] = p /\ to'[u] = to[u] /\ from'[u] = installed.version
    BY <1>1, <1>2 DEF Begin, Go, TypeOK
  <2>3. Paces(u)'
    BY <1>1, <1>7, <1>9, <2>1, <2>2 DEF Paces, Tracked, Pulling
  <2>4. ~Owes(u) /\ \A w \in Updaters \ {u} : from'[w] = from[w]
    BY <1>1 DEF Owes, Begin
  <2> QED
    BY <1>3, <1>7, <1>9, <2>3, <2>4, Steady
<1>10. Matches
  BY <1>9 DEF Matches
<1> QED
  BY <1>1, <1>3, <1>4, <1>5, <1>6, <1>7, <1>8, <1>10, Moved

LEMMA FailSteps == ASSUME IInv, NEW u \in Updaters, Fail(u) PROVE IInv'
<1>1. /\ Carrying(staged[u], backup[u], phase[u], to[u]) /\ Typed(staged[u], backup[u], phase[u], to[u])
      /\ from \in [Updaters -> Versions \cup {Nothing}] /\ TypeOK
  BY Before DEF IInv
<1>2. phase[u] \in Pulling \cup {"stage", "install", "recheck", "aside"}
  BY DEF Fail, Working, Pulling
<1>3. Acts(u, Nothing, backup[u], "failed", to[u])
  BY <1>1 DEF Acts, Fail, Go, Cleanup, TypeOK
<1>4. Carrying(Nothing, backup[u], "failed", to[u])
  BY <1>1 DEF Carrying, Pulling, Staging
<1>5. Typed(Nothing, backup[u], "failed", to[u])
  BY <1>1 DEF Typed, Ended, Places
<1>6. /\ UNCHANGED <<installed, session, mixed, from>>
      /\ from' \in [Updaters -> Versions \cup {Nothing}]
  BY <1>1 DEF Fail
<1>7. Holds(staged[u]) => to[u] # Nothing
  BY <1>1 DEF Holds, Carrying
<1>8. /\ phase[u] \notin {"failed", "started", "killed"}
      /\ phase[u] # "in"
  BY <1>2 DEF Pulling
<1> DEFINE p == "failed"
<1>9. p = "failed"
  OBVIOUS
<1> HIDE DEF p
<1>10. ASSUME checkout PROVE Matches
  <2>3. Tracked(u)
    BY <1>10, Tracking
  <2>1. Tracked(u) /\ phase'[u] = p /\ to'[u] = to[u]
    BY <1>1, <1>3, <1>9, <2>3, Others
  <2>2. Paces(u)'
    BY <1>6, <1>9, <2>1 DEF Paces, Tracked, Pulling
  <2> QED
    BY <1>3, <1>6, <1>9, <1>10, <2>2, Steady
<1>11. Matches
  BY <1>10 DEF Matches
<1> QED
  BY <1>3, <1>4, <1>5, <1>6, <1>7, <1>8, <1>9, <1>11, Moved

LEMMA KillSteps == ASSUME IInv, NEW u \in Updaters, Kill(u) PROVE IInv'
<1>1. /\ Carrying(staged[u], backup[u], phase[u], to[u]) /\ Typed(staged[u], backup[u], phase[u], to[u])
      /\ from \in [Updaters -> Versions \cup {Nothing}] /\ TypeOK
  BY Before DEF IInv
<1>2. phase[u] \notin {"failed", "started", "killed"}
  BY DEF Kill, Working
<1>3. Acts(u, staged[u], backup[u], "killed", to[u])
  BY <1>1 DEF Acts, Kill, Go, TypeOK
<1>4. Carrying(staged[u], backup[u], "killed", to[u])
  BY <1>1 DEF Carrying, Pulling, Staging
<1>5. Typed(staged[u], backup[u], "killed", to[u])
  BY <1>1 DEF Typed, Ended
<1>6. /\ UNCHANGED <<installed, session, mixed, from>>
      /\ from' \in [Updaters -> Versions \cup {Nothing}]
  BY <1>1 DEF Kill
<1> DEFINE p == "killed"
<1>9. p = "killed"
  OBVIOUS
<1> HIDE DEF p
<1>10. ASSUME checkout PROVE Matches
  <2>3. Tracked(u)
    BY <1>10, Tracking
  <2>1. Tracked(u) /\ phase'[u] = p /\ to'[u] = to[u]
    BY <1>1, <1>3, <1>9, <2>3, Others
  <2>2. Paces(u)'
    BY <1>6, <1>9, <2>1 DEF Paces, Tracked, Pulling
  <2> QED
    BY <1>3, <1>6, <1>9, <1>10, <2>2, Steady
<1>11. Matches
  BY <1>10 DEF Matches
<1> QED
  BY <1>2, <1>3, <1>4, <1>5, <1>6, <1>9, <1>11, Moved

\* What a step of a checkout's update does to the tree.
LEMMA Worked ==
  ASSUME IInv, checkout, NEW u \in Updaters, NEW p \in Pulling \cup {"current", "updated", "failed"},
         NEW t \in Versions \cup {Nothing}, phase[u] \in Pulling,
         Acts(u, staged[u], backup[u], p, t), UNCHANGED <<session, from>>, mixed' \subseteq Updaters,
         installed' \in Tree, installed.home = "user" => installed'.home = "user", Matches
  PROVE  IInv'
<1>1. /\ Carrying(staged[u], backup[u], phase[u], to[u]) /\ Typed(staged[u], backup[u], phase[u], to[u])
      /\ from \in [Updaters -> Versions \cup {Nothing}] /\ session \in BOOLEAN
  BY Before
<1>2. Typed(staged[u], backup[u], p, t)
  BY <1>1 DEF Typed, Working, Ended, Pulling
<1>3. Carrying(staged[u], backup[u], p, t)
  BY <1>1 DEF Carrying, Pulling, Staging
<1>4. installed' # Nothing
  BY Absent
<1>5. InPlace'
  BY <1>4 DEF InPlace, Acts
<1>6. Around
  BY <1>1, <1>5 DEF Around, Places
<1>7. Serves(u, backup[u], p)
  BY <1>4 DEF Serves
<1>8. KeepsHome(u, staged[u], backup[u], p, t)
  BY <1>1, <1>4 DEF KeepsHome, Holds, Pulling
<1> QED
  BY <1>2, <1>3, <1>6, <1>7, <1>8, Acted

LEMMA PullSteps == ASSUME IInv, NEW u \in Updaters, Pull(u) PROVE IInv'
<1>1. TypeOK /\ Tracked(u) /\ phase[u] = "pull" /\ from[u] \in Nat /\ from[u] <= installed.version
  BY Tracking, Absent DEF Pull, Pulling, Tracked, Paces
<1>2. PICK v \in Versions :
        /\ v >= installed.version /\ v \in Nat
        /\ installed' = [installed EXCEPT !.version = v]
        /\ to' = [to EXCEPT ![u] = v]
        /\ mixed' = IF v = installed.version THEN mixed ELSE mixed \cup Installing
  BY Absent DEF Pull
<1> DEFINE p == "compare"
<1>3. /\ installed' \in Tree /\ installed'.home = installed.home
      /\ installed'.deps = installed.deps /\ installed'.version = v
  BY <1>1, <1>2, Shapes DEF Tracked
<1>4. Acts(u, staged[u], backup[u], p, v)
  BY <1>1, <1>2 DEF Acts, Pull, Go, TypeOK
<1>5. /\ to'[u] = v /\ phase'[u] = p
      /\ \A w \in Updaters \ {u} : phase'[w] = phase[w] /\ to'[w] = to[w]
  BY <1>1, <1>4, Others
<1>6. v # Nothing /\ mixed \subseteq mixed' /\ mixed' \subseteq Updaters /\ from' = from
  BY <1>1, <1>2, Absent DEF Pull, Tracked, Installing
<1>11. checkout'
  BY <1>1 DEF Pull, Tracked
<1>7. ASSUME NEW w \in Updaters PROVE Paces(w)'
  <2>1. CASE w = u
    BY <1>1, <1>2, <1>3, <1>5, <1>6, <2>1 DEF Tracked, Paces, Installing
  <2>2. CASE w # u
    <3>1. Paces(w) /\ phase'[w] = phase[w] /\ to'[w] = to[w] /\ from'[w] = from[w] /\ installed.version \in Nat
      BY <1>1, <1>5, <1>6, <2>2 DEF Tracked
    <3>2. phase[w] \in {"pull", "compare"} => from[w] \in Nat
      BY <3>1, Absent DEF Paces
    <3>3. w \in mixed' => w \in mixed \/ phase[w] = "installing"
      BY <1>2 DEF Installing
    <3>4. phase[w] = "installing" /\ w \notin mixed' => w \notin mixed /\ v = installed.version
      BY <1>2 DEF Installing
    <3> QED
      BY <1>2, <1>3, <3>1, <3>2, <3>3, <3>4 DEF Paces
  <2> QED
    BY <2>1, <2>2
<1>8. DependenciesMatch'
  <2>1. CASE v = installed.version
    <3>1. \A w \in Updaters : Owes(w) => w # u /\ Owes(w)'
      BY <1>1, <1>3, <1>5, <1>6, <2>1 DEF Owes
    <3>2. Overlapped => Overlapped'
      BY <1>1, <1>3, <1>5, <1>6 DEF Overlapped, Tracked, Paces
    <3> QED
      BY <1>1, <1>3, <1>11, <2>1, <3>1, <3>2, OwesIs DEF Tracked, DependenciesMatch
  <2>2. CASE v # installed.version
    <3>1. v # from[u] /\ from'[u] = from[u]
      BY <1>1, <1>2, <1>6, <2>2 DEF Tracked
    <3>2. Owes(u)'
      BY <1>3, <1>5, <1>6, <3>1 DEF Owes
    <3> QED
      BY <1>11, <3>2, OwesIs DEF DependenciesMatch
  <2> QED
    BY <2>1, <2>2
<1>9. Matches
  BY <1>7, <1>8 DEF Matches
<1>10. UNCHANGED <<session, from>> /\ p \in Pulling
  BY DEF Pull, Pulling
<1> HIDE DEF p
<1> QED
  BY <1>1, <1>3, <1>4, <1>6, <1>9, <1>10, Worked DEF Tracked, Pulling

LEMMA CompareSteps == ASSUME IInv, NEW u \in Updaters, Compare(u) PROVE IInv'
<1>1. TypeOK /\ Tracked(u) /\ phase[u] = "compare"
  BY Tracking DEF Compare, Pulling
<1> DEFINE p == IF installed.version = from[u] THEN "current" ELSE "ci"
<1>2. Acts(u, staged[u], backup[u], p, to[u])
  BY <1>1 DEF Acts, Compare, Go, TypeOK
<1>3. phase'[u] = p /\ to'[u] = to[u] /\ to[u] # Nothing
  BY <1>1, <1>2, Others DEF Tracked, Paces, Pulling
<1>4. UNCHANGED <<installed, session, from, mixed>>
  BY DEF Compare
<1>5. Paces(u)'
  BY <1>1, <1>3, <1>4 DEF Tracked, Paces, Pulling
<1>6. Owes(u) => p \in {"ci", "installing", "failed", "killed"}
  BY <1>1 DEF Owes
<1>7. p \in Pulling \cup {"current", "updated", "failed"} /\ p # "compare"
  BY DEF Pulling
<1> HIDE DEF p
<1>8. Matches
  BY <1>1, <1>2, <1>4, <1>5, <1>6, Steady DEF Tracked
<1> QED
  BY <1>1, <1>2, <1>4, <1>7, <1>8, Worked DEF Tracked, Pulling, TypeOK

LEMMA NpmCiSteps == ASSUME IInv, NEW u \in Updaters, NpmCi(u) PROVE IInv'
<1>1. TypeOK /\ Tracked(u) /\ phase[u] = "ci"
  BY Tracking DEF NpmCi, Pulling
<1>2. PICK t : t = [installed EXCEPT !.deps = Nothing] /\ installed' = t
  BY DEF NpmCi
<1>14. installed \in Tree
  BY <1>1 DEF Tracked
<1>3. installed' \in Tree /\ installed'.home = installed.home /\ installed'.version = installed.version
  BY <1>2, <1>14, DepsShape
<1> DEFINE p == "installing"
           v == installed.version
<1>4. v \in Versions /\ v # Nothing
  BY <1>1, Absent DEF Tracked
<1>5. Acts(u, staged[u], backup[u], p, v)
  BY <1>1 DEF Acts, NpmCi, Go, TypeOK
<1>6. /\ to'[u] = v /\ phase'[u] = p
      /\ \A w \in Updaters \ {u} : phase'[w] = phase[w] /\ to'[w] = to[w]
  BY <1>1, <1>5, Others
<1>7. mixed' = (IF Installing = {} THEN mixed ELSE mixed \cup Installing \cup {u}) /\ from' = from
  BY DEF NpmCi
<1>8. mixed \subseteq mixed' /\ mixed' \subseteq Updaters
  BY <1>1, <1>7 DEF Tracked, Installing
<1>9. ASSUME NEW w \in Updaters PROVE Paces(w)'
  <2>1. CASE w = u
    BY <1>3, <1>4, <1>6, <2>1 DEF Paces, Pulling
  <2>2. CASE w # u
    BY <1>1, <1>3, <1>6, <1>7, <1>8, <2>2 DEF Tracked, Paces, Installing
  <2> QED
    BY <2>1, <2>2
<1>10. Owes(u)'
  BY <1>4, <1>6 DEF Owes
<1>13. checkout'
  BY <1>1 DEF NpmCi, Tracked
<1>11. Matches
  BY <1>9, <1>10, <1>13, OwesIs DEF Matches, DependenciesMatch
<1>12. UNCHANGED <<session, from>> /\ p \in Pulling
  BY DEF NpmCi, Pulling
<1> HIDE DEF p, v
<1> QED
  BY <1>1, <1>3, <1>4, <1>5, <1>8, <1>11, <1>12, Worked DEF Tracked, Pulling

\* The steps that end an npm ci.
LEMMA Ending ==
  ASSUME IInv, NEW u \in Updaters, phase[u] = "installing", NEW d \in Versions \cup {Nothing},
         installed' = [installed EXCEPT !.deps = d], NEW p \in {"setup", "failed"}, Go(u, p),
         UNCHANGED <<checkout, staged, backup, session, from, to, mixed>>,
         p = "failed" \/ d = to[u] \/ (u \in mixed /\ d = Nothing)
  PROVE  IInv'
<1>1. TypeOK /\ Tracked(u)
  BY Tracking DEF Pulling
<1>2. PICK t : t = [installed EXCEPT !.deps = d] /\ installed' = t
  OBVIOUS
<1>10. installed \in Tree
  BY <1>1 DEF Tracked
<1>3. /\ installed' \in Tree /\ installed'.home = installed.home
      /\ installed'.deps = d /\ installed'.version = installed.version
  BY <1>2, <1>10, DepsShape
<1>4. Acts(u, staged[u], backup[u], p, to[u])
  BY <1>1 DEF Acts, Go, TypeOK
<1>5. phase'[u] = p /\ \A w \in Updaters \ {u} : phase'[w] = phase[w]
  BY <1>1, <1>4, Others
<1>6. to[u] # Nothing
  BY <1>1 DEF Tracked, Paces, Pulling
<1>7. ASSUME NEW w \in Updaters PROVE Paces(w)'
  BY <1>1, <1>3, <1>5, <1>6 DEF Tracked, Paces, Pulling
<1>11. checkout'
  BY <1>1 DEF Tracked
<1>8. DependenciesMatch'
  <2>1. CASE p = "failed"
    <3>1. Owes(u)'
      BY <1>5, <1>6, <2>1 DEF Owes
    <3> QED
      BY <1>11, <3>1, OwesIs DEF DependenciesMatch
  <2>2. CASE u \in mixed /\ d \in {to[u], Nothing}
    BY <1>3, <1>11, <2>2 DEF DependenciesMatch, Overlapped
  <2>3. CASE u \notin mixed /\ d = to[u]
    <3>1. d = installed.version
      BY <1>1, <2>3 DEF Tracked, Paces
    <3> QED
      BY <1>3, <3>1 DEF DependenciesMatch
  <2> QED
    BY <2>1, <2>2, <2>3
<1>9. Matches
  BY <1>7, <1>8 DEF Matches
<1> QED
  BY <1>1, <1>3, <1>4, <1>9, Worked DEF Tracked, Pulling, TypeOK

LEMMA InstalledBySteps == ASSUME IInv, NEW u \in Updaters, InstalledBy(u) PROVE IInv'
<1>1. TypeOK
  BY DEF IInv
<1>2. PICK d \in Locked(u) : installed' = [installed EXCEPT !.deps = d]
  BY DEF InstalledBy
<1>6. to[u] \in Versions \cup {Nothing}
  BY <1>1 DEF TypeOK
<1>5. d = to[u] \/ (u \in mixed /\ d = Nothing)
  BY <1>2 DEF Locked
<1>3. d \in Versions \cup {Nothing} /\ (d = to[u] \/ (u \in mixed /\ d = Nothing))
  BY <1>5, <1>6
<1> DEFINE p == "setup"
<1>4. p \in {"setup", "failed"} /\ Go(u, p) /\ phase[u] = "installing"
      /\ UNCHANGED <<checkout, staged, backup, session, from, to, mixed>>
  BY DEF InstalledBy
<1> HIDE DEF p
<1> QED
  BY <1>2, <1>3, <1>4, Ending

LEMMA NpmCiFailsSteps == ASSUME IInv, NEW u \in Updaters, NpmCiFails(u) PROVE IInv'
<1>1. TypeOK /\ Tracked(u)
  BY Tracking DEF NpmCiFails, Pulling
<1>2. PICK d \in {installed.deps, to[u], Nothing} : installed' = [installed EXCEPT !.deps = d]
  BY DEF NpmCiFails
<1>3. d \in Versions \cup {Nothing}
  BY <1>1, <1>2 DEF Tracked, TypeOK, Tree
<1>5. PICK p : p = "failed"
  OBVIOUS
<1>4. p \in {"setup", "failed"} /\ Go(u, p) /\ p = "failed" /\ phase[u] = "installing"
      /\ UNCHANGED <<checkout, staged, backup, session, from, to, mixed>>
  BY <1>5 DEF NpmCiFails
<1> QED
  BY <1>2, <1>3, <1>4, Ending

LEMMA SetupSteps == ASSUME IInv, NEW u \in Updaters, Setup(u) PROVE IInv'
<1>1. TypeOK /\ Tracked(u) /\ phase[u] = "setup"
  BY Tracking DEF Setup, Pulling
<1>2. PICK t : t = WithHome(installed) /\ installed' = t
  BY DEF Setup
<1>3. /\ installed' \in Tree /\ installed'.deps = installed.deps /\ installed'.version = installed.version
      /\ installed.home = "user" => installed'.home = "user"
  BY <1>1, <1>2, Shapes DEF Tracked
<1> DEFINE p == "updated"
<1>4. Acts(u, staged[u], backup[u], p, to[u])
  BY <1>1 DEF Acts, Setup, Go, TypeOK
<1>5. phase'[u] = p /\ to'[u] = to[u]
  BY <1>1, <1>4, Others
<1>6. UNCHANGED <<session, from, mixed>>
  BY DEF Setup
<1>7. Paces(u)'
  BY <1>1, <1>5, <1>6 DEF Tracked, Paces, Pulling
<1>8. ~Owes(u)
  BY <1>1 DEF Owes
<1> HIDE DEF p
<1>9. Matches
  BY <1>1, <1>3, <1>4, <1>6, <1>7, <1>8, Steady DEF Tracked
<1>10. p \in Pulling \cup {"current", "updated", "failed"}
  BY DEF p
<1> QED
  BY <1>1, <1>3, <1>4, <1>6, <1>9, <1>10, Worked DEF Tracked, Pulling, TypeOK

LEMMA StageSteps == ASSUME IInv, NEW u \in Updaters, Stage(u) PROVE IInv'
<1>1. /\ Carrying(staged[u], backup[u], phase[u], to[u]) /\ Typed(staged[u], backup[u], phase[u], to[u])
      /\ from \in [Updaters -> Versions \cup {Nothing}] /\ TypeOK /\ InPlace /\ phase[u] = "stage"
      /\ session \in BOOLEAN /\ installed \in Places
  BY Before DEF IInv, Stage
<1>2. ~checkout
  BY <1>1 DEF Carrying, Staging
<1>3. CASE Go(u, "current") /\ UNCHANGED <<installed, staged, to>>
  <2> DEFINE p == "current"
  <2>1. Acts(u, staged[u], backup[u], p, to[u])
    BY <1>1, <1>3 DEF Acts, Stage, Go, TypeOK
  <2>2. Typed(staged[u], backup[u], p, to[u])
    BY <1>1 DEF Typed, Ended
  <2>3. Carrying(staged[u], backup[u], p, to[u])
    BY <1>1 DEF Carrying, Pulling, Staging
  <2>4. UNCHANGED <<installed, session, mixed>> /\ from' \in [Updaters -> Versions \cup {Nothing}]
    BY <1>1, <1>3 DEF Stage
  <2>5. Matches
    BY <1>2 DEF Matches
  <2> HIDE DEF p
  <2> QED
    BY <1>1, <2>1, <2>2, <2>3, <2>4, <2>5, Moved
<1>4. ASSUME NEW v \in Versions, Go(u, "install"), to' = [to EXCEPT ![u] = v],
             staged' = [staged EXCEPT ![u] = [version |-> v, deps |-> Nothing, home |-> TakenHome]],
             installed' = LeftTree
      PROVE  IInv'
  <2> DEFINE p == "install"
             s == [version |-> v, deps |-> Nothing, home |-> TakenHome]
  <2>1. TakenHome \in {"user", "fresh", "none"} /\ (Holds(installed) => TakenHome = "user")
    BY <1>1 DEF TakenHome, Holds, Places, Tree
  <2>2. s \in Tree /\ s # Nothing /\ s.home = TakenHome
    BY <2>1, Absent DEF Tree
  <2>3. \/ installed = Nothing /\ installed' = Nothing
        \/ /\ installed # Nothing /\ installed' # Nothing /\ installed' \in Tree
           /\ installed'.deps = installed.deps /\ installed'.version = installed.version
    <3>1. CASE installed = Nothing
      BY <1>4, <3>1 DEF LeftTree
    <3>2. CASE installed # Nothing
      <4>1. PICK t : t = [installed EXCEPT !.home = "none"] /\ installed' = t
        BY <1>4, <3>2 DEF LeftTree
      <4>2. installed \in Tree
        BY <1>1, <3>2 DEF Places
      <4> QED
        BY <3>2, <4>1, <4>2, Shapes, Absent
    <3> QED
      BY <3>1, <3>2
  <2>4. v # Nothing
    BY Absent
  <2>5. Acts(u, s, backup[u], p, v)
    BY <1>1, <1>4 DEF Acts, Stage, Go, TypeOK
  <2>6. Typed(s, backup[u], p, v)
    BY <1>1, <2>2 DEF Typed, Working, Places
  <2>7. Carrying(s, backup[u], p, v)
    BY <1>1, <1>2, <2>2, <2>4 DEF Carrying, Pulling, Staging
  <2>8. InPlace'
    BY <1>1, <1>2, <2>3 DEF InPlace, Stage
  <2>9. Around
    BY <1>1, <2>3, <2>8 DEF Around, Places, Stage, TypeOK
  <2>10. Serves(u, backup[u], p)
    BY <1>1, <2>3 DEF Serves
  <2>11. Matches
    BY <1>2 DEF Matches
  <2>12. KeepsHome(u, s, backup[u], p, v)
    BY <1>1, <2>1, <2>2 DEF KeepsHome, Holds, Carrying
  <2> HIDE DEF p, s
  <2> QED
    BY <2>5, <2>6, <2>7, <2>9, <2>10, <2>11, <2>12, Acted
<1> QED
  BY <1>3, <1>4 DEF Stage

LEMMA InstallSteps == ASSUME IInv, NEW u \in Updaters, Install(u) PROVE IInv'
<1>1. /\ Carrying(staged[u], backup[u], phase[u], to[u]) /\ Typed(staged[u], backup[u], phase[u], to[u])
      /\ from \in [Updaters -> Versions \cup {Nothing}] /\ TypeOK /\ phase[u] = "install"
  BY Before DEF IInv, Install
<1>2. staged[u] \in Tree
  BY <1>1 DEF Carrying, Typed, Places
<1>3. PICK s : s = Provisioned(staged[u]) /\ staged' = [staged EXCEPT ![u] = s]
  BY DEF Install
<1>4. s \in Tree /\ s.deps = s.version /\ s # Nothing /\ (staged[u].home = "user" => s.home = "user")
  BY <1>2, <1>3, Shapes, Absent
<1> DEFINE p == "recheck"
<1>5. Acts(u, s, backup[u], p, to[u])
  BY <1>1, <1>3 DEF Acts, Install, Go, TypeOK
<1>6. Typed(s, backup[u], p, to[u])
  BY <1>1, <1>4 DEF Typed, Working, Places
<1>7. Carrying(s, backup[u], p, to[u])
  BY <1>1, <1>4 DEF Carrying, Pulling, Staging
<1>8. UNCHANGED <<installed, session, mixed>> /\ from' \in [Updaters -> Versions \cup {Nothing}]
  BY <1>1 DEF Install
<1>9. Holds(staged[u]) => Holds(s)
  BY <1>4 DEF Holds
<1>10. Matches
  BY <1>1 DEF Matches, Carrying, Staging
<1> HIDE DEF p
<1> QED
  BY <1>1, <1>5, <1>6, <1>7, <1>8, <1>9, <1>10, Moved

LEMMA RecheckSteps == ASSUME IInv, NEW u \in Updaters, Recheck(u) PROVE IInv'
<1>1. /\ Carrying(staged[u], backup[u], phase[u], to[u]) /\ Typed(staged[u], backup[u], phase[u], to[u])
      /\ from \in [Updaters -> Versions \cup {Nothing}] /\ TypeOK /\ phase[u] = "recheck"
  BY Before DEF IInv, Recheck
<1> DEFINE p == IF session THEN "started" ELSE "aside"
           s == IF session THEN Nothing ELSE staged[u]
<1>2. Acts(u, s, backup[u], p, to[u])
  BY <1>1 DEF Acts, Recheck, Go, Cleanup, TypeOK
<1>3. Typed(s, backup[u], p, to[u])
  BY <1>1 DEF Typed, Working, Ended, Places
<1>4. Carrying(s, backup[u], p, to[u])
  BY <1>1 DEF Carrying, Pulling, Staging
<1>5. UNCHANGED <<installed, session, mixed>> /\ from' \in [Updaters -> Versions \cup {Nothing}]
  BY <1>1 DEF Recheck
<1>6. Holds(staged[u]) => Holds(s) \/ (to[u] # Nothing /\ p \in {"failed", "started"})
  BY <1>1 DEF Holds, Carrying
<1>7. Matches
  BY <1>1 DEF Matches, Carrying, Staging
<1> HIDE DEF p, s
<1> QED
  BY <1>1, <1>2, <1>3, <1>4, <1>5, <1>6, <1>7, Moved

LEMMA MoveAsideSteps == ASSUME IInv, NEW u \in Updaters, MoveAside(u) PROVE IInv'
<1>1. /\ Carrying(staged[u], backup[u], phase[u], to[u]) /\ Typed(staged[u], backup[u], phase[u], to[u])
      /\ from \in [Updaters -> Versions \cup {Nothing}] /\ TypeOK /\ InPlace /\ phase[u] = "aside"
      /\ session \in BOOLEAN /\ installed \in Places /\ installed # Nothing
  BY Before DEF IInv, MoveAside
<1>2. ~checkout
  BY <1>1 DEF Carrying, Staging
<1> DEFINE p == "in"
<1>3. Acts(u, staged[u], installed, p, to[u])
  BY <1>1 DEF Acts, MoveAside, Go, TypeOK
<1>4. Typed(staged[u], installed, p, to[u])
  BY <1>1 DEF Typed, Working
<1>5. Carrying(staged[u], installed, p, to[u])
  BY <1>1, <1>2 DEF Carrying, Pulling, Staging, InPlace
<1>6. InPlace'
  BY <1>2 DEF InPlace, MoveAside
<1>7. Around
  BY <1>1, <1>6 DEF Around, Places, MoveAside, TypeOK
<1>8. Serves(u, installed, p) /\ Matches
  BY <1>1, <1>2 DEF Serves, Matches
<1>9. KeepsHome(u, staged[u], installed, p, to[u])
  BY <1>1 DEF KeepsHome, Holds, Carrying
<1> HIDE DEF p
<1> QED
  BY <1>3, <1>4, <1>5, <1>7, <1>8, <1>9, Acted

LEMMA MoveInSteps == ASSUME IInv, NEW u \in Updaters, MoveIn(u) PROVE IInv'
<1>1. /\ Carrying(staged[u], backup[u], phase[u], to[u]) /\ Typed(staged[u], backup[u], phase[u], to[u])
      /\ from \in [Updaters -> Versions \cup {Nothing}] /\ TypeOK /\ phase[u] = "in"
      /\ session \in BOOLEAN /\ installed = Nothing
  BY Before DEF IInv, MoveIn
<1>2. ~checkout /\ staged[u] \in Tree /\ staged[u] # Nothing /\ staged[u].deps = staged[u].version
  BY <1>1 DEF Carrying, Staging, Typed, Places
<1>3. installed' = staged[u]
  BY DEF MoveIn
<1> DEFINE p == "updated"
<1>4. Acts(u, Nothing, backup[u], p, to[u])
  BY <1>1 DEF Acts, MoveIn, Go, Cleanup, TypeOK
<1>5. Typed(Nothing, backup[u], p, to[u])
  BY <1>1 DEF Typed, Ended, Places
<1>6. Carrying(Nothing, backup[u], p, to[u])
  BY <1>1 DEF Carrying, Pulling, Staging
<1>7. InPlace'
  BY <1>2, <1>3 DEF InPlace, MoveIn
<1>8. Around
  BY <1>1, <1>2, <1>3, <1>7 DEF Around, Places, MoveIn, TypeOK
<1>9. Serves(u, backup[u], p) /\ Matches
  BY <1>2, <1>3 DEF Serves, Matches
<1>10. KeepsHome(u, Nothing, backup[u], p, to[u])
  BY <1>1, <1>3 DEF KeepsHome, Holds
<1> HIDE DEF p
<1> QED
  BY <1>4, <1>5, <1>6, <1>8, <1>9, <1>10, Acted

LEMMA MoveInFailsSteps == ASSUME IInv, NEW u \in Updaters, MoveInFails(u) PROVE IInv'
<1>1. /\ Carrying(staged[u], backup[u], phase[u], to[u]) /\ Typed(staged[u], backup[u], phase[u], to[u])
      /\ from \in [Updaters -> Versions \cup {Nothing}] /\ TypeOK /\ InPlace /\ phase[u] = "in"
      /\ session \in BOOLEAN /\ installed \in Places
  BY Before DEF IInv, MoveInFails
<1>2. /\ ~checkout /\ staged[u] # Nothing /\ to[u] # Nothing
      /\ backup[u] \in Tree /\ backup[u] # Nothing /\ backup[u].deps = backup[u].version
  BY <1>1 DEF Carrying, Staging, Typed, Places
<1> DEFINE p == "failed"
           b == IF installed = Nothing THEN Nothing ELSE backup[u]
<1>3. installed' = IF installed = Nothing THEN backup[u] ELSE installed
  BY DEF MoveInFails
<1>4. Acts(u, Nothing, b, p, to[u])
  BY <1>1 DEF Acts, MoveInFails, Go, Cleanup, TypeOK
<1>5. Typed(Nothing, b, p, to[u])
  BY <1>1 DEF Typed, Ended, Places
<1>6. Carrying(Nothing, b, p, to[u])
  BY <1>1, <1>2 DEF Carrying, Pulling, Staging
<1>7. InPlace'
  BY <1>1, <1>2, <1>3 DEF InPlace, MoveInFails
<1>8. Around
  BY <1>1, <1>2, <1>3, <1>7 DEF Around, Places, MoveInFails, TypeOK
<1>9. Serves(u, b, p) /\ Matches
  BY <1>2, <1>3 DEF Serves, Matches
<1>10. KeepsHome(u, Nothing, b, p, to[u])
  BY <1>1, <1>2 DEF KeepsHome
<1> HIDE DEF p, b
<1> QED
  BY <1>4, <1>5, <1>6, <1>8, <1>9, <1>10, Acted

LEMMA Inductive == IInv /\ [Next]_vars => IInv'
<1> SUFFICES ASSUME IInv, [Next]_vars PROVE IInv'
  OBVIOUS
<1>1. session \in BOOLEAN
  BY DEF IInv, TypeOK
<1>2. CASE StartSession
  BY <1>2, StartSessionSteps
<1>3. CASE EndSession
  BY <1>3, UnchangedSteps DEF EndSession
<1>4. CASE UNCHANGED vars
  BY <1>1, <1>4, UnchangedSteps DEF vars
<1>5. ASSUME NEW u \in Updaters,
             \/ Begin(u) \/ Fail(u) \/ Kill(u) \/ Pull(u) \/ Compare(u)
             \/ NpmCi(u) \/ InstalledBy(u) \/ NpmCiFails(u) \/ Setup(u)
             \/ Stage(u) \/ Install(u) \/ Recheck(u)
             \/ MoveAside(u) \/ MoveIn(u) \/ MoveInFails(u)
      PROVE  IInv'
  BY <1>5, BeginSteps, FailSteps, KillSteps, PullSteps, CompareSteps, NpmCiSteps, InstalledBySteps,
     NpmCiFailsSteps, SetupSteps, StageSteps, InstallSteps, RecheckSteps, MoveAsideSteps, MoveInSteps, MoveInFailsSteps
<1> QED
  BY <1>2, <1>3, <1>4, <1>5 DEF Next

LEMMA Always == Spec => []IInv
BY Initially, Inductive, PTL DEF Spec

-----------------------------------------------------------------------------
\* Every variable keeps its type, and no updater ever holds a tree that is neither
\* absent nor complete: the states of scripts/self-update.mjs.
THEOREM TypeCorrect == Spec => []TypeOK
<1>1. IInv => TypeOK
  BY DEF IInv
<1> QED
  BY <1>1, Always, PTL

\* The installation path is empty only between an updater's two renames, or after
\* one was killed there: the rollback of scripts/self-update.mjs:155 never leaves it
\* empty, however many updates swap at the same time.
THEOREM PathAlwaysServed == Spec => []PathServed
<1>1. IInv => PathServed
  BY DEF IInv
<1> QED
  BY <1>1, Always, PTL

\* No half-installed tree is ever put in place: what is installed has the
\* dependencies of its own version (scripts/self-update.mjs:137-154), except in a
\* checkout with an update that has pulled and has not gone through its npm ci, or in
\* whose npm ci another update pulled or ran one (self-update.mjs:91-95).
THEOREM InstalledIsComplete == Spec => []DependenciesMatch
<1>1. IInv => DependenciesMatch
  BY DEF IInv
<1> QED
  BY <1>1, Always, PTL

\* The user's state directory moves with the updates (migrateState,
\* scripts/self-update.mjs:47) and is lost only with an updater that had taken it
\* and was refused or failed, for any number of updates and sessions.
THEOREM HomeLostOnlyInFailure == Spec => []HomeOutlivesUpdates
<1>1. IInv => HomeOutlivesUpdates
  BY DEF IInv
<1> QED
  BY <1>1, Always, PTL
=============================================================================
