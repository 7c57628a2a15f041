--------------------------- MODULE ScheduleCursor ---------------------------
(* The cursor of one registered trigger (a row of the table schedules) and the *)
(* jobs its firings create: jobs.mjs register, unregister and materialize over *)
(* the arithmetic of schedule.mjs. A source stands for its JSON text. The      *)
(* clock does not go back; an install and a tick of the scheduler read it once *)
(* and write later, the tick in a transaction. Bound: one install at a time.   *)
EXTENDS Integers

CONSTANTS Sources,   \* the definitions a user may write
          Calendars, \* those with a cron rule; the others have a period
          Occurs,    \* the instants a cron rule names
          Period,    \* the period of an interval or a poll
          Skips,     \* those with misfire: skip
          Grace,     \* a missed instant of the current minute still fires
          Workspaces,
          None,      \* no definition, no row, no install, no tick
          MaxTime    \* bound on the clock

\* A period is a positive number of milliseconds; a cron rule names instants
\* without end, and finitely many before any instant.
ASSUME CursorAssumption ==
  /\ Calendars \subseteq Sources /\ Grace \in Nat /\ MaxTime \in Nat
  /\ None \notin [source : Sources, workspace : Workspaces, enabled : BOOLEAN]
  /\ None \notin [source : Sources, workspace : Workspaces, enabled : BOOLEAN, nextAt : Nat]
  /\ None \notin Nat
  /\ Period \in [Sources \ Calendars -> Nat \ {0}]
  /\ Occurs \in [Calendars -> SUBSET Nat]
  /\ \A c \in Calendars : \A t \in 0..MaxTime :
       \E n \in Occurs[c] : n > t /\ \A o \in Occurs[c] : o > t => n <= o
  /\ \A c \in Calendars : \A t \in 0..MaxTime :
       (\E o \in Occurs[c] : o <= t) =>
         \E l \in Occurs[c] : l <= t /\ \A o \in Occurs[c] : o <= t => o <= l

VARIABLES clock,
          def,      \* the definition file
          row,      \* the row of the trigger
          firings,  \* the identities of its cron jobs
          install,  \* an install on its way
          scan,     \* the time a tick of the scheduler read
          late      \* history: a tick fired while the install that wrote the row was on its way
cursorVars == <<clock, def, row, firings, install, scan, late>>

\* nextFiring: the first instant of the rule after a time, or a period later.
NextFiring(s, after) ==
  IF s \in Calendars
    THEN CHOOSE n \in Occurs[s] : n > after /\ \A o \in Occurs[s] : o > after => n <= o
    ELSE after + Period[s]

\* dueFiring: all overdue instants merge into the latest one.
ScheduledAt(s, nextAt, at) ==
  IF s \in Calendars
    THEN CHOOSE l \in Occurs[s] : l <= at /\ \A o \in Occurs[s] : o <= at => o <= l
    ELSE nextAt + ((at - nextAt) \div Period[s]) * Period[s]

Skipped(s, nextAt, at) == s \in Skips /\ at - ScheduledAt(s, nextAt, at) >= Grace

Definition == [source : Sources, workspace : Workspaces, enabled : BOOLEAN]
Row == [source : Sources, workspace : Workspaces, enabled : BOOLEAN, nextAt : Nat]
Firing == [source : Sources, at : Nat]   \* the identity of a cron job
Install == [step : {"begun", "found", "new"}, at : 0..MaxTime, def : Definition \cup {None},
            overtaken : BOOLEAN]

CursorInit ==
  /\ clock \in 0..MaxTime /\ def = None /\ row = None /\ firings = {}
  /\ install = None /\ scan = None /\ late = FALSE

Fresh(d, at) == [source |-> d.source, workspace |-> d.workspace, enabled |-> d.enabled,
                 nextAt |-> NextFiring(d.source, at)]

\* The definition file is written, edited, paused or removed.
Edit == /\ def' \in Definition \cup {None}
        /\ UNCHANGED <<clock, row, firings, install, scan, late>>

-----------------------------------------------------------------------------
\* dscode trigger install: reads the clock, then the definition, then the row, and
\* writes the row.  It may die, or be refused, before it does.
BeginInstall ==
  /\ install = None
  /\ install' = [step |-> "begun", at |-> clock, def |-> None, overtaken |-> FALSE]
  /\ UNCHANGED <<clock, def, row, firings, scan, late>>

FindDefinition ==
  /\ install # None /\ install.step = "begun" /\ def # None
  /\ install' = [install EXCEPT !.step = "found", !.def = def]
  /\ UNCHANGED <<clock, def, row, firings, scan, late>>

\* A row of the same source and workspace keeps its cursor, whatever the switch says.
CheckRow ==
  /\ install # None /\ install.step = "found"
  /\ row # None => row.source # install.def.source \/ row.workspace # install.def.workspace
  /\ install' = [install EXCEPT !.step = "new"]
  /\ UNCHANGED <<clock, def, row, firings, scan, late>>

Register ==
  /\ install # None /\ install.step = "new"
  /\ row' = Fresh(install.def, install.at)
  /\ late' = install.overtaken
  /\ install' = None
  /\ UNCHANGED <<clock, def, firings, scan>>

LeaveInstall ==
  /\ install # None /\ install' = None
  /\ UNCHANGED <<clock, def, row, firings, scan, late>>

\* Uninstalled, or registered again as a script source. Pending jobs are cancelled
\* or left, never deleted: their identities stay taken.
Unregister ==
  /\ row # None
  /\ row' = None /\ late' = FALSE
  /\ UNCHANGED <<clock, def, firings, install, scan>>

-----------------------------------------------------------------------------
\* A tick of the one scheduler: it reads the clock, and then the row and its definition.
BeginScan ==
  /\ scan = None
  /\ scan' = clock
  /\ UNCHANGED <<clock, def, row, firings, install, late>>

Changed == \/ row.source # def.source \/ row.workspace # def.workspace
           \/ row.enabled # def.enabled
Found == scan # None /\ row # None /\ def # None
IsDue == Found /\ ~Changed /\ row.enabled /\ scan >= row.nextAt
Due == [source |-> row.source, at |-> ScheduledAt(row.source, row.nextAt, scan)]

\* materialize, for a row whose definition it finds: follow an edit, or fire.
Follow ==
  /\ Found /\ Changed
  /\ row' = Fresh(def, scan)
  /\ scan' = None /\ late' = FALSE
  /\ UNCHANGED <<clock, def, firings, install>>

\* The job of the firing, unless it is skipped or its identity is taken (INSERT OR IGNORE).
FireJob ==
  /\ firings' = IF Skipped(row.source, row.nextAt, scan) THEN firings ELSE firings \cup {Due}
  /\ install' = IF install = None THEN None ELSE [install EXCEPT !.overtaken = TRUE]
  /\ scan' = None /\ late' = FALSE
  /\ UNCHANGED <<clock, def>>

\* The job and the cursor are one transaction.
BugFire == IsDue /\ FireJob /\ UNCHANGED row  \* mutant: the job is committed without the cursor
Fire ==
  /\ IsDue /\ FireJob
  /\ row' = [row EXCEPT !.nextAt = NextFiring(row.source, scan)]

\* Nothing is due, or the scheduler dies and the transaction is rolled back.
LeaveScan ==
  /\ scan # None /\ scan' = None
  /\ UNCHANGED <<clock, def, row, firings, install, late>>

Elapse ==
  /\ \E t \in 0..MaxTime : t > clock /\ clock' = t
  /\ UNCHANGED <<def, row, firings, install, scan, late>>

CursorNext ==
  \/ Edit \/ Elapse \/ Unregister
  \/ BeginInstall \/ FindDefinition \/ CheckRow \/ Register \/ LeaveInstall
  \/ BeginScan \/ Follow \/ Fire \/ LeaveScan
CursorSpec == CursorInit /\ [][CursorNext]_cursorVars

CursorTypeOK ==
  /\ clock \in 0..MaxTime
  /\ def \in Definition \cup {None} /\ row \in Row \cup {None}
  /\ firings \subseteq Firing
  /\ install \in Install \cup {None} /\ scan \in (0..MaxTime) \cup {None}
  /\ late \in BOOLEAN
  /\ install # None /\ install.step # "begun" => install.def # None

\* Every job was due by now, by the time of a tick on its way, and by the time an install
\* on its way has read unless a tick fired since; and the cursor is past the jobs of its
\* own source unless a late install set it.
CursorPastJobs ==
  \A j \in firings :
    /\ j.at <= clock
    /\ scan # None => j.at <= scan
    /\ install # None /\ ~install.overtaken => j.at <= install.at
    /\ row # None /\ ~late /\ j.source = row.source => j.at < row.nextAt

\* A cursor of a calendar stands on an instant of the rule.
CursorOnRule == row # None /\ row.source \in Calendars => row.nextAt \in Occurs[row.source]

\* A firing is never swallowed: when an occurrence becomes due, no job has its
\* identity yet, through every edit, pause, uninstallation and reinstallation
\* (the INSERT OR IGNORE of create, jobs.mjs:42, would drop it in silence); unless a
\* tick fired between an install's look at the clock (cli.mjs:268) and its write of the
\* row, which may put the cursor back before that firing.
NeverSwallowed == IsDue /\ ~late => Due \notin firings

\* What fires is the latest overdue instant and not one before the cursor
\* (schedule.mjs:20): no instant of the rule lies between it and the tick's time.
FiresLatest ==
  IsDue => /\ row.nextAt <= Due.at /\ Due.at <= scan
           /\ \A o \in Nat :
                /\ o > Due.at
                /\ IF row.source \in Calendars THEN o \in Occurs[row.source]
                   ELSE \E k \in Nat : o = row.nextAt + k * Period[row.source]
                => o > scan

\* jobs.mjs:107-111,131-147: through pauses, resumptions, moves to another workspace and
\* late ticks, the jobs of one source are created in the order of their instants, unless
\* a late install put the cursor back.
FiresForward ==
  [][~late => \A f \in firings' \ firings, j \in firings :
                 j.source = f.source => j.at < f.at]_cursorVars
=============================================================================
