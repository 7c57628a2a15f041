---------------------------- MODULE MCTriggerJobs ----------------------------
(* Small instances for TLC of the trigger jobs and of the cursor of a schedule. *)
(* The two modules share no variable, so what one does can be seen without the  *)
(* other: in each behaviour one of them moves, within one of four scopes.       *)
EXTENDS TriggerJobs, ScheduleCursor, TLC

CONSTANTS a, b, c, nightly, w1, w2, poll, cron, here, there

OneTrigger == [j \in Jobs |-> nightly]
Slots == Permutations(Workers)
Periods == poll :> 2
Instants == cron :> {1, 3, 6}   \* the last of them beyond the clock

VARIABLE moves

BothInit ==
  /\ Init /\ CursorInit
  /\ moves \in {"jobs", "job", "moved", "ruled"}
  /\ moves \in {"jobs", "job"} => clock = 0   \* the other stands in one state

\* No job is due beyond the clock, and the slots are used in order.
Bounded ==
  /\ \A j \in Jobs : jobs'[j].due <= MaxNow
  /\ worker[w1] = Off /\ worker[w2] = Off => worker'[w2] = Off
\* Two jobs whose processes' pids nobody takes, or one.
JobsMove ==
  /\ Next /\ Bounded /\ UNCHANGED cursorVars
  /\ \/ moves = "jobs" /\ UNCHANGED pids
     \/ moves = "job" /\ \A i, j \in Created' : i = j
\* A poll that is paused and moved to another workspace, or two rules.
CursorMoves ==
  /\ CursorNext /\ UNCHANGED vars
  /\ \/ moves = "moved" /\ clock' < MaxTime /\ (def' # None => def'.source = poll)
     \/ moves = "ruled" /\ (def' # None => def'.enabled /\ def'.workspace = here)
BothSpec ==
  /\ BothInit /\ [][(JobsMove \/ CursorMoves) /\ UNCHANGED moves]_<<vars, cursorVars, moves>>
  /\ moves \in {"jobs", "job"} => Fairness
=============================================================================
