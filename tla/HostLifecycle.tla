---------------------------- MODULE HostLifecycle ----------------------------
(***************************************************************************)
(* The shared Host of a state directory: who starts it, attaches to it and *)
(* ends it.  scripts/host.mjs, plugins/local-carrier/index.mjs and         *)
(* stopIdleHost of scripts/standalone.mjs.                                 *)
(*                                                                         *)
(* A terminal calls ensureHost(): it asks for the status over the socket,  *)
(* launches a Host when nothing answers, and ends its own launches that    *)
(* are not the Host that answers.  A launch takes the Host lock before it  *)
(* boots, or exits.  A Host leaves when it is idle, when it is told to     *)
(* shut down, or by a signal: it closes its socket, then releases its lock *)
(* with its process.  A status is asked and answered in one step, and used *)
(* in a later one.                                                         *)
(*                                                                         *)
(* The order in which the Harness disposes what the carrier mounted        *)
(* (socket before lock) is external.  Left out: the TCP listener, turns    *)
(* that run without a terminal, and a Host that is mounted without serve.  *)
(***************************************************************************)
EXTENDS Naturals, FiniteSets

CONSTANTS
  Terminals,
  MaxLaunches, \* bound on the Hosts launched
  MaxDeaths,   \* bound on the Hosts that die
  Nobody       \* no Host

ASSUME HostAssumption == MaxLaunches \in Nat /\ MaxDeaths \in Nat /\ Nobody \notin Nat

VARIABLES
  stage,    \* of each launch
  told,     \* launches that were sent SIGTERM
  lock,     \* the launch that holds host.lock
  socket,   \* the launch that listens at host.sock
  terminal, \* each terminal: where it is in ensureHost(), its launches, the status it was answered, its Host
  stopper,  \* one who stops the Host: not begun, found it idle, asked for its status in
            \* stop() for that reason or for the user's, done
  deaths,   \* so far
  warned    \* history: terminals that lose their Host by a death, by a stale status, by the
            \* user's stop, or attached too late

vars == <<stage, told, lock, socket, terminal, stopper, deaths, warned>>

Launches == 1..MaxLaunches
Hosts == Launches \cup {Nobody}
Stages == {"none", "spawned", "boot", "up", "leaving", "closed", "gone"}
Phases == {"out", "asking", "answered", "ready", "attached", "lost", "failed", "done"}

TypeOK ==
  /\ stage \in [Launches -> Stages]
  /\ told \in SUBSET Launches
  /\ lock \in Hosts /\ socket \in Hosts
  /\ terminal \in [Terminals -> [phase : Phases, mine : SUBSET Launches, answer : Hosts, host : Hosts]]
  /\ stopper \in {"begun", "found idle", "idle", "user", "done"}
  /\ deaths \in 0..MaxDeaths
  /\ warned \in SUBSET Terminals

Init ==
  /\ stage = [l \in Launches |-> "none"]
  /\ told = {} /\ lock = Nobody /\ socket = Nobody
  /\ terminal = [t \in Terminals |-> [phase |-> "out", mine |-> {}, answer |-> Nobody, host |-> Nobody]]
  /\ stopper = "begun" /\ deaths = 0 /\ warned = {}

Attached(l) == {t \in Terminals : terminal[t].phase = "attached" /\ terminal[t].host = l}
Alive(l) == stage[l] \notin {"none", "gone"}
Answering == IF socket # Nobody /\ stage[socket] \in {"up", "leaving"} THEN socket ELSE Nobody
Freed(who, l) == IF who = l THEN Nobody ELSE who
\* The terminals of a Host that is no more look for it again.
CutOff(l) == [t \in Terminals |-> IF t \in Attached(l) THEN [terminal[t] EXCEPT !.phase = "lost"] ELSE terminal[t]]

-----------------------------------------------------------------------------
(* A launched Host                                                         *)

\* serve(): the lock, or out at once.
BugTakeLock(l) ==  \* mutant: a launch that lost boots all the same
  /\ stage[l] = "spawned"
  /\ lock' = IF lock = Nobody THEN l ELSE lock
  /\ stage' = [stage EXCEPT ![l] = "boot"]
  /\ UNCHANGED <<told, socket, terminal, stopper, deaths, warned>>
TakeLock(l) ==
  /\ stage[l] = "spawned"
  /\ IF lock = Nobody
     THEN lock' = l /\ stage' = [stage EXCEPT ![l] = "boot"]
     ELSE UNCHANGED lock /\ stage' = [stage EXCEPT ![l] = "gone"]
  /\ UNCHANGED <<told, socket, terminal, stopper, deaths, warned>>

\* The carrier removes whatever is at the path and listens there.
Listen(l) ==
  /\ stage[l] = "boot"
  /\ socket' = l /\ stage' = [stage EXCEPT ![l] = "up"]
  /\ UNCHANGED <<told, lock, terminal, stopper, deaths, warned>>

\* Idle exit: no attached terminal at a tick; the exit follows a moment later.
BugIdleExit(l) ==  \* mutant: terminals are not counted
  /\ stage[l] = "up"
  /\ stage' = [stage EXCEPT ![l] = "leaving"]
  /\ UNCHANGED <<told, lock, socket, terminal, stopper, deaths, warned>>
IdleExit(l) ==
  /\ stage[l] = "up" /\ Attached(l) = {}
  /\ stage' = [stage EXCEPT ![l] = "leaving"]
  /\ UNCHANGED <<told, lock, socket, terminal, stopper, deaths, warned>>

\* The socket is closed and its path removed, whoever is there.
Close(l) ==
  /\ stage[l] = "leaving"
  /\ stage' = [stage EXCEPT ![l] = "closed"]
  /\ socket' = Nobody
  /\ terminal' = CutOff(l)
  /\ UNCHANGED <<told, lock, stopper, deaths, warned>>

Gone(l) ==
  /\ stage' = [stage EXCEPT ![l] = "gone"]
  /\ lock' = Freed(lock, l)

Exit(l) ==
  /\ stage[l] = "closed"
  /\ Gone(l)
  /\ UNCHANGED <<told, socket, terminal, stopper, deaths, warned>>

\* SIGTERM: a Host leaves, what does not serve yet is gone.
Signalled(l) ==
  /\ l \in told /\ stage[l] \in {"spawned", "boot", "up"}
  /\ IF stage[l] = "up"
     THEN stage' = [stage EXCEPT ![l] = "leaving"] /\ UNCHANGED lock
     ELSE Gone(l)
  /\ UNCHANGED <<told, socket, terminal, stopper, deaths, warned>>

Die(l) ==
  /\ Alive(l) /\ deaths < MaxDeaths
  /\ deaths' = deaths + 1
  /\ Gone(l)
  /\ socket' = Freed(socket, l)
  /\ terminal' = CutOff(l)
  /\ warned' = warned \cup Attached(l)
  /\ UNCHANGED <<told, stopper>>

-----------------------------------------------------------------------------
(* ensureHost() and the terminal                                           *)

Begin(t) ==
  /\ terminal[t].phase = "out"
  /\ terminal' = [terminal EXCEPT ![t].phase = "asking"]
  /\ UNCHANGED <<stage, told, lock, socket, stopper, deaths, warned>>

\* hostStatus()
Ask(t) ==
  /\ terminal[t].phase = "asking"
  /\ terminal' = [terminal EXCEPT ![t].phase = "answered", ![t].answer = Answering]
  /\ UNCHANGED <<stage, told, lock, socket, stopper, deaths, warned>>

\* ready(): the launches of this start that are not the Host that answered are ended; one that
\* serves by now, because that Host has left since, is ended too.
Stale(t) == {l \in terminal[t].mine : Alive(l) /\ l # terminal[t].answer}
BugReady(t) ==  \* mutant: stale launches are left alone
  /\ terminal[t].phase = "answered" /\ terminal[t].answer # Nobody
  /\ terminal' = [terminal EXCEPT ![t].phase = "ready"]
  /\ UNCHANGED <<stage, told, lock, socket, stopper, deaths, warned>>
Ready(t) ==
  /\ terminal[t].phase = "answered" /\ terminal[t].answer # Nobody
  /\ told' = told \cup Stale(t)
  /\ warned' = warned \cup UNION {Attached(l) : l \in Stale(t)}
  /\ terminal' = [terminal EXCEPT ![t].phase = "ready"]
  /\ UNCHANGED <<stage, lock, socket, stopper, deaths>>

\* Nothing answers: launch once more when the last launch is gone.
Retry(t) ==
  /\ terminal[t].phase = "answered" /\ terminal[t].answer = Nobody
  /\ IF \A l \in terminal[t].mine : ~Alive(l)
     THEN \E l \in Launches :
            /\ stage[l] = "none" /\ \A m \in Launches : m < l => stage[m] # "none"
            /\ stage' = [stage EXCEPT ![l] = "spawned"]
            /\ terminal' = [terminal EXCEPT ![t].phase = "asking", ![t].mine = @ \cup {l}]
     ELSE /\ terminal' = [terminal EXCEPT ![t].phase = "asking"]
          /\ UNCHANGED stage
  /\ UNCHANGED <<told, lock, socket, stopper, deaths, warned>>

\* A terminal that attaches while its Host is about to end has come too late.
TooLate(l) == stage[l] = "leaving" \/ l \in told \/ stopper \in {"found idle", "idle"}

\* The event stream is opened; the first attempt is not repeated.
Attach(t) ==
  /\ terminal[t].phase \in {"ready", "lost"}
  /\ IF Answering # Nobody
     THEN /\ terminal' = [terminal EXCEPT ![t].phase = "attached", ![t].host = Answering]
          /\ warned' = IF TooLate(Answering) THEN warned \cup {t} ELSE warned \ {t}
     ELSE /\ terminal' = [terminal EXCEPT ![t].phase = IF @ = "ready" THEN "failed" ELSE @]
          /\ UNCHANGED warned
  /\ UNCHANGED <<stage, told, lock, socket, stopper, deaths>>

Leave(t) ==
  /\ terminal[t].phase \in {"attached", "lost", "failed"}
  /\ terminal' = [terminal EXCEPT ![t].phase = "done"]
  /\ UNCHANGED <<stage, told, lock, socket, stopper, deaths, warned>>

-----------------------------------------------------------------------------
(* stop(): of an update or of a server, which have read that the Host is    *)
(* idle, or of the user (dscode host stop), terminals or not               *)

AskIdle ==
  /\ stopper = "begun" /\ Answering # Nobody /\ Attached(Answering) = {}
  /\ stopper' = "found idle"
  /\ UNCHANGED <<stage, told, lock, socket, terminal, deaths, warned>>

AskStop ==
  /\ stopper \in {"begun", "found idle"}
  /\ stopper' = IF Answering = Nobody THEN "done" ELSE IF stopper = "begun" THEN "user" ELSE "idle"
  /\ UNCHANGED <<stage, told, lock, socket, terminal, deaths, warned>>

\* host/shutdown, to the Host that is there by now.
Shutdown ==
  /\ stopper \in {"idle", "user"}
  /\ stopper' = "done"
  /\ stage' = IF Answering = Nobody THEN stage ELSE [stage EXCEPT ![Answering] = "leaving"]
  /\ warned' = IF stopper = "user" THEN warned \cup Attached(Answering) ELSE warned
  /\ UNCHANGED <<told, lock, socket, terminal, deaths>>

Progress(l) == TakeLock(l) \/ Listen(l) \/ Close(l) \/ Exit(l) \/ Signalled(l)
Start(t) == Ask(t) \/ Ready(t) \/ Retry(t)

Next ==
  \/ \E l \in Launches : Progress(l) \/ IdleExit(l) \/ Die(l)
  \/ \E t \in Terminals : Begin(t) \/ Start(t) \/ Attach(t) \/ Leave(t)
  \/ AskIdle \/ AskStop \/ Shutdown

Spec == Init /\ [][Next]_vars
Fairness ==
  /\ \A l \in Launches : WF_vars(Progress(l))
  /\ \A t \in Terminals : WF_vars(Start(t))
FairSpec == Spec /\ Fairness

-----------------------------------------------------------------------------
(* Properties                                                              *)

\* What listens at the socket holds the lock, so one Host serves a state directory and no
\* launch removes the socket of another.
SocketIsHolders ==
  /\ socket # Nobody => lock = socket
  /\ \A l \in Launches : stage[l] \in {"boot", "up", "leaving", "closed"} => lock = l

\* A terminal loses its Host only when the Host dies, when the user stops it ("Ask the host
\* to exit", docs/host.md), when the terminal attached after the Host had decided to leave or
\* was found idle, or when a start ended it on a stale status.
AttachedIsServed ==
  [][\A t \in Terminals :
       terminal[t].phase = "attached" /\ terminal'[t].phase = "lost" => t \in warned']_vars

\* host.mjs:157: when a start has found its Host, its other launches come to an end, even if
\* that Host leaves before them.
StaleLaunchesEnd ==
  \A l \in Launches :
    (\E t \in Terminals : terminal[t].phase = "ready" /\ l \in Stale(t)) ~> stage[l] = "gone"
=============================================================================
