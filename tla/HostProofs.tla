------------------------------ MODULE HostProofs ------------------------------
(***************************************************************************)
(* Theorems about the shared Host and its terminals, for any number of     *)
(* terminals, launches, deaths, requests, calls, faults and restarts: who  *)
(* serves a state directory and keeps serving its terminals                *)
(* (HostLifecycle), what becomes of the messages that terminals deliver    *)
(* (HostDelivery) and of the approvals and questions they are asked        *)
(* (TerminalAnswers), and how they follow the log of a session             *)
(* (TerminalFollow).                                                       *)
(***************************************************************************)
EXTENDS HostLifecycle, HostDelivery, TerminalAnswers, TerminalFollow, FiniteSetTheorems, TLAPS

-----------------------------------------------------------------------------
(* The Host and its terminals                                              *)

\* Whoever boots, serves or leaves holds the lock, and only a Host that is up or leaving has
\* the socket.
Holding == {"boot", "up", "leaving", "closed"}
Serving == socket # Nobody => socket \in Launches /\ stage[socket] \in {"up", "leaving"}

\* A terminal is attached to the Host at the socket; once that Host is to end, or has been
\* found idle, the terminal is counted as warned.
Ending == stage[socket] = "leaving" \/ socket \in told \/ stopper \in {"found idle", "idle"}
Served == \A t \in Terminals : terminal[t].phase = "attached" =>
  /\ socket # Nobody /\ terminal[t].host = socket
  /\ Ending => t \in warned

IInv == TypeOK /\ SocketIsHolders /\ Serving /\ Served

LEMMA Distinct == Nobody \notin Launches
BY HostAssumption DEF Launches

TerminalType == [phase : Phases, mine : SUBSET Launches, answer : Hosts, host : Hosts]

LEMMA Initially == Init => IInv
<1> SUFFICES ASSUME Init PROVE IInv
  OBVIOUS
<1>1. TypeOK
  BY HostAssumption DEF Init, TypeOK, Hosts, Stages, Phases
<1>2. SocketIsHolders /\ Serving
  BY DEF Init, SocketIsHolders, Serving
<1>3. Served
  BY DEF Init, Served
<1> QED
  BY <1>1, <1>2, <1>3 DEF IInv

\* The terminals that are not those of l are as they were; those of l are lost.
LEMMA CutOffTerminals ==
  ASSUME TypeOK, NEW l \in Launches, terminal' = CutOff(l)
  PROVE  /\ terminal' \in [Terminals -> TerminalType]
         /\ \A t \in Terminals : terminal'[t].phase = "attached" =>
              terminal'[t] = terminal[t] /\ terminal[t].host # l
         /\ \A t \in Terminals : terminal[t].phase = "attached" /\ terminal'[t].phase = "lost" =>
              t \in Attached(l)
<1>1. \A t \in Terminals : terminal[t] \in TerminalType
  BY DEF TypeOK, TerminalType
<1>2. ASSUME NEW t \in Attached(l)
      PROVE  terminal'[t] \in TerminalType /\ terminal'[t].phase = "lost"
  <2>1. t \in Terminals /\ terminal'[t] = [terminal[t] EXCEPT !.phase = "lost"]
    BY DEF CutOff, Attached
  <2> QED
    BY <1>1, <2>1 DEF TerminalType, Phases
<1>3. ASSUME NEW t \in Terminals \ Attached(l) PROVE terminal'[t] = terminal[t]
  BY DEF CutOff
<1>4. terminal' \in [Terminals -> TerminalType]
  <2>1. terminal' = [t \in Terminals |-> terminal'[t]]
    BY DEF CutOff
  <2>2. \A t \in Terminals : terminal'[t] \in TerminalType
    BY <1>1, <1>2, <1>3
  <2> QED
    BY <2>1, <2>2
<1>5. ASSUME NEW t \in Terminals, terminal'[t].phase = "attached"
      PROVE  terminal'[t] = terminal[t] /\ terminal[t].host # l
  <2>1. t \notin Attached(l)
    BY <1>2, <1>5
  <2> QED
    BY <1>3, <1>5, <2>1 DEF Attached
<1>6. ASSUME NEW t \in Terminals, terminal[t].phase = "attached", terminal'[t].phase = "lost"
      PROVE  t \in Attached(l)
  BY <1>3, <1>6
<1> QED
  BY <1>4, <1>5, <1>6

-----------------------------------------------------------------------------
\* The Hosts

\* A step that leaves the terminals alone and makes no Host end keeps them served.
LEMMA StillServed ==
  ASSUME Served, UNCHANGED terminal, \A t \in Terminals : terminal[t].phase = "attached" => socket' = socket,
         warned \subseteq warned',
         \A t \in Terminals : terminal[t].phase = "attached" /\ Ending' => Ending \/ t \in warned'
  PROVE  Served'
BY DEF Served

LEMMA TakeLockStep == ASSUME IInv, NEW l \in Launches, TakeLock(l) PROVE IInv'
<1>1. TypeOK'
  BY DEF IInv, TypeOK, TakeLock, Hosts, Stages
<1>2. SocketIsHolders' /\ Serving'
  BY Distinct DEF IInv, TypeOK, TakeLock, SocketIsHolders, Serving
<1>3. Served'
  BY DEF IInv, TypeOK, TakeLock, Serving, Served, Ending
<1> QED
  BY <1>1, <1>2, <1>3 DEF IInv

LEMMA ListenStep == ASSUME IInv, NEW l \in Launches, Listen(l) PROVE IInv'
<1>1. TypeOK'
  BY DEF IInv, TypeOK, Listen, Hosts, Stages
<1>2. lock = l /\ socket = Nobody
  BY DEF IInv, Listen, SocketIsHolders, Serving
<1>3. SocketIsHolders' /\ Serving'
  BY <1>2, Distinct DEF IInv, TypeOK, Listen, SocketIsHolders, Serving
<1>4. Served'
  BY <1>2 DEF IInv, Listen, Served
<1> QED
  BY <1>1, <1>3, <1>4 DEF IInv

LEMMA IdleExitStep == ASSUME IInv, NEW l \in Launches, IdleExit(l) PROVE IInv'
<1>1. TypeOK'
  BY DEF IInv, TypeOK, IdleExit, Stages
<1>2. SocketIsHolders' /\ Serving'
  BY DEF IInv, TypeOK, IdleExit, SocketIsHolders, Serving
<1>3. Served'
  BY DEF IInv, TypeOK, IdleExit, Served, Ending, Attached, Serving
<1> QED
  BY <1>1, <1>2, <1>3 DEF IInv

LEMMA CloseStep == ASSUME IInv, NEW l \in Launches, Close(l) PROVE IInv'
<1>1. terminal' = CutOff(l) /\ TypeOK
  BY DEF IInv, Close
<1>2. TypeOK'
  BY <1>1, CutOffTerminals DEF TypeOK, TerminalType, Close, Hosts, Stages
<1>3. lock = l /\ (socket = Nobody \/ socket = l)
  BY DEF IInv, Close, SocketIsHolders
<1>4. SocketIsHolders' /\ Serving'
  BY <1>3 DEF IInv, TypeOK, Close, SocketIsHolders, Serving
<1>5. Served'
  BY <1>1, <1>3, CutOffTerminals DEF IInv, Served
<1> QED
  BY <1>2, <1>4, <1>5 DEF IInv

LEMMA ExitStep == ASSUME IInv, NEW l \in Launches, Exit(l) PROVE IInv'
<1>1. TypeOK'
  BY DEF IInv, TypeOK, Exit, Gone, Freed, Hosts, Stages
<1>2. lock = l /\ socket = Nobody
  BY DEF IInv, Exit, SocketIsHolders, Serving
<1>3. SocketIsHolders' /\ Serving'
  BY <1>2, Distinct DEF IInv, TypeOK, Exit, Gone, Freed, SocketIsHolders, Serving
<1>4. Served'
  BY <1>2 DEF IInv, Exit, Served
<1> QED
  BY <1>1, <1>3, <1>4 DEF IInv

LEMMA SignalledStep == ASSUME IInv, NEW l \in Launches, Signalled(l) PROVE IInv'
<1>1. TypeOK'
  BY DEF IInv, TypeOK, Signalled, Gone, Freed, Hosts, Stages
<1>2. SocketIsHolders' /\ Serving'
  BY Distinct DEF IInv, TypeOK, Signalled, Gone, Freed, SocketIsHolders, Serving
<1>3. Served'
  BY DEF IInv, TypeOK, Signalled, Gone, Served, Ending, Serving
<1> QED
  BY <1>1, <1>2, <1>3 DEF IInv

LEMMA DieStep == ASSUME IInv, NEW l \in Launches, Die(l) PROVE IInv'
<1>1. terminal' = CutOff(l) /\ TypeOK
  BY DEF IInv, Die
<1>2. TypeOK'
  <2>1. stage \in [Launches -> Stages] /\ lock \in Hosts /\ socket \in Hosts
    BY <1>1 DEF TypeOK
  <2>2. stage' \in [Launches -> Stages] /\ lock' \in Hosts /\ socket' \in Hosts
    BY <2>1 DEF Die, Gone, Freed, Hosts, Stages
  <2>3. deaths' \in 0..MaxDeaths
    <3>1. deaths \in 0..MaxDeaths /\ deaths < MaxDeaths /\ deaths' = deaths + 1
      BY <1>1 DEF TypeOK, Die
    <3> QED
      BY <3>1, HostAssumption
  <2>4. warned' \in SUBSET Terminals
    BY <1>1 DEF TypeOK, Die, Attached
  <2> QED
    BY <1>1, <2>2, <2>3, <2>4, CutOffTerminals DEF TypeOK, TerminalType, Die
<1>3. SocketIsHolders' /\ Serving'
  BY Distinct DEF IInv, TypeOK, Die, Gone, Freed, SocketIsHolders, Serving
<1>4. Served'
  <2> SUFFICES ASSUME NEW t \in Terminals, terminal'[t].phase = "attached"
               PROVE  /\ socket' # Nobody /\ terminal'[t].host = socket'
                      /\ Ending' => t \in warned'
    BY DEF Served
  <2>1. terminal'[t] = terminal[t] /\ terminal[t].host # l
    BY <1>1, CutOffTerminals
  <2>2. socket # Nobody /\ terminal[t].host = socket /\ (Ending => t \in warned) /\ socket # l
    BY <2>1 DEF IInv, Served
  <2>3. socket' = socket /\ stage'[socket] = stage[socket] /\ told' = told /\ stopper' = stopper
    <3>1. stage \in [Launches -> Stages] /\ socket \in Launches
      BY <1>1, <2>2 DEF TypeOK, IInv, Serving
    <3> QED
      BY <2>2, <3>1 DEF Die, Gone, Freed
  <2>4. warned \subseteq warned'
    BY DEF Die
  <2> QED
    BY <2>1, <2>2, <2>3, <2>4 DEF Ending
<1> QED
  BY <1>2, <1>3, <1>4 DEF IInv

-----------------------------------------------------------------------------
\* The terminals

\* A terminal that is not attached goes on: it attaches to no Host.
Moves(t, r) == terminal' = [terminal EXCEPT ![t] = r]

LEMMA TerminalMoves ==
  ASSUME TypeOK, NEW t \in Terminals, NEW r \in TerminalType, Moves(t, r)
  PROVE  /\ terminal' \in [Terminals -> TerminalType] /\ terminal'[t] = r
         /\ \A u \in Terminals \ {t} : terminal'[u] = terminal[u]
BY DEF TypeOK, TerminalType, Moves

\* What a terminal that is not attached may do to the launches: start one, or end some, whose
\* terminals it warns.
Spares ==
  /\ UNCHANGED <<lock, socket, stopper, deaths>>
  /\ stage' \in [Launches -> Stages]
  /\ \A l \in Launches : stage'[l] = stage[l] \/ (stage[l] = "none" /\ stage'[l] = "spawned")
  /\ told' \in SUBSET Launches /\ warned' \in SUBSET Terminals /\ warned \subseteq warned'
  /\ \A u \in Terminals : terminal[u].phase = "attached" /\ socket \in told' => socket \in told \/ u \in warned'

LEMMA Spared ==
  ASSUME IInv, UNCHANGED <<stage, told, lock, socket, stopper, deaths, warned>>
  PROVE  Spares
BY DEF IInv, TypeOK, Spares

LEMMA MovesServed ==
  ASSUME IInv, Spares, NEW t \in Terminals, NEW r \in TerminalType, Moves(t, r), r.phase # "attached"
  PROVE  IInv'
<1>1. /\ terminal' \in [Terminals -> TerminalType] /\ terminal'[t] = r
      /\ \A u \in Terminals \ {t} : terminal'[u] = terminal[u]
  BY TerminalMoves DEF IInv
<1>2. TypeOK'
  BY <1>1 DEF IInv, TypeOK, TerminalType, Spares
<1>3. SocketIsHolders' /\ Serving'
  BY DEF IInv, SocketIsHolders, Serving, Spares
<1>4. socket # Nobody => stage'[socket] = stage[socket]
  BY DEF IInv, Serving, Spares
<1>5. Served'
  BY <1>1, <1>4 DEF IInv, Served, Ending, Spares
<1> QED
  BY <1>2, <1>3, <1>5 DEF IInv

LEMMA BeginStep == ASSUME IInv, NEW t \in Terminals, Begin(t) PROVE IInv'
<1>1. PICK r : r = [terminal[t] EXCEPT !.phase = "asking"]
  OBVIOUS
<1>2. r \in TerminalType /\ r.phase = "asking"
  BY <1>1 DEF IInv, TypeOK, TerminalType, Phases
<1>3. Moves(t, r)
  BY <1>1 DEF Begin, Moves
<1>4. Spares
  BY Spared DEF Begin
<1> QED
  BY <1>2, <1>3, <1>4, MovesServed

LEMMA AnsweringIs ==
  ASSUME IInv PROVE Answering = socket /\ Answering \in Hosts
BY Distinct DEF IInv, TypeOK, Serving, Answering, Hosts

LEMMA AskStep == ASSUME IInv, NEW t \in Terminals, Ask(t) PROVE IInv'
<1>1. PICK r : r = [terminal[t] EXCEPT !.phase = "answered", !.answer = Answering]
  OBVIOUS
<1>2. r \in TerminalType /\ r.phase = "answered"
  BY <1>1, AnsweringIs DEF IInv, TypeOK, TerminalType, Phases
<1>3. Moves(t, r)
  BY <1>1 DEF Ask, Moves, IInv, TypeOK
<1>4. Spares
  BY Spared DEF Ask
<1> QED
  BY <1>2, <1>3, <1>4, MovesServed

LEMMA ReadyStep == ASSUME IInv, NEW t \in Terminals, Ready(t) PROVE IInv'
<1>1. PICK r : r = [terminal[t] EXCEPT !.phase = "ready"]
  OBVIOUS
<1>2. r \in TerminalType /\ r.phase = "ready"
  BY <1>1 DEF IInv, TypeOK, TerminalType, Phases
<1>3. Moves(t, r)
  BY <1>1 DEF Ready, Moves
<1>4. Stale(t) \in SUBSET Launches
  BY DEF Stale, IInv, TypeOK
<1>5. told' \in SUBSET Launches /\ warned' \in SUBSET Terminals /\ warned \subseteq warned'
  BY <1>4 DEF Ready, IInv, TypeOK, Attached
<1>6. \A u \in Terminals : terminal[u].phase = "attached" /\ socket \in told' =>
        socket \in told \/ u \in warned'
  <2> SUFFICES ASSUME NEW u \in Terminals, terminal[u].phase = "attached", socket \in Stale(t)
               PROVE  u \in warned'
    BY DEF Ready
  <2>1. u \in Attached(socket)
    BY DEF IInv, Served, Attached
  <2> QED
    BY <2>1 DEF Ready
<1>7. Spares
  BY <1>5, <1>6 DEF Ready, Spares, IInv, TypeOK
<1> QED
  BY <1>2, <1>3, <1>7, MovesServed

LEMMA RetryStep == ASSUME IInv, NEW t \in Terminals, Retry(t) PROVE IInv'
<1>1. CASE \A l \in terminal[t].mine : ~Alive(l)
  <2>1. PICK l \in Launches :
          /\ stage[l] = "none" /\ stage' = [stage EXCEPT ![l] = "spawned"]
          /\ terminal' = [terminal EXCEPT ![t].phase = "asking", ![t].mine = @ \cup {l}]
    BY <1>1 DEF Retry
  <2>2. PICK r : r = [terminal[t] EXCEPT !.phase = "asking", !.mine = @ \cup {l}]
    OBVIOUS
  <2>3. r \in TerminalType /\ r.phase = "asking"
    BY <2>2 DEF IInv, TypeOK, TerminalType, Phases
  <2>4. Moves(t, r)
    BY <2>1, <2>2 DEF Moves, IInv, TypeOK
  <2>5. stage' \in [Launches -> Stages]
        /\ \A k \in Launches : stage'[k] = stage[k] \/ (stage[k] = "none" /\ stage'[k] = "spawned")
    BY <2>1 DEF IInv, TypeOK, Stages
  <2>6. Spares
    BY <2>5 DEF Retry, Spares, IInv, TypeOK
  <2> QED
    BY <2>3, <2>4, <2>6, MovesServed
<1>2. CASE ~(\A l \in terminal[t].mine : ~Alive(l))
  <2>1. terminal' = [terminal EXCEPT ![t].phase = "asking"] /\ UNCHANGED stage
    BY <1>2 DEF Retry
  <2>2. PICK r : r = [terminal[t] EXCEPT !.phase = "asking"]
    OBVIOUS
  <2>3. r \in TerminalType /\ r.phase = "asking"
    BY <2>2 DEF IInv, TypeOK, TerminalType, Phases
  <2>4. Moves(t, r)
    BY <2>1, <2>2 DEF Moves
  <2>5. Spares
    BY <2>1, Spared DEF Retry
  <2> QED
    BY <2>3, <2>4, <2>5, MovesServed
<1> QED
  BY <1>1, <1>2

LEMMA AttachStep == ASSUME IInv, NEW t \in Terminals, Attach(t) PROVE IInv'
<1>1. CASE Answering # Nobody
  <2>1. PICK r : r = [terminal[t] EXCEPT !.phase = "attached", !.host = Answering]
    OBVIOUS
  <2>2. r \in TerminalType /\ r.phase = "attached" /\ r.host = socket /\ socket # Nobody
    BY <1>1, <2>1, AnsweringIs DEF IInv, TypeOK, TerminalType, Phases
  <2>3. Moves(t, r)
    BY <1>1, <2>1 DEF Attach, Moves, IInv, TypeOK
  <2>4. /\ terminal' \in [Terminals -> TerminalType] /\ terminal'[t] = r
        /\ \A u \in Terminals \ {t} : terminal'[u] = terminal[u]
    BY <2>2, <2>3, TerminalMoves DEF IInv
  <2>5. /\ warned' = IF Ending THEN warned \cup {t} ELSE warned \ {t}
        /\ UNCHANGED <<stage, told, lock, socket, stopper, deaths>>
    BY <1>1, AnsweringIs DEF Attach, TooLate, Ending
  <2>6. TypeOK'
    BY <2>4, <2>5 DEF IInv, TypeOK, TerminalType
  <2>7. SocketIsHolders' /\ Serving'
    BY <2>5 DEF IInv, SocketIsHolders, Serving
  <2>8. Served'
    BY <2>2, <2>4, <2>5 DEF IInv, Served, Ending
  <2> QED
    BY <2>6, <2>7, <2>8 DEF IInv
<1>2. CASE Answering = Nobody
  <2>1. PICK r : r = [terminal[t] EXCEPT !.phase = IF @ = "ready" THEN "failed" ELSE @]
    OBVIOUS
  <2>2. r \in TerminalType /\ r.phase # "attached"
    BY <2>1 DEF Attach, IInv, TypeOK, TerminalType, Phases
  <2>3. Moves(t, r)
    BY <1>2, <2>1 DEF Attach, Moves
  <2>4. Spares
    BY <1>2, Spared DEF Attach
  <2> QED
    BY <2>2, <2>3, <2>4, MovesServed
<1> QED
  BY <1>1, <1>2

LEMMA LeaveStep == ASSUME IInv, NEW t \in Terminals, Leave(t) PROVE IInv'
<1>1. PICK r : r = [terminal[t] EXCEPT !.phase = "done"]
  OBVIOUS
<1>2. r \in TerminalType /\ r.phase = "done"
  BY <1>1 DEF IInv, TypeOK, TerminalType, Phases
<1>3. Moves(t, r)
  BY <1>1 DEF Leave, Moves
<1>4. Spares
  BY Spared DEF Leave
<1> QED
  BY <1>2, <1>3, <1>4, MovesServed

\* The status that stopIdleHost() reads shows no terminal: nobody is attached anywhere.
LEMMA AskIdleStep == ASSUME IInv, AskIdle PROVE IInv'
<1>1. \A t \in Terminals : terminal[t].phase # "attached"
  BY AnsweringIs DEF AskIdle, IInv, Served, Attached
<1>2. TypeOK' /\ SocketIsHolders' /\ Serving'
  BY DEF AskIdle, IInv, TypeOK, SocketIsHolders, Serving
<1>3. Served'
  BY <1>1 DEF AskIdle, Served
<1> QED
  BY <1>2, <1>3 DEF IInv

LEMMA AskStopStep == ASSUME IInv, AskStop PROVE IInv'
<1>1. UNCHANGED <<stage, told, lock, socket, terminal, deaths, warned>>
      /\ stopper' \in {"idle", "user", "done"} /\ (stopper' = "idle" => stopper = "found idle")
  BY DEF AskStop
<1>2. TypeOK' /\ SocketIsHolders' /\ Serving'
  BY <1>1 DEF IInv, TypeOK, SocketIsHolders, Serving
<1>3. Served'
  BY <1>1, StillServed DEF IInv, Ending
<1> QED
  BY <1>2, <1>3 DEF IInv

\* A stop for idleness has warned whoever is attached, and the user's warns them now.
LEMMA ShutdownStep == ASSUME IInv, Shutdown PROVE IInv'
<1>1. stage' = (IF socket = Nobody THEN stage ELSE [stage EXCEPT ![socket] = "leaving"])
      /\ UNCHANGED <<told, lock, socket, terminal, deaths>> /\ stopper' = "done"
      /\ stopper \in {"idle", "user"}
      /\ warned' = IF stopper = "user" THEN warned \cup Attached(socket) ELSE warned
  BY AnsweringIs DEF Shutdown
<1>2. TypeOK'
  BY <1>1 DEF IInv, TypeOK, Stages, Attached
<1>3. SocketIsHolders' /\ Serving'
  BY <1>1 DEF IInv, TypeOK, SocketIsHolders, Serving
<1>4. Served'
  <2> SUFFICES ASSUME NEW t \in Terminals, terminal[t].phase = "attached"
               PROVE  socket # Nobody /\ terminal[t].host = socket /\ t \in warned'
    BY <1>1 DEF Served
  <2>1. socket # Nobody /\ terminal[t].host = socket /\ (Ending => t \in warned)
    BY DEF IInv, Served
  <2>2. stopper = "idle" => Ending
    BY DEF Ending
  <2>3. stopper = "user" => t \in Attached(socket)
    BY <2>1 DEF Attached
  <2> QED
    BY <1>1, <2>1, <2>2, <2>3
<1> QED
  BY <1>2, <1>3, <1>4 DEF IInv

-----------------------------------------------------------------------------
LEMMA InductiveStep == IInv /\ [Next]_vars => IInv'
<1> SUFFICES ASSUME IInv, [Next]_vars PROVE IInv'
  OBVIOUS
<1>1. ASSUME NEW l \in Launches, Progress(l) \/ IdleExit(l) \/ Die(l) PROVE IInv'
  BY <1>1, TakeLockStep, ListenStep, CloseStep, ExitStep, SignalledStep, IdleExitStep, DieStep DEF Progress
<1>2. ASSUME NEW t \in Terminals, Begin(t) \/ Start(t) \/ Attach(t) \/ Leave(t) PROVE IInv'
  BY <1>2, BeginStep, AskStep, ReadyStep, RetryStep, AttachStep, LeaveStep DEF Start
<1>3. CASE AskIdle \/ AskStop \/ Shutdown
  BY <1>3, AskIdleStep, AskStopStep, ShutdownStep
<1>4. CASE UNCHANGED vars
  BY <1>4 DEF vars, IInv, TypeOK, SocketIsHolders, Serving, Served, Ending
<1> QED
  BY <1>1, <1>2, <1>3, <1>4 DEF Next

\* A terminal that loses its Host is warned by then.
Kept == \A t \in Terminals :
  terminal[t].phase = "attached" /\ terminal'[t].phase = "lost" => t \in warned'

LEMMA KeptStep == IInv /\ [Next]_vars => Kept
<1> SUFFICES ASSUME IInv, [Next]_vars, NEW t \in Terminals,
                    terminal[t].phase = "attached", terminal'[t].phase = "lost"
             PROVE  t \in warned'
  BY DEF Kept
<1>t. TypeOK /\ terminal[t] \in TerminalType
  BY DEF IInv, TypeOK, TerminalType
<1>1. ASSUME NEW l \in Launches, Close(l) PROVE t \in warned'
  <2>1. t \in Attached(l)
    BY <1>t, <1>1, CutOffTerminals DEF Close
  <2>2. stage[socket] = "leaving"
    BY <1>1, <2>1 DEF Close, Attached, IInv, Served
  <2> QED
    BY <1>1, <2>1, <2>2 DEF Close, IInv, Served, Ending
<1>2. ASSUME NEW l \in Launches, Die(l) PROVE t \in warned'
  <2>1. t \in Attached(l)
    BY <1>t, <1>2, CutOffTerminals DEF Die
  <2> QED
    BY <1>2, <2>1 DEF Die
<1>3. ASSUME NEW l \in Launches, TakeLock(l) \/ Listen(l) \/ Exit(l) \/ Signalled(l) \/ IdleExit(l) PROVE FALSE
  BY <1>3 DEF TakeLock, Listen, Exit, Signalled, IdleExit
<1>4. ASSUME NEW u \in Terminals, Begin(u) \/ Start(u) \/ Attach(u) \/ Leave(u) PROVE FALSE
  <2>1. terminal[u].phase # "attached" \/ terminal'[u].phase = "done"
    BY <1>t, <1>4 DEF IInv, TypeOK, TerminalType, Begin, Start, Ask, Ready, Retry, Attach, Leave
  <2>2. u # t => terminal'[t] = terminal[t]
    BY <1>t, <1>4 DEF TypeOK, Begin, Start, Ask, Ready, Retry, Attach, Leave
  <2> QED
    BY <2>1, <2>2
<1>5. CASE AskIdle \/ AskStop \/ Shutdown \/ UNCHANGED vars
  BY <1>5 DEF AskIdle, AskStop, Shutdown, vars
<1> QED
  BY <1>1, <1>2, <1>3, <1>4, <1>5 DEF Next, Progress

\* The lock, the socket and the terminals stay in step, whatever is launched, signalled,
\* killed or left behind (serve and ensureHost of host.mjs, local-carrier/index.mjs).
THEOREM Inductive == Spec => []IInv
<1> QED
  BY Initially, InductiveStep, PTL DEF Spec

\* Every variable of the shared Host keeps its type.
THEOREM TypeCorrect == Spec => []TypeOK
<1>1. IInv => TypeOK
  BY DEF IInv
<1> QED
  BY Inductive, <1>1, PTL

\* What listens at the socket holds the lock: of any number of launches one serves, and the
\* carrier's removal of what is at the path hits no other Host (host.mjs, serve).
THEOREM OneHostServes == Spec => []SocketIsHolders
<1>1. IInv => SocketIsHolders
  BY DEF IInv
<1> QED
  BY Inductive, <1>1, PTL

\* A terminal loses its Host only by a death, by the user's stop, by a start that ended it on a
\* stale status, or because it attached when the Host had decided to end or had been found idle
\* (the idle timer of local-carrier/index.mjs, ready() and stop() of host.mjs, stopIdleHost of
\* standalone.mjs).
THEOREM TerminalsAreServed == Spec => AttachedIsServed
<1>1. Kept => [\A t \in Terminals :
       terminal[t].phase = "attached" /\ terminal'[t].phase = "lost" => t \in warned']_vars
  BY DEF Kept
<1> QED
  BY Inductive, KeptStep, <1>1, PTL DEF Spec, AttachedIsServed

-----------------------------------------------------------------------------
(* Delivery                                                                *)

\* Every message has its receipt, contexts are never queued for a turn, and the
\* receipt of a message that refers to a context comes after the context's.
Receipted(s) == \A m \in Everywhere(s) : Receipt(m) \in s.receipts
Placed(s) == \A m \in s.next : m.part = "text"
Prepared(s) ==
  \A m \in Everywhere(s) : m.part = "text" /\ m.body \in Referring
                             => <<m.req, m.body, "context">> \in s.receipts
Led(s) ==
  \A m \in s.entered : m.part = "text" /\ m.body \in Referring
    => \A k \in s.next \cup s.step : ~(k.req = m.req /\ k.part = "context")

Sound(s) == /\ s \in Session
            /\ Receipted(s) /\ Placed(s) /\ Prepared(s) /\ Led(s)
            /\ Apart(s) /\ Single(s) /\ Accounted(s)

\* The text of a delivery was taken out for good.
Out(s, w) == \E m \in s.dropped : Receipt(m) = <<w[1], w[2], "text">>

Flushing(c, op) == call[c] # None /\ call[c].phase = "flushing" /\ call[c].op = op

\* What a call under way has done to the session in memory.
Done == \A c \in Calls :
  /\ Flushing(c, "deliver") =>
       \A a \in call[c].what : <<a[1], a[2], "text">> \in mem.receipts
  /\ Flushing(c, "remove") => \A w \in call[c].what : Out(mem, w)

Promised ==
  /\ disk.receipts \subseteq mem.receipts
  /\ \A a \in acked : <<a[1], a[2], "text">> \in disk.receipts
  /\ \A w \in withdrawn : Out(mem, w) /\ Out(disk, w)

Types == /\ running \in BOOLEAN /\ fresh \in Nat
         /\ call \in [Calls -> Call \cup {None}]
         /\ acked \subseteq Requests \X Bodies /\ withdrawn \subseteq Requests \X Bodies

DeliveryInv == Types /\ Sound(mem) /\ Sound(disk) /\ Done /\ Promised

-----------------------------------------------------------------------------
\* The operations on a session keep it sound

LEMMA OneBody ==
  ASSUME NEW s, Sound(s), NEW p1 \in s.receipts, NEW p2 \in s.receipts, p1[1] = p2[1]
  PROVE  p1[2] = p2[2]
<1>1. PICK m1 \in Everywhere(s) : Receipt(m1) = p1 BY DEF Sound, Accounted
<1>2. PICK m2 \in Everywhere(s) : Receipt(m2) = p2 BY DEF Sound, Accounted
<1> QED BY <1>1, <1>2 DEF Sound, Single, Receipt

LEMMA Typed ==
  ASSUME NEW s, Sound(s), NEW m \in Everywhere(s)
  PROVE  m \in Message /\ Receipt(m) \in AllReceipts
BY DEF Sound, Session, Everywhere, Message, Receipt, AllReceipts

LEMMA Additions ==
  ASSUME NEW s \in Session, NEW k \in Message
  PROVE  /\ LET t == InStep(s, k) IN
            /\ t.next = s.next /\ t.step = s.step \cup {k} /\ t.entered = s.entered
            /\ t.dropped = s.dropped /\ t.receipts = s.receipts \cup {Receipt(k)}
            /\ t \in Session
         /\ LET t == InTurn(s, k) IN
            /\ t.next = s.next \cup {k} /\ t.step = s.step /\ t.entered = s.entered
            /\ t.dropped = s.dropped /\ t.receipts = s.receipts \cup {Receipt(k)}
            /\ t \in Session
<1>1. Receipt(k) \in AllReceipts BY DEF Receipt, Message, AllReceipts
<1>2. s.receipts \cup {Receipt(k)} \in SUBSET AllReceipts BY <1>1 DEF Session
<1> HIDE DEF AllReceipts, Receipt, Message
<1> QED BY <1>2 DEF InStep, InTurn, Session

\* A context is injected only where no message of its request has entered.
LEMMA InjectSound ==
  ASSUME fresh \in Nat, NEW s, Sound(s), NEW r \in Requests, NEW b \in Bodies,
         ~Conflicting(s, r, b)
  PROVE  LET t == Injected(s, r, b) IN
         /\ Sound(t) /\ ~Conflicting(t, r, b)
         /\ b \in Referring => <<r, b, "context">> \in t.receipts
         /\ <<r, b, "text">> \in t.receipts <=> <<r, b, "text">> \in s.receipts
         /\ s.receipts \subseteq t.receipts /\ s.dropped = t.dropped
<1> DEFINE k == Context(r, b)
           t == InStep(s, k)
<1>1. CASE ~(b \in Referring /\ <<r, b, "context">> \notin s.receipts)
  BY <1>1 DEF Injected
<1>2. CASE b \in Referring /\ <<r, b, "context">> \notin s.receipts
  <2> USE <1>2
  <2>1. Injected(s, r, b) = t BY DEF Injected
  <2>2. k \in Message /\ Receipt(k) = <<r, b, "context">> /\ k.req = r /\ k.body = b
        /\ k.part = "context"
    BY DEF Context, Message, Receipt
  <2>3. /\ t.next = s.next /\ t.step = s.step \cup {k} /\ t.entered = s.entered
        /\ t.dropped = s.dropped /\ t.receipts = s.receipts \cup {<<r, b, "context">>}
        /\ t \in Session
    BY <2>2, Additions DEF Sound
  <2>4. Everywhere(t) = Everywhere(s) \cup {k} BY <2>3 DEF Everywhere
  <2>5. \A m \in Everywhere(s) : m.req = r => m.body = b /\ m.part # "context"
    <3> SUFFICES ASSUME NEW m \in Everywhere(s), m.req = r PROVE m.body = b /\ m.part # "context"
      OBVIOUS
    <3>1. Receipt(m) \in s.receipts BY DEF Sound, Receipted
    <3>2. m.body = b BY <3>1 DEF Conflicting, Receipt
    <3> QED BY <3>1, <3>2 DEF Receipt
  <2>6. k \notin Everywhere(s) BY <2>2, <2>5
  <2>7. Receipted(t) BY <2>2, <2>3, <2>4 DEF Sound, Receipted
  <2>8. Placed(t) BY <2>3 DEF Sound, Placed
  <2>9. Prepared(t) BY <2>2, <2>3, <2>4 DEF Sound, Prepared
  <2>10. Led(t)
    <3>1. \A m \in s.entered : m.part = "text" /\ m.body \in Referring => m.req # r
      BY <2>5 DEF Sound, Prepared, Everywhere
    <3> QED BY <3>1, <2>2, <2>3 DEF Sound, Led
  <2>11. Apart(t) BY <2>3, <2>6 DEF Sound, Apart, Everywhere
  <2>12. Single(t) BY <2>2, <2>4, <2>5 DEF Sound, Single
  <2>13. Accounted(t) BY <2>2, <2>3, <2>4 DEF Sound, Accounted
  <2>14. ~Conflicting(t, r, b) BY <2>3 DEF Conflicting
  <2> QED BY <2>1, <2>3, <2>7, <2>8, <2>9, <2>10, <2>11, <2>12, <2>13, <2>14 DEF Sound
<1> QED BY <1>1, <1>2

\* A message is added only where its request has none.
LEMMA TextSound ==
  ASSUME fresh \in Nat, NEW s, Sound(s), NEW r \in Requests, NEW b \in Bodies,
         ~Conflicting(s, r, b), <<r, b, "text">> \notin s.receipts,
         b \in Referring => <<r, b, "context">> \in s.receipts,
         NEW t, t = InStep(s, Text(r, b)) \/ t = InTurn(s, Text(r, b))
  PROVE  /\ Sound(t) /\ t.receipts = s.receipts \cup {<<r, b, "text">>}
         /\ t.dropped = s.dropped
<1> DEFINE k == Text(r, b)
<1>2. k \in Message /\ Receipt(k) = <<r, b, "text">> /\ k.req = r /\ k.body = b
      /\ k.part = "text"
  BY DEF Text, Message, Receipt
<1>3. /\ t.next \cup t.step = s.next \cup s.step \cup {k}
      /\ t.next \in {s.next, s.next \cup {k}} /\ t.step \in {s.step, s.step \cup {k}}
      /\ t.next = s.next \/ t.step = s.step
      /\ t.entered = s.entered /\ t.dropped = s.dropped
      /\ t.receipts = s.receipts \cup {<<r, b, "text">>} /\ t \in Session
  <2> HIDE DEF k
  <2> QED BY <1>2, Additions DEF Sound, k
<1>4. Everywhere(t) = Everywhere(s) \cup {k} BY <1>3 DEF Everywhere
<1>5. \A m \in Everywhere(s) : m.req = r => m.body = b /\ m.part # "text"
  <2> SUFFICES ASSUME NEW m \in Everywhere(s), m.req = r PROVE m.body = b /\ m.part # "text"
    OBVIOUS
  <2>1. Receipt(m) \in s.receipts BY DEF Sound, Receipted
  <2>2. m.body = b BY <2>1 DEF Conflicting, Receipt
  <2> QED BY <2>1, <2>2 DEF Receipt
<1>6. k \notin Everywhere(s) BY <1>2, <1>5
<1>7. Receipted(t) BY <1>2, <1>3, <1>4 DEF Sound, Receipted
<1>8. Placed(t) BY <1>2, <1>3 DEF Sound, Placed
<1>9. Prepared(t) BY <1>2, <1>3, <1>4 DEF Sound, Prepared
<1>10. Led(t) BY <1>2, <1>3 DEF Sound, Led
<1>11. Apart(t) BY <1>3, <1>6 DEF Sound, Apart, Everywhere
<1>12. Single(t) BY <1>2, <1>4, <1>5 DEF Sound, Single
<1>13. Accounted(t) BY <1>2, <1>3, <1>4 DEF Sound, Accounted
<1> QED BY <1>3, <1>7, <1>8, <1>9, <1>10, <1>11, <1>12, <1>13 DEF Sound

LEMMA AdmitSound ==
  ASSUME fresh \in Nat, NEW s, Sound(s), NEW r \in Requests, NEW b \in Bodies,
         ~Conflicting(s, r, b)
  PROVE  LET t == Admitted(s, r, b) IN
         /\ Sound(t) /\ <<r, b, "text">> \in t.receipts
         /\ s.receipts \subseteq t.receipts /\ s.dropped = t.dropped
<1>1. CASE <<r, b, "text">> \in s.receipts BY <1>1 DEF Admitted
<1>2. CASE <<r, b, "text">> \notin s.receipts
  <2> DEFINE u == Injected(s, r, b)
             t == Admitted(s, r, b)
  <2>1. /\ Sound(u) /\ ~Conflicting(u, r, b) /\ <<r, b, "text">> \notin u.receipts
        /\ b \in Referring => <<r, b, "context">> \in u.receipts
        /\ s.receipts \subseteq u.receipts /\ s.dropped = u.dropped
    BY <1>2, InjectSound
  <2>2. t = InStep(u, Text(r, b)) \/ t = InTurn(u, Text(r, b)) BY <1>2 DEF Admitted
  <2> HIDE DEF u, t
  <2>3. Sound(t) /\ t.receipts = u.receipts \cup {<<r, b, "text">>} /\ t.dropped = u.dropped
    BY <2>1, <2>2, TextSound
  <2> QED BY <2>1, <2>3 DEF t
<1> QED BY <1>1, <1>2

\* A step takes all that is steered, so no context is left behind its message.
LEMMA EnterSound ==
  ASSUME NEW s, Sound(s), NEW S, S \subseteq s.next \cup s.step, s.step \subseteq S
  PROVE  LET t == Entered(s, S) IN
         Sound(t) /\ t.receipts = s.receipts /\ t.dropped = s.dropped
<1> DEFINE t == Entered(s, S)
<1>1. /\ t.next = s.next \ S /\ t.step = {} /\ t.entered = s.entered \cup S
      /\ t.dropped = s.dropped /\ t.receipts = s.receipts /\ t \in Session
  BY DEF Entered, Sound, Session
<1> HIDE DEF t
<1>2. Everywhere(t) = Everywhere(s) BY <1>1 DEF Everywhere
<1>3. Receipted(t) /\ Prepared(t) /\ Single(t) /\ Accounted(t)
  BY <1>1, <1>2 DEF Sound, Receipted, Prepared, Single, Accounted
<1>4. Placed(t) /\ Led(t) BY <1>1 DEF Sound, Placed, Led
<1>5. Apart(t) BY <1>1 DEF Sound, Apart
<1> QED BY <1>1, <1>3, <1>4, <1>5 DEF Sound, t

LEMMA DropSound ==
  ASSUME NEW s, Sound(s), NEW S, S \subseteq s.next \cup s.step
  PROVE  LET t == Dropped(s, S) IN
         Sound(t) /\ t.receipts = s.receipts /\ t.dropped = s.dropped \cup S
<1> DEFINE t == Dropped(s, S)
<1>1. /\ t.next = s.next \ S /\ t.step = s.step \ S /\ t.entered = s.entered
      /\ t.dropped = s.dropped \cup S /\ t.receipts = s.receipts /\ t \in Session
  BY DEF Dropped, Sound, Session
<1> HIDE DEF t
<1>2. Everywhere(t) = Everywhere(s) BY <1>1 DEF Everywhere
<1>3. Receipted(t) /\ Prepared(t) /\ Single(t) /\ Accounted(t)
  BY <1>1, <1>2 DEF Sound, Receipted, Prepared, Single, Accounted
<1>4. Placed(t) /\ Led(t) BY <1>1 DEF Sound, Placed, Led
<1>5. Apart(t) BY <1>1 DEF Sound, Apart
<1> QED BY <1>1, <1>3, <1>4, <1>5 DEF Sound, t

LEMMA SteerSound ==
  ASSUME NEW s, Sound(s), NEW m \in s.next
  PROVE  LET t == Steered(s, m) IN
         Sound(t) /\ t.receipts = s.receipts /\ t.dropped = s.dropped
<1> DEFINE t == Steered(s, m)
<1>1. /\ t.next = s.next \ {m} /\ t.step = s.step \cup {m} /\ t.entered = s.entered
      /\ t.dropped = s.dropped /\ t.receipts = s.receipts /\ t \in Session
  BY DEF Steered, Sound, Session
<1> HIDE DEF t
<1>2. Everywhere(t) = Everywhere(s) BY <1>1 DEF Everywhere
<1>3. Receipted(t) /\ Prepared(t) /\ Single(t) /\ Accounted(t)
  BY <1>1, <1>2 DEF Sound, Receipted, Prepared, Single, Accounted
<1>4. Placed(t) /\ Led(t) BY <1>1 DEF Sound, Placed, Led
<1>5. Apart(t) BY <1>1 DEF Sound, Apart
<1> QED BY <1>1, <1>3, <1>4, <1>5 DEF Sound, t

\* The edited message takes the place of the old one: no other has its receipt.
LEMMA EditSound ==
  ASSUME NEW s, Sound(s), NEW m \in s.next, NEW id \in Nat
  PROVE  LET t == Edited(s, m, id) IN
         Sound(t) /\ t.receipts = s.receipts /\ t.dropped = s.dropped
<1> DEFINE k == [m EXCEPT !.id = id]
           t == Edited(s, m, id)
<1>1. /\ m \in Message /\ k \in Message /\ Receipt(k) = Receipt(m)
      /\ k.req = m.req /\ k.body = m.body /\ k.part = m.part /\ m.part = "text"
  BY DEF Sound, Session, Message, Receipt, Placed
<1> HIDE DEF k
<1>2. /\ t.next = (s.next \ {m}) \cup {k} /\ t.step = s.step /\ t.entered = s.entered
      /\ t.dropped = s.dropped /\ t.receipts = s.receipts /\ t \in Session
  BY <1>1 DEF Edited, Sound, Session, k
<1> HIDE DEF t
<1>3. m \in Everywhere(s) /\ m \notin s.step \cup s.entered \cup s.dropped
  BY DEF Sound, Apart, Everywhere
<1>4. Everywhere(t) = (Everywhere(s) \ {m}) \cup {k} BY <1>2, <1>3 DEF Everywhere
<1>5. \A n \in Everywhere(s) : n.req = m.req => n.body = m.body /\ (n.part = m.part => n = m)
  BY <1>3 DEF Sound, Single
<1>6. k \notin Everywhere(s) \ {m} BY <1>1, <1>5
<1>7. Receipted(t) BY <1>1, <1>2, <1>3, <1>4 DEF Sound, Receipted
<1>8. Prepared(t) BY <1>1, <1>2, <1>3, <1>4 DEF Sound, Prepared
<1>9. Accounted(t) BY <1>1, <1>2, <1>4 DEF Sound, Accounted
<1>10. Single(t) BY <1>1, <1>4, <1>5 DEF Sound, Single
<1>11. Placed(t) /\ Led(t) BY <1>1, <1>2 DEF Sound, Placed, Led
<1>12. Apart(t) BY <1>2, <1>3, <1>6 DEF Sound, Apart, Everywhere
<1> QED BY <1>2, <1>7, <1>8, <1>9, <1>10, <1>11, <1>12 DEF Sound, t

-----------------------------------------------------------------------------
\* The invariant

LEMMA Starts == DeliveryInit => DeliveryInv
<1> SUFFICES ASSUME DeliveryInit PROVE DeliveryInv OBVIOUS
<1>1. Sound(EmptySession)
  BY DEF Sound, EmptySession, Session, Receipted, Placed, Prepared, Led, Apart, Single,
         Accounted, Everywhere
<1>2. Done BY DEF DeliveryInit, Done, Flushing
<1> QED BY <1>1, <1>2 DEF DeliveryInit, DeliveryInv, Types, Promised

\* What a step that changes only the session in memory has to keep: everything a
\* call has done, and everything that was promised.
Grows == /\ mem.receipts \subseteq mem'.receipts /\ mem.dropped \subseteq mem'.dropped
         /\ Sound(mem')

LEMMA PromisesStep ==
  ASSUME DeliveryInv, Grows, UNCHANGED <<disk, acked, withdrawn>>
  PROVE  Promised' /\ Sound(disk)'
BY DEF DeliveryInv, Grows, Promised, Out

LEMMA DoneStep ==
  ASSUME DeliveryInv, Grows, UNCHANGED call
  PROVE  Done'
BY DEF DeliveryInv, Grows, Done, Flushing, Out

\* The same for a step that moves one call on.
LEMMA DoneMove ==
  ASSUME DeliveryInv, Grows, NEW c \in Calls, NEW v, call' = [call EXCEPT ![c] = v],
         v # None /\ v.phase = "flushing" =>
           /\ v.op = "deliver" => \A a \in v.what : <<a[1], a[2], "text">> \in mem'.receipts
           /\ v.op = "remove" => \A w \in v.what : Out(mem', w)
  PROVE  Done'
<1> SUFFICES ASSUME NEW d \in Calls
             PROVE  /\ Flushing(d, "deliver")' =>
                         \A a \in call'[d].what : <<a[1], a[2], "text">> \in mem'.receipts
                    /\ Flushing(d, "remove")' => \A w \in call'[d].what : Out(mem', w)
  BY DEF Done
<1>1. CASE d = c
  <2>1. call'[d] = v BY <1>1 DEF DeliveryInv, Types
  <2> QED BY <2>1 DEF Flushing
<1>2. CASE d # c
  <2>1. call'[d] = call[d] BY <1>2 DEF DeliveryInv, Types
  <2> QED BY <2>1 DEF DeliveryInv, Grows, Done, Flushing, Out
<1> QED BY <1>1, <1>2

LEMMA CallTypes ==
  ASSUME DeliveryInv, NEW c \in Calls, NEW v \in Call \cup {None}, call' = [call EXCEPT ![c] = v]
  PROVE  call' \in [Calls -> Call \cup {None}]
BY DEF DeliveryInv, Types

\* A step that leaves the disk and the promises alone.
LEMMA Together ==
  ASSUME DeliveryInv, Grows, UNCHANGED <<disk, acked, withdrawn>>, Done',
         running' \in BOOLEAN, fresh' \in Nat, call' \in [Calls -> Call \cup {None}]
  PROVE  DeliveryInv'
<1>1. Promised' /\ Sound(disk)' BY PromisesStep
<1>2. Sound(mem)' BY DEF Grows
<1>3. Types' BY DEF DeliveryInv, Types
<1> QED BY <1>1, <1>2, <1>3 DEF DeliveryInv

\* The steps of a call before its flush.
LEMMA HandlersKeep ==
  ASSUME DeliveryInv, NEW c \in Calls,
         \/ \E r \in Requests, b \in Bodies :
              Deliver(c, r, b) \/ Admit(c, r, b) \/ AdmitPartly(c, r, b)
         \/ \E op \in Operation \ {"deliver"} : \E id \in 0..fresh : id < fresh /\ Update(c, op, id)
         \/ CallFails(c)
         \/ \E m \in mem.next : RemoveQueued(c, m) \/ Edit(c, m) \/ Steer(c, m)
  PROVE  DeliveryInv'
<1>0. /\ fresh \in Nat /\ fresh + 1 \in Nat /\ running \in BOOLEAN /\ Sound(mem)
      /\ call \in [Calls -> Call \cup {None}]
  BY DEF DeliveryInv, Types
<1>1. ASSUME NEW r \in Requests, NEW b \in Bodies, Deliver(c, r, b) PROVE DeliveryInv'
  <2> DEFINE v == [op |-> "deliver", phase |-> "resolving", what |-> {<<r, b>>}, id |-> 0]
  <2>1. v \in Call /\ v.phase # "flushing" BY DEF Call, Operation
  <2>2. call' = [call EXCEPT ![c] = v] /\ Grows
        /\ UNCHANGED <<disk, running, fresh, acked, withdrawn>>
    BY <1>0, <1>1 DEF Deliver, Grows
  <2> HIDE DEF v
  <2>3. Done' BY <2>1, <2>2, DoneMove
  <2>4. call' \in [Calls -> Call \cup {None}] BY <2>1, <2>2, CallTypes
  <2> QED BY <1>0, <2>2, <2>3, <2>4, Together
<1>2. ASSUME NEW r \in Requests, NEW b \in Bodies, Admit(c, r, b) PROVE DeliveryInv'
  <2> DEFINE v == [call[c] EXCEPT !.phase = "flushing"]
  <2>1. /\ call[c] \in Call /\ call[c].op = "deliver" /\ call[c].what = {<<r, b>>}
    BY <1>0, <1>2 DEF Admit, Resolved
  <2>2. v \in Call /\ v.op = "deliver" /\ v.what = {<<r, b>>} BY <2>1 DEF Call
  <2>3. call' = [call EXCEPT ![c] = v] BY <1>2 DEF Admit, Flushes
  <2>4. mem' = Admitted(mem, r, b) /\ ~Conflicting(mem, r, b) /\ fresh' = fresh + 1
        /\ UNCHANGED <<disk, running, acked, withdrawn>>
    BY <1>2 DEF Admit
  <2>5. Grows /\ <<r, b, "text">> \in mem'.receipts
    BY <1>0, <2>4, AdmitSound DEF Grows
  <2>6. \A a \in v.what : <<a[1], a[2], "text">> \in mem'.receipts BY <2>2, <2>5
  <2>8. v.op # "remove" BY <2>2
  <2> HIDE DEF v
  <2>9. Done' BY <2>3, <2>5, <2>6, <2>8, DoneMove
  <2>7. call' \in [Calls -> Call \cup {None}] BY <2>2, <2>3, CallTypes
  <2> QED BY <1>0, <2>4, <2>5, <2>7, <2>9, Together
<1>3. ASSUME NEW r \in Requests, NEW b \in Bodies, AdmitPartly(c, r, b) PROVE DeliveryInv'
  <2>1. mem' = Injected(mem, r, b) /\ ~Conflicting(mem, r, b) /\ fresh' = fresh + 1
        /\ call' = [call EXCEPT ![c] = None] /\ UNCHANGED <<disk, running, acked, withdrawn>>
    BY <1>3 DEF AdmitPartly, Ends
  <2>2. Grows BY <1>0, <2>1, InjectSound DEF Grows
  <2>3. Done' BY <2>1, <2>2, DoneMove
  <2>4. call' \in [Calls -> Call \cup {None}] BY <1>0, <2>1
  <2> QED BY <1>0, <2>1, <2>2, <2>3, <2>4, Together
<1>4. ASSUME NEW op \in Operation \ {"deliver"}, NEW id \in Nat, Update(c, op, id) PROVE DeliveryInv'
  <2> DEFINE v == [op |-> op, phase |-> "resolving", what |-> {}, id |-> id]
  <2>1. v \in Call /\ v.phase # "flushing" BY DEF Call, Operation
  <2>2. call' = [call EXCEPT ![c] = v] /\ Grows
        /\ UNCHANGED <<disk, running, fresh, acked, withdrawn>>
    BY <1>0, <1>4 DEF Update, Grows
  <2> HIDE DEF v
  <2>3. Done' BY <2>1, <2>2, DoneMove
  <2>4. call' \in [Calls -> Call \cup {None}] BY <2>1, <2>2, CallTypes
  <2> QED BY <1>0, <2>2, <2>3, <2>4, Together
<1>5. CASE CallFails(c)
  <2>1. call' = [call EXCEPT ![c] = None] /\ Grows
        /\ UNCHANGED <<disk, running, fresh, acked, withdrawn>>
    BY <1>0, <1>5 DEF CallFails, Ends, Grows
  <2>2. Done' BY <2>1, DoneMove
  <2>3. call' \in [Calls -> Call \cup {None}] BY <1>0, <2>1
  <2> QED BY <1>0, <2>1, <2>2, <2>3, Together
<1>6. ASSUME NEW m \in mem.next, NEW op \in {"remove", "edit", "steer"}, Found(c, op, m),
             Updates(c, m), Grows, op = "remove" => m \in mem'.dropped,
             fresh' \in Nat, UNCHANGED <<disk, running, acked, withdrawn>>
      PROVE  DeliveryInv'
  <2> DEFINE v == [op |-> call[c].op, phase |-> "flushing",
                   what |-> {<<m.req, m.body>>}, id |-> m.id]
  <2>1. m \in Message /\ m.part = "text" BY <1>0 DEF Sound, Session, Placed
  <2>2. call[c] \in Call /\ call[c].op = op BY <1>0, <1>6 DEF Found, Resolved
  <2>3. v \in Call /\ v.op = op /\ v.what = {<<m.req, m.body>>} BY <2>1, <2>2 DEF Call, Message
  <2>4. call' = [call EXCEPT ![c] = v] BY <1>6 DEF Updates
  <2> HIDE DEF v
  <2>5. op = "remove" => \A w \in v.what : Out(mem', w)
    BY <1>6, <2>1, <2>3 DEF Out, Receipt
  <2>6. Done' BY <1>6, <2>3, <2>4, <2>5, DoneMove
  <2>7. call' \in [Calls -> Call \cup {None}] BY <2>3, <2>4, CallTypes
  <2> QED BY <1>0, <1>6, <2>6, <2>7, Together
<1>7. ASSUME NEW m \in mem.next, RemoveQueued(c, m) PROVE DeliveryInv'
  <2>1. Grows /\ m \in mem'.dropped BY <1>0, <1>7, DropSound DEF RemoveQueued, Grows
  <2> QED BY <1>0, <1>6, <1>7, <2>1 DEF RemoveQueued
<1>8. ASSUME NEW m \in mem.next, Edit(c, m) PROVE DeliveryInv'
  <2>1. Grows BY <1>0, <1>8, EditSound DEF Edit, Grows
  <2> QED BY <1>0, <1>6, <1>8, <2>1 DEF Edit
<1>9. ASSUME NEW m \in mem.next, Steer(c, m) PROVE DeliveryInv'
  <2>1. Grows BY <1>0, <1>9, SteerSound DEF Steer, Grows
  <2> QED BY <1>0, <1>6, <1>9, <2>1 DEF Steer
<1> QED BY <1>1, <1>2, <1>3, <1>4, <1>5, <1>7, <1>8, <1>9

\* The Harness and the client's interrupt move messages, and touch no call.
LEMMA TurnsKeep ==
  ASSUME DeliveryInv,
         \/ \E S \in SUBSET (mem.next \cup mem.step), lost \in BOOLEAN : TurnStart(S, lost)
         \/ \E lost \in BOOLEAN : LaterStep(lost)
         \/ Interrupt \/ TurnEnd \/ Stop
  PROVE  DeliveryInv'
<1>0. /\ fresh \in Nat /\ running \in BOOLEAN /\ Sound(mem)
      /\ call \in [Calls -> Call \cup {None}]
  BY DEF DeliveryInv, Types
<1>1. ASSUME Grows, running' \in BOOLEAN, UNCHANGED <<disk, call, fresh, acked, withdrawn>>
      PROVE  DeliveryInv'
  BY <1>0, <1>1, DoneStep, Together
<1>2. ASSUME NEW S, NEW lost \in BOOLEAN, S \subseteq mem.next \cup mem.step, mem.step \subseteq S,
             Takes(S, lost)
      PROVE  Grows
  BY <1>0, <1>2, EnterSound, DropSound DEF Takes, Grows
<1>3. ASSUME NEW S \in SUBSET (mem.next \cup mem.step), NEW lost \in BOOLEAN, TurnStart(S, lost)
      PROVE  DeliveryInv'
  BY <1>1, <1>2, <1>3 DEF TurnStart
<1>4. ASSUME NEW lost \in BOOLEAN, LaterStep(lost) PROVE DeliveryInv'
  BY <1>1, <1>2, <1>4 DEF LaterStep
<1>5. CASE Interrupt
  <2>1. Grows BY <1>0, <1>5, DropSound DEF Interrupt, Grows
  <2> QED BY <1>1, <1>5, <2>1 DEF Interrupt
<1>6. CASE TurnEnd BY <1>0, <1>1, <1>6 DEF TurnEnd, Grows
<1>7. CASE Stop
  <2>1. Grows BY <1>0, <1>7, DropSound DEF Stop, Grows
  <2> QED BY <1>1, <1>7, <2>1 DEF Stop
<1> QED BY <1>3, <1>4, <1>5, <1>6, <1>7

\* The disk takes over what is in memory, and with it what the answered call has done.
LEMMA AnswerKeeps ==
  ASSUME DeliveryInv, NEW c \in Calls, AnswerCall(c)
  PROVE  DeliveryInv'
<1>0. /\ call \in [Calls -> Call \cup {None}] /\ call[c] # None /\ call[c] \in Call
      /\ call' = [call EXCEPT ![c] = None]
  BY DEF DeliveryInv, Types, AnswerCall, Ends
<1>1. Grows BY DEF DeliveryInv, AnswerCall, Grows
<1>2. Done' BY <1>0, <1>1, DoneMove
<1>3. call[c].what \subseteq Requests \X Bodies BY <1>0 DEF Call
<1>4. Types' BY <1>0, <1>3 DEF DeliveryInv, Types, AnswerCall
<1>5. ASSUME NEW a \in acked' PROVE <<a[1], a[2], "text">> \in disk'.receipts
  <2>1. CASE a \in acked BY <2>1 DEF DeliveryInv, Promised, AnswerCall
  <2>2. CASE a \notin acked
    <3>1. Flushing(c, "deliver") /\ a \in call[c].what BY <1>5, <2>2 DEF AnswerCall, Flushing
    <3> QED BY <3>1 DEF DeliveryInv, Done, AnswerCall
  <2> QED BY <2>1, <2>2
<1>6. ASSUME NEW w \in withdrawn' PROVE Out(mem, w)
  <2>1. CASE w \in withdrawn BY <2>1 DEF DeliveryInv, Promised
  <2>2. CASE w \notin withdrawn
    <3>1. Flushing(c, "remove") /\ w \in call[c].what BY <1>6, <2>2 DEF AnswerCall, Flushing
    <3> QED BY <3>1 DEF DeliveryInv, Done
  <2> QED BY <2>1, <2>2
<1>7. Promised' BY <1>5, <1>6 DEF AnswerCall, Promised, Out
<1> QED BY <1>2, <1>4, <1>7 DEF DeliveryInv, AnswerCall

LEMMA RestKeeps ==
  ASSUME DeliveryInv, Persist \/ Crash \/ UNCHANGED deliveryVars
  PROVE  DeliveryInv'
<1>1. CASE Persist
  BY <1>1 DEF Persist, DeliveryInv, Types, Done, Flushing, Promised, Out
<1>2. CASE Crash
  <2>1. Done' BY <1>2 DEF Crash, Done, Flushing
  <2>2. Types' BY <1>2 DEF Crash, DeliveryInv, Types
  <2> QED BY <1>2, <2>1, <2>2 DEF Crash, DeliveryInv, Promised, Out
<1>3. CASE UNCHANGED deliveryVars
  BY <1>3 DEF deliveryVars, DeliveryInv, Types, Done, Flushing, Promised, Out
<1> QED BY <1>1, <1>2, <1>3

LEMMA DeliveryInductive == DeliverySpec => []DeliveryInv
<1>1. ASSUME DeliveryInv, [DeliveryNext]_deliveryVars PROVE DeliveryInv'
  <2>1. CASE DeliveryNext BY <1>1, <2>1, HandlersKeep, TurnsKeep, AnswerKeeps, RestKeeps DEF DeliveryNext
  <2>2. CASE UNCHANGED deliveryVars BY <1>1, <2>2, RestKeeps
  <2> QED BY <1>1, <2>1, <2>2
<1> QED BY <1>1, Starts, PTL DEF DeliverySpec

-----------------------------------------------------------------------------
\* The variables keep their types, whatever fails or dies.
THEOREM DeliveryTypes == DeliverySpec => []DeliveryTypeOK
<1>1. DeliveryInv => DeliveryTypeOK BY DEF DeliveryInv, Types, Sound, DeliveryTypeOK
<1> QED BY <1>1, DeliveryInductive, PTL

\* delivery.ts:45-55: a request has one message with one payload, in one place,
\* through retries, concurrent calls, partial admissions, edits and restarts.
THEOREM RetriesAdmitOnce == DeliverySpec => []AdmittedOnce
<1>1. DeliveryInv => AdmittedOnce BY DEF DeliveryInv, Sound, AdmittedOnce
<1> QED BY <1>1, DeliveryInductive, PTL

\* delivery.ts:56-58: what a client was told is delivered is on the disk, and every
\* receipt stands for a message that waits, has entered or was withdrawn.
THEOREM AnswersAreDurable == DeliverySpec => []AcknowledgedIsDurable
<1>1. DeliveryInv => AcknowledgedIsDurable BY DEF DeliveryInv, Promised, Sound, AcknowledgedIsDurable
<1> QED BY <1>1, DeliveryInductive, PTL

\* delivery.ts:61-66: an acknowledged removal is final, across restarts and retries.
THEOREM RemovalsAreFinal == DeliverySpec => []RemovedStaysOut
<1>1. ASSUME DeliveryInv, NEW s \in {mem, disk}, NEW m \in s.next \cup s.step \cup s.entered,
             m.part = "text", <<m.req, m.body>> \in withdrawn
      PROVE  FALSE
  <2>1. PICK d \in s.dropped : Receipt(d) = <<m.req, m.body, "text">>
    BY <1>1 DEF DeliveryInv, Promised, Out
  <2>2. d = m BY <1>1, <2>1 DEF DeliveryInv, Sound, Single, Everywhere, Receipt
  <2> QED BY <1>1, <2>2 DEF DeliveryInv, Sound, Apart
<1>2. DeliveryInv => RemovedStaysOut BY <1>1 DEF RemovedStaysOut
<1> QED BY <1>2, DeliveryInductive, PTL

\* delivery.ts:48-54: no message enters the log while its context still waits.
THEOREM ContextLeads == DeliverySpec => []ContextFirst
<1>1. ASSUME DeliveryInv, NEW s \in {mem, disk}, NEW m \in s.entered,
             m.part = "text", m.body \in Referring
      PROVE  /\ <<m.req, m.body, "context">> \in s.receipts
             /\ \A k \in s.next \cup s.step : ~(k.req = m.req /\ k.part = "context")
  BY <1>1 DEF DeliveryInv, Sound, Prepared, Led, Everywhere
<1>2. DeliveryInv => ContextFirst BY <1>1 DEF ContextFirst
<1> QED BY <1>2, DeliveryInductive, PTL

-----------------------------------------------------------------------------
(* The Host implements HostPromise                                         *)

\* The session in memory is as the disk has it, or has gone on from there.
Follows(s, t) == /\ s.entered \subseteq t.entered /\ s.dropped \subseteq t.dropped
                 /\ s.receipts \subseteq t.receipts

LEMMA FollowsOn ==
  ASSUME DeliveryInv, Follows(disk, mem), [DeliveryNext]_deliveryVars
  PROVE  /\ Follows(disk, disk')
         /\ Follows(disk', mem')
<1>0. mem \in Session /\ fresh \in Nat BY DEF DeliveryInv, Sound, Types
<1>1. ASSUME Follows(mem, mem'), disk' = disk PROVE Follows(disk, disk') /\ Follows(disk', mem')
  BY <1>1 DEF Follows
<1>2. ASSUME NEW S PROVE Follows(mem, Entered(mem, S)) /\ Follows(mem, Dropped(mem, S))
  BY <1>0 DEF Follows, Entered, Dropped, Session
<1>3. ASSUME NEW m, NEW id PROVE Follows(mem, Steered(mem, m)) /\ Follows(mem, Edited(mem, m, id))
  BY <1>0 DEF Follows, Steered, Edited, Session
<1>4. ASSUME NEW r \in Requests, NEW b \in Bodies
      PROVE  Follows(mem, Injected(mem, r, b)) /\ Follows(mem, Admitted(mem, r, b))
  <2>1. Text(r, b) \in Message /\ Context(r, b) \in Message BY <1>0 DEF Text, Context, Message
  <2>2. \A s \in Session, k \in Message :
          /\ Follows(s, InStep(s, k)) /\ InStep(s, k) \in Session
          /\ Follows(s, InTurn(s, k)) /\ InTurn(s, k) \in Session
    BY Additions DEF Follows
  <2>3. Injected(mem, r, b) \in Session /\ Follows(mem, Injected(mem, r, b))
    BY <1>0, <2>1, <2>2 DEF Injected, Follows
  <2>4. /\ Follows(Injected(mem, r, b), InStep(Injected(mem, r, b), Text(r, b)))
        /\ Follows(Injected(mem, r, b), InTurn(Injected(mem, r, b), Text(r, b)))
    BY <2>1, <2>2, <2>3
  <2>5. \A x, y, z : Follows(x, y) /\ Follows(y, z) => Follows(x, z) BY DEF Follows
  <2>6. Follows(mem, mem) BY DEF Follows
  <2> QED BY <2>3, <2>4, <2>5, <2>6 DEF Admitted
<1>5. ASSUME NEW c \in Calls, NEW r \in Requests, NEW b \in Bodies,
             Deliver(c, r, b) \/ Admit(c, r, b) \/ AdmitPartly(c, r, b)
      PROVE  Follows(mem, mem') /\ disk' = disk
  BY <1>4, <1>5 DEF Deliver, Admit, AdmitPartly, Follows
<1>6. ASSUME NEW c \in Calls, NEW m \in mem.next, RemoveQueued(c, m) \/ Edit(c, m) \/ Steer(c, m)
      PROVE  Follows(mem, mem') /\ disk' = disk
  BY <1>2, <1>3, <1>6 DEF RemoveQueued, Edit, Steer
<1>7. ASSUME NEW S, NEW lost \in BOOLEAN, TurnStart(S, lost) \/ LaterStep(lost)
      PROVE  Follows(mem, mem') /\ disk' = disk
  BY <1>2, <1>7 DEF TurnStart, LaterStep, Takes
<1>8. CASE Interrupt \/ Stop BY <1>1, <1>2, <1>8 DEF Interrupt, Stop
<1>9. CASE TurnEnd \/ UNCHANGED deliveryVars BY <1>1, <1>9 DEF TurnEnd, deliveryVars, Follows
<1>10. ASSUME NEW c \in Calls,
              \/ \E op \in Operation \ {"deliver"} : \E id \in 0..fresh : id < fresh /\ Update(c, op, id)
              \/ CallFails(c)
       PROVE  Follows(mem, mem') /\ disk' = disk
  BY <1>10 DEF Update, CallFails, Follows
<1>11. CASE Persist \/ \E c \in Calls : AnswerCall(c)
  BY <1>11 DEF Persist, AnswerCall, Follows
<1>12. CASE Crash BY <1>12 DEF Crash, Follows
<1> QED BY <1>1, <1>5, <1>6, <1>7, <1>8, <1>9, <1>10, <1>11, <1>12 DEF DeliveryNext

\* A request that has its receipt has its message somewhere.
LEMMA SomeStanding ==
  ASSUME NEW s, Sound(s), NEW r, NEW b, <<r, b, "text">> \in s.receipts
  PROVE  Stands(s, r) # "none"
<1>1. PICK m \in Everywhere(s) : Receipt(m) = <<r, b, "text">> BY DEF Sound, Accounted
<1>2. m.req = r /\ m.part = "text" BY <1>1 DEF Receipt
<1> QED BY <1>1, <1>2 DEF Everywhere, Stands, Texts

\* Where a request stands goes on with the session.
LEMMA StandingGoesOn ==
  ASSUME NEW s, NEW t, Sound(s), Sound(t), Follows(s, t), NEW r
  PROVE  Durably!GoesOn(Stands(s, r), Stands(t, r))
<1>1. CASE Stands(s, r) = "entered"
  <2>1. Texts(s.entered, r) # {} BY <1>1 DEF Stands
  <2>2. Texts(t.entered, r) # {} BY <2>1 DEF Follows, Texts
  <2> QED BY <1>1, <2>2 DEF Stands, Durably!GoesOn
<1>2. CASE Stands(s, r) = "withdrawn"
  <2>1. PICK m \in s.dropped : m.req = r /\ m.part = "text" BY <1>2 DEF Stands, Texts
  <2>2. m \in t.dropped BY <2>1 DEF Follows
  <2>3. Texts(t.dropped, r) # {} BY <2>1, <2>2 DEF Texts
  <2>4. ASSUME NEW k \in t.entered, k.req = r, k.part = "text" PROVE FALSE
    <3>1. k = m BY <2>1, <2>2, <2>4 DEF Sound, Single, Everywhere
    <3> QED BY <2>2, <3>1 DEF Sound, Apart
  <2>5. Texts(t.entered, r) = {} BY <2>4 DEF Texts
  <2> QED BY <1>2, <2>3, <2>5 DEF Stands, Durably!GoesOn
<1>3. CASE Stands(s, r) = "waiting"
  <2>1. PICK m \in s.next \cup s.step : m.req = r /\ m.part = "text" BY <1>3 DEF Stands, Texts
  <2>2. Receipt(m) \in t.receipts BY <2>1 DEF Sound, Receipted, Everywhere, Follows
  <2>3. Stands(t, r) # "none" BY <2>1, <2>2, SomeStanding DEF Receipt
  <2>4. Stands(t, r) \in {"entered", "withdrawn", "waiting", "none"} BY DEF Stands
  <2> QED BY <1>3, <2>3, <2>4 DEF Durably!GoesOn
<1>4. CASE Stands(s, r) = "none" BY <1>4 DEF Durably!GoesOn
<1> QED BY <1>1, <1>2, <1>3, <1>4 DEF Stands

LEMMA PromiseStep ==
  ASSUME DeliveryInv, DeliveryInv', Follows(disk, mem), [DeliveryNext]_deliveryVars
  PROVE  [Durably!Write]_<<OnDisk, Told>>
<1>1. Follows(disk, disk') BY FollowsOn
<1>2. Sound(disk) /\ Sound(disk)' BY DEF DeliveryInv
<1>3. OnDisk' \in [Requests -> Durably!Standings]
  <2>1. \A r \in Requests : Stands(disk, r)' \in Durably!Standings BY DEF Stands, Durably!Standings
  <2> QED BY <2>1 DEF OnDisk
<1>4. ASSUME NEW r \in Requests PROVE Durably!GoesOn(OnDisk[r], OnDisk'[r])
  <2>1. OnDisk[r] = Stands(disk, r) /\ OnDisk'[r] = Stands(disk', r) BY DEF OnDisk, Stands
  <2>2. Sound(disk') BY <1>2 DEF Sound, Receipted, Placed, Prepared, Led, Apart, Single, Accounted
  <2> QED BY <1>1, <1>2, <2>1, <2>2, StandingGoesOn
<1>5. acked \subseteq acked'
  BY DEF DeliveryNext, Deliver, Admit, AdmitPartly, Update, CallFails, AnswerCall, RemoveQueued,
         Edit, Steer, TurnStart, LaterStep, Interrupt, TurnEnd, Stop, Persist, Crash, deliveryVars
<1>6. Told \subseteq Told' BY <1>5 DEF Told
<1>7. ASSUME NEW r \in Told' PROVE OnDisk'[r] # "none"
  <2>1. PICK a \in acked' : r = a[1] BY <1>7 DEF Told
  <2>2. a \in Requests \X Bodies /\ <<a[1], a[2], "text">> \in disk'.receipts
    BY <2>1 DEF DeliveryInv, Types, Promised
  <2>3. Sound(disk') BY <1>2 DEF Sound, Receipted, Placed, Prepared, Led, Apart, Single, Accounted
  <2>4. Stands(disk', r) # "none" BY <2>1, <2>2, <2>3, SomeStanding
  <2>5. r \in Requests BY <2>1, <2>2
  <2> QED BY <2>4, <2>5 DEF OnDisk, Stands
<1> QED BY <1>3, <1>4, <1>6, <1>7 DEF Durably!Write

\* delivery.ts:35-60: HostDelivery implements HostPromise. What the disk has of a
\* request only goes on from waiting to entered or withdrawn, and a request that was
\* acknowledged is never again without its message, whatever dies or is repeated.
THEOREM RequestsAreKept == DeliverySpec => KeepsRequests
<1>1. DeliveryInit => Durably!Init /\ Follows(disk, mem)
  <2> SUFFICES ASSUME DeliveryInit PROVE Durably!Init /\ Follows(disk, mem) OBVIOUS
  <2>1. \A r \in Requests : Stands(disk, r) = "none"
    BY DEF DeliveryInit, EmptySession, Stands, Texts
  <2>2. Told = {} BY DEF DeliveryInit, Told
  <2>3. Durably!Init BY <2>1, <2>2 DEF OnDisk, Durably!Init
  <2> QED BY <2>3 DEF DeliveryInit, Follows
<1>2. DeliveryInv /\ Follows(disk, mem) /\ [DeliveryNext]_deliveryVars => Follows(disk, mem)'
  BY FollowsOn DEF Follows
<1>3. DeliveryInv /\ DeliveryInv' /\ Follows(disk, mem) /\ [DeliveryNext]_deliveryVars
        => [Durably!Write]_<<OnDisk, Told>>
  BY PromiseStep
<1> QED BY <1>1, <1>2, <1>3, DeliveryInductive, PTL DEF DeliverySpec, KeepsRequests, Durably!Spec

-----------------------------------------------------------------------------
(* Approvals and questions                                                 *)

\* The parts of the type invariant, and what an answer under way looks like.
LinkType == [up : BOOLEAN, known : BOOLEAN, client : Nat, frames : Seq(Frames)]

\* Every answer that is under way or kept was decided by a user of that terminal.
Genuine ==
  \A t \in Clients :
    /\ \A x \in calls[t] : x.value \in decided[t][x.event]
    /\ \A e \in Prompts : unsent[t][e] # Undecided => unsent[t][e] \in decided[t][e]

\* A prompt is withdrawn, and an answer is known to be taken, only when the request is closed.
Shut(e) == request[e] \notin {"none", "open"}
OnlyShut ==
  \A t \in Clients :
    /\ \A e \in Coming(t, "cancel") : Shut(e)
    /\ \A x \in calls[t] : x.at = "ok" => Shut(x.event)

\* Nothing is under way for a request that was not asked.
Asked ==
  \A t \in Clients :
    /\ \A e \in pending[t] \cup Coming(t, "waterfall") : request[e] # "none"
    /\ \A x \in calls[t] : request[x.event] # "none"
    /\ \A e \in Prompts : unsent[t][e] # Undecided => request[e] # "none"

OpenOnes == {e \in Prompts : request[e] = "open"}
AnswersInv ==
  /\ AnswerTypeOK /\ IsFiniteSet(OpenOnes)
  /\ Asked /\ OnlyShut /\ Genuine
  /\ NoRequestForgotten /\ UserDecides

\* A terminal has a request if it asks the user, will be told, or has the answer.
Has(t, e) ==
  \/ e \in pending[t] \/ e \in Coming(t, "waterfall")
  \/ \E x \in calls[t] : x.event = e
  \/ unsent[t][e] # Undecided

LEMMA Remembered ==
  ASSUME NoRequestForgotten,
         \A e \in Prompts, t \in Clients : request'[e] = "open" /\ link'[t].up =>
           \/ Has(t, e)'
           \/ request[e] = "open" /\ link[t].up /\ (Has(t, e) => Has(t, e)')
  PROVE  NoRequestForgotten'
BY DEF NoRequestForgotten, Has

LEMMA AnswersInit == ASSUME AnswerInit PROVE AnswersInv
<1>1. AnswerTypeOK
  BY AnswerAssumption DEF AnswerInit, AnswerTypeOK, States
<1>2. IsFiniteSet(OpenOnes)
  <2>1. OpenOnes = {}
    BY DEF AnswerInit, OpenOnes
  <2> QED
    BY <2>1, FS_EmptySet
<1>3. Genuine /\ Asked /\ OnlyShut /\ NoRequestForgotten
  BY DEF AnswerInit, Genuine, Asked, OnlyShut, NoRequestForgotten, Coming
<1>4. UserDecides
  BY AnswerAssumption DEF AnswerInit, UserDecides
<1> QED
  BY <1>1, <1>2, <1>3, <1>4 DEF AnswersInv

\* The events of the frames of a type.
Events(s, type) == {s[i].event : i \in {j \in DOMAIN s : s[j].type = type}}

LEMMA ComingIs ==
  \A t : \A type : /\ Coming(t, type) = Events(link[t].frames, type)
                   /\ Coming(t, type)' = Events(link'[t].frames, type)
BY DEF Coming, Events

\* What is coming when a frame is added, or the first is taken.
LEMMA ComingAfter ==
  ASSUME NEW s \in Seq(Frames), NEW frame \in Frames
  PROVE  /\ \A type : Events(Append(s, frame), type) =
              Events(s, type) \cup (IF frame.type = type THEN {frame.event} ELSE {})
         /\ s # <<>> => \A type : Events(s, type) =
              Events(Tail(s), type) \cup (IF Head(s).type = type THEN {Head(s).event} ELSE {})
<1>1. ASSUME NEW type
      PROVE  Events(Append(s, frame), type) = Events(s, type) \cup (IF frame.type = type THEN {frame.event} ELSE {})
  <2>1. /\ DOMAIN Append(s, frame) = DOMAIN s \cup {Len(s) + 1} /\ DOMAIN s = 1..Len(s) /\ Len(s) \in Nat
        /\ \A i \in DOMAIN s : Append(s, frame)[i] = s[i]
        /\ Append(s, frame)[Len(s) + 1] = frame
    OBVIOUS
  <2> QED
    BY <2>1 DEF Events
<1>2. ASSUME s # <<>>, NEW type
      PROVE  Events(s, type) = Events(Tail(s), type) \cup (IF Head(s).type = type THEN {Head(s).event} ELSE {})
  <2>1. /\ DOMAIN s = 1..Len(s) /\ Len(s) \in Nat \ {0} /\ DOMAIN Tail(s) = 1..(Len(s) - 1)
        /\ \A i \in DOMAIN Tail(s) : Tail(s)[i] = s[i + 1]
        /\ Head(s) = s[1]
    BY <1>2
  <2>2. ASSUME NEW x \in Events(s, type) PROVE x \in Events(Tail(s), type) \/ (Head(s).type = type /\ x = Head(s).event)
    <3>1. PICK i \in DOMAIN s : s[i].type = type /\ x = s[i].event
      BY <2>2 DEF Events
    <3>2. CASE i = 1
      BY <3>1, <3>2, <2>1
    <3>3. CASE i # 1
      <4>1. i - 1 \in DOMAIN Tail(s) /\ Tail(s)[i - 1] = s[i]
        BY <3>3, <2>1
      <4> QED
        BY <3>1, <4>1 DEF Events
    <3> QED
      BY <3>2, <3>3
  <2>3. ASSUME NEW x \in Events(Tail(s), type) PROVE x \in Events(s, type)
    <3>1. PICK i \in DOMAIN Tail(s) : Tail(s)[i].type = type /\ x = Tail(s)[i].event
      BY <2>3 DEF Events
    <3>2. i + 1 \in DOMAIN s /\ s[i + 1] = Tail(s)[i]
      BY <3>1, <2>1
    <3> QED
      BY <3>1, <3>2 DEF Events
  <2>4. Head(s).type = type => Head(s).event \in Events(s, type)
    BY <2>1 DEF Events
  <2> QED
    BY <2>2, <2>3, <2>4
<1> QED
  BY <1>1, <1>2

\* A finite set is a sequence of its elements.
LEMMA Enumerates ==
  ASSUME NEW S, IsFiniteSet(S)
  PROVE  SetToSeq(S) \in Seq(S) /\ \A e \in S : \E i \in DOMAIN SetToSeq(S) : SetToSeq(S)[i] = e
<1> DEFINE n == Cardinality(S)
           f == SetToSeq(S)
<1>1. n \in Nat /\ ExistsBijection(1..n, S)
  BY FS_CardinalityType
<1>2. PICK g \in [1..n -> S] : IsInjective(g)
  BY <1>1 DEF ExistsBijection, Bijection, Injection
<1>3. f \in [1..n -> S] /\ IsInjective(f)
  <2>1. Cardinality(S) = n
    BY DEF Cardinality, Cardinality
  <2>2. IsInjective(g)
    BY <1>2 DEF IsInjective, IsInjective
  <2>3. f \in [1..n -> S] /\ IsInjective(f)
    <3> HIDE DEF n
    <3> QED
      BY <2>1, <2>2 DEF SetToSeq
  <2> QED
    BY <2>3 DEF IsInjective, IsInjective
<1>4. IsFiniteSet(1..n) /\ Cardinality(1..n) = n
  BY <1>1, FS_Interval
<1>5. f \in Injection(1..n, S)
  BY <1>3 DEF Injection
<1>6. f \in Surjection(1..n, S)
  BY <1>4, <1>5, FS_Injection
<1> HIDE DEF n, f
<1>7. f \in Seq(S)
  BY <1>1, <1>3
<1>8. \A e \in S : \E i \in DOMAIN f : f[i] = e
  BY <1>3, <1>6 DEF Surjection
<1> QED
  BY <1>7, <1>8 DEF f

\* A frame to all keeps the types of the links; every link that is up gets it, but one.
LEMMA SentTo ==
  ASSUME AnswerTypeOK, NEW frame \in Frames, NEW but, link' = Sent(frame, but)
  PROVE  /\ link' \in [Clients -> LinkType]
         /\ \A t \in Clients :
              /\ link'[t].up = link[t].up
              /\ \A type : Coming(t, type) \subseteq Coming(t, type)'
              /\ \A type : Coming(t, type)' \subseteq
                   Coming(t, type) \cup (IF frame.type = type THEN {frame.event} ELSE {})
              /\ link[t].up /\ <<t, link[t].client>> # but => frame.event \in Coming(t, frame.type)'
<1>1. \A t \in Clients : link[t] \in LinkType
  BY DEF AnswerTypeOK, LinkType
<1> SUFFICES ASSUME NEW t \in Clients
             PROVE  /\ Sent(frame, but)[t] \in LinkType
                    /\ link'[t].up = link[t].up
                    /\ \A type : Coming(t, type) \subseteq Coming(t, type)'
                    /\ \A type : Coming(t, type)' \subseteq
                         Coming(t, type) \cup (IF frame.type = type THEN {frame.event} ELSE {})
                    /\ link[t].up /\ <<t, link[t].client>> # but => frame.event \in Coming(t, frame.type)'
  BY DEF Sent
<1>2. CASE link[t].up /\ <<t, link[t].client>> # but
  <2>1. link'[t] = [link[t] EXCEPT !.frames = Append(@, frame)]
    BY <1>2 DEF Sent
  <2>2. link[t].frames \in Seq(Frames) /\ Append(link[t].frames, frame) \in Seq(Frames)
    BY <1>1 DEF LinkType
  <2>3. link'[t] \in LinkType /\ link'[t].up = link[t].up /\ link'[t].frames = Append(link[t].frames, frame)
    BY <1>1, <2>1, <2>2 DEF LinkType
  <2>4. \A type : Coming(t, type)' = Coming(t, type) \cup (IF frame.type = type THEN {frame.event} ELSE {})
    <3>1. \A type : Coming(t, type) = Events(link[t].frames, type) /\ Coming(t, type)' = Events(link'[t].frames, type)
      BY ComingIs
    <3>2. \A type : Events(Append(link[t].frames, frame), type) =
            Events(link[t].frames, type) \cup (IF frame.type = type THEN {frame.event} ELSE {})
      BY <2>2, ComingAfter
    <3> QED
      BY <2>3, <3>1, <3>2
  <2> QED
    BY <2>3, <2>4
<1>3. CASE ~(link[t].up /\ <<t, link[t].client>> # but)
  <2>1. link'[t] = link[t]
    BY <1>3 DEF Sent
  <2> QED
    BY <1>1, <1>3, <2>1 DEF Coming
<1> QED
  BY <1>2, <1>3

\* The set of open requests only changes by one.
LEMMA OpenStaysFinite ==
  ASSUME AnswerTypeOK, IsFiniteSet(OpenOnes), NEW e \in Prompts, NEW v, request' = [request EXCEPT ![e] = v]
  PROVE  IsFiniteSet(OpenOnes')
<1>1. IsFiniteSet(OpenOnes \cup {e})
  BY FS_AddElement
<1>2. OpenOnes' \in SUBSET (OpenOnes \cup {e})
  BY DEF OpenOnes, AnswerTypeOK
<1> QED
  BY <1>1, <1>2, FS_Subset

-----------------------------------------------------------------------------
\* The Host

\* What calls and frames refer to.
LEMMA EventTypes ==
  ASSUME AnswerTypeOK, NEW t \in Clients
  PROVE  /\ \A x \in calls[t] : x.event \in Prompts /\ x.value \in Values
         /\ \A type : Coming(t, type) \subseteq Prompts
<1>1. \A x \in calls[t] : x \in AnswerCalls
  BY DEF AnswerTypeOK
<1>2. link[t].frames \in Seq(Frames)
  BY DEF AnswerTypeOK
<1>3. \A i \in DOMAIN link[t].frames : link[t].frames[i] \in Frames
  BY <1>2
<1> QED
  BY <1>1, <1>3 DEF AnswerCalls, Frames, Coming

LEMMA HostSteps == ASSUME AnswersInv, NEW e \in Prompts, Put(e) \/ EndTurn(e) PROVE AnswersInv'
<1>t. AnswerTypeOK
  BY DEF AnswersInv
<1>1. CASE Put(e)
  <2>1. Waterfall(e) \in Frames /\ Waterfall(e).type = "waterfall" /\ Waterfall(e).event = e
    BY DEF Waterfall, Frames
  <2>2. /\ link' \in [Clients -> LinkType]
        /\ \A t \in Clients :
             /\ link'[t].up = link[t].up
             /\ \A type : Coming(t, type) \subseteq Coming(t, type)'
             /\ Coming(t, "cancel")' \subseteq Coming(t, "cancel")
             /\ Coming(t, "waterfall")' \subseteq Coming(t, "waterfall") \cup {e}
             /\ link[t].up => e \in Coming(t, "waterfall")'
    <3>1. link' = Sent(Waterfall(e), <<>>)
      BY <1>1 DEF Put
    <3>2. \A t \in Clients : <<t, link[t].client>> # <<>>
      OBVIOUS
    <3> QED
      BY <1>t, <2>1, <3>1, <3>2, SentTo
  <2>3. AnswerTypeOK'
    BY <1>1, <1>t, <2>2 DEF Put, AnswerTypeOK, States, LinkType
  <2>4. IsFiniteSet(OpenOnes')
    BY <1>1, <1>t, OpenStaysFinite DEF Put, AnswersInv
  <2>5. Genuine'
    BY <1>1, <1>t DEF Put, AnswersInv, Genuine
  <2>c. \A t \in Clients : /\ \A x \in calls[t] : x.event \in Prompts
                           /\ \A type : Coming(t, type) \subseteq Prompts
    BY <1>t, EventTypes
  <2>a. Asked'
    BY <1>1, <1>t, <2>2, <2>c DEF Put, AnswersInv, Asked, AnswerTypeOK
  <2>8. OnlyShut'
    BY <1>1, <1>t, <2>2, <2>c DEF Put, AnswersInv, OnlyShut, Shut, AnswerTypeOK
  <2>6. NoRequestForgotten'
    BY <1>1, <1>t, <2>2 DEF Put, AnswersInv, NoRequestForgotten, AnswerTypeOK
  <2>7. UserDecides'
    BY <1>1, <1>t, AnswerAssumption DEF Put, AnswersInv, UserDecides, AnswerTypeOK
  <2> QED
    BY <2>3, <2>4, <2>5, <2>a, <2>8, <2>6, <2>7 DEF AnswersInv
<1>2. CASE EndTurn(e)
  <2>1. Cancel(e) \in Frames /\ Cancel(e).type = "cancel" /\ Cancel(e).event = e
    BY DEF Cancel, Frames
  <2>2. /\ link' \in [Clients -> LinkType]
        /\ \A t \in Clients :
             /\ link'[t].up = link[t].up
             /\ \A type : Coming(t, type) \subseteq Coming(t, type)'
             /\ Coming(t, "cancel")' \subseteq Coming(t, "cancel") \cup {e}
             /\ Coming(t, "waterfall")' \subseteq Coming(t, "waterfall")
    BY <1>2, <1>t, <2>1, SentTo DEF EndTurn
  <2>3. AnswerTypeOK'
    BY <1>2, <1>t, <2>2 DEF EndTurn, AnswerTypeOK, States, LinkType
  <2>4. IsFiniteSet(OpenOnes')
    BY <1>2, <1>t, OpenStaysFinite DEF EndTurn, AnswersInv
  <2>5. Genuine'
    BY <1>2, <1>t DEF EndTurn, AnswersInv, Genuine
  <2>c. \A t \in Clients : /\ \A x \in calls[t] : x.event \in Prompts
                           /\ \A type : Coming(t, type) \subseteq Prompts
    BY <1>t, EventTypes
  <2>a. Asked'
    BY <1>2, <1>t, <2>2, <2>c DEF EndTurn, AnswersInv, Asked, AnswerTypeOK
  <2>8. OnlyShut'
    BY <1>2, <1>t, <2>2, <2>c DEF EndTurn, AnswersInv, OnlyShut, Shut, AnswerTypeOK
  <2>6. NoRequestForgotten'
    BY <1>2, <1>t, <2>2 DEF EndTurn, AnswersInv, NoRequestForgotten, AnswerTypeOK
  <2>7. UserDecides'
    BY <1>2, <1>t, AnswerAssumption DEF EndTurn, AnswersInv, UserDecides, AnswerTypeOK
  <2> QED
    BY <2>3, <2>4, <2>5, <2>a, <2>8, <2>6, <2>7 DEF AnswersInv
<1> QED
  BY <1>1, <1>2

\* The result of a call takes the place of the call.
LEMMA Marked ==
  ASSUME AnswerTypeOK, NEW t \in Clients, NEW x \in calls[t], NEW result \in {"ok", "refused"}, At(t, x, result)
  PROVE  /\ calls' \in [Clients -> SUBSET AnswerCalls]
         /\ \A s \in Clients :
              /\ \A y \in calls'[s] : \/ y \in calls[s]
                                      \/ s = t /\ y.event = x.event /\ y.value = x.value /\ y.at = result
              /\ \A y \in calls[s] : \E z \in calls'[s] : z.event = y.event
<1> DEFINE y == [x EXCEPT !.at = result]
<1>1. x \in AnswerCalls
  BY DEF AnswerTypeOK
<1>2. y \in AnswerCalls /\ y.event = x.event /\ y.value = x.value /\ y.at = result
  BY <1>1 DEF AnswerCalls
<1>3. calls' = [calls EXCEPT ![t] = (calls[t] \ {x}) \cup {y}]
  BY DEF At
<1> HIDE DEF y
<1> QED
  BY <1>2, <1>3 DEF AnswerTypeOK

LEMMA TakeStep == ASSUME AnswersInv, NEW t \in Clients, NEW x \in calls[t], Take(t, x) PROVE AnswersInv'
<1>t. AnswerTypeOK
  BY DEF AnswersInv
<1>x. x \in AnswerCalls
  BY <1>t DEF AnswerTypeOK
<1>1. CASE /\ request[x.event] = "open"
           /\ request' = [request EXCEPT ![x.event] = x.value]
           /\ link' = Sent(Cancel(x.event), <<t, x.client>>)
           /\ At(t, x, "ok")
  <2> DEFINE e == x.event
  <2>1. /\ e \in Prompts /\ x.value \in Values /\ x.value \notin {"none", "open", "ended"}
        /\ Cancel(e) \in Frames /\ Cancel(e).type = "cancel" /\ Cancel(e).event = e
    BY <1>x, AnswerAssumption DEF AnswerCalls, Cancel, Frames
  <2>2. /\ link' \in [Clients -> LinkType]
        /\ \A s \in Clients :
             /\ link'[s].up = link[s].up
             /\ \A type : Coming(s, type) \subseteq Coming(s, type)'
             /\ Coming(s, "cancel")' \subseteq Coming(s, "cancel") \cup {e}
             /\ Coming(s, "waterfall")' \subseteq Coming(s, "waterfall")
    BY <1>1, <1>t, <2>1, SentTo
  <2>3. /\ calls' \in [Clients -> SUBSET AnswerCalls]
        /\ \A s \in Clients :
             /\ \A y \in calls'[s] : \/ y \in calls[s]
                                     \/ s = t /\ y.event = e /\ y.value = x.value /\ y.at = "ok"
             /\ \A y \in calls[s] : \E z \in calls'[s] : z.event = y.event
    BY <1>1, <1>t, Marked
  <2>4. request' = [request EXCEPT ![e] = x.value] /\ UNCHANGED <<pending, unsent, decided, faults>>
    BY <1>1 DEF Take
  <2> HIDE DEF e
  <2>5. AnswerTypeOK'
    BY <1>t, <2>1, <2>2, <2>3, <2>4 DEF AnswerTypeOK, States, LinkType
  <2>6. IsFiniteSet(OpenOnes')
    BY <1>t, <2>1, <2>4, OpenStaysFinite DEF AnswersInv
  <2>d. x.value \in decided[t][e]
    BY DEF AnswersInv, Genuine, e
  <2>7. Genuine'
    BY <2>d, <2>3, <2>4 DEF AnswersInv, Genuine
  <2>8. OnlyShut'
    <3>1. Shut(e)' /\ \A d \in Prompts : Shut(d) => Shut(d)'
      BY <1>t, <2>1, <2>4 DEF Shut, AnswerTypeOK
    <3>2. \A s \in Clients : /\ \A y \in calls[s] : y.event \in Prompts
                             /\ \A type : Coming(s, type) \subseteq Prompts
      BY <1>t, EventTypes
    <3>3. \A s \in Clients : \A d \in Coming(s, "cancel")' : Shut(d)'
      <4> SUFFICES ASSUME NEW s \in Clients, NEW d \in Coming(s, "cancel")' PROVE Shut(d)'
        OBVIOUS
      <4>1. d = e \/ d \in Coming(s, "cancel")
        BY <2>2
      <4>2. d \in Coming(s, "cancel") => d \in Prompts /\ Shut(d)
        BY <3>2 DEF AnswersInv, OnlyShut
      <4> QED
        BY <3>1, <4>1, <4>2
    <3>4. \A s \in Clients : \A y \in calls'[s] : y.at = "ok" => Shut(y.event)'
      BY <2>3, <3>1, <3>2 DEF AnswersInv, OnlyShut
    <3> QED
      BY <3>3, <3>4 DEF OnlyShut
  <2>a. Asked'
    <3>1. \A s \in Clients : /\ \A y \in calls[s] : y.event \in Prompts
                             /\ \A type : Coming(s, type) \subseteq Prompts
                             /\ pending[s] \subseteq Prompts
      BY <1>t, EventTypes DEF AnswerTypeOK
    <3>2. \A d \in Prompts : request[d] # "none" => request'[d] # "none"
      BY <1>t, <2>1, <2>4 DEF AnswerTypeOK
    <3>3. request'[e] # "none"
      BY <1>t, <2>1, <2>4 DEF AnswerTypeOK
    <3> QED
      BY <2>2, <2>3, <2>4, <3>1, <3>2, <3>3 DEF AnswersInv, Asked
  <2>9. NoRequestForgotten'
    <3> SUFFICES ASSUME NEW d \in Prompts, NEW s \in Clients, request'[d] = "open", link'[s].up, Has(s, d)
                 PROVE  request[d] = "open" /\ link[s].up /\ Has(s, d)'
      BY <1>t, <2>1, <2>2, <2>4, Remembered DEF AnswersInv, AnswerTypeOK
    <3>1. d # e /\ request[d] = "open"
      BY <1>t, <2>1, <2>4 DEF AnswerTypeOK
    <3>2. \A y \in calls[s] : y.event = d => \E z \in calls'[s] : z.event = d
      BY <2>3
    <3> QED
      BY <2>2, <2>4, <3>1, <3>2 DEF Has
  <2>10. UserDecides'
    BY <1>t, <2>1, <2>4, <2>d DEF AnswersInv, UserDecides, AnswerTypeOK
  <2> QED
    BY <2>5, <2>6, <2>7, <2>8, <2>a, <2>9, <2>10 DEF AnswersInv
<1>2. CASE /\ \E result \in {"ok", "refused"} :
                /\ result = "ok" => request[x.event] # "open"
                /\ At(t, x, result)
           /\ UNCHANGED <<request, link>>
  <2>1. PICK result \in {"ok", "refused"} :
          /\ result = "ok" => request[x.event] # "open"
          /\ At(t, x, result)
    BY <1>2
  <2>2. /\ calls' \in [Clients -> SUBSET AnswerCalls]
        /\ \A s \in Clients :
             /\ \A y \in calls'[s] : \/ y \in calls[s]
                                     \/ s = t /\ y.event = x.event /\ y.value = x.value /\ y.at = result
             /\ \A y \in calls[s] : \E z \in calls'[s] : z.event = y.event
    BY <1>t, <2>1, Marked
  <2>3. UNCHANGED <<request, link, pending, unsent, decided, faults>>
    BY <1>2 DEF Take
  <2>4. AnswerTypeOK' /\ UserDecides'
    BY <1>t, <2>2, <2>3 DEF AnswersInv, AnswerTypeOK, UserDecides
  <2>5. OpenOnes' = OpenOnes
    BY <2>3 DEF OpenOnes
  <2>6. Genuine'
    BY <2>2, <2>3 DEF AnswersInv, Genuine
  <2>7. OnlyShut'
    <3>1. request[x.event] # "none"
      BY DEF AnswersInv, Asked
    <3> QED
      BY <2>1, <2>2, <2>3, <3>1 DEF AnswersInv, OnlyShut, Shut, Coming
  <2>a. Asked'
    BY <2>2, <2>3 DEF AnswersInv, Asked, Coming
  <2>8. NoRequestForgotten'
    BY <2>2, <2>3 DEF AnswersInv, NoRequestForgotten, Coming
  <2> QED
    BY <2>4, <2>5, <2>6, <2>7, <2>a, <2>8 DEF AnswersInv
<1> QED
  BY <1>1, <1>2 DEF Take

-----------------------------------------------------------------------------
\* The connection

LEMMA DropStep == ASSUME AnswersInv, NEW t \in Clients, Drop(t) \/ Lost(t) PROVE AnswersInv'
<1>t. AnswerTypeOK
  BY DEF AnswersInv
<1>1. /\ link' \in [Clients -> LinkType]
      /\ ~link'[t].up /\ \A type : Coming(t, type)' \subseteq Coming(t, type)
      /\ \A s \in Clients \ {t} : link'[s] = link[s]
      /\ pending'[t] \subseteq pending[t]
      /\ \A s \in Clients \ {t} : pending'[s] = pending[s]
      /\ pending' \in [Clients -> SUBSET Prompts]
      /\ faults' \in 0..MaxFaults
      /\ UNCHANGED <<request, unsent, calls, decided>>
  <2>1. CASE Drop(t)
    <3> DEFINE r == [link[t] EXCEPT !.up = FALSE, !.frames = <<>>]
    <3>1. link[t] \in LinkType /\ link \in [Clients -> LinkType]
      BY <1>t DEF AnswerTypeOK, LinkType
    <3>e. <<>> \in Seq(Frames)
      OBVIOUS
    <3>r. r \in LinkType /\ r.frames = <<>> /\ ~r.up
      BY <3>1, <3>e DEF LinkType
    <3>d. link' = [link EXCEPT ![t] = r]
      BY <2>1, <3>1 DEF Drop, LinkType
    <3> HIDE DEF r
    <3>2. /\ link'[t].frames = <<>> /\ ~link'[t].up /\ link' \in [Clients -> LinkType]
          /\ \A s \in Clients \ {t} : link'[s] = link[s]
      BY <3>1, <3>r, <3>d
    <3>3. \A type : Coming(t, type)' = {}
      BY <3>2 DEF Coming
    <3> QED
      BY <2>1, <1>t, <3>2, <3>3, AnswerAssumption DEF Drop, AnswerTypeOK
  <2>2. CASE Lost(t)
    BY <2>2, <1>t DEF Lost, AnswerTypeOK, LinkType, Coming
  <2> QED
    BY <2>1, <2>2
<1>2. \A s \in Clients : /\ pending'[s] \subseteq pending[s]
                         /\ \A type : Coming(s, type)' \subseteq Coming(s, type)
  BY <1>1, ComingIs
<1>3. AnswerTypeOK'
  BY <1>1, <1>t DEF AnswerTypeOK, LinkType
<1>4. OpenOnes' = OpenOnes /\ UserDecides' /\ Genuine'
  BY <1>1 DEF OpenOnes, AnswersInv, UserDecides, Genuine
<1>5. Asked' /\ OnlyShut'
  BY <1>1, <1>2 DEF AnswersInv, Asked, OnlyShut, Shut
<1>6. NoRequestForgotten'
  BY <1>1 DEF AnswersInv, NoRequestForgotten, Coming
<1> QED
  BY <1>3, <1>4, <1>5, <1>6 DEF AnswersInv

LEMMA ReconnectStep == ASSUME AnswersInv, NEW t \in Clients, Reconnect(t) PROVE AnswersInv'
<1>t. AnswerTypeOK
  BY DEF AnswersInv
<1> DEFINE replay == SetToSeq(OpenOnes)
           frames == [i \in DOMAIN replay |-> Waterfall(replay[i])]
<1>1. replay \in Seq(OpenOnes) /\ \A e \in OpenOnes : \E i \in DOMAIN replay : replay[i] = e
  BY Enumerates DEF AnswersInv
<1>2. /\ link' = [link EXCEPT ![t] = [up |-> TRUE, known |-> TRUE, client |-> link[t].client + 1, frames |-> frames]]
      /\ pending' = [pending EXCEPT ![t] = {}]
      /\ UNCHANGED <<request, unsent, calls, decided, faults>>
  BY DEF Reconnect, OpenOnes
<1> HIDE DEF replay
<1>3. /\ frames \in Seq(Frames) /\ DOMAIN frames = DOMAIN replay
      /\ \A i \in DOMAIN frames : frames[i] = Waterfall(replay[i]) /\ replay[i] \in OpenOnes
  <2>1. \A i \in DOMAIN replay : Waterfall(replay[i]) \in Frames
    BY <1>1 DEF OpenOnes, Waterfall, Frames
  <2>2. DOMAIN replay = 1..Len(replay) /\ Len(replay) \in Nat
    BY <1>1
  <2>3. frames \in [1..Len(replay) -> Frames]
    BY <2>1, <2>2
  <2> QED
    BY <1>1, <2>2, <2>3
<1> HIDE DEF frames
<1>4. link'[t].frames = frames /\ link' \in [Clients -> LinkType]
  BY <1>2, <1>3, <1>t DEF AnswerTypeOK, LinkType
<1>5. Coming(t, "cancel")' = {} /\ Coming(t, "waterfall")' = OpenOnes
  BY <1>1, <1>3, <1>4 DEF Coming, Waterfall
<1>6. \A s \in Clients \ {t} : link'[s] = link[s] /\ \A type : Coming(s, type)' = Coming(s, type)
  BY <1>2, <1>t DEF Coming, AnswerTypeOK
<1>7. AnswerTypeOK'
  BY <1>2, <1>4, <1>t DEF AnswerTypeOK, LinkType
<1>8. OpenOnes' = OpenOnes /\ UserDecides' /\ Genuine'
  BY <1>2 DEF OpenOnes, AnswersInv, UserDecides, Genuine
<1>9. Asked'
  <2> SUFFICES ASSUME NEW s \in Clients
               PROVE  \A e \in pending'[s] \cup Coming(s, "waterfall")' : request[e] # "none"
    BY <1>2 DEF AnswersInv, Asked
  <2>1. CASE s = t
    BY <1>2, <1>5, <1>t, <2>1 DEF OpenOnes, AnswerTypeOK
  <2>2. CASE s # t
    BY <1>2, <1>6, <1>t, <2>2 DEF AnswersInv, Asked, AnswerTypeOK
  <2> QED
    BY <2>1, <2>2
<1>s. OnlyShut'
  BY <1>2, <1>5, <1>6 DEF AnswersInv, OnlyShut, Shut
<1>10. NoRequestForgotten'
  BY <1>2, <1>5, <1>6, <1>t DEF AnswersInv, NoRequestForgotten, OpenOnes, AnswerTypeOK
<1> QED
  BY <1>7, <1>8, <1>9, <1>s, <1>10 DEF AnswersInv

-----------------------------------------------------------------------------
\* The terminal

\* The first frame is taken off.
LEMMA Taken ==
  ASSUME AnswerTypeOK, NEW t \in Clients, link[t].frames # <<>>,
         link' = [link EXCEPT ![t].frames = Tail(@)]
  PROVE  /\ link' \in [Clients -> LinkType]
         /\ Head(link[t].frames) \in Frames
         /\ \A s \in Clients : link'[s].up = link[s].up
         /\ \A s \in Clients \ {t} : link'[s] = link[s]
         /\ \A type : Coming(t, type) = Coming(t, type)' \cup
              (IF Head(link[t].frames).type = type THEN {Head(link[t].frames).event} ELSE {})
<1> DEFINE s == link[t].frames
<1>1. s \in Seq(Frames) /\ s # <<>> /\ link[t] \in LinkType
  BY DEF AnswerTypeOK, LinkType
<1>2. Head(s) \in Frames /\ Tail(s) \in Seq(Frames)
  BY <1>1
<1>3. link'[t].frames = Tail(s) /\ link'[t].up = link[t].up /\ link' \in [Clients -> LinkType]
  BY <1>2 DEF AnswerTypeOK, LinkType
<1>4. \A type : Coming(t, type) = Coming(t, type)' \cup (IF Head(s).type = type THEN {Head(s).event} ELSE {})
  BY <1>1, <1>2, <1>3, ComingAfter, ComingIs
<1> QED
  BY <1>2, <1>3, <1>4 DEF AnswerTypeOK

LEMMA ReceiveStep == ASSUME AnswersInv, NEW t \in Clients, ReceiveFrame(t) PROVE AnswersInv'
<1>t. AnswerTypeOK
  BY DEF AnswersInv
<1> DEFINE frame == Head(link[t].frames)
           e == frame.event
<1>1. /\ link[t].frames # <<>> /\ link' = [link EXCEPT ![t].frames = Tail(@)]
      /\ UNCHANGED <<request, decided, faults>>
      /\ IF frame.type = "waterfall" THEN Dispatch(t, e) ELSE Withdraw(t, e)
  BY DEF ReceiveFrame
<1>2. /\ link' \in [Clients -> LinkType]
      /\ frame \in Frames
      /\ \A s \in Clients : link'[s].up = link[s].up
      /\ \A s \in Clients \ {t} : link'[s] = link[s]
      /\ \A type : Coming(t, type) = Coming(t, type)' \cup (IF frame.type = type THEN {e} ELSE {})
  BY <1>1, <1>t, Taken
<1>3. e \in Prompts /\ frame.type \in {"waterfall", "cancel"}
  BY <1>2 DEF Frames
<1> HIDE DEF frame, e
<1>4. \A s \in Clients : \A type : Coming(s, type)' \subseteq Coming(s, type)
  <2>1. \A s \in Clients \ {t} : \A type : Coming(s, type)' = Coming(s, type)
    BY <1>2 DEF Coming
  <2> QED
    BY <1>2, <2>1
<1>5. OpenOnes' = OpenOnes /\ UserDecides'
  BY <1>1 DEF OpenOnes, AnswersInv, UserDecides
<1>6. CASE frame.type = "waterfall" /\ unsent[t][e] # Undecided
  <2> DEFINE x == [client |-> link[t].client, event |-> e, value |-> unsent[t][e], at |-> "sent"]
  <2>1. /\ unsent' = [unsent EXCEPT ![t][e] = Undecided]
        /\ calls' = [calls EXCEPT ![t] = @ \cup {x}] /\ pending' = pending
    BY <1>1, <1>6 DEF Dispatch, Answer
  <2>2. x \in AnswerCalls /\ x.event = e /\ x.value = unsent[t][e] /\ x.at = "sent"
    BY <1>3, <1>6, <1>t DEF AnswerTypeOK, AnswerCalls
  <2>3. x.value \in decided[t][e] /\ request[e] # "none"
    BY <1>3, <1>6, <2>2 DEF AnswersInv, Genuine, Asked
  <2> HIDE DEF x
  <2>4. AnswerTypeOK'
    BY <1>1, <1>2, <1>3, <2>1, <2>2, <1>t DEF AnswerTypeOK, LinkType
  <2>5. Genuine'
    BY <1>1, <1>3, <2>1, <2>2, <2>3, <1>t DEF AnswersInv, Genuine, AnswerTypeOK
  <2>6. Asked'
    BY <1>1, <1>3, <1>4, <2>1, <2>2, <2>3, <1>t DEF AnswersInv, Asked, AnswerTypeOK
  <2>7. OnlyShut'
    BY <1>1, <1>3, <1>4, <2>1, <2>2, <1>t DEF AnswersInv, OnlyShut, Shut, AnswerTypeOK
  <2>8. NoRequestForgotten'
    <3>1. \A s \in Clients, d \in Prompts : Has(s, d) => Has(s, d)'
      <4> SUFFICES ASSUME NEW s \in Clients, NEW d \in Prompts, Has(s, d) PROVE Has(s, d)'
        OBVIOUS
      <4>1. CASE s = t /\ d = e
        BY <2>1, <2>2, <1>t, <4>1 DEF Has, AnswerTypeOK
      <4>2. CASE s # t \/ d # e
        BY <1>2, <1>3, <2>1, <2>2, <1>t, <4>2, ComingIs DEF Has, AnswerTypeOK
      <4> QED
        BY <4>1, <4>2
    <3> QED
      BY <1>1, <1>2, <3>1, Remembered DEF AnswersInv
  <2> QED
    BY <1>5, <2>4, <2>5, <2>6, <2>7, <2>8 DEF AnswersInv
<1>7. CASE frame.type = "waterfall" /\ unsent[t][e] = Undecided
  <2>1. pending' = [pending EXCEPT ![t] = @ \cup {e}] /\ UNCHANGED <<unsent, calls>>
    BY <1>1, <1>7 DEF Dispatch
  <2>2. request[e] # "none"
    BY <1>2, <1>7 DEF AnswersInv, Asked
  <2>4. AnswerTypeOK'
    BY <1>1, <1>2, <1>3, <2>1, <1>t DEF AnswerTypeOK, LinkType
  <2>5. Genuine'
    BY <1>1, <2>1 DEF AnswersInv, Genuine
  <2>6. Asked'
    BY <1>1, <1>3, <1>4, <2>1, <2>2, <1>t DEF AnswersInv, Asked, AnswerTypeOK
  <2>7. OnlyShut'
    BY <1>1, <1>4, <2>1 DEF AnswersInv, OnlyShut, Shut
  <2>8. NoRequestForgotten'
    <3>1. \A s \in Clients, d \in Prompts : Has(s, d) => Has(s, d)'
      BY <1>2, <1>3, <2>1, <1>t, ComingIs DEF Has, AnswerTypeOK
    <3> QED
      BY <1>1, <1>2, <3>1, Remembered DEF AnswersInv
  <2> QED
    BY <1>5, <2>4, <2>5, <2>6, <2>7, <2>8 DEF AnswersInv
<1>8. CASE frame.type = "cancel"
  <2>1. pending' = [pending EXCEPT ![t] = @ \ {e}] /\ UNCHANGED <<unsent, calls>>
    BY <1>1, <1>8 DEF Withdraw
  <2>2. request[e] # "open"
    BY <1>2, <1>8 DEF AnswersInv, OnlyShut, Shut
  <2>4. AnswerTypeOK'
    BY <1>1, <1>2, <1>3, <2>1, <1>t DEF AnswerTypeOK, LinkType
  <2>5. Genuine'
    BY <1>1, <2>1 DEF AnswersInv, Genuine
  <2>6. Asked'
    BY <1>1, <1>4, <2>1, <1>t DEF AnswersInv, Asked, AnswerTypeOK
  <2>7. OnlyShut'
    BY <1>1, <1>4, <2>1 DEF AnswersInv, OnlyShut, Shut
  <2>8. NoRequestForgotten'
    <3>1. \A s \in Clients, d \in Prompts : Has(s, d) /\ d # e => Has(s, d)'
      BY <1>2, <1>8, <2>1, <1>t, ComingIs DEF Has, AnswerTypeOK
    <3> QED
      BY <1>1, <1>2, <2>2, <3>1, Remembered DEF AnswersInv
  <2> QED
    BY <1>5, <2>4, <2>5, <2>6, <2>7, <2>8 DEF AnswersInv
<1> QED
  BY <1>3, <1>6, <1>7, <1>8

LEMMA DecideStep ==
  ASSUME AnswersInv, NEW t \in Clients, NEW e \in Prompts, NEW v \in Values, Decide(t, e, v)
  PROVE  AnswersInv'
<1>t. AnswerTypeOK
  BY DEF AnswersInv
<1> DEFINE x == [client |-> link[t].client, event |-> e, value |-> v, at |-> "sent"]
<1>1. /\ e \in pending[t] /\ pending' = [pending EXCEPT ![t] = @ \ {e}]
      /\ decided' = [decided EXCEPT ![t][e] = @ \cup {v}]
      /\ calls' = [calls EXCEPT ![t] = @ \cup {x}]
      /\ UNCHANGED <<request, link, unsent, faults>>
  BY DEF Decide, Answer
<1>2. x \in AnswerCalls /\ x.event = e /\ x.value = v /\ x.at = "sent"
  BY <1>t DEF AnswerTypeOK, AnswerCalls
<1> HIDE DEF x
<1>3. /\ decided' \in [Clients -> [Prompts -> SUBSET Values]]
      /\ v \in decided'[t][e]
      /\ \A s \in Clients, d \in Prompts : decided[s][d] \subseteq decided'[s][d]
  <2>1. decided \in [Clients -> [Prompts -> SUBSET Values]]
    BY <1>t DEF AnswerTypeOK
  <2> QED
    BY <1>1, <2>1
<1>4. AnswerTypeOK'
  BY <1>1, <1>2, <1>3, <1>t DEF AnswerTypeOK
<1>5. OpenOnes' = OpenOnes
  BY <1>1 DEF OpenOnes
<1>6. UserDecides'
  BY <1>1, <1>3 DEF AnswersInv, UserDecides
<1>7. Genuine'
  <2>1. \A s \in Clients : \A y \in calls[s] : y.event \in Prompts
    BY <1>t, EventTypes
  <2>2. \A s \in Clients : \A y \in calls'[s] : y \in calls[s] \/ (s = t /\ y = x)
    BY <1>1, <1>t DEF AnswerTypeOK
  <2> QED
    BY <1>1, <1>2, <1>3, <2>1, <2>2 DEF AnswersInv, Genuine
<1>c. \A s \in Clients : \A type : Coming(s, type)' = Coming(s, type)
  BY <1>1, ComingIs
<1>8. Asked' /\ OnlyShut'
  <2>1. \A s \in Clients : /\ \A y \in calls'[s] : y \in calls[s] \/ (s = t /\ y = x)
                           /\ pending'[s] \subseteq pending[s]
    BY <1>1, <1>t DEF AnswerTypeOK
  <2>2. request[e] # "none"
    BY <1>1 DEF AnswersInv, Asked
  <2> QED
    BY <1>1, <1>2, <1>c, <2>1, <2>2 DEF AnswersInv, Asked, OnlyShut, Shut
<1>9. NoRequestForgotten'
  <2>1. \A s \in Clients, d \in Prompts : Has(s, d) => Has(s, d)'
    <3> SUFFICES ASSUME NEW s \in Clients, NEW d \in Prompts, Has(s, d) PROVE Has(s, d)'
      OBVIOUS
    <3>1. x \in calls'[t] /\ calls[s] \subseteq calls'[s] /\ (pending[s] \subseteq pending'[s] \/ s = t)
      BY <1>1, <1>t DEF AnswerTypeOK
    <3>2. CASE s = t /\ d = e
      BY <1>2, <3>1, <3>2 DEF Has
    <3>3. CASE s # t \/ d # e
      <4>1. d \in pending[s] => d \in pending'[s]
        BY <1>1, <1>t, <3>3 DEF AnswerTypeOK
      <4> QED
        BY <1>1, <1>c, <3>1, <4>1 DEF Has
    <3> QED
      BY <3>2, <3>3
  <2> QED
    BY <1>1, <2>1, Remembered DEF AnswersInv
<1> QED
  BY <1>4, <1>5, <1>6, <1>7, <1>8, <1>9 DEF AnswersInv

\* A call ends; an answer that was not taken is kept.
LEMMA EndStep ==
  ASSUME AnswersInv, NEW t \in Clients, NEW x \in calls[t],
         Settle(t, x) \/ Refused(t, x) \/ Fails(t, x)
  PROVE  AnswersInv'
<1>t. AnswerTypeOK
  BY DEF AnswersInv
<1>x. x \in AnswerCalls /\ x.event \in Prompts /\ x.value \in Values /\ x.value # Undecided
  BY <1>t, AnswerAssumption DEF AnswerTypeOK, AnswerCalls
<1>1. /\ calls' = [calls EXCEPT ![t] = @ \ {x}]
      /\ faults' \in 0..MaxFaults
      /\ UNCHANGED <<request, link, pending, decided>>
      /\ \/ unsent' = unsent /\ x.at = "ok"
         \/ unsent' = [unsent EXCEPT ![t][x.event] = x.value]
  BY <1>t, AnswerAssumption DEF Settle, Refused, Fails, Keep, AnswerTypeOK
<1>2. \A s \in Clients : calls'[s] \subseteq calls[s] /\ \A y \in calls[s] \ calls'[s] : s = t /\ y = x
  BY <1>1, <1>t DEF AnswerTypeOK
<1>u. unsent \in [Clients -> [Prompts -> Values \cup {Undecided}]]
  BY <1>t DEF AnswerTypeOK
<1>3. /\ unsent' \in [Clients -> [Prompts -> Values \cup {Undecided}]]
      /\ \A s \in Clients, e \in Prompts :
           \/ unsent'[s][e] = unsent[s][e]
           \/ s = t /\ e = x.event /\ unsent'[s][e] = x.value
      /\ x.at # "ok" => unsent'[t][x.event] = x.value
  <2>1. CASE unsent' = unsent /\ x.at = "ok"
    BY <2>1, <1>u
  <2>2. CASE unsent' = [unsent EXCEPT ![t][x.event] = x.value]
    BY <2>2, <1>u, <1>x
  <2> QED
    BY <1>1, <2>1, <2>2
<1>4. AnswerTypeOK'
  BY <1>1, <1>2, <1>3, <1>t DEF AnswerTypeOK
<1>5. OpenOnes' = OpenOnes /\ UserDecides'
  BY <1>1 DEF OpenOnes, AnswersInv, UserDecides
<1>6. x.value \in decided[t][x.event] /\ request[x.event] # "none" /\ (x.at = "ok" => request[x.event] # "open")
  BY DEF AnswersInv, Genuine, Asked, OnlyShut, Shut
<1>7. Genuine' /\ Asked' /\ OnlyShut'
  BY <1>1, <1>2, <1>3, <1>6 DEF AnswersInv, Genuine, Asked, OnlyShut, Shut, Coming
<1>8. NoRequestForgotten'
  <2> SUFFICES ASSUME NEW e \in Prompts, NEW s \in Clients, request[e] = "open", link[s].up
               PROVE  \/ e \in pending[s] \cup Coming(s, "waterfall") \cup {y.event : y \in calls'[s]}
                      \/ unsent'[s][e] # Undecided
    BY <1>1 DEF NoRequestForgotten, Coming
  <2>1. CASE s = t /\ e = x.event
    BY <1>3, <1>6, <1>x, <2>1
  <2>2. CASE ~(s = t /\ e = x.event)
    <3>1. unsent'[s][e] = unsent[s][e]
      BY <1>3, <2>2
    <3>2. \A y \in calls[s] : y.event = e => y \in calls'[s]
      BY <1>2, <2>2
    <3> QED
      BY <3>1, <3>2 DEF AnswersInv, NoRequestForgotten
  <2> QED
    BY <2>1, <2>2
<1> QED
  BY <1>4, <1>5, <1>7, <1>8 DEF AnswersInv

\* The invariant, from the steps.
LEMMA AnswersInductive == AnswerSpec => []AnswersInv
<1>1. ASSUME AnswersInv, UNCHANGED answerVars PROVE AnswersInv'
  BY <1>1 DEF answerVars, AnswersInv, AnswerTypeOK, Genuine, Asked, OnlyShut, Shut, NoRequestForgotten, UserDecides,
              Coming, OpenOnes
<1>2. AnswersInv /\ [AnswerNext]_answerVars => AnswersInv'
  BY <1>1, HostSteps, TakeStep, DropStep, ReconnectStep, ReceiveStep, DecideStep, EndStep DEF AnswerNext, Protocol
<1> QED
  BY AnswersInit, <1>2, PTL DEF AnswerSpec

\* Prompts, links, prompts, kept answers and calls have their types; what a prompt, a frame or a
\* call refers to is a request (typert.ts).
THEOREM AnswerTypes == AnswerSpec => []AnswerTypeOK
<1>1. AnswersInv => AnswerTypeOK
  BY DEF AnswersInv
<1> QED
  BY AnswersInductive, <1>1, PTL

\* A request that is open at the Host is never lost to an attached terminal: it asks the user, or will
\* be told, or the answer is under way or kept, whatever stream breaks and call fails when (answer(),
\* dispatch() and the replay after a reconnect).
THEOREM NoneForgotten == AnswerSpec => []NoRequestForgotten
<1>1. AnswersInv => NoRequestForgotten
  BY DEF AnswersInv
<1> QED
  BY AnswersInductive, <1>1, PTL

\* A request is only closed with a value that a user chose at a terminal: neither a lost stream nor an
\* answer that is sent again makes one up.
THEOREM UsersDecide == AnswerSpec => []UserDecides
<1>1. AnswersInv => UserDecides
  BY DEF AnswersInv
<1> QED
  BY AnswersInductive, <1>1, PTL

-----------------------------------------------------------------------------
(* Followed sessions                                                       *)

\* The terminal's log is a run of seqs of the Host's log.
LogRuns ==
  log # <<>> =>
    /\ log[1] \in Nat /\ log[1] <= LastSeq /\ LastSeq < host
    /\ log = Seqs(log[1], LastSeq)

\* While there are older events, open() pages back from a log that has a beginning.
Begun ==
  /\ opening.stage = "snapshot" => log = <<>> /\ catch.stage = "idle"
  /\ opening.stage # "snapshot" => (opening.more <=> log # <<>> /\ log[1] > 0)
  /\ opening.stage \in {"refresh", "ready"} => ~opening.more

\* What the stream still carries goes on where the terminal is, up to the end of the Host's log.
Snapshot == follow.frames # <<>> /\ follow.frames[1].type = "snapshot"
Reached == IF catch.stage = "paging" THEN catch.cursor ELSE LastSeq
Carried(from, to) ==
  \A i \in (from + 1)..Len(follow.frames) :
    follow.frames[i] = [type |-> "event", seq |-> to - Len(follow.frames) + i - 1]
Streams ==
  /\ ~follow.up => follow.frames = <<>>
  /\ follow.up /\ Snapshot =>
       /\ catch.stage = "idle" /\ Carried(1, host)
       /\ follow.frames[1].cursor = host - Len(follow.frames)
       /\ LastSeq <= follow.frames[1].cursor
       /\ follow.frames[1].records \in Page(follow.frames[1].cursor + 1)
  /\ follow.up /\ ~Snapshot =>
       /\ opening.stage # "snapshot" /\ Carried(0, host)
       /\ Reached + Len(follow.frames) = host - 1

\* What catchUp() has read goes from beyond the log up to the cursor of its snapshot.
Caught ==
  catch.stage = "paging" =>
    /\ opening.stage # "snapshot" /\ catch.more
    /\ LastSeq + 1 < catch.oldest /\ catch.oldest <= catch.cursor /\ catch.cursor < host
    /\ catch.missed = Seqs(catch.oldest, catch.cursor)

LogInv == FollowTypeOK /\ LogRuns /\ Begun /\ Streams /\ Caught /\ end # "invalid"

\* session/list is asked by whoever waits for it.
Waiting ==
  /\ lists[ForOpen] # Unmade => opening.stage = "refresh"
  /\ lists[ForCatchUp] # Unmade <=> catch.stage = "refresh"
  /\ ~status.up => status.drops > 0
  /\ \A c \in Callers : lists[c] \in 0..MaxLog => lists[c] <= host
StatusCarried == status.frames # <<>> => status.up /\ status.frames[Len(status.frames)] = host

\* Nothing is shown: no answer is under way that says less than the log, and open() will ask.
Unknown ==
  shown = -1 =>
    /\ \A c \in Callers : lists[c] \in 0..MaxLog => opening.stage # "snapshot" /\ LastSeq < lists[c]
    /\ opening.stage = "snapshot" => \A c \in Callers : lists[c] = Unmade
    /\ opening.stage = "refresh" => lists[ForOpen] # Unmade
    /\ opening.stage = "ready" => doubt

\* What is shown is right, or will be made right by something that is under way.
Corrected ==
  \/ shown \in {-1, host} \/ doubt
  \/ status.frames # <<>> \/ ~status.up
  \/ \E c \in Callers : lists[c] \in {Made, host}
  \/ opening.stage # "snapshot" /\ LastSeq + 1 < host
ShownInv == Waiting /\ StatusCarried /\ Unknown /\ Corrected

FollowInv == LogInv /\ ShownInv

-----------------------------------------------------------------------------
\* Runs of seqs

LEMMA SeqsAre ==
  ASSUME NEW lo \in Int, NEW hi \in Int, lo <= hi + 1
  PROVE  /\ Seqs(lo, hi) \in Seq(lo..hi) /\ Len(Seqs(lo, hi)) = hi - lo + 1
         /\ DOMAIN Seqs(lo, hi) = 1..(hi - lo + 1)
         /\ \A i \in 1..(hi - lo + 1) : Seqs(lo, hi)[i] = lo + i - 1
         /\ Seqs(lo, hi) = <<>> <=> lo = hi + 1
<1> DEFINE n == hi - lo + 1
           s == Seqs(lo, hi)
<1>1. n \in Nat
  OBVIOUS
<1>2. DOMAIN s = 1..n /\ \A i \in 1..n : s[i] = lo + i - 1 /\ s[i] \in lo..hi
  BY DEF Seqs
<1>3. s \in [1..n -> lo..hi]
  BY <1>2 DEF Seqs
<1>4. s \in Seq(lo..hi) /\ Len(s) = n
  BY <1>1, <1>2, <1>3
<1> HIDE DEF s
<1>5. s = <<>> <=> n = 0
  BY <1>1, <1>4
<1> QED
  BY <1>2, <1>4, <1>5 DEF s

LEMMA SeqsIs ==
  ASSUME NEW T, NEW s \in Seq(T), NEW lo \in Int, NEW hi \in Int, lo <= hi + 1, Len(s) = hi - lo + 1,
         \A i \in 1..Len(s) : s[i] = lo + i - 1
  PROVE  s = Seqs(lo, hi)
<1>1. s = [i \in 1..Len(s) |-> s[i]]
  OBVIOUS
<1>2. [i \in 1..Len(s) |-> s[i]] = [i \in 1..(hi - lo + 1) |-> lo + i - 1]
  OBVIOUS
<1> QED
  BY <1>1, <1>2 DEF Seqs

LEMMA SeqsJoin ==
  ASSUME NEW lo \in Int, NEW mid \in Int, NEW hi \in Int, lo <= mid + 1, mid <= hi
  PROVE  Seqs(lo, mid) \o Seqs(mid + 1, hi) = Seqs(lo, hi)
<1> DEFINE s == Seqs(lo, mid)
           t == Seqs(mid + 1, hi)
<1>1. /\ s \in Seq(Int) /\ Len(s) = mid - lo + 1 /\ \A i \in 1..Len(s) : s[i] = lo + i - 1
      /\ t \in Seq(Int) /\ Len(t) = hi - mid /\ \A i \in 1..Len(t) : t[i] = mid + i
  <2>1. s \in Seq(lo..mid) /\ t \in Seq((mid + 1)..hi)
    BY SeqsAre
  <2>2. s \in Seq(Int) /\ t \in Seq(Int)
    BY <2>1
  <2>3. Len(s) = mid - lo + 1 /\ \A i \in 1..Len(s) : s[i] = lo + i - 1
    BY SeqsAre
  <2>4. Len(t) = hi - (mid + 1) + 1 /\ \A i \in 1..Len(t) : t[i] = (mid + 1) + i - 1
    <3> HIDE DEF s
    <3> DEFINE m == mid + 1
    <3>1. m \in Int /\ m <= hi + 1 /\ t = Seqs(m, hi)
      OBVIOUS
    <3> HIDE DEF m, t
    <3>2. /\ Len(t) = hi - m + 1
          /\ \A i \in 1..(hi - m + 1) : t[i] = m + i - 1
      BY <3>1, SeqsAre
    <3> QED
      BY <3>2 DEF m
  <2> HIDE DEF s, t
  <2> QED
    BY <2>2, <2>3, <2>4
<1> HIDE DEF s, t
<1>2. s \o t \in Seq(Int) /\ Len(s \o t) = Len(s) + Len(t) /\ Len(s) \in Nat /\ Len(t) \in Nat
  <2>1. s \in Seq(Int) /\ t \in Seq(Int)
    BY <1>1
  <2> QED
    BY <2>1
<1>3. ASSUME NEW i \in 1..Len(s \o t) PROVE (s \o t)[i] = lo + i - 1
  <2>1. CASE i <= Len(s)
    <3>1. (s \o t)[i] = s[i] /\ i \in 1..Len(s)
      BY <1>1, <1>2, <2>1
    <3> QED
      BY <1>1, <3>1
  <2>2. CASE i > Len(s)
    <3>1. (s \o t)[i] = t[i - Len(s)] /\ i - Len(s) \in 1..Len(t)
      BY <1>1, <1>2, <2>2
    <3>2. t[i - Len(s)] = mid + (i - Len(s))
      BY <1>1, <3>1
    <3> QED
      BY <1>1, <3>1, <3>2
  <2> QED
    BY <1>2, <2>1, <2>2
<1>4. s \o t = Seqs(lo, hi)
  <2>1. Len(s \o t) = hi - lo + 1 /\ lo <= hi + 1
    BY <1>1, <1>2
  <2> QED
    BY <1>2, <1>3, <2>1, SeqsIs
<1> QED
  BY <1>4 DEF s, t

\* The part of a run from a seq on is a run.
LEMMA SeqsFrom ==
  ASSUME NEW lo \in Int, NEW hi \in Int, lo <= hi + 1, NEW seq \in Int, seq <= hi + 1
  PROVE  /\ lo <= seq => From(Seqs(lo, hi), seq) = Seqs(seq, hi)
         /\ seq <= lo => From(Seqs(lo, hi), seq) = Seqs(lo, hi)
<1> DEFINE s == Seqs(lo, hi)
           Cut(n) == \A i \in DOMAIN s : i >= n <=> s[i] >= seq
           n == CHOOSE m \in 1..(Len(s) + 1) : Cut(m)
           k == IF lo <= seq THEN seq - lo + 1 ELSE 1
<1>1. /\ s \in Seq(lo..hi) /\ Len(s) = hi - lo + 1 /\ DOMAIN s = 1..Len(s) /\ Len(s) \in Nat
      /\ \A i \in 1..Len(s) : s[i] = lo + i - 1
  BY SeqsAre
<1> HIDE DEF s
<1>2. k \in 1..(Len(s) + 1) /\ Cut(k)
  BY <1>1
<1>3. n \in 1..(Len(s) + 1) /\ Cut(n)
  BY <1>2
<1>4. n = k
  <2> HIDE DEF n, k
  <2>0. \A i \in 1..Len(s) : i >= n <=> i >= k
    BY <1>1, <1>2, <1>3
  <2> HIDE DEF Cut
  <2>t. n \in Int /\ k \in Int /\ 1 <= n /\ 1 <= k /\ n <= Len(s) + 1 /\ k <= Len(s) + 1 /\ Len(s) \in Nat
    BY <1>1, <1>2, <1>3
  <2>1. ~(n < k)
    BY <2>t, <2>0
  <2>2. ~(k < n)
    BY <2>t, <2>0
  <2> QED
    BY <2>t, <2>1, <2>2
<1>5. From(s, seq) = SubSeq(s, k, Len(s))
  BY <1>4 DEF From
<1> DEFINE t == SubSeq(s, k, Len(s))
<1>6. t \in Seq(lo..hi) /\ Len(t) = Len(s) + 1 - k /\ \A i \in 1..Len(t) : t[i] = s[k + i - 1]
  <2> HIDE DEF k
  <2> QED
    BY <1>1, <1>2
<1> HIDE DEF t
<1>7. CASE lo <= seq
  <2>1. t = Seqs(seq, hi)
    BY <1>1, <1>6, <1>7, SeqsIs
  <2>2. seq <= lo => seq = lo
    BY <1>7
  <2> QED
    BY <1>5, <2>1, <2>2 DEF s, t
<1>8. CASE seq < lo
  <2>1. t = Seqs(lo, hi)
    BY <1>1, <1>6, <1>8, SeqsIs
  <2> QED
    BY <1>5, <1>8, <2>1 DEF s, t
<1> QED
  BY <1>7, <1>8

LEMMA LastIs ==
  ASSUME NEW T, log \in Seq(T)
  PROVE  LastSeq = IF log = <<>> THEN -1 ELSE log[Len(log)]
BY DEF LastSeq, Last

\* A page is a run up to its bound, and passes the check of historyPage().
LEMMA Pages ==
  ASSUME NEW before \in Nat, NEW records \in Page(before)
  PROVE  /\ before = 0 => records = <<>>
         /\ before > 0 => /\ records # <<>> /\ records[1] \in 0..(before - 1) /\ Head(records) = records[1]
                          /\ records = Seqs(records[1], before - 1)
         /\ records \in Seq(0..(before - 1))
         /\ Valid(records, More(records), before)
         /\ More(records) <=> records # <<>> /\ records[1] > 0
<1>1. CASE before = 0
  <2>1. records = <<>>
    BY <1>1 DEF Page
  <2> QED
    BY <1>1, <2>1 DEF Valid, More
<1>2. CASE before > 0
  <2>1. PICK lo \in 0..(before - 1) : records = Seqs(lo, before - 1)
    BY <1>2 DEF Page
  <2>2. /\ records \in Seq(lo..(before - 1)) /\ Len(records) = before - lo /\ records # <<>>
        /\ DOMAIN records = 1..(before - lo)
        /\ \A i \in 1..(before - lo) : records[i] = lo + i - 1
    <3>1. lo \in Int /\ before - 1 \in Int /\ lo <= (before - 1) + 1 /\ (before - 1) - lo + 1 = before - lo
      OBVIOUS
    <3>2. /\ records \in Seq(lo..(before - 1)) /\ Len(records) = (before - 1) - lo + 1
          /\ DOMAIN records = 1..((before - 1) - lo + 1)
          /\ \A i \in 1..((before - 1) - lo + 1) : records[i] = lo + i - 1
      BY <2>1, <3>1, SeqsAre
    <3>3. records # <<>>
      BY <3>1, <3>2
    <3> QED
      BY <3>1, <3>2, <3>3
  <2>3. records[1] = lo /\ Head(records) = lo /\ Last(records) = before - 1
    BY <1>2, <2>1, <2>2 DEF Last
  <2>4. records \in Seq(0..(before - 1))
    <3>1. \A i \in 1..Len(records) : records[i] \in 0..(before - 1)
      BY <2>2
    <3> QED
      BY <2>2, <3>1
  <2>5. Valid(records, More(records), before)
    <3>1. \A i \in 2..Len(records) : records[i] = records[i - 1] + 1
      BY <2>2
    <3>2. More(records) = (Head(records) > 0)
      BY <2>2 DEF More
    <3> QED
      BY <2>2, <2>3, <3>1, <3>2 DEF Valid
  <2> QED
    BY <1>2, <2>1, <2>2, <2>3, <2>4, <2>5 DEF More
<1> QED
  BY <1>1, <1>2

-----------------------------------------------------------------------------
\* The log

FrameType == Snapshots \cup [type : {"event"}, seq : 0..(MaxLog - 1)]

LEMMA LogIs ==
  ASSUME FollowTypeOK, LogRuns
  PROVE  /\ log \in Seq(0..(MaxLog - 1)) /\ LastSeq \in Int /\ -1 <= LastSeq /\ LastSeq < host
         /\ log = <<>> => LastSeq = -1
         /\ log # <<>> => log[1] \in Nat /\ log[1] <= LastSeq /\ log = Seqs(log[1], LastSeq)
<1>1. log \in Seq(0..(MaxLog - 1)) /\ host \in Nat /\ MaxLog \in Nat
  <2>1. log \in Seq(0..(MaxLog - 1)) /\ host \in 0..MaxLog
    BY DEF FollowTypeOK
  <2> QED
    BY <2>1, FollowAssumption
<1>2. LastSeq = IF log = <<>> THEN -1 ELSE log[Len(log)]
  BY <1>1, LastIs
<1>3. log # <<>> => log[Len(log)] \in 0..(MaxLog - 1)
  <2>1. ASSUME log # <<>> PROVE log[Len(log)] \in 0..(MaxLog - 1)
    <3>1. Len(log) \in 1..Len(log)
      BY <1>1, <2>1
    <3> QED
      BY <1>1, <3>1
  <2> QED
    BY <2>1
<1> QED
  BY <1>1, <1>2, <1>3 DEF LogRuns

LEMMA Widen ==
  ASSUME NEW S, NEW T, NEW s \in Seq(S), \A i \in 1..Len(s) : s[i] \in T
  PROVE  s \in Seq(T)
OBVIOUS

\* A run of the Host's log is a log.
LEMMA RunIs ==
  ASSUME NEW lo \in Nat, NEW hi \in Int, lo <= hi, hi < MaxLog
  PROVE  /\ Seqs(lo, hi) \in Seq(0..(MaxLog - 1)) /\ Seqs(lo, hi) # <<>>
         /\ Seqs(lo, hi)[1] = lo /\ Seqs(lo, hi)[Len(Seqs(lo, hi))] = hi
<1> DEFINE s == Seqs(lo, hi)
<1>1. /\ s \in Seq(lo..hi) /\ Len(s) = hi - lo + 1
      /\ \A i \in 1..(hi - lo + 1) : s[i] = lo + i - 1
      /\ s = <<>> <=> lo = hi + 1
  <2>1. lo \in Int /\ lo <= hi + 1
    OBVIOUS
  <2> QED
    BY <2>1, SeqsAre
<1> HIDE DEF s
<1>2. \A i \in 1..Len(s) : s[i] \in 0..(MaxLog - 1)
  <2>1. Len(s) = hi - lo + 1 /\ MaxLog \in Nat
    BY <1>1, FollowAssumption
  <2>2. \A i \in 1..(hi - lo + 1) : lo + i - 1 \in 0..(MaxLog - 1)
    BY <2>1
  <2> QED
    BY <1>1, <2>1, <2>2
<1>3. s \in Seq(0..(MaxLog - 1))
  BY <1>1, <1>2, Widen
<1>4. s # <<>> /\ s[1] = lo /\ s[Len(s)] = hi
  BY <1>1
<1> QED
  BY <1>3, <1>4 DEF s

\* A new log that is a run below the end of the Host's is a log of the invariant.
LEMMA NewLog ==
  ASSUME NEW lo \in Nat, NEW hi \in Int, lo <= hi, hi < host', host' \in 0..MaxLog, log' = Seqs(lo, hi)
  PROVE  LogRuns' /\ LastSeq' = hi /\ log' # <<>> /\ log'[1] = lo /\ log' \in Seq(0..(MaxLog - 1))
<1>1. hi < MaxLog
  BY FollowAssumption
<1>2. /\ log' \in Seq(0..(MaxLog - 1)) /\ log' # <<>> /\ log'[1] = lo /\ log'[Len(log')] = hi
  BY <1>1, RunIs
<1>3. LastSeq' = hi
  BY <1>2 DEF LastSeq, Last
<1> QED
  BY <1>2, <1>3 DEF LogRuns

\* append() for the events that come next.
LEMMA AppendNext ==
  ASSUME FollowTypeOK, LogRuns, NEW to \in Int, LastSeq <= to, to < host,
         UNCHANGED host, AppendAll(Seqs(LastSeq + 1, to))
  PROVE  /\ LogRuns' /\ LastSeq' = to /\ log' \in Seq(0..(MaxLog - 1)) /\ UNCHANGED end
         /\ log' # <<>> /\ log'[1] > 0 <=> log # <<>> /\ log[1] > 0
         /\ shown' = IF to = LastSeq THEN shown ELSE to + 1
<1> DEFINE events == Seqs(LastSeq + 1, to)
<1>1. /\ log \in Seq(0..(MaxLog - 1)) /\ LastSeq \in Int /\ -1 <= LastSeq /\ LastSeq < host
      /\ log = <<>> => LastSeq = -1
      /\ log # <<>> => log[1] \in Nat /\ log[1] <= LastSeq /\ log = Seqs(log[1], LastSeq)
  BY LogIs
<1>2. /\ host \in 0..MaxLog /\ MaxLog \in Nat
  BY FollowAssumption DEF FollowTypeOK
<1>3. /\ events \in Seq((LastSeq + 1)..to) /\ Len(events) = to - LastSeq
      /\ DOMAIN events = 1..(to - LastSeq)
      /\ \A i \in 1..(to - LastSeq) : events[i] = LastSeq + i
      /\ events = <<>> <=> to = LastSeq
  <2> DEFINE m == LastSeq + 1
  <2>1. m \in Int /\ m <= to + 1 /\ to - m + 1 = to - LastSeq /\ \A i \in Int : m + i - 1 = LastSeq + i
    BY <1>1
  <2> HIDE DEF m
  <2>2. /\ Seqs(m, to) \in Seq(m..to) /\ Len(Seqs(m, to)) = to - m + 1 /\ DOMAIN Seqs(m, to) = 1..(to - m + 1)
        /\ \A i \in 1..(to - m + 1) : Seqs(m, to)[i] = m + i - 1
        /\ Seqs(m, to) = <<>> <=> m = to + 1
    BY <2>1, SeqsAre
  <2>3. m = to + 1 <=> to = LastSeq
    BY <1>1 DEF m
  <2> QED
    BY <2>1, <2>2, <2>3 DEF m
<1> HIDE DEF events
<1>4. ~\E i \in DOMAIN events : events[i] # LastSeq + i
  BY <1>3
<1>5. /\ log' = log \o events /\ UNCHANGED end
      /\ shown' = IF events = <<>> THEN shown ELSE Last(events) + 1
  BY <1>4 DEF AppendAll, events
<1>6. events # <<>> => Last(events) = to
  BY <1>1, <1>3 DEF Last
<1>7. CASE to = LastSeq
  <2>1. log' = log
    BY <1>1, <1>3, <1>5, <1>7
  <2>2. LogRuns' /\ LastSeq' = LastSeq
    BY <2>1 DEF LogRuns, LastSeq
  <2> QED
    BY <1>1, <1>3, <1>5, <1>7, <2>1, <2>2
<1>8. CASE LastSeq < to
  <2> DEFINE lo == IF log = <<>> THEN 0 ELSE log[1]
  <2>1. lo \in Nat /\ lo <= to /\ lo <= LastSeq + 1
    BY <1>1, <1>8
  <2>2. log = Seqs(lo, LastSeq)
    <3>1. CASE log = <<>>
      <4>1. Seqs(0, -1) = <<>>
        BY SeqsAre
      <4> QED
        BY <1>1, <3>1, <4>1
    <3>2. CASE log # <<>>
      BY <1>1, <3>2
    <3> QED
      BY <3>1, <3>2
  <2>3. log' = Seqs(lo, to)
    <3> HIDE DEF lo
    <3>1. Seqs(lo, LastSeq) \o Seqs(LastSeq + 1, to) = Seqs(lo, to)
      <4>1. lo \in Int /\ LastSeq <= to
        BY <1>8, <2>1
      <4> QED
        BY <1>1, <2>1, <4>1, SeqsJoin
    <3> QED
      BY <1>5, <2>2, <3>1 DEF events
  <2>4. LogRuns' /\ LastSeq' = to /\ log' # <<>> /\ log'[1] = lo /\ log' \in Seq(0..(MaxLog - 1))
    <3> HIDE DEF lo
    <3>1. host' \in 0..MaxLog /\ to < host'
      BY <1>2
    <3> QED
      BY <2>1, <2>3, <3>1, NewLog
  <2>5. lo > 0 <=> log # <<>> /\ log[1] > 0
    OBVIOUS
  <2> QED
    BY <1>3, <1>5, <1>6, <1>8, <2>4, <2>5
<1> QED
  BY <1>1, <1>7, <1>8

\* Steps that leave the log and what feeds it alone.
LEMMA LogStays ==
  ASSUME LogInv, UNCHANGED <<host, follow, log, opening, catch>>, end' # "invalid", FollowTypeOK'
  PROVE  LogInv'
<1>1. LastSeq' = LastSeq /\ \A before : Page(before)' = Page(before)
  BY DEF LastSeq, Page
<1>2. LogRuns'
  BY <1>1 DEF LogInv, LogRuns
<1>3. Begun' /\ Caught'
  BY <1>1 DEF LogInv, Begun, Caught
<1>4. Streams'
  BY <1>1 DEF LogInv, Streams, Snapshot, Carried, Reached
<1> QED
  BY <1>2, <1>3, <1>4 DEF LogInv

LEMMA EventsAre == ASSUME NEW x, NEW n, x = [type |-> "event", seq |-> n] PROVE x.type = "event" /\ x.seq = n
OBVIOUS

\* What is appended or kept of the pages that catchUp() has read, from lo to the cursor.
LEMMA CaughtUp ==
  ASSUME FollowTypeOK, LogRuns, UNCHANGED host, end = "none", NEW lo \in Nat, NEW cursor \in Int, NEW more \in BOOLEAN,
         LastSeq <= cursor, cursor < host, lo <= cursor \/ lo = 0, more <=> lo > 0,
         NEW from \in Int, from = IF lo <= LastSeq + 1 THEN LastSeq + 1 ELSE lo,
         CatchUp(Seqs(from, cursor), lo, more, cursor)
  PROVE  \/ /\ LastSeq + 1 < lo /\ lo <= cursor /\ more
            /\ catch' = [stage |-> "paging", cursor |-> cursor, missed |-> Seqs(lo, cursor), oldest |-> lo, more |-> more]
            /\ UNCHANGED <<log, shown, lists, end>>
         \/ /\ LogRuns' /\ LastSeq' = cursor /\ log' \in Seq(0..(MaxLog - 1)) /\ UNCHANGED end
            /\ log' # <<>> /\ log'[1] > 0 <=> log # <<>> /\ log[1] > 0
            /\ shown' = IF cursor = LastSeq THEN shown ELSE cursor + 1
            /\ catch' = [Idle EXCEPT !.stage = "refresh"] /\ lists' = [lists EXCEPT ![ForCatchUp] = Made]
<1>1. LastSeq \in Int /\ -1 <= LastSeq
  BY LogIs
<1>2. CASE more /\ LastSeq + 1 < lo
  <2>1. ~(lo <= LastSeq + 1) /\ lo <= cursor
    BY <1>1, <1>2
  <2>2. CatchUp(Seqs(lo, cursor), lo, more, cursor)
    BY <2>1
  <2>3. /\ catch' = [stage |-> "paging", cursor |-> cursor, missed |-> Seqs(lo, cursor), oldest |-> lo, more |-> more]
        /\ UNCHANGED <<log, shown, lists, end>>
    BY <1>1, <1>2, <2>2 DEF CatchUp
  <2> QED
    BY <1>2, <2>1, <2>3
<1>3. CASE ~(more /\ LastSeq + 1 < lo)
  <2>1. lo <= LastSeq + 1
    BY <1>1, <1>3
  <2>2. CatchUp(Seqs(LastSeq + 1, cursor), lo, more, cursor)
    BY <2>1
  <2>3. /\ AppendAll(Seqs(LastSeq + 1, cursor))
        /\ \/ /\ end' = "none" /\ catch' = [Idle EXCEPT !.stage = "refresh"]
              /\ lists' = [lists EXCEPT ![ForCatchUp] = Made]
           \/ end' # "none"
    BY <1>1, <1>3, <2>2 DEF CatchUp
  <2>4. /\ LogRuns' /\ LastSeq' = cursor /\ log' \in Seq(0..(MaxLog - 1)) /\ UNCHANGED end
        /\ log' # <<>> /\ log'[1] > 0 <=> log # <<>> /\ log[1] > 0
        /\ shown' = IF cursor = LastSeq THEN shown ELSE cursor + 1
    BY <2>3, AppendNext
  <2> QED
    BY <2>3, <2>4
<1> QED
  BY <1>2, <1>3

\* The stream after its first frame is taken: the terminal is where that frame leads.
LEMMA TailStreams ==
  ASSUME Streams, host \in Nat, Reached \in Int, follow \in [up : BOOLEAN, frames : Seq(FrameType)], follow.frames # <<>>,
         follow' = [follow EXCEPT !.frames = Tail(@)], UNCHANGED host, opening'.stage # "snapshot",
         Snapshot => Reached' = follow.frames[1].cursor, ~Snapshot => Reached' = Reached + 1
  PROVE  Streams' /\ follow' \in [up : BOOLEAN, frames : Seq(FrameType)]
<1> DEFINE s == follow.frames
<1>1. s \in Seq(FrameType) /\ follow.up \in BOOLEAN /\ follow.up
  BY DEF Streams
<1>2. /\ Tail(s) \in Seq(FrameType) /\ Len(s) \in Nat \ {0} /\ Len(Tail(s)) = Len(s) - 1
      /\ \A i \in 1..(Len(s) - 1) : Tail(s)[i] = s[i + 1]
  BY <1>1
<1>3. follow'.up /\ follow'.frames = Tail(s) /\ follow' \in [up : BOOLEAN, frames : Seq(FrameType)]
  BY <1>1, <1>2
<1> HIDE DEF s
<1>4. /\ \A i \in 1..(Len(s) - 1) : Tail(s)[i] = [type |-> "event", seq |-> host - Len(s) + i]
      /\ Reached' + (Len(s) - 1) = host - 1
  <2>1. CASE Snapshot
    <3>1. /\ \A i \in 2..Len(s) : s[i] = [type |-> "event", seq |-> host - Len(s) + i - 1]
          /\ follow.frames[1].cursor = host - Len(s)
      BY <1>1, <2>1 DEF Streams, Carried, s
    <3>2. ASSUME NEW i \in 1..(Len(s) - 1) PROVE Tail(s)[i] = [type |-> "event", seq |-> host - Len(s) + i]
      <4>1. i + 1 \in 2..Len(s) /\ host - Len(s) + (i + 1) - 1 = host - Len(s) + i
        BY <1>2
      <4> QED
        BY <1>2, <3>1, <4>1
    <3>3. Reached' = host - Len(s)
      BY <2>1, <3>1
    <3> QED
      BY <1>2, <3>2, <3>3
  <2>2. CASE ~Snapshot
    <3>1. /\ \A i \in 1..Len(s) : s[i] = [type |-> "event", seq |-> host - Len(s) + i - 1]
          /\ Reached + Len(s) = host - 1
      BY <1>1, <2>2 DEF Streams, Carried, s
    <3>2. ASSUME NEW i \in 1..(Len(s) - 1) PROVE Tail(s)[i] = [type |-> "event", seq |-> host - Len(s) + i]
      <4>1. i + 1 \in 1..Len(s) /\ host - Len(s) + (i + 1) - 1 = host - Len(s) + i
        BY <1>2
      <4> QED
        BY <1>2, <3>1, <4>1
    <3>3. Reached' = Reached + 1
      BY <2>2
    <3>4. Reached' + (Len(s) - 1) = host - 1
      <4>1. Reached + Len(s) = host - 1
        BY <3>1
      <4> QED
        BY <1>2, <3>3, <4>1
    <3> QED
      BY <3>2, <3>4
  <2> QED
    BY <2>1, <2>2
<1>5. ~Snapshot'
  <2>1. Tail(s) # <<>> => 1 \in 1..(Len(s) - 1)
    BY <1>2
  <2>2. ASSUME Tail(s) # <<>> PROVE Tail(s)[1].type # "snapshot"
    <3>1. Tail(s)[1] = [type |-> "event", seq |-> host - Len(s) + 1]
      BY <1>4, <2>1, <2>2
    <3>2. Tail(s)[1].type = "event"
      BY <3>1, EventsAre, Zenon
    <3> QED
      BY <3>2
  <2> QED
    BY <1>3, <2>2 DEF Snapshot
<1>6. Carried(0, host)'
  <2>1. ASSUME NEW i \in 1..(Len(s) - 1)
        PROVE  Tail(s)[i] = [type |-> "event", seq |-> host' - Len(Tail(s)) + i - 1]
    <3>1. host' - Len(Tail(s)) + i - 1 = host - Len(s) + i
      BY <1>2
    <3>2. Tail(s)[i] = [type |-> "event", seq |-> host - Len(s) + i]
      BY <1>4
    <3> QED
      BY <3>1, <3>2
  <2>2. (0 + 1)..Len(Tail(s)) = 1..(Len(s) - 1)
    BY <1>2
  <2> QED
    BY <1>3, <2>1, <2>2 DEF Carried
<1> QED
  BY <1>2, <1>3, <1>4, <1>5, <1>6 DEF Streams

LEMMA TypesAre ==
  ASSUME FollowTypeOK
  PROVE  /\ host \in Nat /\ host <= MaxLog /\ MaxLog \in Nat
         /\ follow \in [up : BOOLEAN, frames : Seq(FrameType)]
         /\ status \in [up : BOOLEAN, frames : Seq(1..MaxLog), drops : 0..MaxDrops]
         /\ log \in Seq(0..(MaxLog - 1))
         /\ opening \in [stage : {"snapshot", "paging", "refresh", "ready"}, cursor : -1..(MaxLog - 1), more : BOOLEAN]
         /\ catch \in [stage : {"idle", "paging", "refresh"}, cursor : -1..(MaxLog - 1),
                       missed : Seq(0..(MaxLog - 1)), oldest : 0..MaxLog, more : BOOLEAN]
         /\ shown \in -1..MaxLog /\ lists \in [Callers -> {Unmade, Made} \cup 0..MaxLog]
         /\ drops \in 0..MaxDrops /\ fails \in 0..MaxFails /\ doubt \in BOOLEAN
         /\ MaxDrops \in Nat /\ MaxFails \in Nat /\ end \in {"none", "unreachable", "invalid"}
<1>1. host \in 0..MaxLog /\ MaxLog \in Nat
  BY FollowAssumption DEF FollowTypeOK
<1> QED
  BY <1>1, FollowAssumption DEF FollowTypeOK, FrameType

LEMMA LogInit == ASSUME FollowInit PROVE LogInv
<1>1. FollowTypeOK
  <2>1. <<>> \in Seq(Snapshots \cup [type : {"event"}, seq : 0..(MaxLog - 1)]) /\ <<>> \in Seq(1..MaxLog)
        /\ <<>> \in Seq(0..(MaxLog - 1))
    OBVIOUS
  <2>2. host \in 0..MaxLog /\ MaxLog \in Nat /\ MaxDrops \in Nat /\ MaxFails \in Nat
    BY FollowAssumption DEF FollowInit
  <2>3. Idle \in [stage : {"idle", "paging", "refresh"}, cursor : -1..(MaxLog - 1),
                  missed : Seq(0..(MaxLog - 1)), oldest : 0..MaxLog, more : BOOLEAN]
    BY <2>1, <2>2 DEF Idle
  <2>4. opening \in [stage : {"snapshot", "paging", "refresh", "ready"}, cursor : -1..(MaxLog - 1), more : BOOLEAN]
    BY <2>2 DEF FollowInit
  <2>5. lists \in [Callers -> {Unmade, Made} \cup 0..MaxLog]
    BY DEF FollowInit
  <2>6. /\ follow \in [up : BOOLEAN, frames : Seq(Snapshots \cup [type : {"event"}, seq : 0..(MaxLog - 1)])]
        /\ status \in [up : BOOLEAN, frames : Seq(1..MaxLog), drops : 0..MaxDrops]
        /\ log \in Seq(0..(MaxLog - 1))
    BY <2>1, <2>2 DEF FollowInit
  <2>7. shown \in -1..MaxLog /\ drops \in 0..MaxDrops /\ fails \in 0..MaxFails /\ doubt \in BOOLEAN
    <3>1. shown = -1 /\ drops = 0 /\ fails = 0 /\ doubt = FALSE
      BY DEF FollowInit
    <3>2. -1 \in -1..MaxLog /\ 0 \in 0..MaxDrops /\ 0 \in 0..MaxFails /\ FALSE \in BOOLEAN
      BY <2>2
    <3> QED
      BY <3>1, <3>2
  <2>8. catch = Idle /\ end = "none"
    BY DEF FollowInit
  <2> QED
    BY <2>2, <2>3, <2>4, <2>5, <2>6, <2>7, <2>8 DEF FollowTypeOK
<1>2. LastSeq = -1 /\ Idle.stage = "idle"
  BY DEF FollowInit, LastSeq, Idle
<1>3. LogRuns /\ Begun /\ Caught
  BY <1>2 DEF FollowInit, LogRuns, Begun, Caught
<1>4. Streams
  BY DEF FollowInit, Streams
<1> QED
  BY <1>1, <1>3, <1>4 DEF FollowInit, LogInv

LEMMA CommitLog == ASSUME LogInv, Commit PROVE LogInv'
<1>t. FollowTypeOK
  BY DEF LogInv
<1>1. host \in Nat /\ host' = host + 1 /\ host' \in 0..MaxLog /\ LastSeq' = LastSeq
  <2>1. host \in Nat /\ MaxLog \in Nat /\ host < MaxLog /\ host' = host + 1 /\ UNCHANGED log
    BY <1>t, TypesAre DEF Commit
  <2> QED
    BY <2>1 DEF LastSeq
<1>2. follow \in [up : BOOLEAN, frames : Seq(FrameType)]
  BY <1>t DEF FollowTypeOK, FrameType
<1>3. FollowTypeOK'
  <2>1. follow' \in [up : BOOLEAN, frames : Seq(FrameType)]
    <3>1. [type |-> "event", seq |-> host] \in FrameType
      BY <1>t, TypesAre DEF Commit, FrameType
    <3>2. Append(follow.frames, [type |-> "event", seq |-> host]) \in Seq(FrameType)
      BY <1>2, <3>1
    <3> QED
      BY <1>2, <3>2 DEF Commit
  <2>2. status' \in [up : BOOLEAN, frames : Seq(1..MaxLog), drops : 0..MaxDrops]
    <3>1. host + 1 \in 1..MaxLog /\ status \in [up : BOOLEAN, frames : Seq(1..MaxLog), drops : 0..MaxDrops]
      BY <1>1, <1>t, TypesAre DEF Commit
    <3>2. Append(status.frames, host + 1) \in Seq(1..MaxLog)
      BY <3>1
    <3> QED
      BY <3>1, <3>2 DEF Commit
  <2> QED
    BY <1>1, <1>t, <2>1, <2>2 DEF Commit, FollowTypeOK, FrameType
<1>4. LogRuns'
  BY <1>1, LogIs, <1>t DEF LogInv, LogRuns, Commit
<1>5. Begun'
  BY DEF LogInv, Begun, Commit
<1>6. Caught'
  BY <1>1, <1>t, TypesAre DEF LogInv, Caught, Commit
<1>7. Streams'
  <2>1. CASE ~follow.up
    BY <2>1 DEF LogInv, Streams, Commit
  <2>2. CASE follow.up
    <3> DEFINE s == follow.frames
               e == [type |-> "event", seq |-> host]
    <3>1. /\ s \in Seq(FrameType) /\ Len(s) \in Nat /\ Len(Append(s, e)) = Len(s) + 1
          /\ \A i \in 1..Len(s) : Append(s, e)[i] = s[i]
          /\ Append(s, e)[Len(s) + 1] = e
      BY <1>2
    <3>2. follow'.up /\ follow'.frames = Append(s, e) /\ UNCHANGED <<catch, opening>>
      BY <1>2, <2>2 DEF Commit
    <3>3. Reached' = Reached
      BY <1>1, <3>2 DEF Reached
    <3>4. e.type # "snapshot"
      OBVIOUS
    <3>s. s = follow.frames
      OBVIOUS
    <3>v. e = [type |-> "event", seq |-> host]
      OBVIOUS
    <3> HIDE DEF s, e
    <3>n. host' - Len(Append(s, e)) + (Len(s) + 1) - 1 = host
      BY <1>1, <3>1
    <3>e. e = [type |-> "event", seq |-> host' - Len(Append(s, e)) + (Len(s) + 1) - 1]
      BY <3>n, <3>v
    <3>5. Snapshot' = Snapshot
      BY <3>1, <3>2, <3>4, <3>s DEF Snapshot
    <3>6. CASE Snapshot
      <4>1. /\ catch.stage = "idle" /\ s[1].cursor = host - Len(s) /\ LastSeq <= s[1].cursor
            /\ s[1].records \in Page(s[1].cursor + 1)
            /\ \A i \in 2..Len(s) : s[i] = [type |-> "event", seq |-> host - Len(s) + i - 1]
            /\ Len(s) >= 1
        BY <2>2, <3>1, <3>6, <3>s DEF LogInv, Streams, Carried, Snapshot
      <4>2. Append(s, e)[1] = s[1] /\ host' - Len(Append(s, e)) = host - Len(s)
        <5>1. host \in Nat /\ host' = host + 1
          BY <1>1, <1>t
        <5>2. Append(s, e)[1] = s[1]
          BY <3>1, <4>1
        <5> DEFINE n == Len(Append(s, e))
        <5>3. n = Len(s) + 1
          BY <3>1
        <5> HIDE DEF n
        <5>4. host' - n = host - Len(s)
          BY <3>1, <5>1, <5>3
        <5> QED
          BY <5>2, <5>4 DEF n
      <4>3. Carried(1, host)'
        <5>1. ASSUME NEW i \in 2..(Len(s) + 1)
              PROVE  Append(s, e)[i] = [type |-> "event", seq |-> host' - Len(Append(s, e)) + i - 1]
          <6>1. CASE i = Len(s) + 1
            BY <3>1, <3>e, <6>1
          <6>2. CASE i # Len(s) + 1
            <7>1. i \in 2..Len(s) /\ Append(s, e)[i] = s[i]
              BY <3>1, <6>2
            <7> QED
              BY <4>1, <4>2, <7>1
          <6> QED
            BY <6>1, <6>2
        <5> QED
          BY <3>1, <3>2, <5>1 DEF Carried
      <4>4. \A b : Page(b)' = Page(b)
        BY DEF Page
      <4> QED
        BY <1>1, <3>2, <3>5, <3>6, <4>1, <4>2, <4>3, <4>4 DEF Streams
    <3>7. CASE ~Snapshot
      <4>1. /\ opening.stage # "snapshot" /\ Reached + Len(s) = host - 1
            /\ \A i \in 1..Len(s) : s[i] = [type |-> "event", seq |-> host - Len(s) + i - 1]
        <5>1. opening.stage # "snapshot" /\ Carried(0, host) /\ Reached + Len(s) = host - 1
          BY <2>2, <3>7, <3>s DEF LogInv, Streams
        <5>2. \A i \in 1..Len(s) : s[i] = [type |-> "event", seq |-> host - Len(s) + i - 1]
          BY <5>1, <3>s DEF Carried
        <5> QED
          BY <5>1, <5>2
      <4>2. host' - Len(Append(s, e)) = host - Len(s)
        BY <1>1, <3>1
      <4>3. Carried(0, host)'
        <5>1. \A i \in 1..(Len(s) + 1) :
                Append(s, e)[i] = [type |-> "event", seq |-> host' - Len(Append(s, e)) + i - 1]
          BY <1>1, <3>1, <3>e, <4>1, <4>2
        <5> QED
          BY <3>1, <3>2, <5>1 DEF Carried
      <4>r. Reached \in Int
        BY LogIs, TypesAre, <1>t DEF LogInv, Reached
      <4>4. Reached' + Len(Append(s, e)) = host' - 1
        BY <1>1, <3>1, <3>3, <4>1, <4>r
      <4> QED
        BY <3>2, <3>5, <3>7, <4>1, <4>3, <4>4 DEF Streams
    <3> QED
      BY <3>6, <3>7
  <2> QED
    BY <2>1, <2>2
<1> QED
  BY <1>3, <1>4, <1>5, <1>6, <1>7 DEF LogInv, Commit

OpeningType == [stage : {"snapshot", "paging", "refresh", "ready"}, cursor : -1..(MaxLog - 1), more : BOOLEAN]
CatchType == [stage : {"idle", "paging", "refresh"}, cursor : -1..(MaxLog - 1), missed : Seq(0..(MaxLog - 1)),
              oldest : 0..MaxLog, more : BOOLEAN]
AnswerType == {Unmade, Made} \cup 0..MaxLog

\* Streams that are left alone.
LEMMA StreamsStay ==
  ASSUME Streams, UNCHANGED <<host, follow>>, opening.stage # "snapshot" => opening'.stage # "snapshot",
         Snapshot => catch'.stage = "idle" /\ LastSeq' = LastSeq, ~Snapshot => Reached' = Reached
  PROVE  Streams'
<1>1. Snapshot' = Snapshot /\ \A b : Page(b)' = Page(b)
  BY DEF Snapshot, Page
<1>2. Carried(1, host)' = Carried(1, host) /\ Carried(0, host)' = Carried(0, host)
  BY DEF Carried
<1> QED
  BY <1>1, <1>2 DEF Streams

LEMMA IdleType == Idle \in CatchType /\ Idle.stage = "idle"
                                    /\ [Idle EXCEPT !.stage = "refresh"] \in CatchType
                                    /\ [Idle EXCEPT !.stage = "refresh"].stage = "refresh"
<1>1. MaxLog \in Nat /\ <<>> \in Seq(0..(MaxLog - 1)) /\ -1 \in -1..(MaxLog - 1) /\ 0 \in 0..MaxLog
  BY FollowAssumption
<1> QED
  BY <1>1 DEF Idle, CatchType

\* What waits for session/list has not to do with the log.
LEMMA ResumedLog ==
  ASSUME LogInv, Waiting, NEW c \in Callers, lists[c] # Unmade, Resumed(c),
         shown' \in -1..MaxLog, fails' \in 0..MaxFails, doubt' \in BOOLEAN
  PROVE  LogInv'
<1>t. FollowTypeOK /\ opening \in OpeningType /\ catch \in CatchType /\ lists \in [Callers -> AnswerType]
  BY DEF LogInv, FollowTypeOK, OpeningType, CatchType, AnswerType
<1>1. /\ UNCHANGED <<host, follow, status, log, end, drops>> /\ lists' = [lists EXCEPT ![c] = Unmade]
      /\ c = ForCatchUp => catch' = Idle /\ catch.stage = "refresh"
      /\ c # ForCatchUp => catch' = catch
      /\ c = ForOpen => opening' = [opening EXCEPT !.stage = "ready"] /\ opening.stage = "refresh"
      /\ c # ForOpen => opening' = opening
  BY DEF Resumed, Waiting
<1>2. opening' \in OpeningType /\ opening'.more = opening.more
      /\ (opening'.stage = opening.stage \/ (opening.stage = "refresh" /\ opening'.stage = "ready"))
  <2>1. CASE c = ForOpen
    <3>1. opening' = [opening EXCEPT !.stage = "ready"] /\ opening.stage = "refresh"
      BY <1>1, <2>1
    <3>2. [opening EXCEPT !.stage = "ready"] \in OpeningType /\ [opening EXCEPT !.stage = "ready"].stage = "ready"
          /\ [opening EXCEPT !.stage = "ready"].more = opening.more
      BY <1>t DEF OpeningType
    <3> QED
      BY <3>1, <3>2
  <2>2. CASE c # ForOpen
    BY <1>1, <1>t, <2>2
  <2> QED
    BY <2>1, <2>2
<1>3. catch' \in CatchType /\ (catch' = catch \/ (catch.stage = "refresh" /\ catch'.stage = "idle"))
  BY <1>1, <1>t, IdleType
<1>4. lists' \in [Callers -> AnswerType] /\ LastSeq' = LastSeq
  BY <1>1, <1>t DEF AnswerType, LastSeq
<1>5. FollowTypeOK'
  BY <1>1, <1>2, <1>3, <1>4, <1>t DEF FollowTypeOK, OpeningType, CatchType, AnswerType
<1>6. LogRuns'
  BY <1>1, <1>4 DEF LogInv, LogRuns
<1>7. Begun' /\ Caught'
  BY <1>1, <1>2, <1>3, <1>4 DEF LogInv, Begun, Caught
<1>8. Streams'
  <2>1. Reached' = Reached
    BY <1>3, <1>4 DEF Reached
  <2>2. Snapshot => catch'.stage = "idle"
    BY <1>3 DEF LogInv, Streams, Snapshot
  <2> QED
    BY <1>1, <1>2, <1>4, <2>1, <2>2, StreamsStay DEF LogInv
<1> QED
  BY <1>1, <1>5, <1>6, <1>7, <1>8 DEF LogInv

LEMMA CallsLog ==
  ASSUME LogInv, Waiting, NEW c \in Callers, Read(c) \/ Refreshed(c) \/ RefreshFails(c)
  PROVE  LogInv'
<1>t. /\ FollowTypeOK /\ host \in 0..MaxLog /\ lists \in [Callers -> AnswerType] /\ shown \in -1..MaxLog
      /\ fails \in 0..MaxFails /\ doubt \in BOOLEAN /\ MaxFails \in Nat /\ MaxLog \in Nat
  BY FollowAssumption DEF LogInv, FollowTypeOK, AnswerType
<1>1. CASE Read(c)
  <2>1. lists' \in [Callers -> AnswerType]
    BY <1>1, <1>t DEF Read, AnswerType
  <2>2. FollowTypeOK' /\ end' # "invalid"
    BY <1>1, <1>t, <2>1 DEF Read, FollowTypeOK, AnswerType, LogInv
  <2> QED
    BY <1>1, <2>2, LogStays DEF Read
<1>2. CASE Refreshed(c)
  <2>1. lists[c] # Unmade /\ shown' \in -1..MaxLog
    BY <1>2, <1>t DEF Refreshed, AnswerType, Unmade, Made
  <2>2. doubt' \in BOOLEAN /\ fails' \in 0..MaxFails /\ Resumed(c)
    BY <1>2, <1>t DEF Refreshed
  <2> QED
    BY <2>1, <2>2, ResumedLog
<1>3. CASE RefreshFails(c)
  <2>1. lists[c] # Unmade /\ shown' \in -1..MaxLog /\ doubt' \in BOOLEAN /\ fails' \in 0..MaxFails /\ Resumed(c)
    BY <1>3, <1>t DEF RefreshFails
  <2> QED
    BY <2>1, ResumedLog
<1> QED
  BY <1>1, <1>2, <1>3

LEMMA StatusLog == ASSUME LogInv, DropStatus \/ OpenStatus \/ ReceiveStatus PROVE LogInv'
<1>t. /\ FollowTypeOK /\ lists \in [Callers -> AnswerType] /\ shown \in -1..MaxLog /\ MaxDrops \in Nat /\ MaxLog \in Nat
      /\ status \in [up : BOOLEAN, frames : Seq(1..MaxLog), drops : 0..MaxDrops] /\ drops \in 0..MaxDrops
  BY FollowAssumption DEF LogInv, FollowTypeOK, AnswerType
<1>0. UNCHANGED <<host, follow, log, opening, catch, end, drops, fails, doubt>>
  BY DEF DropStatus, OpenStatus, ReceiveStatus
<1>1. CASE DropStatus
  <2>1. <<>> \in Seq(1..MaxLog) /\ status.drops + 1 \in 0..MaxDrops
    BY <1>1, <1>t DEF DropStatus
  <2>2. status' \in [up : BOOLEAN, frames : Seq(1..MaxLog), drops : 0..MaxDrops] /\ UNCHANGED <<shown, lists>>
    BY <1>1, <2>1 DEF DropStatus
  <2>3. FollowTypeOK'
    BY <1>0, <1>t, <2>2 DEF FollowTypeOK
  <2> QED
    BY <1>0, <2>3, LogStays DEF LogInv
<1>2. CASE OpenStatus
  <2>1. status' \in [up : BOOLEAN, frames : Seq(1..MaxLog), drops : 0..MaxDrops] /\ UNCHANGED shown
    BY <1>2, <1>t DEF OpenStatus
  <2>2. lists' \in [Callers -> AnswerType]
    BY <1>2, <1>t DEF OpenStatus, AnswerType
  <2>3. FollowTypeOK'
    BY <1>0, <1>t, <2>1, <2>2 DEF FollowTypeOK, AnswerType
  <2> QED
    BY <1>0, <2>3, LogStays DEF LogInv
<1>3. CASE ReceiveStatus
  <2>1. Head(status.frames) \in 1..MaxLog /\ Tail(status.frames) \in Seq(1..MaxLog)
    BY <1>3, <1>t DEF ReceiveStatus
  <2>2. status' \in [up : BOOLEAN, frames : Seq(1..MaxLog), drops : 0..MaxDrops] /\ UNCHANGED lists
    BY <1>3, <1>t, <2>1 DEF ReceiveStatus
  <2>4. shown' \in -1..MaxLog
    <3>1. shown' = Head(status.frames)
      BY <1>3 DEF ReceiveStatus
    <3> QED
      BY <1>t, <2>1, <3>1
  <2>3. FollowTypeOK'
    BY <1>0, <1>t, <2>2, <2>4 DEF FollowTypeOK
  <2> QED
    BY <1>0, <2>3, LogStays DEF LogInv
<1> QED
  BY <1>1, <1>2, <1>3

\* Broken streams carry nothing.
LEMMA BrokenLog ==
  ASSUME LogInv, UNCHANGED <<host, status, log, opening, shown, lists, doubt>>, follow' = Broken,
         catch' \in {catch, Idle}, end' # "invalid", end' \in {"none", "unreachable"},
         drops' \in 0..MaxDrops, fails' \in 0..MaxFails
  PROVE  LogInv'
<1>t. FollowTypeOK
  BY DEF LogInv
<1>1. follow' \in [up : BOOLEAN, frames : Seq(FrameType)] /\ ~follow'.up /\ follow'.frames = <<>>
  <2>1. <<>> \in Seq(FrameType)
    OBVIOUS
  <2> QED
    BY <2>1 DEF Broken
<1>2. catch' \in CatchType /\ (catch' = catch \/ catch'.stage = "idle")
  BY <1>t, IdleType DEF FollowTypeOK, CatchType
<1>3. FollowTypeOK'
  BY <1>t, <1>1, <1>2 DEF FollowTypeOK, FrameType, CatchType
<1>4. LogRuns' /\ Begun' /\ Caught'
  BY <1>2 DEF LogInv, LogRuns, Begun, Caught, LastSeq
<1>5. Streams'
  BY <1>1 DEF Streams
<1> QED
  BY <1>3, <1>4, <1>5 DEF LogInv

LEMMA DropLog == ASSUME LogInv, DropFollow \/ CatchFails PROVE LogInv'
<1>t. /\ FollowTypeOK /\ MaxDrops \in Nat /\ MaxFails \in Nat /\ drops \in 0..MaxDrops /\ fails \in 0..MaxFails
      /\ status.drops \in 0..MaxDrops /\ end \in {"none", "unreachable"}
  BY FollowAssumption DEF LogInv, FollowTypeOK
<1>1. CASE DropFollow
  <2>1. drops' \in 0..MaxDrops /\ fails' \in 0..MaxFails
    BY <1>1, <1>t DEF DropFollow
  <2>2. end' \in {"none", "unreachable"} /\ end' # "invalid"
    BY <1>1, <1>t DEF DropFollow
  <2> QED
    BY <1>1, <2>1, <2>2, BrokenLog DEF DropFollow
<1>2. CASE CatchFails
  <2>1. drops' \in 0..MaxDrops /\ fails' \in 0..MaxFails
    BY <1>2, <1>t DEF CatchFails
  <2> QED
    BY <1>2, <1>t, <2>1, BrokenLog DEF CatchFails
<1> QED
  BY <1>1, <1>2

LEMMA OpenFollowLog == ASSUME LogInv, OpenFollow PROVE LogInv'
<1>t. FollowTypeOK /\ host \in Nat /\ host <= MaxLog /\ MaxLog \in Nat
  BY TypesAre DEF LogInv
<1> DEFINE f(records) == [type |-> "snapshot", cursor |-> host - 1, records |-> records]
<1>1. PICK records \in Page(host) : follow' = [up |-> TRUE, frames |-> <<f(records)>>]
  BY DEF OpenFollow
<1>2. UNCHANGED <<host, status, log, opening, catch, shown, lists, end, drops, fails, doubt>> /\ catch.stage = "idle"
  BY DEF OpenFollow
<1>3. f(records) \in FrameType /\ f(records).cursor = host - 1 /\ f(records).records = records
      /\ f(records).type = "snapshot"
  <2>1. records \in Seq(0..(host - 1))
    BY <1>t, Pages
  <2>2. \A i \in 1..Len(records) : records[i] \in 0..(MaxLog - 1)
    BY <1>t, <2>1
  <2>3. records \in Seq(0..(MaxLog - 1)) /\ host - 1 \in -1..(MaxLog - 1)
    BY <1>t, <2>1, <2>2, Widen
  <2> QED
    BY <2>3 DEF FrameType, Snapshots
<1> DEFINE e == f(records)
<1>4. e \in FrameType /\ e.cursor = host - 1 /\ e.records \in Page(host) /\ e.type = "snapshot"
      /\ follow' = [up |-> TRUE, frames |-> <<e>>]
  BY <1>1, <1>3
<1> HIDE DEF e, f
<1>5. <<e>> \in Seq(FrameType) /\ Len(<<e>>) = 1 /\ <<e>>[1] = e /\ <<e>> # <<>>
  BY <1>4
<1>6. follow' \in [up : BOOLEAN, frames : Seq(FrameType)] /\ follow'.up /\ follow'.frames = <<e>>
  BY <1>4, <1>5
<1>7. FollowTypeOK'
  BY <1>2, <1>6, <1>t DEF FollowTypeOK, FrameType
<1>8. LogRuns' /\ Begun' /\ Caught'
  BY <1>2 DEF LogInv, LogRuns, Begun, Caught, LastSeq
<1>9. Streams'
  <2>1. Carried(1, host)'
    BY <1>5, <1>6 DEF Carried
  <2>2. LastSeq' \in Int /\ LastSeq' < host /\ Snapshot'
    BY <1>t, <1>2, <1>4, <1>5, <1>6, LogIs DEF LogInv, LastSeq, Snapshot
  <2>3. host - 1 = host' - Len(<<e>>) /\ LastSeq' <= host - 1 /\ host - 1 + 1 = host
    BY <1>t, <1>2, <1>5, <2>2
  <2>4. Page(host)' = Page(host)
    BY <1>2 DEF Page
  <2> QED
    BY <1>2, <1>4, <1>5, <1>6, <2>1, <2>2, <2>3, <2>4 DEF Streams
<1> QED
  BY <1>2, <1>7, <1>8, <1>9 DEF LogInv

\* open() pages back from the first event of the log.
LEMMA OpenPageLog ==
  ASSUME LogInv, OpenPage
  PROVE  LogInv' /\ UNCHANGED <<host, status, catch, shown, lists, doubt>> /\ opening'.stage = opening.stage
         /\ LastSeq' = LastSeq
<1>t. /\ FollowTypeOK /\ host \in Nat /\ host <= MaxLog /\ opening \in OpeningType /\ opening.stage = "paging" /\ opening.more
      /\ UNCHANGED <<host, follow, status, drops, fails, doubt>>
  BY TypesAre DEF LogInv, OpenPage, OpeningType
<1>1. /\ log # <<>> /\ log[1] \in Nat /\ log[1] > 0 /\ log[1] <= LastSeq /\ LastSeq < host
      /\ log = Seqs(log[1], LastSeq) /\ LastSeq \in Int /\ log \in Seq(0..(MaxLog - 1)) /\ Head(log) = log[1]
  BY <1>t, LogIs DEF LogInv, Begun
<1>2. PICK records \in Page(log[1]) :
        /\ Valid(records, More(records), log[1])
        /\ log' = records \o log /\ opening' = [opening EXCEPT !.more = More(records)]
        /\ UNCHANGED <<catch, shown, lists, end>>
  <2>1. \A records \in Page(log[1]) : Valid(records, More(records), log[1])
    BY <1>1, Pages
  <2> QED
    BY <1>1, <2>1 DEF OpenPage
<1>3. /\ records # <<>> /\ records[1] \in 0..(log[1] - 1) /\ records = Seqs(records[1], log[1] - 1)
      /\ More(records) <=> records[1] > 0
  BY <1>1, Pages
<1> DEFINE lo == records[1]
           mid == log[1] - 1
<1>4. log' = Seqs(lo, LastSeq)
  <2>1. records = Seqs(lo, mid) /\ log = Seqs(mid + 1, LastSeq) /\ lo \in Int /\ mid \in Int
        /\ lo <= mid + 1 /\ mid <= LastSeq
    BY <1>1, <1>3
  <2>2. log' = records \o log
    BY <1>2
  <2> HIDE DEF lo, mid
  <2> QED
    BY <1>1, <2>1, <2>2, SeqsJoin
<1>5. LogRuns' /\ LastSeq' = LastSeq /\ log' # <<>> /\ log'[1] = lo /\ log' \in Seq(0..(MaxLog - 1))
  <2>1. lo \in Nat /\ lo <= LastSeq /\ LastSeq < host' /\ host' \in 0..MaxLog
    BY <1>1, <1>3, <1>t
  <2> HIDE DEF lo
  <2> QED
    BY <1>1, <1>4, <2>1, NewLog
<1>6. opening' \in OpeningType /\ opening'.stage = "paging" /\ (opening'.more <=> lo > 0)
  <2>1. More(records) \in BOOLEAN /\ (More(records) <=> lo > 0)
    BY <1>3 DEF More
  <2> QED
    BY <1>2, <1>t, <2>1 DEF OpeningType
<1>7. FollowTypeOK'
  BY <1>2, <1>5, <1>6, <1>t DEF FollowTypeOK, OpeningType
<1>8. Begun' /\ Caught'
  BY <1>2, <1>5, <1>6, <1>t DEF LogInv, Begun, Caught
<1>9. Streams'
  <2>1. Reached' = Reached /\ (Snapshot /\ follow.up => catch'.stage = "idle")
    BY <1>2, <1>5 DEF Reached, LogInv, Streams
  <2>2. Snapshot => catch'.stage = "idle"
    BY <2>1 DEF LogInv, Streams, Snapshot
  <2> QED
    BY <1>5, <1>6, <1>t, <2>1, <2>2, StreamsStay DEF LogInv
<1> QED
  BY <1>2, <1>5, <1>6, <1>7, <1>8, <1>9, <1>t DEF LogInv

LEMMA OpenedLog == ASSUME LogInv, OpenFails \/ Opened PROVE LogInv'
<1>t. /\ FollowTypeOK /\ opening \in OpeningType /\ lists \in [Callers -> AnswerType] /\ end \in {"none", "unreachable"}
      /\ fails \in 0..MaxFails /\ MaxFails \in Nat
  BY FollowAssumption DEF LogInv, FollowTypeOK, OpeningType, AnswerType
<1>1. CASE OpenFails
  <2>1. fails' \in 0..MaxFails /\ end' = "unreachable"
    BY <1>1, <1>t DEF OpenFails
  <2>2. FollowTypeOK'
    BY <1>1, <1>t, <2>1 DEF OpenFails, FollowTypeOK
  <2> QED
    BY <1>1, <2>1, <2>2, LogStays DEF OpenFails
<1>2. CASE Opened
  <2>1. /\ UNCHANGED <<host, follow, status, log, catch, shown, end, drops, fails, doubt>>
        /\ opening.stage = "paging" /\ ~opening.more
    BY <1>2 DEF Opened
  <2>2. opening' \in OpeningType /\ opening'.stage \in {"refresh", "ready"} /\ ~opening'.more
    <3>1. PICK x \in {"refresh", "ready"} : opening' = [opening EXCEPT !.stage = x]
      BY <1>2 DEF Opened
    <3> QED
      BY <1>t, <2>1, <3>1 DEF OpeningType
  <2>3. lists' \in [Callers -> AnswerType]
    BY <1>2, <1>t DEF Opened, AnswerType
  <2>4. FollowTypeOK'
    BY <1>t, <2>1, <2>2, <2>3 DEF FollowTypeOK, OpeningType, AnswerType
  <2>5. LogRuns' /\ LastSeq' = LastSeq
    BY <2>1 DEF LogInv, LogRuns, LastSeq
  <2>6. Begun' /\ Caught'
    BY <2>1, <2>2, <2>5 DEF LogInv, Begun, Caught
  <2>7. Streams'
    <3>1. Reached' = Reached
      BY <2>1, <2>5 DEF Reached
    <3>2. Snapshot => catch'.stage = "idle"
      BY <2>1 DEF LogInv, Streams, Snapshot
    <3> QED
      BY <2>1, <2>2, <2>5, <3>1, <3>2, StreamsStay DEF LogInv
  <2> QED
    BY <2>1, <2>4, <2>5, <2>6, <2>7 DEF LogInv
<1> QED
  BY <1>1, <1>2

\* The first frame of a stream that is open.
LEMMA HeadFrame ==
  ASSUME LogInv, catch.stage = "idle", follow.frames # <<>>
  PROVE  /\ follow.up /\ Head(follow.frames) = follow.frames[1] /\ Len(follow.frames) \in Nat \ {0}
         /\ Reached = LastSeq /\ LastSeq \in Int /\ -1 <= LastSeq /\ LastSeq < host
         /\ Snapshot => /\ follow.frames[1].type = "snapshot" /\ follow.frames[1].cursor \in Int
                        /\ LastSeq <= follow.frames[1].cursor /\ follow.frames[1].cursor < host
                        /\ follow.frames[1].records \in Page(follow.frames[1].cursor + 1)
         /\ ~Snapshot => /\ follow.frames[1].type = "event" /\ follow.frames[1].seq = LastSeq + 1
                         /\ LastSeq + 1 < host /\ opening.stage # "snapshot"
<1>t. FollowTypeOK /\ host \in Nat /\ follow \in [up : BOOLEAN, frames : Seq(FrameType)]
  BY TypesAre DEF LogInv
<1>1. follow.up /\ Reached = LastSeq
  BY DEF LogInv, Streams, Reached
<1>2. LastSeq \in Int /\ -1 <= LastSeq /\ LastSeq < host
  BY <1>t, LogIs DEF LogInv
<1>3. follow.frames \in Seq(FrameType) /\ Len(follow.frames) \in Nat \ {0} /\ Head(follow.frames) = follow.frames[1]
  BY <1>t
<1>4. CASE Snapshot
  <2>1. /\ follow.frames[1].cursor = host - Len(follow.frames) /\ LastSeq <= follow.frames[1].cursor
        /\ follow.frames[1].records \in Page(follow.frames[1].cursor + 1) /\ follow.frames[1].type = "snapshot"
    BY <1>1, <1>4 DEF LogInv, Streams, Snapshot
  <2> QED
    BY <1>1, <1>2, <1>3, <1>4, <1>t, <2>1
<1>5. CASE ~Snapshot
  <2>1. opening.stage # "snapshot" /\ Reached + Len(follow.frames) = host - 1 /\ Carried(0, host)
    BY <1>1, <1>5 DEF LogInv, Streams
  <2>2. follow.frames[1] = [type |-> "event", seq |-> host - Len(follow.frames)]
    <3>1. 1 \in (0 + 1)..Len(follow.frames) /\ host - Len(follow.frames) + 1 - 1 = host - Len(follow.frames)
      BY <1>3, <1>t
    <3> QED
      BY <2>1, <3>1 DEF Carried
  <2>3. follow.frames[1].type = "event" /\ follow.frames[1].seq = host - Len(follow.frames)
    BY <2>2, EventsAre, Zenon
  <2>4. host - Len(follow.frames) = LastSeq + 1 /\ LastSeq + 1 < host
    BY <1>1, <1>2, <1>3, <1>t, <2>1
  <2> QED
    BY <1>1, <1>2, <1>3, <1>5, <2>1, <2>3, <2>4
<1> QED
  BY <1>4, <1>5

\* The first snapshot is the log.
LEMMA AttachLog ==
  ASSUME LogInv, Receive, Snapshot, opening.stage = "snapshot"
  PROVE  /\ LogInv' /\ UNCHANGED <<host, status, catch, shown, lists, end, drops, fails, doubt>>
         /\ opening'.stage = "paging" /\ LastSeq' < host
<1>t. /\ FollowTypeOK /\ host \in Nat /\ host <= MaxLog /\ MaxLog \in Nat /\ opening \in OpeningType
      /\ follow \in [up : BOOLEAN, frames : Seq(FrameType)]
  BY TypesAre DEF LogInv, OpeningType
<1>0. catch.stage = "idle" /\ follow.frames # <<>> /\ end = "none"
  BY DEF Receive
<1> DEFINE frame == Head(follow.frames)
           cursor == frame.cursor
           records == frame.records
<1>1. /\ frame = follow.frames[1] /\ cursor \in Int /\ -1 <= cursor /\ cursor < host /\ frame.type = "snapshot"
      /\ records \in Page(cursor + 1) /\ LastSeq \in Int /\ Reached = LastSeq
  BY <1>0, HeadFrame
<1>2. /\ cursor = -1 => records = <<>>
      /\ cursor > -1 => records # <<>> /\ records[1] \in 0..cursor /\ records = Seqs(records[1], cursor)
      /\ Valid(records, More(records), cursor + 1)
      /\ More(records) <=> records # <<>> /\ records[1] > 0
  <2> HIDE DEF cursor, records
  <2>1. cursor + 1 \in Nat /\ (cursor = -1 <=> cursor + 1 = 0) /\ (cursor > -1 <=> cursor + 1 > 0) /\ (cursor + 1) - 1 = cursor
    BY <1>1
  <2> DEFINE b == cursor + 1
  <2>2. b \in Nat /\ records \in Page(b)
    BY <1>1, <2>1
  <2> HIDE DEF b
  <2>3. /\ b = 0 => records = <<>>
        /\ b > 0 => records # <<>> /\ records[1] \in 0..(b - 1) /\ records = Seqs(records[1], b - 1)
        /\ Valid(records, More(records), b)
        /\ More(records) <=> records # <<>> /\ records[1] > 0
    BY <2>2, Pages
  <2> QED
    BY <2>1, <2>3 DEF b
<1>3. /\ log' = records /\ opening' = [stage |-> "paging", cursor |-> cursor, more |-> More(records)]
      /\ UNCHANGED <<catch, shown, lists, end>>
  BY <1>1, <1>2 DEF Receive, FirstAttach
<1>4. UNCHANGED <<host, status, drops, fails, doubt>> /\ follow' = [follow EXCEPT !.frames = Tail(@)]
  BY DEF Receive
<1>c. follow.frames[1].cursor = cursor
  BY <1>1
<1> HIDE DEF cursor, records, frame
<1>5. LogRuns' /\ LastSeq' = cursor /\ log' \in Seq(0..(MaxLog - 1)) /\ (More(records) <=> log' # <<>> /\ log'[1] > 0)
  <2>1. CASE cursor = -1
    <3>1. log' = <<>>
      BY <1>2, <1>3, <2>1
    <3>2. LogRuns' /\ LastSeq' = -1
      BY <3>1 DEF LogRuns, LastSeq
    <3> QED
      BY <1>2, <1>3, <2>1, <3>1, <3>2
  <2>2. CASE cursor > -1
    <3>1. records[1] \in Nat /\ records[1] <= cursor /\ cursor < host' /\ host' \in 0..MaxLog
          /\ log' = Seqs(records[1], cursor) /\ records # <<>>
      BY <1>1, <1>2, <1>3, <1>4, <1>t, <2>2
    <3>2. LogRuns' /\ LastSeq' = cursor /\ log' # <<>> /\ log'[1] = records[1] /\ log' \in Seq(0..(MaxLog - 1))
      BY <1>1, <3>1, NewLog
    <3> QED
      BY <1>2, <3>1, <3>2
  <2> QED
    BY <1>1, <2>1, <2>2
<1>6. opening' \in OpeningType /\ opening'.stage = "paging" /\ opening'.more = More(records)
  <2>1. More(records) \in BOOLEAN /\ cursor \in -1..(MaxLog - 1)
    BY <1>1, <1>t DEF More
  <2> QED
    BY <1>3, <2>1 DEF OpeningType
<1>7. Streams' /\ follow' \in [up : BOOLEAN, frames : Seq(FrameType)]
  <2>1. Reached' = cursor
    BY <1>0, <1>3, <1>5 DEF Reached
  <2> QED
    BY <1>0, <1>1, <1>4, <1>6, <1>c, <1>t, <2>1, TailStreams DEF LogInv
<1>8. FollowTypeOK'
  BY <1>3, <1>4, <1>5, <1>6, <1>7, <1>t DEF FollowTypeOK, FrameType, OpeningType
<1>9. Begun' /\ Caught'
  BY <1>0, <1>3, <1>5, <1>6 DEF Begun, Caught
<1> QED
  BY <1>0, <1>1, <1>3, <1>4, <1>5, <1>6, <1>7, <1>8, <1>9 DEF LogInv

\* What catchUp() does to what is shown: it pages on, or it has appended and asks for the list.
PagesOn == opening.stage # "snapshot" /\ catch.stage # "refresh" /\ catch'.stage = "paging" /\ UNCHANGED <<log, shown, lists>>
Appended ==
  /\ opening.stage # "snapshot" /\ catch.stage # "refresh" /\ catch'.stage = "refresh" /\ lists' = [lists EXCEPT ![ForCatchUp] = Made]
  /\ LastSeq' \in Int /\ LastSeq <= LastSeq' /\ LastSeq' < host
  /\ LastSeq' = LastSeq => UNCHANGED shown
  /\ LastSeq' # LastSeq => shown' = LastSeq' + 1

\* catchUp() with a run of seqs: the stream goes on where it ends.
LEMMA CatchUpLog ==
  ASSUME LogInv, UNCHANGED <<host, status, opening, drops, fails, doubt>>, end = "none", catch.stage # "refresh",
         opening.stage # "snapshot", NEW lo \in Nat, NEW cursor \in Int, NEW more \in BOOLEAN,
         LastSeq <= cursor, cursor < host, lo <= cursor \/ lo = 0, more <=> lo > 0,
         NEW from \in Int, from = IF lo <= LastSeq + 1 THEN LastSeq + 1 ELSE lo,
         CatchUp(Seqs(from, cursor), lo, more, cursor),
         Reached' = cursor => Streams' /\ follow' \in [up : BOOLEAN, frames : Seq(FrameType)]
  PROVE  LogInv' /\ UNCHANGED end /\ (PagesOn \/ Appended)
<1>t. /\ FollowTypeOK /\ host \in Nat /\ host <= MaxLog /\ MaxLog \in Nat /\ catch \in CatchType /\ LastSeq \in Int /\ -1 <= LastSeq
      /\ lists \in [Callers -> AnswerType] /\ shown \in -1..MaxLog
  BY TypesAre, LogIs DEF LogInv, CatchType, AnswerType
<1>1. CASE /\ LastSeq + 1 < lo /\ lo <= cursor /\ more
           /\ catch' = [stage |-> "paging", cursor |-> cursor, missed |-> Seqs(lo, cursor), oldest |-> lo, more |-> more]
           /\ UNCHANGED <<log, shown, lists, end>>
  <2>1. Seqs(lo, cursor) \in Seq(0..(MaxLog - 1))
    <3>1. lo <= cursor /\ cursor < MaxLog
      BY <1>1, <1>t
    <3> QED
      BY <3>1, RunIs
  <2>2. catch' \in CatchType /\ catch'.stage = "paging" /\ catch'.cursor = cursor /\ catch'.oldest = lo
        /\ catch'.missed = Seqs(lo, cursor) /\ catch'.more = more
    <3> DEFINE m == Seqs(lo, cursor)
    <3>0. m \in Seq(0..(MaxLog - 1)) /\ m = Seqs(lo, cursor)
      BY <2>1
    <3> HIDE DEF m
    <3>1. cursor \in -1..(MaxLog - 1) /\ lo \in 0..MaxLog
      BY <1>1, <1>t
    <3>2. catch' = [stage |-> "paging", cursor |-> cursor, missed |-> m, oldest |-> lo, more |-> more]
      BY <1>1, <3>0
    <3> QED
      BY <3>0, <3>1, <3>2 DEF CatchType
  <2>3. LastSeq' = LastSeq /\ LogRuns'
    BY <1>1 DEF LastSeq, LogInv, LogRuns
  <2>4. Streams' /\ follow' \in [up : BOOLEAN, frames : Seq(FrameType)]
    BY <2>2 DEF Reached
  <2>5. FollowTypeOK'
    BY <1>1, <1>t, <2>2, <2>4 DEF FollowTypeOK, CatchType, FrameType
  <2>6. Begun' /\ Caught'
    BY <1>1, <1>t, <2>2, <2>3 DEF LogInv, Begun, Caught
  <2>7. PagesOn
    BY <1>1, <2>2 DEF PagesOn
  <2> QED
    BY <1>1, <2>3, <2>4, <2>5, <2>6, <2>7 DEF LogInv
<1>2. CASE /\ LogRuns' /\ LastSeq' = cursor /\ log' \in Seq(0..(MaxLog - 1)) /\ UNCHANGED end
           /\ log' # <<>> /\ log'[1] > 0 <=> log # <<>> /\ log[1] > 0
           /\ shown' = IF cursor = LastSeq THEN shown ELSE cursor + 1
           /\ catch' = [Idle EXCEPT !.stage = "refresh"] /\ lists' = [lists EXCEPT ![ForCatchUp] = Made]
  <2>1. catch' \in CatchType /\ catch'.stage = "refresh"
    BY <1>2, IdleType
  <2>2. (cursor = LastSeq => shown' = shown) /\ (cursor # LastSeq => shown' = cursor + 1)
    BY <1>2
  <2>3. shown' \in -1..MaxLog
    BY <1>t, <2>2
  <2>4. lists' \in [Callers -> AnswerType]
    BY <1>2, <1>t DEF AnswerType
  <2>5. Streams' /\ follow' \in [up : BOOLEAN, frames : Seq(FrameType)]
    BY <1>2, <2>1 DEF Reached
  <2>6. FollowTypeOK'
    <3>1. log' \in Seq(0..(MaxLog - 1)) /\ UNCHANGED <<host, status, opening, drops, fails, doubt, end>>
      BY <1>2
    <3> QED
      BY <1>t, <2>1, <2>3, <2>4, <2>5, <3>1 DEF FollowTypeOK, CatchType, FrameType, AnswerType
  <2>7. Begun' /\ Caught'
    <3>1. log' # <<>> /\ log'[1] > 0 <=> log # <<>> /\ log[1] > 0
      BY <1>2
    <3> QED
      BY <2>1, <3>1 DEF LogInv, Begun, Caught
  <2>8. Appended
    <3>1. lists' = [lists EXCEPT ![ForCatchUp] = Made] /\ LastSeq' = cursor
      BY <1>2
    <3> QED
      BY <2>1, <2>2, <3>1 DEF Appended
  <2>9. LogRuns' /\ UNCHANGED end
    BY <1>2
  <2> QED
    BY <2>5, <2>6, <2>7, <2>8, <2>9 DEF LogInv
<1>3. \/ /\ LastSeq + 1 < lo /\ lo <= cursor /\ more
         /\ catch' = [stage |-> "paging", cursor |-> cursor, missed |-> Seqs(lo, cursor), oldest |-> lo, more |-> more]
         /\ UNCHANGED <<log, shown, lists, end>>
      \/ /\ LogRuns' /\ LastSeq' = cursor /\ log' \in Seq(0..(MaxLog - 1)) /\ UNCHANGED end
         /\ log' # <<>> /\ log'[1] > 0 <=> log # <<>> /\ log[1] > 0
         /\ shown' = IF cursor = LastSeq THEN shown ELSE cursor + 1
         /\ catch' = [Idle EXCEPT !.stage = "refresh"] /\ lists' = [lists EXCEPT ![ForCatchUp] = Made]
  BY <1>t, CaughtUp DEF LogInv
<1> QED
  BY <1>1, <1>2, <1>3

LEMMA ReattachLog ==
  ASSUME LogInv, Receive, Snapshot, opening.stage # "snapshot"
  PROVE  LogInv' /\ UNCHANGED <<host, status, opening, end, drops, fails, doubt>> /\ (PagesOn \/ Appended)
<1>t. /\ FollowTypeOK /\ host \in Nat /\ follow \in [up : BOOLEAN, frames : Seq(FrameType)]
  BY TypesAre DEF LogInv
<1>0. /\ catch.stage = "idle" /\ follow.frames # <<>> /\ end = "none"
      /\ UNCHANGED <<host, status, drops, fails, doubt>> /\ follow' = [follow EXCEPT !.frames = Tail(@)]
  BY DEF Receive
<1> DEFINE frame == Head(follow.frames)
           cursor == frame.cursor
           records == frame.records
           lo == IF records = <<>> THEN 0 ELSE records[1]
           from == IF lo <= LastSeq + 1 THEN LastSeq + 1 ELSE lo
           more == More(records)
<1>1. /\ frame = follow.frames[1] /\ cursor \in Int /\ -1 <= LastSeq /\ LastSeq <= cursor /\ cursor < host
      /\ frame.type = "snapshot" /\ records \in Page(cursor + 1) /\ LastSeq \in Int /\ Reached = LastSeq
  BY <1>0, HeadFrame
<1>p. /\ cursor = -1 => records = <<>>
      /\ cursor > -1 => records # <<>> /\ records[1] \in 0..cursor /\ Head(records) = records[1] /\ records = Seqs(records[1], cursor)
      /\ Valid(records, More(records), cursor + 1)
      /\ More(records) <=> records # <<>> /\ records[1] > 0
  <2> HIDE DEF cursor, records
  <2>1. cursor + 1 \in Nat /\ (cursor = -1 <=> cursor + 1 = 0) /\ (cursor > -1 <=> cursor + 1 > 0) /\ (cursor + 1) - 1 = cursor
    BY <1>1
  <2> DEFINE b == cursor + 1
  <2>2. b \in Nat /\ records \in Page(b)
    BY <1>1, <2>1
  <2> HIDE DEF b
  <2>3. /\ b = 0 => records = <<>>
        /\ b > 0 => records # <<>> /\ records[1] \in 0..(b - 1) /\ Head(records) = records[1] /\ records = Seqs(records[1], b - 1)
        /\ Valid(records, More(records), b)
        /\ More(records) <=> records # <<>> /\ records[1] > 0
    BY <2>2, Pages
  <2> QED
    BY <2>1, <2>3 DEF b
<1>2. /\ CatchUp(Newer(records), lo, more, cursor) /\ UNCHANGED opening
  <2>1. Reattach(frame)
    BY <1>1 DEF Receive
  <2>2. ~(cursor < LastSeq)
    BY <1>1
  <2>3. lo = IF records = <<>> THEN 0 ELSE Head(records)
    BY <1>1, <1>p
  <2>4. CatchUp(Newer(records), IF records = <<>> THEN 0 ELSE Head(records), More(records), cursor) /\ UNCHANGED opening
    BY <1>p, <2>1, <2>2 DEF Reattach
  <2> QED
    BY <2>3, <2>4
<1>c. follow.frames[1].cursor = cursor
  BY <1>1
<1> HIDE DEF cursor, records, frame
<1>3. lo \in Nat /\ (lo <= cursor \/ lo = 0) /\ records = Seqs(lo, cursor) /\ lo <= cursor + 1
  <2>1. CASE cursor = -1
    <3>1. records = <<>> /\ lo = 0 /\ Seqs(0, -1) = <<>>
      BY <1>p, <2>1, SeqsAre
    <3> QED
      BY <2>1, <3>1
  <2>2. CASE cursor > -1
    <3>1. records # <<>> /\ records[1] \in 0..cursor /\ records = Seqs(records[1], cursor) /\ lo = records[1]
      BY <1>p, <2>2
    <3> QED
      BY <1>1, <3>1
  <2> QED
    BY <1>1, <2>1, <2>2
<1>4. more \in BOOLEAN /\ (more <=> lo > 0)
  BY <1>p, <1>3 DEF More
<1> HIDE DEF lo, more
<1>5. Newer(records) = Seqs(from, cursor) /\ from \in Int
  <2> DEFINE m == LastSeq + 1
  <2>1. m \in Int /\ m <= cursor + 1 /\ lo \in Int
    BY <1>1, <1>3
  <2> HIDE DEF m
  <2>2. /\ lo <= m => From(Seqs(lo, cursor), m) = Seqs(m, cursor)
        /\ m <= lo => From(Seqs(lo, cursor), m) = Seqs(lo, cursor)
    BY <1>1, <1>3, <2>1, SeqsFrom
  <2>3. Newer(records) = From(Seqs(lo, cursor), m)
    BY <1>3 DEF Newer, m
  <2>4. CASE lo <= m
    BY <1>1, <2>1, <2>2, <2>3, <2>4 DEF m
  <2>5. CASE ~(lo <= m)
    BY <1>1, <1>3, <2>1, <2>2, <2>3, <2>5 DEF m
  <2> QED
    BY <2>4, <2>5
<1>6. Reached' = cursor => Streams' /\ follow' \in [up : BOOLEAN, frames : Seq(FrameType)]
  BY <1>0, <1>1, <1>2, <1>c, <1>t, TailStreams DEF LogInv
<1>7. CatchUp(Seqs(from, cursor), lo, more, cursor)
  BY <1>2, <1>5
<1>8. from = IF lo <= LastSeq + 1 THEN LastSeq + 1 ELSE lo
  OBVIOUS
<1> HIDE DEF from
<1> QED
  BY <1>0, <1>1, <1>2, <1>3, <1>4, <1>5, <1>6, <1>7, <1>8, CatchUpLog

\* A live event, which is the next one.
LEMMA EventLog ==
  ASSUME LogInv, Receive, ~Snapshot
  PROVE  LogInv' /\ UNCHANGED <<host, status, opening, catch, lists, end, drops, fails, doubt>>
         /\ LastSeq' = LastSeq + 1 /\ shown' = LastSeq + 2 /\ LastSeq + 1 < host /\ opening.stage # "snapshot"
<1>t. /\ FollowTypeOK /\ host \in Nat /\ follow \in [up : BOOLEAN, frames : Seq(FrameType)] /\ host <= MaxLog
  BY TypesAre DEF LogInv
<1>0. /\ catch.stage = "idle" /\ follow.frames # <<>> /\ end = "none"
      /\ UNCHANGED <<host, status, drops, fails, doubt>> /\ follow' = [follow EXCEPT !.frames = Tail(@)]
  BY DEF Receive
<1>1. /\ Head(follow.frames) = follow.frames[1] /\ follow.frames[1].type = "event" /\ follow.frames[1].seq = LastSeq + 1
      /\ LastSeq + 1 < host /\ LastSeq \in Int /\ -1 <= LastSeq /\ Reached = LastSeq /\ opening.stage # "snapshot"
  BY <1>0, HeadFrame
<1>2. AppendAll(<<LastSeq + 1>>) /\ UNCHANGED <<opening, catch, lists>>
  <2>1. LastSeq + 1 > LastSeq
    BY <1>1
  <2> QED
    BY <1>1, <2>1 DEF Receive
<1>3. <<LastSeq + 1>> = Seqs(LastSeq + 1, LastSeq + 1)
  <2> DEFINE m == LastSeq + 1
  <2>1. m \in Int /\ m <= m + 1
    BY <1>1
  <2> HIDE DEF m
  <2>2. <<m>> \in Seq(Int) /\ Len(<<m>>) = m - m + 1 /\ \A i \in 1..Len(<<m>>) : <<m>>[i] = m + i - 1
    BY <2>1
  <2>3. <<m>> = Seqs(m, m)
    BY <2>1, <2>2, SeqsIs
  <2> QED
    BY <2>3 DEF m
<1>4. /\ LogRuns' /\ LastSeq' = LastSeq + 1 /\ log' \in Seq(0..(MaxLog - 1)) /\ UNCHANGED end
      /\ log' # <<>> /\ log'[1] > 0 <=> log # <<>> /\ log[1] > 0
      /\ shown' = LastSeq + 2
  <2> DEFINE to == LastSeq + 1
  <2>1. to \in Int /\ LastSeq <= to /\ to < host /\ AppendAll(Seqs(LastSeq + 1, to)) /\ UNCHANGED host /\ to # LastSeq
        /\ to + 1 = LastSeq + 2
    BY <1>0, <1>1, <1>2, <1>3
  <2> HIDE DEF to
  <2>2. /\ LogRuns' /\ LastSeq' = to /\ log' \in Seq(0..(MaxLog - 1)) /\ UNCHANGED end
        /\ log' # <<>> /\ log'[1] > 0 <=> log # <<>> /\ log[1] > 0
        /\ shown' = IF to = LastSeq THEN shown ELSE to + 1
    BY <1>t, <2>1, AppendNext DEF LogInv
  <2>3. shown' = to + 1
    BY <2>1, <2>2
  <2> QED
    BY <2>1, <2>2, <2>3 DEF to
<1>5. Streams' /\ follow' \in [up : BOOLEAN, frames : Seq(FrameType)]
  <2>1. Reached' = LastSeq + 1
    BY <1>0, <1>2, <1>4 DEF Reached
  <2>2. ~Snapshot => Reached' = Reached + 1
    BY <1>1, <2>1
  <2>3. opening'.stage # "snapshot"
    BY <1>1, <1>2
  <2> QED
    BY <1>0, <1>1, <1>t, <2>2, <2>3, TailStreams DEF LogInv
<1>6. shown' \in -1..MaxLog
  <2>1. shown' = LastSeq + 2
    BY <1>4
  <2>2. MaxLog \in Nat /\ LastSeq + 2 \in -1..MaxLog
    BY <1>1, <1>t, FollowAssumption
  <2> QED
    BY <2>1, <2>2
<1>7. FollowTypeOK'
  BY <1>0, <1>2, <1>4, <1>5, <1>6, <1>t DEF FollowTypeOK, FrameType
<1>8. Begun' /\ Caught'
  <2>1. log' # <<>> /\ log'[1] > 0 <=> log # <<>> /\ log[1] > 0
    BY <1>4
  <2> QED
    BY <1>0, <1>1, <1>2, <2>1 DEF LogInv, Begun, Caught
<1> QED
  BY <1>0, <1>1, <1>2, <1>4, <1>5, <1>7, <1>8 DEF LogInv

LEMMA CatchPageLog ==
  ASSUME LogInv, CatchPage
  PROVE  LogInv' /\ UNCHANGED <<host, status, opening, end, drops, fails, doubt>> /\ (PagesOn \/ Appended)
<1>t. /\ FollowTypeOK /\ host \in Nat /\ host <= MaxLog /\ LastSeq \in Int /\ -1 <= LastSeq
      /\ follow \in [up : BOOLEAN, frames : Seq(FrameType)]
  BY TypesAre, LogIs DEF LogInv
<1>0. end = "none" /\ catch.stage = "paging" /\ UNCHANGED <<host, follow, status, opening, drops, fails, doubt>>
  BY DEF CatchPage
<1> DEFINE oldest == catch.oldest
           cursor == catch.cursor
<1>1. /\ opening.stage # "snapshot" /\ LastSeq + 1 < oldest /\ oldest <= cursor /\ cursor < host
      /\ catch.missed = Seqs(oldest, cursor) /\ oldest \in Nat /\ cursor \in Int
  BY <1>0, <1>t DEF LogInv, Caught, FollowTypeOK
<1>2. PICK records \in Page(oldest) :
        CatchUp(Newer(records) \o catch.missed, Head(records), More(records), cursor)
  <2>1. \A records \in Page(oldest) : Valid(records, More(records), oldest)
    BY <1>1, Pages
  <2> QED
    BY <2>1 DEF CatchPage
<1> HIDE DEF oldest, cursor
<1> DEFINE lo == records[1]
           more == More(records)
           from == IF lo <= LastSeq + 1 THEN LastSeq + 1 ELSE lo
<1>3. /\ lo \in Nat /\ lo <= oldest - 1 /\ Head(records) = lo /\ records = Seqs(lo, oldest - 1)
      /\ more \in BOOLEAN /\ (more <=> lo > 0)
  <2>1. oldest > 0
    BY <1>1, <1>t
  <2>2. /\ records # <<>> /\ records[1] \in 0..(oldest - 1) /\ Head(records) = records[1]
        /\ records = Seqs(records[1], oldest - 1) /\ (More(records) <=> records # <<>> /\ records[1] > 0)
    BY <1>1, <2>1, Pages
  <2>3. lo \in Nat /\ lo <= oldest - 1
    BY <1>1, <2>2
  <2> QED
    BY <2>2, <2>3 DEF More
<1> HIDE DEF lo, more
<1>4. Newer(records) \o catch.missed = Seqs(from, cursor) /\ from \in Int
  <2> DEFINE m == LastSeq + 1
             h == oldest - 1
  <2>1. m \in Int /\ h \in Int /\ m <= h + 1 /\ m <= h /\ lo <= h /\ lo <= h + 1 /\ lo \in Int /\ h + 1 = oldest /\ h <= cursor
    BY <1>1, <1>3, <1>t
  <2>2. Newer(records) = From(Seqs(lo, h), m)
    BY <1>3 DEF Newer
  <2>f. from = IF lo <= m THEN m ELSE lo
    OBVIOUS
  <2>5. catch.missed = Seqs(h + 1, cursor)
    BY <1>1, <2>1
  <2> HIDE DEF m, h, from
  <2>3. /\ lo <= m => From(Seqs(lo, h), m) = Seqs(m, h)
        /\ m <= lo => From(Seqs(lo, h), m) = Seqs(lo, h)
    BY <2>1, SeqsFrom
  <2>4. Newer(records) = Seqs(from, h) /\ from \in Int /\ from <= h + 1
    <3>1. CASE lo <= m
      BY <2>1, <2>2, <2>3, <2>f, <3>1
    <3>2. CASE ~(lo <= m)
      BY <2>1, <2>2, <2>3, <2>f, <3>2
    <3> QED
      BY <3>1, <3>2
  <2>6. h <= cursor /\ h \in Int /\ cursor \in Int
    BY <1>1, <2>1
  <2>7. Seqs(from, h) \o Seqs(h + 1, cursor) = Seqs(from, cursor)
    BY <2>4, <2>6, SeqsJoin
  <2> QED
    BY <2>4, <2>5, <2>7
<1>5. CatchUp(Seqs(from, cursor), lo, more, cursor)
  BY <1>2, <1>3, <1>4 DEF more
<1>6. lo <= cursor /\ LastSeq <= cursor
  BY <1>1, <1>3, <1>t
<1>7. Reached' = cursor => Streams' /\ follow' \in [up : BOOLEAN, frames : Seq(FrameType)]
  <2>1. Reached = cursor
    BY <1>0 DEF Reached, cursor
  <2>2. Snapshot => catch'.stage = "idle" /\ LastSeq' = LastSeq
    BY <1>0 DEF LogInv, Streams, Snapshot
  <2> QED
    BY <1>0, <1>t, <2>1, <2>2, StreamsStay DEF LogInv
<1>8. from = IF lo <= LastSeq + 1 THEN LastSeq + 1 ELSE lo
  OBVIOUS
<1> HIDE DEF from
<1> QED
  BY <1>0, <1>1, <1>3, <1>4, <1>5, <1>6, <1>7, <1>8, CatchUpLog

-----------------------------------------------------------------------------
\* The running state

LEMMA CallersAre ==
  /\ ForOpen \in Callers /\ ForCatchUp \in Callers /\ ForOpen # ForCatchUp
  /\ \A d \in 1..MaxDrops : d \in Callers /\ d # ForOpen /\ d # ForCatchUp
  /\ Made # Unmade /\ Made \notin 0..MaxLog /\ Unmade \notin 0..MaxLog
BY FollowAssumption DEF ForOpen, ForCatchUp, Callers, Made, Unmade

LEMMA ShownTypes ==
  ASSUME LogInv
  PROVE  /\ host \in 0..MaxLog /\ host \in Nat /\ MaxLog \in Nat /\ LastSeq \in Int /\ -1 <= LastSeq /\ LastSeq < host
         /\ lists \in [Callers -> AnswerType] /\ shown \in -1..MaxLog
         /\ status \in [up : BOOLEAN, frames : Seq(1..MaxLog), drops : 0..MaxDrops]
<1>1. FollowTypeOK /\ LogRuns
  BY DEF LogInv
<1> QED
  BY <1>1, LogIs, TypesAre DEF FollowTypeOK, AnswerType

LEMMA ShownStays ==
  ASSUME ShownInv, UNCHANGED <<host, status, shown, lists, doubt>>, LastSeq' = LastSeq, opening'.stage = opening.stage,
         catch'.stage = "refresh" <=> catch.stage = "refresh"
  PROVE  ShownInv'
<1>1. Waiting'
  BY DEF ShownInv, Waiting
<1>2. StatusCarried' /\ Unknown'
  BY DEF ShownInv, StatusCarried, Unknown
<1>3. Corrected'
  BY DEF ShownInv, Corrected
<1> QED
  BY <1>1, <1>2, <1>3 DEF ShownInv

LEMMA ShownInit == ASSUME FollowInit PROVE ShownInv
<1>1. /\ shown = -1 /\ \A c \in Callers : lists[c] = Unmade
      /\ status = [up |-> TRUE, frames |-> <<>>, drops |-> 0]
      /\ opening = [stage |-> "snapshot", cursor |-> -1, more |-> FALSE] /\ catch = Idle
  BY DEF FollowInit
<1>2. opening.stage = "snapshot" /\ catch.stage = "idle" /\ status.up /\ status.frames = <<>>
  BY <1>1 DEF Idle
<1>3. Waiting
  BY <1>1, <1>2, CallersAre DEF Waiting
<1>4. StatusCarried /\ Unknown /\ Corrected
  BY <1>1, <1>2, CallersAre DEF StatusCarried, Unknown, Corrected
<1> QED
  BY <1>3, <1>4 DEF ShownInv

LEMMA CommitShown == ASSUME LogInv, ShownInv, Commit PROVE ShownInv'
<1>t. /\ host \in Nat /\ host' = host + 1 /\ LastSeq' = LastSeq
      /\ status \in [up : BOOLEAN, frames : Seq(1..MaxLog), drops : 0..MaxDrops] /\ host + 1 \in 1..MaxLog
      /\ UNCHANGED <<log, opening, catch, shown, lists, doubt>>
  BY ShownTypes DEF Commit, LastSeq
<1>1. /\ status'.up = status.up /\ status'.drops = status.drops /\ (~status.up => status' = status)
      /\ status.up => status'.frames # <<>> /\ status'.frames[Len(status'.frames)] = host + 1
  <2>1. CASE status.up
    <3>1. /\ Append(status.frames, host + 1) # <<>>
          /\ Append(status.frames, host + 1)[Len(Append(status.frames, host + 1))] = host + 1
      BY <1>t
    <3>2. status' = [status EXCEPT !.frames = Append(@, host + 1)]
      BY <2>1 DEF Commit
    <3> QED
      BY <1>t, <2>1, <3>1, <3>2
  <2>2. CASE ~status.up
    BY <2>2 DEF Commit
  <2> QED
    BY <2>1, <2>2
<1>2. Waiting'
  BY <1>t, <1>1 DEF ShownInv, Waiting
<1>3. StatusCarried'
  BY <1>t, <1>1 DEF ShownInv, StatusCarried
<1>4. Unknown'
  BY <1>t DEF ShownInv, Unknown
<1>5. Corrected'
  BY <1>1 DEF Corrected
<1> QED
  BY <1>2, <1>3, <1>4, <1>5 DEF ShownInv

LEMMA ReadShown == ASSUME LogInv, ShownInv, NEW c \in Callers, Read(c) PROVE ShownInv'
<1>t. /\ host \in 0..MaxLog /\ lists \in [Callers -> AnswerType] /\ LastSeq < host /\ LastSeq \in Int
      /\ UNCHANGED <<host, status, log, opening, catch, shown, doubt>> /\ LastSeq' = LastSeq
      /\ lists[c] = Made /\ lists'[c] = host /\ \A d \in Callers \ {c} : lists'[d] = lists[d]
  BY ShownTypes DEF Read, LastSeq
<1>1. host # Unmade /\ host \in Nat
  BY <1>t, CallersAre, ShownTypes
<1>2. Waiting'
  BY <1>t, <1>1, CallersAre DEF ShownInv, Waiting
<1>3. StatusCarried'
  BY <1>t DEF ShownInv, StatusCarried
<1>4. Unknown'
  <2>1. shown = -1 => opening.stage # "snapshot"
    BY <1>t, CallersAre DEF ShownInv, Unknown
  <2> QED
    BY <1>t, <1>1, <2>1, CallersAre DEF ShownInv, Unknown
<1>5. Corrected'
  BY <1>t DEF ShownInv, Corrected
<1> QED
  BY <1>2, <1>3, <1>4, <1>5 DEF ShownInv

\* A call of session/list is over.
LEMMA ResumedShown ==
  ASSUME LogInv, ShownInv, NEW c \in Callers, lists[c] # Unmade, Resumed(c)
  PROVE  /\ Waiting' /\ StatusCarried' /\ LastSeq' = LastSeq /\ UNCHANGED <<host, status>>
         /\ lists'[c] = Unmade /\ \A d \in Callers \ {c} : lists'[d] = lists[d]
         /\ c = ForOpen => opening'.stage = "ready"
         /\ c # ForOpen => opening' = opening
         /\ opening'.stage = "snapshot" <=> opening.stage = "snapshot"
<1>t. lists \in [Callers -> AnswerType] /\ opening \in OpeningType /\ UNCHANGED <<host, status, log>> /\ LastSeq' = LastSeq
  BY ShownTypes DEF Resumed, LastSeq, LogInv, FollowTypeOK, OpeningType
<1>1. lists'[c] = Unmade /\ \A d \in Callers \ {c} : lists'[d] = lists[d]
  BY <1>t DEF Resumed
<1>2. /\ c = ForOpen => opening' = [opening EXCEPT !.stage = "ready"] /\ opening.stage = "refresh"
      /\ c # ForOpen => opening' = opening
  BY DEF Resumed, ShownInv, Waiting
<1>3. c = ForOpen => opening'.stage = "ready"
  <2>1. [opening EXCEPT !.stage = "ready"].stage = "ready"
    BY <1>t DEF OpeningType
  <2> QED
    BY <1>2, <2>1
<1>4. catch'.stage = "refresh" <=> catch.stage = "refresh" /\ c # ForCatchUp
  BY IdleType DEF Resumed
<1>5. Waiting'
  BY <1>t, <1>1, <1>2, <1>3, <1>4, CallersAre DEF ShownInv, Waiting
<1>6. StatusCarried'
  BY <1>t DEF ShownInv, StatusCarried
<1> QED
  BY <1>t, <1>1, <1>2, <1>3, <1>5, <1>6

LEMMA RefreshedShown == ASSUME LogInv, ShownInv, NEW c \in Callers, Refreshed(c) PROVE ShownInv'
<1>t. /\ host \in Nat /\ host <= MaxLog /\ LastSeq \in Int /\ shown \in -1..MaxLog /\ lists[c] \in 0..MaxLog /\ MaxLog \in Nat
      /\ lists[c] <= host /\ lists[c] # Unmade
  <2>1. lists \in [Callers -> AnswerType] /\ lists[c] >= 0 /\ MaxLog \in Nat /\ host \in 0..MaxLog
    BY ShownTypes DEF Refreshed
  <2>2. lists[c] \in 0..MaxLog
    BY <2>1 DEF AnswerType, Made, Unmade
  <2> QED
    BY <2>1, <2>2, ShownTypes, CallersAre DEF ShownInv, Waiting
<1>1. /\ Waiting' /\ StatusCarried' /\ LastSeq' = LastSeq /\ UNCHANGED <<host, status>>
      /\ lists'[c] = Unmade /\ \A d \in Callers \ {c} : lists'[d] = lists[d]
      /\ opening'.stage = "snapshot" <=> opening.stage = "snapshot"
  BY <1>t, ResumedShown DEF Refreshed
<1>2. shown' = lists[c] /\ shown' # -1 /\ (doubt \/ lists[c] < shown => doubt')
  <2>1. shown' = lists[c] /\ doubt' = (doubt \/ lists[c] < shown)
    BY DEF Refreshed
  <2>2. lists[c] # -1
    BY <1>t
  <2>3. doubt \/ lists[c] < shown => doubt'
    BY <2>1, Zenon
  <2> QED
    BY <2>1, <2>2, <2>3, Zenon
<1>3. Unknown'
  BY <1>2 DEF Unknown
<1>4. Corrected'
  <2>1. CASE shown' = host \/ doubt'
    BY <1>1, <2>1 DEF Corrected
  <2>2. CASE shown' # host /\ ~doubt'
    <3>1. lists[c] < host /\ lists[c] >= shown /\ ~doubt /\ shown # host
      BY <1>t, <1>2, <2>2
    <3>2. CASE shown = -1
      <4>1. opening.stage # "snapshot" /\ LastSeq < lists[c]
        BY <1>t, <3>2 DEF ShownInv, Unknown
      <4>2. LastSeq' + 1 < host'
        BY <1>1, <1>t, <3>1, <4>1
      <4> QED
        BY <1>1, <4>1, <4>2 DEF Corrected
    <3>3. CASE shown # -1
      <4>1. \/ status.frames # <<>> \/ ~status.up
            \/ \E d \in Callers : lists[d] \in {Made, host}
            \/ opening.stage # "snapshot" /\ LastSeq + 1 < host
        BY <3>1, <3>3 DEF ShownInv, Corrected
      <4>2. lists[c] \notin {Made, host}
        BY <1>t, <3>1, CallersAre
      <4> QED
        BY <1>1, <4>1, <4>2 DEF Corrected
    <3> QED
      BY <3>2, <3>3
  <2> QED
    BY <2>1, <2>2
<1> QED
  BY <1>1, <1>3, <1>4 DEF ShownInv

LEMMA RefreshFailsShown == ASSUME LogInv, ShownInv, NEW c \in Callers, RefreshFails(c) PROVE ShownInv'
<1>1. /\ Waiting' /\ StatusCarried' /\ LastSeq' = LastSeq /\ UNCHANGED <<host, status>>
      /\ lists'[c] = Unmade /\ \A d \in Callers \ {c} : lists'[d] = lists[d]
      /\ c = ForOpen => opening'.stage = "ready"
      /\ c # ForOpen => opening' = opening
      /\ opening'.stage = "snapshot" <=> opening.stage = "snapshot"
  BY ResumedShown DEF RefreshFails
<1>2. doubt' /\ UNCHANGED shown
  BY DEF RefreshFails
<1>3. Unknown'
  BY <1>1, <1>2, CallersAre DEF ShownInv, Unknown
<1>4. Corrected'
  BY <1>2 DEF Corrected
<1> QED
  BY <1>1, <1>3, <1>4 DEF ShownInv

LEMMA DropStatusShown == ASSUME LogInv, ShownInv, DropStatus PROVE ShownInv'
<1>1. /\ status' = [up |-> FALSE, frames |-> <<>>, drops |-> status.drops + 1] /\ status.drops + 1 > 0
      /\ UNCHANGED <<host, log, opening, catch, shown, lists, doubt>> /\ LastSeq' = LastSeq
  BY ShownTypes DEF DropStatus, LastSeq
<1>2. ~status'.up /\ status'.frames = <<>> /\ status'.drops > 0
  BY <1>1
<1>3. Waiting' /\ StatusCarried'
  BY <1>1, <1>2 DEF ShownInv, Waiting, StatusCarried
<1>4. Unknown' /\ Corrected'
  BY <1>1, <1>2 DEF ShownInv, Unknown, Corrected
<1> QED
  BY <1>3, <1>4 DEF ShownInv

LEMMA OpenStatusShown == ASSUME LogInv, ShownInv, OpenStatus PROVE ShownInv'
<1>t. /\ lists \in [Callers -> AnswerType] /\ status \in [up : BOOLEAN, frames : Seq(1..MaxLog), drops : 0..MaxDrops]
      /\ UNCHANGED <<host, log, opening, catch, shown, doubt>> /\ LastSeq' = LastSeq
      /\ ~status.up /\ status' = [status EXCEPT !.up = TRUE]
  BY ShownTypes DEF OpenStatus, LastSeq
<1> DEFINE d == status.drops
<1>1. d \in Callers /\ d # ForOpen /\ d # ForCatchUp
  <2>1. status.drops \in 1..MaxDrops
    BY <1>t, FollowAssumption DEF ShownInv, Waiting
  <2> QED
    BY <2>1, CallersAre
<1>2. status'.up /\ status'.frames = <<>>
  <2>1. status.frames = <<>>
    BY <1>t DEF ShownInv, StatusCarried
  <2> QED
    BY <1>t, <2>1
<1>3. /\ shown = -1 => lists' = lists
      /\ shown # -1 => lists' = [lists EXCEPT ![d] = Made]
  BY DEF OpenStatus
<1> HIDE DEF d
<1>4. \A c \in Callers : c # d => lists'[c] = lists[c]
  BY <1>3, <1>t
<1>5. shown # -1 => lists'[d] = Made
  BY <1>1, <1>3, <1>t
<1>6. Waiting' /\ StatusCarried'
  <2>1. lists'[d] \in {Made, lists[d]}
    BY <1>3, <1>5
  <2> QED
    BY <1>1, <1>2, <1>4, <1>t, <2>1, CallersAre DEF ShownInv, Waiting, StatusCarried
<1>7. Unknown'
  <2>1. CASE shown = -1
    BY <1>3, <1>t, <2>1 DEF ShownInv, Unknown
  <2>2. CASE shown # -1
    BY <1>t, <2>2 DEF Unknown
  <2> QED
    BY <2>1, <2>2
<1>8. Corrected'
  <2>1. CASE shown = -1
    BY <1>t, <2>1 DEF Corrected
  <2>2. CASE shown # -1
    BY <1>1, <1>5, <2>2 DEF Corrected
  <2> QED
    BY <2>1, <2>2
<1> QED
  BY <1>6, <1>7, <1>8 DEF ShownInv

LEMMA Queue ==
  ASSUME NEW T, NEW s \in Seq(T), s # <<>>
  PROVE  /\ Head(s) \in T
         /\ Tail(s) # <<>> => Tail(s)[Len(Tail(s))] = s[Len(s)]
         /\ Tail(s) = <<>> => Head(s) = s[Len(s)]
<1>1. Len(s) \in Nat \ {0} /\ Head(s) = s[1] /\ Head(s) \in T
  OBVIOUS
<1>2. Tail(s) \in Seq(T) /\ Len(Tail(s)) = Len(s) - 1
  BY <1>1
<1>3. Tail(s) = <<>> => Len(s) = 1
  BY <1>1, <1>2
<1>4. ASSUME Tail(s) # <<>> PROVE Tail(s)[Len(Tail(s))] = s[Len(s)]
  <2> DEFINE n == Len(s) - 1
  <2>1. n \in 1..(Len(s) - 1) /\ n + 1 = Len(s) /\ n = Len(Tail(s))
    BY <1>1, <1>2, <1>4
  <2> HIDE DEF n
  <2>2. Tail(s)[n] = s[n + 1]
    BY <1>1, <2>1
  <2> QED
    BY <2>1, <2>2
<1> QED
  BY <1>1, <1>3, <1>4

LEMMA ReceiveStatusShown == ASSUME LogInv, ShownInv, ReceiveStatus PROVE ShownInv'
<1>t. /\ status \in [up : BOOLEAN, frames : Seq(1..MaxLog), drops : 0..MaxDrops] /\ status.frames # <<>>
      /\ UNCHANGED <<host, log, opening, catch, lists, doubt>> /\ LastSeq' = LastSeq
      /\ shown' = Head(status.frames) /\ status' = [status EXCEPT !.frames = Tail(@)]
  BY ShownTypes DEF ReceiveStatus, LastSeq
<1> DEFINE s == status.frames
<1>1. s \in Seq(1..MaxLog) /\ s # <<>> /\ status.up /\ s[Len(s)] = host
  BY <1>t DEF ShownInv, StatusCarried
<1>2. status'.up /\ status'.frames = Tail(s) /\ status'.drops = status.drops
  BY <1>1, <1>t
<1>f. shown' = Head(s)
  BY <1>t
<1> HIDE DEF s
<1>3. /\ Head(s) \in 1..MaxLog
      /\ Tail(s) # <<>> => Tail(s)[Len(Tail(s))] = host
      /\ Tail(s) = <<>> => Head(s) = host
  BY <1>1, Queue
<1>4. Waiting' /\ StatusCarried'
  BY <1>2, <1>3, <1>t DEF ShownInv, Waiting, StatusCarried
<1>5. Unknown'
  <2>1. shown' # -1
    BY <1>3, <1>f
  <2> QED
    BY <2>1 DEF Unknown
<1>6. Corrected'
  BY <1>2, <1>3, <1>f, <1>t DEF Corrected
<1> QED
  BY <1>4, <1>5, <1>6 DEF ShownInv

\* Events that are appended in between.
LEMMA AppendedShown ==
  ASSUME LogInv, ShownInv, UNCHANGED <<host, status, opening, doubt>>, PagesOn \/ Appended
  PROVE  ShownInv'
<1>t. /\ host \in Nat /\ lists \in [Callers -> AnswerType] /\ LastSeq \in Int /\ -1 <= LastSeq
  BY ShownTypes
<1>1. CASE PagesOn
  BY <1>1, ShownStays DEF PagesOn, LastSeq
<1>2. CASE Appended
  <2>1. /\ opening.stage # "snapshot" /\ catch.stage # "refresh" /\ catch'.stage = "refresh"
        /\ lists'[ForCatchUp] = Made /\ \A c \in Callers \ {ForCatchUp} : lists'[c] = lists[c]
        /\ (LastSeq' = LastSeq /\ shown' = shown) \/ shown' > 0
    <3>1. /\ opening.stage # "snapshot" /\ catch.stage # "refresh" /\ catch'.stage = "refresh"
          /\ lists' = [lists EXCEPT ![ForCatchUp] = Made]
      BY <1>2 DEF Appended
    <3>2. lists'[ForCatchUp] = Made /\ \A c \in Callers \ {ForCatchUp} : lists'[c] = lists[c]
      BY <1>t, <3>1, CallersAre
    <3>3. /\ LastSeq' \in Int /\ LastSeq <= LastSeq'
          /\ LastSeq' = LastSeq => shown' = shown
          /\ LastSeq' # LastSeq => shown' = LastSeq' + 1
      BY <1>2 DEF Appended
    <3> DEFINE n == LastSeq'
               v == shown'
    <3>5. n \in Int /\ LastSeq <= n /\ (n # LastSeq => v = n + 1)
      BY <3>3
    <3> HIDE DEF n, v
    <3>6. n # LastSeq => v > 0
      BY <1>t, <3>5
    <3>4. LastSeq' # LastSeq => shown' > 0
      BY <3>6 DEF n, v
    <3> QED
      BY <3>1, <3>2, <3>3, <3>4
  <2>2. Waiting'
    BY <2>1, CallersAre DEF ShownInv, Waiting
  <2>3. StatusCarried'
    BY DEF ShownInv, StatusCarried
  <2>4. Unknown'
    <3>1. CASE LastSeq' = LastSeq /\ shown' = shown
      BY <2>1, <3>1, CallersAre DEF ShownInv, Unknown
    <3>2. CASE shown' > 0
      <4>1. shown' # -1
        BY <3>2
      <4> QED
        BY <4>1 DEF Unknown
    <3> QED
      BY <2>1, <3>1, <3>2
  <2>5. Corrected'
    BY <2>1, CallersAre DEF Corrected
  <2> QED
    BY <2>2, <2>3, <2>4, <2>5 DEF ShownInv
<1> QED
  BY <1>1, <1>2

LEMMA ReceiveShown == ASSUME LogInv, ShownInv, Receive PROVE LogInv' /\ ShownInv'
<1>t. host \in Nat /\ LastSeq \in Int /\ -1 <= LastSeq
  BY ShownTypes
<1>1. CASE Snapshot /\ opening.stage = "snapshot"
  <2>1. /\ LogInv' /\ UNCHANGED <<host, status, catch, shown, lists, doubt>> /\ opening'.stage = "paging"
    BY <1>1, AttachLog
  <2>2. Waiting' /\ StatusCarried' /\ Unknown'
    BY <1>1, <2>1, CallersAre DEF ShownInv, Waiting, StatusCarried, Unknown
  <2>3. Corrected'
    BY <1>1, <2>1 DEF ShownInv, Corrected
  <2> QED
    BY <2>1, <2>2, <2>3 DEF ShownInv
<1>2. CASE Snapshot /\ opening.stage # "snapshot"
  <2>1. LogInv' /\ UNCHANGED <<host, status, opening, end, drops, fails, doubt>> /\ (PagesOn \/ Appended)
    BY <1>2, ReattachLog
  <2> QED
    BY <2>1, AppendedShown
<1>3. CASE ~Snapshot
  <2>1. /\ LogInv' /\ UNCHANGED <<host, status, opening, catch, lists, doubt>>
        /\ LastSeq' = LastSeq + 1 /\ shown' = LastSeq + 2 /\ LastSeq + 1 < host /\ opening.stage # "snapshot"
    BY <1>3, EventLog
  <2>2. Waiting' /\ StatusCarried'
    BY <2>1 DEF ShownInv, Waiting, StatusCarried
  <2>3. Unknown'
    <3>1. shown' # -1
      BY <1>t, <2>1
    <3> QED
      BY <3>1 DEF Unknown
  <2>4. Corrected'
    <3>1. shown' = host' \/ LastSeq' + 1 < host'
      BY <1>t, <2>1
    <3> QED
      BY <2>1, <3>1 DEF Corrected
  <2> QED
    BY <2>1, <2>2, <2>3, <2>4 DEF ShownInv
<1> QED
  BY <1>1, <1>2, <1>3

LEMMA CatchPageShown == ASSUME LogInv, ShownInv, CatchPage PROVE LogInv' /\ ShownInv'
<1>1. LogInv' /\ UNCHANGED <<host, status, opening, end, drops, fails, doubt>> /\ (PagesOn \/ Appended)
  BY CatchPageLog
<1> QED
  BY <1>1, AppendedShown

LEMMA PageShown == ASSUME LogInv, ShownInv, OpenPage PROVE ShownInv'
<1>1. /\ UNCHANGED <<host, status, catch, shown, lists, doubt>> /\ opening'.stage = opening.stage /\ LastSeq' = LastSeq
  BY OpenPageLog
<1> QED
  BY <1>1, ShownStays

LEMMA OpenedShown == ASSUME LogInv, ShownInv, Opened PROVE ShownInv'
<1>t. /\ lists \in [Callers -> AnswerType] /\ opening \in OpeningType /\ opening.stage = "paging"
      /\ UNCHANGED <<host, status, catch, shown, doubt>> /\ LastSeq' = LastSeq
  BY ShownTypes DEF Opened, LastSeq, LogInv, FollowTypeOK, OpeningType
<1>1. CASE shown = -1
  <2>1. opening' = [opening EXCEPT !.stage = "refresh"] /\ lists' = [lists EXCEPT ![ForOpen] = Made]
    BY <1>1 DEF Opened
  <2>2. /\ opening'.stage = "refresh" /\ lists'[ForOpen] = Made
        /\ \A c \in Callers \ {ForOpen} : lists'[c] = lists[c]
    BY <1>t, <2>1, CallersAre DEF OpeningType
  <2>3. Waiting' /\ StatusCarried'
    BY <1>t, <2>2, CallersAre DEF ShownInv, Waiting, StatusCarried
  <2>4. Unknown'
    BY <1>t, <2>2, CallersAre DEF ShownInv, Unknown
  <2>5. Corrected'
    BY <1>1, <1>t DEF Corrected
  <2> QED
    BY <2>3, <2>4, <2>5 DEF ShownInv
<1>2. CASE shown # -1
  <2>1. opening' = [opening EXCEPT !.stage = "ready"] /\ UNCHANGED lists
    BY <1>2 DEF Opened
  <2>2. opening'.stage = "ready"
    BY <1>t, <2>1 DEF OpeningType
  <2>3. Waiting' /\ StatusCarried'
    BY <1>t, <2>1, <2>2, CallersAre DEF ShownInv, Waiting, StatusCarried
  <2>4. Unknown'
    BY <1>2, <1>t DEF Unknown
  <2>5. Corrected'
    BY <1>t, <2>1, <2>2 DEF ShownInv, Corrected
  <2> QED
    BY <2>3, <2>4, <2>5 DEF ShownInv
<1> QED
  BY <1>1, <1>2

-----------------------------------------------------------------------------
\* The invariant holds, and what follows from it

LEMMA FollowInductive == FollowSpec => []FollowInv
<1>1. FollowInit => FollowInv
  BY LogInit, ShownInit DEF FollowInv
<1>2. FollowInv /\ [FollowNext]_followVars => FollowInv'
  <2> SUFFICES ASSUME LogInv, ShownInv, [FollowNext]_followVars PROVE LogInv' /\ ShownInv'
    BY DEF FollowInv
  <2>1. CASE Commit
    BY <2>1, CommitLog, CommitShown
  <2>2. CASE OpenFollow
    <3>1. UNCHANGED <<host, status, log, opening, catch, shown, lists, doubt>> /\ LastSeq' = LastSeq
      BY <2>2 DEF OpenFollow, LastSeq
    <3> QED
      BY <2>2, <3>1, OpenFollowLog, ShownStays
  <2>3. CASE DropFollow \/ CatchFails
    <3>1. UNCHANGED <<host, status, log, opening, shown, lists, doubt>> /\ LastSeq' = LastSeq
      BY <2>3 DEF DropFollow, CatchFails, LastSeq
    <3>2. catch'.stage = "refresh" <=> catch.stage = "refresh"
      BY <2>3 DEF DropFollow, CatchFails, Idle
    <3> QED
      BY <2>3, <3>1, <3>2, DropLog, ShownStays
  <2>4. CASE DropStatus \/ OpenStatus \/ ReceiveStatus
    BY <2>4, StatusLog, DropStatusShown, OpenStatusShown, ReceiveStatusShown
  <2>5. CASE Receive
    BY <2>5, ReceiveShown
  <2>6. CASE CatchPage
    BY <2>6, CatchPageShown
  <2>7. CASE OpenPage
    BY <2>7, OpenPageLog, PageShown
  <2>8. CASE OpenFails \/ Opened
    <3>1. CASE OpenFails
      <4>1. UNCHANGED <<host, status, log, opening, catch, shown, lists, doubt>> /\ LastSeq' = LastSeq
        BY <3>1 DEF OpenFails, LastSeq
      <4> QED
        BY <3>1, <4>1, OpenedLog, ShownStays
    <3> QED
      BY <2>8, <3>1, OpenedLog, OpenedShown
  <2>9. ASSUME NEW c \in Callers, Read(c) \/ Refreshed(c) \/ RefreshFails(c) PROVE LogInv' /\ ShownInv'
    BY <2>9, CallsLog, ReadShown, RefreshedShown, RefreshFailsShown DEF ShownInv
  <2>10. CASE UNCHANGED followVars
    <3>1. UNCHANGED <<host, follow, status, log, opening, catch, shown, lists, end, drops, fails, doubt>> /\ LastSeq' = LastSeq
      BY <2>10 DEF followVars, LastSeq
    <3>2. FollowTypeOK' /\ end' # "invalid"
      BY <3>1 DEF LogInv, FollowTypeOK
    <3> QED
      BY <3>1, <3>2, LogStays, ShownStays
  <2> QED
    BY <2>1, <2>2, <2>3, <2>4, <2>5, <2>6, <2>7, <2>8, <2>9, <2>10 DEF FollowNext, Step
<1> QED
  BY <1>1, <1>2, PTL DEF FollowSpec

\* The Host's log, the two streams, the terminal's log and its calls keep their types (typert.ts).
THEOREM FollowTypes == FollowSpec => []FollowTypeOK
<1>1. FollowInv => FollowTypeOK
  BY DEF FollowInv, LogInv
<1> QED
  BY <1>1, FollowInductive, PTL

\* The log a terminal shows is a piece of the Host's without a gap or a repetition, whole once the session is
\* open, and historyPage() never finds the history invalid, whatever breaks and fails (open(), catchUp()).
THEOREM LogFollows == FollowSpec => []LogFollowsHost
<1>1. ASSUME FollowInv PROVE LogFollowsHost
  <2>1. /\ LogInv /\ log \in Seq(0..(MaxLog - 1)) /\ LastSeq \in Int /\ LastSeq < host /\ host \in Nat
        /\ log # <<>> => log[1] \in Nat /\ log[1] <= LastSeq /\ log = Seqs(log[1], LastSeq)
    BY <1>1, LogIs, TypesAre DEF FollowInv, LogInv
  <2>2. ASSUME NEW i \in DOMAIN log PROVE log[i] = log[1] + i - 1 /\ log[i] < host
    <3>1. log # <<>> /\ i \in 1..Len(log)
      BY <2>1
    <3> DEFINE lo == log[1]
    <3>2. lo \in Int /\ lo <= LastSeq + 1 /\ log = Seqs(lo, LastSeq)
      BY <2>1, <3>1
    <3> HIDE DEF lo
    <3>3. Len(log) = LastSeq - lo + 1 /\ \A j \in 1..(LastSeq - lo + 1) : log[j] = lo + j - 1
      BY <2>1, <3>2, SeqsAre
    <3>4. log[i] = lo + i - 1 /\ lo + i - 1 < host
      BY <2>1, <3>1, <3>2, <3>3
    <3> QED
      BY <3>4 DEF lo
  <2>3. opening.stage \in {"refresh", "ready"} /\ log # <<>> => log[1] = 0
    <3>1. Begun
      BY <2>1 DEF LogInv
    <3>2. opening.stage \in {"refresh", "ready"} /\ log # <<>> => ~(log[1] > 0)
      BY <3>1 DEF Begun
    <3> QED
      BY <2>1, <3>2
  <2>4. end # "invalid"
    BY <2>1 DEF LogInv
  <2> QED
    BY <2>2, <2>3, <2>4 DEF LogFollowsHost
<1> QED
  BY <1>1, FollowInductive, PTL

\* When nothing is under way the terminal shows the running state of the Host, unless an answer of session/list
\* was overtaken or a call of it failed (refreshRunning(), status frames, events).
THEOREM RunningShown == FollowSpec => []RunningIsShown
<1>1. ASSUME FollowInv PROVE RunningIsShown
  <2> SUFFICES ASSUME /\ opening.stage = "ready" /\ catch.stage = "idle"
                      /\ follow.up /\ follow.frames = <<>> /\ status.up /\ status.frames = <<>>
                      /\ \A c \in Callers : lists[c] = Unmade
               PROVE  doubt \/ shown = host
    BY DEF RunningIsShown
  <2>1. LogInv /\ Waiting /\ Unknown /\ Corrected /\ host \in Nat /\ host <= MaxLog /\ LastSeq \in Int
    BY <1>1, ShownTypes DEF FollowInv, ShownInv
  <2>2. ~(LastSeq + 1 < host)
    <3>1. Reached + Len(follow.frames) = host - 1 /\ Reached = LastSeq
      BY <2>1 DEF LogInv, Streams, Snapshot, Reached
    <3>2. Len(follow.frames) = 0
      OBVIOUS
    <3> QED
      BY <2>1, <3>1, <3>2
  <2>3. \A c \in Callers : lists[c] \notin {Made, host}
    BY <2>1 DEF Made, Unmade
  <2>4. shown = -1 => doubt
    BY <2>1 DEF Unknown
  <2> QED
    BY <2>1, <2>2, <2>3, <2>4 DEF Corrected
<1> QED
  BY <1>1, FollowInductive, PTL
=============================================================================
