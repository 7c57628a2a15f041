---------------------------- MODULE TerminalFollow ----------------------------
(***************************************************************************)
(* A terminal that follows a session of its Host:                          *)
(* packages/tui/src/runtime/typert.ts, history.ts and watch.ts.            *)
(*                                                                         *)
(* open() reads the newest page of the session's log from the follow       *)
(* stream and pages back to its start, while live events already arrive on *)
(* the stream.  A stream that breaks is opened again; its snapshot is a    *)
(* newest page too, and catchUp() pages back to what the terminal has.     *)
(* Whether a turn runs is learned from three sides: the events of the log, *)
(* the status frames of the event stream, and session/list.                *)
(*                                                                         *)
(* The log alternates turn/start (even seq) and turn/end (odd seq), so a   *)
(* turn runs when the number of events is odd.  A page may have any length *)
(* (its size counts messages).  The Host's half is external: it keeps its  *)
(* log and takes the snapshot of a stream together with its subscription.  *)
(* Left out: child sessions, live assistant frames, waiters for an idle    *)
(* session, and a session that is opened a second time.                    *)
(***************************************************************************)
EXTENDS Integers, Sequences, SequencesExt

CONSTANTS
  MaxLog,   \* bound on the Host's log
  MaxDrops, \* bound on the breaks of the two streams
  MaxFails  \* bound on the calls that fail

ASSUME FollowAssumption == MaxLog \in Nat /\ MaxDrops \in Nat /\ MaxFails \in Nat

VARIABLES
  host,    \* events in the Host's log
  follow,  \* the follow stream: open or not, and the frames under way
  status,  \* the event stream: open or not, status frames under way, drops so far
  log,     \* the terminal's log: a sequence of seqs
  opening, \* open(): stage, the cursor of the first snapshot, and whether older pages are due
  catch,   \* catchUp(): stage, target, events missed, the oldest seq read, and whether there are older ones
  shown,   \* the length of the Host's log the shown running state is from; -1: none shown
  lists,   \* session/list calls: not made, sent, or the length of the log the answer is from
  end,     \* why the session ended: "unreachable" or "invalid"; or "none"
  drops,   \* breaks of the follow stream so far
  fails,   \* failed calls so far
  doubt    \* history: an answer of session/list was overtaken, or a call of it failed

followVars == <<host, follow, status, log, opening, catch, shown, lists, end, drops, fails, doubt>>

ForOpen == 0               \* who reads session/list: open(), each recovery, catchUp()
ForCatchUp == MaxDrops + 1
Callers == ForOpen..ForCatchUp
Unmade == -1
Made == -2
Idle == [stage |-> "idle", cursor |-> -1, missed |-> <<>>, oldest |-> 0, more |-> FALSE]
Seqs(lo, hi) == [i \in 1..(hi - lo + 1) |-> lo + i - 1]
Snapshots == [type : {"snapshot"}, cursor : -1..(MaxLog - 1), records : Seq(0..(MaxLog - 1))]

FollowTypeOK ==
  /\ host \in 0..MaxLog
  /\ follow \in [up : BOOLEAN, frames : Seq(Snapshots \cup [type : {"event"}, seq : 0..(MaxLog - 1)])]
  /\ status \in [up : BOOLEAN, frames : Seq(1..MaxLog), drops : 0..MaxDrops]
  /\ log \in Seq(0..(MaxLog - 1))
  /\ opening \in [stage : {"snapshot", "paging", "refresh", "ready"}, cursor : -1..(MaxLog - 1), more : BOOLEAN]
  /\ catch \in [stage : {"idle", "paging", "refresh"}, cursor : -1..(MaxLog - 1),
                missed : Seq(0..(MaxLog - 1)), oldest : 0..MaxLog, more : BOOLEAN]
  /\ shown \in -1..MaxLog
  /\ lists \in [Callers -> {Unmade, Made} \cup 0..MaxLog]
  /\ end \in {"none", "unreachable", "invalid"}
  /\ drops \in 0..MaxDrops /\ fails \in 0..MaxFails /\ doubt \in BOOLEAN

FollowInit ==
  /\ host \in 0..MaxLog
  /\ follow = [up |-> FALSE, frames |-> <<>>]
  /\ status = [up |-> TRUE, frames |-> <<>>, drops |-> 0]
  /\ log = <<>>
  /\ opening = [stage |-> "snapshot", cursor |-> -1, more |-> FALSE]
  /\ catch = Idle
  /\ shown = -1
  /\ lists = [c \in Callers |-> Unmade]
  /\ end = "none"
  /\ drops = 0 /\ fails = 0 /\ doubt = FALSE

LastSeq == IF log = <<>> THEN -1 ELSE Last(log)

\* historyPage(): the records run up to the bound, and older ones exist or not as claimed.
Valid(records, more, before) ==
  /\ \A i \in 2..Len(records) : records[i] = records[i - 1] + 1
  /\ IF records = <<>> THEN before = 0 /\ ~more
     ELSE Last(records) = before - 1 /\ more = (Head(records) > 0)

\* The newest part of the log below a bound, of any length.
Page(before) == IF before = 0 THEN {<<>>} ELSE {Seqs(lo, before - 1) : lo \in 0..(before - 1)}
More(records) == records # <<>> /\ Head(records) > 0

-----------------------------------------------------------------------------
(* The Host and the streams                                                *)

Commit ==
  /\ host < MaxLog
  /\ host' = host + 1
  /\ follow' = IF follow.up THEN [follow EXCEPT !.frames = Append(@, [type |-> "event", seq |-> host])] ELSE follow
  /\ status' = IF status.up THEN [status EXCEPT !.frames = Append(@, host + 1)] ELSE status
  /\ UNCHANGED <<log, opening, catch, shown, lists, end, drops, fails, doubt>>

\* The list is read at the Host.
Read(c) ==
  /\ lists[c] = Made
  /\ lists' = [lists EXCEPT ![c] = host]
  /\ UNCHANGED <<host, follow, status, log, opening, catch, shown, end, drops, fails, doubt>>

Broken == [up |-> FALSE, frames |-> <<>>]

DropFollow ==
  /\ follow.up /\ drops + status.drops < MaxDrops
  /\ follow' = Broken /\ drops' = drops + 1
  /\ end' = IF opening.stage = "snapshot" THEN "unreachable" ELSE end  \* the first attach is not retried
  /\ UNCHANGED <<host, status, log, opening, catch, shown, lists, fails, doubt>>

DropStatus ==
  /\ status.up /\ drops + status.drops < MaxDrops
  /\ status' = [up |-> FALSE, frames |-> <<>>, drops |-> status.drops + 1]
  /\ UNCHANGED <<host, follow, log, opening, catch, shown, lists, end, drops, fails, doubt>>

\* The follow stream is opened when the loop is back at its head.
BugOpenFollow ==  \* mutant: the loop ends with the stream that gave the first snapshot
  /\ end = "none" /\ ~follow.up /\ catch.stage = "idle" /\ opening.stage = "snapshot"
  /\ \E records \in Page(host) :
       follow' = [up |-> TRUE, frames |-> <<[type |-> "snapshot", cursor |-> host - 1, records |-> records]>>]
  /\ UNCHANGED <<host, status, log, opening, catch, shown, lists, end, drops, fails, doubt>>
OpenFollow ==
  /\ end = "none" /\ ~follow.up /\ catch.stage = "idle"
  /\ \E records \in Page(host) :
       follow' = [up |-> TRUE, frames |-> <<[type |-> "snapshot", cursor |-> host - 1, records |-> records]>>]
  /\ UNCHANGED <<host, status, log, opening, catch, shown, lists, end, drops, fails, doubt>>

\* restored(): the state of a session that is shown is read again.
BugOpenStatus ==  \* mutant: the state is not read again after a recovery
  /\ ~status.up
  /\ status' = [status EXCEPT !.up = TRUE]
  /\ UNCHANGED <<host, follow, log, opening, catch, shown, lists, end, drops, fails, doubt>>
OpenStatus ==
  /\ ~status.up
  /\ status' = [status EXCEPT !.up = TRUE]
  /\ lists' = IF shown = -1 THEN lists ELSE [lists EXCEPT ![status.drops] = Made]
  /\ UNCHANGED <<host, follow, log, opening, catch, shown, end, drops, fails, doubt>>

-----------------------------------------------------------------------------
(* The running state                                                       *)

ReceiveStatus ==
  /\ status.frames # <<>>
  /\ shown' = Head(status.frames)
  /\ status' = [status EXCEPT !.frames = Tail(@)]
  /\ UNCHANGED <<host, follow, log, opening, catch, lists, end, drops, fails, doubt>>

\* What waits for session/list goes on when it is answered, or has failed.
Resumed(c) ==
  /\ lists' = [lists EXCEPT ![c] = Unmade]
  /\ catch' = IF c = ForCatchUp THEN Idle ELSE catch
  /\ opening' = IF c = ForOpen THEN [opening EXCEPT !.stage = "ready"] ELSE opening
  /\ UNCHANGED <<host, follow, status, log, end, drops>>

\* refreshRunning(): the answer is applied whenever it comes in.
Refreshed(c) ==
  /\ lists[c] >= 0
  /\ shown' = lists[c]
  /\ doubt' = (doubt \/ lists[c] < shown)
  /\ Resumed(c)
  /\ UNCHANGED fails

RefreshFails(c) ==
  /\ lists[c] # Unmade /\ fails < MaxFails
  /\ fails' = fails + 1 /\ doubt' = TRUE
  /\ Resumed(c)
  /\ UNCHANGED shown

-----------------------------------------------------------------------------
(* The log                                                                 *)

Invalid == end' = "invalid" /\ UNCHANGED <<log, catch, shown, lists>>

\* append() for a run of events: each follows the last, and its turn runs or has ended.
AppendAll(events) ==
  IF \E i \in DOMAIN events : events[i] # LastSeq + i
  THEN Invalid
  ELSE /\ log' = log \o events
       /\ shown' = IF events = <<>> THEN shown ELSE Last(events) + 1
       /\ UNCHANGED end

\* The first snapshot.
FirstAttach(frame) ==
  IF ~Valid(frame.records, More(frame.records), frame.cursor + 1)
  THEN Invalid /\ UNCHANGED opening
  ELSE /\ log' = frame.records
       /\ opening' = [stage |-> "paging", cursor |-> frame.cursor, more |-> More(frame.records)]
       /\ UNCHANGED <<catch, shown, lists, end>>

\* The events of a page from a seq on; they follow each other (Valid).
From(events, seq) ==
  SubSeq(events, CHOOSE n \in 1..(Len(events) + 1) : \A i \in DOMAIN events : i >= n <=> events[i] >= seq, Len(events))

BugNewer(events) == From(events, LastSeq)  \* mutant: the last event is taken again
Newer(events) == From(events, LastSeq + 1)

\* catchUp() with what it has read: page further back, or append and read the state.
CatchUp(missed, oldest, more, cursor) ==
  IF more /\ oldest > LastSeq + 1
  THEN /\ catch' = [stage |-> "paging", cursor |-> cursor, missed |-> missed, oldest |-> oldest, more |-> more]
       /\ UNCHANGED <<log, shown, lists, end>>
  ELSE /\ AppendAll(missed)
       /\ \/ /\ end' = "none" /\ catch' = [Idle EXCEPT !.stage = "refresh"]
             /\ lists' = [lists EXCEPT ![ForCatchUp] = Made]
          \/ end' # "none"

Reattach(frame) ==
  /\ IF frame.cursor < LastSeq \/ ~Valid(frame.records, More(frame.records), frame.cursor + 1)
     THEN Invalid
     ELSE CatchUp(Newer(frame.records), IF frame.records = <<>> THEN 0 ELSE Head(frame.records),
                  More(frame.records), frame.cursor)
  /\ UNCHANGED opening

\* The loop takes a frame when it has dealt with the one before.
Receive ==
  /\ end = "none" /\ catch.stage = "idle" /\ follow.frames # <<>>
  /\ LET frame == Head(follow.frames)
     IN \/ frame.type = "snapshot" /\ opening.stage = "snapshot" /\ FirstAttach(frame)
        \/ frame.type = "snapshot" /\ opening.stage # "snapshot" /\ Reattach(frame)
        \/ /\ frame.type = "event"
           /\ IF frame.seq > LastSeq THEN AppendAll(<<frame.seq>>) ELSE UNCHANGED <<log, shown, end>>
           /\ UNCHANGED <<opening, catch, lists>>
  /\ follow' = [follow EXCEPT !.frames = Tail(@)]
  /\ UNCHANGED <<host, status, drops, fails, doubt>>

\* A page of catchUp() arrives.
CatchPage ==
  /\ end = "none" /\ catch.stage = "paging"
  /\ \E records \in Page(catch.oldest) :
       IF Valid(records, More(records), catch.oldest)
       THEN CatchUp(Newer(records) \o catch.missed, Head(records), More(records), catch.cursor)
       ELSE Invalid
  /\ UNCHANGED <<host, follow, status, opening, drops, fails, doubt>>

\* The call of a page fails: the loop drops what was missed and opens the stream again.
CatchFails ==
  /\ end = "none" /\ catch.stage = "paging" /\ fails < MaxFails
  /\ catch' = Idle /\ follow' = Broken
  /\ fails' = fails + 1
  /\ UNCHANGED <<host, status, log, opening, shown, lists, end, drops, doubt>>

\* open() pages back while the loop already appends; a failed call fails the attach.
OpenPage ==
  /\ end = "none" /\ opening.stage = "paging" /\ opening.more
  /\ LET before == IF log = <<>> THEN opening.cursor + 1 ELSE Head(log)
     IN \E records \in Page(before) :
          IF Valid(records, More(records), before)
          THEN /\ log' = records \o log
               /\ opening' = [opening EXCEPT !.more = More(records)]
               /\ UNCHANGED <<catch, shown, lists, end>>
          ELSE Invalid /\ UNCHANGED opening
  /\ UNCHANGED <<host, follow, status, drops, fails, doubt>>

OpenFails ==
  /\ end = "none" /\ opening.stage = "paging" /\ opening.more /\ fails < MaxFails
  /\ end' = "unreachable" /\ fails' = fails + 1
  /\ UNCHANGED <<host, follow, status, log, opening, catch, shown, lists, drops, doubt>>

\* The whole log is there: read the running state unless it is known.
Opened ==
  /\ end = "none" /\ opening.stage = "paging" /\ ~opening.more
  /\ IF shown = -1
     THEN opening' = [opening EXCEPT !.stage = "refresh"] /\ lists' = [lists EXCEPT ![ForOpen] = Made]
     ELSE opening' = [opening EXCEPT !.stage = "ready"] /\ UNCHANGED lists
  /\ UNCHANGED <<host, follow, status, log, catch, shown, end, drops, fails, doubt>>

Step ==
  \/ OpenFollow \/ OpenStatus \/ ReceiveStatus \/ Receive \/ CatchPage \/ OpenPage \/ Opened
  \/ \E c \in Callers : Read(c) \/ Refreshed(c)

FollowNext ==
  \/ Commit \/ Step
  \/ DropFollow \/ DropStatus \/ CatchFails \/ OpenFails
  \/ \E c \in Callers : RefreshFails(c)

FollowSpec == FollowInit /\ [][FollowNext]_followVars
FairFollowSpec == FollowSpec /\ WF_followVars(Step)

-----------------------------------------------------------------------------
(* Properties                                                              *)

\* The log of a terminal is a piece of the Host's without a gap or a repetition, whole once
\* the session is open; and a Host that keeps its history never looks as if it had lost it.
LogFollowsHost ==
  /\ end # "invalid"
  /\ \A i \in DOMAIN log : log[i] = log[1] + i - 1 /\ log[i] < host
  /\ opening.stage \in {"refresh", "ready"} /\ log # <<>> => log[1] = 0

\* Every event of the Host comes to the terminal, unless the session could not be opened.
CatchesUp ==
  \A n \in 0..(MaxLog - 1) :
    host > n ~> end = "unreachable" \/ \E i \in DOMAIN log : log[i] = n

\* When nothing is under way the terminal shows whether a turn runs, except after an answer
\* of session/list that a newer event overtook, or a list call that failed.
RunningIsShown ==
  /\ end = "none" /\ opening.stage = "ready" /\ catch.stage = "idle"
  /\ follow.up /\ follow.frames = <<>> /\ status.up /\ status.frames = <<>>
  /\ \A c \in Callers : lists[c] = Unmade
  => doubt \/ shown = host
=============================================================================
