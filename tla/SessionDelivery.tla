--------------------------- MODULE SessionDelivery ---------------------------
(***************************************************************************)
(* CommunicationService, plugins/session-bridge/communication.mjs, for one *)
(* receiving session: how an admitted ledger row reaches the native inbox, *)
(* is claimed by a turn, enters the session log and is acknowledged, while *)
(* hosts crash and resume, turns are aborted and users cancel.             *)
(*                                                                         *)
(* Ledger rows are durable and change in one transaction.  The native      *)
(* inbox and log belong to the Harness (external): they live in memory and *)
(* reach the disk in the background, or at the latest when a flush is      *)
(* awaited, so a crash loses what was not persisted.  Everything a handler *)
(* does between two awaits is one action.                                  *)
(*                                                                         *)
(* The cut-off of a defer batch is a set of rows and not a sequence        *)
(* number, and the rows that fit a batch are any nonempty part of those    *)
(* eligible: Mailbox models the order.  A native write lease lets one host *)
(* at a time own the session, so there is one host here, which restarts.   *)
(***************************************************************************)
EXTENDS Naturals, FiniteSets

CONSTANTS
  Messages,    \* the messages other sessions send to this one
  Mode,        \* delivery mode of each message
  MaxSent,     \* model bound: messages sent
  MaxCrashes,  \* model bound: host crashes and graceful exits
  MaxAborts,   \* model bound: aborted steps and failed recoveries
  MaxInputs,   \* model bound: turns the user starts
  MaxEvents    \* model bound: all of these together

ASSUME DeliveryAssumption ==
  /\ Mode \in [Messages -> {"queue", "steer", "defer"}]
  /\ {MaxSent, MaxCrashes, MaxAborts, MaxInputs, MaxEvents} \subseteq Nat

VARIABLES
  row,        \* ledger: delivery state and batch claim of each message
  lapsed,     \* messages whose deadline has passed
  up,         \* whether a host owns the session
  disk,       \* durable session: log and the two inbox queues
  mem,        \* the same in the host's memory
  awake,      \* the native driver has been asked to run
  recovery,   \* ensureReady: "none", "confirm", "rows", "ready" or "failed"
  toRecover,  \* rows recover() has still to deliver
  flushing,   \* deliver() calls waiting for their flush
  receipts,   \* log entries seen and not yet acknowledged
  turn,       \* the turn in progress
  crashes, aborts, inputs,  \* counters of the bounds
  recalled,   \* history: cancelled before any claim
  dropped     \* history: claimed by a step that was aborted

ledger == <<row, lapsed>>
host == <<up, awake, recovery, toRecover, flushing, receipts, turn>>
counters == <<crashes, aborts, inputs>>
history == <<recalled, dropped>>
vars == <<row, lapsed, up, disk, mem, awake, recovery, toRecover, flushing,
          receipts, turn, crashes, aborts, inputs, recalled, dropped>>

Live == {"accepted", "admitted"}
Withdrawn == {"cancelled", "expired"}
Rows == {m \in Messages : row[m].delivery # "unsent"}
LiveRows == {m \in Messages : row[m].delivery \in Live}
Inbox == mem.nextTurn \cup mem.nextStep
Logged(session) == {m \in Messages : session.log[m] > 0}

NoTurn == [phase |-> "idle", step |-> 0, cutoff |-> {}, claimed |-> {},
           entering |-> {}, batch |-> {}]
EmptySession == [log |-> [m \in Messages |-> 0], nextTurn |-> {}, nextStep |-> {}]

-----------------------------------------------------------------------------
\* Ledger transactions, on the rows of this session (see Mailbox)

\* transition(): a no-op on a settled row.
Marked(table, S, delivery, claim) ==
  [m \in Messages |-> IF m \in S /\ table[m].delivery \in Live
                      THEN [delivery |-> delivery, claimed |-> table[m].claimed \/ claim]
                      ELSE table[m]]
\* expire(): the whole session.
SweptRows == [m \in Messages |-> IF m \in lapsed /\ row[m].delivery \in Live
                                 THEN [row[m] EXCEPT !.delivery = "expired"] ELSE row[m]]
CancelRows(S) ==
  /\ row' = Marked(row, S, "cancelled", FALSE)
  /\ recalled' = recalled \cup {m \in S \cap LiveRows : ~row[m].claimed}

Init ==
  /\ row = [m \in Messages |-> [delivery |-> "unsent", claimed |-> FALSE]]
  /\ lapsed = {}
  /\ up = FALSE
  /\ disk = EmptySession /\ mem = EmptySession
  /\ awake = FALSE
  /\ recovery = "none" /\ toRecover = {} /\ flushing = {} /\ receipts = {}
  /\ turn = NoTurn
  /\ crashes = 0 /\ aborts = 0 /\ inputs = 0
  /\ recalled = {} /\ dropped = {}

\* Model bound.
EventsLeft == crashes + aborts + inputs < MaxEvents

-----------------------------------------------------------------------------
\* The native session (external): enqueueing, persistence, loss

Enqueue(session, m) ==
  IF Mode[m] = "steer" THEN [session EXCEPT !.nextStep = @ \cup {m}]
                       ELSE [session EXCEPT !.nextTurn = @ \cup {m}]
Without(session, S) == [session EXCEPT !.nextTurn = @ \ S, !.nextStep = @ \ S]

Persist ==
  /\ up /\ disk # mem
  /\ disk' = mem
  /\ UNCHANGED <<ledger, host, mem, counters, history>>

\* A claimed message that never entered the log leaves with the turn.
Abandoned == turn.claimed \ Logged(mem)

Crash ==
  /\ up /\ crashes < MaxCrashes /\ EventsLeft
  /\ crashes' = crashes + 1
  /\ up' = FALSE /\ awake' = FALSE
  /\ mem' = EmptySession
  /\ recovery' = "none" /\ toRecover' = {} /\ flushing' = {} /\ receipts' = {}
  /\ turn' = NoTurn
  /\ UNCHANGED <<ledger, disk, aborts, inputs, history>>

\* agent/disposed: native teardown discards the inbox, and the discard handler
\* tells it from the user's cancellation and leaves the rows alone.
Dispose ==
  /\ up /\ crashes < MaxCrashes /\ EventsLeft
  /\ crashes' = crashes + 1
  /\ up' = FALSE /\ awake' = FALSE
  /\ disk' = Without(mem, Messages) /\ mem' = EmptySession
  /\ recovery' = "none" /\ toRecover' = {} /\ flushing' = {} /\ receipts' = {}
  /\ turn' = NoTurn
  /\ UNCHANGED <<ledger, aborts, inputs, history>>

\* The deadline of a row passes; on a settled row nobody looks at it.
Lapse(m) ==
  /\ m \in LiveRows \ lapsed
  /\ lapsed' = lapsed \cup {m}
  /\ UNCHANGED <<row, host, disk, mem, counters, history>>

-----------------------------------------------------------------------------
\* start() and recover()

Recover(session) == recovery' = "confirm" /\ receipts' = receipts \cup Logged(session)

Start ==
  /\ ~up
  /\ up' = TRUE
  /\ mem' = disk
  /\ Recover(disk)
  /\ UNCHANGED <<ledger, disk, awake, toRecover, flushing, turn, counters, history>>

\* confirm(): flush, then acknowledge what the durable log holds.
BugAcknowledge(S) ==  \* mutant: no flush
  /\ UNCHANGED disk
  /\ row' = Marked(row, S, "consumed", FALSE)
  /\ receipts' = receipts \ S
Acknowledge(S) ==
  /\ disk' = mem
  /\ row' = Marked(row, S, "consumed", FALSE)
  /\ receipts' = receipts \ S

RecoverConfirm ==
  /\ up /\ recovery = "confirm"
  /\ Acknowledge(receipts)
  /\ recovery' = "rows"
  /\ toRecover' = {m \in Messages : row'[m].delivery \in Live /\ Mode[m] # "defer"}
  /\ UNCHANGED <<lapsed, up, mem, awake, flushing, turn, counters, history>>

\* deliver() up to its flush: re-read the row, then hand it to the native inbox
\* unless it is there, claimed by the running turn, or already in the log.
BugRedeliverable(m) == m \notin Inbox  \* mutant: forgets the claims of the running turn
Redeliverable(m) == m \notin Inbox /\ m \notin turn.batch
Idle == turn.phase = "idle" /\ ~awake
\* Resume does not wake a durable inbox, so recovery enqueues a waiting message again.
BugWakes(m, recovering) == Redeliverable(m)  \* mutant: recovery leaves the inbox asleep
Wakes(m, recovering) == Redeliverable(m) \/ (recovering /\ m \in Inbox /\ Idle)

Deliver(m, table, recovering) ==
  IF table[m].delivery \notin Live
  THEN row' = table /\ UNCHANGED <<mem, awake, flushing, receipts>>
  ELSE IF m \in lapsed
  THEN row' = SweptRows /\ UNCHANGED <<mem, awake, flushing, receipts>>
  ELSE IF m \in Logged(mem)
  THEN /\ receipts' = receipts \cup {m}
       /\ row' = table
       /\ UNCHANGED <<mem, awake, flushing>>
  ELSE LET wake == Wakes(m, recovering) IN
       /\ row' = table
       /\ flushing' = flushing \cup {m}
       /\ mem' = IF wake THEN Enqueue(mem, m) ELSE mem
       /\ awake' = (awake \/ wake)
       /\ UNCHANGED receipts

RecoverRow(m) ==
  /\ up /\ recovery = "rows" /\ flushing = {}
  /\ m \in toRecover
  /\ toRecover' = toRecover \ {m}
  /\ Deliver(m, row, TRUE)
  /\ UNCHANGED <<lapsed, up, disk, recovery, turn, counters, history>>

RecoverDone ==
  /\ up /\ recovery = "rows" /\ toRecover = {} /\ flushing = {}
  /\ recovery' = "ready"
  /\ UNCHANGED <<ledger, up, disk, mem, awake, toRecover, flushing, receipts, turn,
                 counters, history>>

\* A failed recovery fails the step that waits for it.
RecoverFail ==
  /\ up /\ recovery \in {"confirm", "rows"} /\ aborts < MaxAborts /\ EventsLeft
  /\ aborts' = aborts + 1
  /\ recovery' = "failed" /\ toRecover' = {} /\ flushing' = {}
  /\ turn' = NoTurn
  /\ dropped' = dropped \cup Abandoned
  /\ UNCHANGED <<ledger, up, disk, mem, awake, receipts, crashes, inputs, recalled>>

\* After a failure ensureReady() starts a recovery only when it is called: by a
\* pre-step, which any turn has (see Fairness), or by a call of receive() or send().
EnsureReady ==
  /\ up /\ recovery = "failed"
  /\ Recover(mem)
  /\ UNCHANGED <<ledger, up, disk, mem, awake, toRecover, flushing, turn, counters, history>>

\* The end of deliver(): the flush has happened, the row is admitted.
Admitted(m) ==
  /\ up /\ m \in flushing
  /\ disk' = mem
  /\ row' = Marked(row, {m}, "admitted", FALSE)
  /\ flushing' = flushing \ {m}
  /\ UNCHANGED <<lapsed, up, mem, awake, recovery, toRecover, receipts, turn, counters, history>>

-----------------------------------------------------------------------------
\* receive(): admission (or the retry of an admitted message), then delivery

Receive(m) ==
  LET table == IF m \in Rows THEN row ELSE [row EXCEPT ![m].delivery = "accepted"] IN
  /\ up /\ recovery = "ready"
  /\ m \in Rows \/ Cardinality(Rows) < MaxSent
  /\ IF Mode[m] = "defer"
     THEN /\ m \notin Rows
          /\ row' = table
          /\ UNCHANGED <<mem, awake, flushing, receipts>>
     ELSE /\ m \notin flushing
          /\ Deliver(m, table, FALSE)
  /\ UNCHANGED <<lapsed, up, disk, recovery, toRecover, turn, counters, history>>

-----------------------------------------------------------------------------
\* A turn: claim, pre-step, append

\* preStep() until its first await: the claim is recorded before anything else.
Claim(S, step, cutoff, inbox) ==
  /\ mem' = Without(inbox, S)
  /\ row' = Marked(row, S, "admitted", TRUE)
  /\ turn' = [phase |-> "claimed", step |-> step, cutoff |-> cutoff, claimed |-> S,
              entering |-> {}, batch |-> turn.batch \cup S]

\* turn/start freezes the cutoff; the first step takes one queued message, if any,
\* and everything steered.
FirstClaim(session) ==
  IF session.nextTurn = {} THEN {session.nextStep}
  ELSE {{m} \cup session.nextStep : m \in session.nextTurn}

TurnStart ==
  /\ up /\ turn.phase = "idle"
  /\ awake /\ Inbox # {}
  /\ \E S \in FirstClaim(mem) : Claim(S, 1, Rows, mem)
  /\ UNCHANGED <<lapsed, up, disk, awake, recovery, toRecover, flushing, receipts,
                 counters, history>>

\* A turn the user starts; whatever waits in the inbox may join it.
UserTurn ==
  /\ up /\ turn.phase = "idle" /\ inputs < MaxInputs /\ EventsLeft
  /\ inputs' = inputs + 1
  /\ awake' = TRUE
  /\ Claim(mem.nextStep, 1, Rows, mem)
  /\ UNCHANGED <<lapsed, up, disk, recovery, toRecover, flushing, receipts,
                 crashes, aborts, history>>

LaterStep ==
  /\ up /\ turn.phase = "running" /\ mem.nextStep # {}
  /\ Claim(mem.nextStep, 2, turn.cutoff, mem)
  /\ UNCHANGED <<lapsed, up, disk, awake, recovery, toRecover, flushing, receipts,
                 counters, history>>

\* ensureReady and confirm have been awaited.
PreStepConfirm ==
  /\ up /\ turn.phase = "claimed" /\ recovery = "ready"
  /\ Acknowledge(receipts)
  /\ turn' = [turn EXCEPT !.phase = "confirmed"]
  /\ UNCHANGED <<lapsed, up, mem, awake, recovery, toRecover, flushing, counters, history>>

\* After next(): sweep, take the deferred notes, drop what was withdrawn meanwhile.
Notes(table) == {m \in turn.cutoff : Mode[m] = "defer" /\ table[m].delivery \in Live}
Batches(table) ==
  IF turn.step = 1 /\ Notes(table) # {} THEN SUBSET Notes(table) \ {{}} ELSE {{}}
BugEnters(m, table) == TRUE  \* mutant: withdrawals during the claim are not seen
Enters(m, table) == table[m].delivery \notin Withdrawn

PreStepDecide ==
  /\ up /\ turn.phase = "confirmed"
  /\ \E notes \in Batches(SweptRows) :
       /\ row' = [m \in Messages |-> IF m \in notes THEN [SweptRows[m] EXCEPT !.claimed = TRUE]
                                                    ELSE SweptRows[m]]
       /\ turn' = [turn EXCEPT !.phase = "decided",
                     !.entering = notes \cup {m \in turn.claimed : Enters(m, SweptRows)},
                     !.batch = @ \cup notes]
  /\ UNCHANGED <<lapsed, up, disk, mem, awake, recovery, toRecover, flushing, receipts,
                 counters, history>>

\* The driver appends the step's user messages and observe() sees each of them.
Append ==
  /\ up /\ turn.phase = "decided"
  /\ mem' = [mem EXCEPT !.log = [m \in Messages |->
                                   IF m \in turn.entering THEN @[m] + 1 ELSE @[m]]]
  /\ receipts' = receipts \cup turn.entering
  /\ turn' = [turn EXCEPT !.phase = "running", !.claimed = {}, !.entering = {}]
  /\ UNCHANGED <<ledger, up, disk, awake, recovery, toRecover, flushing, counters, history>>

\* The background confirm that observe() starts.
Confirm ==
  /\ up /\ recovery \in {"rows", "ready", "failed"} /\ receipts # {}
  /\ \E S \in SUBSET receipts \ {{}} : Acknowledge(S)
  /\ UNCHANGED <<lapsed, up, mem, awake, recovery, toRecover, flushing, turn, counters, history>>

TurnEnd ==
  /\ up /\ turn.phase = "running" /\ mem.nextStep = {}
  /\ turn' = NoTurn
  /\ awake' = (mem.nextTurn # {})
  /\ UNCHANGED <<ledger, up, disk, mem, recovery, toRecover, flushing, receipts, counters, history>>

\* A step that throws or is interrupted before its messages are appended.
Abort ==
  /\ up /\ turn.phase \in {"claimed", "confirmed", "decided"} /\ aborts < MaxAborts /\ EventsLeft
  /\ aborts' = aborts + 1
  /\ turn' = NoTurn
  /\ awake' = (Inbox # {})
  /\ dropped' = dropped \cup Abandoned
  /\ UNCHANGED <<ledger, up, disk, mem, recovery, toRecover, flushing, receipts,
                 crashes, inputs, recalled>>

-----------------------------------------------------------------------------
\* Withdrawal

\* cancel(): on the owning host it also empties the inbox; on the sender's host it
\* reaches only the ledger.
Cancel(m, local) ==
  /\ m \in LiveRows
  /\ CancelRows({m})
  /\ IF local /\ up THEN mem' = Without(mem, {m}) ELSE UNCHANGED mem
  /\ UNCHANGED <<lapsed, up, disk, awake, recovery, toRecover, flushing, receipts, turn,
                 counters, dropped>>

\* The user stops the session: native cancel aborts the turn and discards the
\* inbox, and every discarded message is cancelled in the ledger.
NativeStop ==
  /\ up /\ aborts < MaxAborts /\ EventsLeft
  /\ turn.phase # "idle" \/ Inbox # {}
  /\ aborts' = aborts + 1
  /\ CancelRows(Inbox)
  /\ mem' = Without(mem, Messages)
  /\ turn' = NoTurn /\ awake' = FALSE
  /\ dropped' = dropped \cup Abandoned
  /\ UNCHANGED <<lapsed, up, disk, recovery, toRecover, flushing, receipts, crashes, inputs>>

-----------------------------------------------------------------------------
Next ==
  \/ Start \/ Crash \/ Dispose \/ Persist
  \/ RecoverConfirm \/ RecoverDone \/ RecoverFail \/ EnsureReady
  \/ TurnStart \/ UserTurn \/ LaterStep \/ PreStepConfirm \/ PreStepDecide
  \/ Append \/ Confirm \/ TurnEnd \/ Abort \/ NativeStop
  \/ \E m \in Messages :
       \/ Lapse(m) \/ RecoverRow(m) \/ Admitted(m) \/ Receive(m)
       \/ \E local \in BOOLEAN : Cancel(m, local)

Spec == Init /\ [][Next]_vars

\* The host resumes, its promises settle and the native driver runs what waits in
\* the inbox; nothing makes a user act, a deadline pass or a sender retry.  A failed
\* recovery is tried again for the step that waits for it; an idle session has none.
Fairness ==
  /\ WF_vars(Start)
  /\ WF_vars(RecoverConfirm) /\ WF_vars(RecoverDone)
  /\ WF_vars(EnsureReady /\ turn.phase = "claimed")
  /\ \A m \in Messages : WF_vars(RecoverRow(m)) /\ WF_vars(Admitted(m))
  /\ WF_vars(TurnStart) /\ WF_vars(LaterStep) /\ WF_vars(PreStepConfirm)
  /\ WF_vars(PreStepDecide) /\ WF_vars(Append) /\ WF_vars(Confirm) /\ WF_vars(TurnEnd)

FairSpec == Spec /\ Fairness

-----------------------------------------------------------------------------
RowType == [delivery : Live \cup Withdrawn \cup {"unsent", "consumed"}, claimed : BOOLEAN]
Sent(mode) == {m \in Messages : Mode[m] = mode}
SessionType == [log : [Messages -> Nat],
                nextTurn : SUBSET Sent("queue"), nextStep : SUBSET Sent("steer")]
TurnType == [phase : {"idle", "claimed", "confirmed", "decided", "running"}, step : 0..2,
             cutoff : SUBSET Messages, claimed : SUBSET Messages,
             entering : SUBSET Messages, batch : SUBSET Messages]

\* The variables of the ledger, of the two copies of the session and of the service;
\* each inbox queue holds only messages of its own delivery mode.
TypeOK ==
  /\ row \in [Messages -> RowType]
  /\ lapsed \subseteq Messages
  /\ up \in BOOLEAN /\ awake \in BOOLEAN
  /\ disk \in SessionType /\ mem \in SessionType
  /\ recovery \in {"none", "confirm", "rows", "ready", "failed"}
  /\ toRecover \subseteq Sent("queue") \cup Sent("steer")
  /\ flushing \subseteq Messages /\ receipts \subseteq Messages
  /\ turn \in TurnType
  /\ crashes \in 0..MaxCrashes /\ aborts \in 0..MaxAborts /\ inputs \in 0..MaxInputs
  /\ recalled \subseteq Messages /\ dropped \subseteq Messages

\* "A message already in the native log is never added twice"
\* (docs/session-communication.md): not by a retry, a recovery that finds the message
\* in the inbox, a note of an aborted batch, nor a claim racing a delivery.
AddedOnce == \A m \in Messages : mem.log[m] <= 1 /\ disk.log[m] <= 1

\* consumed: "matched against a native user/message and flushed".  The ledger never
\* acknowledges a message that a crash could still lose.
ConsumedIsDurable ==
  \A m \in Messages : row[m].delivery = "consumed" => m \in Logged(disk)

\* "An unclaimed message ... can be stopped from being claimed later": a message
\* cancelled before any claim never enters the log, on whichever host the cancel ran.
RecalledNeverEnters == recalled \cap (Logged(mem) \cup Logged(disk)) = {}

\* A queued or steered message does not wait for ever: once admitted it enters the log
\* or is withdrawn, unless the step that claimed it was aborted.  It may wait in a session
\* whose recovery failed for as long as no turn, receive() or send() asks for another.
Arrives ==
  []<>(recovery # "failed") =>
    \A m \in {n \in Messages : Mode[n] # "defer"} :
      row[m].delivery = "accepted" ~> row[m].delivery \notin Live \/ m \in dropped

\* The promise this service keeps.  A message in flight to the log can no longer be
\* recalled, so it counts as withdrawn only once it cannot enter any more.
InFlight(m) == m \in turn.entering \/ m \in Logged(mem)
Standing ==
  [m \in Messages |->
    IF m \in Logged(disk) THEN "entered"
    ELSE IF row[m].delivery = "unsent" THEN "unsent"
    ELSE IF row[m].delivery \in Withdrawn /\ ~InFlight(m) THEN "withdrawn"
    ELSE "pending"]
Promise == INSTANCE DeliveryPromise WITH status <- Standing
KeepsPromise == Promise!Spec

=============================================================================
