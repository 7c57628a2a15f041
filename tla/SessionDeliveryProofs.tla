------------------------- MODULE SessionDeliveryProofs -------------------------
(***************************************************************************)
(* What SessionDelivery guarantees for every set of messages, every mode   *)
(* and every number of crashes: its types, that a message the ledger calls *)
(* consumed is in the durable log, that a message enters the log once and  *)
(* not at all when it was recalled, and that the service implements        *)
(* DeliveryPromise.                                                        *)
(***************************************************************************)
EXTENDS SessionDelivery, TLAPS

\* A transition of some rows leaves a ledger.
LEMMA MarkedType ==
  ASSUME NEW table \in [Messages -> RowType], NEW S,
         NEW delivery \in Live \cup {"cancelled", "consumed"}, NEW claim \in BOOLEAN
  PROVE  Marked(table, S, delivery, claim) \in [Messages -> RowType]
<1>1. ASSUME NEW m \in Messages
      PROVE  [delivery |-> delivery, claimed |-> table[m].claimed \/ claim] \in RowType
  <2>1. table[m].claimed \in BOOLEAN
    BY DEF RowType
  <2>2. (table[m].claimed \/ claim) \in BOOLEAN
    BY <2>1
  <2> QED
    BY <2>2 DEF RowType, Live, Withdrawn
<1> QED
  BY <1>1 DEF Marked

\* The sweep of the session leaves a ledger.
LEMMA SweptType ==
  ASSUME row \in [Messages -> RowType]
  PROVE  SweptRows \in [Messages -> RowType]
<1>1. ASSUME NEW m \in Messages
      PROVE  [row[m] EXCEPT !.delivery = "expired"] \in RowType
  BY DEF RowType, Live, Withdrawn
<1> QED
  BY <1>1 DEF SweptRows

\* The empty session is a session.
LEMMA EmptyType == EmptySession \in SessionType
BY DEF EmptySession, SessionType, Sent

\* Removing messages from an inbox keeps the session's type and its log.
LEMMA WithoutType ==
  ASSUME NEW session \in SessionType, NEW S
  PROVE  /\ Without(session, S) \in SessionType
         /\ Without(session, S).log = session.log
BY DEF Without, SessionType

\* Enqueueing keeps the session's type.
LEMMA EnqueueType ==
  ASSUME NEW session \in SessionType, NEW m \in Sent("queue") \cup Sent("steer")
  PROVE  /\ Enqueue(session, m) \in SessionType
         /\ Enqueue(session, m).log = session.log
BY DEF Enqueue, SessionType, Sent

\* Delivery types its results and leaves both logs alone.
LEMMA DeliverType ==
  ASSUME TypeOK, NEW m \in Sent("queue") \cup Sent("steer"),
         NEW table \in [Messages -> RowType], NEW recovering \in BOOLEAN,
         Deliver(m, table, recovering)
  PROVE  /\ row' \in [Messages -> RowType]
         /\ mem' \in SessionType /\ mem'.log = mem.log
         /\ awake' \in BOOLEAN
         /\ flushing' \subseteq Messages
         /\ receipts' \subseteq receipts \cup Logged(mem)
<1>1. m \in Messages /\ row \in [Messages -> RowType]
  BY DEF Sent, TypeOK
<1>2. SweptRows \in [Messages -> RowType]
  BY <1>1, SweptType
<1>3. Enqueue(mem, m) \in SessionType /\ Enqueue(mem, m).log = mem.log
  BY EnqueueType DEF TypeOK
<1>4. CASE UNCHANGED <<mem, awake, flushing>>
  <2>1. row' \in {table, SweptRows} /\ receipts' \subseteq receipts \cup Logged(mem)
    BY <1>1, <1>4 DEF Deliver
  <2> QED
    BY <1>2, <1>4, <2>1 DEF TypeOK
<1>5. CASE ~UNCHANGED <<mem, awake, flushing>>
  <2>1. /\ row' = table /\ flushing' = flushing \cup {m} /\ receipts' = receipts
        /\ mem' \in {mem, Enqueue(mem, m)}
    BY <1>5 DEF Deliver
  <2>2. awake' \in BOOLEAN
    BY <1>5 DEF Deliver, TypeOK
  <2> QED
    BY <1>1, <1>3, <2>1, <2>2 DEF TypeOK
<1> QED
  BY <1>4, <1>5

\* Acknowledging flushes and types the ledger.
LEMMA AcknowledgeType ==
  ASSUME TypeOK, NEW S, Acknowledge(S)
  PROVE  /\ row' \in [Messages -> RowType]
         /\ disk' = mem
         /\ receipts' \subseteq receipts
BY MarkedType DEF Acknowledge, TypeOK

\* A claim keeps rows, session and turn well typed and leaves the log alone.
LEMMA ClaimType ==
  ASSUME TypeOK, NEW S \in SUBSET Messages, NEW step \in 0..2,
         NEW cutoff \in SUBSET Messages, Claim(S, step, cutoff, mem)
  PROVE  /\ row' \in [Messages -> RowType]
         /\ mem' \in SessionType /\ mem'.log = mem.log
         /\ turn' \in TurnType
<1>1. row' \in [Messages -> RowType]
  <2>1. row' = Marked(row, S, "admitted", TRUE)
    BY DEF Claim
  <2>2. "admitted" \in Live \cup {"cancelled", "consumed"}
    BY DEF Live
  <2> QED
    BY <2>1, <2>2, MarkedType DEF TypeOK
<1>2. turn' \in TurnType
  BY DEF Claim, TypeOK, TurnType
<1>3. mem' = Without(mem, S)
  BY DEF Claim
<1> QED
  BY <1>1, <1>2, <1>3, WithoutType DEF TypeOK

\* Withdrawing rows leaves a ledger.
LEMMA CancelType ==
  ASSUME TypeOK, NEW S, CancelRows(S)
  PROVE  row' \in [Messages -> RowType] /\ recalled' \subseteq Messages
<1>1. "cancelled" \in Live \cup {"cancelled", "consumed"} /\ FALSE \in BOOLEAN
  OBVIOUS
<1>2. row' \in [Messages -> RowType]
  BY <1>1, MarkedType DEF CancelRows, TypeOK
<1> QED
  BY <1>2 DEF CancelRows, TypeOK, LiveRows

\* The initial state is well typed.
LEMMA InitType == Init => TypeOK
<1> SUFFICES ASSUME Init PROVE TypeOK
  OBVIOUS
<1>1. row \in [Messages -> RowType]
  BY DEF Init, RowType
<1>2. turn \in TurnType
  BY DEF Init, NoTurn, TurnType
<1>3. disk \in SessionType /\ mem \in SessionType
  BY EmptyType DEF Init
<1>4. up \in BOOLEAN /\ awake \in BOOLEAN
  BY DEF Init
<1>5. recovery \in {"none"} /\ toRecover = {} /\ flushing = {} /\ receipts = {} /\ lapsed = {}
      /\ recalled = {} /\ dropped = {}
  BY DEF Init
<1>6. crashes \in 0..MaxCrashes /\ aborts \in 0..MaxAborts /\ inputs \in 0..MaxInputs
  BY DeliveryAssumption DEF Init, DeliveryAssumption
<1> QED
  BY <1>1, <1>2, <1>3, <1>4, <1>5, <1>6 DEF TypeOK

\* Every step of the host, of its recovery and of a turn keeps the types.
LEMMA TypeStep == TypeOK /\ [Next]_vars => TypeOK'
<1> SUFFICES ASSUME TypeOK, [Next]_vars PROVE TypeOK'
  OBVIOUS
<1> USE DeliveryAssumption DEF DeliveryAssumption
<1>idle. NoTurn \in TurnType
  BY DEF NoTurn, TurnType
<1>lost. Abandoned \subseteq Messages
  BY DEF Abandoned, TypeOK, TurnType
<1>0. CASE UNCHANGED vars
  BY <1>0 DEF TypeOK, vars
<1>1. CASE Start
  BY <1>1 DEF Start, Recover, Logged, TypeOK, ledger, counters, history
<1>2. CASE Crash
  <2>1. up' \in BOOLEAN /\ awake' \in BOOLEAN
    BY <1>2 DEF Crash
  <2> QED
    BY <1>2, <1>idle, <2>1, EmptyType DEF Crash, TypeOK, ledger, history
<1>3. CASE Dispose
  <2>1. Without(mem, Messages) \in SessionType
    BY WithoutType DEF TypeOK
  <2>2. up' \in BOOLEAN /\ awake' \in BOOLEAN
    BY <1>3 DEF Dispose
  <2> QED
    BY <1>3, <1>idle, <2>1, <2>2, EmptyType DEF Dispose, TypeOK, ledger, history
<1>4. CASE Persist
  BY <1>4 DEF Persist, TypeOK, ledger, host, counters, history
<1>5. CASE RecoverConfirm
  <2>1. row' \in [Messages -> RowType] /\ disk' = mem /\ receipts' \subseteq receipts
    BY <1>5, AcknowledgeType DEF RecoverConfirm
  <2>2. toRecover' \subseteq Sent("queue") \cup Sent("steer")
    BY <1>5 DEF RecoverConfirm, Sent, DeliveryAssumption
  <2> QED
    BY <1>5, <2>1, <2>2 DEF RecoverConfirm, TypeOK, counters, history
<1>6. CASE RecoverDone
  BY <1>6 DEF RecoverDone, TypeOK, ledger, counters, history
<1>7. CASE RecoverFail
  BY <1>7, <1>idle, <1>lost DEF RecoverFail, TypeOK, ledger
<1>8. CASE EnsureReady
  BY <1>8 DEF EnsureReady, Recover, Logged, TypeOK, ledger, counters, history
<1>9. CASE TurnStart
  <2>1. PICK S \in FirstClaim(mem) : Claim(S, 1, Rows, mem)
    BY <1>9 DEF TurnStart
  <2>2. S \subseteq Messages /\ Rows \subseteq Messages
    BY DEF FirstClaim, TypeOK, SessionType, Sent, Rows
  <2>3. row' \in [Messages -> RowType] /\ mem' \in SessionType /\ turn' \in TurnType
    BY <2>1, <2>2, ClaimType
  <2> QED
    BY <1>9, <2>3 DEF TurnStart, TypeOK, counters, history
<1>10. CASE UserTurn
  <2>1. mem.nextStep \subseteq Messages /\ Rows \subseteq Messages
    BY DEF TypeOK, SessionType, Sent, Rows
  <2>2. Claim(mem.nextStep, 1, Rows, mem)
    BY <1>10 DEF UserTurn
  <2>3. row' \in [Messages -> RowType] /\ mem' \in SessionType /\ turn' \in TurnType
    BY <2>1, <2>2, ClaimType
  <2> QED
    BY <1>10, <2>3 DEF UserTurn, TypeOK, history
<1>11. CASE LaterStep
  <2>1. mem.nextStep \subseteq Messages /\ turn.cutoff \subseteq Messages
    BY DEF TypeOK, SessionType, Sent, TurnType
  <2>2. Claim(mem.nextStep, 2, turn.cutoff, mem) /\ 2 \in 0..2
    BY <1>11 DEF LaterStep
  <2>3. row' \in [Messages -> RowType] /\ mem' \in SessionType /\ turn' \in TurnType
    BY ONLY TypeOK, <2>1, <2>2, ClaimType
  <2> QED
    BY <1>11, <2>3 DEF LaterStep, TypeOK, counters, history
<1>12. CASE PreStepConfirm
  <2>1. row' \in [Messages -> RowType] /\ disk' = mem /\ receipts' \subseteq receipts
    BY <1>12, AcknowledgeType DEF PreStepConfirm
  <2>2. turn' \in TurnType
    BY <1>12 DEF PreStepConfirm, TypeOK, TurnType
  <2>3. receipts' \subseteq Messages /\ disk' \in SessionType /\ mem' \in SessionType
    BY <1>12, <2>1 DEF PreStepConfirm, TypeOK
  <2>4. UNCHANGED <<lapsed, up, awake, recovery, toRecover, flushing, counters, history>>
    BY <1>12 DEF PreStepConfirm
  <2> QED
    BY <2>1, <2>2, <2>3, <2>4 DEF TypeOK, counters, history
<1>13. CASE PreStepDecide
  <2>1. SweptRows \in [Messages -> RowType]
    BY SweptType DEF TypeOK
  <2>2. PICK notes \in Batches(SweptRows) :
          /\ row' = [m \in Messages |-> IF m \in notes THEN [SweptRows[m] EXCEPT !.claimed = TRUE]
                                                       ELSE SweptRows[m]]
          /\ turn' = [turn EXCEPT !.phase = "decided",
                        !.entering = notes \cup {m \in turn.claimed : Enters(m, SweptRows)},
                        !.batch = @ \cup notes]
    BY <1>13 DEF PreStepDecide
  <2>3. notes \subseteq Messages
    BY DEF Batches, Notes, TypeOK, TurnType
  <2>4. row' \in [Messages -> RowType]
    BY <2>1, <2>2 DEF RowType
  <2>5. turn' \in TurnType
    BY <2>2, <2>3 DEF TypeOK, TurnType
  <2> QED
    BY <1>13, <2>4, <2>5 DEF PreStepDecide, TypeOK, counters, history
<1>14. CASE Append
  <2>1. mem' \in SessionType
    BY <1>14 DEF Append, TypeOK, SessionType
  <2>2. turn' \in TurnType /\ receipts' \subseteq Messages
    BY <1>14 DEF Append, TypeOK, TurnType
  <2> QED
    BY <1>14, <2>1, <2>2 DEF Append, TypeOK, ledger, counters, history
<1>15. CASE Confirm
  <2>1. row' \in [Messages -> RowType] /\ disk' = mem /\ receipts' \subseteq receipts
    BY <1>15, AcknowledgeType DEF Confirm
  <2> QED
    BY <1>15, <2>1 DEF Confirm, TypeOK, counters, history
<1>16. CASE TurnEnd
  BY <1>16, <1>idle DEF TurnEnd, TypeOK, ledger, counters, history
<1>17. CASE Abort
  BY <1>17, <1>idle, <1>lost DEF Abort, TypeOK, ledger
<1>18. CASE NativeStop
  <2>1. row' \in [Messages -> RowType] /\ recalled' \subseteq Messages
    BY <1>18, CancelType DEF NativeStop
  <2>2. Without(mem, Messages) \in SessionType
    BY WithoutType DEF TypeOK
  <2>3. up' \in BOOLEAN /\ awake' \in BOOLEAN
    BY <1>18 DEF NativeStop, TypeOK
  <2> QED
    BY <1>18, <1>idle, <1>lost, <2>1, <2>2, <2>3 DEF NativeStop, TypeOK
<1>19. ASSUME NEW m \in Messages,
              Lapse(m) \/ RecoverRow(m) \/ Admitted(m) \/ Receive(m)
              \/ \E local \in BOOLEAN : Cancel(m, local)
       PROVE  TypeOK'
  <2>1. CASE Lapse(m)
    BY <2>1 DEF Lapse, TypeOK, host, counters, history
  <2>2. CASE RecoverRow(m)
    <3>1. m \in Sent("queue") \cup Sent("steer")
      BY <2>2 DEF RecoverRow, TypeOK
    <3>2. /\ row' \in [Messages -> RowType] /\ mem' \in SessionType /\ awake' \in BOOLEAN
          /\ flushing' \subseteq Messages /\ receipts' \subseteq receipts \cup Logged(mem)
      BY <2>2, <3>1, DeliverType DEF RecoverRow, TypeOK
    <3>3. Logged(mem) \subseteq Messages
      BY DEF Logged
    <3> QED
      BY <2>2, <3>2, <3>3 DEF RecoverRow, TypeOK, counters, history
  <2>3. CASE Admitted(m)
    <3>1. row' \in [Messages -> RowType]
      <4>1. row' = Marked(row, {m}, "admitted", FALSE)
        BY <2>3 DEF Admitted
      <4> QED
        BY <4>1, MarkedType DEF TypeOK, Live
    <3> QED
      BY <2>3, <3>1 DEF Admitted, TypeOK, counters, history
  <2>4. CASE Receive(m)
    <3> DEFINE table == IF m \in Rows THEN row ELSE [row EXCEPT ![m].delivery = "accepted"]
    <3>1. table \in [Messages -> RowType]
      BY DEF TypeOK, RowType, Live
    <3>2. CASE Mode[m] = "defer"
      BY <2>4, <3>1, <3>2 DEF Receive, TypeOK, counters, history
    <3>3. CASE Mode[m] # "defer"
      <4>1. m \in Sent("queue") \cup Sent("steer")
        BY <3>3 DEF Sent, DeliveryAssumption
      <4>2. Deliver(m, table, FALSE)
        BY <2>4, <3>3 DEF Receive
      <4>3. /\ row' \in [Messages -> RowType] /\ mem' \in SessionType /\ awake' \in BOOLEAN
            /\ flushing' \subseteq Messages /\ receipts' \subseteq receipts \cup Logged(mem)
        <5> HIDE DEF table
        <5> QED
          BY <3>1, <4>1, <4>2, DeliverType
      <4>4. Logged(mem) \subseteq Messages
        BY DEF Logged
      <4> QED
        BY <2>4, <4>3, <4>4 DEF Receive, TypeOK, counters, history
    <3> QED
      BY <3>2, <3>3
  <2>5. CASE \E local \in BOOLEAN : Cancel(m, local)
    <3>1. row' \in [Messages -> RowType] /\ recalled' \subseteq Messages
      BY <2>5, CancelType DEF Cancel
    <3>2. mem' \in SessionType
      BY <2>5, WithoutType DEF Cancel, TypeOK
    <3> QED
      BY <2>5, <3>1, <3>2 DEF Cancel, TypeOK, counters
  <2> QED
    BY <1>19, <2>1, <2>2, <2>3, <2>4, <2>5
<1> QED
  BY <1>0, <1>1, <1>2, <1>3, <1>4, <1>5, <1>6, <1>7, <1>8, <1>9, <1>10, <1>11, <1>12,
     <1>13, <1>14, <1>15, <1>16, <1>17, <1>18, <1>19 DEF Next

\* Type correctness of the delivery of messages to a session (CommunicationService).
THEOREM TypeCorrect == Spec => []TypeOK
<1> QED
  BY InitType, TypeStep, PTL DEF Spec

-----------------------------------------------------------------------------
\* Why an acknowledgement is safe: the service holds a receipt only for what its
\* own copy of the log has, it holds none when it is down, and a running host never forgets what is durable, so a
\* flush before the acknowledgement makes every acknowledged message durable.
Acknowledgeable ==
  /\ ConsumedIsDurable
  /\ receipts \subseteq Logged(mem)
  /\ IF up THEN Logged(disk) \subseteq Logged(mem) ELSE receipts = {}

\* The sweep consumes nothing.
LEMMA SweptConsumes ==
  ASSUME row \in [Messages -> RowType], NEW m \in Messages,
         SweptRows[m].delivery = "consumed"
  PROVE  row[m].delivery = "consumed"
BY DEF SweptRows, RowType

\* A step after which every consumed row was consumed before, or is acknowledged
\* from the receipts, is safe if it keeps the logs.
LEMMA DeliverConsumes ==
  ASSUME TypeOK, NEW m \in Sent("queue") \cup Sent("steer"),
         NEW table \in [Messages -> RowType], NEW recovering \in BOOLEAN,
         Deliver(m, table, recovering),
         NEW n \in Messages, row'[n].delivery = "consumed"
  PROVE  table[n].delivery = "consumed" \/ row[n].delivery = "consumed"
<1>1. row' = table \/ row' = SweptRows
  BY DEF Deliver
<1> QED
  BY <1>1, SweptConsumes DEF TypeOK

\* An acknowledgement only settles messages that the durable log holds.
LEMMA AcknowledgeSafe ==
  ASSUME TypeOK, Acknowledgeable, up, up' = up, mem' = mem,
         NEW S \in SUBSET receipts, Acknowledge(S)
  PROVE  Acknowledgeable'
<1>1. /\ disk' = mem
      /\ row' = Marked(row, S, "consumed", FALSE)
      /\ receipts' = receipts \ S
  BY DEF Acknowledge
<1>2. ConsumedIsDurable'
  BY <1>1 DEF ConsumedIsDurable, Acknowledgeable, TypeOK, Marked, Logged
<1> QED
  BY <1>1, <1>2 DEF Acknowledgeable, Logged

\* A step that keeps the logs and the receipts, and consumes nothing.
LEMMA KeepSafe ==
  ASSUME TypeOK, Acknowledgeable,
         disk'.log = disk.log \/ (up /\ disk'.log = mem.log),
         mem'.log = mem.log, up' = up,
         up \/ receipts' = receipts,
         receipts' \subseteq receipts \cup Logged(mem),
         \A m \in Messages : row'[m].delivery = "consumed" => row[m].delivery = "consumed"
  PROVE  Acknowledgeable'
BY DEF Acknowledgeable, ConsumedIsDurable, Logged

\* Initially nothing is acknowledged.
LEMMA SafeInit == Init => Acknowledgeable
BY DEF Init, Acknowledgeable, ConsumedIsDurable, Logged, EmptySession

\* Every step keeps what was acknowledged in the durable log.
LEMMA SafeStep == TypeOK /\ Acknowledgeable /\ [Next]_vars => Acknowledgeable'
<1> SUFFICES ASSUME TypeOK, Acknowledgeable, [Next]_vars PROVE Acknowledgeable'
  OBVIOUS
<1>0. CASE UNCHANGED vars
  BY <1>0 DEF vars, Acknowledgeable, ConsumedIsDurable, Logged
<1>1. CASE Start
  BY <1>1 DEF Start, Recover, Acknowledgeable, ConsumedIsDurable, Logged, ledger
<1>2. CASE Crash
  BY <1>2 DEF Crash, Acknowledgeable, ConsumedIsDurable, Logged, ledger
<1>3. CASE Dispose
  <2>1. disk'.log = mem.log
    BY <1>3, WithoutType DEF Dispose, TypeOK
  <2> QED
    BY <1>3, <2>1 DEF Dispose, Acknowledgeable, ConsumedIsDurable, Logged, ledger
<1>4. CASE Persist
  BY <1>4, KeepSafe DEF Persist, ledger, host
<1>5. CASE RecoverConfirm
  BY <1>5, AcknowledgeSafe DEF RecoverConfirm
<1>6. CASE RecoverDone
  BY <1>6, KeepSafe DEF RecoverDone, ledger
<1>7. CASE RecoverFail
  BY <1>7, KeepSafe DEF RecoverFail, ledger
<1>8. CASE EnsureReady
  BY <1>8, KeepSafe DEF EnsureReady, Recover, ledger
<1>9. CASE TurnStart \/ UserTurn \/ LaterStep
  <2>1. PICK S \in SUBSET Messages, step \in 0..2, cutoff \in SUBSET Messages :
          Claim(S, step, cutoff, mem)
    <3>1. CASE TurnStart
      <4>1. PICK S \in FirstClaim(mem) : Claim(S, 1, Rows, mem)
        BY <3>1 DEF TurnStart
      <4>2. S \subseteq Messages /\ Rows \subseteq Messages /\ 1 \in 0..2
        BY DEF FirstClaim, TypeOK, SessionType, Sent, Rows
      <4> QED
        BY <4>1, <4>2
    <3>2. CASE UserTurn
      <4>1. mem.nextStep \subseteq Messages /\ Rows \subseteq Messages /\ 1 \in 0..2
        BY DEF TypeOK, SessionType, Sent, Rows
      <4> QED
        BY <3>2, <4>1 DEF UserTurn
    <3>3. CASE LaterStep
      <4>1. mem.nextStep \subseteq Messages /\ turn.cutoff \subseteq Messages /\ 2 \in 0..2
        BY DEF TypeOK, SessionType, Sent, TurnType
      <4> QED
        BY <3>3, <4>1 DEF LaterStep
    <3> QED
      BY <1>9, <3>1, <3>2, <3>3
  <2>2. mem'.log = mem.log
    BY <2>1, ClaimType
  <2>3. row' = Marked(row, S, "admitted", TRUE)
    BY <2>1 DEF Claim
  <2>4. \A m \in Messages : row'[m].delivery = "consumed" => row[m].delivery = "consumed"
    BY <2>3 DEF TypeOK, Marked
  <2>5. up /\ UNCHANGED <<up, disk, receipts>>
    BY <1>9 DEF TurnStart, UserTurn, LaterStep
  <2> QED
    BY <2>2, <2>4, <2>5, KeepSafe
<1>12. CASE PreStepConfirm
  BY <1>12, AcknowledgeSafe DEF PreStepConfirm
<1>13. CASE PreStepDecide
  <2>1. PICK notes \in Batches(SweptRows) :
          row' = [m \in Messages |-> IF m \in notes THEN [SweptRows[m] EXCEPT !.claimed = TRUE]
                                                    ELSE SweptRows[m]]
    BY <1>13 DEF PreStepDecide
  <2>2. SweptRows \in [Messages -> RowType]
    BY SweptType DEF TypeOK
  <2>3. \A m \in Messages : row'[m].delivery = SweptRows[m].delivery
    BY <2>1, <2>2 DEF RowType
  <2>4. \A m \in Messages : row'[m].delivery = "consumed" => row[m].delivery = "consumed"
    BY <2>3, SweptConsumes DEF TypeOK
  <2> QED
    BY <1>13, <2>4, KeepSafe DEF PreStepDecide
<1>14. CASE Append
  <2>1. mem'.log = [m \in Messages |-> IF m \in turn.entering THEN mem.log[m] + 1 ELSE mem.log[m]]
    BY <1>14 DEF Append, TypeOK, SessionType
  <2>2. \A m \in Messages : mem.log[m] \in Nat
    BY DEF TypeOK, SessionType
  <2>3. Logged(mem') = Logged(mem) \cup turn.entering
    BY <2>1, <2>2 DEF Logged, TypeOK, TurnType
  <2>4. Logged(mem)' = Logged(mem') /\ Logged(disk)' = Logged(disk)
    BY <1>14 DEF Logged, Append
  <2>5. up /\ UNCHANGED <<row, up, disk>> /\ receipts' = receipts \cup turn.entering
    BY <1>14 DEF Append, ledger
  <2> QED
    BY <2>3, <2>4, <2>5 DEF Acknowledgeable, ConsumedIsDurable
<1>15. CASE Confirm
  BY <1>15, AcknowledgeSafe DEF Confirm
<1>16. CASE TurnEnd
  BY <1>16, KeepSafe DEF TurnEnd, ledger
<1>17. CASE Abort
  BY <1>17, KeepSafe DEF Abort, ledger
<1>18. CASE NativeStop
  <2>1. row' = Marked(row, Inbox, "cancelled", FALSE)
    BY <1>18 DEF NativeStop, CancelRows
  <2>2. \A m \in Messages : row'[m].delivery = "consumed" => row[m].delivery = "consumed"
    BY <2>1 DEF TypeOK, Marked
  <2>3. mem'.log = mem.log
    BY <1>18, WithoutType DEF NativeStop, TypeOK
  <2> QED
    BY <1>18, <2>2, <2>3, KeepSafe DEF NativeStop
<1>19. ASSUME NEW m \in Messages,
              Lapse(m) \/ RecoverRow(m) \/ Admitted(m) \/ Receive(m)
              \/ \E local \in BOOLEAN : Cancel(m, local)
       PROVE  Acknowledgeable'
  <2>1. CASE Lapse(m)
    BY <2>1, KeepSafe DEF Lapse, host
  <2>2. CASE RecoverRow(m)
    <3>1. m \in Sent("queue") \cup Sent("steer") /\ row \in [Messages -> RowType]
      BY <2>2 DEF RecoverRow, TypeOK
    <3>2. Deliver(m, row, TRUE) /\ up /\ UNCHANGED <<up, disk>>
      BY <2>2 DEF RecoverRow
    <3>3. mem'.log = mem.log /\ receipts' \subseteq receipts \cup Logged(mem)
      BY <3>1, <3>2, DeliverType
    <3>4. \A n \in Messages : row'[n].delivery = "consumed" => row[n].delivery = "consumed"
      BY <3>1, <3>2, DeliverConsumes
    <3> QED
      BY <3>2, <3>3, <3>4, KeepSafe
  <2>3. CASE Admitted(m)
    <3>1. row' = Marked(row, {m}, "admitted", FALSE)
      BY <2>3 DEF Admitted
    <3>2. \A n \in Messages : row'[n].delivery = "consumed" => row[n].delivery = "consumed"
      BY <3>1 DEF TypeOK, Marked
    <3> QED
      BY <2>3, <3>2, KeepSafe DEF Admitted
  <2>4. CASE Receive(m)
    <3> DEFINE table == IF m \in Rows THEN row ELSE [row EXCEPT ![m].delivery = "accepted"]
    <3>1. table \in [Messages -> RowType]
      BY DEF TypeOK, RowType, Live
    <3>2. \A n \in Messages : table[n].delivery = "consumed" => row[n].delivery = "consumed"
      BY DEF TypeOK, RowType
    <3>3. up /\ UNCHANGED <<up, disk>>
      BY <2>4 DEF Receive
    <3>4. CASE Mode[m] = "defer"
      BY <2>4, <3>2, <3>3, <3>4, KeepSafe DEF Receive
    <3>5. CASE Mode[m] # "defer"
      <4>1. m \in Sent("queue") \cup Sent("steer")
        BY <3>5, DeliveryAssumption DEF Sent, DeliveryAssumption
      <4>2. Deliver(m, table, FALSE)
        BY <2>4, <3>5 DEF Receive
      <4> HIDE DEF table
      <4>3. mem'.log = mem.log /\ receipts' \subseteq receipts \cup Logged(mem)
        BY <3>1, <4>1, <4>2, DeliverType
      <4>4. \A n \in Messages : row'[n].delivery = "consumed" => row[n].delivery = "consumed"
        BY <3>1, <3>2, <4>1, <4>2, DeliverConsumes
      <4> QED
        BY <3>3, <4>3, <4>4, KeepSafe
    <3> QED
      BY <3>4, <3>5
  <2>5. CASE \E local \in BOOLEAN : Cancel(m, local)
    <3>1. row' = Marked(row, {m}, "cancelled", FALSE)
      BY <2>5 DEF Cancel, CancelRows
    <3>2. \A n \in Messages : row'[n].delivery = "consumed" => row[n].delivery = "consumed"
      BY <3>1 DEF TypeOK, Marked
    <3>3. mem'.log = mem.log
      BY <2>5, WithoutType DEF Cancel, TypeOK
    <3> QED
      BY <2>5, <3>2, <3>3, KeepSafe DEF Cancel
  <2> QED
    BY <1>19, <2>1, <2>2, <2>3, <2>4, <2>5
<1> QED
  BY <1>0, <1>1, <1>2, <1>3, <1>4, <1>5, <1>6, <1>7, <1>8, <1>9, <1>12, <1>13, <1>14,
     <1>15, <1>16, <1>17, <1>18, <1>19 DEF Next

\* Whatever crashes, aborts and cancellations happen, a message the ledger calls
\* consumed is in the durable session log: confirm() flushes before it acknowledges.
THEOREM AcknowledgedIsDurable == Spec => []ConsumedIsDurable
<1> DEFINE IInv == TypeOK /\ Acknowledgeable
<1>1. Init => IInv
  BY InitType, SafeInit
<1>2. IInv /\ [Next]_vars => IInv'
  BY TypeStep, SafeStep
<1>3. IInv => ConsumedIsDurable
  BY DEF Acknowledgeable
<1> QED
  BY <1>1, <1>2, <1>3, PTL DEF Spec

-----------------------------------------------------------------------------
\* Why a message enters the log once. A queued message is not in the log and not
\* in the batch of the turn; what the turn has claimed is not in the log; and what
\* is in the log has been claimed, and is settled or about to be acknowledged, so
\* that no batch of notes takes it again.

Queued(x) == x.nextTurn \cup x.nextStep

\* One copy of the session, against the ledger.
Sound(table, x) ==
  /\ \A m \in Messages : x.log[m] <= 1
  /\ Queued(x) \cap Logged(x) = {}
  /\ \A m \in Queued(x) \cup Logged(x) : table[m].delivery # "unsent"
  /\ \A m \in Logged(x) : table[m].claimed

\* The turn, against the ledger and the host's copy.
TurnSound(table, x, t) ==
  /\ t.claimed \cup t.entering \subseteq t.batch
  /\ t.batch \cap Queued(x) = {}
  /\ (t.claimed \cup t.entering) \cap Logged(x) = {}
  /\ \A m \in t.claimed \cup t.entering : table[m].delivery # "unsent"
  /\ \A m \in t.claimed : table[m].claimed \/ table[m].delivery \in Withdrawn
  /\ \A m \in t.entering : table[m].claimed

\* What is in the log is settled, or noticed; before a batch is formed, settled.
Noticed(table, x, t, seen) ==
  /\ \A m \in Logged(x) : table[m].delivery \in Live => m \in seen
  /\ t.phase = "confirmed" => \A m \in Logged(x) : table[m].delivery \notin Live

Down == ~up => mem = EmptySession /\ turn = NoTurn

\* Only what was sent lapses, and what was recalled is withdrawn for good.
Stopped ==
  /\ \A m \in lapsed : row[m].delivery # "unsent"
  /\ \A m \in recalled : ~row[m].claimed /\ row[m].delivery \in Withdrawn

Entry ==
  /\ Sound(row, mem) /\ Sound(row, disk)
  /\ TurnSound(row, mem, turn) /\ Noticed(row, mem, turn, receipts)
  /\ Down /\ Stopped

\* How the ledger may change: rows are not unsent again, claims are kept, and a
\* settled row does not change.
Kept(table, after) ==
  \A m \in Messages :
    /\ table[m].delivery # "unsent" => after[m].delivery # "unsent"
    /\ table[m].claimed => after[m].claimed
    /\ table[m].delivery \notin Live \cup {"unsent"} => after[m] = table[m]

\* A transition keeps the ledger so.
LEMMA MarkedKept ==
  ASSUME NEW table \in [Messages -> RowType], NEW S,
         NEW delivery, delivery # "unsent", NEW claim
  PROVE  Kept(table, Marked(table, S, delivery, claim))
BY DEF Kept, Marked, Live, RowType

\* So does the sweep of the session.
LEMMA SweptKept == ASSUME row \in [Messages -> RowType] PROVE Kept(row, SweptRows)
BY DEF Kept, SweptRows, Live, RowType

\* What a step may add to the log: what was on its way in, what the other copy has,
\* or what is not withdrawn. The durable log grows, out of the host's.
Forward ==
  /\ Logged(disk) \subseteq Logged(disk') /\ Logged(disk') \subseteq Logged(disk) \cup Logged(mem)
  /\ \A m \in turn'.entering \cup Logged(mem') :
       m \in turn.entering \cup Logged(mem) \cup Logged(disk) \/ row[m].delivery \notin Withdrawn

IInv == TypeOK /\ Acknowledgeable /\ Entry

\* A copy that keeps its log and queues nothing new stays sound.
LEMMA SoundKept ==
  ASSUME NEW table, NEW after, Kept(table, after), NEW x \in SessionType, Sound(table, x),
         NEW y \in SessionType, y.log = x.log, Queued(y) \subseteq Queued(x)
  PROVE  Sound(after, y)
<1>1. Logged(y) = Logged(x)
  BY DEF Logged
<1>2. Queued(x) \subseteq Messages /\ Logged(x) \subseteq Messages
  BY DEF Queued, Logged, SessionType, Sent
<1> QED
  BY <1>1, <1>2 DEF Sound, Kept

\* So does a turn that goes on, or ends.
LEMMA TurnKept ==
  ASSUME NEW table \in [Messages -> RowType], NEW after, Kept(table, after), NEW x, NEW y,
         y.log = x.log, Queued(y) \subseteq Queued(x),
         NEW t \in TurnType, TurnSound(table, x, t), NEW u,
         u = NoTurn \/ (u.claimed = t.claimed /\ u.entering = t.entering /\ u.batch = t.batch)
  PROVE  TurnSound(after, y, u)
<1>1. Logged(y) = Logged(x)
  BY DEF Logged
<1>2. CASE u = NoTurn
  BY <1>2 DEF TurnSound, NoTurn
<1>3. CASE u.claimed = t.claimed /\ u.entering = t.entering /\ u.batch = t.batch
  <2>1. t.claimed \subseteq Messages /\ t.entering \subseteq Messages
    BY DEF TurnType
  <2>2. \A m \in t.claimed : after[m].claimed \/ after[m].delivery \in Withdrawn
    BY <2>1 DEF TurnSound, Kept, Live, Withdrawn
  <2>3. \A m \in t.claimed \cup t.entering : after[m].delivery # "unsent"
    BY <2>1 DEF TurnSound, Kept
  <2>4. \A m \in t.entering : after[m].claimed
    BY <2>1 DEF TurnSound, Kept
  <2> QED
    BY <1>1, <1>3, <2>2, <2>3, <2>4 DEF TurnSound
<1> QED
  BY <1>2, <1>3

\* A step that leaves the logs alone, queues nothing and lets the turn go on.
LEMMA Quiet ==
  ASSUME IInv, TypeOK', Kept(row, row'),
         mem'.log = mem.log, Queued(mem') \subseteq Queued(mem), disk' \in {disk, mem},
         Logged(disk) \subseteq Logged(disk'),
         \/ turn' = NoTurn
         \/ /\ turn'.claimed = turn.claimed /\ turn'.entering = turn.entering
            /\ turn'.batch = turn.batch
            /\ turn'.phase = "confirmed" =>
                 turn.phase = "confirmed" \/ \A m \in Logged(mem) : row'[m].delivery \notin Live,
         \A m \in Logged(mem) : row'[m].delivery \in Live => m \in receipts'
  PROVE  /\ Sound(row', mem') /\ Sound(row', disk')
         /\ TurnSound(row', mem', turn') /\ Noticed(row', mem', turn', receipts')
         /\ Forward
<1>1. mem \in SessionType /\ disk \in SessionType /\ mem' \in SessionType /\ disk' \in SessionType
      /\ turn \in TurnType /\ row \in [Messages -> RowType]
  BY DEF IInv, TypeOK
<1>2. Sound(row', mem')
  BY <1>1, SoundKept DEF IInv, Entry
<1>3. Sound(row', disk')
  BY <1>1, SoundKept DEF IInv, Entry
<1>4. TurnSound(row', mem', turn')
  BY <1>1, TurnKept DEF IInv, Entry
<1>5. Logged(mem') = Logged(mem)
  BY DEF Logged
<1>6. Noticed(row', mem', turn', receipts')
  <2>1. ASSUME turn.phase = "confirmed", NEW m \in Logged(mem) PROVE row'[m].delivery \notin Live
    <3>1. row[m].delivery \notin Live \cup {"unsent"} /\ m \in Messages
      BY <2>1 DEF IInv, Entry, Noticed, Sound, Logged
    <3> QED
      BY <3>1 DEF Kept
  <2>2. NoTurn.phase # "confirmed"
    BY DEF NoTurn
  <2> QED
    BY <1>5, <2>1, <2>2 DEF Noticed
<1>7. Forward
  <2>1. NoTurn.entering = {}
    BY DEF NoTurn
  <2> QED
    BY <1>5, <2>1 DEF Forward
<1> QED
  BY <1>2, <1>3, <1>4, <1>6, <1>7

\* An acknowledgement keeps the ledger, and settles what it acknowledges.
LEMMA AcknowledgeKept ==
  ASSUME IInv, NEW S \in SUBSET receipts, Acknowledge(S)
  PROVE  /\ Kept(row, row') /\ disk' = mem
         /\ \A m \in Logged(mem) : row'[m].delivery \in Live => m \in receipts'
         /\ S = receipts => \A m \in Logged(mem) : row'[m].delivery \notin Live
<1>1. row' = Marked(row, S, "consumed", FALSE) /\ disk' = mem /\ receipts' = receipts \ S
  BY DEF Acknowledge
<1>2. row \in [Messages -> RowType]
  BY DEF IInv, TypeOK
<1>3. Kept(row, row')
  BY <1>1, <1>2, MarkedKept
<1>4. ASSUME NEW m \in Logged(mem), row'[m].delivery \in Live
      PROVE  row[m].delivery \in Live /\ m \notin S
  BY <1>1, <1>2, <1>4 DEF Marked, Live, Logged
<1> QED
  BY <1>1, <1>3, <1>4 DEF IInv, Entry, Noticed

\* What is in the log and still live was live before, and noticed.
LEMMA StillNoticed ==
  ASSUME IInv, Kept(row, row')
  PROVE  \A m \in Logged(mem) : row'[m].delivery \in Live => row[m].delivery \in Live /\ m \in receipts
<1>1. \A m \in Logged(mem) : m \in Messages /\ row[m].delivery # "unsent"
  BY DEF IInv, Entry, Sound, Logged
<1> QED
  BY <1>1 DEF Kept, IInv, Entry, Noticed

\* What lapsed and what was recalled is stopped as long as the ledger is kept.
LEMMA StoppedKept ==
  ASSUME IInv, Kept(row, row'), lapsed' = lapsed, recalled' = recalled
  PROVE  Stopped'
<1>1. lapsed \subseteq Messages /\ recalled \subseteq Messages
  BY DEF IInv, TypeOK
<1>2. \A m \in recalled : row'[m] = row[m]
  BY <1>1 DEF IInv, Entry, Stopped, Kept, Live, Withdrawn
<1> QED
  BY <1>1, <1>2 DEF IInv, Entry, Stopped, Kept

\* A claim of queued messages.
LEMMA ClaimStep ==
  ASSUME IInv, TypeOK', up, NEW S \in SUBSET Queued(mem), NEW step, NEW cutoff,
         Claim(S, step, cutoff, mem), UNCHANGED <<disk, up, receipts, lapsed, recalled>>
  PROVE  Entry' /\ Forward
<1>1. /\ mem' = Without(mem, S)
      /\ row' = Marked(row, S, "admitted", TRUE)
      /\ turn' = [phase |-> "claimed", step |-> step, cutoff |-> cutoff, claimed |-> S,
                  entering |-> {}, batch |-> turn.batch \cup S]
  BY DEF Claim
<1>2. /\ row \in [Messages -> RowType] /\ mem \in SessionType /\ disk \in SessionType
      /\ mem' \in SessionType
  BY DEF IInv, TypeOK
<1>3. Kept(row, row')
  BY <1>1, <1>2, MarkedKept
<1>4. mem'.log = mem.log /\ Queued(mem') = Queued(mem) \ S /\ Logged(mem') = Logged(mem)
  BY <1>1, <1>2 DEF Without, SessionType, Queued, Logged
<1>5. Sound(row', mem') /\ Sound(row', disk')
  BY <1>2, <1>3, <1>4, SoundKept DEF IInv, Entry
<1>6. TurnSound(row', mem', turn')
  <2>1. S \subseteq Messages /\ S \cap Logged(mem) = {}
    BY <1>2 DEF Queued, SessionType, Sent, IInv, Entry, Sound
  <2>2. ASSUME NEW m \in S PROVE row'[m].claimed \/ row'[m].delivery \in Withdrawn
    <3>1. row[m].delivery # "unsent"
      BY DEF IInv, Entry, Sound
    <3>2. row[m].delivery # "consumed"
      BY <2>1 DEF IInv, Acknowledgeable, ConsumedIsDurable
    <3>3. row[m].delivery \in Live \cup Withdrawn
      BY <1>2, <2>1, <3>1, <3>2 DEF RowType
    <3> QED
      BY <1>1, <1>2, <2>1, <3>3 DEF Marked
  <2>3. \A m \in S : row'[m].delivery # "unsent"
    BY <2>1, <1>3 DEF IInv, Entry, Sound, Kept
  <2> QED
    BY <1>1, <1>4, <2>1, <2>2, <2>3 DEF TurnSound, IInv, Entry
<1>7. Noticed(row', mem', turn', receipts')
  BY <1>1, <1>3, <1>4, StillNoticed DEF Noticed
<1>8. Down' /\ Stopped'
  BY <1>3, StoppedKept DEF Down
<1>9. Forward
  BY <1>1, <1>4 DEF Forward
<1> QED
  BY <1>5, <1>6, <1>7, <1>8, <1>9 DEF Entry

\* A delivery: a message that is handed to the inbox again is neither in the log nor
\* in the batch of the turn.
LEMMA DeliverStep ==
  ASSUME IInv, TypeOK', up, NEW m \in Sent("queue") \cup Sent("steer"),
         NEW table \in [Messages -> RowType], Kept(row, table), NEW recovering \in BOOLEAN,
         Deliver(m, table, recovering), UNCHANGED <<disk, up, turn, lapsed, recalled>>
  PROVE  Entry' /\ Forward /\ Kept(row, row')
<1>1. /\ row \in [Messages -> RowType] /\ mem \in SessionType /\ disk \in SessionType
      /\ mem' \in SessionType /\ turn \in TurnType /\ m \in Messages
  BY DEF IInv, TypeOK, Sent
<1>2. Kept(row, row') /\ receipts \subseteq receipts'
  <2>1. row' \in {table, SweptRows} /\ receipts' \in {receipts, receipts \cup {m}}
    BY DEF Deliver
  <2> QED
    BY <1>1, <2>1, SweptKept
<1>3. CASE mem' = mem
  <2>1. /\ Sound(row', mem') /\ Sound(row', disk') /\ TurnSound(row', mem', turn')
        /\ Noticed(row', mem', turn', receipts') /\ Forward
    BY <1>2, <1>3, StillNoticed, Quiet
  <2> QED
    BY <1>2, <2>1, StoppedKept DEF Entry, Down
<1>4. CASE mem' # mem
  <2>1. /\ row' = table /\ table[m].delivery \in Live /\ m \notin Logged(mem)
        /\ mem' = Enqueue(mem, m) /\ Wakes(m, recovering) /\ receipts' = receipts
    BY <1>4 DEF Deliver
  <2>2. /\ mem'.log = mem.log /\ Logged(mem') = Logged(mem)
        /\ Queued(mem') = Queued(mem) \cup {m}
    BY <1>1, <2>1 DEF Enqueue, SessionType, Logged, Queued
  <2>3. m \notin turn.batch
    BY <2>1 DEF Wakes, Redeliverable, Inbox, Queued, IInv, Entry, TurnSound
  <2>4. Queued(mem) \cup Logged(mem) \subseteq Messages
    BY <1>1 DEF Queued, Logged, SessionType, Sent
  <2>5. Sound(row', mem')
    BY <1>2, <2>1, <2>2, <2>4 DEF IInv, Entry, Sound, Kept, Live
  <2>6. Sound(row', disk')
    BY <1>1, <1>2, SoundKept DEF IInv, Entry
  <2>7. TurnSound(row', mem', turn')
    <3>1. TurnSound(row', mem, turn)
      BY <1>1, <1>2, TurnKept DEF IInv, Entry
    <3> QED
      BY <2>2, <2>3, <3>1 DEF TurnSound
  <2>8. Noticed(row', mem', turn', receipts')
    BY <1>2, <2>1, <2>2, <2>4, StillNoticed DEF Noticed, IInv, Entry
  <2>9. Down' /\ Stopped' /\ Forward
    BY <1>2, <2>2, StoppedKept DEF Down, Forward
  <2> QED
    BY <1>2, <2>5, <2>6, <2>7, <2>8, <2>9 DEF Entry
<1> QED
  BY <1>3, <1>4

\* The decision what enters the model: the notes of a batch are live, hence not yet in
\* the log, and what was withdrawn since it was claimed stays out.
LEMMA DecideStep ==
  ASSUME IInv, TypeOK', PreStepDecide
  PROVE  Entry' /\ Forward
<1>1. PICK notes \in Batches(SweptRows) :
        /\ row' = [m \in Messages |-> IF m \in notes THEN [SweptRows[m] EXCEPT !.claimed = TRUE]
                                                     ELSE SweptRows[m]]
        /\ turn' = [turn EXCEPT !.phase = "decided",
                      !.entering = notes \cup {m \in turn.claimed : Enters(m, SweptRows)},
                      !.batch = @ \cup notes]
  BY DEF PreStepDecide
<1>2. /\ row \in [Messages -> RowType] /\ mem \in SessionType /\ disk \in SessionType
      /\ turn \in TurnType /\ SweptRows \in [Messages -> RowType]
  BY SweptType DEF IInv, TypeOK
<1>3. Kept(row, SweptRows)
  BY <1>2, SweptKept
<1>4. /\ up /\ turn.phase = "confirmed"
      /\ UNCHANGED <<lapsed, up, disk, mem, receipts, recalled>>
  BY DEF PreStepDecide, history
<1>5. \A m \in notes : /\ m \in Messages /\ Mode[m] = "defer"
                       /\ SweptRows[m].delivery \in Live /\ row[m].delivery \in Live
  <2>1. notes \subseteq Notes(SweptRows)
    BY DEF Batches
  <2>2. Notes(SweptRows) \subseteq Messages
    BY <1>2 DEF Notes, TurnType
  <2> QED
    BY <1>2, <2>1, <2>2 DEF Notes, SweptRows, Live
<1>6. \A m \in Messages : /\ row'[m].delivery = SweptRows[m].delivery
                          /\ row'[m].claimed = (SweptRows[m].claimed \/ m \in notes)
  BY <1>1, <1>2 DEF RowType
<1>7. Kept(row, row')
  BY <1>1, <1>2, <1>3, <1>5, <1>6 DEF Kept
<1>8. /\ turn'.phase = "decided" /\ turn'.claimed = turn.claimed
      /\ turn'.entering = notes \cup {m \in turn.claimed : Enters(m, SweptRows)}
      /\ turn'.batch = turn.batch \cup notes
  BY <1>1, <1>2 DEF TurnType
<1>9. \A m \in turn.claimed : /\ m \in Messages
                              /\ Enters(m, SweptRows) => row[m].delivery \notin Withdrawn
  BY <1>2, <1>3 DEF TurnType, Enters, Kept, Live, Withdrawn
<1>10. Sound(row', mem') /\ Sound(row', disk')
  BY <1>2, <1>4, <1>7, SoundKept DEF IInv, Entry
<1>11. TurnSound(row', mem', turn')
  <2>1. TurnSound(row', mem, turn)
    BY <1>2, <1>7, TurnKept DEF IInv, Entry
  <2>2. notes \cap Logged(mem) = {}
    BY <1>4, <1>5 DEF IInv, Entry, Noticed
  <2>3. notes \cap Queued(mem) = {}
    BY <1>2, <1>5 DEF Queued, SessionType, Sent
  <2>4. \A m \in notes : row'[m].claimed /\ row'[m].delivery # "unsent"
    BY <1>5, <1>6 DEF Live
  <2>5. \A m \in turn.claimed : Enters(m, SweptRows) => row'[m].claimed
    BY <1>6, <1>7, <1>9 DEF Kept, IInv, Entry, TurnSound
  <2> QED
    BY <1>4, <1>8, <2>1, <2>2, <2>3, <2>4, <2>5 DEF TurnSound
<1>12. Noticed(row', mem', turn', receipts')
  BY <1>4, <1>7, <1>8, StillNoticed DEF Noticed
<1>13. Down' /\ Stopped'
  BY <1>4, <1>7, StoppedKept DEF Down
<1>14. Forward
  BY <1>4, <1>5, <1>8, <1>9 DEF Forward, Live, Withdrawn
<1> QED
  BY <1>10, <1>11, <1>12, <1>13, <1>14 DEF Entry

\* The messages of a step enter the log, each for the first time.
LEMMA AppendStep ==
  ASSUME IInv, TypeOK', Append
  PROVE  Entry' /\ Forward
<1>1. /\ row \in [Messages -> RowType] /\ mem \in SessionType /\ disk \in SessionType
      /\ turn \in TurnType
  BY DEF IInv, TypeOK
<1>2. /\ up /\ UNCHANGED <<row, lapsed, up, disk, recalled>>
      /\ receipts' = receipts \cup turn.entering
      /\ mem'.log = [m \in Messages |-> IF m \in turn.entering THEN mem.log[m] + 1 ELSE mem.log[m]]
      /\ Queued(mem') = Queued(mem)
      /\ turn'.phase = "running" /\ turn'.claimed = {} /\ turn'.entering = {}
      /\ turn'.batch = turn.batch
  BY <1>1 DEF Append, SessionType, TurnType, ledger, history, Queued
<1>3. \A m \in Messages : mem.log[m] \in Nat
  BY <1>1 DEF SessionType
<1>4. Logged(mem') = Logged(mem) \cup turn.entering
  BY <1>1, <1>2, <1>3 DEF Logged, TurnType
<1>5. turn.entering \cap Logged(mem) = {} /\ turn.entering \cap Queued(mem) = {}
  BY DEF IInv, Entry, TurnSound
<1>6. \A m \in Messages : mem'.log[m] <= 1
  BY <1>2, <1>3, <1>5 DEF Logged, IInv, Entry, Sound
<1>7. Sound(row', mem')
  BY <1>2, <1>4, <1>5, <1>6 DEF Sound, IInv, Entry, TurnSound
<1>8. Sound(row', disk') /\ TurnSound(row', mem', turn')
  BY <1>2 DEF IInv, Entry, TurnSound
<1>9. Noticed(row', mem', turn', receipts')
  BY <1>2, <1>4 DEF Noticed, IInv, Entry
<1>10. Down' /\ Stopped' /\ Forward
  BY <1>2, <1>4 DEF Down, Stopped, IInv, Entry, Forward
<1> QED
  BY <1>7, <1>8, <1>9, <1>10 DEF Entry

\* A session that goes down leaves nothing in memory; what it had persisted is sound.
LEMMA DownStep ==
  ASSUME IInv, TypeOK', Crash \/ Dispose
  PROVE  Entry' /\ Forward
<1>1. /\ row \in [Messages -> RowType] /\ mem \in SessionType /\ disk \in SessionType
      /\ disk' \in SessionType
  BY DEF IInv, TypeOK
<1>2. /\ mem' = EmptySession /\ turn' = NoTurn /\ up /\ ~up' /\ UNCHANGED <<row, lapsed, recalled>>
  BY DEF Crash, Dispose, ledger, history
<1>3. Logged(EmptySession) = {} /\ Queued(EmptySession) = {} /\ EmptySession.log = [m \in Messages |-> 0]
  BY DEF Logged, Queued, EmptySession
<1>4. Sound(row', mem')
  BY <1>2, <1>3 DEF Sound
<1>5. TurnSound(row', mem', turn') /\ Noticed(row', mem', turn', receipts')
  BY <1>2, <1>3 DEF TurnSound, Noticed, NoTurn
<1>6. disk' = disk \/ disk' = Without(mem, Messages)
  BY DEF Crash, Dispose
<1>7. Sound(row', disk') /\ Logged(disk) \subseteq Logged(disk')
      /\ Logged(disk') \subseteq Logged(disk) \cup Logged(mem)
  <2>1. CASE disk' = disk
    BY <1>2, <2>1 DEF IInv, Entry
  <2>2. CASE disk' = Without(mem, Messages)
    <3>1. disk'.log = mem.log /\ Queued(disk') = {}
      BY <1>1, <2>2 DEF Without, SessionType, Sent, Queued
    <3>2. Kept(row, row')
      BY <1>2 DEF Kept
    <3>3. Sound(row', disk')
      BY <1>1, <3>1, <3>2, SoundKept DEF IInv, Entry
    <3> QED
      BY <1>2, <3>1, <3>3 DEF IInv, Acknowledgeable, Logged
  <2> QED
    BY <1>6, <2>1, <2>2
<1>8. Down' /\ Stopped'
  BY <1>2 DEF Down, Stopped, IInv, Entry
<1>9. NoTurn.entering = {}
  BY DEF NoTurn
<1>10. Forward
  BY <1>2, <1>3, <1>7, <1>9 DEF Forward
<1> QED
  BY <1>4, <1>5, <1>7, <1>8, <1>10 DEF Entry

\* Every other step.
LEMMA QuietStep ==
  ASSUME IInv, TypeOK', Kept(row, row'), up, up',
         mem'.log = mem.log, Queued(mem') \subseteq Queued(mem), disk' \in {disk, mem},
         \/ turn' = NoTurn
         \/ /\ turn'.claimed = turn.claimed /\ turn'.entering = turn.entering
            /\ turn'.batch = turn.batch
            /\ turn'.phase = "confirmed" =>
                 turn.phase = "confirmed" \/ \A m \in Logged(mem) : row'[m].delivery \notin Live,
         \A m \in Logged(mem) : row'[m].delivery \in Live => m \in receipts'
  PROVE  (Stopped' => Entry') /\ Forward
<1>1. Logged(disk) \subseteq Logged(disk')
  BY DEF IInv, Acknowledgeable
<1>2. /\ Sound(row', mem') /\ Sound(row', disk')
      /\ TurnSound(row', mem', turn') /\ Noticed(row', mem', turn', receipts')
      /\ Forward
  BY <1>1, Quiet
<1> QED
  BY <1>2 DEF Entry, Down

\* Initially no session has anything.
LEMMA EntryInit == Init => Entry
<1> SUFFICES ASSUME Init PROVE Entry
  OBVIOUS
<1>1. /\ mem = EmptySession /\ disk = EmptySession /\ turn = NoTurn /\ lapsed = {} /\ recalled = {}
  BY DEF Init
<1>2. Logged(EmptySession) = {} /\ Queued(EmptySession) = {} /\ EmptySession.log = [m \in Messages |-> 0]
  BY DEF Logged, Queued, EmptySession
<1>3. Sound(row, mem) /\ Sound(row, disk)
  BY <1>1, <1>2 DEF Sound
<1>4. TurnSound(row, mem, turn) /\ Noticed(row, mem, turn, receipts)
  BY <1>1, <1>2 DEF TurnSound, Noticed, NoTurn
<1> QED
  BY <1>1, <1>3, <1>4 DEF Entry, Down, Stopped

\* Every step keeps the invariant, and adds to the log only what may enter.
LEMMA EntryStep == IInv /\ TypeOK' /\ [Next]_vars => Entry' /\ Forward
<1> SUFFICES ASSUME IInv, TypeOK', [Next]_vars PROVE Entry' /\ Forward
  OBVIOUS
<1>t. /\ row \in [Messages -> RowType] /\ mem \in SessionType /\ disk \in SessionType
      /\ turn \in TurnType /\ mem' \in SessionType
  BY DEF IInv, TypeOK
<1>r. Kept(row, row)
  BY DEF Kept
<1>s. \A m \in Logged(mem) : row[m].delivery \in Live => m \in receipts
  BY DEF IInv, Entry, Noticed
<1>0. CASE UNCHANGED vars
  BY <1>0 DEF vars, IInv, Entry, Down, Stopped, Forward, Acknowledgeable
<1>1. CASE Start
  <2>1. /\ ~up /\ up' /\ mem' = disk /\ turn' = turn /\ turn = NoTurn /\ mem = EmptySession
        /\ receipts' = receipts \cup Logged(disk)
        /\ UNCHANGED <<row, lapsed, disk, recalled>>
    BY <1>1 DEF Start, Recover, IInv, Entry, Down, ledger, history
  <2>2. TurnSound(row', mem', turn') /\ Noticed(row', mem', turn', receipts')
    BY <2>1 DEF TurnSound, Noticed, NoTurn
  <2>3. Forward
    BY <2>1 DEF Forward, NoTurn
  <2> QED
    BY <2>1, <2>2, <2>3 DEF IInv, Entry, Down, Stopped
<1>2. CASE Crash \/ Dispose
  BY <1>2, DownStep
<1>3. CASE Persist \/ RecoverDone \/ RecoverFail \/ EnsureReady \/ TurnEnd \/ Abort
  <2>1. /\ up /\ up' /\ mem' = mem /\ disk' \in {disk, mem} /\ receipts \subseteq receipts'
        /\ turn' \in {turn, NoTurn} /\ UNCHANGED <<row, lapsed, recalled>>
    BY <1>3 DEF Persist, RecoverDone, RecoverFail, EnsureReady, Recover, TurnEnd, Abort,
                ledger, host, history
  <2>2. Stopped'
    BY <1>r, <2>1, StoppedKept
  <2> QED
    BY <1>r, <1>s, <2>1, <2>2, QuietStep
<1>4. CASE RecoverConfirm \/ Confirm
  <2>1. PICK S \in SUBSET receipts : Acknowledge(S)
    BY <1>4 DEF RecoverConfirm, Confirm
  <2>2. /\ up /\ up' /\ mem' = mem /\ turn' = turn /\ UNCHANGED <<lapsed, recalled>>
    BY <1>4 DEF RecoverConfirm, Confirm, history
  <2>3. /\ Kept(row, row') /\ disk' = mem
        /\ \A m \in Logged(mem) : row'[m].delivery \in Live => m \in receipts'
    BY <2>1, AcknowledgeKept
  <2> QED
    BY <2>2, <2>3, StoppedKept, QuietStep
<1>5. CASE PreStepConfirm
  <2>1. Acknowledge(receipts) /\ up /\ up' /\ mem' = mem /\ UNCHANGED <<lapsed, recalled>>
        /\ turn' = [turn EXCEPT !.phase = "confirmed"]
    BY <1>5 DEF PreStepConfirm, history
  <2>2. /\ turn'.claimed = turn.claimed /\ turn'.entering = turn.entering
        /\ turn'.batch = turn.batch
    BY <1>t, <2>1 DEF TurnType
  <2>3. /\ Kept(row, row') /\ disk' = mem
        /\ \A m \in Logged(mem) : row'[m].delivery \in Live => m \in receipts'
        /\ \A m \in Logged(mem) : row'[m].delivery \notin Live
    BY <2>1, AcknowledgeKept
  <2> QED
    BY <2>1, <2>2, <2>3, StoppedKept, QuietStep
<1>6. CASE TurnStart \/ UserTurn \/ LaterStep
  <2>1. PICK S \in SUBSET Queued(mem), step \in 0..2, cutoff \in SUBSET Messages :
          Claim(S, step, cutoff, mem)
    <3>1. CASE TurnStart
      <4>1. PICK S \in FirstClaim(mem) : Claim(S, 1, Rows, mem)
        BY <3>1 DEF TurnStart
      <4>2. S \subseteq Queued(mem) /\ Rows \subseteq Messages /\ 1 \in 0..2
        BY DEF FirstClaim, Queued, Rows
      <4> QED
        BY <4>1, <4>2
    <3>2. CASE UserTurn
      <4>1. mem.nextStep \subseteq Queued(mem) /\ Rows \subseteq Messages /\ 1 \in 0..2
        BY DEF Queued, Rows
      <4> QED
        BY <3>2, <4>1 DEF UserTurn
    <3>3. CASE LaterStep
      <4>1. mem.nextStep \subseteq Queued(mem) /\ turn.cutoff \subseteq Messages /\ 2 \in 0..2
        BY <1>t DEF Queued, TurnType
      <4> QED
        BY <3>3, <4>1 DEF LaterStep
    <3> QED
      BY <1>6, <3>1, <3>2, <3>3
  <2>2. up /\ UNCHANGED <<disk, up, receipts, lapsed, recalled>>
    BY <1>6 DEF TurnStart, UserTurn, LaterStep, history
  <2> QED
    BY <2>1, <2>2, ClaimStep
<1>7. CASE PreStepDecide
  BY <1>7, DecideStep
<1>8. CASE Append
  BY <1>8, AppendStep
<1>9. ASSUME NEW S \in SUBSET Messages, CancelRows(S), up' = up, disk' = disk, lapsed' = lapsed,
             receipts' = receipts, turn' \in {turn, NoTurn}, up \/ turn' = turn,
             mem' = mem \/ (up /\ mem' \in {Without(mem, T) : T \in SUBSET Messages})
      PROVE  Entry' /\ Forward
  <2>1. row' = Marked(row, S, "cancelled", FALSE)
        /\ recalled' = recalled \cup {m \in S \cap LiveRows : ~row[m].claimed}
    BY <1>9 DEF CancelRows
  <2>2. Kept(row, row')
    BY <1>t, <2>1, MarkedKept
  <2>3. mem'.log = mem.log /\ Queued(mem') \subseteq Queued(mem)
    <3>1. CASE mem' = mem
      BY <3>1
    <3>2. ASSUME NEW T \in SUBSET Messages, mem' = Without(mem, T)
          PROVE  mem'.log = mem.log /\ Queued(mem') \subseteq Queued(mem)
      BY <1>t, <3>2 DEF Without, SessionType, Queued
    <3> QED
      BY <1>9, <3>1, <3>2
  <2>4. Stopped'
    <3>1. \A m \in lapsed : m \in Messages /\ row'[m].delivery # "unsent"
      BY <2>2 DEF IInv, Entry, Stopped, Kept, TypeOK
    <3>2. \A m \in recalled : row'[m] = row[m]
      BY <2>2 DEF IInv, Entry, Stopped, Kept, TypeOK, Live, Withdrawn
    <3>3. \A m \in S \cap LiveRows : ~row[m].claimed =>
             row'[m].delivery = "cancelled" /\ ~row'[m].claimed
      BY <1>t, <2>1 DEF Marked, LiveRows, RowType
    <3> QED
      BY <1>9, <2>1, <3>1, <3>2, <3>3 DEF Stopped, IInv, Entry, Withdrawn
  <2>5. /\ Sound(row', mem') /\ Sound(row', disk') /\ TurnSound(row', mem', turn')
        /\ Noticed(row', mem', turn', receipts') /\ Forward
    BY <1>9, <2>2, <2>3, StillNoticed, Quiet
  <2>6. Down'
    BY <1>9 DEF Down, IInv, Entry
  <2> QED
    BY <2>4, <2>5, <2>6 DEF Entry
<1>10. CASE NativeStop
  BY <1>10, <1>9, <1>t DEF NativeStop, Inbox, SessionType, Sent
<1>11. ASSUME NEW m \in Messages,
              Lapse(m) \/ RecoverRow(m) \/ Admitted(m) \/ Receive(m)
              \/ \E local \in BOOLEAN : Cancel(m, local)
       PROVE  Entry' /\ Forward
  <2>1. CASE Lapse(m)
    <3>1. /\ UNCHANGED <<row, up, disk, mem, receipts, turn, recalled>> /\ lapsed' = lapsed \cup {m}
          /\ row[m].delivery # "unsent"
      BY <2>1 DEF Lapse, host, history, LiveRows, Live
    <3> QED
      BY <3>1 DEF IInv, Entry, Down, Stopped, Forward
  <2>2. CASE RecoverRow(m)
    <3>1. m \in Sent("queue") \cup Sent("steer") /\ Deliver(m, row, TRUE) /\ up
          /\ UNCHANGED <<disk, up, turn, lapsed, recalled>>
      BY <2>2 DEF RecoverRow, history, IInv, TypeOK
    <3> QED
      BY <1>t, <1>r, <3>1, DeliverStep
  <2>3. CASE Admitted(m)
    <3>1. /\ up /\ up' /\ mem' = mem /\ disk' = mem /\ turn' = turn
          /\ UNCHANGED <<lapsed, receipts, recalled>>
          /\ row' = Marked(row, {m}, "admitted", FALSE)
      BY <2>3 DEF Admitted, history
    <3>2. Kept(row, row')
      BY <1>t, <3>1, MarkedKept
    <3> QED
      BY <3>1, <3>2, StillNoticed, StoppedKept, QuietStep
  <2>4. CASE Receive(m)
    <3> DEFINE table == IF m \in Rows THEN row ELSE [row EXCEPT ![m].delivery = "accepted"]
    <3>1. table \in [Messages -> RowType] /\ Kept(row, table)
      BY <1>t DEF RowType, Live, Kept, Rows
    <3>2. up /\ UNCHANGED <<disk, up, turn, lapsed, recalled>>
      BY <2>4 DEF Receive, history
    <3>3. CASE Mode[m] = "defer"
      <4>1. row' = table /\ UNCHANGED <<mem, receipts>>
        BY <2>4, <3>3 DEF Receive
      <4> HIDE DEF table
      <4> QED
        BY <3>1, <3>2, <4>1, StillNoticed, StoppedKept, QuietStep
    <3>4. CASE Mode[m] # "defer"
      <4>1. m \in Sent("queue") \cup Sent("steer")
        BY <3>4, DeliveryAssumption DEF Sent, DeliveryAssumption
      <4>2. Deliver(m, table, FALSE)
        BY <2>4, <3>4 DEF Receive
      <4> HIDE DEF table
      <4> QED
        BY <3>1, <3>2, <4>1, <4>2, DeliverStep
    <3> QED
      BY <3>3, <3>4
  <2>5. CASE \E local \in BOOLEAN : Cancel(m, local)
    <3>1. /\ CancelRows({m}) /\ UNCHANGED <<up, disk, lapsed, receipts, turn>>
          /\ mem' = mem \/ (up /\ mem' = Without(mem, {m}))
      BY <2>5 DEF Cancel
    <3> QED
      BY <3>1, <1>9
  <2> QED
    BY <1>11, <2>1, <2>2, <2>3, <2>4, <2>5
<1> QED
  BY <1>0, <1>1, <1>2, <1>3, <1>4, <1>5, <1>6, <1>7, <1>8, <1>10, <1>11 DEF Next

\* The invariant of the delivery.
LEMMA Inductive == Spec => []IInv
<1>1. Init => IInv
  BY InitType, SafeInit, EntryInit DEF IInv
<1>2. IInv /\ [Next]_vars => IInv'
  BY TypeStep, SafeStep, EntryStep DEF IInv
<1> QED
  BY <1>1, <1>2, PTL DEF Spec

\* A message enters the session's log at most once, in memory and on the disk: through
\* retries, recoveries, aborted batches and claims that race a delivery
\* (communication.mjs:138-206).
THEOREM EntersOnce == Spec => []AddedOnce
<1>1. IInv => AddedOnce
  BY DEF IInv, Entry, Sound, AddedOnce
<1> QED
  BY <1>1, Inductive, PTL

\* A message that was cancelled before any claim never enters the log, on whichever
\* host it was cancelled.
THEOREM RecallsHold == Spec => []RecalledNeverEnters
<1>1. IInv => RecalledNeverEnters
  BY DEF IInv, Entry, Sound, Stopped, RecalledNeverEnters
<1> QED
  BY <1>1, Inductive, PTL

-----------------------------------------------------------------------------
\* Why the service keeps its promise: a row is never unsent again and a settled row
\* does not change, the durable log only grows, out of the host's, and nothing that is
\* withdrawn and not on its way enters (Forward).

Unsent(table) == {m \in Messages : table[m].delivery = "unsent"}

\* Transitions and the sweep send nothing.
LEMMA MarkedUnsent ==
  ASSUME NEW table \in [Messages -> RowType], NEW S, NEW delivery, delivery # "unsent", NEW claim
  PROVE  Unsent(table) \subseteq Unsent(Marked(table, S, delivery, claim))
BY DEF Unsent, Marked, Live

LEMMA SweptUnsent ==
  ASSUME row \in [Messages -> RowType]
  PROVE  Unsent(row) \subseteq Unsent(SweptRows)
BY DEF Unsent, SweptRows, Live

\* The decision of a step changes rows as the sweep does, and claims notes.
LEMMA DecideKept ==
  ASSUME IInv, PreStepDecide
  PROVE  Kept(row, row') /\ Unsent(row) \subseteq Unsent(row')
<1>1. PICK notes \in Batches(SweptRows) :
        row' = [m \in Messages |-> IF m \in notes THEN [SweptRows[m] EXCEPT !.claimed = TRUE]
                                                  ELSE SweptRows[m]]
  BY DEF PreStepDecide
<1>2. row \in [Messages -> RowType] /\ SweptRows \in [Messages -> RowType]
  BY SweptType DEF IInv, TypeOK
<1>3. Kept(row, SweptRows) /\ Unsent(row) \subseteq Unsent(SweptRows)
  BY <1>2, SweptKept, SweptUnsent
<1>4. \A m \in Messages : /\ row'[m].delivery = SweptRows[m].delivery
                          /\ row'[m].claimed = (SweptRows[m].claimed \/ m \in notes)
  BY <1>1, <1>2 DEF RowType
<1>5. \A m \in notes : SweptRows[m].delivery \in Live
  BY DEF Batches, Notes
<1>6. \A m \in notes \cap Messages : row[m].delivery \in Live \cup {"unsent"}
  BY <1>2, <1>5 DEF SweptRows, Live
<1>7. \A m \in Messages \ notes : row'[m] = SweptRows[m]
  BY <1>1
<1>8. Kept(row, row')
  BY <1>3, <1>4, <1>6, <1>7 DEF Kept
<1> QED
  BY <1>3, <1>4, <1>8 DEF Unsent

\* Every step keeps the ledger; a row is sent by the admission of its message, and by
\* nothing else.
LEMMA RowsStep ==
  ASSUME IInv, [Next]_vars
  PROVE  /\ Kept(row, row')
         /\ Unsent(row) \subseteq Unsent(row') \/ \E n \in Unsent(row) : Receive(n)
<1>t. row \in [Messages -> RowType]
  BY DEF IInv, TypeOK
<1>1. CASE row' = row
  BY <1>1 DEF Kept
<1>2. ASSUME NEW S, NEW delivery, delivery # "unsent", NEW claim, row' = Marked(row, S, delivery, claim)
      PROVE  Kept(row, row') /\ Unsent(row) \subseteq Unsent(row')
  BY <1>t, <1>2, MarkedKept, MarkedUnsent
<1>3. CASE row' = SweptRows
  BY <1>t, <1>3, SweptKept, SweptUnsent
<1>4. CASE Start \/ Crash \/ Dispose \/ Persist \/ RecoverDone \/ RecoverFail \/ EnsureReady
           \/ Append \/ TurnEnd \/ Abort \/ UNCHANGED vars
  BY <1>1, <1>4 DEF Start, Crash, Dispose, Persist, RecoverDone, RecoverFail, EnsureReady,
                    Append, TurnEnd, Abort, ledger, vars
<1>5. CASE RecoverConfirm \/ Confirm \/ PreStepConfirm
  BY <1>2, <1>5 DEF RecoverConfirm, Confirm, PreStepConfirm, Acknowledge
<1>6. CASE TurnStart \/ UserTurn \/ LaterStep
  BY <1>2, <1>6 DEF TurnStart, UserTurn, LaterStep, Claim
<1>7. CASE PreStepDecide
  BY <1>7, DecideKept
<1>8. CASE NativeStop
  BY <1>2, <1>8 DEF NativeStop, CancelRows
<1>9. ASSUME NEW m \in Messages,
             Lapse(m) \/ RecoverRow(m) \/ Admitted(m) \/ Receive(m)
             \/ \E local \in BOOLEAN : Cancel(m, local)
      PROVE  /\ Kept(row, row')
             /\ Unsent(row) \subseteq Unsent(row') \/ \E n \in Unsent(row) : Receive(n)
  <2>1. CASE Lapse(m)
    BY <1>1, <2>1 DEF Lapse
  <2>2. CASE RecoverRow(m)
    BY <1>1, <1>3, <2>2 DEF RecoverRow, Deliver
  <2>3. CASE Admitted(m)
    BY <1>2, <2>3 DEF Admitted
  <2>4. CASE Receive(m) /\ m \in Rows
    BY <1>1, <1>3, <2>4 DEF Receive, Deliver
  <2>5. CASE Receive(m) /\ m \notin Rows
    <3> DEFINE table == [row EXCEPT ![m].delivery = "accepted"]
    <3>1. Kept(row, table)
      BY <1>t, <2>5 DEF RowType, Live, Kept, Rows
    <3>2. row' \in {table, SweptRows}
      BY <2>5 DEF Receive, Deliver
    <3>3. m \in Unsent(row)
      BY <2>5 DEF Rows, Unsent
    <3> QED
      BY <1>3, <2>5, <3>1, <3>2, <3>3
  <2>6. CASE \E local \in BOOLEAN : Cancel(m, local)
    BY <1>2, <2>6 DEF Cancel, CancelRows
  <2> QED
    BY <1>9, <2>1, <2>2, <2>3, <2>4, <2>5, <2>6
<1> QED
  BY <1>4, <1>5, <1>6, <1>7, <1>8, <1>9 DEF Next

\* The admission of a message is the promise's Send.
LEMMA SendStep ==
  ASSUME IInv, NEW n \in Unsent(row), Receive(n)
  PROVE  Promise!Send(n)
<1>1. /\ n \in Messages /\ n \notin Rows /\ row[n].delivery = "unsent"
      /\ row \in [Messages -> RowType] /\ mem \in SessionType
  BY DEF Unsent, Rows, IInv, TypeOK
<1>2. n \notin lapsed /\ n \notin Logged(mem) /\ n \notin Logged(disk) /\ n \notin turn.entering
  BY <1>1 DEF IInv, Entry, Stopped, Sound, TurnSound
<1> DEFINE table == [row EXCEPT ![n].delivery = "accepted"]
<1>3. /\ disk' = disk /\ turn' = turn
      /\ \/ row' = table /\ mem' = mem
         \/ Deliver(n, table, FALSE) /\ n \in Sent("queue") \cup Sent("steer")
  BY <1>1, DeliveryAssumption DEF Receive, DeliveryAssumption, Sent
<1>4. table[n].delivery = "accepted" /\ \A m \in Messages \ {n} : table[m] = row[m]
  BY <1>1 DEF RowType
<1>5. row' = table /\ mem'.log = mem.log
  <2>1. CASE Deliver(n, table, FALSE) /\ n \in Sent("queue") \cup Sent("steer")
    <3>1. table[n].delivery \in Live
      BY <1>4 DEF Live
    <3>2. row' = table /\ mem' \in {mem, Enqueue(mem, n)}
      BY <1>2, <2>1, <3>1 DEF Deliver
    <3> QED
      BY <1>1, <2>1, <3>2, EnqueueType
  <2> QED
    BY <1>3, <2>1
<1>6. Logged(mem') = Logged(mem) /\ Logged(disk') = Logged(disk)
  BY <1>3, <1>5 DEF Logged
<1>7. Standing[n] = "unsent"
  BY <1>1, <1>2 DEF Standing
<1>8. \A m \in Messages \ {n} : Standing'[m] = Standing[m]
  BY <1>3, <1>4, <1>5, <1>6 DEF Standing, InFlight
<1>9. Standing'[n] = "pending"
  BY <1>1, <1>2, <1>4, <1>5, <1>6 DEF Standing, Withdrawn
<1>10. Standing' = [Standing EXCEPT ![n] = "pending"]
  BY <1>1, <1>8, <1>9 DEF Standing
<1> QED
  BY <1>7, <1>10 DEF Promise!Send

\* Every other step resolves messages of the promise, or none.
LEMMA ResolveStep ==
  ASSUME IInv, Kept(row, row'), Unsent(row) \subseteq Unsent(row'), Forward, Sound(row', mem')
  PROVE  Promise!Resolve
<1>1. Standing' \in [Messages -> {"unsent", "pending", "entered", "withdrawn"}]
  BY DEF Standing
<1>2. ASSUME NEW m \in Messages
      PROVE  \/ Standing'[m] = Standing[m]
             \/ Standing[m] = "pending" /\ Standing'[m] \in {"entered", "withdrawn"}
  <2>1. CASE m \in Logged(disk)
    BY <2>1 DEF Standing, Forward
  <2>2. CASE m \notin Logged(disk) /\ row[m].delivery = "unsent"
    <3>1. m \notin Logged(mem) /\ row'[m].delivery = "unsent"
      BY <2>2 DEF IInv, Entry, Sound, Unsent
    <3>2. m \notin Logged(disk')
      BY <2>2, <3>1 DEF Forward
    <3> QED
      BY <2>2, <3>1, <3>2 DEF Standing
  <2>3. CASE /\ m \notin Logged(disk) /\ row[m].delivery # "unsent"
             /\ row[m].delivery \in Withdrawn /\ ~InFlight(m)
    <3>1. row'[m] = row[m]
      BY <2>3 DEF Kept, Live, Withdrawn
    <3>2. m \notin turn'.entering \cup Logged(mem') /\ m \notin Logged(disk')
      BY <2>3 DEF Forward, InFlight
    <3> QED
      BY <2>3, <3>1, <3>2 DEF Standing, InFlight
  <2>4. CASE /\ m \notin Logged(disk) /\ row[m].delivery # "unsent"
             /\ ~(row[m].delivery \in Withdrawn /\ ~InFlight(m))
    <3>1. row'[m].delivery # "unsent"
      BY <2>4 DEF Kept
    <3> QED
      BY <2>4, <3>1 DEF Standing
  <2> QED
    BY <2>1, <2>2, <2>3, <2>4
<1> QED
  BY <1>1, <1>2 DEF Promise!Resolve

\* The service keeps the promise of DeliveryPromise: whatever crashes, retries and
\* cancellations happen, a message enters the durable log at most once and never after
\* it was withdrawn (plugins/session-bridge/communication.mjs).
THEOREM Implements == Spec => KeepsPromise
<1>1. Init => Promise!Init
  <2> SUFFICES ASSUME Init PROVE Standing = [m \in Messages |-> "unsent"]
    BY DEF Promise!Init
  <2>1. Logged(disk) = {} /\ \A m \in Messages : row[m].delivery = "unsent"
    BY DEF Init, Logged, EmptySession
  <2> QED
    BY <2>1 DEF Standing
<1>2. IInv /\ IInv' /\ [Next]_vars => [Promise!Next]_Standing
  <2> SUFFICES ASSUME IInv, IInv', [Next]_vars PROVE Promise!Next
    OBVIOUS
  <2>1. Kept(row, row') /\ Forward /\ Sound(row', mem')
    BY RowsStep, EntryStep DEF IInv, Entry
  <2>2. CASE Unsent(row) \subseteq Unsent(row')
    BY <2>1, <2>2, ResolveStep DEF Promise!Next
  <2>3. CASE \E n \in Unsent(row) : Receive(n)
    BY <2>3, SendStep DEF Promise!Next, Unsent
  <2> QED
    BY <2>2, <2>3, RowsStep
<1> QED
  BY <1>1, <1>2, Inductive, PTL DEF Spec, KeepsPromise, Promise!Spec
=============================================================================
