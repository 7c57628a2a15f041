---------------------------- MODULE HostDelivery ----------------------------
(* How a Host admits the messages its clients send to one session:           *)
(* tui/src/host/delivery.ts, with agents.ts and queue.ts. A client repeats a *)
(* call whose answer it lost, with the same requestId; the receipt of an     *)
(* admitted message lies in the session itself, in the source of the message *)
(* and in the log of what was ever inserted, so it survives edits,           *)
(* withdrawals and restarts, as far as it has been flushed. A handler is     *)
(* suspended while the session is resumed and while it is flushed.           *)
(*                                                                           *)
(* The inbox, the turns and the log belong to the Harness (external). The    *)
(* order inside a queue is left out: a turn takes any queued message.        *)
EXTENDS Naturals

CONSTANTS
  Requests,   \* request ids; every call carries one, as the terminal's do
  Bodies,     \* payloads: content, mode and context
  Referring,  \* those with the context of a session reference
  Steering,   \* those of mode "steer"
  Calls,      \* calls that may be under way at once
  MaxIds,     \* bound on the ids of messages
  None        \* no call

VARIABLES
  mem, disk,  \* the session as the Host has it, and as it is persisted
  running,    \* the agent's status
  call,       \* the calls under way
  fresh,      \* the next message id
  acked,      \* history: deliveries acknowledged to a client
  withdrawn   \* history: messages whose removal was acknowledged

deliveryVars == <<mem, disk, running, call, fresh, acked, withdrawn>>

Message == [id : Nat, req : Requests, body : Bodies, part : {"context", "text"}]
Receipt(m) == <<m.req, m.body, m.part>>
AllReceipts == Requests \X Bodies \X {"context", "text"}

Session == [next : SUBSET Message, step : SUBSET Message, entered : SUBSET Message,
            dropped : SUBSET Message, receipts : SUBSET AllReceipts]
Everywhere(s) == s.next \cup s.step \cup s.entered \cup s.dropped
EmptySession == [next |-> {}, step |-> {}, entered |-> {}, dropped |-> {}, receipts |-> {}]

Operation == {"deliver", "remove", "edit", "steer"}
\* what: the delivery, or the one whose queued message an update has found.
Call == [op : Operation, phase : {"resolving", "flushing"},
         what : SUBSET (Requests \X Bodies), id : Nat]

ASSUME DeliveryAssumption == MaxIds \in Nat /\ None \notin Call

DeliveryInit ==
  /\ mem = EmptySession /\ disk = EmptySession
  /\ running = FALSE
  /\ call = [c \in Calls |-> None]
  /\ fresh = 0 /\ acked = {} /\ withdrawn = {}

-----------------------------------------------------------------------------
\* The inbox of the Harness (external)

InStep(s, m) == [s EXCEPT !.step = @ \cup {m}, !.receipts = @ \cup {Receipt(m)}]
InTurn(s, m) == [s EXCEPT !.next = @ \cup {m}, !.receipts = @ \cup {Receipt(m)}]
Entered(s, S) == [s EXCEPT !.next = @ \ S, !.step = @ \ S, !.entered = @ \cup S]
Dropped(s, S) == [s EXCEPT !.next = @ \ S, !.step = @ \ S, !.dropped = @ \cup S]
Steered(s, m) == [s EXCEPT !.next = @ \ {m}, !.step = @ \cup {m}]
Edited(s, m, id) == [s EXCEPT !.next = (@ \ {m}) \cup {[m EXCEPT !.id = id]}]

-----------------------------------------------------------------------------
\* session/deliver

Deliver(c, r, b) ==
  /\ call[c] = None
  /\ call' = [call EXCEPT ![c] = [op |-> "deliver", phase |-> "resolving",
                                  what |-> {<<r, b>>}, id |-> 0]]
  /\ UNCHANGED <<mem, disk, running, fresh, acked, withdrawn>>

Resolved(c, op) == call[c] # None /\ call[c].phase = "resolving" /\ call[c].op = op
Ends(c) == call' = [call EXCEPT ![c] = None]
Flushes(c) == call' = [call EXCEPT ![c].phase = "flushing"]

\* The session is not resumed, the client has gone, or the Harness refuses; also
\* the answers that change nothing (unavailable, empty, no turn to steer).
CallFails(c) ==
  /\ call[c] # None
  /\ Ends(c)
  /\ UNCHANGED <<mem, disk, running, fresh, acked, withdrawn>>

\* The request id was used for another payload.
Conflicting(s, r, b) == \E p \in s.receipts : p[1] = r /\ p[2] # b

Text(r, b) == [id |-> fresh, req |-> r, body |-> b, part |-> "text"]
Context(r, b) == [id |-> fresh, req |-> r, body |-> b, part |-> "context"]
Injected(s, r, b) ==
  IF b \in Referring /\ <<r, b, "context">> \notin s.receipts
    THEN InStep(s, Context(r, b)) ELSE s
BugAdmitted(s, r, b) ==  \* mutant: the receipt of the message is not looked for
  IF b \in Steering THEN InStep(Injected(s, r, b), Text(r, b)) ELSE InTurn(Injected(s, r, b), Text(r, b))
Admitted(s, r, b) ==
  IF <<r, b, "text">> \in s.receipts THEN s
  ELSE IF b \in Steering THEN InStep(Injected(s, r, b), Text(r, b))
                         ELSE InTurn(Injected(s, r, b), Text(r, b))

Admit(c, r, b) ==
  /\ Resolved(c, "deliver") /\ call[c].what = {<<r, b>>}
  /\ ~Conflicting(mem, r, b) /\ fresh < MaxIds
  /\ mem' = Admitted(mem, r, b)
  /\ Flushes(c) /\ fresh' = fresh + 1
  /\ UNCHANGED <<disk, running, acked, withdrawn>>

\* The context was injected and the message was refused: a retry finds its receipt.
AdmitPartly(c, r, b) ==
  /\ Resolved(c, "deliver") /\ call[c].what = {<<r, b>>}
  /\ ~Conflicting(mem, r, b) /\ <<r, b, "text">> \notin mem.receipts /\ fresh < MaxIds
  /\ mem' = Injected(mem, r, b)
  /\ Ends(c) /\ fresh' = fresh + 1
  /\ UNCHANGED <<disk, running, acked, withdrawn>>

\* The flush has succeeded, and only then is the call answered.
AnswerCall(c) ==
  /\ call[c] # None /\ call[c].phase = "flushing"
  /\ disk' = mem
  /\ acked' = IF call[c].op = "deliver" THEN acked \cup call[c].what ELSE acked
  /\ withdrawn' = IF call[c].op = "remove" THEN withdrawn \cup call[c].what ELSE withdrawn
  /\ Ends(c)
  /\ UNCHANGED <<mem, running, fresh>>

-----------------------------------------------------------------------------
\* session/updateQueued, on a message the client has seen in some queue

Update(c, op, id) ==
  /\ call[c] = None
  /\ call' = [call EXCEPT ![c] = [op |-> op, phase |-> "resolving", what |-> {}, id |-> id]]
  /\ UNCHANGED <<mem, disk, running, fresh, acked, withdrawn>>

Found(c, op, m) == Resolved(c, op) /\ m \in mem.next /\ m.id = call[c].id
Updates(c, m) ==
  call' = [call EXCEPT ![c] = [op |-> call[c].op, phase |-> "flushing",
                               what |-> {<<m.req, m.body>>}, id |-> m.id]]

RemoveQueued(c, m) ==
  /\ Found(c, "remove", m)
  /\ mem' = Dropped(mem, {m})
  /\ Updates(c, m)
  /\ UNCHANGED <<disk, running, fresh, acked, withdrawn>>

\* The edited message keeps the source, hence the receipt, and gets a new id.
Edit(c, m) ==
  /\ Found(c, "edit", m) /\ fresh < MaxIds
  /\ mem' = Edited(mem, m, fresh)
  /\ fresh' = fresh + 1
  /\ Updates(c, m)
  /\ UNCHANGED <<disk, running, acked, withdrawn>>

\* A steering that throws puts the message back: CallFails.
Steer(c, m) ==
  /\ Found(c, "steer", m) /\ running
  /\ mem' = Steered(mem, m)
  /\ Updates(c, m)
  /\ UNCHANGED <<disk, running, fresh, acked, withdrawn>>

-----------------------------------------------------------------------------
\* session/interrupt: cancel clears both queues, and what was queued is sent again.

Interrupt ==
  /\ running
  /\ mem' = Dropped(mem, mem.step)
  /\ running' = FALSE
  /\ UNCHANGED <<disk, call, fresh, acked, withdrawn>>

\* Turns of the Harness (external). The first step takes what is steered and a
\* queued message, later steps what is steered; an aborted step loses its claims.
Takes(S, lost) == mem' = IF lost THEN Dropped(mem, S) ELSE Entered(mem, S)

TurnStart(S, lost) ==
  /\ ~running /\ S # {}
  /\ mem.step \subseteq S /\ S \subseteq mem.step \cup mem.next
  /\ \A m1, m2 \in S \cap mem.next : m1 = m2
  /\ Takes(S, lost)
  /\ running' = ~lost
  /\ UNCHANGED <<disk, call, fresh, acked, withdrawn>>

LaterStep(lost) ==
  /\ running /\ mem.step # {}
  /\ Takes(mem.step, lost)
  /\ running' = ~lost
  /\ UNCHANGED <<disk, call, fresh, acked, withdrawn>>

TurnEnd ==
  /\ running /\ running' = FALSE
  /\ UNCHANGED <<mem, disk, call, fresh, acked, withdrawn>>

\* The cancellation that keeps nothing.
Stop ==
  /\ mem' = Dropped(mem, mem.next \cup mem.step)
  /\ running' = FALSE
  /\ UNCHANGED <<disk, call, fresh, acked, withdrawn>>

Persist ==
  /\ disk' = mem
  /\ UNCHANGED <<mem, running, call, fresh, acked, withdrawn>>

\* The Host dies, and the next call resumes the session from the disk.
Crash ==
  /\ mem' = disk
  /\ running' = FALSE /\ call' = [c \in Calls |-> None]
  /\ UNCHANGED <<disk, fresh, acked, withdrawn>>

DeliveryNext ==
  \/ \E c \in Calls :
       \/ \E r \in Requests, b \in Bodies :
            Deliver(c, r, b) \/ Admit(c, r, b) \/ AdmitPartly(c, r, b)
       \/ \E op \in Operation \ {"deliver"} : \E id \in 0..fresh : id < fresh /\ Update(c, op, id)
       \/ CallFails(c) \/ AnswerCall(c)
       \/ \E m \in mem.next : RemoveQueued(c, m) \/ Edit(c, m) \/ Steer(c, m)
  \/ \E S \in SUBSET (mem.next \cup mem.step), lost \in BOOLEAN : TurnStart(S, lost)
  \/ \E lost \in BOOLEAN : LaterStep(lost)
  \/ Interrupt \/ TurnEnd \/ Stop \/ Persist \/ Crash

DeliverySpec == DeliveryInit /\ [][DeliveryNext]_deliveryVars

-----------------------------------------------------------------------------
DeliveryTypeOK ==
  /\ mem \in Session /\ disk \in Session
  /\ running \in BOOLEAN
  /\ call \in [Calls -> Call \cup {None}]
  /\ fresh \in Nat
  /\ acked \subseteq Requests \X Bodies /\ withdrawn \subseteq Requests \X Bodies

\* docs/runtime-protocol.md:240: a retry does not admit a message again, and does
\* not bring a cancelled or edited one back: a request has one message, in one
\* place, through concurrent calls, partial admissions, restarts and edits.
Apart(s) ==
  /\ s.next \cap s.step = {} /\ (s.next \cup s.step) \cap (s.entered \cup s.dropped) = {}
  /\ s.entered \cap s.dropped = {}
Single(s) ==
  \A m1, m2 \in Everywhere(s) :
    m1.req = m2.req => m1.body = m2.body /\ (m1.part = m2.part => m1 = m2)
AdmittedOnce == \A s \in {mem, disk} : Apart(s) /\ Single(s)

\* delivery.ts:56-58: an acknowledged delivery is on the disk with its receipt, so
\* no crash loses it and no retry after one admits it again.
Accounted(s) == \A p \in s.receipts : \E m \in Everywhere(s) : Receipt(m) = p
AcknowledgedIsDurable ==
  /\ \A a \in acked : <<a[1], a[2], "text">> \in disk.receipts
  /\ Accounted(mem) /\ Accounted(disk)

\* delivery.ts:61-66: a removal that was acknowledged is final: the message is in
\* no queue and no log, in memory or on the disk, and does not come back.
RemovedStaysOut ==
  \A s \in {mem, disk} : \A m \in s.next \cup s.step \cup s.entered :
    m.part = "text" => <<m.req, m.body>> \notin withdrawn

\* docs/runtime-protocol.md:178: the context is injected ahead of the message. A
\* message never enters the log while its context still waits.
ContextFirst ==
  \A s \in {mem, disk} : \A m \in s.entered :
    m.part = "text" /\ m.body \in Referring
      => <<m.req, m.body, "context">> \in s.receipts
         /\ \A k \in s.next \cup s.step : ~(k.req = m.req /\ k.part = "context")

-----------------------------------------------------------------------------
(* The abstract specification *)

Texts(S, r) == {m \in S : m.req = r /\ m.part = "text"}
Stands(s, r) ==
  IF Texts(s.entered, r) # {} THEN "entered"
  ELSE IF Texts(s.dropped, r) # {} THEN "withdrawn"
  ELSE IF Texts(s.next \cup s.step, r) # {} THEN "waiting" ELSE "none"
OnDisk == [r \in Requests |-> Stands(disk, r)]
Told == {a[1] : a \in acked}

\* delivery.ts:35-60: seen from the disk and from what clients were told, the Host
\* does what HostPromise says.
Durably == INSTANCE HostPromise WITH standing <- OnDisk, told <- Told
KeepsRequests == Durably!Spec
=============================================================================
