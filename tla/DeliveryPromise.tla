--------------------------- MODULE DeliveryPromise ---------------------------
(***************************************************************************)
(* What session communication promises for the messages sent to one        *)
(* session, whatever crashes, retries and cancellations happen: a message  *)
(* enters the session's durable log at most once, and never after it was   *)
(* withdrawn.  SessionDelivery implements it.                              *)
(***************************************************************************)
CONSTANT Messages

VARIABLE status  \* where each message stands

Init == status = [m \in Messages |-> "unsent"]

Send(m) == /\ status[m] = "unsent"
           /\ status' = [status EXCEPT ![m] = "pending"]

\* A session writes its log in batches: several messages may enter, and several
\* withdrawals may take effect, in one step.
Resolve ==
  /\ status' \in [Messages -> {"unsent", "pending", "entered", "withdrawn"}]
  /\ \A m \in Messages :
       \/ status'[m] = status[m]
       \/ status[m] = "pending" /\ status'[m] \in {"entered", "withdrawn"}

Next == Resolve \/ \E m \in Messages : Send(m)

Spec == Init /\ [][Next]_status
=============================================================================
