-------------------------- MODULE MCSessionDelivery --------------------------
(* Small instances of the delivery protocol for TLC. *)
EXTENDS SessionDelivery

CONSTANTS q, s, d

QueueSteerDefer ==
  [m \in Messages |-> CASE m = q -> "queue" [] m = s -> "steer" [] OTHER -> "defer"]
=============================================================================
