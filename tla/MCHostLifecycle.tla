--------------------------- MODULE MCHostLifecycle ---------------------------
(* Small instances for TLC of the shared Host and of the delivery of messages  *)
(* to one of its sessions. The two modules share no variable, so what one does *)
(* can be seen without the other: in each behaviour one of them moves.         *)
EXTENDS HostLifecycle, HostDelivery

CONSTANTS first, second, near, far, one, plain, quoting

VARIABLE moves

BothInit == Init /\ DeliveryInit /\ moves \in {"host", "delivery"}
HostMoves == moves = "host" /\ Next /\ UNCHANGED deliveryVars
DeliveryMoves == moves = "delivery" /\ DeliveryNext /\ UNCHANGED vars
BothSpec ==
  /\ BothInit /\ [][(HostMoves \/ DeliveryMoves) /\ UNCHANGED moves]_<<vars, deliveryVars, moves>>
  /\ moves = "host" => Fairness
=============================================================================
