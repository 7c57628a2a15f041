----------------------------- MODULE HostPromise -----------------------------
(* What a Host promises its clients about the requests they send to one        *)
(* session: a request stands for one message, which waits and then enters the  *)
(* log or is withdrawn, for good. A client that was told its message was taken *)
(* does not lose it again, whatever is repeated, edited, interrupted or killed.*)
(* A message nobody was told of may be lost. HostDelivery implements it.       *)
CONSTANT Requests

VARIABLES standing, \* what lies on the disk of each request
          told      \* requests acknowledged to a client

Standings == {"none", "waiting", "entered", "withdrawn"}

Init == standing = [r \in Requests |-> "none"] /\ told = {}

\* What happened to a message between two writes is written at once.
GoesOn(from, to) == \/ to = from
                    \/ from = "none"
                    \/ from = "waiting" /\ to \in {"entered", "withdrawn"}

Write ==
  /\ standing' \in [Requests -> Standings]
  /\ \A r \in Requests : GoesOn(standing[r], standing'[r])
  /\ told \subseteq told' /\ \A r \in told' : standing'[r] # "none"

Spec == Init /\ [][Write]_<<standing, told>>
=============================================================================
