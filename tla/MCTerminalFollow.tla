--------------------------- MODULE MCTerminalFollow ---------------------------
(* Small instances of a followed session for TLC, and the feed of the messages *)
(* in its log over every log of up to five such events.                        *)
EXTENDS TerminalFollow, CommunicationFeed

Call(id, peer, kind) == [type |-> "call", id |-> id, peer |-> peer, kind |-> kind]
Result(id, failed) == [type |-> "result", id |-> id, failed |-> failed]
Relay(id, peer, kind) == [type |-> "relay", id |-> id, peer |-> peer, kind |-> kind]

\* Two requests to one peer and one to another, one of which may fail; a notify.
FeedEvents == {Call(1, "p", "request"), Call(2, "p", "request"), Call(3, "q", "request"),
               Call(6, "p", "notify"), Result(6, FALSE),
               Result(1, FALSE), Result(2, FALSE), Result(2, TRUE), Result(3, FALSE),
               Relay(4, "p", "reply"), Relay(5, "p", "notify")}

\* A result follows its call, and a call has one.
FeedLogs ==
  {l \in UNION {[1..n -> FeedEvents] : n \in 0..5} :
     /\ \A i, j \in DOMAIN l : i < j => l[i] # l[j] /\ (l[i].type = "result" => l[i].id # l[j].id)
     /\ \A r \in DOMAIN l : l[r].type = "result" =>
          \E c \in 1..(r - 1) : l[c].type = "call" /\ l[c].id = l[r].id}

ASSUME FeedAssumption ==
  \A l \in FeedLogs : \A rows, waiting \in 1..2 : FeedIsRight(l, rows, waiting)
=============================================================================
