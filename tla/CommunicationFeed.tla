-------------------------- MODULE CommunicationFeed --------------------------
(* What /tasks and the activity line of a terminal show of the messages between *)
(* sessions: session-bridge/tasks.mjs, a fold over the events of the session's  *)
(* log. An event is a call of a send tool, its result, or a relayed message;    *)
(* other events leave the view alone. Previews, modes and times are left out.   *)
EXTENDS Naturals, Sequences, SequencesExt, Folds

Sent(e) == [id |-> e.id, sent |-> TRUE, peer |-> e.peer, kind |-> e.kind,
            pending |-> TRUE, failed |-> FALSE]
Received(e) == [id |-> e.id, sent |-> FALSE, peer |-> e.peer, kind |-> e.kind,
                pending |-> FALSE, failed |-> FALSE]

\* bound: the newest ones survive.
Newest(s, n) == IF Len(s) <= n THEN s ELSE SubSeq(s, Len(s) - n + 1, Len(s))

RowOf(rows, id) == {i \in DOMAIN rows : rows[i].sent /\ rows[i].id = id}

MarkWaiting(waiting, row, maxWaiting) ==
  IF \E i \in DOMAIN waiting : waiting[i].id = row.id THEN waiting
  ELSE Newest(Append(waiting, [id |-> row.id, peer |-> row.peer]), maxWaiting)

ClearWaiting(waiting, peer) == SelectSeq(waiting, LAMBDA w : w.peer # peer)

\* A result settles the row of its call, if the row is still there; a request
\* that was sent waits from then on.
Settle(view, e, maxWaiting) ==
  LET i == CHOOSE k \in RowOf(view.rows, e.id) : TRUE
      row == [view.rows[i] EXCEPT !.pending = FALSE, !.failed = e.failed]
  IN IF RowOf(view.rows, e.id) = {} THEN view
     ELSE [rows |-> [view.rows EXCEPT ![i] = row],
           waiting |-> IF row.kind = "request" /\ ~row.failed
                         THEN MarkWaiting(view.waiting, row, maxWaiting)
                         ELSE view.waiting]

\* Only a reply of the peer clears what waits for it.
FoldCommunication(view, e, maxRows, maxWaiting) ==
  CASE e.type = "call" ->
         [view EXCEPT !.rows = Newest(Append(@, Sent(e)), maxRows)]
    [] e.type = "result" -> Settle(view, e, maxWaiting)
    [] e.type = "relay" ->
         [rows |-> Newest(Append(view.rows, Received(e)), maxRows),
          waiting |-> IF e.kind = "reply" THEN ClearWaiting(view.waiting, e.peer)
                      ELSE view.waiting]
    [] OTHER -> view

Feed(log, maxRows, maxWaiting) ==
  FoldLeft(LAMBDA view, e : FoldCommunication(view, e, maxRows, maxWaiting),
           [rows |-> <<>>, waiting |-> <<>>], log)

\* The same, said of the log as a whole.
MakesRow(e) == e.type \in {"call", "relay"}
Calls(log, id) == {i \in DOMAIN log : log[i].type = "call" /\ log[i].id = id}
Results(log, id) == {i \in DOMAIN log : log[i].type = "result" /\ log[i].id = id}

\* The calls that became waiting, by the place of their result: a request, not
\* failed, whose row was among the newest when the result came.
Marks(log, maxRows) ==
  {r \in DOMAIN log :
     /\ log[r].type = "result" /\ ~log[r].failed
     /\ \E c \in Calls(log, log[r].id) :
          /\ c < r /\ log[c].kind = "request"
          /\ Len(SelectSeq(SubSeq(log, c + 1, r), MakesRow)) < maxRows}
Answered(log, r) ==
  \E k \in DOMAIN log : /\ k > r /\ log[k].type = "relay" /\ log[k].kind = "reply"
                        /\ \E c \in Calls(log, log[r].id) : log[c].peer = log[k].peer

\* tasks.mjs:9-12: a request waits from its result until a reply of its peer, and
\* a row is pending until its result, however the events are interleaved; the
\* caps take the oldest rows and the requests that wait longest.
FeedIsRight(log, maxRows, maxWaiting) ==
  LET view == Feed(log, maxRows, maxWaiting)
      all == Feed(log, maxRows, Len(log) + 1)
      ids == {all.waiting[i].id : i \in DOMAIN all.waiting}
  IN /\ ids = {log[r].id : r \in {m \in Marks(log, maxRows) : ~Answered(log, m)}}
     /\ \A i \in DOMAIN view.waiting : view.waiting[i].id \in ids
     /\ Len(view.waiting) <= maxWaiting
     /\ (\A k \in DOMAIN log : log[k].type = "relay" => log[k].kind # "reply") =>
          view.waiting = Newest(all.waiting, maxWaiting)
     /\ [i \in DOMAIN view.rows |-> view.rows[i].id] =
          LET made == Newest(SelectSeq(log, MakesRow), maxRows)
          IN [i \in DOMAIN made |-> made[i].id]
     /\ \A i \in DOMAIN view.rows :
          view.rows[i].pending <=> view.rows[i].sent /\ Results(log, view.rows[i].id) = {}
=============================================================================
