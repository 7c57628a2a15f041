---------------------------- MODULE TerminalAnswers ----------------------------
(***************************************************************************)
(* Approvals and questions between a Host and its terminals:               *)
(* packages/tui/src/runtime/typert.ts.                                     *)
(*                                                                         *)
(* The Host sends a request that needs an answer to every attached         *)
(* terminal over its event stream, and again to a terminal that            *)
(* reconnects; the first answer wins and the other terminals are told to   *)
(* close their prompt (docs/runtime-protocol.md:170).  An answer is a call *)
(* of its own, on another connection than the stream: it may fail before   *)
(* or after the Host took it, and it may come in after a reconnect.  The   *)
(* terminal keeps an answer that failed in unsent and sends it when the    *)
(* request is replayed.                                                    *)
(*                                                                         *)
(* The Host's half is external.  A terminal that declines a request it     *)
(* does not handle, and the refusal of a token or of another version,      *)
(* which end the terminal, are left out.                                   *)
(***************************************************************************)
EXTENDS Naturals, Sequences, FiniteSets, SequencesExt

CONSTANTS
  Clients,   \* the attached terminals
  Prompts,   \* the requests that need an answer of a user
  Values,    \* what a user may decide
  Undecided, \* no decision
  MaxFaults  \* bound on the drops of a stream and the calls that fail on a live one

ASSUME AnswerAssumption ==
  /\ MaxFaults \in Nat
  /\ Undecided \notin Values /\ Values # {} /\ Clients # {}
  /\ {"none", "open", "ended"} \cap Values = {}

VARIABLES
  request,  \* at the Host: not asked, open, or closed by an answer or by the end of the turn
  link,     \* event streams: up at the Host, known to the terminal as clientId, frames under way
  pending,  \* prompts open at each terminal
  unsent,   \* answers kept by each terminal
  calls,    \* answers on their way and their results
  decided,  \* history: the decisions the user took at each terminal
  faults    \* history: faults so far

answerVars == <<request, link, pending, unsent, calls, decided, faults>>

Frames == [type : {"waterfall", "cancel"}, event : Prompts]
AnswerCalls == [client : Nat, event : Prompts, value : Values, at : {"sent", "ok", "refused"}]
States == {"none", "open", "ended"} \cup Values

AnswerTypeOK ==
  /\ request \in [Prompts -> States]
  /\ link \in [Clients -> [up : BOOLEAN, known : BOOLEAN, client : Nat, frames : Seq(Frames)]]
  /\ pending \in [Clients -> SUBSET Prompts]
  /\ unsent \in [Clients -> [Prompts -> Values \cup {Undecided}]]
  /\ calls \in [Clients -> SUBSET AnswerCalls]
  /\ decided \in [Clients -> [Prompts -> SUBSET Values]]
  /\ faults \in 0..MaxFaults

AnswerInit ==
  /\ request = [e \in Prompts |-> "none"]
  /\ link = [t \in Clients |-> [up |-> TRUE, known |-> TRUE, client |-> 1, frames |-> <<>>]]
  /\ pending = [t \in Clients |-> {}]
  /\ unsent = [t \in Clients |-> [e \in Prompts |-> Undecided]]
  /\ calls = [t \in Clients |-> {}]
  /\ decided = [t \in Clients |-> [e \in Prompts |-> {}]]
  /\ faults = 0

Waterfall(e) == [type |-> "waterfall", event |-> e]
Cancel(e) == [type |-> "cancel", event |-> e]
\* A frame to every attached terminal but the client that caused it.
Sent(frame, but) ==
  [t \in Clients |-> IF link[t].up /\ <<t, link[t].client>> # but
                     THEN [link[t] EXCEPT !.frames = Append(@, frame)] ELSE link[t]]

-----------------------------------------------------------------------------
(* The Host                                                                *)

Put(e) ==
  /\ request[e] = "none"
  /\ request' = [request EXCEPT ![e] = "open"]
  /\ link' = Sent(Waterfall(e), <<>>)
  /\ UNCHANGED <<pending, unsent, calls, decided, faults>>

EndTurn(e) ==
  /\ request[e] = "open"
  /\ request' = [request EXCEPT ![e] = "ended"]
  /\ link' = Sent(Cancel(e), <<>>)
  /\ UNCHANGED <<pending, unsent, calls, decided, faults>>

At(t, call, result) == calls' = [calls EXCEPT ![t] = (@ \ {call}) \cup {[call EXCEPT !.at = result]}]

\* The first answer of an attached client closes the request; one that comes too
\* late or from a client that is gone changes nothing, or still counts.
Take(t, call) ==
  /\ call.at = "sent"
  /\ \/ /\ request[call.event] = "open"
        /\ request' = [request EXCEPT ![call.event] = call.value]
        /\ link' = Sent(Cancel(call.event), <<t, call.client>>)
        /\ At(t, call, "ok")
     \/ /\ request[call.event] # "open" \/ ~link[t].up \/ link[t].client # call.client
        /\ \E result \in {"ok", "refused"} :
             /\ result = "ok" => request[call.event] # "open"
             /\ At(t, call, result)
        /\ UNCHANGED <<request, link>>
  /\ UNCHANGED <<pending, unsent, decided, faults>>

-----------------------------------------------------------------------------
(* The connection                                                          *)

\* The stream breaks; what it still carried is lost.
Drop(t) ==
  /\ link[t].up /\ faults < MaxFaults
  /\ link' = [link EXCEPT ![t].up = FALSE, ![t].frames = <<>>]
  /\ faults' = faults + 1
  /\ UNCHANGED <<request, pending, unsent, calls, decided>>

\* lost(): the terminal notices and withdraws its prompts.
BugLost(t) ==  \* mutant: a prompt that is withdrawn answers with a value of its own
  /\ ~link[t].up /\ link[t].known
  /\ link' = [link EXCEPT ![t].known = FALSE]
  /\ pending' = [pending EXCEPT ![t] = {}]
  /\ calls' = [calls EXCEPT ![t] = @ \cup {[client |-> link[t].client, event |-> e, at |-> "sent",
                                           value |-> CHOOSE v \in Values : TRUE] : e \in pending[t]}]
  /\ UNCHANGED <<request, unsent, decided, faults>>
Lost(t) ==
  /\ ~link[t].up /\ link[t].known
  /\ link' = [link EXCEPT ![t].known = FALSE]
  /\ pending' = [pending EXCEPT ![t] = {}]
  /\ UNCHANGED <<request, unsent, calls, decided, faults>>

\* ready and restored(): a new client id; the Host replays what is open.
Reconnect(t) ==
  /\ ~link[t].known
  /\ LET replay == SetToSeq({e \in Prompts : request[e] = "open"})
     IN link' = [link EXCEPT ![t] = [up |-> TRUE, known |-> TRUE, client |-> @.client + 1,
                                     frames |-> [i \in DOMAIN replay |-> Waterfall(replay[i])]]]
  /\ pending' = [pending EXCEPT ![t] = {}]
  /\ UNCHANGED <<request, unsent, calls, decided, faults>>

-----------------------------------------------------------------------------
(* The terminal                                                            *)

\* answer()
Answer(t, e, v) ==
  calls' = [calls EXCEPT ![t] = @ \cup {[client |-> link[t].client, event |-> e, value |-> v, at |-> "sent"]}]

\* dispatch(): an answer that is owed is sent instead of a prompt.
BugDispatch(t, e) ==  \* mutant: the owed answer is dropped and nothing is asked
  /\ IF unsent[t][e] # Undecided
     THEN unsent' = [unsent EXCEPT ![t][e] = Undecided] /\ UNCHANGED pending
     ELSE pending' = [pending EXCEPT ![t] = @ \cup {e}] /\ UNCHANGED unsent
  /\ UNCHANGED calls
Dispatch(t, e) ==
  IF unsent[t][e] # Undecided
  THEN /\ unsent' = [unsent EXCEPT ![t][e] = Undecided]
       /\ Answer(t, e, unsent[t][e])
       /\ UNCHANGED pending
  ELSE /\ pending' = [pending EXCEPT ![t] = @ \cup {e}]
       /\ UNCHANGED <<unsent, calls>>

BugWithdraw(t, e) == UNCHANGED <<pending, unsent, calls>>  \* mutant: cancel frames are ignored
Withdraw(t, e) ==
  /\ pending' = [pending EXCEPT ![t] = @ \ {e}]
  /\ UNCHANGED <<unsent, calls>>

ReceiveFrame(t) ==
  /\ link[t].frames # <<>>
  /\ LET frame == Head(link[t].frames)
     IN IF frame.type = "waterfall" THEN Dispatch(t, frame.event) ELSE Withdraw(t, frame.event)
  /\ link' = [link EXCEPT ![t].frames = Tail(@)]
  /\ UNCHANGED <<request, decided, faults>>

Decide(t, e, v) ==
  /\ e \in pending[t]
  /\ pending' = [pending EXCEPT ![t] = @ \ {e}]
  /\ decided' = [decided EXCEPT ![t][e] = @ \cup {v}]
  /\ Answer(t, e, v)
  /\ UNCHANGED <<request, link, unsent, faults>>

Settle(t, call) ==
  /\ call.at = "ok"
  /\ calls' = [calls EXCEPT ![t] = @ \ {call}]
  /\ UNCHANGED <<request, link, pending, unsent, decided, faults>>

Keep(t, call) ==
  /\ calls' = [calls EXCEPT ![t] = @ \ {call}]
  /\ unsent' = [unsent EXCEPT ![t][call.event] = call.value]
  /\ UNCHANGED <<request, link, pending, decided>>

\* The call is refused, or fails with the connection, whether or not the Host took it;
\* an isolated failure is one on a connection that is still up.
Refused(t, call) == call.at = "refused" /\ Keep(t, call) /\ UNCHANGED faults
Fails(t, call) ==
  /\ Keep(t, call)
  /\ IF link[t].up /\ link[t].client = call.client
     THEN faults < MaxFaults /\ faults' = faults + 1
     ELSE UNCHANGED faults

Protocol(t) ==
  \/ Lost(t) \/ Reconnect(t) \/ ReceiveFrame(t)
  \/ \E call \in calls[t] : Take(t, call) \/ Settle(t, call) \/ Refused(t, call)

AnswerNext ==
  \/ \E e \in Prompts : Put(e) \/ EndTurn(e)
  \/ \E t \in Clients :
       \/ Protocol(t) \/ Drop(t)
       \/ \E e \in Prompts, v \in Values : Decide(t, e, v)
       \/ \E call \in calls[t] : Fails(t, call)

AnswerSpec == AnswerInit /\ [][AnswerNext]_answerVars
FairAnswerSpec == AnswerSpec /\ \A t \in Clients : WF_answerVars(Protocol(t))

-----------------------------------------------------------------------------
(* Properties                                                              *)

Coming(t, type) == {link[t].frames[i].event : i \in {j \in DOMAIN link[t].frames : link[t].frames[j].type = type}}

\* No attached terminal forgets an open request: it asks the user, is about to be told of
\* it, or an answer is on its way or kept for the next replay (docs/runtime-protocol.md:195),
\* however drops, replays and late failures interleave.
NoRequestForgotten ==
  \A e \in Prompts, t \in Clients :
    request[e] = "open" /\ link[t].up =>
      \/ e \in pending[t] \cup Coming(t, "waterfall") \cup {call.event : call \in calls[t]}
      \/ unsent[t][e] # Undecided

\* What closed a request is what a user decided, at a prompt that was open there.
UserDecides ==
  \A e \in Prompts : request[e] \in Values => \E t \in Clients : request[e] \in decided[t][e]

\* Once a request is closed, every terminal in the end closes its prompt.
PromptsClose ==
  \A e \in Prompts : request[e] \notin {"none", "open"} ~> \A t \in Clients : e \notin pending[t]
=============================================================================
