------------------------------- MODULE Mailbox -------------------------------
(***************************************************************************)
(* The session-communication ledger, plugins/session-bridge/mailbox.mjs.   *)
(*                                                                         *)
(* One SQLite file is shared by every host of a state directory.  Each     *)
(* method below is one BEGIN IMMEDIATE transaction, so it is one action; a *)
(* transaction that throws rolls back and is a stuttering step, which is   *)
(* why a refusal appears only as a guard.  The owners table is the subject *)
(* of SessionDelivery: here s stands for a credential that authenticates.  *)
(*                                                                         *)
(* Abstracted: a body is one unit long, so the row and the byte limit of a *)
(* mailbox are the one bound MaxPending and a defer batch is counted in    *)
(* rows (DeferBatch); the digest of a message is the tuple it digests; the *)
(* tables `events' and `refusals' (notification rows that no ledger        *)
(* operation reads back), titles and parentMessageIds are left out.        *)
(***************************************************************************)
EXTENDS Naturals, Sequences, FiniteSets

CONSTANTS
  Sessions,        \* session ids
  Externals,       \* labels of external senders (CLI scripts, editors)
  Keys,            \* idempotency keys a sender may use
  Modes,           \* delivery modes in use, a subset of queue/steer/defer
  Parent,          \* subagent sessions and the session that spawned each
  MaxDepth,        \* limits.depth
  MaxSends,        \* limits.sends, per task chain
  MaxPending,      \* limits.pending, per recipient
  MaxContexts,     \* limits.contexts, causal paths of one session
  DeferBatch,      \* rows one defer batch has room for
  Ttl,             \* limits.ttlMs
  Retention,       \* limits.retentionMs
  RetainedMessages, RetainedChains, \* the row caps of prune
  MaxMessages, MaxChains, MaxNow, \* model bounds
  MaxRows          \* model bound: messages and chains together

Kinds == {"request", "notify", "reply"}
Live == {"accepted", "admitted"}
Settled == {"consumed", "cancelled", "expired", "late"}
RequestStates == {"none", "open", "replied", "expired", "cancelled"}
Closed == {"replied", "expired", "cancelled"}

ASSUME MailboxAssumption ==
  /\ Sessions \cap Externals = {}
  /\ Modes \subseteq {"queue", "steer", "defer"}
  /\ DOMAIN Parent \subseteq Sessions
  /\ \A s \in DOMAIN Parent : Parent[s] \in Sessions
  /\ IsFiniteSet(Sessions)
  /\ \E born \in [Sessions -> 1..Cardinality(Sessions)] :  \* a subagent's header names
       \A s \in DOMAIN Parent : born[Parent[s]] < born[s]  \* a session that exists
  /\ {MaxDepth, MaxSends, MaxPending, MaxContexts, DeferBatch, Ttl, Retention,
      RetainedMessages, RetainedChains, MaxMessages, MaxChains, MaxNow, MaxRows} \subseteq Nat

VARIABLES
  now,        \* the clock the ledger reads
  context,    \* contexts table: the causal paths of each session
  chains,     \* chains table, by chain id
  lastChain,  \* chain ids handed out
  messages,   \* messages table, by seq (which also stands for the message id)
  lastSeq     \* AUTOINCREMENT of messages

vars == <<now, context, chains, lastChain, messages, lastSeq>>

Senders == Sessions \cup Externals
Context == [chain : Nat, path : Seq(Sessions)]
Chain == [created : Nat, expires : Nat, used : Nat]
Message == [sender : Senders, key : Keys, to : Sessions, kind : Kinds, mode : Modes,
            inReplyTo : Nat, contexts : SUBSET Context, expires : Nat,
            delivery : Live \cup Settled, request : RequestStates,
            reply : Nat, claimed : BOOLEAN]

-----------------------------------------------------------------------------
\* Tables

With(f, x, v) == [y \in DOMAIN f \cup {x} |-> IF y = x THEN v ELSE f[y]]
Keep(f, S) == [y \in DOMAIN f \cap S |-> f[y]]

\* mergeContexts: a set of causal paths, refused (context_limit) when too large.
Mergeable(S) == Cardinality(S) <= MaxContexts

ChainIds(S) == {c.chain : c \in S}
Stops(p) == {p[i] : i \in DOMAIN p}
PositionOf(s, p) == CHOOSE i \in DOMAIN p : p[i] = s

Delegated(c, s) == [chain |-> c.chain, path |-> Append(c.path, s)]
Returned(c) == [chain |-> c.chain, path |-> SubSeq(c.path, 1, Len(c.path) - 1)]
CutAt(c, s) == [chain |-> c.chain, path |-> SubSeq(c.path, 1, PositionOf(s, c.path))]
BugBackTo(c, s) == Delegated(c, s)                       \* mutant: no cut
BackTo(c, s) == IF s \in Stops(c.path) THEN CutAt(c, s) ELSE Delegated(c, s)

\* expire(s): close the lapsed requests and the lapsed deliveries of a recipient.
BugLapse(m) == [m EXCEPT !.request = IF @ = "open" THEN "expired" ELSE @,
                         !.delivery = "expired"]          \* mutant: settled rows too
Lapse(m) == [m EXCEPT !.request = IF @ = "open" THEN "expired" ELSE @,
                      !.delivery = IF @ \in Live THEN "expired" ELSE @]
Swept(S) == [id \in DOMAIN messages |->
               IF messages[id].to \in S /\ messages[id].expires <= now
               THEN Lapse(messages[id]) ELSE messages[id]]

\* Model bounds.
RowsLeft == lastSeq + lastChain < MaxRows
ChainsLeft == lastChain < MaxChains /\ RowsLeft

\* root(s): the row of a fresh chain and the one causal path that starts there.
FreshChain(used) == [created |-> now, expires |-> now + Ttl, used |-> used]
Root(s) == {[chain |-> lastChain + 1, path |-> <<s>>]}

-----------------------------------------------------------------------------
Init ==
  /\ now = 0
  /\ context = [s \in Sessions |-> {}]
  /\ chains = <<>>
  /\ lastChain = 0
  /\ messages = <<>>
  /\ lastSeq = 0

Tick ==
  /\ now < MaxNow
  /\ now' = now + 1
  /\ UNCHANGED <<context, chains, lastChain, messages, lastSeq>>

-----------------------------------------------------------------------------
\* Task contexts

NewTask(s) ==
  /\ ChainsLeft
  /\ lastChain' = lastChain + 1
  /\ chains' = With(chains, lastChain + 1, FreshChain(0))
  /\ context' = [context EXCEPT ![s] = Root(s)]
  /\ UNCHANGED <<now, messages, lastSeq>>

\* The paths a subagent inherits, each extended by the subagent itself.
BugInherited(s) == IF s \in DOMAIN Parent THEN context[Parent[s]] ELSE {} \* mutant
Inherited(s) ==
  IF s \in DOMAIN Parent
  THEN {IF s \in Stops(c.path) THEN c ELSE Delegated(c, s) : c \in context[Parent[s]]}
  ELSE {}

\* include(): what a step enters the model with becomes the session's context.
Include(s, incoming, human, replace) ==
  LET kept == (IF replace THEN {} ELSE context[s]) \cup Inherited(s)
      rooted == kept = {} /\ human /\ s \notin DOMAIN Parent
      current == IF rooted THEN Root(s) ELSE kept
      merged == current \cup UNION {messages[id].contexts : id \in incoming}
  IN
  /\ Mergeable(kept)
  /\ Mergeable(merged)
  /\ context' = [context EXCEPT ![s] = merged]
  /\ IF rooted
     THEN /\ ChainsLeft
          /\ lastChain' = lastChain + 1
          /\ chains' = With(chains, lastChain + 1, FreshChain(0))
     ELSE UNCHANGED <<chains, lastChain>>
  /\ UNCHANGED <<now, messages, lastSeq>>

-----------------------------------------------------------------------------
\* admit(): one transaction, split by what the message is

FreshKey(sender, key) ==
  \A id \in DOMAIN messages : ~(messages[id].sender = sender /\ messages[id].key = key)

Pending(table, s) == {id \in DOMAIN table : table[id].to = s /\ table[id].delivery \in Live}

HasRoom(s) == Cardinality(Pending(Swept({s}), s)) < MaxPending

\* The tail of the transaction: the deadline is the earliest of `deadlines', a
\* late reply is recorded but never delivered and needs no room.
Insert(sender, key, to, kind, mode, re, contexts, expires, late, table) ==
  /\ lastSeq < MaxMessages /\ RowsLeft
  /\ FreshKey(sender, key)
  /\ late \/ HasRoom(to)
  /\ lastSeq' = lastSeq + 1
  /\ messages' = With(table, lastSeq + 1,
       [sender |-> sender, key |-> key, to |-> to, kind |-> kind, mode |-> mode,
        inReplyTo |-> re, contexts |-> contexts, expires |-> expires,
        delivery |-> IF late THEN "late" ELSE "accepted",
        request |-> IF kind = "request" THEN "open" ELSE "none",
        reply |-> 0, claimed |-> FALSE])
  /\ UNCHANGED <<now, context>>

\* A request or notify charges every chain it inherits, or none.
Chargeable(ids) ==
  \A c \in ids : /\ c \in DOMAIN chains
                 /\ chains[c].expires > now
                 /\ chains[c].used < MaxSends
BugCharged(ids) == [c \in DOMAIN chains |->                \* mutant: newest only
                      IF c \in ids /\ \A d \in ids : d <= c
                      THEN [chains[c] EXCEPT !.used = @ + 1] ELSE chains[c]]
Charged(ids) == [c \in DOMAIN chains |->
                   IF c \in ids THEN [chains[c] EXCEPT !.used = @ + 1] ELSE chains[c]]

Earliest(t, T) == t \in T /\ \A u \in T : t <= u
Deadlines(ids) == {chains[c].expires : c \in ids}

AdmitExternal(source, to, kind, mode, key) ==
  /\ kind # "reply"
  /\ MaxSends > 0 /\ Ttl > 0
  /\ ChainsLeft
  /\ lastChain' = lastChain + 1
  /\ chains' = With(chains, lastChain + 1, FreshChain(1))
  /\ Insert(source, key, to, kind, mode, 0, Root(to), now + Ttl, FALSE, Swept({to}))

AdmitTask(from, to, kind, mode, key) ==
  LET contexts == {Delegated(c, to) : c \in context[from]}
      ids == ChainIds(contexts)
  IN
  /\ kind # "reply"
  /\ context[from] # {}
  /\ \A c \in context[from] : to \notin Stops(c.path) /\ Len(c.path) <= MaxDepth
  /\ Chargeable(ids)
  /\ chains' = Charged(ids)
  /\ UNCHANGED lastChain
  /\ \E expires \in Deadlines(ids) :
       /\ Earliest(expires, Deadlines(ids))
       /\ Insert(from, key, to, kind, mode, 0, contexts, expires, FALSE, Swept({to}))

\* The request an answer or a progress note refers to.
Answerable(from, id) ==
  /\ id \in DOMAIN messages
  /\ messages[id].kind = "request"
  /\ messages[id].to = from
  /\ messages[id].sender \in Sessions

\* Back along the paths of the request, merged with the replier's own causes.
ReturnContexts(id, from) ==
  {Returned(c) : c \in messages[id].contexts}
    \cup {BackTo(c, messages[id].sender) : c \in context[from]}

Lapsed(id) == messages[id].request # "open" \/ messages[id].expires <= now

AdmitProgress(from, id, mode, key) ==
  LET to == messages[id].sender
      contexts == ReturnContexts(id, from)
      ids == ChainIds(contexts)
      deadlines == Deadlines(ids) \cup {messages[id].expires}
  IN
  /\ Answerable(from, id)
  /\ ~Lapsed(id)
  /\ Mergeable(contexts)
  /\ Chargeable(ids)
  /\ chains' = Charged(ids)
  /\ UNCHANGED lastChain
  /\ \E expires \in deadlines :
       /\ Earliest(expires, deadlines)
       /\ Insert(from, key, to, "notify", mode, id, contexts, expires, FALSE, Swept({to}))

\* The one reply slot of a request, and what a reply leaves in request_state.
BugUnanswered(id) == messages[id].request # "replied"  \* mutant: state, not slot
Unanswered(id) == messages[id].reply = 0
Outcome(id, late) == IF ~late THEN "replied"
                     ELSE IF messages[id].expires <= now THEN "expired"
                     ELSE messages[id].request

AdmitReply(from, id, mode, key) ==
  LET to == messages[id].sender
      contexts == ReturnContexts(id, from)
      ids == ChainIds(contexts)
      deadlines == Deadlines(ids) \cup {messages[id].expires}
      table == Swept({to})
  IN
  /\ Answerable(from, id)
  /\ Unanswered(id)
  /\ Mergeable(contexts)
  /\ ids \subseteq DOMAIN chains
  /\ UNCHANGED <<chains, lastChain>>
  /\ \E expires \in deadlines :
       LET late == Lapsed(id) \/ expires <= now IN
       /\ Earliest(expires, deadlines)
       /\ Insert(from, key, to, "reply", mode, id, contexts, expires, late,
                 [table EXCEPT ![id].reply = lastSeq + 1, ![id].request = Outcome(id, late)])

-----------------------------------------------------------------------------
\* The life of an admitted message

Transition(s, id, delivery, claim) ==
  /\ id \in DOMAIN messages
  /\ messages[id].to = s
  /\ messages[id].delivery \in Live
  /\ messages' = [messages EXCEPT ![id].delivery = delivery,
                                  ![id].claimed = @ \/ claim]
  /\ UNCHANGED <<now, context, chains, lastChain, lastSeq>>

\* deferred(): the notes written up to the cutoff, oldest first, as many as fit.
Deferred(s, cutoff) ==
  LET table == Swept({s})
      eligible == {id \in Pending(table, s) :
                     table[id].mode = "defer" /\ id <= cutoff}
      selected == {id \in eligible : Cardinality({j \in eligible : j < id}) < DeferBatch}
  IN
  /\ messages' = [id \in DOMAIN messages |->
                    IF id \in selected THEN [table[id] EXCEPT !.claimed = TRUE] ELSE table[id]]
  /\ UNCHANGED <<now, context, chains, lastChain, lastSeq>>

\* cancel(): by the sender, or by the user of the receiving session (human).
Cancel(s, id, human) ==
  /\ id \in DOMAIN messages
  /\ messages[id].sender = s \/ (human /\ messages[id].to = s)
  /\ messages[id].request \notin Closed
  /\ messages' = [messages EXCEPT
       ![id].request = IF messages[id].kind = "request" THEN "cancelled" ELSE @,
       ![id].delivery = IF @ \in Live THEN "cancelled" ELSE @]
  /\ UNCHANGED <<now, context, chains, lastChain, lastSeq>>

\* expire(): the sweep of one session, as preStep and deliver call it.
Expire(s) ==
  /\ messages' = Swept({s})
  /\ UNCHANGED <<now, context, chains, lastChain, lastSeq>>

\* prune(): expire everywhere, then drop what retention and the caps let go.  Only
\* settled rows go: by age, or, once past their deadline, beyond the newest
\* RetainedMessages of them.
OldMessages(table) ==
  {id \in DOMAIN table : /\ table[id].delivery \in Settled
                         /\ table[id].expires + Retention <= now}
SurplusMessages(table) ==
  LET evictable == {id \in DOMAIN table \ OldMessages(table) :
                      table[id].delivery \in Settled /\ table[id].expires <= now}
  IN {id \in evictable : Cardinality({j \in evictable : j > id}) >= RetainedMessages}

OldChains == {c \in DOMAIN chains : chains[c].expires + Retention < now}
Newer(c) == {d \in DOMAIN chains \ OldChains : chains[d].created > chains[c].created}
BugSurplusChains ==  \* mutant: the deadline is forgotten
  {c \in DOMAIN chains \ OldChains : Cardinality(Newer(c)) > RetainedChains}
SurplusChains == {c \in DOMAIN chains \ OldChains :
                    chains[c].expires < now /\ Cardinality(Newer(c)) > RetainedChains}

Prune ==
  LET table == Swept(Sessions) IN
  /\ messages' = Keep(table, DOMAIN table \ (OldMessages(table) \cup SurplusMessages(table)))
  /\ chains' = Keep(chains, DOMAIN chains \ (OldChains \cup SurplusChains))
  /\ UNCHANGED <<now, context, lastChain, lastSeq>>

-----------------------------------------------------------------------------
Roots == Sessions \ DOMAIN Parent   \* only root sessions send or receive

Admit ==
  \E key \in Keys, mode \in Modes :
    \/ \E source \in Externals, to \in Roots, kind \in Kinds :
         AdmitExternal(source, to, kind, mode, key)
    \/ \E from, to \in Roots, kind \in Kinds : AdmitTask(from, to, kind, mode, key)
    \/ \E from \in Roots, id \in DOMAIN messages :
         AdmitProgress(from, id, mode, key) \/ AdmitReply(from, id, mode, key)

\* Messages a step of session s may enter with: addressed to it and not settled
\* before the claim.
Enterable(s) == {id \in DOMAIN messages : /\ messages[id].to = s
                                          /\ messages[id].delivery \in Live \cup {"consumed"}}

Owned(s) ==
  \/ NewTask(s)
  \/ Expire(s)
  \/ \E incoming \in SUBSET Enterable(s) :
       \/ \E human \in BOOLEAN : Include(s, incoming, human, FALSE)
       \/ /\ \E id \in incoming : messages[id].kind = "request"
          /\ Include(s, incoming, FALSE, TRUE)
  \/ \E id \in DOMAIN messages :
       \/ \E claim \in BOOLEAN : Transition(s, id, "admitted", claim)
       \/ Transition(s, id, "consumed", FALSE)
       \/ \E human \in BOOLEAN : Cancel(s, id, human)
  \/ \E cutoff \in 0..lastSeq : Deferred(s, cutoff)

Next ==
  \/ Tick
  \/ Prune
  \/ Admit
  \/ \E s \in Sessions : Owned(s)

Spec == Init /\ [][Next]_vars

-----------------------------------------------------------------------------
\* Every table holds rows of its schema (the CREATE TABLE statements).
TypeOK ==
  /\ now \in Nat /\ lastChain \in Nat /\ lastSeq \in Nat
  /\ context \in [Sessions -> SUBSET Context]
  /\ DOMAIN chains \subseteq 1..lastChain
  /\ chains \in [DOMAIN chains -> Chain]
  /\ DOMAIN messages \subseteq 1..lastSeq
  /\ messages \in [DOMAIN messages -> Message]

\* A causal path that a session holds, or that a message brings it, ends at that
\* session and visits no session twice: the test that refuses a cycle and the one
\* that cuts a reply back to its requester both read the path that way.
SoundPath(p, s) ==
  /\ p # <<>>
  /\ p[Len(p)] = s
  /\ \A i, j \in DOMAIN p : p[i] = p[j] => i = j
PathsSound ==
  /\ \A s \in Sessions : \A c \in context[s] : SoundPath(c.path, s)
  /\ \A id \in DOMAIN messages :
       \A c \in messages[id].contexts : SoundPath(c.path, messages[id].to)

\* The budget of a task chain covers every request and notify that was ever sent on
\* it, by whichever session and through whichever merge of chains, and is never
\* overdrawn ("8 request/notify messages" per chain, docs/session-communication.md).
Spent(c) == {id \in DOMAIN messages : /\ messages[id].kind # "reply"
                                      /\ c \in ChainIds(messages[id].contexts)}
BudgetAccounts ==
  \A c \in DOMAIN chains : /\ Cardinality(Spent(c)) <= chains[c].used
                           /\ chains[c].used <= MaxSends

\* "Each request allows at most one final reply": two replies never name the same
\* request, even when the first was late, cancelled or consumed, or the request has
\* been pruned; and a reply that is delivered is the one its request records.
FinalReplies ==
  \A id \in DOMAIN messages : messages[id].kind = "reply" =>
    LET request == messages[id].inReplyTo IN
    /\ \A other \in DOMAIN messages \ {id} :
         messages[other].kind = "reply" => messages[other].inReplyTo # request
    /\ request \in DOMAIN messages =>
         /\ messages[request].reply = id
         /\ messages[id].delivery # "late" <=> messages[request].request = "replied"

\* Pruning never takes a chain that the paths of a message name while the message is
\* inside its deadline, so no step that the message enters with, and no way back along
\* the paths of a request, names a missing chain.  (A reply needs the chains of its
\* sender's own context as well, which prune() does not look at.)
LiveChainsKept ==
  \A id \in DOMAIN messages :
    messages[id].expires > now =>
      \A c \in ChainIds(messages[id].contexts) :
        c \in DOMAIN chains /\ chains[c].expires >= messages[id].expires

\* What is settled stays settled: a consumed, cancelled, expired or late delivery is
\* never taken up again, a closed request never reopens and an answered one keeps its
\* answer.
SettledIsFinal ==
  [][\A id \in DOMAIN messages \cap DOMAIN messages' :
       /\ messages[id].delivery \in Settled => messages'[id].delivery = messages[id].delivery
       /\ messages[id].request \in Closed => messages'[id].request \in Closed
       /\ messages[id].request = "replied" => messages'[id].request = "replied"
       /\ messages[id].reply # 0 => messages'[id].reply = messages[id].reply]_vars
=============================================================================
