---------------------------- MODULE MailboxProofs ----------------------------
(* Theorems about the ledger that hold for every number of sessions, keys and  *)
(* messages and for every value of the limits.                                 *)
EXTENDS Mailbox, FiniteSetTheorems, TLAPS

\* The limits are numbers, and parents are sessions.
LEMMA Limits ==
  /\ Sessions \cap Externals = {} /\ DOMAIN Parent \subseteq Sessions
  /\ \A s \in DOMAIN Parent : Parent[s] \in Sessions
  /\ {MaxDepth, MaxSends, MaxPending, MaxContexts, DeferBatch, Ttl, Retention,
      RetainedMessages, RetainedChains, MaxMessages, MaxChains, MaxNow, MaxRows} \subseteq Nat
BY MailboxAssumption

USE Limits

-----------------------------------------------------------------------------
\* Tables stay tables.

\* Writing one row of a table keeps its type and adds at most its key.
LEMMA WithTable ==
  ASSUME NEW S, NEW f, f \in [DOMAIN f -> S], NEW y, NEW v \in S
  PROVE  /\ DOMAIN With(f, y, v) = DOMAIN f \cup {y}
         /\ With(f, y, v) \in [DOMAIN With(f, y, v) -> S]
BY DEF With

\* Dropping rows keeps the type of a table.
LEMMA KeepTable ==
  ASSUME NEW S, NEW f, f \in [DOMAIN f -> S], NEW T
  PROVE  /\ DOMAIN Keep(f, T) = DOMAIN f \cap T
         /\ Keep(f, T) \in [DOMAIN Keep(f, T) -> S]
BY DEF Keep

\* Types of the causal paths a message or a step derives.

\* Delegation and return make contexts of contexts.
LEMMA PathTypes ==
  ASSUME NEW d \in Context, NEW s \in Sessions
  PROVE  /\ Delegated(d, s) \in Context
         /\ Returned(d) \in Context
         /\ BackTo(d, s) \in Context
<1>1. d.path \in Seq(Sessions) /\ d.chain \in Nat
  BY DEF Context
<1>2. Delegated(d, s) \in Context
  BY <1>1 DEF Delegated, Context
<1>3. \A n \in Nat : n <= Len(d.path) => SubSeq(d.path, 1, n) \in Seq(Sessions)
  BY <1>1
<1>4. Returned(d) \in Context
  <2>1. CASE d.path = <<>>
    BY <1>1, <2>1 DEF Returned, Context
  <2>2. CASE d.path # <<>>
    <3>1. Len(d.path) - 1 \in Nat
      BY <1>1, <2>2
    <3>2. QED
      BY <1>1, <1>3, <3>1 DEF Returned, Context
  <2>3. QED
    BY <2>1, <2>2
<1>5. ASSUME s \in Stops(d.path)
      PROVE  CutAt(d, s) \in Context
  <2>1. PositionOf(s, d.path) \in 1..Len(d.path)
    <3>1. \E i \in DOMAIN d.path : d.path[i] = s
      BY <1>5 DEF Stops
    <3>2. PositionOf(s, d.path) \in DOMAIN d.path
      BY <3>1, Zenon DEF PositionOf
    <3>3. QED
      BY <1>1, <3>2
  <2>2. QED
    BY <1>1, <1>3, <2>1 DEF CutAt, Context
<1>6. QED
  BY <1>2, <1>4, <1>5 DEF BackTo

\* A lapsed row is a row, and only its two states may differ.
LEMMA LapseType ==
  ASSUME NEW m \in Message
  PROVE  /\ Lapse(m) \in Message
         /\ \A f \in DOMAIN m \ {"request", "delivery"} : Lapse(m)[f] = m[f]
BY DEF Lapse, Message, Live, Settled, RequestStates

\* The sweep of expired rows keeps the table's type.
LEMMA SweptTable ==
  ASSUME TypeOK, NEW S
  PROVE  /\ DOMAIN Swept(S) = DOMAIN messages
         /\ Swept(S) \in [DOMAIN messages -> Message]
<1>1. \A id \in DOMAIN messages : messages[id] \in Message
  BY DEF TypeOK
<1>2. \A id \in DOMAIN messages : Lapse(messages[id]) \in Message
  BY <1>1, LapseType
<1>3. QED
  BY <1>1, <1>2 DEF Swept

\* Inserting a row keeps the table's type.
LEMMA InsertTable ==
  ASSUME TypeOK,
         NEW sender \in Senders, NEW key \in Keys, NEW to \in Sessions,
         NEW kind \in Kinds, NEW mode \in Modes, NEW re \in Nat,
         NEW contexts \in SUBSET Context, NEW expires \in Nat, NEW late \in BOOLEAN,
         NEW table \in [DOMAIN messages -> Message],
         Insert(sender, key, to, kind, mode, re, contexts, expires, late, table)
  PROVE  /\ lastSeq' \in Nat
         /\ DOMAIN messages' \subseteq 1..lastSeq'
         /\ messages' \in [DOMAIN messages' -> Message]
<1> DEFINE row == [sender |-> sender, key |-> key, to |-> to, kind |-> kind, mode |-> mode,
        inReplyTo |-> re, contexts |-> contexts, expires |-> expires,
        delivery |-> IF late THEN "late" ELSE "accepted",
        request |-> IF kind = "request" THEN "open" ELSE "none",
        reply |-> 0, claimed |-> FALSE]
<1>1. row \in Message
  BY DEF Message, Live, Settled, RequestStates
<1>2. messages' = With(table, lastSeq + 1, row)
  BY DEF Insert
<1>3. table \in [DOMAIN table -> Message] /\ DOMAIN table = DOMAIN messages
  OBVIOUS
<1>4. DOMAIN messages' = DOMAIN messages \cup {lastSeq + 1}
  <2>1. DOMAIN messages' = DOMAIN table \cup {lastSeq + 1}
    BY <1>2 DEF With
  <2>2. QED
    BY <2>1, <1>3
<1>5. messages' \in [DOMAIN messages' -> Message]
  <2> HIDE DEF row
  <2>1. messages' = [y \in DOMAIN messages \cup {lastSeq + 1} |->
                       IF y = lastSeq + 1 THEN row ELSE table[y]]
    BY <1>2, <1>3 DEF With
  <2>2. \A y \in DOMAIN messages : table[y] \in Message
    BY <1>3
  <2>3. QED
    BY <1>1, <1>4, <2>1, <2>2
<1>6. lastSeq' = lastSeq + 1
  BY DEF Insert
<1>7. QED
  BY <1>4, <1>5, <1>6 DEF TypeOK

\* A root context is a context.
LEMMA RootType ==
  ASSUME TypeOK, NEW s \in Sessions
  PROVE  Root(s) \in SUBSET Context
BY DEF TypeOK, Root, Context

\* A fresh chain is a chain.
LEMMA FreshChainType ==
  ASSUME TypeOK, NEW u \in Nat
  PROVE  FreshChain(u) \in Chain
BY DEF TypeOK, FreshChain, Chain

\* A new chain keeps the type of the chains.
LEMMA ChainTable ==
  ASSUME TypeOK, NEW u \in Nat,
         chains' = With(chains, lastChain + 1, FreshChain(u)), lastChain' = lastChain + 1
  PROVE  /\ lastChain' \in Nat
         /\ DOMAIN chains' \subseteq 1..lastChain'
         /\ chains' \in [DOMAIN chains' -> Chain]
<1>1. FreshChain(u) \in Chain
  BY FreshChainType
<1>2. DOMAIN chains' = DOMAIN chains \cup {lastChain + 1}
  BY DEF With
<1>3. chains' \in [DOMAIN chains' -> Chain]
  BY <1>1, WithTable DEF TypeOK
<1>4. QED
  BY <1>2, <1>3 DEF TypeOK

\* Charging chains keeps their type.
LEMMA ChargedTable ==
  ASSUME TypeOK, NEW ids
  PROVE  /\ DOMAIN Charged(ids) = DOMAIN chains
         /\ Charged(ids) \in [DOMAIN chains -> Chain]
BY DEF TypeOK, Charged, Chain

\* The row an admission builds is a row.
LEMMA RowType ==
  ASSUME TypeOK, NEW id \in DOMAIN messages
  PROVE  /\ messages[id] \in Message
         /\ id \in Nat
BY DEF TypeOK

-----------------------------------------------------------------------------
\* Every step of the ledger keeps the schema of its tables.
LEMMA TypeStep == TypeOK /\ [Next]_vars => TypeOK'
<1> SUFFICES ASSUME TypeOK, [Next]_vars
             PROVE  TypeOK'
  OBVIOUS
<1>1. CASE UNCHANGED vars
  BY <1>1 DEF vars, TypeOK
<1>2. CASE Tick
  BY <1>2 DEF Tick, TypeOK
<1>3. CASE Prune
  <2>1. DOMAIN Swept(Sessions) = DOMAIN messages
        /\ Swept(Sessions) \in [DOMAIN messages -> Message]
    BY SweptTable
  <2>2. /\ DOMAIN messages' \subseteq DOMAIN messages
        /\ messages' \in [DOMAIN messages' -> Message]
    BY <1>3, <2>1 DEF Prune, Keep
  <2>3. /\ DOMAIN chains' \subseteq DOMAIN chains
        /\ chains' \in [DOMAIN chains' -> Chain]
    BY <1>3 DEF Prune, Keep, TypeOK
  <2>4. QED
    BY <1>3, <2>2, <2>3 DEF Prune, TypeOK
<1>4. ASSUME NEW source \in Externals, NEW to \in Roots, NEW kind \in Kinds,
             NEW key \in Keys, NEW mode \in Modes,
             AdmitExternal(source, to, kind, mode, key)
      PROVE  TypeOK'
  <2>1. to \in Sessions /\ source \in Senders
    BY <1>4 DEF Roots, Senders
  <2>2. Root(to) \in SUBSET Context /\ now + Ttl \in Nat
    BY <2>1, RootType DEF TypeOK
  <2>3. Swept({to}) \in [DOMAIN messages -> Message]
    BY SweptTable
  <2>4. Insert(source, key, to, kind, mode, 0, Root(to), now + Ttl, FALSE, Swept({to}))
    BY <1>4 DEF AdmitExternal
  <2>5. /\ lastSeq' \in Nat
        /\ DOMAIN messages' \subseteq 1..lastSeq'
        /\ messages' \in [DOMAIN messages' -> Message]
    BY <2>1, <2>2, <2>3, <2>4, InsertTable
  <2>6. /\ lastChain' \in Nat
        /\ DOMAIN chains' \subseteq 1..lastChain'
        /\ chains' \in [DOMAIN chains' -> Chain]
    BY <1>4, ChainTable DEF AdmitExternal
  <2>7. QED
    BY <2>4, <2>5, <2>6 DEF Insert, TypeOK
<1>5. ASSUME NEW from \in Roots, NEW to \in Roots, NEW kind \in Kinds,
             NEW key \in Keys, NEW mode \in Modes,
             AdmitTask(from, to, kind, mode, key)
      PROVE  TypeOK'
  <2> DEFINE contexts == {Delegated(d, to) : d \in context[from]}
             ids == ChainIds(contexts)
  <2>1. to \in Sessions /\ from \in Sessions /\ from \in Senders
    BY DEF Roots, Senders
  <2>2. contexts \in SUBSET Context
    BY <2>1, PathTypes DEF TypeOK
  <2> HIDE DEF contexts
  <2>3. PICK expires \in Deadlines(ids) :
          Insert(from, key, to, kind, mode, 0, contexts, expires, FALSE, Swept({to}))
    BY <1>5 DEF AdmitTask, contexts
  <2>4. ids \subseteq DOMAIN chains /\ chains' = Charged(ids) /\ lastChain' = lastChain
    BY <1>5 DEF AdmitTask, Chargeable, contexts
  <2>5. expires \in Nat
    BY <2>3, <2>4 DEF Deadlines, TypeOK, Chain
  <2>6. Swept({to}) \in [DOMAIN messages -> Message]
    BY SweptTable
  <2>7. /\ lastSeq' \in Nat
        /\ DOMAIN messages' \subseteq 1..lastSeq'
        /\ messages' \in [DOMAIN messages' -> Message]
    BY <2>1, <2>2, <2>3, <2>5, <2>6, InsertTable
  <2>8. DOMAIN chains' = DOMAIN chains /\ chains' \in [DOMAIN chains' -> Chain]
    BY <2>4, ChargedTable
  <2>9. QED
    BY <2>3, <2>4, <2>7, <2>8 DEF Insert, TypeOK
<1>6. ASSUME NEW from \in Roots, NEW id \in DOMAIN messages,
             NEW key \in Keys, NEW mode \in Modes,
             AdmitProgress(from, id, mode, key) \/ AdmitReply(from, id, mode, key)
      PROVE  TypeOK'
  <2> DEFINE to == messages[id].sender
             contexts == ReturnContexts(id, from)
             ids == ChainIds(contexts)
             deadlines == Deadlines(ids) \cup {messages[id].expires}
  <2>1. messages[id] \in Message /\ id \in Nat
    BY RowType
  <2>2. to \in Sessions /\ from \in Sessions /\ from \in Senders
    BY <1>6 DEF AdmitProgress, AdmitReply, Answerable, Roots, Senders
  <2>3. contexts \in SUBSET Context
    BY <2>1, <2>2, PathTypes DEF TypeOK, ReturnContexts, Message
  <2>4. ids \subseteq DOMAIN chains
    BY <1>6 DEF AdmitProgress, AdmitReply, Chargeable
  <2>5. deadlines \subseteq Nat
    BY <2>1, <2>4 DEF Deadlines, TypeOK, Chain, Message
  <2>6. Swept({to}) \in [DOMAIN messages -> Message]
    BY SweptTable
  <2>7. /\ lastSeq' \in Nat
        /\ DOMAIN messages' \subseteq 1..lastSeq'
        /\ messages' \in [DOMAIN messages' -> Message]
        /\ UNCHANGED <<now, context>>
    <3>1. CASE AdmitProgress(from, id, mode, key)
      <4>1. PICK expires \in deadlines :
              Insert(from, key, to, "notify", mode, id, contexts, expires, FALSE, Swept({to}))
        BY <3>1 DEF AdmitProgress
      <4> HIDE DEF to, contexts, ids, deadlines
      <4>2. "notify" \in Kinds
        BY DEF Kinds
      <4>3. QED
        BY <2>1, <2>2, <2>3, <2>5, <2>6, <4>1, <4>2, InsertTable DEF Insert
    <3>2. CASE AdmitReply(from, id, mode, key)
      <4> DEFINE closed(late) == [Swept({to}) EXCEPT ![id].reply = lastSeq + 1,
                                                     ![id].request = Outcome(id, late)]
      <4>1. ASSUME NEW late \in BOOLEAN
            PROVE  closed(late) \in [DOMAIN messages -> Message]
        <5>1. Outcome(id, late) \in RequestStates
          BY <2>1 DEF Outcome, RequestStates, Message
        <5>2. lastSeq + 1 \in Nat
          BY DEF TypeOK
        <5>3. Swept({to})[id] \in Message
          BY <2>6
        <5>4. [Swept({to})[id] EXCEPT !.reply = lastSeq + 1,
                                      !.request = Outcome(id, late)] \in Message
          BY <5>1, <5>2, <5>3 DEF Message
        <5>5. QED
          BY <2>6, <5>4
      <4>2. PICK expires \in deadlines, late \in BOOLEAN,
                 table \in [DOMAIN messages -> Message] :
              Insert(from, key, to, "reply", mode, id, contexts, expires, late, table)
        <5>1. PICK expires \in deadlines :
                Insert(from, key, to, "reply", mode, id, contexts, expires,
                       Lapsed(id) \/ expires <= now, closed(Lapsed(id) \/ expires <= now))
          BY <3>2 DEF AdmitReply
        <5>2. (Lapsed(id) \/ expires <= now) \in BOOLEAN
          OBVIOUS
        <5> HIDE DEF closed, deadlines, contexts, to
        <5>3. QED
          BY <4>1, <5>1, <5>2
      <4> HIDE DEF to, contexts, ids, deadlines
      <4>3. "reply" \in Kinds /\ contexts \in SUBSET Context /\ expires \in Nat
            /\ from \in Senders /\ to \in Sessions /\ id \in Nat
        BY <2>1, <2>2, <2>3, <2>5 DEF Kinds
      <4>4. /\ lastSeq' \in Nat
            /\ DOMAIN messages' \subseteq 1..lastSeq'
            /\ messages' \in [DOMAIN messages' -> Message]
        <5>1. CASE late = TRUE
          BY <4>2, <4>3, <5>1, InsertTable
        <5>2. CASE late = FALSE
          BY <4>2, <4>3, <5>2, InsertTable
        <5>3. QED
          BY <5>1, <5>2
      <4>5. UNCHANGED <<now, context>>
        BY <4>2 DEF Insert
      <4>6. QED
        BY <4>4, <4>5
    <3>3. QED
      BY <1>6, <3>1, <3>2
  <2>8. /\ DOMAIN chains' = DOMAIN chains
        /\ chains' \in [DOMAIN chains' -> Chain]
        /\ lastChain' = lastChain
    <3>1. chains' = chains \/ chains' = Charged(ids)
      BY <1>6 DEF AdmitProgress, AdmitReply
    <3>2. lastChain' = lastChain
      BY <1>6 DEF AdmitProgress, AdmitReply
    <3>3. QED
      BY <3>1, <3>2, ChargedTable DEF TypeOK
  <2>9. QED
    BY <2>7, <2>8 DEF TypeOK
<1>7. ASSUME NEW s \in Sessions, NewTask(s)
      PROVE  TypeOK'
  <2>1. /\ lastChain' \in Nat
        /\ DOMAIN chains' \subseteq 1..lastChain'
        /\ chains' \in [DOMAIN chains' -> Chain]
    BY <1>7, ChainTable DEF NewTask
  <2>2. context' \in [Sessions -> SUBSET Context]
    BY <1>7, RootType DEF NewTask, TypeOK
  <2>3. QED
    BY <1>7, <2>1, <2>2 DEF NewTask, TypeOK
<1>8. ASSUME NEW s \in Sessions, NEW incoming \in SUBSET Enterable(s),
             NEW human \in BOOLEAN, NEW replace \in BOOLEAN,
             Include(s, incoming, human, replace)
      PROVE  TypeOK'
  <2> DEFINE kept == (IF replace THEN {} ELSE context[s]) \cup Inherited(s)
             rooted == kept = {} /\ human /\ s \notin DOMAIN Parent
             current == IF rooted THEN Root(s) ELSE kept
             merged == current \cup UNION {messages[id].contexts : id \in incoming}
  <2>1. Inherited(s) \in SUBSET Context
    BY PathTypes DEF Inherited, TypeOK
  <2>2. UNION {messages[id].contexts : id \in incoming} \in SUBSET Context
    BY RowType DEF Enterable, Message
  <2>3. merged \in SUBSET Context
    BY <2>1, <2>2, RootType DEF TypeOK
  <2>4. context' \in [Sessions -> SUBSET Context]
    <3>1. context' = [context EXCEPT ![s] = merged]
      BY <1>8 DEF Include
    <3> HIDE DEF merged
    <3>2. QED
      BY <2>3, <3>1 DEF TypeOK
  <2>5. /\ lastChain' \in Nat
        /\ DOMAIN chains' \subseteq 1..lastChain'
        /\ chains' \in [DOMAIN chains' -> Chain]
    <3>1. \/ UNCHANGED <<chains, lastChain>>
          \/ /\ lastChain' = lastChain + 1
             /\ chains' = With(chains, lastChain + 1, FreshChain(0))
      BY <1>8 DEF Include
    <3>2. QED
      BY <3>1, ChainTable DEF TypeOK
  <2>6. QED
    BY <1>8, <2>4, <2>5 DEF Include, TypeOK
<1>9. ASSUME NEW s \in Sessions, NEW id \in DOMAIN messages,
             \/ \E claim \in BOOLEAN : Transition(s, id, "admitted", claim)
             \/ Transition(s, id, "consumed", FALSE)
             \/ \E human \in BOOLEAN : Cancel(s, id, human)
      PROVE  TypeOK'
  <2>1. messages[id] \in Message
    BY RowType
  <2>2. \E row \in Message : messages' = [messages EXCEPT ![id] = row]
    <3>1. ASSUME NEW delivery \in {"admitted", "consumed"}, NEW claim \in BOOLEAN,
                 Transition(s, id, delivery, claim)
          PROVE  \E row \in Message : messages' = [messages EXCEPT ![id] = row]
      <4>1. [messages[id] EXCEPT !.delivery = delivery, !.claimed = @ \/ claim] \in Message
        BY <2>1, <3>1 DEF Message, Live, Settled
      <4>2. messages' = [messages EXCEPT ![id] =
               [messages[id] EXCEPT !.delivery = delivery, !.claimed = @ \/ claim]]
        BY <3>1 DEF Transition, TypeOK
      <4>3. QED
        BY <4>1, <4>2
    <3>2. ASSUME NEW human \in BOOLEAN, Cancel(s, id, human)
          PROVE  \E row \in Message : messages' = [messages EXCEPT ![id] = row]
      <4> DEFINE row == [messages[id] EXCEPT
            !.request = IF messages[id].kind = "request" THEN "cancelled" ELSE @,
            !.delivery = IF @ \in Live THEN "cancelled" ELSE @]
      <4>1. row \in Message
        BY <2>1 DEF Message, Live, Settled, RequestStates
      <4>2. messages' = [messages EXCEPT ![id] = row]
        BY <3>2 DEF Cancel, TypeOK
      <4>3. QED
        BY <4>1, <4>2
    <3>3. QED
      BY <1>9, <3>1, <3>2
  <2>3. DOMAIN messages' = DOMAIN messages /\ messages' \in [DOMAIN messages' -> Message]
    BY <2>2 DEF TypeOK
  <2>4. UNCHANGED <<now, context, chains, lastChain, lastSeq>>
    BY <1>9 DEF Transition, Cancel
  <2>5. QED
    BY <2>3, <2>4 DEF TypeOK
<1>10. ASSUME NEW s \in Sessions, NEW cutoff \in 0..lastSeq, Deferred(s, cutoff)
       PROVE  TypeOK'
  <2>1. DOMAIN Swept({s}) = DOMAIN messages /\ Swept({s}) \in [DOMAIN messages -> Message]
    BY SweptTable
  <2>2. \A id \in DOMAIN messages :
          [Swept({s})[id] EXCEPT !.claimed = TRUE] \in Message
    BY <2>1 DEF Message
  <2>3. PICK selected :
          messages' = [id \in DOMAIN messages |->
            IF id \in selected THEN [Swept({s})[id] EXCEPT !.claimed = TRUE]
                               ELSE Swept({s})[id]]
    BY <1>10 DEF Deferred
  <2>4. DOMAIN messages' = DOMAIN messages /\ messages' \in [DOMAIN messages' -> Message]
    BY <2>1, <2>2, <2>3
  <2>5. QED
    BY <1>10, <2>4 DEF Deferred, TypeOK
<1>11. ASSUME NEW s \in Sessions, Expire(s)
       PROVE  TypeOK'
  BY <1>11, SweptTable DEF Expire, TypeOK
<1>12. QED
  BY <1>1, <1>2, <1>3, <1>4, <1>5, <1>6, <1>7, <1>8, <1>9, <1>10, <1>11
     DEF Next, Admit, Owned

-----------------------------------------------------------------------------
\* The inductive invariant

\* A subagent is younger than the session that spawned it.
Born == CHOOSE born \in [Sessions -> 1..Cardinality(Sessions)] :
          \A s \in DOMAIN Parent : born[Parent[s]] < born[s]

LEMMA ParentIsOlder == \A s \in DOMAIN Parent : Born[s] \in Int /\ Born[Parent[s]] \in Int
                                                /\ Born[Parent[s]] < Born[s]
<1>1. Born \in [Sessions -> 1..Cardinality(Sessions)] /\ \A s \in DOMAIN Parent : Born[Parent[s]] < Born[s]
  <2>1. \E born \in [Sessions -> 1..Cardinality(Sessions)] :
          \A s \in DOMAIN Parent : born[Parent[s]] < born[s]
    BY MailboxAssumption
  <2> QED
    BY <2>1 DEF Born
<1>2. \A s \in Sessions : Born[s] \in Int
  BY <1>1
<1> QED
  BY <1>1, <1>2

\* The sessions a causal path of p may pass: root sessions, p and its own ancestors.
Lineage(p) ==
  {s \in Sessions : s \in DOMAIN Parent => p \in DOMAIN Parent /\ (s = p \/ Born[s] < Born[p])}

\* Paths name chains that were handed out, and sessions that could have been there.
Known ==
  /\ \A s \in Sessions : \A d \in context[s] : d.chain <= lastChain /\ Stops(d.path) \subseteq Lineage(s)
  /\ \A id \in DOMAIN messages :
       /\ messages[id].to \in Roots /\ messages[id].sender \in Roots \cup Externals
       /\ \A d \in messages[id].contexts : d.chain <= lastChain /\ Stops(d.path) \subseteq Roots

\* The stop before the last one of a path.
Arrives(p, from) == Len(p) >= 2 /\ p[Len(p) - 1] = from

\* The paths of a request arrive from the session that sent it: there a reply returns.
Asked ==
  \A id \in DOMAIN messages :
    messages[id].kind = "request" /\ messages[id].sender \in Sessions =>
      \A d \in messages[id].contexts : Arrives(d.path, messages[id].sender)

\* A reply comes after its request, and a request that says it was answered has one.
Answered ==
  \A id \in DOMAIN messages :
    /\ messages[id].kind = "reply" => messages[id].inReplyTo < id
    /\ messages[id].request = "replied" => messages[id].reply # 0

Causes == Known /\ Asked /\ PathsSound /\ LiveChainsKept /\ BudgetAccounts
IInv == TypeOK /\ Causes /\ FinalReplies /\ Answered

-----------------------------------------------------------------------------
\* Causal paths

\* All but the last.
LEMMA Lower == \A n \in Nat : \A i \in 1..(n + 1) : i # n + 1 => i \in 1..n
OBVIOUS

LEMMA AppendSound ==
  ASSUME NEW p \in Seq(Sessions), NEW from \in Sessions, NEW to \in Sessions,
         SoundPath(p, from), to \notin Stops(p), NEW q, q = Append(p, to)
  PROVE  /\ SoundPath(q, to) /\ Stops(q) = Stops(p) \cup {to}
         /\ Arrives(q, from)
<1>1. p # <<>> /\ p[Len(p)] = from /\ \A i, j \in DOMAIN p : p[i] = p[j] => i = j
  BY DEF SoundPath
<1>2. Len(p) \in Nat \ {0} /\ DOMAIN p = 1..Len(p)
  BY <1>1
<1>3. \A i \in 1..Len(p) : p[i] # to
  BY <1>2 DEF Stops
<1>4. /\ Len(q) = Len(p) + 1 /\ DOMAIN q = 1..(Len(p) + 1) /\ q[Len(p) + 1] = to
      /\ \A i \in 1..Len(p) : q[i] = p[i]
  BY <1>2
<1>5. PICK n : n = Len(p)
  OBVIOUS
<1>s. q[n + 1] = to /\ \A i \in 1..n : q[i] = p[i] /\ q[i] # to
  BY <1>3, <1>4, <1>5
<1>d. DOMAIN q = 1..(n + 1)
  BY <1>4, <1>5
<1>n. n \in Nat
  BY <1>2, <1>5
<1>6. ASSUME NEW i \in DOMAIN q, NEW j \in DOMAIN q, q[i] = q[j] PROVE i = j
  <2>1. i \in 1..(n + 1) /\ j \in 1..(n + 1) /\ n \in Nat
    BY <1>d, <1>n, Zenon
  <2>2. CASE i = n + 1 /\ j # n + 1
    <3>1. j \in 1..n
      BY <2>1, <2>2, Lower, Zenon
    <3> QED
      BY <1>s, <1>6, <2>2, <3>1
  <2>3. CASE i # n + 1 /\ j = n + 1
    <3>1. i \in 1..n
      BY <2>1, <2>3, Lower, Zenon
    <3> QED
      BY <1>s, <1>6, <2>3, <3>1
  <2>4. CASE i # n + 1 /\ j # n + 1
    <3>1. i \in 1..n /\ j \in 1..n
      BY <2>1, <2>4, Lower, Zenon
    <3> QED
      BY <1>1, <1>2, <1>5, <1>s, <1>6, <3>1
  <2> QED
    BY <2>2, <2>3, <2>4
<1>7. q # <<>> /\ q[Len(q)] = to /\ Len(q) >= 2 /\ q[Len(q) - 1] = from
  <2>1. Len(q) # 0 /\ Len(q) - 1 = Len(p) /\ Len(p) \in 1..Len(p)
    BY <1>2, <1>4
  <2> QED
    BY <1>1, <1>2, <1>4, <2>1
<1>8. Stops(q) = Stops(p) \cup {to}
  <2>1. DOMAIN q = DOMAIN p \cup {n + 1}
    BY <1>2, <1>4, <1>5
  <2>2. q[n + 1] = to /\ \A i \in DOMAIN p : q[i] = p[i]
    BY <1>2, <1>4, <1>5
  <2> QED
    BY <2>1, <2>2 DEF Stops
<1> QED
  BY <1>6, <1>7, <1>8 DEF SoundPath, Arrives

LEMMA DelegatedSound ==
  ASSUME NEW d \in Context, NEW from \in Sessions, NEW to \in Sessions,
         SoundPath(d.path, from), to \notin Stops(d.path)
  PROVE  LET e == Delegated(d, to) IN
         /\ SoundPath(e.path, to) /\ e.chain = d.chain /\ Stops(e.path) = Stops(d.path) \cup {to}
         /\ Arrives(e.path, from)
<1>1. d.path \in Seq(Sessions)
  BY DEF Context
<1>2. Delegated(d, to).path = Append(d.path, to) /\ Delegated(d, to).chain = d.chain
  BY DEF Delegated
<1>3. PICK q : q = Append(d.path, to)
  OBVIOUS
<1>4. SoundPath(q, to) /\ Stops(q) = Stops(d.path) \cup {to} /\ Arrives(q, from)
  BY <1>1, <1>3, AppendSound
<1> QED
  BY <1>2, <1>3, <1>4

LEMMA PrefixSound ==
  ASSUME NEW p \in Seq(Sessions), NEW from, SoundPath(p, from), NEW n \in 1..Len(p)
  PROVE  /\ SoundPath(SubSeq(p, 1, n), p[n]) /\ Stops(SubSeq(p, 1, n)) \subseteq Stops(p)
<1> DEFINE q == SubSeq(p, 1, n)
<1>1. Len(p) \in Nat /\ DOMAIN p = 1..Len(p)
  OBVIOUS
<1>2. Len(q) = n /\ DOMAIN q = 1..n /\ \A i \in 1..n : q[i] = p[i] /\ i \in 1..Len(p)
  BY <1>1
<1>3. q # <<>>
  BY <1>2
<1> HIDE DEF q
<1>4. SoundPath(q, p[n])
  BY <1>1, <1>2, <1>3 DEF SoundPath
<1>5. Stops(q) \subseteq Stops(p)
  BY <1>1, <1>2 DEF Stops
<1> QED
  BY <1>4, <1>5 DEF q

LEMMA ReturnedSound ==
  ASSUME NEW d \in Context, NEW from, NEW sender, SoundPath(d.path, from),
         Arrives(d.path, sender)
  PROVE  /\ SoundPath(Returned(d).path, sender) /\ Returned(d).chain = d.chain
         /\ Stops(Returned(d).path) \subseteq Stops(d.path)
<1>1. d.path \in Seq(Sessions)
  BY DEF Context
<1>2. Len(d.path) - 1 \in 1..Len(d.path) /\ d.path[Len(d.path) - 1] = sender
  BY <1>1 DEF Arrives
<1> QED
  BY <1>1, <1>2, PrefixSound DEF Returned

LEMMA BackToSound ==
  ASSUME NEW d \in Context, NEW from \in Sessions, NEW to \in Sessions, SoundPath(d.path, from)
  PROVE  /\ SoundPath(BackTo(d, to).path, to) /\ BackTo(d, to).chain = d.chain
         /\ Stops(BackTo(d, to).path) \subseteq Stops(d.path) \cup {to}
<1>1. CASE to \in Stops(d.path)
  <2>1. d.path \in Seq(Sessions)
    BY DEF Context
  <2>2. \E i \in DOMAIN d.path : d.path[i] = to
    BY <1>1 DEF Stops
  <2>3. PositionOf(to, d.path) \in DOMAIN d.path /\ d.path[PositionOf(to, d.path)] = to
    BY <2>2 DEF PositionOf
  <2>4. PositionOf(to, d.path) \in 1..Len(d.path)
    BY <2>1, <2>3
  <2> QED
    BY <1>1, <2>1, <2>3, <2>4, PrefixSound DEF BackTo, CutAt
<1>2. CASE to \notin Stops(d.path)
  BY <1>2, DelegatedSound DEF BackTo
<1> QED
  BY <1>1, <1>2

\* The path of a fresh chain.
LEMMA RootSound ==
  ASSUME NEW s \in Sessions, NEW d \in Root(s)
  PROVE  SoundPath(d.path, s) /\ Stops(d.path) = {s} /\ d.chain = lastChain + 1
<1>1. d.path = <<s>> /\ d.chain = lastChain + 1
  BY DEF Root
<1> QED
  BY <1>1 DEF SoundPath, Stops

-----------------------------------------------------------------------------
\* Four kinds of step: rows age, a session takes up causes, a message is admitted, and
\* an admitted message answers a request.

\* What a row was sent with, and how far it may go while nobody answers it.
SameLetter(m, n) ==
  /\ n.sender = m.sender /\ n.to = m.to /\ n.kind = m.kind /\ n.inReplyTo = m.inReplyTo
  /\ n.contexts = m.contexts /\ n.expires = m.expires
Aged(m, n) ==
  /\ SameLetter(m, n) /\ n.reply = m.reply
  /\ n.delivery = m.delivery \/ (m.delivery \in Live /\ n.delivery \in (Live \cup Settled) \ {"late"})
  /\ n.request = m.request \/ (m.request \notin Closed /\ n.request \in {"expired", "cancelled"})

Ages ==
  /\ DOMAIN messages' \subseteq DOMAIN messages
  /\ \A id \in DOMAIN messages' : Aged(messages[id], messages'[id])
  /\ DOMAIN chains' \subseteq DOMAIN chains
  /\ \A c \in DOMAIN chains' : chains'[c] = chains[c]
  /\ \A c \in DOMAIN chains \ DOMAIN chains' : chains[c].expires < now
  /\ now <= now'
  /\ UNCHANGED <<context, lastChain, lastSeq>>

\* Session s continues with the causal paths of `paths'.
Continues(s, paths) ==
  /\ context' = [context EXCEPT ![s] = paths]
  /\ \A d \in paths : SoundPath(d.path, s) /\ Stops(d.path) \subseteq Lineage(s) /\ d.chain <= lastChain'
  /\ \/ UNCHANGED <<chains, lastChain>>
     \/ lastChain' = lastChain + 1 /\ chains' = With(chains, lastChain + 1, FreshChain(0))
  /\ UNCHANGED <<now, messages, lastSeq>>

\* A new row whose paths lead to its recipient, on chains that outlast it.
Addressed(row) ==
  /\ row.to \in Roots /\ row.sender \in Roots \cup Externals
  /\ \A d \in row.contexts :
       /\ SoundPath(d.path, row.to) /\ Stops(d.path) \subseteq Roots
       /\ d.chain \in DOMAIN chains' /\ chains'[d.chain].expires >= row.expires
       /\ row.kind = "request" /\ row.sender \in Sessions => Arrives(d.path, row.sender)
\* It is paid for on every chain it is on, unless it is a reply.
Paid(row) ==
  /\ lastChain <= lastChain'
  /\ DOMAIN chains \subseteq DOMAIN chains'
  /\ \A c \in DOMAIN chains :
       /\ chains'[c].expires = chains[c].expires
       /\ IF row.kind # "reply" /\ c \in ChainIds(row.contexts)
          THEN chains'[c].used = chains[c].used + 1 /\ chains[c].used < MaxSends
          ELSE chains'[c].used = chains[c].used
  /\ \A c \in DOMAIN chains' \ DOMAIN chains :
       c = lastChain + 1 /\ chains'[c].used = 1 /\ MaxSends > 0
Posts(row, table) ==
  /\ row \in Message /\ Addressed(row) /\ Paid(row)
  /\ DOMAIN table = DOMAIN messages
  /\ lastSeq' = lastSeq + 1 /\ messages' = With(table, lastSeq + 1, row)
  /\ UNCHANGED <<now, context>>

Admits(row, table) ==
  /\ Posts(row, table) /\ row.kind # "reply" /\ row.request # "replied"
  /\ \A id \in DOMAIN messages : Aged(messages[id], table[id])

Replies(id, row, table) ==
  /\ Posts(row, table) /\ row.kind = "reply" /\ row.inReplyTo = id /\ row.request # "replied"
  /\ id \in DOMAIN messages /\ messages[id].reply = 0
  /\ \A i \in DOMAIN messages \ {id} : Aged(messages[i], table[i])
  /\ SameLetter(messages[id], table[id])
  /\ table[id].delivery = messages[id].delivery
       \/ (messages[id].delivery \in Live /\ table[id].delivery \in (Live \cup Settled) \ {"late"})
  /\ table[id].reply = lastSeq + 1
  /\ row.delivery = "late" \/ row.delivery = "accepted"
  /\ row.delivery # "late" => table[id].request = "replied" /\ messages[id].request = "open"
  /\ row.delivery = "late" => /\ table[id].request = messages[id].request
                                  \/ table[id].request = "expired"
                              /\ messages[id].request # "replied" => table[id].request # "replied"

-----------------------------------------------------------------------------
\* Each kind of step keeps the invariant.

LEMMA SpentFinite ==
  ASSUME TypeOK, NEW c
  PROVE  IsFiniteSet(Spent(c)) /\ Cardinality(Spent(c)) \in Nat
<1>1. lastSeq \in Nat /\ Spent(c) \in SUBSET (1..lastSeq)
  BY DEF TypeOK, Spent
<1>2. IsFiniteSet(1..lastSeq)
  BY <1>1, FS_Interval
<1> QED
  BY <1>1, <1>2, FS_Subset, FS_CardinalityType

LEMMA AgesStep == IInv /\ TypeOK' /\ Ages => IInv'
<1> SUFFICES ASSUME IInv, TypeOK', Ages PROVE IInv'
  OBVIOUS
<1>1. \A id \in DOMAIN messages' :
        /\ id \in DOMAIN messages /\ SameLetter(messages[id], messages'[id])
        /\ messages'[id].reply = messages[id].reply
        /\ messages'[id].delivery = "late" <=> messages[id].delivery = "late"
        /\ messages'[id].request = "replied" <=> messages[id].request = "replied"
  BY DEF Ages, Aged, Live, Closed
<1>2. Known'
  BY <1>1 DEF Known, IInv, Causes, Ages, SameLetter
<1>3. Asked'
  BY <1>1 DEF Asked, IInv, Causes, SameLetter
<1>4. PathsSound'
  BY <1>1 DEF PathsSound, IInv, Causes, Ages, SameLetter
<1>5. LiveChainsKept'
  <2> SUFFICES ASSUME NEW id \in DOMAIN messages', messages'[id].expires > now',
                      NEW c \in ChainIds(messages'[id].contexts)
               PROVE  c \in DOMAIN chains' /\ chains'[c].expires >= messages'[id].expires
    BY DEF LiveChainsKept
  <2>1. /\ messages[id].expires = messages'[id].expires /\ messages[id].contexts = messages'[id].contexts
        /\ id \in DOMAIN messages /\ messages[id] \in Message
    BY <1>1 DEF SameLetter, IInv, TypeOK
  <2>2. now \in Nat /\ now' \in Nat /\ messages[id].expires \in Nat /\ now <= now'
    BY <2>1 DEF IInv, TypeOK, Message, Ages
  <2>3. messages[id].expires > now
    BY <2>1, <2>2
  <2>4. c \in DOMAIN chains /\ chains[c].expires >= messages[id].expires
    BY <2>1, <2>3 DEF IInv, Causes, LiveChainsKept
  <2>5. chains[c].expires \in Nat
    BY <2>4 DEF IInv, TypeOK, Chain
  <2>6. ~(chains[c].expires < now)
    BY <2>2, <2>3, <2>4, <2>5
  <2> QED
    BY <2>1, <2>4, <2>6 DEF Ages
<1>6. BudgetAccounts'
  <2> SUFFICES ASSUME NEW c \in DOMAIN chains'
               PROVE  Cardinality(Spent(c)') <= chains'[c].used /\ chains'[c].used <= MaxSends
    BY DEF BudgetAccounts
  <2>1. c \in DOMAIN chains /\ chains'[c] = chains[c]
    BY DEF Ages
  <2>2. Spent(c)' \in SUBSET Spent(c)
    BY <1>1 DEF Spent, SameLetter
  <2>3. IsFiniteSet(Spent(c)) /\ Cardinality(Spent(c)) \in Nat
    BY SpentFinite DEF IInv
  <2>4. Cardinality(Spent(c)') <= Cardinality(Spent(c)) /\ IsFiniteSet(Spent(c)')
    BY <2>2, <2>3, FS_Subset
  <2>5. Cardinality(Spent(c)') \in Nat
    BY <2>4, FS_CardinalityType
  <2>6. chains[c].used \in Nat
    BY <2>1 DEF IInv, TypeOK, Chain
  <2>7. Cardinality(Spent(c)) <= chains[c].used /\ chains[c].used <= MaxSends
    BY <2>1 DEF IInv, Causes, BudgetAccounts
  <2> QED
    BY <2>1, <2>3, <2>4, <2>5, <2>6, <2>7
<1>7. FinalReplies'
  BY <1>1 DEF FinalReplies, IInv, SameLetter
<1>8. Answered'
  BY <1>1 DEF Answered, IInv, SameLetter
<1> QED
  BY <1>2, <1>3, <1>4, <1>5, <1>6, <1>7, <1>8 DEF IInv, Causes

\* With a fresh chain, the chains there were stay as they are.
LEMMA FreshRow ==
  ASSUME TypeOK, NEW u, chains' = With(chains, lastChain + 1, FreshChain(u))
  PROVE  /\ DOMAIN chains' = DOMAIN chains \cup {lastChain + 1} /\ lastChain + 1 \notin DOMAIN chains
         /\ \A c \in DOMAIN chains : chains'[c] = chains[c]
         /\ chains'[lastChain + 1].used = u /\ chains'[lastChain + 1].expires = now + Ttl
<1>1. lastChain + 1 \notin DOMAIN chains
  BY DEF TypeOK
<1> QED
  BY <1>1 DEF With, FreshChain

\* The chains of causal paths are chains that were handed out.
LEMMA KnownChains ==
  ASSUME TypeOK, Known
  PROVE  /\ \A s \in Sessions : \A d \in context[s] : d \in Context /\ d.chain \in Nat /\ d.chain <= lastChain
         /\ \A id \in DOMAIN messages : \A d \in messages[id].contexts :
              d \in Context /\ d.chain \in Nat /\ d.chain <= lastChain
<1>1. \A s \in Sessions : \A d \in context[s] : d \in Context /\ d.chain <= lastChain
  BY DEF TypeOK, Known
<1>2. ASSUME NEW id \in DOMAIN messages, NEW d \in messages[id].contexts
      PROVE  d \in Context /\ d.chain <= lastChain
  <2>1. messages[id] \in Message
    BY DEF TypeOK
  <2> QED
    BY <2>1 DEF Message, Known
<1>3. \A d \in Context : d.chain \in Nat
  BY DEF Context
<1> QED
  BY <1>1, <1>2, <1>3

\* No message is on a chain that was not handed out yet.
LEMMA Unspent ==
  ASSUME TypeOK, Known, NEW c \in Nat, c > lastChain
  PROVE  Spent(c) = {}
<1>1. \A id \in DOMAIN messages : \A d \in messages[id].contexts : d.chain # c
  <2> SUFFICES ASSUME NEW id \in DOMAIN messages, NEW d \in messages[id].contexts PROVE d.chain # c
    OBVIOUS
  <2>1. d.chain \in Nat /\ d.chain <= lastChain /\ lastChain \in Nat
    BY KnownChains DEF TypeOK
  <2> QED
    BY <2>1
<1> QED
  BY <1>1 DEF Spent, ChainIds

LEMMA ContinuesStep ==
  ASSUME IInv, TypeOK', NEW s \in Sessions, NEW paths, Continues(s, paths)
  PROVE  IInv'
<1>t. TypeOK /\ lastChain \in Nat /\ lastChain' \in Nat /\ Known
  BY DEF IInv, TypeOK, Causes
<1>0. /\ UNCHANGED <<now, messages, lastSeq>> /\ lastChain <= lastChain'
      /\ DOMAIN chains \subseteq DOMAIN chains' /\ \A c \in DOMAIN chains : chains'[c] = chains[c]
      /\ \A c \in DOMAIN chains' \ DOMAIN chains : c = lastChain + 1 /\ chains'[c].used = 0
  <2>1. CASE UNCHANGED <<chains, lastChain>>
    BY <1>t, <2>1 DEF Continues
  <2>2. CASE lastChain' = lastChain + 1 /\ chains' = With(chains, lastChain + 1, FreshChain(0))
    BY <1>t, <2>2, FreshRow DEF Continues
  <2> QED
    BY <2>1, <2>2 DEF Continues
<1>c. /\ context'[s] = paths /\ \A q \in Sessions \ {s} : context'[q] = context[q]
      /\ \A d \in paths : SoundPath(d.path, s) /\ Stops(d.path) \subseteq Lineage(s) /\ d.chain <= lastChain'
  BY <1>t DEF Continues, TypeOK
<1>n. /\ \A q \in Sessions : \A d \in context[q] : d.chain <= lastChain'
      /\ \A id \in DOMAIN messages : \A d \in messages[id].contexts : d.chain <= lastChain'
  <2>1. \A c \in Nat : c <= lastChain => c <= lastChain'
    BY <1>t, <1>0
  <2> QED
    BY <1>t, <2>1, KnownChains
<1>1. Known'
  <2>1. ASSUME NEW q \in Sessions, NEW d \in context'[q]
        PROVE  d.chain <= lastChain' /\ Stops(d.path) \subseteq Lineage(q)
    BY <1>c, <1>n, <1>t DEF Known
  <2> QED
    BY <1>0, <1>n, <1>t, <2>1 DEF Known
<1>2. Asked' /\ FinalReplies' /\ Answered'
  BY <1>0 DEF Asked, FinalReplies, Answered, IInv, Causes
<1>3. PathsSound'
  <2>1. ASSUME NEW q \in Sessions, NEW d \in context'[q] PROVE SoundPath(d.path, q)
    BY <1>c DEF PathsSound, IInv, Causes
  <2> QED
    BY <1>0, <2>1 DEF PathsSound, IInv, Causes
<1>4. LiveChainsKept'
  BY <1>0 DEF LiveChainsKept, IInv, Causes
<1>5. BudgetAccounts'
  <2> SUFFICES ASSUME NEW c \in DOMAIN chains'
               PROVE  Cardinality(Spent(c)') <= chains'[c].used /\ chains'[c].used <= MaxSends
    BY DEF BudgetAccounts
  <2>1. Spent(c)' = Spent(c)
    BY <1>0 DEF Spent
  <2>2. CASE c \in DOMAIN chains
    BY <1>0, <2>1, <2>2 DEF BudgetAccounts, IInv, Causes
  <2>3. CASE c \notin DOMAIN chains
    <3>1. c = lastChain + 1 /\ chains'[c].used = 0
      BY <1>0, <2>3
    <3>2. Spent(c) = {}
      BY <1>t, <3>1, Unspent
    <3> QED
      BY <2>1, <3>1, <3>2, FS_EmptySet
  <2> QED
    BY <2>2, <2>3
<1> QED
  BY <1>1, <1>2, <1>3, <1>4, <1>5 DEF IInv, Causes

\* The table after an insert.
LEMMA PostedTable ==
  ASSUME TypeOK, NEW row, NEW table, Posts(row, table), NEW n, n = lastSeq + 1
  PROVE  /\ DOMAIN messages' = DOMAIN messages \cup {n} /\ n \notin DOMAIN messages /\ n \in Nat \ {0}
         /\ messages'[n] = row /\ \A id \in DOMAIN messages : messages'[id] = table[id]
         /\ \A id \in DOMAIN messages : id \in Nat /\ id # 0 /\ id < n
BY DEF TypeOK, Posts, With

\* A message that is addressed and paid for keeps paths, chains and budgets in order.
LEMMA PostsStep ==
  ASSUME IInv, TypeOK', NEW row, NEW table, Posts(row, table),
         \A id \in DOMAIN messages : SameLetter(messages[id], table[id])
  PROVE  Causes'
<1>n. PICK n : n = lastSeq + 1
  OBVIOUS
<1>t. TypeOK /\ Known /\ lastChain \in Nat /\ lastChain' \in Nat /\ lastChain <= lastChain'
      /\ UNCHANGED <<now, context>>
  BY DEF IInv, TypeOK, Causes, Posts, Paid
<1>1. /\ DOMAIN messages' = DOMAIN messages \cup {n} /\ n \notin DOMAIN messages
      /\ messages'[n] = row
      /\ \A id \in DOMAIN messages : SameLetter(messages[id], messages'[id])
  BY <1>n, <1>t, PostedTable
<1>a. Addressed(row) /\ Paid(row) /\ row \in Message
  BY DEF Posts
<1>c. \A c \in Nat : c <= lastChain => c <= lastChain'
  BY <1>t
<1>r. \A d \in row.contexts : d \in Context /\ d.chain \in Nat /\ d.chain <= lastChain'
  <2> SUFFICES ASSUME NEW d \in row.contexts PROVE d \in Context /\ d.chain \in Nat /\ d.chain <= lastChain'
    OBVIOUS
  <2>1. d.chain \in DOMAIN chains' /\ DOMAIN chains' \subseteq 1..lastChain'
    BY <1>a DEF Addressed, TypeOK
  <2>2. d \in Context
    BY <1>a DEF Message
  <2> QED
    BY <1>t, <2>1, <2>2
<1>2. Known'
  <2>1. \A s \in Sessions : \A d \in context'[s] : d.chain <= lastChain' /\ Stops(d.path) \subseteq Lineage(s)
    BY <1>t, <1>c, KnownChains DEF Known
  <2>2. ASSUME NEW id \in DOMAIN messages
        PROVE  /\ messages'[id].to \in Roots /\ messages'[id].sender \in Roots \cup Externals
               /\ \A d \in messages'[id].contexts : d.chain <= lastChain' /\ Stops(d.path) \subseteq Roots
    BY <1>t, <1>c, <1>1, KnownChains DEF Known, SameLetter
  <2>3. /\ row.to \in Roots /\ row.sender \in Roots \cup Externals
        /\ \A d \in row.contexts : d.chain <= lastChain' /\ Stops(d.path) \subseteq Roots
    BY <1>a, <1>r DEF Addressed
  <2> QED
    BY <1>1, <2>1, <2>2, <2>3 DEF Known
<1>3. Asked'
  BY <1>1, <1>a DEF Asked, IInv, Causes, SameLetter, Addressed
<1>4. PathsSound'
  BY <1>1, <1>a, <1>t DEF PathsSound, IInv, Causes, SameLetter, Addressed
<1>5. LiveChainsKept'
  <2> SUFFICES ASSUME NEW id \in DOMAIN messages', messages'[id].expires > now',
                      NEW d \in messages'[id].contexts
               PROVE  d.chain \in DOMAIN chains' /\ chains'[d.chain].expires >= messages'[id].expires
    BY DEF LiveChainsKept, ChainIds
  <2>1. CASE id = n
    BY <1>1, <1>a, <2>1 DEF Addressed
  <2>2. CASE id # n
    <3>1. /\ id \in DOMAIN messages /\ messages'[id].expires = messages[id].expires
          /\ messages'[id].contexts = messages[id].contexts
      BY <1>1, <2>2 DEF SameLetter
    <3>2. d.chain \in DOMAIN chains /\ chains[d.chain].expires >= messages[id].expires
      BY <1>t, <3>1 DEF LiveChainsKept, ChainIds, IInv, Causes
    <3> QED
      BY <1>a, <3>1, <3>2 DEF Paid
  <2> QED
    BY <2>1, <2>2
<1>6. BudgetAccounts'
  <2> SUFFICES ASSUME NEW c \in DOMAIN chains'
               PROVE  Cardinality(Spent(c)') <= chains'[c].used /\ chains'[c].used <= MaxSends
    BY DEF BudgetAccounts
  <2>f. IsFiniteSet(Spent(c)) /\ Cardinality(Spent(c)) \in Nat
    BY <1>t, SpentFinite
  <2>g. \A id \in DOMAIN messages : id \in Spent(c)' <=> id \in Spent(c)
    BY <1>1 DEF Spent, SameLetter
  <2>n. n \in Spent(c)' <=> row.kind # "reply" /\ c \in ChainIds(row.contexts)
    BY <1>1 DEF Spent
  <2>h. Spent(c)' \subseteq DOMAIN messages \cup {n} /\ Spent(c) \subseteq DOMAIN messages
    BY <1>1 DEF Spent
  <2>1. CASE c \in DOMAIN chains
    <3>1. Cardinality(Spent(c)) <= chains[c].used /\ chains[c].used <= MaxSends /\ chains[c].used \in Nat
      BY <2>1 DEF BudgetAccounts, IInv, Causes, TypeOK, Chain
    <3>2. CASE row.kind # "reply" /\ c \in ChainIds(row.contexts)
      <4>1. chains'[c].used = chains[c].used + 1 /\ chains[c].used < MaxSends
        BY <1>a, <2>1, <3>2 DEF Paid
      <4>2. Spent(c)' = Spent(c) \cup {n} /\ n \notin Spent(c)
        BY <1>1, <2>g, <2>n, <2>h, <3>2
      <4>3. Cardinality(Spent(c)') = Cardinality(Spent(c)) + 1
        BY <2>f, <4>2, FS_AddElement
      <4> QED
        BY <2>f, <3>1, <4>1, <4>3
    <3>3. CASE ~(row.kind # "reply" /\ c \in ChainIds(row.contexts))
      <4>1. chains'[c].used = chains[c].used
        BY <1>a, <2>1, <3>3 DEF Paid
      <4>2. Spent(c)' = Spent(c)
        BY <2>g, <2>n, <2>h, <3>3
      <4> QED
        BY <3>1, <4>1, <4>2
    <3> QED
      BY <3>2, <3>3
  <2>2. CASE c \notin DOMAIN chains
    <3>1. c = lastChain + 1 /\ chains'[c].used = 1 /\ MaxSends > 0
      BY <1>a, <2>2 DEF Paid
    <3>2. Spent(c) = {}
      BY <1>t, <3>1, Unspent
    <3>3. Spent(c)' \in SUBSET {n}
      BY <2>g, <2>h, <3>2
    <3>4. IsFiniteSet({n}) /\ Cardinality({n}) = 1
      BY FS_Singleton
    <3>5. IsFiniteSet(Spent(c)') /\ Cardinality(Spent(c)') <= 1
      BY <3>3, <3>4, FS_Subset
    <3> QED
      BY <3>1, <3>5
  <2> QED
    BY <2>1, <2>2
<1> QED
  BY <1>2, <1>3, <1>4, <1>5, <1>6 DEF Causes

\* What no row of the table may do from one step to the next.
Final ==
  \A id \in DOMAIN messages \cap DOMAIN messages' :
    /\ messages[id].delivery \in Settled => messages'[id].delivery = messages[id].delivery
    /\ messages[id].request \in Closed => messages'[id].request \in Closed
    /\ messages[id].request = "replied" => messages'[id].request = "replied"
    /\ messages[id].reply # 0 => messages'[id].reply = messages[id].reply

LEMMA AgedIsFinal ==
  ASSUME NEW m, NEW n, Aged(m, n)
  PROVE  /\ m.delivery \in Settled => n.delivery = m.delivery
         /\ m.request \in Closed => n.request \in Closed
         /\ m.request = "replied" => n.request = "replied"
         /\ m.reply # 0 => n.reply = m.reply
BY DEF Aged, Live, Settled, Closed

LEMMA AdmitsStep ==
  ASSUME IInv, TypeOK', NEW row, NEW table, Admits(row, table)
  PROVE  IInv' /\ Final
<1>n. PICK n : n = lastSeq + 1
  OBVIOUS
<1>t. TypeOK /\ Posts(row, table) /\ row.kind # "reply" /\ row.request # "replied"
  BY DEF IInv, Admits
<1>1. /\ DOMAIN messages' = DOMAIN messages \cup {n} /\ n \notin DOMAIN messages /\ n \in Nat
      /\ messages'[n] = row /\ \A id \in DOMAIN messages : Aged(messages[id], messages'[id])
      /\ \A id \in DOMAIN messages : id \in Nat /\ id < n
  BY <1>n, <1>t, PostedTable DEF Admits
<1>2. \A id \in DOMAIN messages :
        /\ messages'[id].kind = messages[id].kind /\ messages'[id].inReplyTo = messages[id].inReplyTo
        /\ messages'[id].reply = messages[id].reply
        /\ messages'[id].delivery = "late" <=> messages[id].delivery = "late"
        /\ messages'[id].request = "replied" <=> messages[id].request = "replied"
  BY <1>1 DEF Aged, SameLetter, Live, Settled, Closed
<1>3. Causes'
  BY <1>t, PostsStep DEF Admits, Aged
<1>4. \A id \in DOMAIN messages : messages[id].kind = "reply" =>
        messages[id].inReplyTo < id /\ messages[id].inReplyTo \in Nat /\ messages[id].inReplyTo # n
  <2> SUFFICES ASSUME NEW id \in DOMAIN messages, messages[id].kind = "reply"
               PROVE  messages[id].inReplyTo < id /\ messages[id].inReplyTo \in Nat
                      /\ messages[id].inReplyTo # n
    OBVIOUS
  <2>1. messages[id].inReplyTo \in Nat /\ messages[id].inReplyTo < id
    BY <1>t DEF TypeOK, Message, IInv, Answered
  <2> QED
    BY <1>1, <2>1
<1>5. FinalReplies'
  BY <1>1, <1>2, <1>4, <1>t DEF FinalReplies, IInv
<1>6. Answered'
  BY <1>1, <1>2, <1>4, <1>t DEF Answered, IInv
<1>7. Final
  BY <1>1, AgedIsFinal DEF Final
<1> QED
  BY <1>3, <1>5, <1>6, <1>7 DEF IInv

LEMMA RepliesStep ==
  ASSUME IInv, TypeOK', NEW r, NEW row, NEW table, Replies(r, row, table)
  PROVE  IInv' /\ Final
<1>n. PICK n : n = lastSeq + 1
  OBVIOUS
<1>t. /\ TypeOK /\ Posts(row, table) /\ row.kind = "reply" /\ row.inReplyTo = r /\ row.request # "replied"
      /\ r \in DOMAIN messages /\ messages[r].reply = 0
  BY DEF IInv, Replies
<1>1. /\ DOMAIN messages' = DOMAIN messages \cup {n} /\ n \notin DOMAIN messages /\ n \in Nat \ {0}
      /\ messages'[n] = row /\ \A id \in DOMAIN messages : messages'[id] = table[id]
      /\ \A id \in DOMAIN messages : id \in Nat /\ id # 0 /\ id < n
  BY <1>n, <1>t, PostedTable
<1>2. \A id \in DOMAIN messages :
        /\ SameLetter(messages[id], messages'[id])
        /\ messages'[id].kind = messages[id].kind /\ messages'[id].inReplyTo = messages[id].inReplyTo
        /\ messages'[id].delivery = "late" <=> messages[id].delivery = "late"
        /\ messages[id].delivery \in Settled => messages'[id].delivery = messages[id].delivery
  BY <1>1 DEF Replies, Aged, SameLetter, Live, Settled
<1>3. \A id \in DOMAIN messages \ {r} :
        /\ messages'[id].reply = messages[id].reply
        /\ messages'[id].request = "replied" <=> messages[id].request = "replied"
  BY <1>1 DEF Replies, Aged, Closed
<1>4. Causes'
  BY <1>t, <1>1, <1>2, PostsStep
<1>5. \A id \in DOMAIN messages : messages[id].kind = "reply" =>
        /\ messages[id].inReplyTo < id /\ messages[id].inReplyTo # n /\ messages[id].inReplyTo # r
  <2> SUFFICES ASSUME NEW id \in DOMAIN messages, messages[id].kind = "reply"
               PROVE  /\ messages[id].inReplyTo < id /\ messages[id].inReplyTo # n
                      /\ messages[id].inReplyTo # r
    OBVIOUS
  <2>1. messages[id].inReplyTo \in Nat /\ messages[id].inReplyTo < id
    BY <1>t DEF TypeOK, Message, IInv, Answered
  <2>2. messages[id].inReplyTo = r => messages[r].reply = id
    BY <1>t DEF IInv, FinalReplies
  <2> QED
    BY <1>1, <1>t, <2>1, <2>2
<1>6. messages'[r].reply = n /\ (row.delivery # "late" <=> messages'[r].request = "replied")
  <2>1. messages[r].request # "replied"
    BY <1>t DEF IInv, Answered
  <2> QED
    BY <1>n, <1>t, <1>1, <2>1 DEF Replies
<1>7. FinalReplies'
  <2> SUFFICES ASSUME NEW id \in DOMAIN messages', messages'[id].kind = "reply"
               PROVE  /\ \A other \in DOMAIN messages' \ {id} :
                           messages'[other].kind = "reply" =>
                             messages'[other].inReplyTo # messages'[id].inReplyTo
                      /\ messages'[id].inReplyTo \in DOMAIN messages' =>
                           /\ messages'[messages'[id].inReplyTo].reply = id
                           /\ messages'[id].delivery # "late" <=>
                                messages'[messages'[id].inReplyTo].request = "replied"
    BY DEF FinalReplies
  <2>1. CASE id = n
    BY <1>1, <1>2, <1>5, <1>6, <1>t, <2>1
  <2>2. CASE id # n
    <3> DEFINE q == messages[id].inReplyTo
    <3>1. id \in DOMAIN messages /\ messages[id].kind = "reply" /\ messages'[id].inReplyTo = q
      BY <1>1, <1>2, <2>2
    <3>2. q # n /\ q # r
      BY <1>5, <3>1
    <3>3. \A other \in DOMAIN messages \ {id} : messages[other].kind = "reply" => messages[other].inReplyTo # q
      BY <3>1 DEF IInv, FinalReplies
    <3>4. q \in DOMAIN messages => /\ messages[q].reply = id
                                   /\ messages[id].delivery # "late" <=> messages[q].request = "replied"
      BY <3>1 DEF IInv, FinalReplies
    <3>5. ASSUME q \in DOMAIN messages'
          PROVE  messages'[q].reply = id /\ (messages'[id].delivery # "late" <=> messages'[q].request = "replied")
      <4>1. q \in DOMAIN messages \ {r}
        BY <1>1, <3>2, <3>5
      <4> QED
        BY <1>2, <1>3, <3>1, <3>4, <4>1
    <3>6. \A other \in DOMAIN messages' \ {id} :
            messages'[other].kind = "reply" => messages'[other].inReplyTo # q
      BY <1>1, <1>2, <1>t, <3>2, <3>3
    <3> HIDE DEF q
    <3> QED
      BY <3>1, <3>5, <3>6
  <2> QED
    BY <2>1, <2>2
<1>8. Answered'
  <2>1. ASSUME NEW id \in DOMAIN messages
        PROVE  /\ messages'[id].kind = "reply" => messages'[id].inReplyTo < id
               /\ messages'[id].request = "replied" => messages'[id].reply # 0
    BY <1>1, <1>2, <1>3, <1>5, <1>6 DEF IInv, Answered
  <2>2. row.kind = "reply" => row.inReplyTo < n
    BY <1>1, <1>t
  <2> QED
    BY <1>1, <1>t, <2>1, <2>2 DEF Answered
<1>9. Final
  <2>1. ASSUME NEW id \in DOMAIN messages \ {r}
        PROVE  /\ messages[id].request \in Closed => messages'[id].request \in Closed
               /\ messages[id].request = "replied" => messages'[id].request = "replied"
               /\ messages[id].reply # 0 => messages'[id].reply = messages[id].reply
    BY <1>1, AgedIsFinal DEF Replies
  <2>2. messages[r].request \in Closed => messages'[r].request \in Closed
    BY <1>1, <1>t DEF Replies, Closed
  <2>3. messages[r].request # "replied"
    BY <1>t DEF IInv, Answered
  <2> QED
    BY <1>1, <1>2, <1>t, <2>1, <2>2, <2>3 DEF Final
<1> QED
  BY <1>4, <1>7, <1>8, <1>9 DEF IInv

-----------------------------------------------------------------------------
\* Every action is of one of the four kinds.

LEMMA SweptAges ==
  ASSUME TypeOK, NEW S, NEW id \in DOMAIN messages
  PROVE  Aged(messages[id], Swept(S)[id])
<1>1. messages[id] \in Message
  BY DEF TypeOK
<1>2. Aged(messages[id], messages[id])
  BY DEF Aged, SameLetter
<1>3. Aged(messages[id], Lapse(messages[id]))
  BY <1>1 DEF Aged, SameLetter, Lapse, Message, Live, Settled, Closed
<1> QED
  BY <1>2, <1>3 DEF Swept

LEMMA QuietAges ==
  ASSUME TypeOK, UNCHANGED <<context, chains, lastChain, lastSeq>>, now' = now \/ now' = now + 1,
         DOMAIN messages' \subseteq DOMAIN messages,
         \A id \in DOMAIN messages' : Aged(messages[id], messages'[id])
  PROVE  Ages
BY DEF TypeOK, Ages

LEMMA PruneAges == TypeOK /\ Prune => Ages
<1> SUFFICES ASSUME TypeOK, Prune PROVE Ages
  OBVIOUS
<1> DEFINE table == Swept(Sessions)
           gone == OldMessages(table) \cup SurplusMessages(table)
<1>1. DOMAIN table = DOMAIN messages /\ messages' = Keep(table, DOMAIN table \ gone)
  BY SweptTable DEF Prune
<1>2. \A id \in DOMAIN messages : Aged(messages[id], table[id])
  BY SweptAges
<1> HIDE DEF table, gone
<1>3. DOMAIN messages' \subseteq DOMAIN messages
      /\ \A id \in DOMAIN messages' : Aged(messages[id], messages'[id])
  BY <1>1, <1>2 DEF Keep
<1>4. /\ DOMAIN chains' = DOMAIN chains \ (OldChains \cup SurplusChains)
      /\ \A c \in DOMAIN chains' : chains'[c] = chains[c]
  <2>1. chains' = Keep(chains, DOMAIN chains \ (OldChains \cup SurplusChains))
    BY DEF Prune
  <2>2. DOMAIN chains \ (OldChains \cup SurplusChains) \subseteq DOMAIN chains
    OBVIOUS
  <2> HIDE DEF OldChains, SurplusChains
  <2> QED
    BY <2>1, <2>2 DEF Keep
<1>5. \A c \in OldChains \cup SurplusChains : chains[c].expires < now
  <2>1. \A c \in OldChains : chains[c].expires < now
    <3> SUFFICES ASSUME NEW c \in OldChains PROVE chains[c].expires < now
      OBVIOUS
    <3>1. chains[c].expires + Retention < now /\ chains[c].expires \in Nat /\ now \in Nat
          /\ Retention \in Nat
      BY DEF OldChains, TypeOK, Chain
    <3> QED
      BY <3>1
  <2> QED
    BY <2>1 DEF SurplusChains
<1>6. now <= now' /\ UNCHANGED <<context, lastChain, lastSeq>>
  BY DEF Prune, TypeOK
<1> QED
  BY <1>3, <1>4, <1>5, <1>6 DEF Ages

\* The life of an admitted message.
LEMMA RowAges ==
  ASSUME TypeOK, NEW s \in Sessions,
         \/ \E id \in DOMAIN messages :
              \/ \E claim \in BOOLEAN : Transition(s, id, "admitted", claim)
              \/ Transition(s, id, "consumed", FALSE)
              \/ \E human \in BOOLEAN : Cancel(s, id, human)
         \/ \E cutoff \in 0..lastSeq : Deferred(s, cutoff)
         \/ Expire(s)
  PROVE  Ages
<1>s. \A id \in DOMAIN messages : Aged(messages[id], messages[id])
  BY DEF Aged, SameLetter
<1>m. \A id \in DOMAIN messages : messages[id] \in Message
  BY DEF TypeOK
<1>1. ASSUME NEW id \in DOMAIN messages, NEW delivery \in {"admitted", "consumed"}, NEW claim,
             Transition(s, id, delivery, claim)
      PROVE  Ages
  <2>1. messages' = [messages EXCEPT ![id] =
           [messages[id] EXCEPT !.delivery = delivery, !.claimed = @ \/ claim]]
    BY <1>1 DEF Transition
  <2>2. Aged(messages[id], [messages[id] EXCEPT !.delivery = delivery, !.claimed = @ \/ claim])
    BY <1>m, <1>1 DEF Transition, Aged, SameLetter, Message, Live, Settled
  <2>3. DOMAIN messages' = DOMAIN messages /\ \A i \in DOMAIN messages : Aged(messages[i], messages'[i])
    BY <1>s, <2>1, <2>2
  <2> QED
    BY <1>1, <2>3, QuietAges DEF Transition
<1>2. ASSUME NEW id \in DOMAIN messages, NEW human, Cancel(s, id, human) PROVE Ages
  <2> DEFINE row == [messages[id] EXCEPT
         !.request = IF messages[id].kind = "request" THEN "cancelled" ELSE @,
         !.delivery = IF @ \in Live THEN "cancelled" ELSE @]
  <2>1. messages' = [messages EXCEPT ![id] = row]
    BY <1>2 DEF Cancel
  <2>2. Aged(messages[id], row)
    BY <1>m, <1>2 DEF Cancel, Aged, SameLetter, Message, Live, Settled, Closed
  <2> HIDE DEF row
  <2>3. DOMAIN messages' = DOMAIN messages /\ \A i \in DOMAIN messages : Aged(messages[i], messages'[i])
    BY <1>s, <2>1, <2>2
  <2> QED
    BY <1>2, <2>3, QuietAges DEF Cancel
<1>3. ASSUME NEW cutoff, Deferred(s, cutoff) PROVE Ages
  <2>1. PICK selected :
          messages' = [id \in DOMAIN messages |->
            IF id \in selected THEN [Swept({s})[id] EXCEPT !.claimed = TRUE] ELSE Swept({s})[id]]
    BY <1>3 DEF Deferred
  <2>2. \A id \in DOMAIN messages : /\ Aged(messages[id], Swept({s})[id])
                                    /\ Swept({s})[id] \in Message
    BY SweptAges, SweptTable
  <2>3. ASSUME NEW id \in DOMAIN messages PROVE Aged(messages[id], [Swept({s})[id] EXCEPT !.claimed = TRUE])
    <3> DEFINE m == Swept({s})[id]
               n == [m EXCEPT !.claimed = TRUE]
    <3>1. m \in Message /\ Aged(messages[id], m)
      BY <2>2
    <3> HIDE DEF m
    <3>2. /\ n.sender = m.sender /\ n.to = m.to /\ n.kind = m.kind /\ n.inReplyTo = m.inReplyTo
          /\ n.contexts = m.contexts /\ n.expires = m.expires /\ n.delivery = m.delivery
          /\ n.request = m.request /\ n.reply = m.reply
      BY <3>1 DEF Message
    <3> QED
      BY <3>1, <3>2 DEF Aged, SameLetter, m
  <2>4. DOMAIN messages' = DOMAIN messages /\ \A i \in DOMAIN messages : Aged(messages[i], messages'[i])
    BY <2>1, <2>2, <2>3
  <2> QED
    BY <1>3, <2>4, QuietAges DEF Deferred
<1>4. ASSUME Expire(s) PROVE Ages
  <2>1. DOMAIN messages' = DOMAIN messages /\ \A i \in DOMAIN messages : Aged(messages[i], messages'[i])
    BY <1>4, SweptAges, SweptTable DEF Expire
  <2> QED
    BY <1>4, <2>1, QuietAges DEF Expire
<1> QED
  BY <1>1, <1>2, <1>3, <1>4

\* Causes a session takes up: a task of its own, what its parent works on, and the
\* messages a step enters with.
LEMMA TaskContinues ==
  ASSUME TypeOK, NEW s \in Sessions, NewTask(s)
  PROVE  Continues(s, Root(s))
<1>1. \A d \in Root(s) : SoundPath(d.path, s) /\ Stops(d.path) \subseteq Lineage(s)
                         /\ d.chain <= lastChain + 1
  <2> SUFFICES ASSUME NEW d \in Root(s)
               PROVE  SoundPath(d.path, s) /\ Stops(d.path) \subseteq Lineage(s) /\ d.chain <= lastChain + 1
    OBVIOUS
  <2>1. SoundPath(d.path, s) /\ Stops(d.path) = {s} /\ d.chain = lastChain + 1
    BY RootSound
  <2>2. s \in Lineage(s) /\ lastChain \in Nat
    BY DEF Lineage, TypeOK
  <2> QED
    BY <2>1, <2>2
<1> QED
  BY <1>1 DEF NewTask, Continues

LEMMA InheritedSound ==
  ASSUME IInv, NEW s \in Sessions, NEW e \in Inherited(s)
  PROVE  /\ SoundPath(e.path, s) /\ Stops(e.path) \subseteq Lineage(s)
         /\ e.chain <= lastChain /\ e.chain \in Nat
<1>1. s \in DOMAIN Parent /\ Parent[s] \in Sessions
  BY DEF Inherited
<1>2. PICK d \in context[Parent[s]] : e = IF s \in Stops(d.path) THEN d ELSE Delegated(d, s)
  BY <1>1 DEF Inherited
<1>3. /\ d \in Context /\ SoundPath(d.path, Parent[s]) /\ d.chain <= lastChain /\ d.chain \in Nat
      /\ Stops(d.path) \subseteq Lineage(Parent[s])
  BY <1>1, KnownChains DEF IInv, Causes, Known, PathsSound
<1>4. s \notin Lineage(Parent[s])
  <2>1. Born[Parent[s]] < Born[s] /\ Born[s] \in Int /\ Born[Parent[s]] \in Int
    BY <1>1, ParentIsOlder
  <2>2. s # Parent[s] /\ ~(Born[s] < Born[Parent[s]])
    BY <2>1
  <2> QED
    BY <1>1, <2>2 DEF Lineage
<1>5. Lineage(Parent[s]) \cup {s} \subseteq Lineage(s)
  <2> SUFFICES ASSUME NEW q \in Lineage(Parent[s]), q \in DOMAIN Parent PROVE Born[q] < Born[s]
    BY <1>1 DEF Lineage
  <2>1. Born[Parent[s]] < Born[s] /\ Born[s] \in Int /\ Born[Parent[s]] \in Int /\ Born[q] \in Int
    BY <1>1, ParentIsOlder
  <2>2. q = Parent[s] \/ Born[q] < Born[Parent[s]]
    BY DEF Lineage
  <2> QED
    BY <2>1, <2>2
<1>6. s \notin Stops(d.path) /\ e = Delegated(d, s)
  BY <1>2, <1>3, <1>4
<1>7. SoundPath(e.path, s) /\ e.chain = d.chain /\ Stops(e.path) = Stops(d.path) \cup {s}
  BY <1>1, <1>3, <1>6, DelegatedSound
<1> QED
  BY <1>3, <1>5, <1>7

LEMMA IncludeContinues ==
  ASSUME IInv, TypeOK', NEW s \in Sessions, NEW incoming \in SUBSET Enterable(s),
         NEW human \in BOOLEAN, NEW replace \in BOOLEAN, Include(s, incoming, human, replace)
  PROVE  \E paths : Continues(s, paths)
<1> DEFINE kept == (IF replace THEN {} ELSE context[s]) \cup Inherited(s)
           rooted == kept = {} /\ human /\ s \notin DOMAIN Parent
           current == IF rooted THEN Root(s) ELSE kept
           brought == UNION {messages[id].contexts : id \in incoming}
           merged == current \cup brought
<1>t. TypeOK /\ Known /\ lastChain \in Nat
  BY DEF IInv, Causes, TypeOK
<1>1. /\ context' = [context EXCEPT ![s] = merged] /\ UNCHANGED <<now, messages, lastSeq>>
      /\ IF rooted THEN lastChain' = lastChain + 1 /\ chains' = With(chains, lastChain + 1, FreshChain(0))
         ELSE UNCHANGED <<chains, lastChain>>
  BY DEF Include
<1>2. lastChain <= lastChain' /\ lastChain' \in Nat /\ \A c \in Nat : c <= lastChain => c <= lastChain'
  <2>1. lastChain' = lastChain \/ lastChain' = lastChain + 1
    BY <1>1
  <2> QED
    BY <1>t, <2>1
<1>3. \A d \in kept : SoundPath(d.path, s) /\ Stops(d.path) \subseteq Lineage(s) /\ d.chain <= lastChain'
  <2>1. ASSUME NEW d \in context[s]
        PROVE  SoundPath(d.path, s) /\ Stops(d.path) \subseteq Lineage(s) /\ d.chain <= lastChain'
    BY <1>t, <1>2, KnownChains DEF IInv, Causes, PathsSound, Known
  <2>2. ASSUME NEW d \in Inherited(s)
        PROVE  SoundPath(d.path, s) /\ Stops(d.path) \subseteq Lineage(s) /\ d.chain <= lastChain'
    <3>1. /\ SoundPath(d.path, s) /\ Stops(d.path) \subseteq Lineage(s)
          /\ d.chain <= lastChain /\ d.chain \in Nat
      BY InheritedSound
    <3> QED
      BY <1>2, <3>1
  <2> QED
    BY <2>1, <2>2
<1>4. \A d \in brought : SoundPath(d.path, s) /\ Stops(d.path) \subseteq Lineage(s) /\ d.chain <= lastChain'
  <2> SUFFICES ASSUME NEW id \in incoming, NEW d \in messages[id].contexts
               PROVE  SoundPath(d.path, s) /\ Stops(d.path) \subseteq Lineage(s) /\ d.chain <= lastChain'
    OBVIOUS
  <2>1. id \in DOMAIN messages /\ messages[id].to = s
    BY DEF Enterable
  <2>2. SoundPath(d.path, s) /\ Stops(d.path) \subseteq Roots
    BY <1>t, <2>1 DEF IInv, Causes, PathsSound, Known
  <2>3. Roots \subseteq Lineage(s)
    BY DEF Roots, Lineage
  <2> QED
    BY <1>t, <1>2, <2>1, <2>2, <2>3, KnownChains
<1>5. CASE rooted
  <2>1. \A d \in Root(s) : SoundPath(d.path, s) /\ Stops(d.path) \subseteq Lineage(s) /\ d.chain <= lastChain'
    <3> SUFFICES ASSUME NEW d \in Root(s)
                 PROVE  SoundPath(d.path, s) /\ Stops(d.path) \subseteq Lineage(s) /\ d.chain <= lastChain'
      OBVIOUS
    <3>1. SoundPath(d.path, s) /\ Stops(d.path) = {s} /\ d.chain = lastChain + 1
      BY RootSound
    <3>2. s \in Lineage(s) /\ lastChain' = lastChain + 1
      BY <1>1, <1>5 DEF Lineage
    <3> QED
      BY <1>2, <3>1, <3>2
  <2>2. merged = Root(s) \cup brought
    BY <1>5
  <2>3. lastChain' = lastChain + 1 /\ chains' = With(chains, lastChain + 1, FreshChain(0))
    BY <1>1, <1>5
  <2> HIDE DEF merged, brought, kept, rooted, current
  <2>4. \A d \in merged : SoundPath(d.path, s) /\ Stops(d.path) \subseteq Lineage(s) /\ d.chain <= lastChain'
    BY <1>4, <2>1, <2>2
  <2>5. Continues(s, merged)
    BY <1>1, <2>3, <2>4 DEF Continues
  <2> QED
    BY <2>5
<1>6. CASE ~rooted
  <2>2. merged = kept \cup brought
    BY <1>6
  <2>3. UNCHANGED <<chains, lastChain>>
    BY <1>1, <1>6
  <2> HIDE DEF merged, brought, kept, rooted, current
  <2>4. \A d \in merged : SoundPath(d.path, s) /\ Stops(d.path) \subseteq Lineage(s) /\ d.chain <= lastChain'
    BY <1>3, <1>4, <2>2
  <2>5. Continues(s, merged)
    BY <1>1, <2>3, <2>4 DEF Continues
  <2> QED
    BY <2>5
<1> QED
  BY <1>5, <1>6

-----------------------------------------------------------------------------
\* Admissions

\* The row an insert writes.
Written(row, sender, to, kind, re, contexts, expires, late) ==
  /\ row \in Message /\ row.sender = sender /\ row.to = to /\ row.kind = kind /\ row.inReplyTo = re
  /\ row.contexts = contexts /\ row.expires = expires /\ row.request # "replied" /\ row.reply = 0
  /\ row.delivery = IF late THEN "late" ELSE "accepted"

LEMMA Inserted ==
  ASSUME NEW sender \in Senders, NEW key \in Keys, NEW to \in Sessions,
         NEW kind \in Kinds, NEW mode \in Modes, NEW re \in Nat,
         NEW contexts \in SUBSET Context, NEW expires \in Nat, NEW late \in BOOLEAN, NEW table,
         Insert(sender, key, to, kind, mode, re, contexts, expires, late, table)
  PROVE  \E row : /\ Written(row, sender, to, kind, re, contexts, expires, late)
                  /\ lastSeq' = lastSeq + 1 /\ messages' = With(table, lastSeq + 1, row)
                  /\ UNCHANGED <<now, context>>
<1> DEFINE row == [sender |-> sender, key |-> key, to |-> to, kind |-> kind, mode |-> mode,
        inReplyTo |-> re, contexts |-> contexts, expires |-> expires,
        delivery |-> IF late THEN "late" ELSE "accepted",
        request |-> IF kind = "request" THEN "open" ELSE "none",
        reply |-> 0, claimed |-> FALSE]
<1>1. row \in Message
  BY DEF Message, Live, Settled, RequestStates
<1>2. row.request # "replied"
  OBVIOUS
<1>3. Written(row, sender, to, kind, re, contexts, expires, late)
  BY <1>1, <1>2 DEF Written
<1>4. lastSeq' = lastSeq + 1 /\ messages' = With(table, lastSeq + 1, row) /\ UNCHANGED <<now, context>>
  BY DEF Insert
<1> HIDE DEF row
<1> QED
  BY <1>3, <1>4

\* A charge is what Paid asks for.
LEMMA ChargedPays ==
  ASSUME TypeOK, NEW row, row.kind # "reply", Chargeable(ChainIds(row.contexts)),
         chains' = Charged(ChainIds(row.contexts)), lastChain' = lastChain
  PROVE  Paid(row) /\ DOMAIN chains' = DOMAIN chains
<1>1. \A c \in DOMAIN chains : chains[c] \in Chain
  BY DEF TypeOK
<1>2. DOMAIN chains' = DOMAIN chains /\ lastChain <= lastChain'
  BY DEF Charged, TypeOK
<1>3. ASSUME NEW c \in DOMAIN chains
      PROVE  /\ chains'[c].expires = chains[c].expires
             /\ IF c \in ChainIds(row.contexts)
                THEN chains'[c].used = chains[c].used + 1 /\ chains[c].used < MaxSends
                ELSE chains'[c].used = chains[c].used
  <2>1. chains'[c] = IF c \in ChainIds(row.contexts) THEN [chains[c] EXCEPT !.used = @ + 1] ELSE chains[c]
    BY DEF Charged
  <2> QED
    BY <1>1, <2>1 DEF Chain, Chargeable
<1> QED
  BY <1>2, <1>3 DEF Paid

\* A message from outside starts a chain of its own.
LEMMA ExternalAdmits ==
  ASSUME IInv, NEW source \in Externals, NEW to \in Roots, NEW kind \in Kinds,
         NEW key \in Keys, NEW mode \in Modes, AdmitExternal(source, to, kind, mode, key)
  PROVE  \E row, table : Admits(row, table)
<1>t. TypeOK /\ to \in Sessions /\ source \in Senders /\ now + Ttl \in Nat /\ lastChain \in Nat
  BY DEF IInv, TypeOK, Roots, Senders
<1>1. Root(to) \in SUBSET Context
  BY <1>t, RootType
<1>2. Insert(source, key, to, kind, mode, 0, Root(to), now + Ttl, FALSE, Swept({to}))
      /\ kind # "reply" /\ MaxSends > 0 /\ lastChain' = lastChain + 1
      /\ chains' = With(chains, lastChain + 1, FreshChain(1))
  BY DEF AdmitExternal
<1>3. PICK row : /\ Written(row, source, to, kind, 0, Root(to), now + Ttl, FALSE)
                 /\ lastSeq' = lastSeq + 1 /\ messages' = With(Swept({to}), lastSeq + 1, row)
                 /\ UNCHANGED <<now, context>>
  <2>1. PICK contexts, expires, table :
          contexts = Root(to) /\ expires = now + Ttl /\ table = Swept({to})
    OBVIOUS
  <2>2. PICK late \in BOOLEAN : late = FALSE
    OBVIOUS
  <2>3. source \in Senders /\ to \in Sessions /\ 0 \in Nat /\ contexts \in SUBSET Context /\ expires \in Nat
    BY <1>t, <1>1, <2>1
  <2>4. Insert(source, key, to, kind, mode, 0, contexts, expires, late, table)
    BY <1>2, <2>1, <2>2
  <2>5. \E row : /\ Written(row, source, to, kind, 0, contexts, expires, late)
                 /\ lastSeq' = lastSeq + 1 /\ messages' = With(table, lastSeq + 1, row)
                 /\ UNCHANGED <<now, context>>
    BY <2>3, <2>4, Inserted
  <2> QED
    BY <2>1, <2>2, <2>5
<1>4. /\ DOMAIN chains' = DOMAIN chains \cup {lastChain + 1} /\ lastChain + 1 \notin DOMAIN chains
      /\ \A c \in DOMAIN chains : chains'[c] = chains[c]
      /\ chains'[lastChain + 1].used = 1 /\ chains'[lastChain + 1].expires = now + Ttl
  BY <1>t, <1>2, FreshRow
<1>5. Addressed(row)
  <2>1. \A d \in Root(to) : SoundPath(d.path, to) /\ Stops(d.path) \subseteq Roots /\ d.chain = lastChain + 1
    BY <1>t, RootSound
  <2>2. source \notin Sessions
    OBVIOUS
  <2> QED
    BY <1>t, <1>3, <1>4, <2>1, <2>2 DEF Addressed, Written
<1>6. Paid(row)
  <2>1. \A c \in ChainIds(row.contexts) : c = lastChain + 1
    BY <1>3 DEF Written, ChainIds, Root
  <2>2. lastChain <= lastChain'
    BY <1>t, <1>2
  <2> QED
    BY <1>2, <1>4, <2>1, <2>2 DEF Paid
<1>7. DOMAIN Swept({to}) = DOMAIN messages
      /\ \A id \in DOMAIN messages : Aged(messages[id], Swept({to})[id])
  BY <1>t, SweptTable, SweptAges
<1>8. Posts(row, Swept({to}))
  BY <1>3, <1>5, <1>6, <1>7 DEF Posts, Written
<1>9. Admits(row, Swept({to}))
  BY <1>2, <1>3, <1>7, <1>8 DEF Admits, Written
<1> QED
  BY <1>9

\* What a root session works on came through root sessions only.
LEMMA RootLineage ==
  ASSUME NEW s \in Roots
  PROVE  Lineage(s) \subseteq Roots /\ s \in Sessions
BY DEF Lineage, Roots

\* The earliest deadline is a number no chain falls short of.
LEMMA EarliestDeadline ==
  ASSUME TypeOK, NEW ids, ids \subseteq DOMAIN chains, NEW extra \in SUBSET Nat,
         NEW t, Earliest(t, Deadlines(ids) \cup extra)
  PROVE  t \in Nat /\ \A c \in ids : chains[c].expires >= t
<1>1. \A c \in ids : chains[c].expires \in Deadlines(ids) /\ chains[c].expires \in Nat
  BY DEF Deadlines, TypeOK, Chain
<1>2. Deadlines(ids) \subseteq Nat
  BY <1>1 DEF Deadlines
<1>3. t \in Nat /\ \A u \in Deadlines(ids) : t <= u
  BY <1>2 DEF Earliest
<1> QED
  BY <1>1, <1>3

\* A task, a request or a notify of a session hands its own causes on.
LEMMA TaskAdmits ==
  ASSUME IInv, NEW from \in Roots, NEW to \in Roots, NEW kind \in Kinds,
         NEW key \in Keys, NEW mode \in Modes, AdmitTask(from, to, kind, mode, key)
  PROVE  \E row, table : Admits(row, table)
<1> DEFINE contexts == {Delegated(c, to) : c \in context[from]}
           ids == ChainIds(contexts)
<1>t. TypeOK /\ Known /\ to \in Sessions /\ from \in Sessions /\ from \in Senders
  BY DEF IInv, Causes, Roots, Senders
<1>1. /\ kind # "reply" /\ Chargeable(ids) /\ chains' = Charged(ids) /\ lastChain' = lastChain
      /\ \A c \in context[from] : to \notin Stops(c.path)
  BY DEF AdmitTask
<1>2. PICK expires : /\ Earliest(expires, Deadlines(ids))
                     /\ Insert(from, key, to, kind, mode, 0, contexts, expires, FALSE, Swept({to}))
  BY DEF AdmitTask
<1>3. \A c \in context[from] :
        LET e == Delegated(c, to) IN
        /\ SoundPath(e.path, to) /\ Stops(e.path) \subseteq Roots
        /\ Arrives(e.path, from) /\ e \in Context
  <2> SUFFICES ASSUME NEW c \in context[from]
               PROVE  LET e == Delegated(c, to) IN
                      /\ SoundPath(e.path, to) /\ Stops(e.path) \subseteq Roots
                      /\ Arrives(e.path, from) /\ e \in Context
    OBVIOUS
  <2>1. c \in Context /\ SoundPath(c.path, from) /\ Stops(c.path) \subseteq Lineage(from)
    BY <1>t, KnownChains DEF Known, IInv, Causes, PathsSound
  <2>2. Stops(c.path) \subseteq Roots
    BY <2>1, RootLineage
  <2>3. Delegated(c, to) \in Context
    BY <1>t, <2>1, PathTypes
  <2>4. to \notin Stops(c.path)
    BY <1>1
  <2> QED
    BY <1>t, <2>1, <2>2, <2>3, <2>4, DelegatedSound
<1>4. \A d \in contexts : /\ SoundPath(d.path, to) /\ Stops(d.path) \subseteq Roots
                          /\ Arrives(d.path, from)
                          /\ d \in Context /\ d.chain \in ids
  BY <1>3 DEF ChainIds
<1> HIDE DEF contexts
<1>5. ids \subseteq DOMAIN chains /\ contexts \in SUBSET Context
  BY <1>1, <1>4 DEF Chargeable
<1>6. expires \in Nat /\ \A c \in ids : chains[c].expires >= expires
  <2>1. Earliest(expires, Deadlines(ids) \cup {})
    BY <1>2
  <2> QED
    BY <1>t, <1>5, <2>1, EarliestDeadline
<1>7. PICK row : /\ Written(row, from, to, kind, 0, contexts, expires, FALSE)
                 /\ lastSeq' = lastSeq + 1 /\ messages' = With(Swept({to}), lastSeq + 1, row)
                 /\ UNCHANGED <<now, context>>
  <2>1. /\ to \in Sessions /\ from \in Senders /\ 0 \in Nat /\ expires \in Nat
        /\ contexts \in SUBSET Context
    BY <1>t, <1>5, <1>6
  <2>2. PICK late \in BOOLEAN : \E table : late = FALSE /\ table = Swept({to})
    OBVIOUS
  <2>p. PICK table : late = FALSE /\ table = Swept({to})
    BY <2>2
  <2>3. Insert(from, key, to, kind, mode, 0, contexts, expires, late, table)
    BY <1>2, <2>p
  <2>4. \E row : /\ Written(row, from, to, kind, 0, contexts, expires, late)
                 /\ lastSeq' = lastSeq + 1 /\ messages' = With(table, lastSeq + 1, row)
                 /\ UNCHANGED <<now, context>>
    BY <2>1, <2>3, Inserted
  <2> QED
    BY <2>p, <2>4
<1>8. Paid(row) /\ DOMAIN chains' = DOMAIN chains
  BY <1>t, <1>1, <1>7, ChargedPays DEF Written
<1>9. Addressed(row)
  BY <1>4, <1>5, <1>6, <1>7, <1>8 DEF Addressed, Written, Paid
<1>10. DOMAIN Swept({to}) = DOMAIN messages
       /\ \A id \in DOMAIN messages : Aged(messages[id], Swept({to})[id])
  BY <1>t, SweptTable, SweptAges
<1>11. Admits(row, Swept({to}))
  BY <1>1, <1>7, <1>8, <1>9, <1>10 DEF Admits, Posts, Written
<1> QED
  BY <1>11

\* An answer goes back to a root session, along the paths of the request and those of
\* the replier's own causes.
LEMMA ReturnsSound ==
  ASSUME IInv, NEW from \in Roots, NEW id \in DOMAIN messages, Answerable(from, id),
         NEW d \in ReturnContexts(id, from)
  PROVE  /\ SoundPath(d.path, messages[id].sender) /\ Stops(d.path) \subseteq Roots /\ d \in Context
<1>t. TypeOK /\ Known /\ from \in Sessions
  BY DEF IInv, Causes, Roots
<1>1. /\ messages[id].sender \in Sessions /\ messages[id].sender \in Roots
      /\ messages[id].kind = "request" /\ messages[id].to = from
  BY <1>t DEF Answerable, Known
<1>2. ASSUME NEW c \in messages[id].contexts, d = Returned(c)
      PROVE  SoundPath(d.path, messages[id].sender) /\ Stops(d.path) \subseteq Roots /\ d \in Context
  <2>1. c \in Context /\ SoundPath(c.path, from) /\ Stops(c.path) \subseteq Roots
    BY <1>t, <1>1, KnownChains DEF Known, IInv, Causes, PathsSound
  <2>2. Arrives(c.path, messages[id].sender)
    BY <1>1 DEF IInv, Causes, Asked
  <2>3. SoundPath(d.path, messages[id].sender) /\ Stops(d.path) \subseteq Stops(c.path)
    BY <1>2, <2>1, <2>2, ReturnedSound
  <2>4. d \in Context
    BY <1>2, <1>t, <2>1, PathTypes
  <2> QED
    BY <2>1, <2>3, <2>4
<1>3. ASSUME NEW c \in context[from], d = BackTo(c, messages[id].sender)
      PROVE  SoundPath(d.path, messages[id].sender) /\ Stops(d.path) \subseteq Roots /\ d \in Context
  <2>1. c \in Context /\ SoundPath(c.path, from) /\ Stops(c.path) \subseteq Lineage(from)
    BY <1>t, KnownChains DEF Known, IInv, Causes, PathsSound
  <2>2. Stops(c.path) \subseteq Roots
    BY <2>1, RootLineage
  <2>3. /\ SoundPath(d.path, messages[id].sender)
        /\ Stops(d.path) \subseteq Stops(c.path) \cup {messages[id].sender}
    BY <1>3, <1>t, <1>1, <2>1, BackToSound
  <2>4. d \in Context
    BY <1>3, <1>1, <2>1, PathTypes
  <2> QED
    BY <1>1, <2>2, <2>3, <2>4
<1> QED
  BY <1>2, <1>3 DEF ReturnContexts

\* What an answer inherits, with its deadline.
Inherits(contexts, to, t) ==
  \A d \in contexts : /\ SoundPath(d.path, to) /\ Stops(d.path) \subseteq Roots
                      /\ d.chain \in DOMAIN chains /\ chains[d.chain].expires >= t

LEMMA ReturnInherits ==
  ASSUME IInv, NEW from \in Roots, NEW id \in DOMAIN messages, Answerable(from, id),
         NEW to, to = messages[id].sender, NEW contexts, contexts = ReturnContexts(id, from),
         ChainIds(contexts) \subseteq DOMAIN chains,
         NEW t, Earliest(t, Deadlines(ChainIds(contexts)) \cup {messages[id].expires})
  PROVE  /\ to \in Sessions /\ to \in Roots /\ from \in Senders /\ id \in Nat /\ t \in Nat
         /\ contexts \in SUBSET Context /\ Inherits(contexts, to, t)
<1>t. TypeOK /\ Known /\ messages[id] \in Message /\ id \in Nat
  BY RowType DEF IInv, Causes
<1>1. messages[id].sender \in Sessions /\ messages[id].sender \in Roots /\ from \in Senders
  BY <1>t DEF Answerable, Known, Roots, Senders
<1>2. \A d \in contexts : SoundPath(d.path, messages[id].sender) /\ Stops(d.path) \subseteq Roots /\ d \in Context
  BY ReturnsSound
<1>3. t \in Nat /\ \A c \in ChainIds(contexts) : chains[c].expires >= t
  <2>1. {messages[id].expires} \in SUBSET Nat
    BY <1>t DEF Message
  <2> QED
    BY <1>t, <2>1, EarliestDeadline
<1>4. \A d \in contexts : d.chain \in ChainIds(contexts)
  BY DEF ChainIds
<1> QED
  BY <1>t, <1>1, <1>2, <1>3, <1>4 DEF Inherits

\* A progress note is paid for and returns to the requester.
LEMMA ProgressAdmits ==
  ASSUME IInv, NEW from \in Roots, NEW id \in DOMAIN messages,
         NEW key \in Keys, NEW mode \in Modes, AdmitProgress(from, id, mode, key)
  PROVE  \E row, table : Admits(row, table)
<1>c. PICK to, contexts, table :
        to = messages[id].sender /\ contexts = ReturnContexts(id, from) /\ table = Swept({to})
  OBVIOUS
<1>t. TypeOK /\ "notify" \in Kinds
  BY DEF IInv, Kinds
<1>1. /\ Answerable(from, id) /\ Chargeable(ChainIds(contexts)) /\ chains' = Charged(ChainIds(contexts))
      /\ lastChain' = lastChain
  BY <1>c DEF AdmitProgress
<1>2. PICK expires :
        /\ Earliest(expires, Deadlines(ChainIds(contexts)) \cup {messages[id].expires})
        /\ Insert(from, key, to, "notify", mode, id, contexts, expires, FALSE, table)
  BY <1>c DEF AdmitProgress
<1>3. ChainIds(contexts) \subseteq DOMAIN chains
  BY <1>1 DEF Chargeable
<1>4. /\ to \in Sessions /\ to \in Roots /\ from \in Senders /\ id \in Nat /\ expires \in Nat
      /\ contexts \in SUBSET Context /\ Inherits(contexts, to, expires)
  BY <1>c, <1>1, <1>2, <1>3, ReturnInherits
<1>5. PICK row : /\ Written(row, from, to, "notify", id, contexts, expires, FALSE)
                 /\ lastSeq' = lastSeq + 1 /\ messages' = With(table, lastSeq + 1, row)
                 /\ UNCHANGED <<now, context>>
  <2>1. /\ to \in Sessions /\ from \in Senders /\ id \in Nat /\ expires \in Nat
        /\ contexts \in SUBSET Context
    BY <1>4
  <2>2. "notify" \in Kinds /\ FALSE \in BOOLEAN
    BY <1>t
  <2>3. Insert(from, key, to, "notify", mode, id, contexts, expires, FALSE, table)
    BY <1>2
  <2>4. PICK late \in BOOLEAN : late = FALSE
    OBVIOUS
  <2>5. Insert(from, key, to, "notify", mode, id, contexts, expires, late, table)
    BY <2>3, <2>4
  <2>6. \E row : /\ Written(row, from, to, "notify", id, contexts, expires, late)
                 /\ lastSeq' = lastSeq + 1 /\ messages' = With(table, lastSeq + 1, row)
                 /\ UNCHANGED <<now, context>>
    BY <2>1, <2>2, <2>5, Inserted
  <2> QED
    BY <2>4, <2>6
<1>6. Paid(row) /\ DOMAIN chains' = DOMAIN chains
  BY <1>t, <1>1, <1>5, ChargedPays DEF Written
<1>7. Addressed(row)
  BY <1>4, <1>5, <1>6 DEF Addressed, Inherits, Written, Paid
<1>8. DOMAIN table = DOMAIN messages /\ \A i \in DOMAIN messages : Aged(messages[i], table[i])
  BY <1>c, <1>t, SweptTable, SweptAges
<1>9. Admits(row, table)
  BY <1>5, <1>6, <1>7, <1>8 DEF Admits, Posts, Written
<1> QED
  BY <1>9

\* A reply takes the one reply slot of its request and costs nothing.
LEMMA ReplyReplies ==
  ASSUME IInv, NEW from \in Roots, NEW id \in DOMAIN messages,
         NEW key \in Keys, NEW mode \in Modes, AdmitReply(from, id, mode, key)
  PROVE  \E row, table : Replies(id, row, table)
<1>c. PICK to, contexts : to = messages[id].sender /\ contexts = ReturnContexts(id, from)
  OBVIOUS
<1>t. TypeOK /\ "reply" \in Kinds /\ messages[id] \in Message
  BY RowType DEF IInv, Kinds
<1>1. /\ Answerable(from, id) /\ messages[id].reply = 0 /\ ChainIds(contexts) \subseteq DOMAIN chains
      /\ UNCHANGED <<chains, lastChain>>
  BY <1>c DEF AdmitReply, Unanswered
<1>2. PICK expires :
        /\ Earliest(expires, Deadlines(ChainIds(contexts)) \cup {messages[id].expires})
        /\ LET late == Lapsed(id) \/ expires <= now IN
           Insert(from, key, to, "reply", mode, id, contexts, expires, late,
             [Swept({to}) EXCEPT ![id].reply = lastSeq + 1, ![id].request = Outcome(id, late)])
  BY <1>c DEF AdmitReply
<1>l. PICK late \in BOOLEAN : late = (Lapsed(id) \/ expires <= now)
  OBVIOUS
<1>3. PICK table :
        /\ late = (Lapsed(id) \/ expires <= now)
        /\ table = [Swept({to}) EXCEPT ![id].reply = lastSeq + 1, ![id].request = Outcome(id, late)]
        /\ Insert(from, key, to, "reply", mode, id, contexts, expires, late, table)
  <2> DEFINE slot(l) == [Swept({to}) EXCEPT ![id].reply = lastSeq + 1, ![id].request = Outcome(id, l)]
  <2>1. Insert(from, key, to, "reply", mode, id, contexts, expires, Lapsed(id) \/ expires <= now,
               slot(Lapsed(id) \/ expires <= now))
    BY <1>2
  <2> HIDE DEF slot
  <2>3. PICK table : table = slot(late)
    OBVIOUS
  <2>4. Insert(from, key, to, "reply", mode, id, contexts, expires, late, table)
    BY <2>1, <1>l, <2>3
  <2>5. table = [Swept({to}) EXCEPT ![id].reply = lastSeq + 1, ![id].request = Outcome(id, late)]
    BY <2>3 DEF slot
  <2> QED
    BY <1>l, <2>4, <2>5, Zenon
<1>4. /\ to \in Sessions /\ to \in Roots /\ from \in Senders /\ id \in Nat /\ expires \in Nat
      /\ contexts \in SUBSET Context /\ Inherits(contexts, to, expires)
  BY <1>c, <1>1, <1>2, ReturnInherits
<1>5. PICK row : /\ Written(row, from, to, "reply", id, contexts, expires, late)
                 /\ lastSeq' = lastSeq + 1 /\ messages' = With(table, lastSeq + 1, row)
                 /\ UNCHANGED <<now, context>>
  <2>1. /\ to \in Sessions /\ from \in Senders /\ id \in Nat /\ expires \in Nat
        /\ contexts \in SUBSET Context
    BY <1>4
  <2>2. "reply" \in Kinds /\ late \in BOOLEAN
    BY <1>t
  <2>3. Insert(from, key, to, "reply", mode, id, contexts, expires, late, table)
    BY <1>3
  <2> QED
    BY <2>1, <2>2, <2>3, Inserted
<1>6. Paid(row)
  BY <1>t, <1>1, <1>5 DEF Paid, Written, TypeOK
<1>7. Addressed(row)
  BY <1>1, <1>4, <1>5 DEF Addressed, Inherits, Written
<1>8. /\ DOMAIN Swept({to}) = DOMAIN messages
      /\ \A i \in DOMAIN messages : Aged(messages[i], Swept({to})[i]) /\ Swept({to})[i] \in Message
  BY <1>t, SweptTable, SweptAges
<1>9. DOMAIN table = DOMAIN messages /\ \A i \in DOMAIN messages \ {id} : Aged(messages[i], table[i])
  BY <1>3, <1>8
<1>10. /\ SameLetter(messages[id], table[id]) /\ table[id].reply = lastSeq + 1
       /\ table[id].delivery = messages[id].delivery
            \/ (messages[id].delivery \in Live /\ table[id].delivery \in (Live \cup Settled) \ {"late"})
       /\ table[id].request = Outcome(id, late)
  <2>1. PICK m : m = Swept({to})[id]
    OBVIOUS
  <2>2. m \in Message /\ Aged(messages[id], m)
    BY <1>8, <2>1
  <2>3. table[id] = [m EXCEPT !.reply = lastSeq + 1, !.request = Outcome(id, late)]
    BY <1>3, <1>8, <2>1
  <2>4. /\ table[id].sender = m.sender /\ table[id].to = m.to /\ table[id].kind = m.kind
        /\ table[id].inReplyTo = m.inReplyTo /\ table[id].contexts = m.contexts
        /\ table[id].expires = m.expires /\ table[id].delivery = m.delivery
        /\ table[id].reply = lastSeq + 1 /\ table[id].request = Outcome(id, late)
    BY <2>2, <2>3 DEF Message
  <2> QED
    BY <2>2, <2>4 DEF Aged, SameLetter
<1>11. /\ ~late => Outcome(id, late) = "replied" /\ messages[id].request = "open"
       /\ late => /\ Outcome(id, late) = messages[id].request \/ Outcome(id, late) = "expired"
                  /\ messages[id].request # "replied" => Outcome(id, late) # "replied"
  BY <1>3 DEF Outcome, Lapsed
<1>12. Posts(row, table)
  BY <1>5, <1>6, <1>7, <1>9 DEF Posts, Written
<1>13. Replies(id, row, table)
  BY <1>1, <1>5, <1>9, <1>10, <1>11, <1>12 DEF Replies, Written
<1> QED
  BY <1>13

-----------------------------------------------------------------------------
\* The invariant holds, and what is settled stays settled.

LEMMA InductiveStep == IInv /\ [Next]_vars => IInv' /\ Final
<1> SUFFICES ASSUME IInv, [Next]_vars PROVE IInv' /\ Final
  OBVIOUS
<1>t. TypeOK /\ TypeOK'
  BY TypeStep DEF IInv
<1>f. (\A id \in DOMAIN messages \cap DOMAIN messages' : Aged(messages[id], messages'[id])) => Final
  BY AgedIsFinal DEF Final
<1>s. UNCHANGED messages => Final
  BY DEF Final
<1>g. Ages => IInv' /\ Final
  BY <1>t, <1>f, AgesStep DEF Ages
<1>c. \A s \in Sessions : (\E paths : Continues(s, paths)) => IInv' /\ Final
  BY <1>t, <1>s, ContinuesStep DEF Continues
<1>a. (\E row, table : Admits(row, table)) => IInv' /\ Final
  BY <1>t, AdmitsStep
<1>r. \A id : (\E row, table : Replies(id, row, table)) => IInv' /\ Final
  BY <1>t, RepliesStep
<1>q. \A id \in DOMAIN messages : Aged(messages[id], messages[id])
  BY DEF Aged, SameLetter
<1>1. CASE UNCHANGED vars
  <2>1. Ages
    BY <1>1, <1>q, <1>t, QuietAges DEF vars
  <2> QED
    BY <1>g, <2>1
<1>2. CASE Tick
  <2>1. Ages
    BY <1>2, <1>q, <1>t, QuietAges DEF Tick
  <2> QED
    BY <1>g, <2>1
<1>3. CASE Prune
  BY <1>3, <1>g, <1>t, PruneAges
<1>4. ASSUME NEW key \in Keys, NEW mode \in Modes, NEW source \in Externals, NEW to \in Roots,
             NEW kind \in Kinds, AdmitExternal(source, to, kind, mode, key)
      PROVE  IInv' /\ Final
  BY <1>4, <1>a, ExternalAdmits
<1>5. ASSUME NEW key \in Keys, NEW mode \in Modes, NEW from \in Roots, NEW to \in Roots,
             NEW kind \in Kinds, AdmitTask(from, to, kind, mode, key)
      PROVE  IInv' /\ Final
  BY <1>5, <1>a, TaskAdmits
<1>6. ASSUME NEW key \in Keys, NEW mode \in Modes, NEW from \in Roots, NEW id \in DOMAIN messages,
             AdmitProgress(from, id, mode, key)
      PROVE  IInv' /\ Final
  BY <1>6, <1>a, ProgressAdmits
<1>7. ASSUME NEW key \in Keys, NEW mode \in Modes, NEW from \in Roots, NEW id \in DOMAIN messages,
             AdmitReply(from, id, mode, key)
      PROVE  IInv' /\ Final
  BY <1>7, <1>r, ReplyReplies
<1>8. ASSUME NEW s \in Sessions, NewTask(s)
      PROVE  IInv' /\ Final
  BY <1>8, <1>c, <1>t, TaskContinues
<1>9. ASSUME NEW s \in Sessions, NEW incoming \in SUBSET Enterable(s), NEW human \in BOOLEAN,
             NEW replace \in BOOLEAN, Include(s, incoming, human, replace)
      PROVE  IInv' /\ Final
  BY <1>9, <1>c, <1>t, IncludeContinues
<1>10. ASSUME NEW s \in Sessions,
              \/ \E id \in DOMAIN messages :
                   \/ \E claim \in BOOLEAN : Transition(s, id, "admitted", claim)
                   \/ Transition(s, id, "consumed", FALSE)
                   \/ \E human \in BOOLEAN : Cancel(s, id, human)
              \/ \E cutoff \in 0..lastSeq : Deferred(s, cutoff)
              \/ Expire(s)
       PROVE  IInv' /\ Final
  BY <1>10, <1>g, <1>t, RowAges
<1>11. Admit => IInv' /\ Final
  BY <1>4, <1>5, <1>6, <1>7 DEF Admit
<1>12. ASSUME NEW s \in Sessions, Owned(s) PROVE IInv' /\ Final
  BY <1>8, <1>9, <1>10, <1>12 DEF Owned
<1> QED
  BY <1>1, <1>2, <1>3, <1>11, <1>12 DEF Next

LEMMA Initially == Init => IInv
<1> SUFFICES ASSUME Init PROVE IInv
  OBVIOUS
<1>1. DOMAIN messages = {} /\ DOMAIN chains = {} /\ \A s \in Sessions : context[s] = {}
  BY DEF Init
<1>2. TypeOK
  BY <1>1 DEF Init, TypeOK
<1>3. Causes
  BY <1>1 DEF Causes, Known, Asked, PathsSound, LiveChainsKept, BudgetAccounts
<1>4. FinalReplies /\ Answered
  BY <1>1 DEF FinalReplies, Answered
<1> QED
  BY <1>2, <1>3, <1>4 DEF IInv

\* The tables, the paths, the chains and the replies are always in order together: a
\* step that keeps one of them so relies on the others (mailbox.mjs, all methods).
THEOREM Inductive == Spec => []IInv
<1>1. IInv /\ [Next]_vars => IInv'
  BY InductiveStep
<1> QED
  BY Initially, <1>1, PTL DEF Spec

\* Every row of the ledger's tables follows its schema (CREATE TABLE, mailbox.mjs).
THEOREM TypeCorrect == Spec => []TypeOK
<1>1. IInv => TypeOK
  BY DEF IInv
<1> QED
  BY Inductive, <1>1, PTL

\* A request has at most one final reply, late, cancelled or consumed, and even when the
\* request itself is pruned: the slot that admit() claims with the insert of the reply.
THEOREM OneFinalReply == Spec => []FinalReplies
<1>1. IInv => FinalReplies
  BY DEF IInv
<1> QED
  BY Inductive, <1>1, PTL

\* A causal path that a session holds or a message brings ends there and passes no
\* session twice, through delegation, inheritance, progress and reply.
THEOREM PathsStaySound == Spec => []PathsSound
<1>1. IInv => PathsSound
  BY DEF IInv, Causes
<1> QED
  BY Inductive, <1>1, PTL

\* A chain was charged for every request and notify on it, and never beyond its limit.
THEOREM BudgetsHold == Spec => []BudgetAccounts
<1>1. IInv => BudgetAccounts
  BY DEF IInv, Causes
<1> QED
  BY Inductive, <1>1, PTL

\* prune() keeps the chains of every message that is still inside its deadline.
THEOREM ChainsOutliveMessages == Spec => []LiveChainsKept
<1>1. IInv => LiveChainsKept
  BY DEF IInv, Causes
<1> QED
  BY Inductive, <1>1, PTL

\* No transaction takes back a settled delivery, a closed request or a recorded reply.
THEOREM SettledStaysSettled == Spec => SettledIsFinal
<1>1. IInv /\ [Next]_vars => Final
  BY InductiveStep
<1>2. Final => [\A id \in DOMAIN messages \cap DOMAIN messages' :
       /\ messages[id].delivery \in Settled => messages'[id].delivery = messages[id].delivery
       /\ messages[id].request \in Closed => messages'[id].request \in Closed
       /\ messages[id].request = "replied" => messages'[id].request = "replied"
       /\ messages[id].reply # 0 => messages'[id].reply = messages[id].reply]_vars
  BY DEF Final
<1> QED
  BY Inductive, <1>1, <1>2, PTL DEF Spec, SettledIsFinal
=============================================================================
