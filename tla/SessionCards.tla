---------------------------- MODULE SessionCards ----------------------------
(* The cards of the sessions of one Host: session-cards/manager.mjs. A card is *)
(* the topics a model finds in the user's requests; at most one request to the *)
(* model is under way, and every new user request makes it stale. The list of  *)
(* requests is its length: it only grows, and its digest tells two lengths     *)
(* apart. What is saved is a cache in a file per session.                      *)
EXTENDS Naturals

CONSTANTS
  Carded,      \* the sessions of the preset that are no subagents
  MinMessages, \* requests a card needs
  MaxRequests, \* bound on the requests of a session
  MaxBorn,     \* bound on how often a session is tracked
  Null         \* no state, no extraction

VARIABLES
  requests, \* the user's requests in the log of each session
  headed,   \* sessions whose log names a route
  file,     \* the saved card of each session
  states,   \* what the Host tracks of each session
  born,     \* how often each session was tracked: the identity of its state
  running,  \* the extraction under way
  later,    \* sessions whose nextAt has not come
  timer, closed

cardsVars == <<requests, headed, file, states, born, running, later, timer, closed>>

Card == [topics : Nat, hash : Nat]   \* made from, and said to be of, that many
NoCard == [topics |-> 0, hash |-> 0]
Status == {"empty", "insufficient", "pending", "updating", "ready", "error"}
State == [card : Card, status : Status]
Extraction == [session : Carded, state : Nat, hash : Nat, aborted : BOOLEAN,
               answer : {"none", "good", "bad"}]

\* A card needs a request at least; nothing is unlike every record.
ASSUME CardsAssumption ==
  /\ MinMessages \in Nat \ {0} /\ MaxRequests \in Nat /\ MaxBorn \in Nat
  /\ Null \notin State \cup Extraction

CardsInit ==
  /\ requests \in [Carded -> 0..MaxRequests] /\ headed \in SUBSET Carded
  /\ file = [s \in Carded |-> NoCard] /\ states = [s \in Carded |-> Null]
  /\ born = [s \in Carded |-> 0]
  /\ running = Null /\ later = {} /\ timer = FALSE /\ closed = FALSE

Tracked(s) == states[s] # Null

\* updateStatus
StatusOf(hash, n) ==
  CASE n = 0 -> "empty"
    [] n # 0 /\ hash = n -> "ready"
    [] n # 0 /\ hash # n /\ n < MinMessages -> "insufficient"
    [] OTHER -> "pending"

Candidates(st, n, h) ==
  {s \in Carded : st[s] # Null /\ n[s] >= MinMessages /\ st[s].card.hash # n[s] /\ s \in h}

\* arm, as the last step of a handler; nothing while an extraction runs.
Armed ==
  timer' = IF closed' \/ running' # Null THEN timer
           ELSE Candidates(states', requests', headed') # {}

Keeps(s) == later' = later \/ later' = later \cup {s}   \* a delay may be zero

\* The state of a session that is met first, from its file if that can be read.
Loaded(s) ==
  {[card |-> c, status |-> StatusOf(c.hash, requests[s])] : c \in {file[s], NoCard}}

Track(s) ==
  /\ ~closed /\ ~Tracked(s) /\ born[s] < MaxBorn
  /\ \E st \in Loaded(s) : states' = [states EXCEPT ![s] = st]
  /\ born' = [born EXCEPT ![s] = @ + 1]
  /\ Keeps(s)
  /\ UNCHANGED <<requests, headed, file, running, closed>>
  /\ Armed

\* Requests to a session the manager does not have, or after it has closed.
Unobserved(s) ==
  /\ closed \/ ~Tracked(s)
  /\ requests[s] < MaxRequests
  /\ requests' = [requests EXCEPT ![s] = @ + 1]
  /\ UNCHANGED <<headed, file, states, born, running, later, timer, closed>>

\* observe: a request of the user counts at once and aborts the extraction.
Aborted(s) ==
  IF running # Null /\ running.session = s /\ running.state = born[s]
    THEN [running EXCEPT !.aborted = TRUE] ELSE running
Observe(s) ==
  /\ ~closed /\ Tracked(s) /\ requests[s] < MaxRequests
  /\ requests' = [requests EXCEPT ![s] = @ + 1]
  /\ states' = [states EXCEPT ![s] = [card |-> @.card,
                                      status |-> StatusOf(@.card.hash, requests[s] + 1)]]
  /\ running' = Aborted(s)
  /\ Keeps(s)
  /\ UNCHANGED <<headed, file, born, closed>>
  /\ Armed

Header(s) ==
  /\ ~closed /\ Tracked(s)
  /\ headed' = headed \cup {s}
  /\ UNCHANGED <<requests, file, states, born, running, later, closed>>
  /\ Armed

\* The project of the session's directory is known: the state is saved with it.
SaveProject(s) ==
  /\ ~closed /\ Tracked(s)
  /\ file' = [file EXCEPT ![s] = states[s].card]
  /\ UNCHANGED <<requests, headed, states, born, running, later, timer, closed>>

Comes(s) ==   \* nextAt has come
  /\ later' = later \ {s}
  /\ UNCHANGED <<requests, headed, file, states, born, running, timer, closed>>

\* pump, when the timer fires: the extraction starts with the list as it is.
Pump ==
  /\ timer /\ ~closed /\ running = Null
  /\ \E s \in Candidates(states, requests, headed) \ later :
       /\ running' = [session |-> s, state |-> born[s], hash |-> requests[s],
                      aborted |-> FALSE, answer |-> "none"]
       /\ states' = [states EXCEPT ![s] = [card |-> @.card, status |-> "updating"]]
  /\ timer' = FALSE
  /\ UNCHANGED <<requests, headed, file, born, later, closed>>

\* The model has answered; the extraction goes on after that await.
Answer(a) ==
  /\ running # Null /\ running.answer = "none"
  /\ running' = [running EXCEPT !.answer = a]
  /\ UNCHANGED <<requests, headed, file, states, born, later, timer, closed>>

\* The rest of extract, without an await: the state of the session becomes st, is
\* saved at the end if the Host still has it, and the next extraction is armed.
BugConcluded(st, saved) ==  \* mutant: the end of an extraction arms nothing
  LET s == running.session IN
  /\ states' = [states EXCEPT ![s] = st]
  /\ file' = IF saved THEN [file EXCEPT ![s] = st.card] ELSE file
  /\ running' = Null
  /\ UNCHANGED <<requests, headed, born, timer, closed>>
Concluded(st, saved) ==
  LET s == running.session IN
  /\ states' = [states EXCEPT ![s] = st]
  /\ file' = IF saved THEN [file EXCEPT ![s] = st.card] ELSE file
  /\ running' = Null
  /\ UNCHANGED <<requests, headed, born, closed>>
  /\ Armed

Mine == ~closed /\ Tracked(running.session) /\ born[running.session] = running.state
Stale == running.hash # requests[running.session]

Learn ==
  /\ running # Null /\ running.answer = "good" /\ ~running.aborted /\ Mine /\ ~Stale
  /\ Concluded([card |-> [topics |-> running.hash, hash |-> running.hash],
                status |-> "ready"], TRUE)
  /\ UNCHANGED later

\* A newer request has aborted it, before or after the answer.
Abandon ==
  /\ running # Null /\ running.aborted /\ Mine
  /\ LET s == running.session
         card == states[s].card
     IN \E saved \in BOOLEAN :
          Concluded([card |-> card, status |-> StatusOf(card.hash, requests[s])], saved)
  /\ UNCHANGED later

\* No answer in time, a bad answer, or a file that cannot be written.
Fail ==
  /\ running # Null /\ ~running.aborted /\ Mine
  /\ \E saved \in BOOLEAN :
       Concluded([card |-> states[running.session].card, status |-> "error"], saved)
  /\ later' = later \cup {running.session}

\* The Host has closed, or has lost or replaced the session's state: nothing is
\* written. A stale list that nothing aborted would leave the state as it is.
Drop ==
  /\ running # Null
  /\ ~Mine \/ (Mine /\ ~running.aborted /\ running.answer = "good" /\ Stale)
  /\ \E saved \in BOOLEAN :
       /\ saved => Mine
       /\ Concluded(states[running.session], saved)
  /\ UNCHANGED later

Remove(s) ==
  /\ Tracked(s)
  /\ states' = [states EXCEPT ![s] = Null]
  /\ running' = Aborted(s)
  /\ UNCHANGED <<requests, headed, file, born, later, closed>>
  /\ Armed

Close ==
  /\ ~closed /\ closed' = TRUE /\ timer' = FALSE
  /\ UNCHANGED <<requests, headed, file, states, born, running, later>>

\* The Host is started again, after a close or a crash: only the files remain.
Restart ==
  /\ states' = [s \in Carded |-> Null]
  /\ running' = Null /\ later' = {} /\ timer' = FALSE /\ closed' = FALSE
  /\ UNCHANGED <<requests, headed, file, born>>

CardsNext ==
  \/ \E s \in Carded : \/ Track(s) \/ Unobserved(s) \/ Observe(s) \/ Header(s)
                       \/ SaveProject(s) \/ Comes(s) \/ Remove(s)
  \/ \E a \in {"good", "bad"} : Answer(a)
  \/ Pump \/ Learn \/ Abandon \/ Fail \/ Drop \/ Close \/ Restart

CardsSpec == CardsInit /\ [][CardsNext]_cardsVars

CardsTypeOK ==
  /\ requests \in [Carded -> Nat] /\ headed \subseteq Carded
  /\ file \in [Carded -> Card] /\ states \in [Carded -> State \cup {Null}]
  /\ born \in [Carded -> Nat]
  /\ running \in Extraction \cup {Null} /\ later \subseteq Carded
  /\ timer \in BOOLEAN /\ closed \in BOOLEAN

\* manager.mjs:118-128: the topics that are shown or saved were found in exactly
\* the requests their digest names, whatever came while the model thought.
CardIsOfItsRequests ==
  /\ \A s \in Carded : file[s].topics = file[s].hash
  /\ \A s \in Carded : Tracked(s) => states[s].card.topics = states[s].card.hash

\* A card that is shown as ready covers every request the user has made.
ReadyIsCurrent ==
  \A s \in Carded : ~closed /\ Tracked(s) /\ states[s].status = "ready"
                        => states[s].card.hash = requests[s]

\* A card is shown as updating only while its extraction runs; no exit leaves it
\* so (the early return of manager.mjs:120 would, but is never taken).
UpdatingIsRunning ==
  \A s \in Carded : ~closed /\ Tracked(s) /\ states[s].status = "updating"
    => running # Null /\ running.session = s /\ running.state = born[s]

\* manager.mjs:93-108: a Host at rest with a card to make has its timer set, so
\* no card waits for the next event of some session.
SomeonePumps ==
  ~closed /\ running = Null /\ Candidates(states, requests, headed) # {} => timer

\* manager.mjs:110-137: the file of a session is written only from the state the
\* Host has of it then, never by an extraction that outlived its state.
FileFollowsState ==
  [][\A s \in Carded : file'[s] # file[s] =>
       ~closed /\ Tracked(s) /\ file'[s] = states'[s].card]_cardsVars
=============================================================================
