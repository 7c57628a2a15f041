--------------------------- MODULE MCMemoryPipeline ---------------------------
(* Small instances for TLC of the memory pipeline and of the session cards. The *)
(* two modules share no variable, so what one does can be seen without the      *)
(* other: in each behaviour one of them moves.                                  *)
EXTENDS MemoryPipeline, SessionCards

CONSTANTS shell, desk, old, new, talk

VARIABLE moves

BothInit ==
  /\ Init /\ CardsInit /\ moves \in {"memory", "cards"}
  /\ moves = "memory" => \A s \in Carded : requests[s] = 0 /\ s \notin headed
MemoryMoves == moves = "memory" /\ Next /\ UNCHANGED cardsVars
CardsMove == moves = "cards" /\ CardsNext /\ UNCHANGED vars
\* The fairness leaves out the behaviours in which the pipeline has work and only
\* the cards move: the temporal properties are about the pipeline, the invariants
\* about every state of both.
BothSpec ==
  /\ BothInit /\ [][(MemoryMoves \/ CardsMove) /\ UNCHANGED moves]_<<vars, cardsVars, moves>>
  /\ Fairness
=============================================================================
