--------------------------- MODULE MCTerminalAnswers ---------------------------
(* Small instances of approvals and questions for TLC. *)
EXTENDS TerminalAnswers, TLC

CONSTANTS near, far, run, edit, allow, deny

Alike == Permutations(Clients) \cup Permutations(Values) \cup Permutations(Prompts)
=============================================================================
