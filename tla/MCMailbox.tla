------------------------------ MODULE MCMailbox ------------------------------
(* Small instances of the ledger for TLC. *)
EXTENDS Mailbox, TLC

CONSTANTS a, b, c, x, k1, k2, k3

NoSubagent == <<>>
SubagentOfA == c :> a

KeySymmetry == Permutations(Keys)
FullSymmetry == Permutations(Keys) \cup Permutations(Sessions)
=============================================================================
