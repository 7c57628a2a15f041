--------------------------- MODULE MCDelegateBoard ---------------------------
(* Small instances of delegation for TLC. *)
EXTENDS DelegateBoard, TLC

CONSTANTS x, y, z, k1, k2, k3, l1, l2

Alike == Permutations(Calls) \cup Permutations(Children) \cup Permutations(Names)
=============================================================================
