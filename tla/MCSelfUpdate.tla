----------------------------- MODULE MCSelfUpdate -----------------------------
(* Small instances of the self update for TLC. *)
EXTENDS SelfUpdate, TLC

CONSTANTS u1, u2, u3

Alike == Permutations(Updaters)
=============================================================================
