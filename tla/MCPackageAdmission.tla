-------------------------- MODULE MCPackageAdmission --------------------------
(* Small instances of package admission for TLC. *)
EXTENDS PackageAdmission, TLC

CONSTANTS app, other, data, data2, v1, v2, p1, p2, p3

Alike == Permutations(Launchers) \cup Permutations(Versions)
=============================================================================
