------------------------- MODULE MCDatasetSnapshot -------------------------
(* Instances of DatasetSnapshot for TLC. *)
EXTENDS DatasetSnapshot, TLC

CONSTANTS a1, a2, s1, s2

TwoProcesses == {a1, a2}
TwoSnapshots == {s1, s2}
TwoImages == {1, 2}

Symmetry == Permutations(TwoProcesses) \cup Permutations(TwoSnapshots)
=============================================================================
