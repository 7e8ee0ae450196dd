------------------------- MODULE MCTrainingProgress -------------------------
(* Instances of TrainingProgress for TLC. *)
EXTENDS TrainingProgress, TLC

CONSTANTS r1, r2

TwoReaders == {r1, r2}
Stdout == {"stdout"}

Symmetry == Permutations(TwoReaders)
=============================================================================
