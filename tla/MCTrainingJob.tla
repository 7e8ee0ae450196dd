--------------------------- MODULE MCTrainingJob ---------------------------
(* Instances of TrainingJob for TLC. *)
EXTENDS TrainingJob

CONSTANTS c1, c2

TwoCallers == {c1, c2}
=============================================================================
