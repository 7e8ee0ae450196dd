-------------------------- MODULE MCAcquisitionJob --------------------------
(* Instances of AcquisitionJob for TLC. *)
EXTENDS AcquisitionJob

CONSTANTS w1, w2, r, c1

MCWorkers == {w1, w2}
OneCaller == {c1}
=============================================================================
