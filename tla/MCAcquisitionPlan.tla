------------------------- MODULE MCAcquisitionPlan -------------------------
(* An instance of AcquisitionPlan for TLC. *)
EXTENDS AcquisitionPlan, TLC

CONSTANTS c1, c2, p1, p2, s1, s2

TwoCallers == {c1, c2}
TwoPosts == {p1, p2}
TwoSearches == {s1, s2}
OldOrNew == {"old", "new"}
Interchangeable ==
    Permutations(TwoCallers) \cup Permutations(TwoPosts) \cup Permutations(TwoSearches)
=============================================================================
