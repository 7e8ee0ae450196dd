----------------------------- MODULE MCTagging -----------------------------
(* Instances of Tagging for TLC. *)
EXTENDS Tagging

CONSTANTS t1, t2, w1, w2

TwoImages == {1, 2}
TwoTags == {t1, t2}
NoTriggers == {}
\* The tagger finds t1; the user writes t2.
SomePredictions == {{t1}}
OneText == {{t2}}
FirstWritten == {1}
SecondChanges == {2}
DropNone == {{}}
KeepOnly == {"keep_manual"}
TwoWindows == {w1, w2}
Symmetry == Permutations(TwoWindows)
=============================================================================
