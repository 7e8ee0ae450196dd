------------------------- MODULE MCCompletionExport -------------------------
(* Instances of CompletionExport for TLC. *)
EXTENDS CompletionExport, TLC

CONSTANTS a1, a2, f1, f2

TwoProcesses == {a1, a2}
TwoFiles == {f1, f2}
TwoSources == {1, 2}

\* no property tells two applications or two files apart
Alike == Permutations(TwoProcesses) \cup Permutations(TwoFiles)

\* the defaults
DefaultPolicy == {[hash |-> TRUE, overwrite |-> "skip_identical"]}
=============================================================================
