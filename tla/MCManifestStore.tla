-------------------------- MODULE MCManifestStore --------------------------
(* Instances of ManifestStore for TLC. *)
EXTENDS ManifestStore

CONSTANTS w1, w2, w3

MCWriters == {w1, w2, w3}
\* A claim may go stale anywhere but between the publication of a manifest and
\* the end of the sweep that follows it.
OutsideSweep == Label \ {"verify", "sweep", "unlink"}
=============================================================================
