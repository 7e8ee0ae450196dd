--------------------------- MODULE MCItemDownload ---------------------------
(* Instances of ItemDownload for TLC. *)
EXTENDS ItemDownload

CONSTANTS w1, w2, s1

TwoWorkers == {w1, w2}
OneSweeper == {s1}

\* A worker waits for the network, the disk or the scheduler of the threads
\* anywhere but between a check of its claim and the change of the file.
OutsideFile == Label \ BetweenCheckAndFile
OutsideUnlink == CleanLabel \ {"unlink"}
=============================================================================
