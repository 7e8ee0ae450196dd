------------------------- MODULE MCStorageTransfer -------------------------
(* Instances of StorageTransfer for TLC. *)
EXTENDS StorageTransfer, TLC

CONSTANTS t1, t2, f1, f2

TwoWorkers == {t1, t2}
TwoFiles == {f1, f2}

Interchangeable == Permutations(TwoWorkers) \cup Permutations(TwoFiles)

\* The two kinds share the threads and no row, file or remote path.
OneKind == {{"download"}, {"upload"}}

With(verify, hash, fallback, overwrite) ==
    [verify |-> verify, hash |-> hash, fallback |-> fallback,
     overwrite |-> overwrite, folder |-> TRUE]

\* The defaults, and a remote without hashes, where only metadata is compared and
\* files are replaced on purpose.
TwoSettings ==
    {With("remote_hash_and_size", TRUE, "error", "skip_identical"),
     With("size_and_manifest", FALSE, "size_and_manifest", "overwrite_changed")}
=============================================================================
