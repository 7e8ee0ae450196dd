--------------------------- MODULE ManifestStore ---------------------------
(***************************************************************************)
(* The manifests directory of one acquisition job: how _write_manifest     *)
(* publishes a file and names it in manifest_relative_path, how a writer   *)
(* removes the artifacts it does not name, and how the scheduler's         *)
(* reconcile_terminal_manifest_orphans removes them from a closed job.     *)
(* AcquisitionJob takes the publication as one step; here every file       *)
(* operation and every transaction is a step of its own, and of the job    *)
(* row only the claim is left, which evolves as JobLease allows.           *)
(*                                                                         *)
(* File names carry the generation of the claim and a random part, so no   *)
(* two claims write the same name.                                         *)
(***************************************************************************)
EXTENDS Naturals, FiniteSets

CONSTANTS
    Writers,      \* threads in _complete_claimed_job and the repairer
    Stalls,       \* labels at which a thread may sit until its claim is stale
    MaxClaims,    \* generations (a bound)
    MaxFaults     \* crashes and failing operations (a bound)

ASSUME BoundsAssumption == MaxClaims \in Nat /\ MaxFaults \in Nat

File == [gen : Nat, final : BOOLEAN]
Temporary(g) == [gen |-> g, final |-> FALSE]
Final(g) == [gen |-> g, final |-> TRUE]

Label == {"write", "recheck", "replace", "reference", "doubt", "verify", "clear",
          "discard", "sweep", "unlink", "finish", "defer"}
WriterState == [pc : Label \cup {"idle"}, claim : Nat, rest : SUBSET File]
ScanState == [pc : {"idle", "list", "check", "unlink"}, keep : Nat,
              rest : SUBSET File, name : File]

VARIABLES
    phase, owner, gen,   \* the job row, as in JobLease
    ref,                 \* generation in manifest_relative_path, 0 for NULL
    files,               \* the manifest artifacts in the directory
    writer,              \* writer[w]: what thread w is doing
    scan,                \* what reconcile_terminal_manifest_orphans is doing
    faults

row == <<phase, owner, gen>>
vars == <<phase, owner, gen, ref, files, writer, scan, faults>>

IdleWriter == [pc |-> "idle", claim |-> 0, rest |-> {}]
IdleScan == [pc |-> "idle", keep |-> 0, rest |-> {}, name |-> Final(0)]

TypeOK ==
    /\ phase \in {"open", "running", "closed"}
    /\ owner \in Nat
    /\ gen \in Nat
    /\ ref \in Nat
    /\ files \in SUBSET File
    /\ \A f \in files : f.gen \in 1..gen
    /\ writer \in [Writers -> WriterState]
    /\ scan \in ScanState
    /\ faults \in 0..MaxFaults

Init ==
    /\ phase = "open" /\ owner = 0 /\ gen = 0
    /\ ref = 0
    /\ files = {}
    /\ writer = [w \in Writers |-> IdleWriter]
    /\ scan = IdleScan
    /\ faults = 0

-----------------------------------------------------------------------------
\* mutant: the claim conditions look at the status only
HoldsByStatus(w) == phase = "running" /\ writer[w].claim # 0

\* _manifest_claim_exists, and the condition of every UPDATE below
Holds(w) ==
    /\ phase = "running"
    /\ writer[w].claim # 0
    /\ owner = writer[w].claim
    /\ gen = writer[w].claim

At(w, label) == writer[w].pc = label
Becomes(w, state) == writer' = [writer EXCEPT ![w] = state]
Go(w, label) == Becomes(w, [writer[w] EXCEPT !.pc = label])
Leave(w) == Becomes(w, IdleWriter)
Fault == faults < MaxFaults /\ faults' = faults + 1
Own(w) == {Temporary(writer[w].claim), Final(writer[w].claim)}

-----------------------------------------------------------------------------
(* One writer *)

\* _claim_job or _claim_manifest_repair_job; the work before the manifest is
\* left out.
Claim(w) ==
    /\ At(w, "idle")
    /\ phase = "open"
    /\ gen < MaxClaims
    /\ phase' = "running" /\ owner' = gen + 1 /\ gen' = gen + 1
    /\ Becomes(w, [writer[w] EXCEPT !.pc = "write", !.claim = gen + 1])
    /\ UNCHANGED <<ref, files, scan, faults>>

WriteTemporary(w) ==
    /\ At(w, "write")
    /\ files' = files \cup {Temporary(writer[w].claim)}
    /\ Go(w, "recheck")
    /\ UNCHANGED <<row, ref, scan, faults>>

RecheckClaim(w) ==
    /\ At(w, "recheck")
    /\ IF Holds(w)
       THEN Go(w, "replace") /\ UNCHANGED files
       ELSE Leave(w) /\ files' = files \ {Temporary(writer[w].claim)}
    /\ UNCHANGED <<row, ref, scan, faults>>

\* The rename, the fsync and the validation of the result.  A sweep may have
\* removed the temporary file.
Replace(w) ==
    LET g == writer[w].claim IN
    /\ At(w, "replace")
    /\ IF Temporary(g) \in files
       THEN /\ files' = (files \ {Temporary(g)}) \cup {Final(g)}
            /\ Go(w, "reference")
       ELSE Go(w, "defer") /\ UNCHANGED files
    /\ UNCHANGED <<row, ref, scan, faults>>

\* Any of these steps fails; the files written so far are removed if that works.
WriteFails(w) ==
    /\ writer[w].pc \in {"write", "replace"}
    /\ Fault
    /\ \E left \in SUBSET Own(w) :
          /\ Cardinality(left) <= 1
          /\ At(w, "write") => Final(writer[w].claim) \notin left
          /\ files' = (files \ Own(w)) \cup left
    /\ Go(w, "defer")
    /\ UNCHANGED <<row, ref, scan>>

\* The UPDATE of manifest_relative_path under the claim's conditions.
Reference(w) ==
    /\ At(w, "reference")
    /\ IF Holds(w)
       THEN /\ ref' = writer[w].claim
            /\ Go(w, "verify")
            /\ UNCHANGED files
       ELSE /\ files' = files \ {Final(writer[w].claim)}
            /\ Leave(w)
            /\ UNCHANGED ref
    /\ UNCHANGED <<row, scan, faults>>

\* The commit raises, before or after it took effect.
ReferenceFails(w) ==
    /\ At(w, "reference")
    /\ Holds(w)
    /\ Fault
    /\ ref' \in {ref, writer[w].claim}
    /\ Go(w, "doubt")
    /\ UNCHANGED <<row, files, scan>>

\* mutant: the file is removed unless the commit is known to have taken effect
NamedNever(w) == FALSE

\* _manifest_db_references asks the row, whoever holds the claim by now.
Named(w) == ref = writer[w].claim
Doubt(w) ==
    /\ At(w, "doubt")
    /\ files' = IF Named(w) THEN files ELSE files \ {Final(writer[w].claim)}
    /\ Go(w, "defer")
    /\ UNCHANGED <<row, ref, scan, faults>>

\* The rollback or the question raises in its turn: db_references_own_file is
\* still False in the outer handler, which unlinks the file.
DoubtFails(w) ==
    /\ At(w, "doubt")
    /\ Fault
    /\ files' = files \ {Final(writer[w].claim)}
    /\ Go(w, "defer")
    /\ UNCHANGED <<row, ref, scan>>

\* post_commit_verify: the directory entry is still the file that was written.
PostCommitVerify(w) ==
    /\ At(w, "verify")
    /\ Go(w, IF Final(writer[w].claim) \in files THEN "sweep" ELSE "clear")
    /\ UNCHANGED <<row, ref, files, scan, faults>>

VerifyFails(w) ==
    /\ At(w, "verify")
    /\ Fault
    /\ Go(w, "clear")
    /\ UNCHANGED <<row, ref, files, scan>>

\* _clear_manifest_reference_after_commit.  STILL_REFERENCED keeps the file.
ClearReference(w) ==
    LET mine == ref = writer[w].claim IN
    /\ At(w, "clear")
    /\ ref' = IF Holds(w) /\ mine THEN 0 ELSE ref
    /\ Go(w, IF Holds(w) \/ ~mine THEN "discard" ELSE "defer")
    /\ UNCHANGED <<row, files, scan, faults>>

\* DATABASE_ERROR or COMMIT_AMBIGUOUS
ClearFails(w) ==
    /\ At(w, "clear")
    /\ Fault
    /\ Go(w, "defer")
    /\ UNCHANGED <<row, ref, files, scan>>

Discard(w) ==
    /\ At(w, "discard")
    /\ files' = files \ {Final(writer[w].claim)}
    /\ Go(w, "defer")
    /\ UNCHANGED <<row, ref, scan, faults>>

\* _cleanup_unreferenced_manifest_artifacts lists the directory, provided its
\* own file is in it, and unlinks every other name.  It asks for no claim.
ListArtifacts(w) ==
    LET own == Final(writer[w].claim) IN
    /\ At(w, "sweep")
    /\ IF own \in files
       THEN Becomes(w, [writer[w] EXCEPT !.pc = "unlink", !.rest = files \ {own}])
       ELSE Go(w, "defer")
    /\ UNCHANGED <<row, ref, files, scan, faults>>

Unlink(w) ==
    /\ At(w, "unlink")
    /\ \/ /\ writer[w].rest = {}
          /\ Go(w, "finish")
          /\ UNCHANGED files
       \/ \E f \in writer[w].rest :
             /\ files' = files \ {f}
             /\ Becomes(w, [writer[w] EXCEPT !.rest = @ \ {f}])
    /\ UNCHANGED <<row, ref, scan, faults>>

SweepFails(w) ==
    /\ writer[w].pc \in {"sweep", "unlink"}
    /\ Fault
    /\ Becomes(w, [writer[w] EXCEPT !.pc = "defer", !.rest = {}])
    /\ UNCHANGED <<row, ref, files, scan>>

\* _finish_job.  Its conditions on the cancellation and the .part cleanups,
\* which this module does not have, may also refuse it.
CanFinish(w) == Holds(w) /\ ref # 0
FinishJob(w) ==
    /\ At(w, "finish")
    /\ \/ /\ CanFinish(w)
          /\ phase' = "closed" /\ owner' = 0
          /\ Leave(w)
       \/ Go(w, "defer") /\ UNCHANGED <<phase, owner>>
    /\ UNCHANGED <<gen, ref, files, scan, faults>>

DeferManifestRepair(w) ==
    /\ At(w, "defer")
    /\ IF Holds(w) THEN phase' = "open" /\ owner' = 0
                   ELSE UNCHANGED <<phase, owner>>
    /\ Leave(w)
    /\ UNCHANGED <<gen, ref, files, scan, faults>>

-----------------------------------------------------------------------------
(* The orphan scan of the scheduler *)

Scanning(label) == scan.pc = label

\* _load_terminal_manifest_orphan_job, then the listing of the directory
ScanJob ==
    /\ Scanning("idle")
    /\ phase = "closed"
    /\ scan' = [scan EXCEPT !.pc = "list", !.keep = ref]
    /\ UNCHANGED <<row, ref, files, writer, faults>>

\* mutant: temporary files are not orphans
FinalCandidates(keep) == {f \in files : f.final} \ {Final(keep)}

Candidates(keep) == files \ {Final(keep)}
ScanList ==
    /\ Scanning("list")
    /\ scan' = [scan EXCEPT !.pc = "check", !.rest = Candidates(scan.keep)]
    /\ UNCHANGED <<row, ref, files, writer, faults>>

\* mutant: the name loaded at the start is trusted
TrustedAtStart(f) == f # Final(scan.keep)

\* The row is loaded again for each candidate.
Unreferenced(f) == f # Final(ref)
Scannable == phase = "closed"
ScanCheck ==
    /\ Scanning("check")
    /\ IF Scannable /\ scan.rest # {}
       THEN \E f \in scan.rest :
               scan' = IF Unreferenced(f)
                       THEN [scan EXCEPT !.pc = "unlink", !.name = f]
                       ELSE [scan EXCEPT !.rest = @ \ {f}]
       ELSE scan' = IdleScan
    /\ UNCHANGED <<row, ref, files, writer, faults>>

ScanUnlink ==
    /\ Scanning("unlink")
    /\ files' = files \ {scan.name}
    /\ scan' = [scan EXCEPT !.pc = "check", !.rest = @ \ {scan.name},
                            !.name = Final(0)]
    /\ UNCHANGED <<row, ref, writer, faults>>

-----------------------------------------------------------------------------
(* What else happens to the row and to the threads *)

\* recover_stale_jobs, after image_download_stale_after_seconds without a
\* heartbeat: the holder is gone, or sits at a label of Stalls.
TakeOver ==
    /\ phase = "running"
    /\ \A w \in Writers : Holds(w) => writer[w].pc \in Stalls
    /\ phase' = "open" /\ owner' = 0 /\ gen' = gen + 1
    /\ UNCHANGED <<ref, files, writer, scan, faults>>

\* resume_job
Reopen ==
    /\ phase = "closed"
    /\ gen < MaxClaims
    /\ phase' = "open"
    /\ UNCHANGED <<owner, gen, ref, files, writer, scan, faults>>

Crash ==
    /\ Fault
    /\ writer' = [w \in Writers |-> IdleWriter]
    /\ scan' = IdleScan
    /\ UNCHANGED <<row, ref, files>>

Write(w) == \/ WriteTemporary(w) \/ RecheckClaim(w) \/ Replace(w) \/ Reference(w)
            \/ Doubt(w) \/ PostCommitVerify(w) \/ ClearReference(w)
            \/ Discard(w) \/ ListArtifacts(w) \/ Unlink(w) \/ FinishJob(w)
            \/ DeferManifestRepair(w)
Fails(w) == \/ WriteFails(w) \/ ReferenceFails(w) \/ DoubtFails(w)
            \/ VerifyFails(w) \/ ClearFails(w) \/ SweepFails(w)
Scan == ScanJob \/ ScanList \/ ScanCheck \/ ScanUnlink

Next == \/ \E w \in Writers : Claim(w) \/ Write(w) \/ Fails(w)
        \/ Scan \/ TakeOver \/ Reopen \/ Crash

Spec == Init /\ [][Next]_vars

\* Threads run on and the scheduler comes back to the closed jobs in turn.
Fairness == WF_vars(Scan) /\ \A w \in Writers : WF_vars(Write(w))
FairSpec == Spec /\ Fairness

-----------------------------------------------------------------------------
(* Properties *)

\* _finish_job closes a job only with a manifest, and the file that
\* manifest_relative_path names is in the directory as long as the job is closed.
ClosedHasManifest == phase = "closed" => ref # 0 /\ Final(ref) \in files

\* manifest_relative_path alone decides what is kept (README.md:100) and a
\* writer that has lost its claim removes its own files only (README.md:321): no
\* sweep, scan or failure path removes a file while the row names it.  The one
\* exception is the writer that named it, when its commit raised and so did the
\* question whether the row names it; the job is then not closed.
InDoubt(w) == /\ At(w, "doubt") /\ writer[w].claim = ref
              /\ faults' = faults + 1 /\ phase # "closed"
ReferencedKept ==
    [][ref' = ref /\ Final(ref) \in files =>
          Final(ref) \in files' \/ \E w \in Writers : InDoubt(w)]_vars

\* A row never comes to name a file that is not there.
DurableBeforeReferenced == [][ref' # ref /\ ref' # 0 => Final(ref') \in files']_vars

\* A writer that has lost its claim never puts its own, older manifest back.
ReferenceAdvances == [][ref' # 0 => ref' >= ref]_vars

\* Whatever a lost claim, a crash or a failing step left behind is removed once
\* the job stays closed.
OrphansCollected ==
    <>[](phase = "closed") => <>[](files \subseteq {Final(ref)})

\* The row evolves as JobLease says.
Lease == INSTANCE JobLease
LeaseSpec == Lease!Spec
=============================================================================
