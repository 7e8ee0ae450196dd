-------------------------- MODULE CompletionExport --------------------------
(***************************************************************************)
(* TrainingCompletionService: the export of one succeeded training job to  *)
(* the remote.  Files first, the transfer manifest after them, and last    *)
(* the completion manifest, the marker that says that the export is whole. *)
(* Two applications share the database, the project's directory and the    *)
(* remote; each has one thread for exports.  A worker that was stopped for *)
(* long enough (a suspended machine, a locked database) loses its claim to *)
(* another one while it goes on.                                           *)
(*                                                                         *)
(* What the export is made from (the training job, its configuration, the  *)
(* dataset and its copy at the remote, the model, the settings) is a       *)
(* number, "source"; every marker is told by the generation of the worker  *)
(* that wrote it, since created_at makes each one's digest another.        *)
(***************************************************************************)
EXTENDS Naturals

CONSTANTS
    Processes,   \* applications, each with one thread for exports
    Files,       \* files of the export
    Policies,    \* storage settings, one of which holds in a behaviour
    Sources,     \* what the export may be made from
    MaxChanges,  \* changes of source and of the remote files (a bound)
    MaxCalls,    \* calls of start and cancel (a bound)
    MaxStalls,   \* times that a worker stops for long (a bound)
    MaxFaults    \* crashes and database errors (a bound)

Overwrite == {"fail_if_exists", "skip_identical", "copy_missing",
              "overwrite_changed"}

ASSUME BoundsAssumption ==
    /\ MaxChanges \in Nat /\ MaxCalls \in Nat
    /\ MaxStalls \in Nat /\ MaxFaults \in Nat
\* "hash" says that the remote reports hashes and the policy compares them.
ASSUME PoliciesAssumption ==
    Policies \subseteq [hash : BOOLEAN, overwrite : Overwrite]
ASSUME SourcesAssumption == Sources \subseteq Nat \ {0}

\* Each start and each restart submits one call, which claims the row once at
\* most; a claim makes one transfer job and one marker at most.
Gens == 0..(MaxCalls + MaxFaults)

VARIABLES
    policy,
    call,      \* call[p]: what a start in the application p has read
    up,        \* up[p]: the application p runs
    queued,    \* queued[p]: its _futures has a call of _run_export that waits
    row,       \* the row in training_completion_exports
    worker,    \* worker[p]: what the thread of p is doing
    source,
    local,     \* the local export
    draft,     \* completion-manifest.json in the local export
    transfer,  \* transfer[j]: the transfer job that the claim j made
    newest,    \* the job that was COMPLETED last
    remote,    \* remote[f]: the file f at the remote
    manifest,  \* job of transfer-manifest.json at the remote, 0 if none
    marker,    \* completion-manifest.json at the remote
    late,      \* copies of rclone processes that lost their parent
    changes, calls, stalls, faults,
    whole      \* history: jobs whose manifest lay by a whole set of files

vars == <<policy, call, up, queued, row, worker, source, local, draft, transfer,
          newest, remote, manifest, marker, late, changes, calls, stalls,
          faults, whole>>
remoteVars == <<remote, manifest, marker>>
bounds == <<changes, calls, stalls>>

\* gen is 0 when there is no marker.
Marker == [gen : Gens, job : Gens, source : Sources \cup {0}]
NoMarker == [gen |-> 0, job |-> 0, source |-> 0]

\* The directory of the export: the fingerprint in it, 0 before it was renamed,
\* and whether the files are the ones that the fingerprint was made of.
Local == [source : Sources \cup {0}, true : BOOLEAN]
NoLocal == [source |-> 0, true |-> TRUE]

Active == {"preparing", "ready", "uploading", "verifying"}
Ended == {"completed", "failed", "canceled"}
Status == {"none", "pending", "stale"} \cup Active \cup Ended
\* "held" says that worker_id and claim_token are set: they are those of the
\* worker of this generation.  "beat" is the age of heartbeat_at, "marker" is
\* completion_manifest_sha256.
Row == [status : Status, held : BOOLEAN, gen : Gens,
        beat : {"none", "young", "old"}, cancel : BOOLEAN,
        source : Sources \cup {0}, job : Gens, marker : Gens]
NoRow == [status |-> "none", held |-> FALSE, gen |-> 0, beat |-> "none",
          cancel |-> FALSE, source |-> 0, job |-> 0, marker |-> 0]

Label == {"read", "build", "rename", "ready", "probe", "adopt", "find",
          "create", "send", "verify", "manifest", "finish", "store",
          "verifying", "verifyAll", "write", "announce", "mark", "reread",
          "complete", "fail"}
\* "source" is the context's fingerprint; "stored" and "preferred" the marker
\* and the job that the row had when it was read; "temp" says that the worker's
\* .creating- directory is there; "sum" is the marker whose
\* digest is to be stored; "end" is the status for _finish_claimed.
Worker == [pc : Label \cup {"idle"}, gen : Gens, token : BOOLEAN,
           source : Sources \cup {0}, stored : Gens, preferred : Gens,
           temp : BOOLEAN, job : Gens, todo : SUBSET Files, sum : Gens,
           end : {"failed", "canceled"}]
IdleWorker == [pc |-> "idle", gen |-> 0, token |-> FALSE, source |-> 0,
               stored |-> 0, preferred |-> 0, temp |-> FALSE, job |-> 0,
               todo |-> {}, sum |-> 0, end |-> "failed"]

\* What start has selected and not yet flushed: is there a row, is it one to
\* reset, and the fingerprint to write, 0 if it is the one that was selected.
Call == [row : {"none", "again", "other"}, write : Sources \cup {0}]
        \cup {[row |-> "unread", write |-> 0]}
NoCall == [row |-> "unread", write |-> 0]

\* What an rclone may be copying: a file, a transfer manifest or a marker.
Copy == [file : Files] \cup [job : Gens] \cup [marker : Marker]

TypeOK ==
    /\ policy \in Policies
    /\ call \in [Processes -> Call]
    /\ up \in [Processes -> BOOLEAN]
    /\ queued \in [Processes -> BOOLEAN]
    /\ row \in Row
    /\ worker \in [Processes -> Worker]
    /\ source \in Sources
    /\ local \in Local
    /\ draft \in Marker
    /\ transfer \in [Gens -> {"none", "running", "completed", "failed"}]
    /\ newest \in Gens
    /\ remote \in [Files -> {"absent", "good", "other"}]
    /\ manifest \in Gens
    /\ marker \in Marker
    /\ late \subseteq Copy
    /\ changes \in 0..MaxChanges /\ calls \in 0..MaxCalls
    /\ stalls \in 0..MaxStalls /\ faults \in 0..MaxFaults
    /\ whole \subseteq Gens

Init ==
    /\ policy \in Policies
    /\ call = [p \in Processes |-> NoCall]
    /\ up = [p \in Processes |-> TRUE]
    /\ queued = [p \in Processes |-> FALSE]
    /\ row = NoRow
    /\ worker = [p \in Processes |-> IdleWorker]
    /\ source \in Sources
    /\ local = NoLocal
    /\ draft = NoMarker
    /\ transfer = [j \in Gens |-> "none"]
    /\ newest = 0
    /\ remote = [f \in Files |-> "absent"]
    /\ manifest = 0
    /\ marker = NoMarker
    /\ late = {}
    /\ changes = 0 /\ calls = 0 /\ stalls = 0 /\ faults = 0
    /\ whole = {}

-----------------------------------------------------------------------------
(* helpers *)

Fault == faults < MaxFaults /\ faults' = faults + 1
At(p, label) == up[p] /\ worker[p].pc = label
Go(p, label) == worker' = [worker EXCEPT ![p].pc = label]
FailAs(p, status) ==
    worker' = [worker EXCEPT ![p] = [IdleWorker EXCEPT !.pc = "fail",
                                                       !.gen = worker[p].gen,
                                                       !.end = status]]
Lose(p) == FailAs(p, "failed")

\* mutant: the row is written by its primary key
HoldsByKey(p) == TRUE

\* update_claimed finds its worker_id, claim_token and worker_generation.
Holds(p) == row.held /\ row.gen = worker[p].gen

\* _claimed_update: the row takes the values of r, or the claim is lost.
ClaimedUpdate(p, r, next) ==
    IF Holds(p)
    THEN /\ row' = [r EXCEPT !.beat = "young"]
         /\ Go(p, next)
    ELSE Lose(p) /\ UNCHANGED row

\* _check_cancel
Canceled(p) == worker[p].token \/ row.cancel

\* _check_cancel and then _claimed_update
UnlessCanceled(p, r, next) ==
    IF Canceled(p)
    THEN FailAs(p, "canceled") /\ UNCHANGED row
    ELSE ClaimedUpdate(p, r, next)

\* UserFacingError of the storage service
StorageError(p) == FailAs(p, IF Canceled(p) THEN "canceled" ELSE "failed")

\* dry_run_artifact_upload: without a hash no file is known to be identical
Identical(f) == policy.hash /\ remote[f] = "good"
Conflict(f) ==
    /\ remote[f] # "absent"
    /\ \/ policy.overwrite = "fail_if_exists"
       \/ ~Identical(f) /\ policy.overwrite # "overwrite_changed"

\* _verify_remote_artifact_files: without a hash the size has to do
Verified(f) ==
    remote[f] = "good" \/ (remote[f] = "other" /\ ~policy.hash)
FilesVerified == \A f \in Files : Verified(f)

\* ... and _verify_remote_artifact_manifest
RemoteVerified(j) == FilesVerified /\ manifest = j

\* _verify_artifact_transfer_job
TransferMatches(j) == transfer[j] = "completed"

\* _validate_completion_marker
MarkerMatches(p) ==
    marker.source = worker[p].source /\ marker.job # 0

\* _verify_existing_remote_completion
CompletionVerified(p) ==
    MarkerMatches(p) /\ TransferMatches(marker.job)
    /\ RemoteVerified(marker.job)

\* History: the jobs whose manifest has lain by a whole set of files.
WatchRemote ==
    whole' = IF \A f \in Files : remote'[f] = "good"
             THEN whole \cup ({manifest'} \ {0}) ELSE whole

-----------------------------------------------------------------------------
(* calls of the UI *)

\* _submit: no second future while the first is not done
Submit(p) ==
    queued' = [queued EXCEPT ![p] = @ \/ worker[p].pc = "idle"]

\* _build_context: the fingerprint of what the export is made from
Context == source

\* reset_for_retry
Resettable == {"failed", "canceled", "stale"}
Reset(s) == [NoRow EXCEPT !.status = "pending", !.source = s, !.gen = row.gen]

\* start selects the row, and answers at once if it is COMPLETED.
StartRead(p) ==
    /\ up[p] /\ call[p] = NoCall /\ row.status # "completed"
    /\ calls < MaxCalls /\ calls' = calls + 1
    /\ call' = [call EXCEPT ![p] =
                   [row |-> CASE row.status = "none" -> "none"
                              [] row.status \in Resettable -> "again"
                              [] OTHER -> "other",
                    write |-> IF row.source = Context THEN 0 ELSE Context]]
    /\ UNCHANGED <<policy, up, queued, row, worker, source, local, draft,
                   transfer, newest, remoteVars, late, changes, stalls, faults>>

\* The flush: reset_for_retry looks at the status again, but the fingerprint
\* goes to the row of this key, whatever it says by now.
Flushed(c) ==
    LET again == \/ c.row = "again" /\ row.status \in Resettable
                 \/ c.row = "none"
        r == IF again THEN Reset(row.source) ELSE row
    IN  IF c.write = 0 THEN r ELSE [r EXCEPT !.source = c.write]

\* A row that someone else has inserted meanwhile is only answered.
Start(p) ==
    LET c == call[p]
        taken == c.row = "none" /\ row.status # "none"
    IN
    /\ up[p] /\ c # NoCall
    /\ call' = [call EXCEPT ![p] = NoCall]
    /\ IF taken THEN UNCHANGED <<row, queued>>
       ELSE row' = Flushed(c) /\ Submit(p)
    /\ UNCHANGED <<policy, up, worker, source, local, draft, transfer, newest,
                   remoteVars, late, bounds, faults>>

Retry(p) ==
    /\ up[p] /\ row.status \in Resettable
    /\ calls < MaxCalls /\ calls' = calls + 1
    /\ row' = Reset(Context)
    /\ Submit(p)
    /\ UNCHANGED <<policy, call, up, worker, source, local, draft, transfer,
                   newest, remoteVars, late, changes, stalls, faults>>

\* request_cancel, and the token if the worker is in this application
Cancel(p) ==
    /\ up[p] /\ row.status \notin {"none", "completed"}
    /\ calls < MaxCalls /\ calls' = calls + 1
    /\ row' = [row EXCEPT !.cancel = TRUE]
    /\ worker' = [worker EXCEPT ![p].token = worker[p].pc # "idle"]
    /\ UNCHANGED <<policy, call, up, queued, source, local, draft, transfer,
                   newest, remoteVars, late, changes, stalls, faults>>

-----------------------------------------------------------------------------
(* _run_export and _run_claimed *)

\* the condition of the UPDATE in claim
Claimable ==
    /\ row.status \in {"pending", "stale"} \cup Active
    /\ ~row.held \/ row.beat \in {"none", "old"}

Claim(p) ==
    /\ At(p, "idle") /\ queued[p]
    /\ queued' = [queued EXCEPT ![p] = FALSE]
    /\ IF Claimable
       THEN /\ row' = [row EXCEPT !.status = "preparing", !.held = TRUE,
                                  !.gen = @ + 1, !.beat = "young"]
            /\ worker' = [worker EXCEPT ![p] =
                             [IdleWorker EXCEPT !.pc = "read",
                                                !.gen = row.gen + 1]]
       ELSE UNCHANGED <<row, worker>>
    /\ UNCHANGED <<policy, call, up, source, local, draft, transfer, newest,
                   remoteVars, late, bounds, faults>>

\* get_export, _build_context, _check_cancel
Read(p) ==
    /\ At(p, "read")
    /\ IF row.source # Context
       THEN Lose(p)
       ELSE IF Canceled(p) THEN FailAs(p, "canceled")
       ELSE worker' = [worker EXCEPT ![p] =
                          [@ EXCEPT !.pc = "build", !.source = Context,
                                    !.stored = row.marker,
                                    !.preferred = row.job]]
    /\ UNCHANGED <<policy, call, up, queued, row, source, local, draft,
                   transfer, newest, remoteVars, late, bounds, faults>>

\* _build_local_export: a directory that is there has to have this
\* fingerprint; else the files are copied to one under another name.
Build(p) ==
    /\ At(p, "build")
    /\ IF local # NoLocal
       THEN IF local.source = worker[p].source THEN Go(p, "ready") ELSE Lose(p)
       ELSE IF worker[p].token THEN FailAs(p, "canceled")
       ELSE worker' = [worker EXCEPT ![p].pc = "rename", ![p].temp = TRUE]
    /\ UNCHANGED <<policy, call, up, queued, row, source, local, draft,
                   transfer, newest, remoteVars, late, bounds, faults>>

\* The files a worker copies are those of now, whatever the fingerprint says.
Copied(p) ==
    {[source |-> worker[p].source, true |-> true] :
        true \in {TRUE, source = worker[p].source}}

\* The copies are renamed into place, unless another worker's are there or
\* someone has cleaned up.
Rename(p) ==
    /\ At(p, "rename")
    /\ IF local = NoLocal /\ worker[p].temp
       THEN /\ local' \in Copied(p)
            /\ worker' = [worker EXCEPT ![p].pc = "ready", ![p].temp = FALSE]
       ELSE Lose(p) /\ UNCHANGED local
    /\ UNCHANGED <<policy, call, up, queued, row, source, draft, transfer,
                   newest, remoteVars, late, bounds, faults>>

\* _ensure_export_manifest: what was copied is compared with the context.
ExportManifestMatches(p) == local = [source |-> worker[p].source, true |-> TRUE]

\* The row says READY.
Ready(p) ==
    /\ At(p, "ready")
    /\ IF ExportManifestMatches(p)
       THEN ClaimedUpdate(p, [row EXCEPT !.status = "ready"], "probe")
       ELSE Lose(p) /\ UNCHANGED row
    /\ UNCHANGED <<policy, call, up, queued, source, local, draft, transfer,
                   newest, remoteVars, late, bounds, faults>>

\* _check_cancel, _check_claim, and is there a marker?
Probe(p) ==
    /\ At(p, "probe")
    /\ UnlessCanceled(p, row, IF marker.gen = 0 THEN "find" ELSE "adopt")
    /\ UNCHANGED <<policy, call, up, queued, source, local, draft, transfer,
                   newest, remoteVars, late, bounds, faults>>

\* The marker of an earlier run is taken for this one's, if all that it says
\* is so.
Adopt(p) ==
    LET known == worker[p].stored \in {0, marker.gen} IN
    /\ At(p, "adopt")
    /\ IF Canceled(p)
       THEN FailAs(p, "canceled")
       ELSE IF known /\ CompletionVerified(p)
       THEN worker' = [worker EXCEPT ![p] =
                          [@ EXCEPT !.pc = "complete", !.job = marker.job,
                                    !.sum = marker.gen]]
       ELSE Lose(p)
    /\ UNCHANGED <<policy, call, up, queued, row, source, local, draft,
                   transfer, newest, remoteVars, late, bounds, faults>>

\* _find_matching_artifact_job_id: the job of the row, which has to match, or
\* the one that was completed last; else a new one, if the files may go.
Find(p) ==
    LET preferred == worker[p].preferred
        found == IF preferred # 0 THEN preferred ELSE newest
    IN
    /\ At(p, "find")
    /\ IF preferred # 0 /\ ~TransferMatches(preferred)
       THEN Lose(p) /\ UNCHANGED row
       ELSE IF found # 0
       THEN /\ row' = IF Holds(p) THEN [row EXCEPT !.beat = "young"] ELSE row
            /\ worker' = [worker EXCEPT ![p] =
                             [@ EXCEPT !.pc = IF Holds(p) THEN "store"
                                              ELSE "fail",
                                       !.job = found]]
       ELSE IF \E f \in Files : Conflict(f)
       THEN Lose(p) /\ UNCHANGED row
       ELSE ClaimedUpdate(p, [row EXCEPT !.status = "uploading"], "create")
    /\ UNCHANGED <<policy, call, up, queued, source, local, draft, transfer,
                   newest, remoteVars, late, bounds, faults>>

-----------------------------------------------------------------------------
(* StorageService.upload_artifact_files *)

\* The plan is made again; "skip" for the files that are identical.
Create(p) ==
    LET j == worker[p].gen IN
    /\ At(p, "create")
    /\ IF \E f \in Files : Conflict(f)
       THEN StorageError(p) /\ UNCHANGED transfer
       ELSE /\ transfer' = [transfer EXCEPT ![j] = "running"]
            /\ worker' = [worker EXCEPT ![p] =
                             [@ EXCEPT !.pc = "send", !.job = j,
                                       !.todo = {f \in Files : ~Identical(f)}]]
    /\ UNCHANGED <<policy, call, up, queued, row, source, local, draft, newest,
                   remoteVars, late, bounds, faults>>

\* The upload fails, and its job with it.
FailUpload(p) ==
    /\ transfer' = [transfer EXCEPT ![worker[p].job] = "failed"]
    /\ StorageError(p)

\* _copy_artifact_with_retry; an rclone that fails may have copied the file.
Send(p, f) ==
    /\ At(p, "send") /\ f \in worker[p].todo
    /\ \/ /\ ~worker[p].token
          /\ remote' = [remote EXCEPT ![f] = "good"]
          /\ worker' = [worker EXCEPT ![p].todo = @ \ {f}]
          /\ UNCHANGED transfer
       \/ /\ remote' \in {remote, [remote EXCEPT ![f] = "good"]}
          /\ FailUpload(p)
    /\ UNCHANGED <<policy, call, up, queued, row, source, local, draft, newest,
                   manifest, marker, late, bounds, faults>>

\* _verify_remote_artifact_files when all are sent
Verify(p) ==
    /\ At(p, "send") /\ worker[p].todo = {}
    /\ \/ FilesVerified /\ Go(p, "manifest") /\ UNCHANGED transfer
       \/ FailUpload(p)
    /\ UNCHANGED <<policy, call, up, queued, row, source, local, draft, newest,
                   remoteVars, late, bounds, faults>>

\* transfer-manifest.json
SendManifest(p) ==
    /\ At(p, "manifest")
    /\ \/ /\ ~worker[p].token
          /\ manifest' = worker[p].job
          /\ Go(p, "finish")
          /\ UNCHANGED transfer
       \/ /\ manifest' \in {manifest, worker[p].job}
          /\ FailUpload(p)
    /\ UNCHANGED <<policy, call, up, queued, row, source, local, draft, newest,
                   remote, marker, late, bounds, faults>>

\* _verify_remote_artifact_manifest, and _finish_job
FinishUpload(p) ==
    LET j == worker[p].job IN
    /\ At(p, "finish")
    /\ \/ /\ manifest = j
          /\ transfer' = [transfer EXCEPT ![j] = "completed"]
          /\ newest' = j
          /\ Go(p, "store")
       \/ FailUpload(p) /\ UNCHANGED newest
    /\ UNCHANGED <<policy, call, up, queued, row, source, local, draft,
                   remoteVars, late, bounds, faults>>

-----------------------------------------------------------------------------
(* the rest of _run_claimed *)

Store(p) ==
    /\ At(p, "store")
    /\ ClaimedUpdate(p, [row EXCEPT !.job = worker[p].job], "verifying")
    /\ UNCHANGED <<policy, call, up, queued, source, local, draft, transfer,
                   newest, remoteVars, late, bounds, faults>>

\* _check_cancel, the row says VERIFYING, _check_claim
Verifying(p) ==
    /\ At(p, "verifying")
    /\ UnlessCanceled(p, [row EXCEPT !.status = "verifying"], "verifyAll")
    /\ UNCHANGED <<policy, call, up, queued, source, local, draft, transfer,
                   newest, remoteVars, late, bounds, faults>>

\* mutant: a transfer job that has ended well needs no second look
VerifyJobOnly(p) ==
    /\ At(p, "verifyAll")
    /\ Go(p, "write")
    /\ UNCHANGED <<policy, call, up, queued, row, source, local, draft,
                   transfer, newest, remoteVars, late, bounds, faults>>

\* verify_remote_artifact_files, for a job that was reused as for a new one
VerifyAll(p) ==
    /\ At(p, "verifyAll")
    /\ IF RemoteVerified(worker[p].job) THEN Go(p, "write")
       ELSE StorageError(p)
    /\ UNCHANGED <<policy, call, up, queued, row, source, local, draft,
                   transfer, newest, remoteVars, late, bounds, faults>>

\* _check_cancel, the context once more, _write_completion_manifest
Write(p) ==
    /\ At(p, "write")
    /\ IF Canceled(p)
       THEN FailAs(p, "canceled") /\ UNCHANGED draft
       ELSE IF Context # worker[p].source
       THEN Lose(p) /\ UNCHANGED draft
       ELSE /\ draft' = [gen |-> worker[p].gen, job |-> worker[p].job,
                         source |-> worker[p].source]
            /\ Go(p, "announce")
    /\ UNCHANGED <<policy, call, up, queued, row, source, local, transfer,
                   newest, remoteVars, late, bounds, faults>>

\* _check_cancel and the marker's digest into the row, and both once more
Announce(p) ==
    /\ At(p, "announce")
    /\ UnlessCanceled(p, [row EXCEPT !.marker = worker[p].gen], "mark")
    /\ UNCHANGED <<policy, call, up, queued, source, local, draft, transfer,
                   newest, remoteVars, late, bounds, faults>>

\* rclone --immutable copies the file that is there by now, over nothing; the
\* worker reads the marker again whether rclone failed or not.
Mark(p) ==
    /\ At(p, "mark")
    /\ marker' \in {marker, IF marker.gen = 0 THEN draft ELSE marker}
    /\ Go(p, "reread")
    /\ UNCHANGED <<policy, call, up, queued, row, source, local, draft,
                   transfer, newest, remote, manifest, late, bounds, faults>>

\* mutant: a marker that is there is as good as the one that was sent
RereadAny(p) ==
    /\ At(p, "reread")
    /\ IF Canceled(p) THEN FailAs(p, "canceled")
       ELSE IF marker.gen # 0
       THEN worker' = [worker EXCEPT ![p] = [@ EXCEPT !.pc = "complete",
                                                      !.sum = worker[p].gen]]
       ELSE Lose(p)
    /\ UNCHANGED <<policy, call, up, queued, row, source, local, draft,
                   transfer, newest, remoteVars, late, bounds, faults>>

\* _check_cancel; the marker at the remote has to be this worker's, and true.
Reread(p) ==
    /\ At(p, "reread")
    /\ IF Canceled(p)
       THEN FailAs(p, "canceled")
       ELSE IF /\ marker.gen = worker[p].gen /\ marker.job = worker[p].job
               /\ CompletionVerified(p)
       THEN worker' = [worker EXCEPT ![p] = [@ EXCEPT !.pc = "complete",
                                                      !.sum = marker.gen]]
       ELSE Lose(p)
    /\ UNCHANGED <<policy, call, up, queued, row, source, local, draft,
                   transfer, newest, remoteVars, late, bounds, faults>>

\* _complete_claimed
Complete(p) ==
    /\ At(p, "complete")
    /\ IF Holds(p)
       THEN /\ row' = [row EXCEPT !.status = "completed", !.held = FALSE,
                                  !.beat = "young", !.job = worker[p].job,
                                  !.marker = worker[p].sum]
            /\ worker' = [worker EXCEPT ![p] = IdleWorker]
       ELSE Lose(p) /\ UNCHANGED row
    /\ UNCHANGED <<policy, call, up, queued, source, local, draft, transfer,
                   newest, remoteVars, late, bounds, faults>>

\* A step that reads the remote or the training job may fail at any time.
ReadFails(p) ==
    /\ up[p]
    /\ worker[p].pc \in {"read", "probe", "adopt", "find", "create",
                         "verifyAll", "write", "reread"}
    /\ StorageError(p)
    /\ UNCHANGED <<policy, call, up, queued, row, source, local, draft,
                   transfer, newest, remoteVars, late, bounds, faults>>

\* _finish_claimed: a row that is another worker's stays as it is, and an
\* error of the database is logged.
Fail(p) ==
    /\ At(p, "fail")
    /\ \/ /\ row' = IF Holds(p)
                    THEN [row EXCEPT !.status = worker[p].end,
                                     !.held = FALSE, !.beat = "young"]
                    ELSE row
          /\ UNCHANGED faults
       \/ Fault /\ UNCHANGED row
    /\ worker' = [worker EXCEPT ![p] = IdleWorker]
    /\ UNCHANGED <<policy, call, up, queued, source, local, draft, transfer,
                   newest, remoteVars, late, bounds>>

\* _heartbeat_loop
Beat(p) ==
    /\ up[p] /\ worker[p].pc # "idle"
    /\ IF Holds(p)
       THEN row' = [row EXCEPT !.beat = "young"] /\ UNCHANGED worker
       ELSE worker' = [worker EXCEPT ![p].token = TRUE] /\ UNCHANGED row
    /\ UNCHANGED <<policy, call, up, queued, source, local, draft, transfer,
                   newest, remoteVars, late, bounds, faults>>

-----------------------------------------------------------------------------
(* time, others, crash and restart *)

\* The heartbeat grows old; with a live worker that takes a stall.
Age ==
    /\ row.held /\ row.beat = "young"
    /\ row' = [row EXCEPT !.beat = "old"]
    /\ IF \E p \in Processes : worker[p].pc # "idle" /\ Holds(p)
       THEN stalls < MaxStalls /\ stalls' = stalls + 1
       ELSE UNCHANGED stalls
    /\ UNCHANGED <<policy, call, up, queued, worker, source, local, draft,
                   transfer, newest, remoteVars, late, changes, calls, faults>>

\* Someone changes what the export is made from, or a file at the remote.
Change ==
    /\ changes < MaxChanges /\ changes' = changes + 1
    /\ \/ source' \in Sources \ {source} /\ UNCHANGED remote
       \/ /\ \E f \in Files, content \in {"absent", "other"} :
                 /\ remote[f] # content
                 /\ remote' = [remote EXCEPT ![f] = content]
          /\ UNCHANGED source
    /\ UNCHANGED <<policy, call, up, queued, row, worker, local, draft,
                   transfer, newest, manifest, marker, late, calls, stalls,
                   faults>>

\* The copy that an rclone of p is making goes on without it.
InFlight(p) ==
    CASE worker[p].pc = "send" -> {[file |-> f] : f \in worker[p].todo}
      [] worker[p].pc = "manifest" -> {[job |-> worker[p].job]}
      [] worker[p].pc = "mark" -> {[marker |-> draft]}
      [] OTHER -> {}

Crash(p) ==
    /\ up[p] /\ Fault
    /\ up' = [up EXCEPT ![p] = FALSE]
    /\ \E lost \in SUBSET InFlight(p) :
           /\ \A a, b \in lost : a = b
           /\ late' = late \cup lost
    /\ call' = [call EXCEPT ![p] = NoCall]
    /\ queued' = [queued EXCEPT ![p] = FALSE]
    /\ worker' = [worker EXCEPT ![p] = IdleWorker]
    /\ UNCHANGED <<policy, row, source, local, draft, transfer, newest,
                   remoteVars, bounds>>

LateCopy(c) ==
    /\ c \in late /\ late' = late \ {c}
    /\ remote' = IF "file" \in DOMAIN c
                 THEN [remote EXCEPT ![c.file] = "good"] ELSE remote
    /\ manifest' = IF "job" \in DOMAIN c THEN c.job ELSE manifest
    /\ marker' = IF "marker" \in DOMAIN c /\ marker.gen = 0 THEN c.marker
                 ELSE marker
    /\ UNCHANGED <<policy, call, up, queued, row, worker, source, local, draft,
                   transfer, newest, bounds, faults>>

\* mark_stale_if_unchanged
Stale == row.status \in Active /\ row.beat # "young"

\* _cleanup_temporary_exports: without a young heartbeat the .creating-
\* directories of the project go, that of a worker elsewhere with them.
Cleaned ==
    IF row.status \in Active /\ row.beat = "young" THEN worker
    ELSE [p \in Processes |-> [worker[p] EXCEPT !.temp = FALSE]]

\* recover_stale, then reconcile_remote, which submits what is STALE
Restart(p) ==
    /\ ~up[p]
    /\ up' = [up EXCEPT ![p] = TRUE]
    /\ row' = IF Stale THEN [row EXCEPT !.status = "stale", !.held = FALSE,
                                        !.beat = "young"]
              ELSE row
    /\ queued' = [queued EXCEPT ![p] = row'.status = "stale"]
    /\ worker' = Cleaned
    /\ UNCHANGED <<policy, call, source, local, draft, transfer, newest,
                   remoteVars, late, bounds, faults>>

-----------------------------------------------------------------------------

RunStep(p) ==
    \/ Read(p) \/ Build(p) \/ Rename(p) \/ Ready(p) \/ Probe(p) \/ Adopt(p)
    \/ Find(p) \/ Store(p) \/ Verifying(p) \/ VerifyAll(p) \/ Write(p)
    \/ Announce(p) \/ Mark(p) \/ Reread(p) \/ Complete(p) \/ ReadFails(p)
    \/ Fail(p)
UploadStep(p) ==
    \/ Create(p) \/ Verify(p) \/ SendManifest(p) \/ FinishUpload(p)
    \/ \E f \in Files : Send(p, f)
WorkerStep(p) == Claim(p) \/ RunStep(p) \/ UploadStep(p)
ProcessStep(p) ==
    \/ StartRead(p) \/ Start(p) \/ Retry(p) \/ Cancel(p) \/ WorkerStep(p)
    \/ Beat(p) \/ Crash(p) \/ Restart(p)
Next ==
    /\ \/ \E p \in Processes : ProcessStep(p)
       \/ Age \/ Change
       \/ \E c \in late : LateCopy(c)
    /\ WatchRemote

Spec == Init /\ [][Next]_vars

-----------------------------------------------------------------------------
(* properties *)

\* A COMPLETED row names a marker that is at the remote, that says the same
\* of the transfer job, and a transfer job that ended well.  (the checks of
\* _run_claimed before both calls of _complete_claimed)
CompletedIsMarked ==
    row.status = "completed" =>
        /\ marker.gen = row.marker /\ marker.gen # 0
        /\ marker.job = row.job
        /\ transfer[row.job] = "completed"

\* The marker comes last: when it is at the remote, all files of the export
\* have lain there by the manifest of the transfer job that it names, and that
\* job ended well, if the policy compares hashes.  (the order of _run_claimed
\* and verify_remote_artifact_files)
MarkerLast ==
    policy.hash /\ marker.gen # 0 =>
        transfer[marker.job] = "completed" /\ marker.job \in whole

\* Once COMPLETED, the row stays: no worker that lost its claim, no late
\* cancel, no call and no restart takes back the status, the transfer job or
\* the marker, or gives the row a claim.  Only the fingerprint may still be
\* written, by a start that selected the row before it was COMPLETED.
\* (update_claimed and its generation, reset_for_retry, and the flush of start)
CompletedStays ==
    [][row.status = "completed" =>
          \/ UNCHANGED row
          \/ \E s \in Sources : row' = [row EXCEPT !.source = s]]_vars

=============================================================================
