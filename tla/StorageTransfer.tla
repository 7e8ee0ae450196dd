-------------------------- MODULE StorageTransfer --------------------------
(***************************************************************************)
(* StorageService: the transfer jobs of one managed model and of one       *)
(* dataset snapshot, the two threads of its executor, the rclone processes *)
(* they start, the calls of the UI, and the remote, which others change    *)
(* too.                                                                    *)
(*                                                                         *)
(* The content of the model is the number of the remote version it is a    *)
(* copy of.  The snapshot is a fixed set of files; a file of that name at  *)
(* the remote has its content ("good") or not ("other").  Progress,        *)
(* counters, disk space and heartbeats are left out; whether a heartbeat   *)
(* is old when the application starts again is left open.                  *)
(***************************************************************************)
EXTENDS Naturals

CONSTANTS
    Workers,      \* threads of the executor
    Files,        \* files of the snapshot
    Settings,     \* storage settings, one of which holds in a behaviour
    MaxJobs,      \* transfer jobs (a bound)
    MaxVersions,  \* versions of the remote model (a bound)
    Attempts,     \* rclone_retries + 1
    Mixes,        \* the kinds of jobs a behaviour may have together (a bound)
    MaxForeign,   \* changes of the snapshot's remote files by others (a bound)
    MaxFaults     \* crashes and exceptions (a bound)

Policy == {"full_checksum", "remote_hash_and_size", "size_and_manifest",
           "existence_only"}
Fallback == {"error", "size_and_manifest", "existence_only"}
Overwrite == {"fail_if_exists", "skip_identical", "copy_missing",
              "overwrite_changed"}

ASSUME BoundsAssumption ==
    /\ MaxJobs \in Nat /\ MaxVersions \in Nat \ {0} /\ Attempts \in Nat \ {0}
    /\ MaxForeign \in Nat /\ MaxFaults \in Nat
\* "hash" says that the remote reports SHA-256 hashes, "folder" that the
\* snapshot's folder exists at the remote.
ASSUME SettingsAssumption ==
    Settings \subseteq [verify : Policy, hash : BOOLEAN, fallback : Fallback,
                        overwrite : Overwrite, folder : BOOLEAN]

\* A snapshot has files, its manifest among them.
ASSUME FilesAssumption == Files # {}

Kind == {"download", "upload"}
ASSUME MixesAssumption == Mixes \subseteq SUBSET Kind

Jobs == 1..MaxJobs

\* What a file of the model holds: a version, two versions mixed, or no file.
Versions == 1..MaxVersions
Torn == 0
NoFile == MaxVersions + 1
Content == 0..(MaxVersions + 1)

VARIABLES
    settings,
    kinds,     \* the kinds of jobs of this behaviour
    up,        \* the application runs
    drive,     \* version of the remote model; NoFile once it is deleted
    model,     \* its row in managed_models
    dest,      \* the file at _local_model_path
    backup,    \* backup[j]: the file .<name>.<job>.backup
    job,       \* job[j]: the row in storage_transfer_jobs
    submitted, \* calls that wait in the executor's queue
    worker,    \* worker[w]: what a thread of the executor is doing
    verifier,  \* a call of verify_model that read and has not written yet
    remote,    \* remote[f]: the snapshot's file f at the remote
    manifest,  \* transfer-manifest.json at the remote
    current,   \* current[j]: files whose entry is still as j's manifest has it
    orphan,    \* orphan[j]: the files that are copied by an rclone of j for
               \* which nobody waits
    foreign, faults,
    overlapped, \* history: two calls of download or verify ran side by side
    whole       \* history: whole[j]: the remote was whole while j ran

vars == <<settings, kinds, up, drive, model, dest, backup, job, submitted,
          worker, verifier, remote, manifest, current, orphan, foreign, faults,
          overlapped, whole>>
fixed == <<settings, kinds>>
modelVars == <<drive, model, dest, backup, verifier, overlapped>>
remoteVars == <<remote, manifest, current, foreign>>

ModelStatus == {"remote_only", "downloading", "available",
                "verification_failed", "failed", "missing_remote",
                "missing_local"}
\* "listed" is the version of the remote_* columns, "sha" the content whose
\* digest is in local_sha256; local_path and local_sha256 are NULL together.
Model == [status : ModelStatus, listed : Versions, sha : Content]

JobStatus == {"none", "pending", "running", "completed", "failed", "canceled",
              "stale"}
\* "pid" says that the column pid is set.
Row == [kind : Kind, status : JobStatus, cancel : BOOLEAN,
        pid : BOOLEAN]
NoRow == [kind |-> "download", status |-> "none", cancel |-> FALSE,
          pid |-> FALSE]
\* A call in the queue, with the remote version that its plan token stands for,
\* NoFile when no token is given.
Submission == [job : Jobs, token : Content]

DownloadLabel == {"get", "fetch", "fetching", "compare", "keep", "replace",
                  "commit", "undo", "restore", "drop", "loseModel"}
UploadLabel == {"send", "sending", "verify", "entries", "provisional",
                "check", "final", "validate"}
Label == DownloadLabel \cup UploadLabel
             \cup {"begin", "complete", "fail"}

\* "entry" is first the plan token, then the version that _refresh_model found,
\* NoFile if nothing is to be loaded; "source" is the one rclone began to read,
\* "part" the .part file; "token" is the cancel token; "changed"
\* says that RemoteModelChangedError was raised; "todo" and "plan" are for
\* the snapshot's files, "level" is the verification level of the manifest.
Level == {"not_verified", "full_checksum", "remote_hash_and_size",
          "size_and_manifest", "existence_only"}
Worker == [pc : Label \cup {"idle"}, job : Nat, token : BOOLEAN,
           entry : Content, source : Content, part : Content,
           attempt : 0..Attempts, preserve : BOOLEAN, changed : BOOLEAN,
           plan : [Files -> {"copy", "skip"}], todo : SUBSET Files,
           file : SUBSET Files, level : Level]
IdleWorker == [pc |-> "idle", job |-> 0, token |-> FALSE,
               entry |-> NoFile, source |-> NoFile, part |-> NoFile,
               attempt |-> 0, preserve |-> FALSE, changed |-> FALSE,
               plan |-> [f \in Files |-> "copy"], todo |-> {},
               file |-> {}, level |-> "not_verified"]
Verifier == [on : BOOLEAN, sha : Content, ok : BOOLEAN]
NoVerifier == [on |-> FALSE, sha |-> NoFile, ok |-> FALSE]

Manifest == [job : 0..MaxJobs, level : Level]
NoManifest == [job |-> 0, level |-> "not_verified"]

TypeOK ==
    /\ settings \in Settings
    /\ kinds \in Mixes
    /\ up \in BOOLEAN
    /\ drive \in Versions \cup {NoFile}
    /\ model \in Model
    /\ dest \in Content
    /\ backup \in [Jobs -> Content]
    /\ job \in [Jobs -> Row]
    /\ submitted \in SUBSET Submission
    /\ worker \in [Workers -> Worker]
    /\ \A w \in Workers : worker[w].pc # "idle" => worker[w].job \in Jobs
    /\ verifier \in Verifier
    /\ remote \in [Files -> {"absent", "good", "other"}]
    /\ manifest \in Manifest
    /\ current \in [Jobs -> SUBSET Files]
    /\ orphan \in [Jobs -> SUBSET Files]
    /\ foreign \in 0..MaxForeign
    /\ faults \in 0..MaxFaults
    /\ overlapped \in BOOLEAN
    /\ whole \in [Jobs -> BOOLEAN]

Init ==
    /\ settings \in Settings
    /\ kinds \in Mixes
    /\ up = TRUE
    /\ drive = 1
    /\ model = [status |-> "remote_only", listed |-> 1, sha |-> NoFile]
    /\ dest = NoFile
    /\ backup = [j \in Jobs |-> NoFile]
    /\ job = [j \in Jobs |-> NoRow]
    /\ submitted = {}
    /\ worker = [w \in Workers |-> IdleWorker]
    /\ verifier = NoVerifier
    /\ remote = [f \in Files |-> "absent"]
    /\ manifest = NoManifest
    /\ current = [j \in Jobs |-> {}]
    /\ orphan = [j \in Jobs |-> {}]
    /\ foreign = 0
    /\ faults = 0
    /\ overlapped = FALSE
    /\ whole = [j \in Jobs |-> FALSE]

-----------------------------------------------------------------------------
(* helpers *)

Fault == faults < MaxFaults /\ faults' = faults + 1
At(w, label) == up /\ worker[w].pc = label
Go(w, label) == worker' = [worker EXCEPT ![w].pc = label]
Idle(w) == worker' = [worker EXCEPT ![w] = IdleWorker]

\* A download that has read its model, or a verification.
UsesModel(w) ==
    worker[w].pc # "idle" /\ job[worker[w].job].kind = "download"
ModelInUse == verifier.on \/ \E w \in Workers : UsesModel(w)

\* _saved_local_matches
SavedLocalMatches == dest # NoFile /\ model.sha = dest

\* A file without a remote hash is told from the remote's only by its size.
LooksLike(content, entry, sameSize) ==
    content = entry \/ (~settings.hash /\ sameSize)

\* _local_matches: the row is of this remote version, and the file is the one
\* of the row or, with a remote hash, the remote's.
LocalMatches(entry, sameSize) ==
    /\ dest # NoFile
    /\ model.listed = entry
    /\ IF model.sha # NoFile THEN model.sha = dest ELSE settings.hash
    /\ LooksLike(dest, entry, sameSize)

\* The job of w ends; _finish_job writes by primary key.
Finish(w, status) ==
    job' = [job EXCEPT ![worker[w].job].status = status,
                       ![worker[w].job].pid = FALSE]

\* CANCELED when the token is set, else FAILED
EndStatus(w) == IF worker[w].token THEN "canceled" ELSE "failed"

\* rclone and its callback: the pid is kept only in a row that is RUNNING
SetPid(w, pid) ==
    job' = [job EXCEPT ![worker[w].job].pid =
                IF job[worker[w].job].status = "running" THEN pid ELSE @]

\* _run_streaming terminates an rclone whose token is set.
Terminated(w) == worker[w].token

AllGood(files) == \A f \in Files : files[f] = "good"

\* History: the remote held the whole snapshot at a time while j was running.
WatchRemote ==
    whole' = [j \in Jobs |-> /\ job'[j].kind = "upload"
                             /\ job'[j].status = "running"
                             /\ whole[j] \/ AllGood(remote')]

-----------------------------------------------------------------------------
(* calls of the UI, and the others who use the remote *)

\* create_job: the first free row is a PENDING job, which the executor gets.
Submitted(kind, token) ==
    \E j \in Jobs :
        /\ job[j].status = "none"
        /\ \A k \in 1..(j - 1) : job[k].status # "none"
        /\ job' = [job EXCEPT ![j] = [NoRow EXCEPT !.kind = kind,
                                                   !.status = "pending"]]
        /\ submitted' = submitted \cup {[job |-> j, token |-> token]}

\* _remote_entries fails in a folder that does not exist.
RemoteListed == settings.folder

\* _remote_snapshot_content finds a manifest.
HasManifest == manifest.job # 0

\* _manifest_metadata_matches, with the manifest at the remote
MetadataMatches(f) == HasManifest /\ f \in current[manifest.job]

\* A file is there, and it is the snapshot's as far as the settings can tell.
Identical(f) ==
    /\ remote[f] # "absent"
    /\ IF settings.hash
       THEN remote[f] = "good"
       ELSE /\ settings.fallback = "size_and_manifest"
            /\ MetadataMatches(f)

Conflict(f) ==
    /\ remote[f] # "absent"
    /\ \/ settings.overwrite = "fail_if_exists"
       \/ /\ ~Identical(f)
          /\ settings.overwrite # "overwrite_changed"

\* dry_run_snapshot_upload without errors
UploadPlanned == RemoteListed /\ \A f \in Files : ~Conflict(f)
UploadPlan == [f \in Files |-> IF Identical(f) THEN "skip" ELSE "copy"]

\* start_model_download, with the token of a dry run of any version or none
StartDownload ==
    /\ up /\ "download" \in kinds /\ drive # NoFile
    /\ \E token \in {drive, NoFile} : Submitted("download", token)
    /\ UNCHANGED <<fixed, up, modelVars, worker, remoteVars, orphan, faults>>

StartUpload ==
    /\ up /\ "upload" \in kinds /\ UploadPlanned
    /\ Submitted("upload", NoFile)
    /\ UNCHANGED <<fixed, up, modelVars, worker, remoteVars, orphan, faults>>

\* cancel: the flag of the row, and the token if a worker has registered one;
\* nobody reads the flag of a job that has ended
Cancel(j) ==
    /\ up /\ job[j].status \in {"pending", "running"} /\ ~job[j].cancel
    /\ job' = [job EXCEPT ![j].cancel = TRUE]
    /\ worker' = [w \in Workers |->
                     IF /\ worker[w].pc \notin {"idle", "begin"}
                        /\ worker[w].job = j
                     THEN [worker[w] EXCEPT !.token = TRUE] ELSE worker[w]]
    /\ UNCHANGED <<fixed, up, modelVars, submitted, remoteVars, orphan,
                   faults>>

\* upsert_model, when the remote models are listed
ListModels ==
    /\ up /\ "download" \in kinds /\ drive # NoFile
    /\ model' = [model EXCEPT !.listed = drive,
                     !.status = IF model.sha # NoFile /\ dest = NoFile
                                THEN "missing_local" ELSE @]
    /\ UNCHANGED <<fixed, up, drive, dest, backup, job, submitted, worker,
                   verifier, remoteVars, orphan, faults, overlapped>>

\* verify_model reads the remote and the file, and writes the row afterwards.
\* Without a local path or a file it has its answer, and a remote model that is
\* gone is noted at once.
VerifyRead ==
    /\ up /\ "download" \in kinds /\ ~verifier.on
    /\ IF model.sha = NoFile \/ dest = NoFile
       THEN /\ model' = [model EXCEPT !.status = "verification_failed"]
            /\ UNCHANGED <<verifier, overlapped>>
       ELSE /\ \E sameSize \in BOOLEAN :
                  verifier' =
                      [on |-> TRUE, sha |-> dest,
                       ok |-> /\ drive # NoFile
                              /\ LooksLike(dest, drive, sameSize)]
            /\ overlapped' = (overlapped \/ ModelInUse)
            /\ model' = IF drive = NoFile
                        THEN [model EXCEPT !.status = "missing_remote"] ELSE model
    /\ UNCHANGED <<fixed, up, drive, dest, backup, job, submitted, worker,
                   remoteVars, orphan, faults>>

VerifyWrite ==
    /\ up /\ verifier.on
    /\ model' = [model EXCEPT !.sha = verifier.sha,
                     !.status = IF verifier.ok THEN "available"
                                ELSE "verification_failed"]
    /\ verifier' = NoVerifier
    /\ UNCHANGED <<fixed, up, drive, dest, backup, job, submitted, worker,
                   remoteVars, orphan, faults, overlapped>>

\* Someone replaces the remote model, or deletes it.
ModelChanges ==
    /\ "download" \in kinds
    /\ drive # NoFile
    /\ drive' \in {drive + 1, NoFile}
    /\ UNCHANGED <<fixed, up, model, dest, backup, job, submitted, worker,
                   verifier, remoteVars, orphan, faults, overlapped>>

\* The entry of f changes: no manifest has it any more.
Changed(f, content) ==
    /\ remote' = [remote EXCEPT ![f] = content]
    /\ current' = [j \in Jobs |-> current[j] \ {f}]

\* Someone changes or deletes a file of the snapshot at the remote.
SnapshotChanges(f) ==
    /\ "upload" \in kinds
    /\ foreign < MaxForeign /\ foreign' = foreign + 1
    /\ \E content \in {"absent", "other"} :
           remote[f] # content /\ Changed(f, content)
    /\ UNCHANGED <<fixed, up, modelVars, job, submitted, worker, manifest,
                   orphan, faults>>

-----------------------------------------------------------------------------
(* the executor, and what both kinds of job have in common *)

Take(w, call) ==
    /\ up /\ worker[w].pc = "idle" /\ call \in submitted
    /\ submitted' = submitted \ {call}
    /\ worker' = [worker EXCEPT ![w] =
                     [IdleWorker EXCEPT !.pc = "begin", !.job = call.job,
                                        !.entry = call.token]]
    /\ overlapped' = \/ overlapped
                      \/ (job[call.job].kind = "download" /\ ModelInUse)
    /\ UNCHANGED <<fixed, up, drive, model, dest, backup, verifier, job,
                   remoteVars, orphan, faults>>

\* _set_job_running
SetRunning(w, label) ==
    /\ At(w, label)
    /\ job' = [job EXCEPT ![worker[w].job].status = "running",
                          ![worker[w].job].pid = FALSE]

Complete(w) ==
    /\ At(w, "complete")
    /\ Finish(w, "completed")
    /\ Idle(w)
    /\ UNCHANGED <<fixed, up, modelVars, submitted, remoteVars, orphan,
                   faults>>

Fail(w) ==
    /\ At(w, "fail")
    /\ Finish(w, EndStatus(w))
    /\ Idle(w)
    /\ UNCHANGED <<fixed, up, modelVars, submitted, remoteVars, orphan,
                   faults>>

\* Where an exception at a label of w leads: the commit of a download restores
\* the file first, and what the handlers raise ends the call.
Handler(w) ==
    CASE \/ worker[w].pc \in {"begin", "loseModel", "fail"}
         \/ /\ worker[w].pc = "complete" /\ worker[w].entry = NoFile
            /\ job[worker[w].job].kind = "download" -> "idle"
      [] worker[w].pc \in {"replace", "commit"} -> "undo"
      [] job[worker[w].job].kind = "upload" -> "fail"
      [] OTHER -> "loseModel"

\* What the rclone of w copies to the remote, if there is one.
Sending(w) == IF worker[w].pc = "sending" THEN worker[w].file ELSE {}

\* A locked database or a failing file operation, at any label.  An rclone whose
\* pid could not be stored runs on, and nobody waits for it.
Raise(w) ==
    /\ up /\ worker[w].pc # "idle" /\ Fault
    /\ IF Handler(w) = "idle" THEN Idle(w) ELSE Go(w, Handler(w))
    /\ orphan' = [orphan EXCEPT ![worker[w].job] = @ \cup Sending(w)]
    /\ IF worker[w].pc \in {"fetching", "sending"} THEN SetPid(w, FALSE)
       ELSE UNCHANGED job
    /\ UNCHANGED <<fixed, up, modelVars, submitted, remoteVars>>

-----------------------------------------------------------------------------
(* download_model *)

\* The token was made of another version of the remote model.
TokenStale(w) == worker[w].entry \notin {NoFile, drive}

\* What the row and the remote are when the worker begins: the model may be
\* gone, the token may be stale, the local file may do, or it is loaded.  The
\* job whose model is gone or whose token is stale stays PENDING.
BeginDownload(w) ==
    LET stale == TokenStale(w) IN
    \E sameSize \in BOOLEAN :
    /\ At(w, "begin") /\ job[worker[w].job].kind = "download"
    /\ \/ /\ drive = NoFile
          /\ model' = [model EXCEPT !.status = "missing_remote"]
          /\ Idle(w)
       \/ /\ drive # NoFile /\ stale
          /\ Idle(w) /\ UNCHANGED model
       \/ /\ drive # NoFile /\ ~stale /\ LocalMatches(drive, sameSize)
          /\ model' = [model EXCEPT !.status = "available", !.sha = dest]
          /\ worker' = [worker EXCEPT ![w] = [@ EXCEPT !.pc = "complete",
                                                       !.entry = NoFile]]
       \/ /\ drive # NoFile /\ ~stale /\ ~LocalMatches(drive, sameSize)
          /\ model' = IF SavedLocalMatches THEN model
                      ELSE [model EXCEPT !.status = "downloading"]
          /\ worker' = [worker EXCEPT ![w] =
                           [@ EXCEPT !.pc = "get", !.entry = drive,
                                     !.preserve = SavedLocalMatches]]
    /\ UNCHANGED <<fixed, up, drive, dest, backup, verifier, overlapped, job,
                   submitted, remoteVars, orphan, faults>>

RunDownload(w) ==
    /\ SetRunning(w, "get")
    /\ Go(w, "fetch")
    /\ UNCHANGED <<fixed, up, modelVars, submitted, remoteVars, orphan,
                   faults>>

\* An attempt starts unless the token is set.
Fetch(w) ==
    /\ At(w, "fetch")
    /\ IF worker[w].token
       THEN Go(w, "loseModel") /\ UNCHANGED job
       ELSE /\ worker' = [worker EXCEPT ![w] =
                             [@ EXCEPT !.pc = "fetching", !.source = drive,
                                       !.part = NoFile,
                                       !.attempt = worker[w].attempt + 1]]
            /\ SetPid(w, TRUE)
    /\ UNCHANGED <<fixed, up, modelVars, submitted, remoteVars, orphan,
                   faults>>

\* An error of a kind that may pass is tried again.
Retry(w) == worker[w].attempt < Attempts

\* The copy ends.  What was replaced while it was read is torn, and has the
\* size of the entry or not; the hash of the entry tells it if there is one.
Fetched(w) ==
    LET part == IF drive = worker[w].source THEN drive ELSE Torn
        failed == \/ worker[w].source = NoFile
                  \/ Terminated(w)
    IN
    /\ At(w, "fetching")
    /\ SetPid(w, FALSE)
    /\ \/ /\ ~failed
          /\ settings.hash => part = worker[w].entry
          /\ worker' = [worker EXCEPT ![w] =
                           [@ EXCEPT !.pc = "compare", !.part = part,
                                     !.source = NoFile, !.attempt = 0]]
       \/ \E again \in BOOLEAN :
              Go(w, IF again /\ Retry(w) THEN "fetch" ELSE "loseModel")
    /\ UNCHANGED <<fixed, up, modelVars, submitted, remoteVars, orphan,
                   faults>>

\* mutant: the part is taken without a second look at the remote
CompareOnce(w) ==
    /\ At(w, "compare")
    /\ Go(w, IF dest # NoFile THEN "keep" ELSE "replace")
    /\ UNCHANGED <<fixed, up, modelVars, job, submitted, remoteVars, orphan,
                   faults>>

\* _remote_signature of the entry before and after the copy
Compare(w) ==
    /\ At(w, "compare")
    /\ IF drive = worker[w].entry
       THEN Go(w, IF dest # NoFile THEN "keep" ELSE "replace")
       ELSE worker' = [worker EXCEPT ![w] =
                          [@ EXCEPT !.pc = "loseModel", !.changed = TRUE]]
    /\ UNCHANGED <<fixed, up, modelVars, job, submitted, remoteVars, orphan,
                   faults>>

\* mutant: the old file is removed instead of renamed
KeepNothing(w) ==
    /\ At(w, "keep")
    /\ dest' = NoFile
    /\ Go(w, "replace")
    /\ UNCHANGED <<fixed, up, drive, model, backup, verifier, overlapped, job,
                   submitted, remoteVars, orphan, faults>>

KeepBackup(w) ==
    /\ At(w, "keep")
    /\ IF dest = NoFile
       THEN Go(w, "loseModel") /\ UNCHANGED <<dest, backup>>
       ELSE /\ backup' = [backup EXCEPT ![worker[w].job] = dest]
            /\ dest' = NoFile
            /\ Go(w, "replace")
    /\ UNCHANGED <<fixed, up, drive, model, verifier, overlapped, job,
                   submitted, remoteVars, orphan, faults>>

Replace(w) ==
    /\ At(w, "replace")
    /\ dest' = worker[w].part
    /\ Go(w, "commit")
    /\ UNCHANGED <<fixed, up, drive, model, backup, verifier, overlapped, job,
                   submitted, remoteVars, orphan, faults>>

\* destination.stat fails if another download moved the file away
CommitModel(w) ==
    /\ At(w, "commit")
    /\ IF dest = NoFile
       THEN Go(w, "undo") /\ UNCHANGED model
       ELSE /\ model' = [model EXCEPT !.status = "available",
                                      !.sha = worker[w].part]
            /\ Go(w, "drop")
    /\ UNCHANGED <<fixed, up, drive, dest, backup, verifier, overlapped, job,
                   submitted, remoteVars, orphan, faults>>

\* The commit failed: the new file goes, the old one comes back.
Undo(w) ==
    /\ At(w, "undo")
    /\ dest' = NoFile
    /\ Go(w, "restore")
    /\ UNCHANGED <<fixed, up, drive, model, backup, verifier, overlapped, job,
                   submitted, remoteVars, orphan, faults>>

Restore(w) ==
    LET j == worker[w].job IN
    /\ At(w, "restore")
    /\ IF backup[j] # NoFile
       THEN dest' = backup[j] /\ backup' = [backup EXCEPT ![j] = NoFile]
       ELSE UNCHANGED <<dest, backup>>
    /\ Go(w, "loseModel")
    /\ UNCHANGED <<fixed, up, drive, model, verifier, overlapped, job,
                   submitted, remoteVars, orphan, faults>>

DropBackup(w) ==
    /\ At(w, "drop")
    /\ backup' = [backup EXCEPT ![worker[w].job] = NoFile]
    /\ Go(w, "complete")
    /\ UNCHANGED <<fixed, up, drive, model, dest, verifier, overlapped, job,
                   submitted, remoteVars, orphan, faults>>

\* _finish_model_failure: the row of the model
LoseModel(w) ==
    /\ At(w, "loseModel")
    /\ model' = [model EXCEPT !.status =
                    IF worker[w].changed THEN "verification_failed"
                    ELSE IF worker[w].preserve THEN "available" ELSE "failed"]
    /\ Go(w, "fail")
    /\ UNCHANGED <<fixed, up, drive, dest, backup, verifier, overlapped, job,
                   submitted, remoteVars, orphan, faults>>

-----------------------------------------------------------------------------
(* upload_snapshot *)

\* The plan is made again; with a conflict the job stays PENDING.
BeginUpload(w) ==
    /\ At(w, "begin") /\ job[worker[w].job].kind = "upload"
    /\ IF UploadPlanned
       THEN /\ SetRunning(w, "begin")
            /\ worker' = [worker EXCEPT ![w] =
                             [@ EXCEPT !.pc = "send", !.plan = UploadPlan,
                                       !.todo = Files]]
       ELSE Idle(w) /\ UNCHANGED job
    /\ UNCHANGED <<fixed, up, modelVars, submitted, remoteVars, orphan,
                   faults>>

\* The plan of f is of no use any more.
CopyLater(w, f) == [worker[w].plan EXCEPT ![f] = "copy"]

\* The next file; _raise_if_canceled reads the row.
Send(w, f) ==
    LET j == worker[w].job
        canceled == worker[w].token \/ job[j].cancel
    IN
    /\ At(w, "send") /\ f \in worker[w].todo
    /\ IF canceled
       THEN /\ worker' = [worker EXCEPT ![w] = [@ EXCEPT !.pc = "fail",
                                                         !.token = TRUE]]
            /\ UNCHANGED job
       ELSE IF worker[w].plan[f] = "skip"
            THEN /\ worker' = [worker EXCEPT ![w] =
                                  [@ EXCEPT !.todo = worker[w].todo \ {f},
                                            !.plan = CopyLater(w, f)]]
                 /\ UNCHANGED job
            ELSE /\ worker' = [worker EXCEPT ![w] =
                                  [@ EXCEPT !.pc = "sending", !.file = {f}]]
                 /\ SetPid(w, TRUE)
    /\ UNCHANGED <<fixed, up, modelVars, submitted, remoteVars, orphan,
                   faults>>

\* rclone ends, with the file copied or not; a process that fails or is
\* terminated may have copied it all the same.
Sent(w, f) ==
    /\ At(w, "sending") /\ f \in worker[w].file
    /\ SetPid(w, FALSE)
    /\ \E copied \in BOOLEAN, zero \in BOOLEAN :
           /\ zero => copied /\ ~Terminated(w)
           /\ IF copied
              THEN Changed(f, "good")
              ELSE UNCHANGED <<remote, current>>
           /\ worker' = [worker EXCEPT ![w] =
                            [@ EXCEPT !.pc = IF zero THEN "send" ELSE "fail",
                                      !.todo = worker[w].todo \ {f},
                                      !.file = {}, !.plan = CopyLater(w, f)]]
    /\ UNCHANGED <<fixed, up, modelVars, submitted, manifest, foreign, orphan,
                   faults>>

AllSent(w) ==
    /\ At(w, "send") /\ worker[w].todo = {}
    /\ Go(w, IF settings.verify = "size_and_manifest" THEN "entries"
             ELSE "verify")
    /\ UNCHANGED <<fixed, up, modelVars, job, submitted, remoteVars, orphan,
                   faults>>

\* mutant: rclone's exit code is taken for the verification
VerifiedByExitCode(f) == TRUE

\* _remote_verification_statuses accepts f.
Verified(f) ==
    /\ remote[f] # "absent"
    /\ CASE settings.verify = "existence_only" -> TRUE
         [] settings.verify = "size_and_manifest" -> MetadataMatches(f)
         [] settings.hash -> remote[f] = "good"
         [] OTHER -> \/ settings.fallback = "existence_only"
                     \/ /\ settings.fallback = "size_and_manifest"
                        /\ MetadataMatches(f)

\* ... and this is the level it records.
VerifiedLevel ==
    IF \/ settings.verify \in {"existence_only", "size_and_manifest"}
       \/ settings.hash
    THEN settings.verify ELSE settings.fallback

Verify(w) ==
    /\ At(w, "verify")
    /\ IF \A f \in Files : Verified(f)
       THEN worker' = [worker EXCEPT ![w] = [@ EXCEPT !.pc = "entries",
                                                      !.level = VerifiedLevel]]
       ELSE Go(w, "fail")
    /\ UNCHANGED <<fixed, up, modelVars, job, submitted, remoteVars, orphan,
                   faults>>

\* The entries of the remote go into the items of the manifest.
RecordEntries(w) ==
    /\ At(w, "entries")
    /\ current' = [current EXCEPT ![worker[w].job] =
                      {f \in Files : remote[f] # "absent"}]
    /\ Go(w, "provisional")
    /\ UNCHANGED <<fixed, up, modelVars, job, submitted, remote, manifest,
                   foreign, orphan, faults>>

\* The manifest is copied to the remote, or fails to be.
CopyManifest(w, label, next) ==
    /\ At(w, label)
    /\ \/ /\ ~Terminated(w)
          /\ manifest' = [job |-> worker[w].job, level |-> worker[w].level]
          /\ Go(w, next)
       \/ /\ manifest' \in {manifest,
                            [job |-> worker[w].job, level |-> worker[w].level]}
          /\ Go(w, "fail")
    /\ UNCHANGED <<fixed, up, modelVars, job, submitted, remote, current,
                   foreign, orphan, faults>>

SendProvisional(w) == CopyManifest(w, "provisional", "check")

\* _verify_remote_snapshot; under size_and_manifest the items get their status
\* only now.
Check(w) ==
    LET limited == settings.verify = "size_and_manifest" IN
    /\ At(w, "check")
    /\ IF HasManifest /\ \A f \in Files : Verified(f)
       THEN worker' = [worker EXCEPT ![w] =
                          [@ EXCEPT
                             !.pc = IF limited THEN "final" ELSE "validate",
                             !.level = IF limited THEN settings.verify
                                       ELSE worker[w].level]]
       ELSE Go(w, "fail")
    /\ UNCHANGED <<fixed, up, modelVars, job, submitted, remoteVars, orphan,
                   faults>>

SendFinal(w) == CopyManifest(w, "final", "validate")

\* _validate_final_remote_manifest
ManifestIsFinal(w) ==
    manifest = [job |-> worker[w].job, level |-> worker[w].level]

Validate(w) ==
    /\ At(w, "validate")
    /\ Go(w, IF ManifestIsFinal(w) THEN "complete" ELSE "fail")
    /\ UNCHANGED <<fixed, up, modelVars, job, submitted, remoteVars, orphan,
                   faults>>

-----------------------------------------------------------------------------
(* crash and restart *)

\* An rclone that copies to the remote goes on without its parent.
Crash ==
    /\ up /\ Fault
    /\ up' = FALSE
    /\ orphan' = [j \in Jobs |->
                     orphan[j] \cup UNION {Sending(w) : w \in
                         {v \in Workers : worker[v].job = j}}]
    /\ worker' = [w \in Workers |-> IdleWorker]
    /\ submitted' = {}
    /\ verifier' = NoVerifier
    /\ UNCHANGED <<fixed, drive, model, dest, backup, overlapped, job,
                   remoteVars>>

OrphanEnds(j, f) ==
    /\ f \in orphan[j]
    /\ orphan' = [orphan EXCEPT ![j] = @ \ {f}]
    /\ \/ Changed(f, "good")
       \/ UNCHANGED <<remote, current>>
    /\ UNCHANGED <<fixed, up, modelVars, job, submitted, worker, manifest,
                   foreign, faults>>

\* recover_stale_jobs spares a job whose rclone is alive or whose heartbeat is
\* young.
Recoverable(j) ==
    job[j].status = "running" /\ ~(job[j].pid /\ orphan[j] # {})

Restart ==
    /\ ~up
    /\ up' = TRUE
    /\ \E old \in SUBSET {j \in Jobs : Recoverable(j)} :
           job' = [j \in Jobs |->
                      IF j \in old THEN [job[j] EXCEPT !.status = "stale",
                                                       !.pid = FALSE]
                      ELSE job[j]]
    /\ UNCHANGED <<fixed, modelVars, submitted, worker, remoteVars, orphan,
                   faults>>

-----------------------------------------------------------------------------

DownloadStep(w) ==
    \/ BeginDownload(w) \/ RunDownload(w) \/ Fetch(w) \/ Fetched(w)
    \/ Compare(w) \/ KeepBackup(w) \/ Replace(w) \/ CommitModel(w) \/ Undo(w)
    \/ Restore(w) \/ DropBackup(w) \/ LoseModel(w)
UploadStep(w) ==
    \/ BeginUpload(w) \/ AllSent(w) \/ Verify(w) \/ RecordEntries(w)
    \/ SendProvisional(w) \/ Check(w) \/ SendFinal(w) \/ Validate(w)
    \/ \E f \in Files : Send(w, f) \/ Sent(w, f)
WorkerStep(w) ==
    \/ DownloadStep(w) \/ UploadStep(w) \/ Complete(w) \/ Fail(w)
    \/ \E call \in submitted : Take(w, call)
Call ==
    \/ StartDownload \/ StartUpload \/ ListModels \/ VerifyRead \/ VerifyWrite
    \/ \E j \in Jobs : Cancel(j)
Environment ==
    \/ ModelChanges \/ Crash \/ Restart
    \/ \E f \in Files : SnapshotChanges(f)
    \/ \E j \in Jobs, f \in Files : OrphanEnds(j, f)
    \/ \E w \in Workers : Raise(w)

Next ==
    /\ \/ Call \/ Environment
       \/ \E w \in Workers : WorkerStep(w)
    /\ WatchRemote

Spec == Init /\ [][Next]_vars

-----------------------------------------------------------------------------
(* properties *)

\* What stands at the path of the model is one version of the remote model, as
\* it was verified: never two versions mixed by a copy that the remote changed
\* under.  (_copy_model_with_retry: the .part file, _remote_signature)
DestinationWhole ==
    /\ dest # Torn /\ model.sha # Torn
    /\ \A j \in Jobs : backup[j] # Torn

\* As long as the calls on the model come one after another, the content that
\* an AVAILABLE row names is on the disk, at the path or, after a crash in the
\* middle of a replacement, in the backup beside it.  (the two renames, the
\* commit and its undoing in _copy_model_with_retry)
RowsCopyKept ==
    ~overlapped /\ model.status = "available" =>
        \/ dest = model.sha
        \/ \E j \in Jobs : backup[j] = model.sha

\* An upload that compares hashes ends COMPLETED only if the remote held all
\* files of the snapshot at one moment while it ran.
CompletedWasWhole ==
    [][\A j \in Jobs :
          /\ job[j].kind = "upload" /\ settings.hash
          /\ settings.verify \in {"full_checksum", "remote_hash_and_size"}
          /\ job[j].status # "completed" /\ job'[j].status = "completed"
          => whole[j]]_vars

=============================================================================
