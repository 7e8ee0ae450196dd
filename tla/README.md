# Verification of runpod-lora-studio

TLA+ models of the parts of runpod-lora-studio where a job outlives the thread
that started it: rows of a SQLite database that daemon threads, a periodic
scheduler, callbacks of the Gradio UI and a restarted process read and write,
and files that must agree with those rows. Every module translates the Python
source; TLC checks small instances and TLAPS proves the properties that hold for
every value of the constants.

## 1. The system

One process (`app.py`) builds the services, runs the startup recovery of each,
starts the cleanup scheduler of the acquisition service and serves the UI. All
services share one SQLite file through SQLAlchemy sessions with
`autoflush=False` (`persistence/database.py`). Three idioms recur and carry the
difficulty:

* **Claim.** A worker takes a row with one conditional UPDATE (status, no owner)
  that stores `worker_id`, `claim_token` and an incremented generation; later
  writes repeat these columns in their WHERE clause. A thread that stalls keeps
  running after recovery gave its row to another: it must find out.
* **Read, then flush.** Other operations load a row, assign attributes and
  commit. SQLite starts the write transaction at the flush, and SQLAlchemy writes
  only the columns that changed, in an UPDATE by primary key: another transaction
  may come in between.
* **File, then row.** Artifacts are written to a temporary name, fsynced, renamed
  and only then named by the row; the process may stop between any two steps.

### Components

| component | state | operations | what is hard | what makes it correct |
|---|---|---|---|---|
| Image acquisition jobs (`acquisition_download_service.py`) | job row (status, claim, cancellation, manifest repair state and target), item rows, attempts, `.part` files, manifest files | start, run, cancel, resume, stale recovery, part cleanup, manifest repair, orphan reconciliation, scheduler | claims and takeovers, cancel and resume racing workers, crash at any step, repair path, zombie threads touching files | one claim holder; a cancelled job ends CANCELED; manifest, row and items agree; a repair is neither lost nor requeued; no live artifact is deleted; every job settles |
| Image search (`acquisition_service.py`, `external/image_sources.py`) | search rows with claim and cursors, candidates, cursor checkpoints | start, run, get, cancel a search | page committed twice or out of order, stale claim, sources that change or go round in circles | committed pages form one chain, counters match candidates; a search ends |
| Acquisition plans (`acquisition_service.py`) | posts shared by all searches, plans, plan items, reservations | preview, confirm | two confirmations of overlapping selections, posts refreshed in between | a post is planned once, a preview confirmed once; a confirmed plan can be started |
| Image download and ingestion (`external/image_download.py`, `image_ingestion_service.py`) | `.part` file with range validators, image assets | download with range resume, validate, import | resume of a changed file, import committed before the item is | bytes of one version only; import at most once |
| Storage transfers (`storage_service.py`, `storage_repository.py`, `external/rclone.py`) | transfer jobs and items, cached models, remote files | model download, snapshot and artifact upload, cancel, stale recovery | remote changes between plan and copy, retry after partial copy, cancel racing finish | a VERIFIED file has the planned content; manifest last |
| Training jobs (`training_service.py`, `training_process.py`, repositories) | job row, active key, child process | create, start, run, monitor, cancel, stale reconciliation | restart while the process lives, cancel racing exit, one GPU | one active job; the outcome states what the process did |
| Training progress (`training_progress_service.py`, `training_artifact.py`, parser) | log cursors, unfinished lines, shown step, metric points, artifact row | refresh, rescan | chunks that end within a line, logs replaced between reads, overlapping refreshes, a file that is saved while it is hashed | no line is skipped or joined with another; the step shown is one the trainer reached; a VALID artifact is a finished file |
| Training resume (`training_resume_service.py`) | parent and child jobs, state artifacts | preview, create, prepare runtime | parent changes between preview and copy | the child starts from the validated state |
| Completion export (`training_completion_service.py`, `completion_filesystem.py`) | export row with claim, export directory, remote marker | preview, start, retry, cancel, run, recover, reconcile | crash between local build, upload, marker and row | COMPLETED only if the remote marker is verified |
| Dataset snapshots (`dataset_snapshot_service.py`) | snapshot row and items, snapshot directory | preview, create, cancel, recover, revalidate | crash between rename and database finalisation | a COMPLETED snapshot matches its files |
| Tagging (`tagging_service.py`, `tagging_repository.py`, `caption_service.py`) | runs, per-image results, captions, tag rules | start, cancel, recover runs; preview, apply, edit, restore captions | errors at every write of a run's end, starts at the same time; two windows edit one caption | a run that is done has a result for each image; a caption's history is a chain |
| Similarity detection (`similarity_detection_service.py`) | runs, groups, reviews | one synchronous call computes hashes and replaces the groups in one transaction; changes of reviews and representatives | little | groups are those of the hashes |
| Recommendation, performance, calibration, memory, projects, settings, environment diagnostics | rows written once by one call | pure computations with a save | little concurrency | arithmetic bounds |
| UI, migrations, scripts | none of their own | presentation, schema | - | - |

### How they interact

The UI calls services and polls their rows. An image search fills candidates, a
confirmed plan reserves posts, an acquisition job downloads a plan's items and
imports them as image assets; snapshots freeze accepted images, training jobs use
a snapshot and a managed model, completion exports upload a finished job through
the storage service. `app.py:117-132` orders the startup recovery.

## 2. Modules and plan

| part | modules | state of the work |
|---|---|---|
| acquisition job | `AcquisitionJob`, `MCAcquisitionJob`, `AcquisitionJobProofs`; `JobLease` is what its row promises | checked; eight theorems |
| manifests of a job | `ManifestStore`, `MCManifestStore`, `ManifestSnapshotProofs` | checked; six theorems |
| one item and its `.part` file | `ItemDownload`, `MCItemDownload`, `PlanItemProofs` | checked; four theorems |
| training jobs of a project | `TrainingJob`, `MCTrainingJob`, `TrainingProofs` | checked; three theorems |
| image search | `ImageSearch`, `MCImageSearch`, `ImageSearchProofs` | checked; four theorems |
| plans | `AcquisitionPlan`, `MCAcquisitionPlan`, `PlanItemProofs` | checked; four theorems |
| transfers of a model and of a snapshot | `StorageTransfer`, `MCStorageTransfer`, `StorageTransferProofs` | checked; four theorems |
| completion export with its artifact transfer | `CompletionExport`, `MCCompletionExport`, `CompletionExportProofs` | checked; four theorems |
| dataset snapshots | `DatasetSnapshot`, `MCDatasetSnapshot`, `ManifestSnapshotProofs` | checked; four theorems |
| tagging runs and captions | `Tagging`, `MCTagging`, `TaggingProofs` | checked; four theorems |
| progress and artifact of one training job | `TrainingProgress`, `MCTrainingProgress`, `TrainingProofs` | checked; five theorems |

The modules compose along what one part promises the next. `JobLease` is the
abstract specification of an acquisition job's row: open, running under the claim
of one generation, or closed; no generation is granted twice. `AcquisitionJob` and
`ManifestStore` both implement it (proved for both; in `AcquisitionJob` a flush over a
row that has moved on may also reopen the row or drop its claim, `Overwrite`), and
`ManifestStore` and `ItemDownload` use only what it promises, so that they can leave the
rest of the job out, those overwrites included. `AcquisitionPlan` starts
from what searches commit and ends at what `start_job` asks of a plan
(`Startable`); `ImageSearch` and `AcquisitionJob` are the two neighbours.
`CompletionExport` contains the part of `StorageService` that it drives, the
artifact transfer, step by step, because the two share the remote directory and
the marker must come after the transfer's manifest. `TrainingProgress` reads what
the trainer of `TrainingJob` writes; a refresh never changes the job's row.

Three proof modules serve two components each, a part per component. The two share no
variable (`EXTENDS` puts both side by side); the specification in each statement says
which one it is about.

Every safety property of the runs is a theorem. Two modules need a hypothesis on the
labels at which a thread may stall (sections 4 and 5), the others none.
What is left, in the order of what it would add:

1. The copy and the validation of a saved state (`training_resume_service.py`).
2. Several jobs of one kind that compete for disk space.

Each run answers one question of its module; its bounds are explained in the
section of the module.

A definition whose comment begins with "mutant" is a plausible bug in the
definition below it; with the bug put in its place, TLC finds the property that is
paired with it violated. No specification uses it.

## 3. AcquisitionJob

`AcquisitionJob.tla` is one job with its items. `job` is the row: `status`,
`repair` (`manifest_repair_state`), `target` (`manifest_target_status`), `cancel`
(`cancellation_requested`) and `owner`, which stands for `worker_id`,
`claim_token` and `worker_generation` together: the generation at which the claim
was taken, 0 when the columns are NULL. `gen` is `worker_generation`. `item` and
`dirty` are the item rows: the status class and whether a `.part` cleanup warning,
claim or retry remains. `manifest` is the content of the file the row names.
`thread[t]` is what thread `t` remembers between two transactions: where it is,
its claim, the status it wants, what it read. An action is one transaction with
the local work before it:

| actions | code |
|---|---|
| StartJob | `start_job`, `_start_thread` |
| ClaimJob, NextItem, ClaimItem, Item*, WorkerFailure, WorkerFailAll | `run_job`, `_run_claimed_job`, `_process_item`, `_handle_unexpected_worker_failure` |
| Audit ... DeferManifestRepair | `_complete_claimed_job`, `_write_manifest`, `_finish_job`, `_defer_manifest_repair` |
| Repair* | `reconcile_manifest_repairs` |
| RecoverStaleJobs, CleanupPartItem, PromoteCleanupReadyJobs | `recover_stale_jobs`, `recover_part_cleanup_jobs` |
| CancelJob(Write), ResumeJob(Write) | `cancel_job`, `resume_job` |
| Crash, Lapse | the process stops; `image_download_stale_after_seconds` pass |

`cancel_job`, `resume_job` and `_begin_manifest_finalization` are a read and a flush,
and every other thread may act in between. The flush writes the columns that the call
has changed, over whatever the row says by then (`Flush`). Two history variables record
what a property has to except. `overtaken`: a flush was written over a row that had
moved on since it was read, that is, one with another status, another claim, or on or
off the repair path (`MovedOn`). `thrown`: a worker's `_finish_job` raised.

Item processing is abstracted to the status transitions it may cause; attempts and file
contents are in `ItemDownload`, the files of the manifests in `ManifestStore`, and
back-offs are left out (a cleanup that is due may run at any time). A claim whose commit
raises after it took effect is left out as well; a finish whose commit does is a finish.

### Runs

| run | instance | shows |
|---|---|---|
| job_repair | 2 workers, 1 item, 1 caller, 1 fault, 2 requests, fair; 733,138 states | the manifest of a closed job agrees with row and items (`ManifestAgrees`); the repair path and its intent go together (`RepairIntent`); the row keeps to `JobLease` (`LeaseSpec`); a repair ends (`RepairSettles`) |
| job_items | the same with 2 items, without fairness; 2,915,575 states | what rests on the claim-conditional UPDATEs alone, and holds after any flush: closed jobs are settled (`TerminalSettled`), a cancellation wins (`CancelWins`), a repair is never requeued (`RepairNeverRequeued`) |

Two workers are enough for a takeover (the old holder and the new one; the
repairer is a third thread), two items for an order between items and for a mix
of outcomes, one fault for each single failure at every step, two requests for a
cancel followed by a resume. `CHECK_DEADLOCK FALSE`: a closed job may rest for
ever.

The properties of job_repair are about a job until a flush overtakes it; after that the
lease still says that no claim is granted twice and that the holder alone closes the
job (`Overwrite`). `ManifestAgrees` has one more exception, a row that is FAILED after
a finish raised (`thrown`). Both exceptions are behaviours of the code, below.

### Fairness

Weak fairness of each thread (the operating system schedules daemon threads), of
the scheduler's passes (`_run_cleanup_scheduler` loops until the process ends), of
a heartbeat's ageing once nobody renews it, and of a cleanup (a `.part` that can
be removed is removed by some retry). Nothing is assumed of users, of `StartJob`
or of failures; failures are bounded by `MaxFaults`.

### Where code and documents part

1. *A cancellation is lost by a crash.* `recover_stale_jobs`
   requeues the row with `cancellation_requested` still set; `_claim_job` refuses
   it, no repair is pending and `resume_job` ignores QUEUED rows. README.md:98 has
   the cancellation of a queued or stale job end as CANCELED.
2. *A flush writes over a row that has moved on.* `cancel_job` reads QUEUED, a worker
   claims the row, STALE and PENDING are flushed over RUNNING. `resume_job` reads STALE,
   the scheduler requeues the row and a worker claims it, QUEUED is flushed over
   RUNNING. Either way `worker_id` and `claim_token` stay in a row that does not run, and
   nobody can claim it until `cancel_job` clears them.
   `_begin_manifest_finalization` reads, its claim goes stale and the row is
   requeued, PENDING is flushed into a QUEUED row, which stays on a queue that nobody
   takes it from. The same may happen to the repair state and target of `cancel_job`.
3. *A target is left in a closed row*: `cancel_job` (line 650) stores
   `manifest_target_status` CANCELED in a row that `_finish_job` has just closed with
   another status; PHASE8C_CLEANUP_REPAIR.md:11 has the target cleared. When the job is
   resumed its manifest states that target and `_finish_job` records another status.
4. *The manifest and the row disagree after a failing finish.* The `_finish_job` of
   `_complete_claimed_job` (1825) is outside any `try`. Where it raises,
   `run_job` (1573) hands over to `_handle_unexpected_worker_failure`, which keeps the
   target that is on record (5386): the manifest says COMPLETED once more, and the
   row is closed as FAILED.

### Proofs

`AcquisitionJobProofs.tla`, from `WorkersAssumption` and `BoundsAssumption` only,
for any numbers of workers, callers, items, faults and requests:

* `TypeCorrect`. `TypeOK` is not inductive: `_finish_job` stores the status the
  thread wants, and a thread that has none would store `"none"`. `WantKnown`
  (whoever is past the audit wants a terminal status) strengthens it.
* `ClaimIsExclusive`, from `ClaimInv`: no remembered claim exceeds the generation
  and none is remembered twice. `ClaimStep` shows that a step either forgets
  claims or takes the next generation.
* `TerminalIsSettled`, `CancellationWins`, `RepairIsNeverRequeued`, from
  `ClosingStep`: a step is `_finish_job` under its conditions, or it closes no job
  and leaves what a closed job promises alone. The flush of a stale read is one of
  those steps because none of the three writers assigns a terminal status.
* `JobKeepsLease`, the refinement of `JobLease`, from `RowInv`: what each flush was
  computed from (`RowRead`), that the claim on record is the last one (`Owned`), and,
  until a flush overtakes the row, that it is RUNNING exactly while it has an owner
  (`Claimed`). A flush over a row that has not moved on (`Unmoved`) is a step of the
  lease; any other reopens the row or drops its claim at most.
* `RepairIsIntended`, from `IntentInv`: until then the repair state, the target and the
  status go together in the row (`Intended`), and in what each flush was computed from
  as well (`ReadIntended`); whoever may record an intended end knows a terminal one
  (`Aims`).
* `ManifestAgreesWithJob`, from `AgreeInv`: until then `WorkInv` says what the holder of
  the claim knows at each label (`Knows`). Until it publishes, what it read are the items
  as they are; from then to `_finish_job` the file states the end it will record and the
  items as they are; a repairer aims at the row's target, and a worker knows that there is
  none yet. `Failing` is the handler after a finish that raised. `CancelRead` is needed
  because the flush of a `cancel_job` leaves the column alone that it read as set.

`RepairSettles` (liveness) is model-checked only.

## 4. ManifestStore

`_write_manifest` writes a temporary file, checks the claim, renames, names the
file in `manifest_relative_path` with a claim-conditional UPDATE, verifies the
commit and then sweeps the directory of every artifact the row does not name.
`AcquisitionJob` takes all of that as one step; here each file operation and each
transaction is one. `files` is the directory: a temporary and a final name for
each generation of the claim (names carry the generation and a random part, so no
two claims share one). `ref` is the generation in `manifest_relative_path`.
`scan` is `reconcile_terminal_manifest_orphans`, which lists, checks each name
against the row again and unlinks. Failing writes, commits that raise before or
after they took effect, failing verifications and unlinks are actions (`Fails`). After
a commit that raised the writer is in `doubt`: it asks `_manifest_db_references` whether
the row names its file, and where that raises too the outer handler (6352-6369) unlinks
the file although the row may name it (`DoubtFails`).
The row evolves as `JobLease` allows: TakeOver when the holder sits at a label of
`Stalls` or is gone, Reopen for `resume_job`.

| run | instance | shows |
|---|---|---|
| manifest_kept | 3 writers, 4 claims, 2 faults, stalls anywhere but in the sweep; fair; 152,848 states | a closed job has its manifest (`ClosedHasManifest`); the named file is not removed, but by its own writer in doubt (`ReferencedKept`); the row never goes back to an older manifest (`ReferenceAdvances`); orphans go in the end (`OrphansCollected`) |

Three writers are two that lost their claims and the one that holds it; four
claims let the job be closed, reopened and closed again; two faults let the
clean-up of a failed step fail, and a question in doubt after a commit that raised.

Two divergences. After the UPDATE nothing asks for the claim, so a
writer that stalls there until recovery and a newer claim have published sweeps
away the newer manifest, which the row names. README.md:321 says an old worker
removes its own files only; `Stalls` leaves these labels out. And a writer in doubt may
unlink the file that its row names, which README.md:100 has decide what is kept. The
job is not closed then and its repair writes another file, so that `ClosedHasManifest`
holds nevertheless.

`ManifestSnapshotProofs.tla`, first part: for any numbers and any `Stalls`,
`TypeCorrect`, `KeepsLease` (the refinement, by `JobLease`'s actions) and
`ReferencesAdvance`. The invariant is `BaseInv`: only the last generation is held, a
claim belongs to one thread, and the row names a writer's file exactly from its UPDATE
on. Under `NoSweepStall`, `ClosedJobsHaveManifests`, `ReferencedFilesAreKept` and
`ReferencesAreDurable`, from `KeepInv`: what a sweep or the scan is about to remove is
not named and will not be, or its writer is in doubt. `NoSweepStall` is needed because
of the first divergence. `OrphansCollected` is model-checked only.

## 5. ItemDownload

One item of a job, from the attempt to the import, and the file at
`part_relative_path`. `item` is the row (status, `retryable`, attempts,
`received_bytes`, whether a range validator is known, the cleanup warning and
claim); `part` is the file: its size in chunks and whether it is still the first
chunks of the image. Every check of the claim, every operation on the file and
every transaction of `_download_and_validate`, `import_verified` and
`_cleanup_part_item` is a step. A response may be 206, 200 or 416. A handle may
outlive the name it was opened by (`file = "lost"`).

| run | instance | shows |
|---|---|---|
| item_part | 2 workers, 1 sweeper, 2 chunks, 3 attempts, 3 claims, 1 fault; fair | what is imported was verified (`ImportedIsVerified`); the file is a prefix of the image (`PartIsPrefix`); only dead files are removed (`OnlyDeadPartsRemoved`); the file of an item that ended for good goes in the end (`DeadPartsCollected`) |

Two chunks give an empty, a partial and a complete file. Three claims are the first
worker, the one that takes over and the one after `resume_job`. `WorkerStalls` leaves
out the five labels between a check of the claim and the file operation it was for: a
worker that sits *there* past `image_download_stale_after_seconds` writes into its
successor's file, and an import may then copy what was not verified, because
`import_verified` copies the file without comparing it with the digest of
`inspect_image` (image_ingestion_service.py:234; README.md:307 has it registered after
verification). With any one of these labels allowed `PartIsPrefix` does not hold, and
with `"write"` neither does `ImportedIsVerified`; the bound on the stall is what the
code relies on. There is one sweeper because two that stall past each other's claims for
ever remove nothing; no code bounds that, and one scheduler thread exists.

A divergence: an item that was recovered to VALIDATION_PENDING and is recovered again
before it is validated goes to PENDING, and its complete file is downloaded again;
README.md:315 says it is not.

`_finish_attempt` is called by nobody, so the rows of the attempts are never closed;
they are not modelled.

Fairness: the worker's steps (requests time out), cleanups and stale recovery by
the scheduler.

`PlanItemProofs.tla`, first part, for any numbers of workers, sweepers, chunks,
attempts, claims and faults: `ItemTypeCorrect`; `OnlyDeadPartsGo` under
`UnlinkIsPrompt` (no cleaner's claim goes stale between its last check and its unlink);
`OnlyVerifiedIsImported` and `FileIsPrefix` under that and `FileStepsArePrompt` (no
worker stalls at the five labels). With two sweepers and stalls at the unlink TLC finds
`OnlyDeadPartsRemoved` and `PartIsPrefix` violated: the late unlink meets the file of a
new attempt. (For `ImportedIsVerified` it finds none within the bounds; the proof rests
on the prefix.) Under these hypotheses crashes, takeovers, resumes and stalls anywhere
else are unrestricted.

`ItemInv` is about the rows. Only the last generation is held (`OwnerIsLast`), by one
worker (`ClaimsApart`); the item of the holder has ended exactly when the holder is done
with it (`EndsHere`); a cleanup is due only for an item that ended or waits in a job
that does not run, where a reset one has no bytes (`NoneWaits`, `Restarts`), and whoever
is about to unlink is there for such an item (`Unlinks`). `FileInv` adds the file: a
worker between a check and the file operation it was for still holds the claim
(`HeldAtFile`); the holder's next chunk is where the file ends, as long as its handle is
that of the file (`Follows`); the file is a prefix of the image and no longer; and what
is about to be committed is the whole image (`CopiesImage`). `PartIsPrefix` needs all of
these: a range request continues at what it found in the file, several steps before it
writes. `DeadPartsCollected` (liveness) is model-checked only.

## 6. TrainingJob

The rows of one project's training jobs, their trainer processes, the one thread
of `TrainingService`'s executor, callers that create, resume, start and cancel,
and `_reconcile_stale_jobs` when the application starts (`Restart`). A trainer is
started in a session of its own: `Crash` ends the application and not the trainer.
`job[j].pid` stands for pid, process group and identity; `proc[j]` is the process
(`stopping` after SIGTERM, which it may ignore, `killed` after SIGKILL). Rows are
changed by SELECT, decision, flush; the two halves are actions of their own where
another thread may write in between (`MarkRunning`/`MarkRunningWrite`,
`RequestCancel`/`RequestCancelWrite`, `FinishJob`/`FinishJobWrite`,
`MarkFailed`/`MarkFailedWrite`). How old a heartbeat is at a restart, and whether a
pid is somebody else's by then, is left open (`young`). A resume takes the state of
an earlier job (`parent`); `SourceIsSafe` decides when it is created and
`StillResumable` when its worker prepares it.

| run | instance | shows |
|---|---|---|
| training_run | 2 jobs, 2 callers, 2 crashes or exceptions anywhere; fair; 1,516,828 states | one trainer at a time (`OneTraining`); none is resumed from under a live one (`ResumeAfterEnd`); a cancellation seen by the monitor ends the job (`CancelSettles`) |

Two jobs are a parent and its resume, or a job and its successor; two callers race
each other; two faults are a crash and another during the recovery from it.
Fairness: the thread runs on; `SF(KillProcess)` says that the deadline passes; a
killed process exits. That a trainer ends by itself or heeds SIGTERM is not
assumed.

A divergence: the trainer is started before its pid is committed, and nothing but the
worker knows it until then. If the application ends in between, or a step of the
worker raises, the trainer runs on; the job becomes STALE or FAILED with a
terminal record and may be resumed while its trainer runs. README.md:382 says that
a job whose end is not certain is not resumed. `adrift` (history) names these trainers,
and the ones whose handler failed before it could stop them. The properties except
them and nothing else: every other trainer, also one that outlived the application, is
alone, and `ResumeAfterEnd` excepts only those whose pid never got into the row.

Other observations, all of them in the model: `_mark_running` may
read STARTING, lose the race to `request_cancel` and flush RUNNING over
CANCEL_REQUESTED, a step `TrainingJobStateMachine` does not have; the cancelled job
then ends FAILED with `worker_exception` (line 581; the comment at 572 means to
handle just this boundary). `request_cancel` may write CANCEL_REQUESTED over a job
that has just ended. Reconciliation runs only at the start of the application, so a
job whose trainer outlived it blocks its project until the next start, and a
cancellation of it is accepted and not acted on. After an exception the trainer
gets SIGTERM and no SIGKILL. Where the handler that is to stop a trainer fails and a
second `start_job` has still to submit the job, the job ends FAILED over a trainer that
lives. Left out: a `killpg` that raises for a child of the application itself.

`TrainingProofs.tla`, first part: `TypeCorrect`, `TrainsOnce` and `ResumesAfterEnd`, for
any numbers of jobs, callers and faults, and with crashes and exceptions anywhere. The
inductive invariant is `OneActive` (the index admits one active row) and `Owned` (a
trainer that was not told to stop and is not adrift belongs to an active row), from
which `OneTraining` follows, and `Spent` (whoever's state was taken has ended and stays
so). To keep `Owned` one has to know who knows a trainer: `Known`, `HandOver`, `Polled`,
`Unattended`, `Waiting`, `Down`, `Absent`. `CancelSettles` is model-checked only.

## 7. ImageSearch

One search: its row, candidates and cursor checkpoints, threads in `run_search`,
and callers of `get_search` (which marks a stale search) and `cancel_search`.
`Source[c]` is the set of pages the source may answer for cursor `c`: it may change
between requests and go round in circles. A page is committed in one transaction
(`CommitPage`, with `Committed`, `Saved` and `Checkpoint` for the row, the candidates
and the checkpoint). The loop over its posts is told by its result: `NewAt` says
where a post comes for the first time, `OrderOf` which order it gets, `Upserts` which
of them the limit lets in. `cancel_search` is a read and a write. Which candidates
the filter accepts is left out.

search_run: 2 workers, 1 caller, 3 posts, a source with two answers for each cursor a
page that has one post twice and a cycle of cursors, 3 candidates, 4 pages, 5
requests, 3 claims, 1 fault. Two workers are the stalled one and its successor; three
posts make pages that overlap, repeat and reach the limit in the middle; the page and
request limits are above the longest chain and below the endless one. Candidates are
counted once and in a gapless order; the committed pages form one chain and each of
their posts is a candidate; COMPLETED means the limit or the end of the source; an
undisturbed search ends. Fairness is that of the worker threads only; a request ends
because its time-outs and retries are bounded.

`ImageSearchProofs.tla` proves `TypeOK`, `CandidatesCounted`, `PagesChained` and
`CompletedIsWhole` for any sets of threads and posts, any source and any limits. The
counting rests on one fact about finite sets of numbers (`RankOnto`): the ranks of
their members are gapless, so that what the loop takes up to the limit (`Taken`) gets
the orders from `returned` on, and whoever was not cut off by the limit took every
new post. The chain is not inductive by itself: a worker commits the page of a cursor
that it read some steps ago, so the invariant says of the row's request cursor (while
the search can be claimed or is owned) and of each worker's cursor, wherever the
worker is, that a committed page leads to it (`RequestReached`, `Working`). A step
either commits one page (`CommitSucceeds`) or leaves the chain as it is (`Calm`).
`SearchEnds` is model-checked only.

Observations: a cancellation between the check of the flag and `_prepare_page` is
taken for a lost claim (line 331), so the search stays RUNNING until it is stale and
then ends only if it is cancelled once more. Nothing in `src/` calls `run_search`
for a STALE search, or for a QUEUED one after a restart, though `_claim_search`
admits them; the model lets any worker do so. `cancel_search` may write CANCELED
over RUNNING or COMPLETED and leaves `worker_id` and `claim_token` set.

## 8. AcquisitionPlan

Posts are shared by all searches and refreshed by each (`CommitPage`); a candidate
keeps the metadata its search saw. A preview has the metadata of now; its
fingerprint is the preview itself. `ConfirmPlan` is all reads and checks of
`confirm_plan`, `InsertPlan` its transaction: plan, items and reservations, or
nothing. Others may commit in between.

plan_run: 2 callers, 2 posts, 2 searches, two versions of metadata, two plans
(a plan takes its posts for good, so a third would have none of the two posts left
to conflict about). Callers, posts and searches are interchangeable, and no
property tells them apart. A post is planned once, and a
confirmed plan passes `_validate_plan_structure` for ever. (That a preview is
confirmed once is proved and in no run.)

`PlanItemProofs.tla`, second part, proves both of these, `ConfirmedOnce` and
`PlanTypeOK` for any constants: ids are counted (`Numbered`), previews of plans differ
(`Distinct`), reservations and items say the same (`Reserved`), and what a preview took
up is as its candidates have it (`Validated`, `Backed`). That a post is unchanged
between the checks and the commit is not promised: a refresh in between is not noticed,
and the plan keeps what the user saw.

## 9. StorageTransfer

`StorageTransfer.tla` is one managed model and one dataset snapshot with the rows of
their transfer jobs, the two threads of `StorageService`'s executor, the queue in
front of them, the remote and the rclone processes.

| state | code |
|---|---|
| `drive`, `model`, `dest`, `backup[j]` | the remote model, its row in `managed_models`, the file at `_local_model_path`, `.<name>.<job>.backup`; a content is the number of the version it is a copy of, `Torn` if two versions are mixed in it |
| `remote[f]`, `manifest`, `current[j]` | the snapshot's files at the remote, `transfer-manifest.json`, the files that still are as j's manifest has them |
| `job[j]`, `submitted`, `worker[w]` | rows of `storage_transfer_jobs`, calls that wait, what a thread is doing |
| `verifier`, `orphan[j]` | a `verify_model` that has read and not written; what an rclone copies that outlived its application |

| actions | code |
|---|---|
| StartDownload, StartUpload, Cancel, ListModels, VerifyRead/VerifyWrite | the calls of the UI |
| Take, BeginDownload, Fetch ... LoseModel | `download_model`, `_copy_model_with_retry` with its two renames, the commit and its undoing |
| BeginUpload, Send ... Validate | `upload_snapshot`: files, verification, entries, provisional and final manifest |
| Raise, Fail, Crash, OrphanEnds, Restart | exceptions, `_finish_job`, the end of the process, `recover_stale_jobs`; an rclone that nobody waits for |
| ModelChanges, SnapshotChanges | others change the remote |

An rclone copy is two steps (it begins to read one version and ends), so that the remote
may change in between. Progress, byte counters, disk space and heartbeats are left out;
how old a heartbeat is at a restart is left open. The rclone of a snapshot's file runs
on not only after a crash: the callback that stores its pid is outside the `try` that
would stop it (rclone.py:492-493), so that an exception in it leaves an orphan beside
the worker that handles it (`Raise`). `verify_model` answers VERIFICATION_FAILED also
where there is no local path or file, and notes MISSING_REMOTE before it writes its
verdict. `overlapped` and `whole` are history variables for the properties.

storage_run: 2 threads, 2 jobs, 2 versions, 2 attempts, 2 files; either two downloads
or two uploads (the kinds share the threads and no row, file or remote path); the
default settings (`remote_hash_and_size`, a remote with hashes, `skip_identical`) or
a remote without hashes (`size_and_manifest`, `overwrite_changed`); one change of the
snapshot's files by others and one crash or exception. Two versions are needed for a
model that changes under a copy, two attempts for a retry, two jobs for calls that
overlap; threads and files are interchangeable. 3,534,986 states.

* `DestinationWhole`: no mixture of two versions ever stands at the model's path,
  in a backup or in the row's digest.
* `RowsCopyKept`: as long as calls on the model do not overlap, what an AVAILABLE
  row names is on the disk, at its path or in the backup beside it.
* `CompletedWasWhole`: an upload that compares hashes is COMPLETED only if at one
  moment while it ran all files lay at the remote.

The shipped `RcloneAdapter` lists without `--hash` (rclone.py:311), so that in practice
every remote is one without hashes and only the branches that compare sizes run. The
first of the two settings is that of an adapter that reports hashes, which the interface
and the settings provide for; `CompletedWasWhole` speaks of these.

Observations. Two downloads, or a download and a verification, of one model unlink,
replace or misdescribe each other's file: nothing keeps them apart (`RowsCopyKept`
asks for no overlap). A crash between the backup's rename and the commit leaves an
AVAILABLE row whose content is in the backup only, until the next download or
verification. A job stays PENDING for ever if its model is gone, its plan token is
stale or a conflict is found in the worker; a crash leaves PENDING jobs PENDING and
models DOWNLOADING; the cancellation of a queued download is ignored. Without remote
hashes `_local_matches` takes an older version of the same size for the current one.
The provisional manifest says COMPLETED before the verification (README.md:277 says
so). A manifest names the level `remote_hash_and_size` for files that were skipped
after a comparison of metadata, and `full_checksum` where the fallback let a file
pass (README.md:271). `_refresh_model` looks at the first 500 entries only. The first
upload into a remote folder that does not exist is refused.

`StorageTransferProofs.tla` proves `TypeOK` and these three for any constants that meet
the assumptions. For `DestinationWhole` the invariant follows the content from rclone
to the path: the remote's version only grows; whoever holds a record has
entry <= source <= drive (`GoodRecord`); a part that is torn was begun before the
last change, so that entry < drive; and `Compare` lets a part pass only if drive is
the entry again, which a torn one can never reach. `VerifierIsWhole` and
`DestinationWhole` carry this over to digests, backups and the path.

The other two need to know whose job is whose (`JobsInv`). `Owned`: a job is in the
queue or with one thread, once. `AllFit`: what a thread knows at each label fits its
job's row; an upload that has verified under a policy that compares hashes is RUNNING
and `whole`, hence `CompletedWasWhole`. `Alone`: as long as no calls overlapped, one at
most is at the model, it knows at each label what the path and its backup hold
(`Aware`), and between calls the content of an AVAILABLE row is in one of the two. This
carries `RowsCopyKept` over a crash between the two renames, where the backup is all
there is.

## 10. CompletionExport

`CompletionExport.tla` is the export of one training job by two applications that
share the database, the project's directory and the remote. `row` is the row with
its claim (`held`, `gen`, `beat` for the age of the heartbeat), `local` and `draft`
the export's directory and the marker in it, `transfer[j]` the transfer job that the
claim j made, `remote`, `manifest` and `marker` what lies at the remote, `late` the
copies that an rclone goes on with after its application ended.

| actions | code |
|---|---|
| StartRead/Start, Retry, Cancel | `start` (its SELECT, and the flush with `_submit`), `retry`, `cancel` |
| Claim, Read, Build, Rename, Ready | `_run_export`, `_run_claimed`, `_build_local_export`, `_ensure_export_manifest` |
| Probe, Adopt | the marker of an earlier claim is found and taken over |
| Find, Create, Send, Verify, SendManifest, FinishUpload, Store | the artifact transfer in `StorageService` |
| Verifying, VerifyAll, Write, Announce, Mark, Reread, Complete | verification of the files, the marker, `_complete_claimed` |
| ReadFails, Fail | the handlers and `_finish_claimed` |
| Beat, Age, Crash, LateCopy, Restart | heartbeats and stalls, the end of a process, `recover_stale`, `reconcile_remote` |

Every write of a worker to the row is `ClaimedUpdate`: the claim, the generation and,
where the code asks for it, the cancellation are in its condition.

export_run: 2 applications, 2 files, 2 sources, the default policy, one change of the
sources or of a remote file, 2 calls, 1 stall, 1 fault. Two applications give a
stalled worker and its successor; two files let a transfer be half done; two calls
are a start and another start, retry or cancel. Every start and every restart claims
at most once, hence the bound on generations. Applications and files are
interchangeable. 1.46 million states.

* `CompletedIsMarked`: a COMPLETED row names the marker that is at the remote, which
  names the row's transfer job, and that job is COMPLETED.
* `MarkerLast`: where hashes are compared, a marker at the remote means that all
  files have lain beside the manifest of the job it names.
* `CompletedStays`: no late worker, call or restart takes back the status, the transfer
  job or the marker of a COMPLETED row, or gives it a claim; only its fingerprint may
  still be written.

`start` selects the row and tests its status (291-295), and flushes the fingerprint by
primary key later (305-307). A worker may complete the row in between: hence the
exception in `CompletedStays`. `MarkerLast` speaks of remotes with hashes, which the
shipped adapter never reports (section 9).

`CompletionExportProofs.tla` proves `TypeOK` and these three for all constants that
meet the assumptions. They do not follow from themselves: a worker completes a row by
what it found several steps before. `Room` counts the claims (a generation for each
call and for each restart that is still owed), so that the bounds are no restriction
of the claims; `Claims` says that no generation is used twice and that transfer jobs
exist only up to the row's; `Working` says what a worker knows at each label: before
its transfer job it has none, while it sends the job runs, afterwards the job is
COMPLETED, and whoever completes has found the marker that is there. `Markers` follows
a marker from the local draft through an rclone that lost its parent to the remote:
it tells the truth wherever it is. `Closed` says that nobody holds a completed row.

Simplified: the local manifest is written in the step that makes the row READY; a
transfer job's own cancellation and its STALE mark are left out; `rclone --immutable`
is one step; nobody else deletes a marker; a plan token that does not match is one of
the failures of `ReadFails`.

Observations. A start after FAILED, while the application's own call has not returned
yet, makes the row PENDING and `_submit` refuses: it stays PENDING until another start,
and a crash with a PENDING row is not recovered either. After a quick restart an
UPLOADING export with a young heartbeat waits for the next start of the application.
`start` on a running export, or on one that completes meanwhile, writes new fingerprints
into its row. A completed transfer job is always used again, so that each retry fails if
the remote files, or the transfer manifest by a worker that had stalled, changed after
it. A source that changes between the context and the copy (the LoRA file, a log) leaves
a local export that every retry refuses with LOCAL_EXPORT_CONFLICT. A start of an
application that meets an old heartbeat removes the `.creating-` directory of a live
worker. Two workers share `completion-manifest.json` in the local directory.

## 11. DatasetSnapshot

`DatasetSnapshot.tla` has the accepted images of a project with their captions
(`image`), the rows of snapshots and their jobs (`snapshot`), their directories (`dir`:
none, `<id>.creating`, final), the call of `create_snapshot_sync` for each (`task`),
where the start of each application is (`start`), one `revalidate` (`check`) and the
preview that the user confirmed (`shown`, history).

| actions | code |
|---|---|
| StartSnapshot, Cancel | preview and `start_snapshot`, `cancel` |
| Begin, Insert, CopyImage, StopCopying, FailCopying, WriteManifest, Rename, Commit, Cleanup, Mark | `create_snapshot_sync` and its handlers |
| Launch, List, ListFails, Skip, Reconstruct, Store, GiveUp, Spoil, FindStale, FailStale | `recover_finalized_snapshots`, then `recover_stale` |
| Read, Verify, Condemn | `revalidate` |
| Change, Damage, AppCrash | images are edited, a file is damaged, an application ends |

snapshot_run: 2 applications, 2 snapshots, 2 images, 1 change, 1 call, 2 failures. A
snapshot and its successor are enough for the check of an active one and for the
unique items; one application starts beside the other's thread; two failures are a
crash after a failed commit, or a damaged file that a start meets. 6.59 million states.

Each of these calls loads a row, works on files, and flushes the columns it changed.
`Store`, `Spoil`, `FailStale` and `Condemn` therefore write over what they had loaded,
whatever the row says by then. `recover_finalized_snapshots` answers 0 where the list
cannot be read (404-410) and the start goes on without recovery (`ListFails`). `Mark`,
whose get and flush are one transaction without work between them, is one step.

* `CompletedIsPreview`: whoever completed a snapshot, its rows, digest, warnings and
  files are those of the preview that was confirmed; its digest is the preview's, or a
  check has cleared it and `revalidate` refuses the snapshot.
* `FinalIsKnown`: a renamed directory has a row that a start takes up or that is final.
* `StartHeals`: after a start every renamed directory that no thread was working at
  is COMPLETED or CORRUPTED, unless the list could not be read, or another start wrote
  FAILED over what this one had healed (`refailed`, history).

`ManifestSnapshotProofs.tla`, second part, proves these three and `SnapshotTypeOK` for
any constants that meet the assumptions. `Kept` relates the three places of a snapshot:
the files of a directory are those of the confirmed preview, all of them once it was
renamed, and its manifest says so (`FilesAre`); the label of the thread tells where the
directory is (`PlaceIs`); the rows, whoever put them, are those of the preview
(`RowIs`). A start completes a directory several steps after it listed it, so the
invariant also says what is left of its list (`AllListed`) and that the rows it is about
to store are of a renamed directory (`StoresFinal`).

Observations. Warnings are not part of the token: new ones are accepted unseen, and the
stored ones are those of the preview. The `.creating` directory of a crashed creation is
never removed. `revalidate` condemns a snapshot that is being made or has just been
completed, for good (README.md:261); any passing exception in a recovery does the same.
A second start marks the snapshot of a live thread FAILED, or completes it, and then the
thread's commit meets the unique items and makes COMPLETED DB_FINALIZATION_PENDING until
the next start. Of two starts at the same time one may have loaded a row as CREATING
that the other completes, and write FAILED over it; the next start heals it. With three
failures a check may clear the digest of a row between a start's load and its flush,
which leaves COMPLETED without a digest. Two applications may both find no active
snapshot. Left out: missing captions, disk space, reports, settings and the manifests of
older versions.

## 12. Tagging

`Tagging.tla` has the runs (`run`, `result`, `task`: the thread of a run; `call[w]`: a
`start_run` that has not returned) and the captions (`caption[i]`: the revisions;
`rules`; `window[w]`: a window of the UI that has shown a preview or decided on a save).
A caption is the set of its tags.

| actions | code |
|---|---|
| RecoverStaleRuns, Ask, Insert, Cancel | `start_run` (`recover_stale_runs`, `active_run`, the commit), `cancel_run` |
| Begin, LoadModel, Look, Tag, Finish, Handle | `_execute`, `_process_images`, `_finish` and the handler |
| ShowPreview, CheckToken, Apply | `build_preview`, `apply_preview` |
| SaveImageCaption, RestoreFromSource, RestorePrevious, SelectCurrent, Flush | the calls that save one caption, and the read and the write of `save_caption` |
| Select, Crash | images are accepted or not; the application ends |

`start_run` sets every active run to STALE and then asks for an active one. The session
has `autoflush=False` (database.py:32): the SELECT answers what was committed, "already
running" is raised and STALE is rolled back. STALE is only written over runs that were
active at the first SELECT and had ended at the second. Every write of a status may
raise before or after its commit took effect (`WriteRaises`); the one of `_finish` is
inside the `try` of `_execute`, whose handler then writes FAILED (184-186), also over
COMPLETED.

tagging_run: 2 images, one of which has a caption at first, 2 runs, 1 thread, the
tagger finds nothing or t1, the user writes t2, no trigger words and no removed tags,
`keep_manual`, 2 windows, 2 edits, the selection of one image changes once, 1 fault;
4,569,488 states. Two images make a run that failed in part; two runs are two starts at
the same time, or one that lives when the other is started; two windows save one caption
at the same time. No start is called once both runs are there. (Triggers, removed tags
and the other policies are in the module; they change texts only and no property tells
them apart.)

* `EndIsWhole`: a run that says it is done has a result for each of its images.
* `OnlyThreadEnds`: status and results of a run are its own thread's work; a start makes
  no run STALE that has not ended.
* `RevisionsChained`: each revision has as "before" the text of the one before it.

`TaggingProofs.tla` proves `TypeOK` and these three for any images, runs, threads and
windows. For the runs the invariant says what a thread knows of its run at each label
(`RunFits`): the end that it will write tells whether an image failed so far, and when
it comes to write it nothing is left to do. For the captions it counts (`Room`): a
window that is about to save was counted as an edit, so that no history outgrows the
bound. A save that read an older revision is refused by the unique index, so that the
chain grows at its end only.

Observations. A crashed run never becomes STALE: no thread ends it, and every start is
answered "already running" from then on, so that it blocks its project. Two
starts at the same time may both find no active run and both insert one. STALE may be
written over COMPLETED, by a start that found the run active and asked after it had
ended; the user then cannot make a preview from it. A run whose insertion raised after
its commit took effect has no thread and blocks like a crashed one. When the commit of
a result fails the image is counted twice. FAILED_ONLY takes images that were tagged
well since. A manual save between `apply_preview`'s check of the token and its first
write is overwritten (README.md:230); the history has it. `keep_manual` lasts for one
application: it saves the manual caption as a bulk edit, and the next application
replaces it (README.md:222). `restore_previous` goes back and forth between two texts.
Left out: counters, `run_sync` (the same run in the caller's thread) and the
cancellation flag of a run that has ended, which nobody reads.

## 13. TrainingProgress

`TrainingProgress.tla` is one job: the two logs (`log`, sequences of halves of lines,
so that a chunk may end within a line), the LoRA file (`lora`), the row of
`training_progress` with its two cursors, unfinished lines, resume mode and shown step
(`row`), the metric points, the artifact's row, and threads that refresh or rescan
(`reader`). The trainer does one thing after the other (an assumption about the
external program).

| actions | code |
|---|---|
| WriteHead, WriteTail, BeginSave, EndSave, Rotate | the trainer writes lines and its file; a log is replaced or truncated |
| RefreshJob, LookAt, ReadStream, ReadFails | `_refresh_job`; the log reader's stat (44), and its open and read (50-52) |
| SelectAgain, Save | `parse_stream`, `upsert_progress` and the points |
| RescanArtifacts, Stat, Hash, StatAgain | the two stats around the hash in `training_artifact.py` |
| Commit, Fail, ReadersCrash | the end of the transaction |

A log that is replaced may be a file with another inode, with one that was free again,
or the same one, truncated; it may be replaced between the stat and the open. A reader
that goes on in such a file as if it were the old one is recorded in `swapped`. The
upsert writes the columns that differ from what the session loaded (`Stored`), so that
two refreshes may mix one row. `metrics` are the steps that *may* have a point: a line
needs a loss, a learning rate or a speed for one
(training_progress_repository.py:106-114), and thinning deletes points (142-168); no
property says that a step has its point.

progress_run: 2 threads, chunks of 3 halves, a parent's step of 2, 2 lines or saves,
1 mishap (of the logs, stdout's may be replaced; the streams are treated alike);
6,537,262 states. Three halves end a chunk within the second line; two lines make a
cursor that a slower refresh takes back; a parent's step of 2 can be reached by a local
count.

* `LinesNotJoined`: no step is kept that was put together from parts of two lines (the
  parser makes `Bogus` of them, a step that no trainer comes to).
* `NothingSkipped`: every line before a cursor has been taken into account by the
  aggregate that is stored with it.
* `NeverAhead`: no step is beyond the trainer's; the parent's steps are added once.
* `ValidIsWhole`: a VALID artifact has the hash of a file that was finished.

The first three hold until a log was `swapped`.

`TrainingProofs.tla`, second part, proves these four and `ProgressTypeOK` for any
constants that meet the assumptions: any number of refreshes that overlap, any chunk
size and any replacements of the logs. They are one invariant. `TrainerIs` and `LogIs`
bound what a log reports by what the trainer has done; `Passed` says of a row, and of
the old row that a thread goes on from, that each whole line before the cursor is in its
step and that what it keeps is the half of a line at the cursor, or nothing; `ReadIs`
says that what a thread joined is the part of the log between a line's end and its new
cursor, so that the parser sees lines of the log only; `ShownIs` says that the parent's
step was added to a local count and to no other. All of it is said of the file that the
cursor's offset is in, so that a replaced log makes it say nothing instead of something
false; and because steps in a log only grow, a thread that commits late takes the row
back to an older state in which all of it holds. For the artifact, `ArtifactIs` keeps
the versions of the two stats and the hash in order: between two equal stats of a
finished file nothing was written.

Observations. A log that is replaced after the stat, or by a file that has its inode and
is not shorter, is read on from the old offset: the head of an old line and the tail of
a new one become one line. Of two overlapping refreshes the one that began first may
commit last and take cursor and shown step back, or leave a newer step beside an older
cursor; the step that is shown may therefore lag, and the next refresh heals it, if
there is one. A refresh that read RUNNING and commits after the last one leaves an ETA
for a job that has ended (README.md:345). How a resumed trainer counts is decided by the
highest step of the first chunk: a local count that is first seen at or beyond the
parent's step is taken for a cumulative one. A refresh reads a bounded part of each log
and two follow the end, so that a long backlog stays unread, and so does a last line
without an end. A log that could not be read is read again from the start. The parser
takes any a/b in a line for a step (`PAIR_RE`, training_log_parser.py:189-196);
`NeverAhead` is about logs whose pairs are the trainer's own steps, as the lines of the
model are. Left out: metric values, epochs (which are treated as steps are), speeds, ETA
and warnings.

## 14. Limits

*Type invariants.* `TypeOK` (`PlanTypeOK`, `SnapshotTypeOK`, `ProgressTypeOK`) documents
the variables of each module but `JobLease`. It is proved for every one of them and
checked by no run.

*Proved and in no run*: `ExclusiveClaim`, `ConfirmedOnce`, `DurableBeforeReferenced`
and that `ManifestStore` implements `JobLease`.

*Model-checked only*: `RepairSettles`, `OrphansCollected`, `DeadPartsCollected`,
`CancelSettles` and `SearchEnds`. They rest on fairness, which is out of the prover's
reach.

*Proved under a hypothesis on a constant*: three theorems each of `ManifestStore` and
`ItemDownload`, whose hypothesis names the labels where a thread may be held up (sections
4 and 5). Where a hypothesis is left out TLC has a counterexample, which is a behaviour
of the code and described there, with the one exception that section 5 names. Everything
else is proved from the assumptions on the constants alone.

*Exceptions within a property*: where the code itself may break what a property says, the
property names the exception with a history variable or an action, and the section
describes it: `overtaken` and `thrown` (3), `InDoubt` (4), `adrift` (6), `overlapped` (9),
the fingerprint (10), `refailed` (11), `swapped` (13). TLC reaches each of them in the
runs.

`StorageTransfer`, `CompletionExport`, `DatasetSnapshot`, `Tagging` and
`TrainingProgress` state no fairness and no liveness: their jobs may stop for ever in
more ways than one, which the observations list.

*Not modelled*: similarity detection, images and projects (synchronous calls of one
transaction each), recommendation, performance and calibration (computations with real
numbers over one snapshot of the data), the inspection of the environment and command
lines, the UI; several acquisition jobs, projects or models at once (their rows do not
interact except through plans); disk quotas, time budgets and the arithmetic of
back-offs; image decoding and hashes, which are outcomes here.

Statement-level atomicity is SQLite's: a transaction that has begun to write excludes
other writers.
