--------------------------- MODULE AcquisitionJob ---------------------------
(***************************************************************************)
(* One image acquisition job of ImageAcquisitionDownloadService: the row   *)
(* of image_acquisition_jobs, its item rows, the daemon threads that run   *)
(* run_job, the cleanup scheduler that repairs manifests and recovers      *)
(* stale jobs, and the UI threads that cancel and resume it.               *)
(*                                                                         *)
(* Each action is one database transaction together with the thread-local  *)
(* work around it.  cancel_job, resume_job and _begin_manifest_finalization*)
(* load the row with a SELECT, assign attributes and flush: SQLite opens   *)
(* the write transaction only at the flush and SQLAlchemy writes only the  *)
(* columns that differ from what was loaded.  They are two actions, a read *)
(* and a write, and any other thread may act in between.                   *)
(***************************************************************************)
EXTENDS Naturals, FiniteSets

CONSTANTS
    Workers,      \* threads started by _start_thread
    Repairer,     \* the scheduler thread, as it runs reconcile_manifest_repairs
    Callers,      \* UI threads inside cancel_job or resume_job
    ItemCount,    \* number of items of the job
    MaxFaults,    \* crashes, stalls and failing steps (a bound)
    MaxRequests   \* cancel_job and resume_job calls (a bound)

ASSUME WorkersAssumption ==
    /\ Repairer \notin Workers \cup Callers
    /\ Workers \cap Callers = {}
ASSUME BoundsAssumption ==
    /\ ItemCount \in Nat
    /\ MaxFaults \in Nat
    /\ MaxRequests \in Nat

Threads == Workers \cup {Repairer} \cup Callers
Items == 1..ItemCount

Terminal == {"completed", "partial", "failed", "canceled"}
JobStatus == {"queued", "running", "stale"} \cup Terminal
Repair == {"none", "pending", "repairing"}
Target == Terminal \cup {"none"}

\* "active" stands for DOWNLOADING..IMPORTING, "staged" for VALIDATION_PENDING,
\* "done" for IMPORTED, LINKED_EXISTING and SKIPPED, "retryable" for FAILED
\* with retryable set.
DoneItem == {"done", "failed", "retryable", "canceled"}
ItemStatus == {"pending", "staged", "active"} \cup DoneItem

JobRow == [status : JobStatus, repair : Repair, target : Target,
           cancel : BOOLEAN, owner : Nat]
ManifestDoc == [status : Target, items : [Items -> ItemStatus]]

PC == {"idle", "start", "next", "claim", "item", "fail", "audit", "manifest",
       "intent", "publish", "finish", "defer", "repairclaim", "repairtarget",
       "repairaudit", "repairfail", "repaircheck", "cancel", "resume"}
ThreadState == [pc : PC, claim : Nat, want : Target, final : Target,
                item : 0..ItemCount, seen : [Items -> ItemStatus],
                blocked : BOOLEAN, read : JobRow, handling : BOOLEAN]

VARIABLES
    job,        \* the job row; owner is the generation of the claim, 0 for none
    gen,        \* worker_generation
    fresh,      \* heartbeat_at is within image_download_stale_after_seconds
    manifest,   \* the manifest manifest_relative_path names
    item,       \* item[i]: status of item i
    dirty,      \* dirty[i]: a .part cleanup warning, claim or retry remains
    thread,     \* what each thread knows
    promoting,  \* the scheduler is past a cleanup, before it promotes the job
    overtaken,  \* history: a flush wrote a row that had moved on since its SELECT
    thrown,     \* history: a worker's _finish_job raised an exception
    faults, requests

history == <<overtaken, thrown>>
aside == <<history, faults, requests>>
vars == <<job, gen, fresh, manifest, item, dirty, thread, promoting, aside>>

AllPending == [i \in Items |-> "pending"]
NoManifest == [status |-> "none", items |-> AllPending]
NewJob == [status |-> "queued", repair |-> "none", target |-> "none",
           cancel |-> FALSE, owner |-> 0]
Idle == [pc |-> "idle", claim |-> 0, want |-> "none", final |-> "none",
         item |-> 0, seen |-> AllPending, blocked |-> FALSE, read |-> NewJob,
         handling |-> FALSE]

TypeOK ==
    /\ job \in JobRow
    /\ gen \in Nat
    /\ fresh \in BOOLEAN
    /\ manifest \in ManifestDoc
    /\ item \in [Items -> ItemStatus]
    /\ dirty \in [Items -> BOOLEAN]
    /\ thread \in [Threads -> ThreadState]
    /\ promoting \in BOOLEAN
    /\ overtaken \in BOOLEAN /\ thrown \in BOOLEAN
    /\ faults \in 0..MaxFaults
    /\ requests \in 0..MaxRequests

\* start_job has committed the row and its items.
Init ==
    /\ job = NewJob
    /\ gen = 0
    /\ fresh = FALSE
    /\ manifest = NoManifest
    /\ item = AllPending
    /\ dirty = [i \in Items |-> FALSE]
    /\ thread = [t \in Threads |-> Idle]
    /\ promoting = FALSE
    /\ overtaken = FALSE /\ thrown = FALSE
    /\ faults = 0
    /\ requests = 0

-----------------------------------------------------------------------------
(* What the conditions of the SQL statements say *)

\* status RUNNING and worker_id, claim_token and worker_generation are mine
Holds(t) ==
    /\ job.status = "running"
    /\ job.owner = thread[t].claim
    /\ gen = thread[t].claim
    /\ thread[t].claim # 0

CleanupPending == \E i \in Items : dirty[i]

Unfinished(i) == item[i] \in {"pending", "staged", "active"}

At(t, label) == thread[t].pc = label
Becomes(t, row) == thread' = [thread EXCEPT ![t] = row]
Go(t, label) == Becomes(t, [thread[t] EXCEPT !.pc = label])
GoFor(t, label, want) == Becomes(t, [thread[t] EXCEPT !.pc = label, !.want = want])
Leave(t) == Becomes(t, Idle)

\* thread.start() of a new daemon thread; Workers bounds how many run at once.
StartThread == \E w \in Workers :
    /\ thread[w].pc = "idle"
    /\ Go(w, "start")

Fault == faults < MaxFaults /\ faults' = faults + 1

\* A column reaches the database only if the assignment changed the loaded value.
Flushed(stored, loaded, assigned) ==
    IF assigned = loaded THEN stored ELSE assigned
Flush(loaded, assigned) ==
    [status |-> Flushed(job.status, loaded.status, assigned.status),
     repair |-> Flushed(job.repair, loaded.repair, assigned.repair),
     target |-> Flushed(job.target, loaded.target, assigned.target),
     cancel |-> Flushed(job.cancel, loaded.cancel, assigned.cancel),
     owner |-> Flushed(job.owner, loaded.owner, assigned.owner)]

\* The row that t has loaded moved on: it has another status, another claim, or
\* it went on or off the repair path (a running job may be put on it meanwhile).
MovedOn(t) == LET loaded == thread[t].read IN
    \/ job.status # loaded.status
    \/ job.owner # loaded.owner
    \/ job.repair # loaded.repair /\ (job.status # "running" \/ job.repair = "none")
WriteOver(t) == overtaken' = (overtaken \/ MovedOn(t)) /\ UNCHANGED thrown

\* _counts_snapshot: one counter per class of item status.
Counts(s) ==
    LET count(set) == Cardinality({i \in Items : s[i] \in set})
    IN  <<count({"pending"}), count({"staged"}), count({"active"}),
          count({"done"}), count({"failed", "retryable"})>>

\* _job_terminal_status
JobTerminalStatus ==
    IF \E i \in Items : Unfinished(i) THEN "failed"
    ELSE IF \A i \in Items : item[i] = "done" THEN "completed"
    ELSE IF \E i \in Items : item[i] = "done" THEN "partial"
    ELSE "failed"

-----------------------------------------------------------------------------
(* The worker: run_job *)

\* start_job finds the plan's QUEUED job and starts a thread for it.
StartJob ==
    /\ job.status = "queued"
    /\ StartThread
    /\ UNCHANGED <<job, gen, fresh, manifest, item, dirty, promoting, aside>>

Claimable ==
    /\ job.status \in {"queued", "stale"}
    /\ ~job.cancel
    /\ job.owner = 0
    /\ job.repair = "none"
    /\ ~CleanupPending

ClaimJob(t) ==
    /\ At(t, "start")
    /\ IF Claimable
       THEN /\ job' = [job EXCEPT !.status = "running", !.owner = gen + 1]
            /\ gen' = gen + 1
            /\ fresh' = TRUE
            /\ Becomes(t, [thread[t] EXCEPT !.pc = "next", !.claim = gen + 1])
       ELSE Leave(t) /\ UNCHANGED <<job, gen, fresh>>
    /\ UNCHANGED <<manifest, item, dirty, promoting, aside>>

\* _next_item, then _is_cancel_requested before the item is claimed.
Selectable == {i \in Items : item[i] \in {"pending", "staged", "retryable"}
                             /\ ~dirty[i]}
NextItem(t) ==
    /\ At(t, "next")
    /\ \/ Selectable = {} /\ Go(t, "audit")
       \/ /\ Selectable # {} /\ job.cancel
          /\ GoFor(t, "fail", "canceled")
       \/ /\ Selectable # {} /\ ~job.cancel
          /\ \E i \in Selectable :
                /\ \A j \in Selectable : i <= j
                /\ Becomes(t, [thread[t] EXCEPT !.pc = "claim", !.item = i])
    /\ UNCHANGED <<job, gen, fresh, manifest, item, dirty, promoting, aside>>

ClaimItem(t) ==
    LET i == thread[t].item IN
    /\ At(t, "claim")
    /\ IF /\ Holds(t)
          /\ ~dirty[i]
          /\ item[i] \in {"pending", "staged", "failed", "retryable"}
       THEN /\ item' = [item EXCEPT ![i] =
                            IF item[i] = "staged" THEN "staged" ELSE "active"]
            /\ Go(t, "item")
       ELSE Leave(t) /\ UNCHANGED item
    /\ UNCHANGED <<job, gen, fresh, manifest, dirty, promoting, aside>>

\* An item transition of the thread that holds the claim; every one of them
\* ends in _recompute_counts, which refreshes the heartbeat.
ItemStep(t, status, cleanup) ==
    LET i == thread[t].item IN
    /\ At(t, "item")
    /\ Holds(t)
    /\ item' = [item EXCEPT ![i] = status]
    /\ dirty' = [dirty EXCEPT ![i] = cleanup]
    /\ fresh' = TRUE
    /\ UNCHANGED <<job, gen, manifest, promoting, aside>>

\* _set_item_status and _set_attempt_started
ItemProgress(t) ==
    /\ At(t, "item")
    /\ item[thread[t].item] = "staged"
    /\ ItemStep(t, "active", dirty[thread[t].item])
    /\ UNCHANGED thread

\* _record_attempt_failure; the next attempts leave the row as it is until
\* one of them ends, so "retryable" also stands for a running later attempt.
ItemRetry(t) ==
    /\ At(t, "item")
    /\ item[thread[t].item] \in {"staged", "active"}
    /\ ItemStep(t, "retryable", FALSE)
    /\ UNCHANGED thread

\* _set_item_complete or _mark_linked_existing, then _cleanup_part_item
ItemComplete(t) == \E left \in BOOLEAN :
    /\ ItemStep(t, "done", left)
    /\ Go(t, "next")

\* _set_item_failure, then _cleanup_part_item
ItemFailed(t) == \E left \in BOOLEAN :
    /\ ItemStep(t, "failed", left)
    /\ Go(t, "next")

\* _check_cancel_or_claim raises _Canceled: the item keeps its .part
ItemCanceled(t) ==
    /\ job.cancel
    /\ ItemStep(t, "canceled", FALSE)
    /\ GoFor(t, "fail", "canceled")

\* _ClaimLost ends run_job
ItemClaimLost(t) ==
    /\ At(t, "item")
    /\ ~Holds(t)
    /\ Leave(t)
    /\ UNCHANGED <<job, gen, fresh, manifest, item, dirty, promoting, aside>>

\* An exception.  run_job's handler fails every unfinished item and completes the
\* job as FAILED (_handle_unexpected_worker_failure); an exception in there defers
\* the job, and a claim or a deferral that raises ends the thread.  The finish of
\* _complete_claimed_job is outside its try: it raises like any other step.
WorkerFailure(t) ==
    LET at == thread[t].pc IN
    /\ Fault
    /\ \/ /\ at \in {"next", "claim", "item", "fail", "audit", "finish"}
          /\ ~thread[t].handling
          /\ Becomes(t, [thread[t] EXCEPT !.pc = "fail", !.want = "failed",
                                          !.handling = TRUE])
       \/ /\ at \in {"fail", "audit", "finish"} /\ thread[t].handling
          /\ Go(t, "defer")
       \/ at \in {"start", "defer"} /\ Leave(t)
    /\ thrown' = (thrown \/ at = "finish")
    /\ UNCHANGED <<job, gen, fresh, manifest, item, dirty, promoting, overtaken,
                   requests>>

\* _fail_all_unfinished, then _cleanup_part_item for each item it changed
FailedBy(status) ==
    {i \in Items : Unfinished(i) \/
        (status = "canceled" /\ item[i] \in {"failed", "retryable"})}
FailAllUnfinished(t, status) ==
    LET failing == FailedBy(status) IN
    /\ item' = [i \in Items |-> IF i \in failing THEN status ELSE item[i]]
    /\ \E left \in SUBSET failing :
          dirty' = [i \in Items |-> IF i \in failing THEN i \in left ELSE dirty[i]]

WorkerFailAll(t) ==
    /\ At(t, "fail")
    /\ IF Holds(t)
       THEN /\ FailAllUnfinished(t, IF thread[t].want = "canceled"
                                    THEN "canceled" ELSE "failed")
            /\ Go(t, "audit")
       ELSE Leave(t) /\ UNCHANGED <<item, dirty>>
    /\ UNCHANGED <<job, gen, fresh, manifest, promoting, aside>>
-----------------------------------------------------------------------------
(* Completion, shared by the worker and the repairer *)

\* _recompute_counts and, for a worker with no status yet, _job_terminal_status.
\* The repairer first gives up while an item still waits for its cleanup.
Audit(t) ==
    /\ At(t, "audit")
    /\ \/ /\ t = Repairer /\ CleanupPending
          /\ Go(t, "defer")
          /\ UNCHANGED fresh
       \/ /\ ~(t = Repairer /\ CleanupPending)
          /\ Holds(t)
          /\ fresh' = TRUE
          /\ Becomes(t, [thread[t] EXCEPT
                !.pc = "manifest", !.seen = item,
                !.want = IF @ = "none" THEN JobTerminalStatus ELSE @])
       \/ /\ ~(t = Repairer /\ CleanupPending)
          /\ ~Holds(t)
          /\ Leave(t)
          /\ UNCHANGED fresh
    /\ UNCHANGED <<job, gen, manifest, item, dirty, promoting, aside>>

\* _write_manifest up to the SELECT of _begin_manifest_finalization.
\* A CLAIM_LOST result leaves the row to stale recovery.
BeginManifest(t) ==
    /\ At(t, "manifest")
    /\ IF Holds(t) /\ Counts(item) = Counts(thread[t].seen)
       THEN Becomes(t, [thread[t] EXCEPT
                !.pc = "intent", !.seen = item,
                !.blocked = CleanupPending, !.read = job])
       ELSE Leave(t)
    /\ UNCHANGED <<job, gen, fresh, manifest, item, dirty, promoting, aside>>

\* The UPDATE of _begin_manifest_finalization: the terminal status this
\* completion aims at is on record before any manifest is.
EffectiveTarget(row, want) ==
    IF row.cancel THEN "canceled"
    ELSE IF row.target # "none" THEN row.target ELSE want
BeginManifestFinalization(t) ==
    LET loaded == thread[t].read
        final == EffectiveTarget(loaded, thread[t].want)
    IN
    /\ thread[t].pc = "intent"
    /\ job' = Flush(loaded, [loaded EXCEPT
                !.repair = IF @ = "none" THEN "pending" ELSE @,
                !.target = final])
    /\ Becomes(t, [thread[t] EXCEPT
                !.pc = IF thread[t].blocked THEN "defer" ELSE "publish",
                !.final = final, !.read = NewJob])
    /\ WriteOver(t)
    /\ UNCHANGED <<gen, fresh, manifest, item, dirty, promoting, faults, requests>>

\* The file is durable before manifest_relative_path names it.
PublishManifest(t) ==
    /\ At(t, "publish")
    /\ IF Holds(t)
       THEN /\ manifest' = [status |-> thread[t].final, items |-> thread[t].seen]
            /\ Go(t, "finish")
       ELSE Leave(t) /\ UNCHANGED manifest
    /\ UNCHANGED <<job, gen, fresh, item, dirty, promoting, aside>>

\* _record_manifest_warning
ManifestWarning(t) ==
    job' = [job EXCEPT
        !.repair = "pending",
        !.target = IF job.cancel THEN "canceled"
                   ELSE IF @ = "none" THEN thread[t].final ELSE @]

\* The write, the rename or an fsync fails, the published file does not verify
\* and the reference is taken back, older artifacts remain, or a transaction of
\* _write_manifest raises, with or without the warning on record.
ManifestFails(t) ==
    /\ thread[t].pc \in {"manifest", "intent", "publish"}
    /\ Fault
    /\ \/ /\ thread[t].pc = "publish" /\ Holds(t)
          /\ ManifestWarning(t) \/ UNCHANGED job
          /\ manifest' \in {manifest, NoManifest,
                  [status |-> thread[t].final, items |-> thread[t].seen]}
       \/ UNCHANGED <<job, manifest>>
    /\ Becomes(t, [thread[t] EXCEPT !.pc = "defer", !.read = NewJob])
    /\ UNCHANGED <<gen, fresh, item, dirty, promoting, history, requests>>

\* mutant: the finish ignores a cancellation
CanFinishDespiteCancel(t) ==
    /\ Holds(t)
    /\ job.repair \in {"pending", "repairing"}
    /\ manifest.status # "none"
    /\ ~CleanupPending

CanFinish(t) ==
    /\ Holds(t)
    /\ job.repair \in {"pending", "repairing"}
    /\ manifest.status # "none"
    /\ ~CleanupPending
    /\ ~job.cancel \/ thread[t].want = "canceled"

\* mutant: the claim stays on the closed row
FinishedButClaimed(row, status) ==
    [row EXCEPT !.status = status, !.repair = "none", !.target = "none"]

Finished(row, status) == [row EXCEPT !.status = status, !.owner = 0,
                                     !.repair = "none", !.target = "none"]
FinishJob(t) ==
    /\ At(t, "finish")
    /\ IF CanFinish(t)
       THEN job' = Finished(job, thread[t].want) /\ Leave(t)
       ELSE Go(t, "defer") /\ UNCHANGED job
    /\ UNCHANGED <<gen, fresh, manifest, item, dirty, promoting, aside>>

DeferManifestRepair(t) ==
    /\ At(t, "defer")
    /\ IF Holds(t)
       THEN job' = [job EXCEPT
                !.status = "stale", !.owner = 0, !.repair = "pending",
                !.target = IF job.cancel THEN "canceled"
                           ELSE IF @ = "none" THEN thread[t].want ELSE @]
       ELSE UNCHANGED job
    /\ Leave(t)
    /\ UNCHANGED <<gen, fresh, manifest, item, dirty, promoting, aside>>

-----------------------------------------------------------------------------
(* The repairer: reconcile_manifest_repairs *)

RepairWaits == job.status = "stale" /\ job.repair = "pending" /\ job.owner = 0

RepairScan ==
    /\ At(Repairer, "idle")
    /\ RepairWaits
    /\ GoFor(Repairer, "repairclaim", EffectiveTarget(job, "failed"))
    /\ UNCHANGED <<job, gen, fresh, manifest, item, dirty, promoting, aside>>

ClaimManifestRepairJob ==
    /\ At(Repairer, "repairclaim")
    /\ IF RepairWaits /\ ~CleanupPending
       THEN /\ job' = [job EXCEPT !.status = "running", !.repair = "repairing",
                                  !.owner = gen + 1]
            /\ gen' = gen + 1
            /\ fresh' = TRUE
            /\ Becomes(Repairer, [thread[Repairer] EXCEPT
                    !.pc = "repairtarget", !.claim = gen + 1])
       ELSE Leave(Repairer) /\ UNCHANGED <<job, gen, fresh>>
    /\ UNCHANGED <<manifest, item, dirty, promoting, aside>>

Repairing == Holds(Repairer) /\ job.repair = "repairing"

\* _set_manifest_repair_target
SetManifestRepairTarget ==
    /\ At(Repairer, "repairtarget")
    /\ IF Repairing
       THEN /\ job' = [job EXCEPT !.target = IF job.cancel THEN "canceled"
                                              ELSE thread[Repairer].want]
            /\ Go(Repairer, "repairaudit")
       ELSE Leave(Repairer) /\ UNCHANGED job
    /\ UNCHANGED <<gen, fresh, manifest, item, dirty, promoting, aside>>

\* Reads the items, then the cancellation flag; a cancellation wins.
RepairAudit ==
    /\ At(Repairer, "repairaudit")
    /\ GoFor(Repairer,
             IF \E i \in Items : Unfinished(i) THEN "repairfail" ELSE "repaircheck",
             IF Repairing /\ job.cancel THEN "canceled" ELSE thread[Repairer].want)
    /\ job' = IF Repairing /\ job.cancel
              THEN [job EXCEPT !.target = "canceled"] ELSE job
    /\ UNCHANGED <<gen, fresh, manifest, item, dirty, promoting, aside>>

RepairFailAll ==
    /\ At(Repairer, "repairfail")
    /\ IF Holds(Repairer)
       THEN /\ FailAllUnfinished(Repairer, IF thread[Repairer].want = "canceled"
                                           THEN "canceled" ELSE "failed")
            /\ Go(Repairer, "repaircheck")
       ELSE Leave(Repairer) /\ UNCHANGED <<item, dirty>>
    /\ UNCHANGED <<job, gen, fresh, manifest, promoting, aside>>

\* The second look at the cancellation flag cancels the items as well.
RepairCheck ==
    /\ At(Repairer, "repaircheck")
    /\ IF Repairing /\ job.cancel
       THEN /\ job' = [job EXCEPT !.target = "canceled"]
            /\ FailAllUnfinished(Repairer, "canceled")
            /\ GoFor(Repairer, "audit", "canceled")
       ELSE Go(Repairer, "audit") /\ UNCHANGED <<job, item, dirty>>
    /\ UNCHANGED <<gen, fresh, manifest, promoting, aside>>

\* An exception of a repair step defers the repair, and one of the deferral makes
\* a second one.  A pass whose claim raises ends.
RepairFailure ==
    LET at == thread[Repairer].pc IN
    /\ Fault
    /\ \/ /\ \/ at \in {"repairtarget", "repairaudit", "repairfail", "repaircheck",
                        "audit", "finish"}
             \/ at = "defer" /\ ~thread[Repairer].handling
          /\ Becomes(Repairer, [thread[Repairer] EXCEPT !.pc = "defer",
                                                        !.handling = TRUE])
       \/ /\ \/ at = "repairclaim"
             \/ at = "defer" /\ thread[Repairer].handling
          /\ Leave(Repairer)
    /\ UNCHANGED <<job, gen, fresh, manifest, item, dirty, promoting, history,
                   requests>>

-----------------------------------------------------------------------------
(* Recovery: the scheduler's other passes *)

\* What recover_stale_jobs makes of an item whose status is s and whose cleanup
\* flag is d: a .part whose size is not received_bytes is to be cleaned up.  An
\* unfinished item of a running job is never dirty, so d is FALSE except in the
\* last case, whose cleanups recovery takes up as well.
Recovered(s, d) ==
    CASE s \in {"pending", "staged"} -> {<<"pending", d>>, <<"pending", TRUE>>}
      [] s = "active" -> {<<"pending", d>>, <<"pending", TRUE>>,
                          <<"staged", d>>, <<"done", TRUE>>}
      [] s = "retryable" -> {<<"pending", FALSE>>}
      [] OTHER -> {<<s, d>>}

\* mutants: a row under repair is recovered as it stands, or is requeued like
\* any other
RepairLeftClaimed(row) == [row EXCEPT !.status = "stale", !.owner = 0]
RepairRequeued(row) == NewJob

\* _claim_stale_job, and what becomes of a row that is under repair
Stale == job.status = "running" /\ ~fresh
RecoveredRepair(row) ==
    [row EXCEPT !.status = "stale", !.owner = 0, !.repair = "pending",
                !.target = IF row.cancel THEN "canceled" ELSE @]

RecoverStaleJobs ==
    /\ Stale
    /\ item' \in [Items -> ItemStatus \ {"retryable"}]
    /\ dirty' \in [Items -> BOOLEAN]
    /\ \A i \in Items : <<item'[i], dirty'[i]>> \in Recovered(item[i], dirty[i])
    /\ gen' = gen + 1
    /\ IF job.repair = "none"
       THEN IF \E i \in Items : dirty'[i]
            THEN /\ job' = [job EXCEPT !.status = "stale", !.owner = 0]
                 /\ UNCHANGED thread
            ELSE /\ job' = [job EXCEPT !.status = "queued", !.owner = 0]
                 /\ StartThread
       ELSE job' = RecoveredRepair(job) /\ UNCHANGED thread
    /\ UNCHANGED <<fresh, manifest, promoting, aside>>

\* mutant: the cleanup pass forgets canceled items
CleanableUnlessCanceled(i) ==
    /\ dirty[i]
    /\ \/ item[i] \in {"done", "failed"}
       \/ item[i] = "pending" /\ job.status \in {"queued", "stale"} /\ job.owner = 0

\* recover_part_cleanup_jobs cleans one item; a failed attempt leaves it dirty.
Cleanable(i) ==
    /\ dirty[i]
    /\ \/ item[i] \in {"done", "failed", "canceled"}
       \/ /\ item[i] = "pending"
          /\ job.status \in {"queued", "stale"}
          /\ job.owner = 0
CleanupPartItem(i) ==
    /\ Cleanable(i)
    /\ dirty' = [dirty EXCEPT ![i] = FALSE]
    /\ promoting' = TRUE
    /\ UNCHANGED <<job, gen, fresh, manifest, item, thread, aside>>

\* The same pass then requeues the STALE jobs of the items it processed.
PromoteCleanupReadyJobs ==
    /\ promoting
    /\ promoting' = FALSE
    /\ IF job.status = "stale" /\ job.repair = "none" /\ ~CleanupPending
       THEN /\ job' = [job EXCEPT !.status = "queued", !.owner = 0]
            /\ StartThread
       ELSE UNCHANGED <<job, thread>>
    /\ UNCHANGED <<gen, fresh, manifest, item, dirty, aside>>

-----------------------------------------------------------------------------
(* The user: cancel_job and resume_job *)

Request(c, label) ==
    /\ At(c, "idle")
    /\ requests < MaxRequests
    /\ requests' = requests + 1
    /\ Becomes(c, [thread[c] EXCEPT !.pc = label, !.read = job, !.seen = item])
    /\ UNCHANGED <<job, gen, fresh, manifest, item, dirty, promoting, history,
                   faults>>

CancelJob(c) ==
    /\ ~(job.status \in Terminal /\ job.repair = "none")
    /\ Request(c, "cancel")

\* what cancel_job leaves of a job that a thread runs
CancelRequested(row) ==
    [row EXCEPT !.cancel = TRUE,
                !.target = IF row.repair = "none" THEN @ ELSE "canceled"]

CancelOf(row) ==
    IF row.status \in {"queued", "stale", "canceled"}
    THEN [status |-> "stale", repair |-> "pending", target |-> "canceled",
          cancel |-> TRUE, owner |-> 0]
    ELSE CancelRequested(row)
CancelJobWrite(c) ==
    /\ thread[c].pc = "cancel"
    /\ job' = Flush(thread[c].read, CancelOf(thread[c].read))
    /\ WriteOver(c)
    /\ Leave(c)
    /\ UNCHANGED <<gen, fresh, manifest, item, dirty, promoting, faults, requests>>

\* has_work: an item that a worker would process again
Reworkable == {"pending", "staged", "active", "retryable", "canceled"}
ResumeJob(c) ==
    /\ job.repair = "none"
    /\ ~CleanupPending
    /\ \/ job.status = "stale"
       \/ /\ job.status \in {"canceled", "partial", "failed"}
          /\ \E i \in Items : item[i] \in Reworkable
    /\ Request(c, "resume")

ResumeOf(row) == [row EXCEPT !.status = "queued", !.cancel = FALSE, !.owner = 0]
ResumeJobWrite(c) ==
    LET seen == thread[c].seen IN
    /\ thread[c].pc = "resume"
    /\ job' = Flush(thread[c].read, ResumeOf(thread[c].read))
    /\ item' = [i \in Items |->
            Flushed(item[i], seen[i],
                    IF seen[i] \in Reworkable \ {"staged"} THEN "pending"
                    ELSE seen[i])]
    /\ \E w \in Workers :
          /\ thread[w].pc = "idle"
          /\ thread' = [thread EXCEPT ![c] = Idle, ![w] = [@ EXCEPT !.pc = "start"]]
    /\ WriteOver(c)
    /\ UNCHANGED <<gen, fresh, manifest, dirty, promoting, faults, requests>>

-----------------------------------------------------------------------------
(* The environment *)

\* The process stops and starts again; the database keeps what was committed.
Crash ==
    /\ Fault
    /\ thread' = [t \in Threads |-> Idle]
    /\ promoting' = FALSE
    /\ UNCHANGED <<job, gen, fresh, manifest, item, dirty, history, requests>>

\* image_download_stale_after_seconds pass without a heartbeat: always so once
\* no thread holds the claim, a fault (a stall) while one does.
Lapse ==
    /\ job.status = "running"
    /\ fresh
    /\ fresh' = FALSE
    /\ IF \E t \in Threads : Holds(t) THEN Fault ELSE UNCHANGED faults
    /\ UNCHANGED <<job, gen, manifest, item, dirty, thread, promoting, history,
                   requests>>

-----------------------------------------------------------------------------
ItemAction(t) == \/ ItemProgress(t) \/ ItemRetry(t) \/ ItemComplete(t)
                 \/ ItemFailed(t) \/ ItemCanceled(t) \/ ItemClaimLost(t)
Completion(t) == \/ Audit(t) \/ BeginManifest(t) \/ BeginManifestFinalization(t)
                 \/ PublishManifest(t) \/ FinishJob(t) \/ DeferManifestRepair(t)
Worker(t) == \/ ClaimJob(t) \/ NextItem(t) \/ ClaimItem(t) \/ ItemAction(t)
             \/ WorkerFailAll(t) \/ Completion(t)
RepairStep == \/ RepairScan \/ ClaimManifestRepairJob \/ SetManifestRepairTarget
           \/ RepairAudit \/ RepairFailAll \/ RepairCheck \/ Completion(Repairer)
Recovery == \/ RecoverStaleJobs \/ PromoteCleanupReadyJobs
            \/ \E i \in Items : CleanupPartItem(i)
Write(c) == CancelJobWrite(c) \/ ResumeJobWrite(c)
Failure == \/ \E t \in Workers : WorkerFailure(t) \/ ManifestFails(t)
           \/ RepairFailure \/ ManifestFails(Repairer)
           \/ Crash \/ Lapse

Next ==
    \/ StartJob
    \/ \E t \in Workers : Worker(t)
    \/ RepairStep
    \/ Recovery
    \/ \E c \in Callers : CancelJob(c) \/ ResumeJob(c) \/ Write(c)
    \/ Failure

Spec == Init /\ [][Next]_vars

\* Threads run on; the scheduler's passes repeat; a dead claim's heartbeat gets
\* old; a cleanup that is retried often enough succeeds.
Fairness ==
    /\ \A t \in Workers : WF_vars(Worker(t))
    /\ \A c \in Callers : WF_vars(Write(c))
    /\ WF_vars(RepairStep)
    /\ WF_vars(RecoverStaleJobs)
    /\ WF_vars(PromoteCleanupReadyJobs)
    /\ \A i \in Items : WF_vars(CleanupPartItem(i))
    /\ WF_vars(Lapse /\ faults' = faults)
FairSpec == Spec /\ Fairness

-----------------------------------------------------------------------------
(* Properties *)

\* _check_cancel_or_claim and every claim-conditional UPDATE admit at most one
\* thread at a time, whatever stalls, crashes and takeovers came before.
ExclusiveClaim ==
    \A t, u \in Threads : Holds(t) /\ Holds(u) => t = u

\* A job that _finish_job has closed is free of any claim, waits for no .part
\* cleanup and names a manifest, until resume_job reopens it.
TerminalSettled ==
    job.status \in Terminal =>
        /\ job.owner = 0
        /\ manifest.status # "none"
        /\ ~CleanupPending

\* The manifest of a closed job states its items' statuses and the job's status,
\* unless a worker's _finish_job raised: then the handler of run_job publishes the
\* end that is on record once more and closes the row as FAILED.
ManifestAgrees ==
    job.status \in Terminal /\ ~overtaken =>
        /\ manifest.items = item
        /\ manifest.status = job.status \/ (thrown /\ job.status = "failed")

\* PENDING and REPAIRING jobs stay off the acquisition queue.
RepairNotQueued == job.status = "queued" => job.repair = "none"

\* Until a flush writes over a row that has moved on, a job is in the repair path
\* exactly while its intended end is on record; only a repair worker's job is
\* REPAIRING and only a running job is claimed.
RepairIntent ==
    ~overtaken =>
        /\ (job.repair = "none") <=> (job.target = "none")
        /\ job.repair = "repairing" => job.status = "running"
        /\ RepairNotQueued
        /\ job.owner # 0 <=> job.status = "running"

\* Once cancellation_requested is set, a completion that is still to come, by
\* the worker or a repair, closes the job as CANCELED and as nothing else.
CancelWins ==
    [][job.cancel /\ job.status \notin Terminal /\ job'.status \in Terminal
        => job'.status = "canceled"]_vars

\* A job on the repair path reaches a terminal status without going back to the
\* acquisition queue.
RepairNeverRequeued ==
    [][job.repair # "none" /\ job'.repair = "none" => job'.status \in Terminal]_vars

\* A job that waits for its manifest repair is closed in the end, unless a flush
\* writes over a row that has moved on.
RepairSettles == RepairWaits ~> (job.status \in Terminal \/ overtaken)

\* The row with its claim, for whoever works on one file of the job: recovery,
\* repair, cancel_job and resume_job all keep to the lease (see ManifestStore).
\* Once a flush has written over a row that had moved on, steps may also reopen
\* the row or drop its claim, but none grants a claim twice or closes a job that
\* its holder did not close.
Phase == CASE job.status \in {"queued", "stale"} -> "open"
           [] job.status = "running" -> "running"
           [] OTHER -> "closed"
Lease == INSTANCE JobLease WITH phase <- Phase, owner <- job.owner
LeaseSpec ==
    /\ Lease!Init
    /\ [][Lease!Next \/ (overtaken' /\ Lease!Overwrite)]_<<Phase, job.owner, gen>>
=============================================================================
