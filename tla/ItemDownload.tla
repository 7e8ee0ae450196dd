---------------------------- MODULE ItemDownload ----------------------------
(***************************************************************************)
(* One item of an acquisition job and its .part file: _process_item from   *)
(* the attempt to the import, with the file operations and the             *)
(* transactions of _download_and_validate as steps of their own; the three *)
(* phases of _cleanup_part_item; recover_stale_jobs, cancellation and      *)
(* resume_job as far as they touch the item.                               *)
(*                                                                         *)
(* The image has Chunks chunks and does not change at its source.  Of the  *)
(* job row only the claim is left, which evolves as JobLease allows; a job *)
(* that waits for its manifest repair is "deferred" and stays so.          *)
(***************************************************************************)
EXTENDS Naturals

CONSTANTS
    Workers,        \* threads in run_job, each with a token of its own
    Sweepers,       \* threads in recover_part_cleanup_jobs
    NoOne,          \* no cleanup claim
    Chunks,         \* size of the image
    MaxAttempts,    \* image_download_retry_max_attempts
    WorkerStalls,   \* labels at which a worker may sit until its claim is stale
    CleanerStalls,  \* the same for a cleanup claim
    MaxClaims,      \* generations (a bound)
    MaxFaults       \* crashes and failing cleanup operations (a bound)

Cleaners == Workers \cup Sweepers

ASSUME BoundsAssumption ==
    /\ Chunks \in Nat \ {0} /\ MaxAttempts \in Nat
    /\ MaxClaims \in Nat /\ MaxFaults \in Nat
ASSUME CleanersAssumption ==
    NoOne \notin Cleaners /\ Workers \cap Sweepers = {}

VARIABLES
    phase, owner, gen,   \* the job row, as in JobLease
    item,                \* the item's row
    part,                \* the file at part_relative_path
    asset,               \* the imported original and its source link
    worker,              \* worker[w]: what thread w is doing
    cleaner,             \* cleaner[c]: where c is in _cleanup_part_item
    faults

row == <<phase, owner, gen>>
vars == <<phase, owner, gen, item, part, asset, worker, cleaner, faults>>

\* "staged" stands for DOWNLOADED, VALIDATING and VALIDATED, "imported" for
\* IMPORTED, LINKED_EXISTING and SKIPPED.
Status == {"pending", "downloading", "staged", "validation_pending",
           "importing", "imported", "failed", "canceled"}
Item == [status : Status, retryable : BOOLEAN, attempts : 0..MaxAttempts,
         received : Nat, ranged : BOOLEAN,
         warning : BOOLEAN, claim : Cleaners \cup {NoOne}]

\* A file of "size" chunks; "good" says that they are the image's first ones.
Part == [there : BOOLEAN, size : Nat, good : BOOLEAN]
Absent == [there |-> FALSE, size |-> 0, good |-> TRUE]
Empty == [there |-> TRUE, size |-> 0, good |-> TRUE]

Label == {"start", "source", "prepare", "resume", "request", "truncate",
          "restart", "meta", "open", "chunk", "write", "record", "inspect",
          "verified", "copy", "commit", "complete", "cleaning", "finish"}
CleanLabel == {"claim", "recheck", "unlink", "succeeded", "failed"}

\* Here a worker has checked its claim and is about to change the file.
BetweenCheckAndFile == {"resume", "truncate", "restart", "open", "write"}

\* "file" is the handle: "lost" when what it writes to was unlinked.  "next" is
\* the chunk the response sends, "at" the local variable received.
Worker == [pc : Label \cup {"idle"}, claim : Nat, validate : BOOLEAN,
           file : {"none", "open", "lost"}, append : BOOLEAN,
           next : Nat, at : Nat, copied : BOOLEAN]
IdleWorker == [pc |-> "idle", claim |-> 0, validate |-> FALSE, file |-> "none",
               append |-> FALSE, next |-> 0, at |-> 0, copied |-> FALSE]

TypeOK ==
    /\ phase \in {"open", "running", "closed", "deferred"}
    /\ owner \in Nat /\ gen \in Nat
    /\ item \in Item
    /\ part \in Part
    /\ asset \in {"none", "good", "bad"}
    /\ worker \in [Workers -> Worker]
    /\ cleaner \in [Cleaners -> CleanLabel \cup {"idle"}]
    /\ faults \in 0..MaxFaults

Init ==
    /\ phase = "open" /\ owner = 0 /\ gen = 0
    /\ item = [status |-> "pending", retryable |-> FALSE, attempts |-> 0,
               received |-> 0, ranged |-> FALSE,
               warning |-> FALSE, claim |-> NoOne]
    /\ part = Absent
    /\ asset = "none"
    /\ worker = [w \in Workers |-> IdleWorker]
    /\ cleaner = [c \in Cleaners |-> "idle"]
    /\ faults = 0

-----------------------------------------------------------------------------
\* mutant: the generation and the token are not compared
HoldsByStatus(w) == phase = "running" /\ worker[w].claim # 0

\* Every UPDATE and check of a worker asks for the claim.
Holds(w) == phase = "running" /\ worker[w].claim # 0 /\ owner = worker[w].claim

At(w, label) == worker[w].pc = label
Becomes(w, state) == worker' = [worker EXCEPT ![w] = state]
Go(w, label) == Becomes(w, [worker[w] EXCEPT !.pc = label])
Leave(w) == Becomes(w, IdleWorker)
\* The handle is closed and the locals are gone.
Closed(w, label) ==
    [IdleWorker EXCEPT !.pc = label, !.claim = worker[w].claim,
                       !.validate = worker[w].validate]
Fault == faults < MaxFaults /\ faults' = faults + 1

\* _job_has_cleanup_pending; part_cleanup_next_retry_at is set only together
\* with a warning.
CleanupPending == item.warning \/ item.claim # NoOne

Ended == \/ item.status \in {"imported", "canceled"}
         \/ item.status = "failed" /\ ~item.retryable

-----------------------------------------------------------------------------
(* _process_item *)

\* mutant: a pending cleanup is not asked for
JobFreeByRow == phase = "open"

JobFree == phase = "open" /\ ~CleanupPending

\* _claim_job, _next_item and _claim_item.  A canceled item waits for resume_job.
ClaimItem(w) ==
    /\ At(w, "idle")
    /\ cleaner[w] = "idle"
    /\ JobFree /\ item.status # "canceled"
    /\ gen < MaxClaims
    /\ phase' = "running" /\ owner' = gen + 1 /\ gen' = gen + 1
    /\ item' = IF item.status = "pending"
               THEN [item EXCEPT !.status = "downloading"] ELSE item
    /\ Becomes(w, [IdleWorker EXCEPT
           !.pc = IF Ended THEN "finish" ELSE "start",
           !.claim = gen + 1,
           !.validate = item.status = "validation_pending"])
    /\ UNCHANGED <<part, asset, cleaner, faults>>

StartAttempt(w) ==
    /\ At(w, "start") /\ Holds(w)
    /\ item.attempts < MaxAttempts
    /\ item' = [item EXCEPT !.attempts = @ + 1]
    /\ Go(w, "source")
    /\ UNCHANGED <<row, part, asset, cleaner, faults>>

\* _source_link_exists, or _validate_staged_part begins.
LinkOrValidate(w) ==
    /\ At(w, "source") /\ Holds(w)
    /\ \/ /\ asset # "none"
          /\ Go(w, "complete")
          /\ UNCHANGED item
       \/ /\ asset = "none" /\ worker[w].validate
          /\ item' = [item EXCEPT !.status = "staged"]
          /\ Go(w, "inspect")
    /\ UNCHANGED <<row, part, asset, cleaner, faults>>

\* _download_and_validate sets DOWNLOADING; "at" and "append" hold what the row
\* says of the file until _resume_start decides.
Prepare(w) ==
    /\ \/ At(w, "source") /\ asset = "none" /\ ~worker[w].validate
       \/ At(w, "prepare")
    /\ Holds(w)
    /\ item' = [item EXCEPT !.status = "downloading"]
    /\ Becomes(w, [worker[w] EXCEPT !.pc = "resume", !.at = item.received,
                                    !.append = item.ranged])
    /\ UNCHANGED <<row, part, asset, cleaner, faults>>

ResumeStart(w) ==
    LET known == worker[w].at = part.size
        resume == /\ part.there /\ part.size \in 1..Chunks-1
                  /\ known /\ worker[w].append
        unknown == part.there /\ part.size > 0 /\ ~known
    IN
    /\ At(w, "resume")
    /\ part' = IF unknown THEN Empty ELSE part
    /\ Becomes(w, [worker[w] EXCEPT !.pc = "request", !.append = resume,
                                    !.next = IF resume THEN part.size ELSE 0,
                                    !.at = 0])
    /\ UNCHANGED <<row, item, asset, cleaner, faults>>

\* mutant: the start in Content-Range is not compared
RangeAccepted(w, first) == TRUE

\* _validate_range_response: what a 206 sends begins where the file ends.
ValidRange(w, first) == first = worker[w].next

\* The claim is checked before and after the request and when the response is
\* recorded: 206, 200 or 416.  Another 206 fails the attempt.
Respond(w) ==
    /\ At(w, "request") /\ Holds(w)
    /\ \/ ~worker[w].append /\ Go(w, "meta")
       \/ /\ worker[w].append
          /\ \E first \in 0..Chunks-1 :
                /\ ValidRange(w, first)
                /\ Becomes(w, [worker[w] EXCEPT !.pc = "meta", !.next = first])
       \/ /\ worker[w].append
          /\ Becomes(w, [worker[w] EXCEPT !.pc = "truncate", !.append = FALSE,
                                          !.next = 0])
       \/ worker[w].append /\ Go(w, "restart")
    /\ UNCHANGED <<row, item, part, asset, cleaner, faults>>

\* _truncate_part, for a 200 to a Range request or before the next request.
TruncatePart(w) ==
    /\ worker[w].pc \in {"truncate", "restart"}
    /\ part' = Empty
    /\ Go(w, IF At(w, "truncate") THEN "meta" ELSE "prepare")
    /\ UNCHANGED <<row, item, asset, cleaner, faults>>

\* The server says whether it accepts ranges.
UpdateResponseMetadata(w) ==
    LET received == IF worker[w].append /\ part.there THEN part.size ELSE 0 IN
    /\ At(w, "meta") /\ Holds(w)
    /\ \E ranged \in BOOLEAN :
          item' = [item EXCEPT !.received = received, !.ranged = ranged]
    /\ Becomes(w, [worker[w] EXCEPT !.pc = "open", !.at = received])
    /\ UNCHANGED <<row, part, asset, cleaner, faults>>

\* Mode "ab" keeps what is there, "wb" does not.
OpenPart(w) ==
    /\ At(w, "open")
    /\ part' = IF worker[w].append /\ part.there THEN part ELSE Empty
    /\ Becomes(w, [worker[w] EXCEPT !.pc = "chunk", !.file = "open"])
    /\ UNCHANGED <<row, item, asset, cleaner, faults>>

NextChunk(w) ==
    /\ At(w, "chunk") /\ Holds(w)
    /\ worker[w].next < Chunks
    /\ Go(w, "write")
    /\ UNCHANGED <<row, item, part, asset, cleaner, faults>>

\* Mode "ab" writes at the end of the file, "wb" at its own position, over what
\* is there or past a hole.
Written(w) ==
    LET next == worker[w].next IN
    IF worker[w].append
    THEN [part EXCEPT !.size = @ + 1, !.good = @ /\ part.size = next]
    ELSE [part EXCEPT !.size = IF @ > next THEN @ ELSE next + 1,
                      !.good = @ /\ part.size >= next]

WriteChunk(w) ==
    /\ At(w, "write")
    /\ part' = IF worker[w].file = "open" THEN Written(w) ELSE part
    /\ Becomes(w, [worker[w] EXCEPT !.pc = "record", !.next = @ + 1, !.at = @ + 1])
    /\ UNCHANGED <<row, item, asset, cleaner, faults>>

UpdateReceived(w) ==
    /\ At(w, "record") /\ Holds(w)
    /\ item' = [item EXCEPT !.received = worker[w].at]
    /\ Go(w, "chunk")
    /\ UNCHANGED <<row, part, asset, cleaner, faults>>

\* The stream is complete: the file is closed, DOWNLOADED and VALIDATING are set.
EndOfStream(w) ==
    /\ At(w, "chunk") /\ Holds(w)
    /\ worker[w].next = Chunks /\ worker[w].at = Chunks
    /\ item' = [item EXCEPT !.status = "staged"]
    /\ Becomes(w, Closed(w, "inspect"))
    /\ UNCHANGED <<row, part, asset, cleaner, faults>>

Verified == part.there /\ part.size = Chunks /\ part.good

\* inspect_image; what it does not accept fails the item.
Inspect(w) ==
    /\ At(w, "inspect") /\ Verified
    /\ Go(w, "verified")
    /\ UNCHANGED <<row, item, part, asset, cleaner, faults>>

SetImporting(w) ==
    /\ At(w, "verified") /\ Holds(w)
    /\ item' = [item EXCEPT !.status = "importing"]
    /\ Go(w, "copy")
    /\ UNCHANGED <<row, part, asset, cleaner, faults>>

\* import_verified links an existing image, or copies the file as it is now.  A
\* file that is cut short yields no thumbnail.
CopyPart(w) ==
    /\ At(w, "copy")
    /\ \/ asset # "none" /\ Go(w, "complete")
       \/ /\ asset = "none" /\ part.there /\ part.size >= Chunks
          /\ Becomes(w, [worker[w] EXCEPT !.pc = "commit",
                             !.copied = part.good /\ part.size = Chunks])
    /\ UNCHANGED <<row, item, part, asset, cleaner, faults>>

\* The rename and the commit; the source link is unique.
CommitImport(w) ==
    /\ At(w, "commit") /\ asset = "none"
    /\ asset' = IF worker[w].copied THEN "good" ELSE "bad"
    /\ Go(w, "complete")
    /\ UNCHANGED <<row, item, part, cleaner, faults>>

\* mutant: the item ends before its cleanup is recorded
CompletedUnmarked ==
    [item EXCEPT !.status = "imported", !.retryable = FALSE]

Completed ==
    [item EXCEPT !.status = "imported", !.retryable = FALSE,
                 !.warning = TRUE, !.claim = NoOne]
SetItemComplete(w) ==
    /\ At(w, "complete") /\ Holds(w)
    /\ item' = Completed
    /\ cleaner' = [cleaner EXCEPT ![w] = "claim"]
    /\ Becomes(w, Closed(w, "cleaning"))
    /\ UNCHANGED <<row, part, asset, faults>>

\* Where the transport or the disk may fail for now, and where the source, the
\* response, the image or the database may refuse for good.
Interruptible == {"source", "resume", "request", "truncate", "restart", "open",
                  "chunk", "write"}
Refusable == {"source", "prepare", "request", "meta", "chunk", "record",
              "inspect", "verified", "copy", "commit", "complete"}

\* A retryable failure: _record_attempt_failure and the backoff.
RecordAttemptFailure(w) ==
    /\ worker[w].pc \in Interruptible /\ Holds(w)
    /\ item.attempts < MaxAttempts
    /\ item' = [item EXCEPT !.status = "failed", !.retryable = TRUE,
                            !.warning = FALSE, !.claim = NoOne]
    /\ Becomes(w, Closed(w, "start"))
    /\ UNCHANGED <<row, part, asset, cleaner, faults>>

\* A final failure, or the attempts are used up.
SetItemFailure(w) ==
    /\ \/ worker[w].pc \in Refusable
       \/ item.attempts = MaxAttempts /\ worker[w].pc \in Interruptible \cup {"start"}
    /\ Holds(w)
    /\ item' = [item EXCEPT !.status = "failed", !.retryable = FALSE,
                            !.warning = TRUE, !.claim = NoOne]
    /\ cleaner' = [cleaner EXCEPT ![w] = "claim"]
    /\ Becomes(w, Closed(w, "cleaning"))
    /\ UNCHANGED <<row, part, asset, faults>>

\* _Canceled, where the request is polled; the file is kept for resume_job.
CancelItem(w) ==
    /\ worker[w].pc \in {"start", "source", "request", "chunk", "verified"}
    /\ Holds(w)
    /\ item' = [item EXCEPT !.status = "canceled", !.retryable = FALSE,
                            !.warning = FALSE, !.claim = NoOne]
    /\ Becomes(w, Closed(w, "finish"))
    /\ UNCHANGED <<row, part, asset, cleaner, faults>>

\* _complete_claimed_job: closed, or deferred while a cleanup is pending.
FinishJob(w) ==
    /\ At(w, "finish") \/ At(w, "cleaning")
    /\ cleaner[w] = "idle"
    /\ Holds(w)
    /\ phase' = IF CleanupPending THEN "deferred" ELSE "closed"
    /\ owner' = 0 /\ gen' = gen
    /\ Leave(w)
    /\ UNCHANGED <<item, part, asset, cleaner, faults>>

\* A check, an UPDATE or the record of a failure finds the claim gone.
ClaimLost(w) ==
    /\ ~At(w, "idle") /\ ~Holds(w)
    /\ cleaner[w] = "idle"
    /\ Leave(w)
    /\ UNCHANGED <<row, item, part, asset, cleaner, faults>>

-----------------------------------------------------------------------------
(* _cleanup_part_item, by a worker for the item it ended or by a sweeper with *)
(* include_pending *)

Cleanable(c) ==
    /\ IF c \in Workers
       THEN Ended /\ Holds(c)
       ELSE \/ Ended
            \/ item.status = "pending" /\ phase \in {"open", "deferred"}
    /\ ~item.retryable

\* part_cleanup_claimed_at is before the cutoff: the cleaner is gone, or sits
\* at a label of CleanerStalls.
Aged(c) == c # NoOne /\ cleaner[c] \in {"idle", "claim"} \cup CleanerStalls

Moves(c, label) == cleaner' = [cleaner EXCEPT ![c] = label]
ClaimFree == item.claim = NoOne \/ Aged(item.claim)

\* The list of a sweep, read in a session of its own: each item of it is tried
\* once, however long ago it was listed.
Candidate(c) == Cleanable(c) /\ item.warning /\ ClaimFree
SelectCandidate(c) ==
    /\ c \in Sweepers /\ cleaner[c] = "idle"
    /\ Candidate(c)
    /\ Moves(c, "claim")
    /\ UNCHANGED <<row, item, part, asset, worker, faults>>

Claimable(c) == Cleanable(c) /\ item.warning /\ ClaimFree

\* Phase A.  A later retry time only delays it.
ClaimCleanup(c) ==
    /\ cleaner[c] = "claim" /\ Claimable(c)
    /\ item' = [item EXCEPT !.claim = c]
    /\ Moves(c, "recheck")
    /\ UNCHANGED <<row, part, asset, worker, faults>>

\* _part_cleanup_claim_conditions
StillClaimed(c) == Cleanable(c) /\ item.claim = c

\* Phase B, in a session of its own, and then the file.
RecheckCleanup(c) ==
    /\ cleaner[c] = "recheck"
    /\ StillClaimed(c) /\ item.warning
    /\ Moves(c, "unlink")
    /\ UNCHANGED <<row, item, part, asset, worker, faults>>

UnlinkPart(c) ==
    /\ cleaner[c] = "unlink"
    /\ part' = Absent
    /\ worker' = [w \in Workers |->
           [worker[w] EXCEPT !.file = IF @ = "open" THEN "lost" ELSE @]]
    /\ Moves(c, "succeeded")
    /\ UNCHANGED <<row, item, asset, faults>>

\* A path that is not safe, or an unlink or fsync that fails.
UnlinkFails(c) ==
    /\ cleaner[c] = "unlink"
    /\ Fault
    /\ Moves(c, "failed")
    /\ UNCHANGED <<row, item, part, asset, worker>>

\* Phase C.
RecordCleanup(c) ==
    /\ cleaner[c] \in {"succeeded", "failed"}
    /\ StillClaimed(c)
    /\ item' = [item EXCEPT !.warning = cleaner[c] = "failed", !.claim = NoOne]
    /\ Moves(c, "idle")
    /\ UNCHANGED <<row, part, asset, worker, faults>>

\* CLAIM_CONFLICT: the row is left as it is.
CleanupConflict(c) ==
    /\ \/ cleaner[c] = "claim" /\ ~Claimable(c)
       \/ cleaner[c] = "recheck" /\ ~(StillClaimed(c) /\ item.warning)
       \/ cleaner[c] \in {"succeeded", "failed"} /\ ~StillClaimed(c)
    /\ Moves(c, "idle")
    /\ UNCHANGED <<row, item, part, asset, worker, faults>>

\* DATABASE_ERROR, or the claim is too old by now: a claim that was made stays.
CleanupError(c) ==
    /\ cleaner[c] \in {"claim", "recheck", "succeeded", "failed"}
    /\ Fault
    /\ Moves(c, "idle")
    /\ UNCHANGED <<row, item, part, asset, worker>>

-----------------------------------------------------------------------------
(* recover_stale_jobs, resume_job, crashes *)

\* _stale_part_path: nothing but a regular file under the job's directory
StalePart == part.there
\* _part_matches_item
PartMatches == StalePart /\ part.size = item.received

\* What the file holds is given up.
Reset(i) == [i EXCEPT !.warning = TRUE, !.claim = NoOne,
                      !.received = 0, !.ranged = FALSE]
\* _recover_importing_item: the import was committed, only the row was not
ImportWasCommitted == item.status = "importing" /\ asset # "none"
ImportRecovered ==
    [Reset(item) EXCEPT !.status = "imported", !.retryable = FALSE]
Recovered ==
    LET target == IF item.status = "staged" /\ PartMatches
                  THEN "validation_pending" ELSE "pending"
        next == [item EXCEPT !.status = target, !.retryable = FALSE]
    IN
    CASE ImportWasCommitted -> ImportRecovered
      [] Ended -> [item EXCEPT !.claim = IF item.warning THEN NoOne ELSE @]
      [] item.status = "failed" /\ item.retryable ->
             [next EXCEPT !.warning = FALSE, !.claim = NoOne]
      [] OTHER -> IF PartMatches THEN next ELSE Reset(next)

TakeOver ==
    /\ phase = "running"
    /\ \A w \in Workers : Holds(w) => worker[w].pc \in WorkerStalls
    /\ phase' = "open" /\ owner' = 0 /\ gen' = gen + 1
    /\ item' = Recovered
    /\ UNCHANGED <<part, asset, worker, cleaner, faults>>

ResumeJob ==
    /\ phase = "closed" /\ ~CleanupPending
    /\ item.status = "canceled"
    /\ gen < MaxClaims
    /\ phase' = "open"
    /\ item' = [item EXCEPT !.status = "pending"]
    /\ UNCHANGED <<owner, gen, part, asset, worker, cleaner, faults>>

Crash ==
    /\ Fault
    /\ worker' = [w \in Workers |-> IdleWorker]
    /\ cleaner' = [c \in Cleaners |-> "idle"]
    /\ UNCHANGED <<row, item, part, asset>>

Download(w) == \/ StartAttempt(w) \/ LinkOrValidate(w) \/ Prepare(w)
               \/ ResumeStart(w) \/ Respond(w) \/ TruncatePart(w)
               \/ UpdateResponseMetadata(w) \/ OpenPart(w) \/ NextChunk(w)
               \/ WriteChunk(w) \/ UpdateReceived(w) \/ EndOfStream(w)
Import(w) == \/ Inspect(w) \/ SetImporting(w) \/ CopyPart(w) \/ CommitImport(w)
             \/ SetItemComplete(w)
Ends(w) == \/ RecordAttemptFailure(w) \/ SetItemFailure(w) \/ CancelItem(w)
           \/ FinishJob(w) \/ ClaimLost(w)
Clean(c) == \/ SelectCandidate(c) \/ ClaimCleanup(c) \/ RecheckCleanup(c)
            \/ UnlinkPart(c) \/ RecordCleanup(c) \/ CleanupConflict(c)
CleanFails(c) == UnlinkFails(c) \/ CleanupError(c)

Next == \/ \E w \in Workers : ClaimItem(w) \/ Download(w) \/ Import(w) \/ Ends(w)
        \/ \E c \in Cleaners : Clean(c) \/ CleanFails(c)
        \/ TakeOver \/ ResumeJob \/ Crash

Spec == Init /\ [][Next]_vars

\* Threads run on, requests time out, and the scheduler recovers stale claims
\* and cleans up again and again.
Fairness ==
    /\ \A w \in Workers : WF_vars(Download(w) \/ Import(w) \/ Ends(w))
    /\ \A c \in Cleaners : WF_vars(Clean(c))
    /\ WF_vars(TakeOver)
FairSpec == Spec /\ Fairness

-----------------------------------------------------------------------------
(* Properties *)

\* What is registered as an image is what inspect_image accepted (README.md:307).
ImportedIsVerified == asset # "bad"

\* Whatever interrupted the downloads, the file holds the first chunks of the
\* image and nothing else, so that a Range request can continue it.
PartIsPrefix == part.good

\* The file is removed only when its item has ended for good, or while the item
\* waits, reset, in a job that no worker holds: never under a download, and
\* never what a retry or a canceled item keeps (DEVELOPMENT_PLAN.md:336).
OnlyDeadPartsRemoved ==
    [][part.there /\ ~part'.there =>
        \/ item.status = "imported"
        \/ item.status = "failed" /\ ~item.retryable
        \/ item.status = "pending" /\ phase # "running" /\ item.received = 0]_vars

\* A file whose item has ended for good does not stay.
DeadPart == part.there /\ Ended /\ item.status # "canceled"
DeadPartsCollected == <>[]~DeadPart

=============================================================================
