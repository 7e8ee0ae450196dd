---------------------------- MODULE TrainingJob ----------------------------
(***************************************************************************)
(* The training jobs of one project: their rows in training_jobs, the      *)
(* trainer processes, the one thread of TrainingService's executor that    *)
(* runs _run_job, the callers that create, resume, start and cancel jobs,  *)
(* and the reconciliation of reconcile_stale_jobs when the application     *)
(* starts again.                                                           *)
(*                                                                         *)
(* The rows are changed by SELECT, a decision, and a flush that names only *)
(* the primary key and the columns that changed: the SELECT and the flush  *)
(* are steps of their own wherever another thread can write the same row   *)
(* in between.  A trainer is started in a session of its own and outlives  *)
(* the application.  Progress, metrics, measurements and heartbeats change *)
(* no state that is modelled here; how old a heartbeat is when the         *)
(* application starts again is left open.                                  *)
(***************************************************************************)
EXTENDS Naturals

CONSTANTS
    Callers,       \* threads of the UI
    MaxJobs,       \* jobs the project gets (a bound)
    MaxFaults      \* crashes and exceptions (a bound)

ASSUME BoundsAssumption == MaxJobs \in Nat /\ MaxFaults \in Nat

Jobs == 1..MaxJobs

Ended == {"canceled", "succeeded", "failed", "stale"}
\* TrainingService._active_statuses and the index uq_training_jobs_active_project
Active == {"queued", "starting", "running", "cancel_requested"}
Status == {"none"} \cup Active \cup Ended

\* TrainingJobStateMachine._transitions
Transitions ==
    {<<"queued", "starting">>,
     <<"starting", "running">>, <<"starting", "cancel_requested">>,
     <<"starting", "failed">>, <<"starting", "stale">>,
     <<"running", "cancel_requested">>, <<"running", "succeeded">>,
     <<"running", "failed">>, <<"running", "stale">>,
     <<"cancel_requested", "canceled">>, <<"cancel_requested", "failed">>,
     <<"cancel_requested", "stale">>,
     <<"stale", "failed">>}

\* "stopping" after SIGTERM, which a trainer may ignore, "killed" after SIGKILL;
\* "zero" and "nonzero" are exit codes.
Live == {"running", "stopping", "killed"}
Exit == {"zero", "nonzero"}
Process == {"none"} \cup Live \cup Exit

Label == {"prepare", "start", "mark", "marking", "poll", "check", "finish",
          "finishing", "stop", "fail", "failing"}

VARIABLES
    up,          \* the application runs
    job,         \* job[j]: the row; "none" before it is inserted
    proc,        \* proc[j]: the trainer of job j
    submitted,   \* jobs that wait in the executor's queue
    worker,      \* what the executor's thread is doing
    caller,      \* caller[c]: the row that c read and has not written yet
    adrift,      \* history: the trainers that were given up while they ran
    faults

vars == <<up, job, proc, submitted, worker, caller, adrift, faults>>

\* "parent" is parent_job_id, 0 for NULL; "pid" says that the columns pid,
\* process_group_id and process_identity are set.
Row == [status : Status, cancel : BOOLEAN, pid : BOOLEAN, parent : Nat]
NoRow == [status |-> "none", cancel |-> FALSE, pid |-> FALSE, parent |-> 0]

\* "seen" is the status of the row as the thread read it, "exit" the exit code
\* of the last poll, "sent" cancel_sent and "armed" kill_deadline is not None.
Worker == [pc : Label \cup {"idle"}, job : Nat, seen : Status,
           exit : Exit \cup {"none"}, cancel : BOOLEAN,
           sent : BOOLEAN, armed : BOOLEAN]
IdleWorker == [pc |-> "idle", job |-> 0, seen |-> "none", exit |-> "none",
               cancel |-> FALSE, sent |-> FALSE, armed |-> FALSE]
Caller == [pc : {"idle", "submit", "cancel"}, job : Nat, seen : Status]
IdleCaller == [pc |-> "idle", job |-> 0, seen |-> "none"]

TypeOK ==
    /\ up \in BOOLEAN
    /\ job \in [Jobs -> Row]
    /\ proc \in [Jobs -> Process]
    /\ submitted \in SUBSET Jobs
    /\ worker \in Worker
    /\ worker.pc # "idle" => worker.job \in Jobs
    /\ caller \in [Callers -> Caller]
    /\ \A c \in Callers : caller[c].pc # "idle" => caller[c].job \in Jobs
    /\ adrift \in SUBSET Jobs
    /\ faults \in 0..MaxFaults

Init ==
    /\ up = TRUE
    /\ job = [j \in Jobs |-> NoRow]
    /\ proc = [j \in Jobs |-> "none"]
    /\ submitted = {}
    /\ worker = IdleWorker
    /\ caller = [c \in Callers |-> IdleCaller]
    /\ adrift = {} /\ faults = 0

-----------------------------------------------------------------------------
(* helpers *)

Fault == faults < MaxFaults /\ faults' = faults + 1
Alive(j) == proc[j] \in Live
NoneActive == \A j \in Jobs : job[j].status \notin Active
SetStatus(j, status) == job' = [job EXCEPT ![j].status = status]

\* The unique index lets a row become active only if no other one is.
IndexAdmits(j) == \A k \in Jobs \ {j} : job[k].status \notin Active

At(label) == worker.pc = label
Go(label) == worker' = [worker EXCEPT !.pc = label]
\* Another function starts; the locals of the one left are gone.
Fresh(label) == [IdleWorker EXCEPT !.pc = label, !.job = worker.job]

\* _process_matches: the pid of the row is the trainer's, which is alive
Matches(j) == job[j].pid /\ Alive(j)

\* mutant: the status alone decides
SourceIsSafeByRow(p) == job[p].status \in {"failed", "canceled", "stale"}

\* _source_is_safe: a job that ended has finished_at and a reason, so only its
\* pid is asked for.
SourceIsSafe(p) ==
    /\ job[p].status \in {"failed", "canceled", "stale"}
    /\ ~Matches(p)

-----------------------------------------------------------------------------
(* create_job and create_resume_job *)

\* The first free row becomes a queued job.
Inserted(parent) ==
    \E j \in Jobs :
        /\ job[j].status = "none"
        /\ \A k \in 1..(j - 1) : job[k].status # "none"
        /\ job' = [job EXCEPT ![j] =
                      [status |-> "queued", cancel |-> FALSE, pid |-> FALSE,
                       parent |-> parent]]

CreateJob ==
    /\ up /\ NoneActive
    /\ Inserted(0)
    /\ UNCHANGED <<up, proc, submitted, worker, caller, adrift, faults>>

\* A second request for the same state is answered with the job of the first.
CreateResumeJob(p) ==
    /\ up /\ SourceIsSafe(p)
    /\ \A j \in Jobs : job[j].parent # p
    /\ NoneActive
    /\ Inserted(p)
    /\ UNCHANGED <<up, proc, submitted, worker, caller, adrift, faults>>

-----------------------------------------------------------------------------
(* start_job *)

\* the status, in a session of its own
StartJob(c, j) ==
    /\ up /\ caller[c].pc = "idle"
    /\ job[j].status = "queued"
    /\ caller' = [caller EXCEPT ![c] =
                     [pc |-> "submit", job |-> j, seen |-> "queued"]]
    /\ UNCHANGED <<up, job, proc, submitted, worker, adrift, faults>>

\* future is not None and not future.done()
Pending(j) == j \in submitted \/ (~At("idle") /\ worker.job = j)

\* The lock is held; a second submission of a pending job is dropped.
SubmitJob(c) ==
    /\ caller[c].pc = "submit"
    /\ submitted' = IF Pending(caller[c].job) THEN submitted
                    ELSE submitted \cup {caller[c].job}
    /\ caller' = [caller EXCEPT ![c] = IdleCaller]
    /\ UNCHANGED <<up, job, proc, worker, adrift, faults>>

\* _mark_failed takes a queued row through "starting".
CanFail(status) ==
    status \in {"queued", "failed"} \/ <<status, "failed">> \in Transitions

\* The executor takes no work: the job is failed at once.
SubmitFails(c) ==
    /\ caller[c].pc = "submit" /\ ~Pending(caller[c].job)
    /\ Fault
    /\ IF CanFail(job[caller[c].job].status)
       THEN SetStatus(caller[c].job, "failed") ELSE UNCHANGED job
    /\ caller' = [caller EXCEPT ![c] = IdleCaller]
    /\ UNCHANGED <<up, proc, submitted, worker, adrift>>

-----------------------------------------------------------------------------
(* request_cancel *)

\* A queued job is left alone, and a job that ended too.
RequestCancel(c, j) ==
    /\ up /\ caller[c].pc = "idle"
    /\ job[j].status \in Active \ {"queued"}
    /\ caller' = [caller EXCEPT ![c] =
                     [pc |-> "cancel", job |-> j, seen |-> job[j].status]]
    /\ UNCHANGED <<up, job, proc, submitted, worker, adrift, faults>>

\* The row whatever it has become; the flush fails if the index objects.
RequestCancelWrite(c) ==
    LET j == caller[c].job IN
    /\ caller[c].pc = "cancel"
    /\ IF IndexAdmits(j)
       THEN job' = [job EXCEPT ![j].cancel = TRUE,
                               ![j].status = IF caller[c].seen = "cancel_requested"
                                             THEN @ ELSE "cancel_requested"]
       ELSE UNCHANGED job
    /\ caller' = [caller EXCEPT ![c] = IdleCaller]
    /\ UNCHANGED <<up, proc, submitted, worker, adrift, faults>>

-----------------------------------------------------------------------------
(* _run_job: the job is prepared and its trainer started *)

TakeJob ==
    /\ up /\ At("idle")
    /\ \E j \in submitted :
           /\ worker' = [IdleWorker EXCEPT !.pc = "prepare", !.job = j]
           /\ submitted' = submitted \ {j}
    /\ UNCHANGED <<up, job, proc, caller, adrift, faults>>

PrepareJob ==
    /\ At("prepare")
    /\ IF job[worker.job].status = "queued"
       THEN SetStatus(worker.job, "starting") /\ Go("start")
       ELSE UNCHANGED job /\ worker' = Fresh("fail")
    /\ UNCHANGED <<up, proc, submitted, caller, adrift, faults>>

\* prepare_runtime looks at the source of a resumed job once more.
StillResumable(j) == job[j].parent \in Jobs => SourceIsSafe(job[j].parent)

StartProcess ==
    /\ At("start")
    /\ StillResumable(worker.job)
    /\ proc' = [proc EXCEPT ![worker.job] = "running"]
    /\ Go("mark")
    /\ UNCHANGED <<up, job, submitted, caller, adrift, faults>>

\* References or environment do not fit, or the trainer cannot be started.
StartFails ==
    /\ At("start")
    /\ worker' = Fresh("fail")
    /\ UNCHANGED <<up, job, proc, submitted, caller, adrift, faults>>

MarkRunning ==
    LET status == job[worker.job].status IN
    /\ At("mark")
    /\ worker' = IF status = "cancel_requested" \/ <<status, "running">> \in Transitions
                 THEN [worker EXCEPT !.seen = status, !.pc = "marking"]
                 ELSE Fresh("stop")
    /\ UNCHANGED <<up, job, proc, submitted, caller, adrift, faults>>

MarkRunningWrite ==
    /\ At("marking")
    /\ job' = [job EXCEPT ![worker.job].pid = TRUE,
                          ![worker.job].status =
                              IF worker.seen = "cancel_requested" THEN @
                              ELSE "running"]
    /\ worker' = Fresh("poll")
    /\ UNCHANGED <<up, proc, submitted, caller, adrift, faults>>

-----------------------------------------------------------------------------
(* _monitor_job *)

PollProcess ==
    /\ At("poll")
    /\ worker' = [worker EXCEPT
          !.pc = "check",
          !.exit = IF proc[worker.job] \in Exit THEN proc[worker.job] ELSE "none"]
    /\ UNCHANGED <<up, job, proc, submitted, caller, adrift, faults>>

\* killpg with SIGTERM
Terminated(j) ==
    [proc EXCEPT ![j] = IF Matches(j) /\ @ = "running" THEN "stopping" ELSE @]

AfterCheck == IF worker.exit = "none" THEN "poll" ELSE "finish"

\* mutant: no deadline is set
CheckCancelUnarmed ==
    /\ At("check")
    /\ proc' = IF job[worker.job].cancel /\ ~worker.sent
               THEN Terminated(worker.job) ELSE proc
    /\ worker' = [worker EXCEPT !.pc = AfterCheck,
                                !.cancel = job[worker.job].cancel,
                                !.sent = @ \/ job[worker.job].cancel]
    /\ UNCHANGED <<up, job, submitted, caller, adrift, faults>>

\* One round of the loop: the flag is read, SIGTERM sent the first time it is
\* found set, and the round ends before the deadline.
CheckCancel ==
    LET j == worker.job
        first == job[j].cancel /\ ~worker.sent
    IN /\ At("check")
       /\ proc' = IF first THEN Terminated(j) ELSE proc
       /\ worker' = [worker EXCEPT !.pc = AfterCheck,
                                   !.cancel = job[j].cancel,
                                   !.sent = @ \/ first,
                                   !.armed = @ \/ (first /\ Matches(j))]
       /\ UNCHANGED <<up, job, submitted, caller, adrift, faults>>

\* A later round, past the deadline.
KillProcess ==
    /\ At("check") /\ worker.sent /\ worker.armed /\ worker.exit = "none"
    /\ Matches(worker.job)
    /\ proc' = [proc EXCEPT ![worker.job] = "killed"]
    /\ worker' = [worker EXCEPT !.pc = "poll", !.armed = FALSE,
                                !.cancel = job[worker.job].cancel]
    /\ UNCHANGED <<up, job, submitted, caller, adrift, faults>>

-----------------------------------------------------------------------------
(* _finish_job, and the exception handlers of _run_job with _mark_failed *)

Outcome == IF worker.cancel THEN "canceled"
           ELSE IF worker.exit = "zero" THEN "succeeded" ELSE "failed"

FinishJob ==
    LET status == job[worker.job].status IN
    /\ At("finish")
    /\ worker' = IF status = Outcome \/ <<status, Outcome>> \in Transitions
                 THEN [worker EXCEPT !.seen = status, !.pc = "finishing"]
                 ELSE Fresh("stop")
    /\ UNCHANGED <<up, job, proc, submitted, caller, adrift, faults>>

FinishJobWrite ==
    /\ At("finishing")
    /\ IF worker.seen = Outcome THEN UNCHANGED job
       ELSE SetStatus(worker.job, Outcome)
    /\ worker' = IdleWorker
    /\ UNCHANGED <<up, proc, submitted, caller, adrift, faults>>

\* The trainer is told to stop, and not waited for.
StopProcess ==
    /\ At("stop")
    /\ proc' = Terminated(worker.job)
    /\ Go("fail")
    /\ UNCHANGED <<up, job, submitted, caller, adrift, faults>>

MarkFailed ==
    LET status == job[worker.job].status IN
    /\ At("fail")
    /\ worker' = IF CanFail(status)
                 THEN [worker EXCEPT !.seen = status, !.pc = "failing"]
                 ELSE IdleWorker
    /\ UNCHANGED <<up, job, proc, submitted, caller, adrift, faults>>

MarkFailedWrite ==
    /\ At("failing")
    /\ IF worker.seen = "failed" THEN UNCHANGED job
       ELSE SetStatus(worker.job, "failed")
    /\ worker' = IdleWorker
    /\ UNCHANGED <<up, proc, submitted, caller, adrift, faults>>

\* Nothing but the worker knows a trainer before its pid is committed.
Unrecorded == IF worker.pc \in {"mark", "marking"} THEN {worker.job} ELSE {}

\* A SELECT, a commit or a signal raises: before the trainer is started the job
\* fails, after it the trainer is stopped first, which is done only if the row
\* has its pid, and what raises in the handlers themselves ends _run_job.
Raise ==
    /\ ~At("idle")
    /\ Fault
    /\ adrift' = adrift \cup Unrecorded \cup IF At("stop") THEN {worker.job} ELSE {}
    /\ \/ worker.pc \in {"prepare", "start"} /\ worker' = Fresh("fail")
       \/ worker.pc \in {"mark", "marking", "poll", "check", "finish", "finishing"}
          /\ worker' = Fresh("stop")
       \/ worker.pc \in {"stop", "fail", "failing"} /\ worker' = IdleWorker
    /\ UNCHANGED <<up, job, proc, submitted, caller>>

-----------------------------------------------------------------------------
(* the trainer, the end of the application and its next start *)

ProcessExits(j) ==
    /\ Alive(j)
    /\ \E code \in IF proc[j] = "killed" THEN {"nonzero"} ELSE Exit :
           proc' = [proc EXCEPT ![j] = code]
    /\ UNCHANGED <<up, job, submitted, worker, caller, adrift, faults>>

\* The application ends alone or together with everything on the machine.
Crash ==
    /\ up /\ Fault
    /\ adrift' = adrift \cup Unrecorded
    /\ \/ UNCHANGED proc
       \/ proc' = [j \in Jobs |-> IF Alive(j) THEN "nonzero" ELSE proc[j]]
    /\ up' = FALSE
    /\ worker' = IdleWorker
    /\ submitted' = {}
    /\ caller' = [c \in Callers |-> IdleCaller]
    /\ UNCHANGED job

\* mutant: the process is not asked for
RestartByHeartbeat ==
    /\ ~up
    /\ up' = TRUE
    /\ \E young \in SUBSET Jobs :
           job' = [j \in Jobs |->
               IF job[j].status \in Active \ {"queued"} /\ j \notin young
               THEN [job[j] EXCEPT !.status = "stale"] ELSE job[j]]
    /\ UNCHANGED <<proc, submitted, worker, caller, adrift, faults>>

\* reconcile_stale_jobs: a live process is left alone, and so is a row whose
\* heartbeat is young or whose pid is somebody else's by now.
Restart ==
    /\ ~up
    /\ up' = TRUE
    /\ \E young \in SUBSET Jobs :
           job' = [j \in Jobs |->
               IF /\ job[j].status \in Active \ {"queued"}
                  /\ ~Matches(j) /\ j \notin young
               THEN [job[j] EXCEPT !.status = "stale"] ELSE job[j]]
    /\ UNCHANGED <<proc, submitted, worker, caller, adrift, faults>>

-----------------------------------------------------------------------------
Call(c) == \/ SubmitJob(c) \/ SubmitFails(c) \/ RequestCancelWrite(c)
           \/ \E j \in Jobs : StartJob(c, j) \/ RequestCancel(c, j)
Run == \/ TakeJob \/ PrepareJob \/ StartProcess \/ StartFails
       \/ MarkRunning \/ MarkRunningWrite
       \/ PollProcess \/ CheckCancel \/ KillProcess
       \/ FinishJob \/ FinishJobWrite
       \/ StopProcess \/ MarkFailed \/ MarkFailedWrite

Next == \/ CreateJob
        \/ \E p \in Jobs : CreateResumeJob(p)
        \/ \E c \in Callers : Call(c)
        \/ Run \/ Raise
        \/ \E j \in Jobs : ProcessExits(j)
        \/ Crash \/ Restart

Spec == Init /\ [][Next]_vars

\* The thread runs on, the deadline passes, and SIGKILL ends a process.  That a
\* trainer ends by itself or heeds SIGTERM is not assumed.
Fairness ==
    /\ WF_vars(Run) /\ SF_vars(KillProcess)
    /\ \A j \in Jobs : WF_vars(proc[j] = "killed" /\ ProcessExits(j))
FairSpec == Spec /\ Fairness

-----------------------------------------------------------------------------
(* properties *)

\* One project trains once at a time: of two trainers at most one has not been
\* told to stop, also when the application started again in between and left a
\* live process alone (training_service.py:323-328).  The exceptions are trainers
\* that were given up: the application ended, or a step failed, between the start
\* of the trainer and the commit of its pid, or the handler that is to stop it
\* failed itself.
OneTraining ==
    \A i, j \in Jobs \ adrift :
        proc[i] = "running" /\ proc[j] = "running" => i = j

\* A job is resumed only when the trainer whose state it takes has ended
\* (README.md:382): the two never write at the same time.  The one exception is
\* a trainer that was given up before its pid was committed.
ResumeAfterEnd ==
    \A j \in Jobs :
        LET p == job[j].parent
        IN  p \in Jobs /\ Alive(p) => p \in adrift /\ ~job[p].pid

\* As long as nothing crashes or raises, a cancellation that is on record while
\* the worker watches the trainer ends the job, by SIGKILL if nothing else
\* helps.
CancelSettles ==
    \A j \in Jobs :
        (worker.pc \in {"poll", "check"} /\ worker.job = j /\ job[j].cancel)
            ~> (job[j].status \in Ended \/ faults # 0)
=============================================================================
