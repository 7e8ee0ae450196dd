--------------------------- MODULE TrainingProofs ---------------------------
(***************************************************************************)
(* Theorems about TrainingJob and about TrainingProgress, which share no   *)
(* state.                                                                  *)
(*                                                                         *)
(* Neither needs an assumption beyond the types of the constants: any      *)
(* number of jobs, callers, crashes and exceptions for the one, of         *)
(* threads, writes and mishaps, any size of a chunk and any initial step   *)
(* for the other.                                                          *)
(***************************************************************************)
EXTENDS TrainingJob, TrainingProgress, SequenceTheorems, WellFoundedInduction, TLAPS

(***************************************************************************)
(* The inductive invariant.  One thread runs the jobs and the index admits *)
(* one active row, so a trainer that runs belongs to the one active job;   *)
(* the rest says which thread or row knows it.                             *)
(***************************************************************************)
OneActive ==
    \A i, j \in Jobs : job[i].status \in Active /\ job[j].status \in Active => i = j

\* a trainer that was not told to stop belongs to a job that is not over
Owned ==
    \A j \in Jobs :
        proc[j] = "running" => j \in adrift \/ job[j].status \in Active \ {"queued"}

\* a live trainer has its pid in the row, or the worker is about to write it
Known == \A j \in Jobs :
    Alive(j) => \/ job[j].pid \/ j \in adrift
                \/ worker.job = j /\ worker.pc \in {"mark", "marking"}

\* from "starting" until the pid is written, the row can only be cancelled
HandOver ==
    worker.pc \in {"start", "mark", "marking"} =>
        job[worker.job].status \in {"starting", "cancel_requested"}

\* a job that the worker has begun is not queued again
Begun ==
    worker.pc \in Label \ {"prepare", "fail", "failing"} =>
        job[worker.job].status \notin {"none", "queued"}

\* and neither is a job whose trainer was given up
GivenUp == \A j \in adrift :
    /\ job[j].status \notin {"none", "queued"}
    /\ ~(worker.job = j /\ worker.pc \in {"start", "mark", "marking"})

\* what the worker concluded from poll stays true
Polled ==
    (\/ worker.pc \in {"finish", "finishing"}
     \/ worker.pc = "check" /\ worker.exit # "none") =>
        proc[worker.job] \in Exit

\* where the worker has no trainer, or gave it up
Unattended ==
    worker.pc \in {"prepare", "start", "fail", "failing"} =>
        proc[worker.job] # "running" \/ worker.job \in adrift

Waiting ==
    /\ \A j \in submitted :
           /\ proc[j] # "running" \/ j \in adrift
           /\ worker.pc = "idle" \/ worker.job # j
    /\ \A c \in Callers :
           caller[c].pc = "submit" /\ proc[caller[c].job] = "running" =>
               \/ caller[c].job \in adrift
               \/ worker.pc # "idle" /\ worker.job = caller[c].job

\* a job whose state was taken is past its start
Spent == \A j \in Jobs :
    LET p == job[j].parent IN
    p \in Jobs =>
        /\ Alive(p) => p \in adrift /\ ~job[p].pid
        /\ job[p].status \notin {"none", "queued"}
        /\ ~(worker.job = p /\ worker.pc \in {"start", "mark", "marking"})

Down == ~up => worker.pc = "idle"

\* a row that is not there has no trainer
Absent == \A j \in Jobs : job[j].status = "none" => proc[j] = "none"

Relations ==
    /\ OneActive /\ Owned /\ Known /\ HandOver /\ Polled /\ Begun /\ GivenUp
    /\ Unattended /\ Waiting /\ Spent /\ Down /\ Absent
IInv == TypeOK /\ Relations

-----------------------------------------------------------------------------
(* the shapes of the state *)

\* Jobs are numbers, and 0 is none of them.
LEMMA JobsAreNumbers == Jobs \subseteq Nat /\ 0 \notin Jobs
  BY BoundsAssumption DEF Jobs

\* A new row is the first free one, in the state create_job gives it.
LEMMA InsertedRow ==
    ASSUME job \in [Jobs -> Row], NEW p \in Nat, Inserted(p)
    PROVE  /\ job' \in [Jobs -> Row]
           /\ \E j \in Jobs :
                 /\ job[j].status = "none"
                 /\ job'[j] = [status |-> "queued", cancel |-> FALSE,
                               pid |-> FALSE, parent |-> p]
                 /\ \A k \in Jobs \ {j} : job'[k] = job[k]
  <1>1. PICK j \in Jobs :
            /\ job[j].status = "none"
            /\ job' = [job EXCEPT ![j] = [status |-> "queued", cancel |-> FALSE,
                                         pid |-> FALSE, parent |-> p]]
    BY DEF Inserted
  <1>2. [status |-> "queued", cancel |-> FALSE, pid |-> FALSE, parent |-> p] \in Row
    BY DEF Row, Status, Active
  <1> QED BY <1>1, <1>2

\* SetStatus changes the status of one row.
LEMMA StatusBecomes ==
    ASSUME job \in [Jobs -> Row], NEW j \in Jobs, NEW status \in Status,
           SetStatus(j, status)
    PROVE  /\ job' \in [Jobs -> Row]
           /\ \A k \in Jobs :
                 /\ job'[k].status = IF k = j THEN status ELSE job[k].status
                 /\ job'[k].cancel = job[k].cancel
                 /\ job'[k].pid = job[k].pid
                 /\ job'[k].parent = job[k].parent
  <1>1. job' \in [Jobs -> Row]
    BY DEF SetStatus, Row
  <1> QED BY <1>1 DEF SetStatus, Row
\* Init has the right shapes and none of the things the invariant speaks of.
LEMMA InitIInv == Init => IInv
  <1> SUFFICES ASSUME Init PROVE IInv
    OBVIOUS
  <1>1. TypeOK
    BY BoundsAssumption
    DEF Init, TypeOK, NoRow, Row, Status, IdleWorker, Worker, Process, Exit,
        IdleCaller, Caller
  <1>2. Relations
    BY
    DEF Init, Relations, OneActive, Owned, Known, HandOver, Polled, Begun, GivenUp,
           Unattended, Waiting, Spent, Down, Absent, Label, NoRow, IdleWorker, IdleCaller, Active,
           Alive, Live, Jobs
  <1> QED BY <1>1, <1>2 DEF IInv

\* Every action keeps the shapes.
LEMMA TypeStep == TypeOK /\ [Next]_vars => TypeOK'
  <1> SUFFICES ASSUME TypeOK, [Next]_vars PROVE TypeOK'
    OBVIOUS
  <1> USE DEF TypeOK
  <1>1. CASE CreateJob
    BY <1>1, InsertedRow DEF CreateJob
  <1>2. ASSUME NEW p \in Jobs, CreateResumeJob(p) PROVE TypeOK'
    BY <1>2, InsertedRow, JobsAreNumbers DEF CreateResumeJob
  <1>3. ASSUME NEW c \in Callers, NEW j \in Jobs, StartJob(c, j) PROVE TypeOK'
    BY <1>3 DEF StartJob, Caller, Status, Active, Jobs
  <1>4. ASSUME NEW c \in Callers, SubmitJob(c) PROVE TypeOK'
    BY <1>4 DEF SubmitJob, Caller, IdleCaller, Status
  <1>5. ASSUME NEW c \in Callers, SubmitFails(c) PROVE TypeOK'
    <2>1. caller[c].job \in Jobs /\ faults' \in 0..MaxFaults
      BY <1>5, BoundsAssumption DEF SubmitFails, Fault
    <2>2. job' \in [Jobs -> Row]
      BY <1>5, <2>1, StatusBecomes DEF SubmitFails, Status, Ended
    <2>3. caller' \in [Callers -> Caller] /\ caller'[c].pc = "idle"
      BY <1>5 DEF SubmitFails, Caller, IdleCaller, Status
    <2> QED BY <1>5, <2>1, <2>2, <2>3 DEF SubmitFails
  <1>6. ASSUME NEW c \in Callers, NEW j \in Jobs, RequestCancel(c, j)
         PROVE TypeOK'
    BY <1>6 DEF RequestCancel, Caller, Status, Active, Jobs
  <1>7. ASSUME NEW c \in Callers, RequestCancelWrite(c) PROVE TypeOK'
    <2>1. job' \in [Jobs -> Row]
      <3>1. CASE ~IndexAdmits(caller[c].job)
        BY <1>7, <3>1 DEF RequestCancelWrite
      <3>2. CASE IndexAdmits(caller[c].job) /\ caller[c].seen = "cancel_requested"
        <4>1. job' = [job EXCEPT ![caller[c].job].cancel = TRUE,
                                 ![caller[c].job].status = @]
          BY <1>7, <3>2 DEF RequestCancelWrite
        <4> QED BY <4>1 DEF Row
      <3>3. CASE IndexAdmits(caller[c].job) /\ caller[c].seen # "cancel_requested"
        <4>1. job' = [job EXCEPT ![caller[c].job].cancel = TRUE,
                                 ![caller[c].job].status = "cancel_requested"]
          BY <1>7, <3>3 DEF RequestCancelWrite
        <4> QED BY ZenonT(60), <4>1 DEF Row, Status, Active
      <3> QED BY <3>1, <3>2, <3>3
    <2>2. caller' \in [Callers -> Caller]
      BY <1>7 DEF RequestCancelWrite, Caller, IdleCaller, Status
    <2> QED BY <1>7, <2>1, <2>2 DEF RequestCancelWrite, IdleCaller
  <1>8. CASE TakeJob
    <2>1. PICK j \in submitted :
              /\ worker' = [IdleWorker EXCEPT !.pc = "prepare", !.job = j]
              /\ submitted' = submitted \ {j}
      BY <1>8 DEF TakeJob
    <2>2. j \in Jobs /\ j \in Nat
      BY JobsAreNumbers
    <2>3. worker' \in Worker /\ worker'.job = j
      BY <2>1, <2>2 DEF IdleWorker, Worker, Label, Status
    <2> QED BY <1>8, <2>1, <2>2, <2>3 DEF TakeJob
  <1>9. CASE PrepareJob
    <2>1. worker.job \in Jobs /\ "starting" \in Status
      BY <1>9 DEF PrepareJob, At, Status, Active
    <2>2. job' \in [Jobs -> Row]
      BY <1>9, <2>1, StatusBecomes DEF PrepareJob
    <2>3. worker' \in Worker /\ worker'.job = worker.job
      BY ZenonT(60), <1>9 DEF PrepareJob, Go, Fresh, IdleWorker, Worker, Label, Status
    <2> QED BY <1>9, <2>1, <2>2, <2>3 DEF PrepareJob
  <1>10. CASE StartProcess
    BY <1>10 DEF StartProcess, Go, Worker, Label, At, Process, Live
  <1>11. CASE StartFails
    BY <1>11 DEF StartFails, Fresh, IdleWorker, Worker, Label, At, Status
  <1>12. CASE MarkRunning
    BY <1>12 DEF MarkRunning, Fresh, IdleWorker, Worker, Label, At, Status, Row
  <1>13. CASE MarkRunningWrite
    <2>1. worker.job \in Jobs
      BY <1>13 DEF MarkRunningWrite, At
    <2>2. job' \in [Jobs -> Row]
      BY ZenonT(60), <1>13, <2>1 DEF MarkRunningWrite, Row, Status, Active
    <2>3. worker' \in Worker /\ worker'.job = worker.job
      BY <1>13 DEF MarkRunningWrite, Fresh, IdleWorker, Worker, Label, Status
    <2> QED BY <1>13, <2>1, <2>2, <2>3 DEF MarkRunningWrite
  <1>14. CASE PollProcess
    BY <1>14 DEF PollProcess, Worker, Label, At
  <1>15. CASE CheckCancel
    BY <1>15
    DEF CheckCancel, Terminated, AfterCheck, Matches, Alive, Worker, Label,
        At, Process, Live, Row
  <1>16. CASE KillProcess
    BY <1>16 DEF KillProcess, Worker, Label, At, Process, Live, Row
  <1>17. CASE FinishJob
    BY <1>17 DEF FinishJob, Fresh, IdleWorker, Worker, Label, At, Status, Row
  <1>18. CASE FinishJobWrite
    BY <1>18
    DEF FinishJobWrite, SetStatus, Outcome, IdleWorker, Worker, At, Status,
        Ended, Row
  <1>19. CASE StopProcess
    BY <1>19 DEF StopProcess, Terminated, Go, Worker, Label, At, Process, Live
  <1>20. CASE MarkFailed
    BY <1>20 DEF MarkFailed, IdleWorker, Worker, Label, At, Status, Row
  <1>21. CASE MarkFailedWrite
    BY <1>21
    DEF MarkFailedWrite, SetStatus, IdleWorker, Worker, At, Status, Ended, Row
  <1>22. CASE Raise
    <2>1. /\ worker.job \in Jobs /\ faults' \in 0..MaxFaults
          /\ adrift' \in SUBSET Jobs
      BY <1>22, BoundsAssumption DEF Raise, Fault, At, Unrecorded
    <2>2. /\ worker' \in Worker
          /\ worker' = IdleWorker \/ worker'.job = worker.job
      <3>1. CASE worker' = Fresh("fail")
        BY <3>1, <2>1, JobsAreNumbers
        DEF Fresh, IdleWorker, Worker, Label, Status
      <3>2. CASE worker' = Fresh("stop")
        BY <3>2, <2>1, JobsAreNumbers
        DEF Fresh, IdleWorker, Worker, Label, Status
      <3>3. CASE worker' = IdleWorker
        BY <3>3 DEF IdleWorker, Worker, Status
      <3> QED BY <1>22, <3>1, <3>2, <3>3 DEF Raise
    <2> QED BY <1>22, <2>1, <2>2 DEF Raise, IdleWorker
  <1>23. ASSUME NEW j \in Jobs, ProcessExits(j) PROVE TypeOK'
    BY <1>23 DEF ProcessExits, Process, Exit
  <1>24. CASE Crash
    <2>1. faults' \in 0..MaxFaults /\ adrift' \in SUBSET Jobs
      BY <1>24, BoundsAssumption DEF Crash, Fault, Unrecorded
    <2>2. proc' \in [Jobs -> Process]
      BY <1>24 DEF Crash, Process, Exit
    <2>3. worker' \in Worker /\ worker'.pc = "idle"
      BY <1>24 DEF Crash, IdleWorker, Worker, Status
    <2>4. /\ caller' \in [Callers -> Caller]
          /\ \A c \in Callers : caller'[c].pc = "idle"
      BY <1>24 DEF Crash, IdleCaller, Caller, Status
    <2> QED BY <1>24, <2>1, <2>2, <2>3, <2>4 DEF Crash
  <1>25. CASE Restart
    BY <1>25 DEF Restart, Row, Status, Ended
  <1>26. CASE UNCHANGED vars
    BY <1>26 DEF vars
  <1> QED
    BY <1>1, <1>2, <1>3, <1>4, <1>5, <1>6, <1>7, <1>8, <1>9, <1>10, <1>11,
       <1>12,
       <1>13, <1>14, <1>15, <1>16, <1>17, <1>18, <1>19, <1>20, <1>21, <1>22,
       <1>23, <1>24, <1>25, <1>26
    DEF Next, Call, Run

-----------------------------------------------------------------------------
(* what the actions do to the rows and their trainers *)

\* Every action keeps the relations.
LEMMA RelationsStep ==
    ASSUME IInv, [Next]_vars
    PROVE  Relations'
  <1> USE DEF IInv, TypeOK, Relations, OneActive, Owned, Known, HandOver, Polled,
          Begun, GivenUp, Label, Unattended, Waiting, Spent, Down, Absent, Active, Alive, Live, Exit, At
  <1>1. CASE CreateJob
    <2>1. PICK j \in Jobs :
              /\ job[j].status = "none"
              /\ job'[j] = [status |-> "queued", cancel |-> FALSE,
                            pid |-> FALSE, parent |-> 0]
              /\ \A k \in Jobs \ {j} : job'[k] = job[k]
      BY <1>1, InsertedRow DEF CreateJob
    <2>2. /\ \A k \in Jobs : job[k].status \notin Active
          /\ UNCHANGED <<up, proc, submitted, worker, caller, adrift>>
      BY <1>1 DEF CreateJob, NoneActive
    <2>3. (OneActive /\ Owned /\ Known /\ HandOver /\ Polled /\ Begun /\ GivenUp)'
      BY <2>1, <2>2
    <2>4. (Unattended /\ Waiting /\ Down /\ Absent)'
      BY <2>1, <2>2
    <2>5. Spent'
      <3> SUFFICES ASSUME NEW k \in Jobs, job'[k].parent \in Jobs
                   PROVE  /\ proc'[job'[k].parent] \in Live =>
                                /\ job'[k].parent \in adrift'
                                /\ ~job'[job'[k].parent].pid
                          /\ job'[job'[k].parent].status \notin {"none", "queued"}
                          /\ ~(/\ worker'.job = job'[k].parent
                               /\ worker'.pc \in {"start", "mark", "marking"})
        OBVIOUS
      <3>1. k # j /\ job'[k] = job[k]
        BY <2>1, JobsAreNumbers
      <3>2. job[k].parent # j /\ job'[job[k].parent] = job[job[k].parent]
        BY <2>1, <3>1
      <3>3. /\ proc[job[k].parent] \in Live =>
                  job[k].parent \in adrift /\ ~job[job[k].parent].pid
            /\ job[job[k].parent].status \notin {"none", "queued"}
            /\ ~(/\ worker.job = job[k].parent
                 /\ worker.pc \in {"start", "mark", "marking"})
        BY <3>1
      <3> QED BY <2>2, <3>1, <3>2, <3>3
    <2> QED BY <2>3, <2>4, <2>5
  <1>2. ASSUME NEW p \in Jobs, CreateResumeJob(p) PROVE Relations'
    <2>1. PICK j \in Jobs :
              /\ job[j].status = "none"
              /\ job'[j] = [status |-> "queued", cancel |-> FALSE,
                            pid |-> FALSE, parent |-> p]
              /\ \A k \in Jobs \ {j} : job'[k] = job[k]
      BY <1>2, InsertedRow, JobsAreNumbers DEF CreateResumeJob
    <2>2. /\ \A k \in Jobs : job[k].status \notin Active
          /\ UNCHANGED <<up, proc, submitted, worker, caller, adrift>>
      BY <1>2 DEF CreateResumeJob, NoneActive
    <2>3. (OneActive /\ Owned /\ Known /\ HandOver /\ Polled /\ Begun /\ GivenUp)'
      BY <2>1, <2>2
    <2>4. (Unattended /\ Waiting /\ Down /\ Absent)'
      BY <2>1, <2>2
    <2>5. /\ job[p].status \in {"failed", "canceled", "stale"}
          /\ ~(worker.job = p /\ worker.pc \in {"start", "mark", "marking"})
          /\ Alive(p) => p \in adrift /\ ~job[p].pid
      BY <1>2 DEF CreateResumeJob, SourceIsSafe, Matches
    <2>6. Spent'
      BY <2>1, <2>2, <2>5
    <2> QED BY <2>3, <2>4, <2>6
  <1>3. ASSUME NEW c \in Callers, NEW j \in Jobs, StartJob(c, j)
         PROVE Relations'
    BY <1>3
    DEF StartJob, Caller
  <1>4. ASSUME NEW c \in Callers, SubmitJob(c) PROVE Relations'
    BY <1>4
    DEF SubmitJob, Pending, Caller, IdleCaller
  <1>5. ASSUME NEW c \in Callers, SubmitFails(c) PROVE Relations'
    <2> DEFINE s == caller[c].job
    <2>1. /\ s \in Jobs /\ s \notin submitted
          /\ proc[s] # "running" \/ s \in adrift
      BY <1>5 DEF SubmitFails, Pending
    <2>2. ~(worker.pc # "idle" /\ worker.job = s)
      BY <1>5 DEF SubmitFails, Pending
    <2>3. /\ caller' = [caller EXCEPT ![c] = IdleCaller]
          /\ UNCHANGED <<up, proc, submitted, worker, adrift>>
      BY <1>5 DEF SubmitFails
    <2>4. \A k \in Jobs :
              /\ \/ job'[k].status = job[k].status
                 \/ k = s /\ job'[k].status = "failed"
              /\ job'[k].pid = job[k].pid /\ job'[k].parent = job[k].parent
      BY <1>5, <2>1, StatusBecomes DEF SubmitFails, Status, Ended
    <2> HIDE DEF s
    <2>5. (OneActive /\ Owned /\ Known /\ HandOver /\ Polled /\ Begun /\ GivenUp)'
      BY <2>1, <2>2, <2>3, <2>4
    <2>6. (Unattended /\ Waiting /\ Down /\ Absent)'
      BY <2>1, <2>2, <2>3, <2>4 DEF IdleCaller
    <2>7. Spent'
      BY <2>1, <2>2, <2>3, <2>4
    <2> QED BY <2>5, <2>6, <2>7
  <1>6. ASSUME NEW c \in Callers, NEW j \in Jobs, RequestCancel(c, j)
         PROVE Relations'
    BY <1>6
    DEF RequestCancel, Caller
  <1>7. ASSUME NEW c \in Callers, RequestCancelWrite(c) PROVE Relations'
    <2> DEFINE s == caller[c].job
    <2>1. s \in Jobs
      BY <1>7 DEF RequestCancelWrite
    <2>2. /\ caller' = [caller EXCEPT ![c] = IdleCaller]
          /\ UNCHANGED <<up, proc, submitted, worker, adrift>>
      BY <1>7 DEF RequestCancelWrite
    <2>3. \A k \in Jobs :
              /\ \/ job'[k].status = job[k].status
                 \/ k = s /\ job'[k].status = "cancel_requested" /\ IndexAdmits(s)
              /\ job'[k].pid = job[k].pid /\ job'[k].parent = job[k].parent
      <3>1. CASE ~IndexAdmits(s)
        BY <1>7, <3>1 DEF RequestCancelWrite
      <3>2. CASE IndexAdmits(s) /\ caller[c].seen = "cancel_requested"
        <4>1. job' = [job EXCEPT ![s].cancel = TRUE, ![s].status = @]
          BY <1>7, <3>2 DEF RequestCancelWrite
        <4> QED BY <2>1, <4>1 DEF Row
      <3>3. CASE IndexAdmits(s) /\ caller[c].seen # "cancel_requested"
        <4>1. job' = [job EXCEPT ![s].cancel = TRUE,
                                 ![s].status = "cancel_requested"]
          BY <1>7, <3>3 DEF RequestCancelWrite
        <4> QED BY <2>1, <3>3, <4>1 DEF Row
      <3> QED BY <3>1, <3>2, <3>3
    <2> HIDE DEF s
    <2>4. (OneActive /\ Owned /\ Known /\ HandOver /\ Polled /\ Begun /\ GivenUp)'
      BY <2>1, <2>2, <2>3 DEF IndexAdmits
    <2>5. (Unattended /\ Waiting /\ Down /\ Absent)'
      BY <2>1, <2>2, <2>3 DEF IdleCaller
    <2>6. Spent'
      BY <2>1, <2>2, <2>3
    <2> QED BY <2>4, <2>5, <2>6
  <1>8. CASE TakeJob
    BY <1>8
    DEF TakeJob, IdleWorker
  <1>9. CASE PrepareJob
    <2> DEFINE s == worker.job
    <2>1. /\ worker.pc = "prepare" /\ s \in Jobs
          /\ UNCHANGED <<up, proc, submitted, caller, adrift>>
      BY <1>9 DEF PrepareJob
    <2>2. CASE job[s].status = "queued"
      <3>1. /\ worker'.pc = "start" /\ worker'.job = s
            /\ \A k \in Jobs :
                  /\ job'[k].status = IF k = s THEN "starting" ELSE job[k].status
                  /\ job'[k].pid = job[k].pid /\ job'[k].parent = job[k].parent
        BY <1>9, <2>1, <2>2, StatusBecomes DEF PrepareJob, Go, Worker, Status
      <3>2. (OneActive /\ Owned /\ Known /\ HandOver /\ Polled /\ Begun /\ GivenUp)'
        BY <2>1, <2>2, <3>1
      <3>3. (Unattended /\ Waiting /\ Spent /\ Down /\ Absent)'
        BY <2>1, <2>2, <3>1
      <3> QED BY <3>2, <3>3
    <2>3. CASE job[s].status # "queued"
      <3>1. /\ worker'.pc = "fail" /\ worker'.job = s /\ UNCHANGED job
        <4>1. worker' = Fresh("fail") /\ UNCHANGED job
          BY <1>9, <2>3 DEF PrepareJob
        <4> QED BY <4>1 DEF Fresh, IdleWorker
      <3> QED BY <2>1, <3>1
    <2> QED BY <2>2, <2>3
  <1>10. CASE StartProcess
    BY <1>10
    DEF StartProcess, Go, Worker
  <1>11. CASE StartFails
    BY <1>11
    DEF StartFails, Fresh, IdleWorker, Worker
  <1>12. CASE MarkRunning
    BY <1>12
    DEF MarkRunning, Transitions, Worker
  <1>13. CASE MarkRunningWrite
    BY <1>13
    DEF MarkRunningWrite, Fresh, IdleWorker, Worker, Row
  <1>14. CASE PollProcess
    BY <1>14
    DEF PollProcess, Worker
  <1>15. CASE CheckCancel
    BY <1>15
    DEF CheckCancel, AfterCheck, Terminated, Matches, Worker
  <1>16. CASE KillProcess
    BY <1>16
    DEF KillProcess, Matches, Worker
  <1>17. CASE FinishJob
    BY <1>17
    DEF FinishJob, Fresh, IdleWorker, Worker
  <1>18. CASE FinishJobWrite
    BY <1>18, StatusBecomes
    DEF FinishJobWrite, Outcome, IdleWorker, Status, Ended
  <1>19. CASE StopProcess
    BY <1>19
    DEF StopProcess, Go, Terminated, Matches, Worker
  <1>20. CASE MarkFailed
    BY <1>20
    DEF MarkFailed, IdleWorker, Worker
  <1>21. CASE MarkFailedWrite
    BY <1>21, StatusBecomes
    DEF MarkFailedWrite, IdleWorker, Status, Ended
  <1>22. CASE Raise
    <2>1. /\ worker.pc # "idle" /\ worker.job \in Jobs
          /\ UNCHANGED <<up, job, proc, submitted, caller>>
          /\ adrift \subseteq adrift' /\ adrift' \subseteq adrift \cup {worker.job}
      BY <1>22 DEF Raise, Unrecorded
    <2>2. CASE worker.pc \in {"prepare", "start"} /\ worker' = Fresh("fail")
      <3>1. worker'.pc = "fail" /\ worker'.job = worker.job /\ adrift' = adrift
        BY <1>22, <2>2 DEF Raise, Unrecorded, Fresh, IdleWorker
      <3> QED BY <2>1, <2>2, <3>1
    <2>3. CASE /\ worker.pc \in {"mark", "marking"}
               /\ worker' = Fresh("stop")
      <3>1. /\ worker'.pc = "stop" /\ worker'.job = worker.job
            /\ adrift' = adrift \cup {worker.job}
        BY <1>22, <2>3 DEF Raise, Unrecorded, Fresh, IdleWorker
      <3> QED BY <2>1, <2>3, <3>1
    <2>4. CASE /\ worker.pc \in {"poll", "check", "finish", "finishing"}
               /\ worker' = Fresh("stop")
      <3>1. worker'.pc = "stop" /\ worker'.job = worker.job /\ adrift' = adrift
        BY <1>22, <2>4 DEF Raise, Unrecorded, Fresh, IdleWorker
      <3> QED BY <2>1, <2>4, <3>1
    <2>5. CASE worker.pc = "stop" /\ worker' = IdleWorker
      <3>1. worker'.pc = "idle" /\ adrift' = adrift \cup {worker.job}
        BY <1>22, <2>5 DEF Raise, Unrecorded, IdleWorker
      <3> QED BY <2>1, <2>5, <3>1
    <2>6. CASE worker.pc \in {"fail", "failing"} /\ worker' = IdleWorker
      <3>1. worker'.pc = "idle" /\ adrift' = adrift
        BY <1>22, <2>6 DEF Raise, Unrecorded, IdleWorker
      <3> QED BY <2>1, <2>6, <3>1
    <2> QED BY <1>22, <2>1, <2>2, <2>3, <2>4, <2>5, <2>6 DEF Raise
  <1>23. ASSUME NEW j \in Jobs, ProcessExits(j) PROVE Relations'
    BY <1>23
    DEF ProcessExits
  <1>24. CASE Crash
    BY <1>24
    DEF Crash, Unrecorded, IdleWorker, IdleCaller
  <1>25. CASE Restart
    BY <1>25
    DEF Restart, Matches, Row, Status, Ended
  <1>26. CASE UNCHANGED vars
    BY <1>26
    DEF vars, Matches
  <1> QED
    BY <1>1, <1>2, <1>3, <1>4, <1>5, <1>6, <1>7, <1>8, <1>9, <1>10, <1>11,
       <1>12, <1>13, <1>14, <1>15, <1>16, <1>17, <1>18, <1>19, <1>20, <1>21,
       <1>22, <1>23, <1>24, <1>25, <1>26
    DEF Next, Call, Run

-----------------------------------------------------------------------------
(* the theorems *)

\* Every state has the shapes of TypeOK.
THEOREM TypeCorrect == Spec => []TypeOK
  <1>1. Init => TypeOK
    BY InitIInv DEF IInv
  <1> QED BY <1>1, TypeStep, PTL DEF Spec

\* The invariant holds of every state.
LEMMA Invariant == Spec => []IInv
  <1>1. IInv /\ [Next]_vars => IInv'
    BY TypeStep, RelationsStep DEF IInv
  <1> QED BY InitIInv, <1>1, PTL DEF Spec

\* However many jobs, callers, crashes and exceptions there are, one project
\* trains once at a time (the executor's one thread, _run_job, and what
\* reconcile_stale_jobs leaves alone), but for the trainers that were given up.
THEOREM TrainsOnce == Spec => []OneTraining
  <1>1. IInv => OneTraining
    BY DEF IInv, Relations, OneActive, Owned, OneTraining
  <1> QED BY Invariant, <1>1, PTL

\* And the state of a trainer that lives is never handed to another job
\* (_source_is_safe when the job is created and prepare_runtime when it starts)
\* unless the trainer was given up before its pid was committed.
THEOREM ResumesAfterEnd == Spec => []ResumeAfterEnd
  <1>1. IInv => ResumeAfterEnd
    BY DEF IInv, Relations, Spent, ResumeAfterEnd
  <1> QED BY Invariant, <1>1, PTL

-----------------------------------------------------------------------------
(* TrainingProgress: the inductive invariant *)

\* A log, or a part of one that begins with a line.
Lined(text) ==
    \A n \in DOMAIN text :
        /\ text[n].half = "head" => n = 1 \/ text[n - 1].half = "tail"
        /\ text[n].half = "tail" => /\ n # 1 /\ text[n - 1].half = "head"
                                    /\ text[n - 1].line = text[n].line

\* The last line of a text has not ended.
Unended(text) == Len(text) # 0 /\ text[Len(text)].half = "head"

\* What the trainer may have reported: steps that it has come to, in their order.
Reported(text, t) ==
    /\ \A n \in DOMAIN text :
          /\ text[n].step <= t.step
          /\ t.counts = "local" \/ text[n].step >= Initial
    /\ \A m, n \in DOMAIN text : m <= n => text[m].step <= text[n].step

\* A step is reported with a line, and a cumulative count starts at Initial.
TrainerIs ==
    /\ trainer.counts = "local" => trainer.step <= trainer.lines
    /\ trainer.counts = "cumulative" => /\ Initial <= trainer.step
                                        /\ trainer.step <= Initial + trainer.lines

\* A log has two halves for each line at most, and is another one for each
\* mishap.
LogIs(s) ==
    /\ Lined(log[s].text) /\ Reported(log[s].text, trainer)
    /\ log[s].file <= mishaps + 1
    /\ Len(log[s].text) <= 2 * trainer.lines
    /\ Unended(log[s].text) => Len(log[s].text) + 1 <= 2 * trainer.lines

\* The steps that the job has done.
Done(t) == t.step + IF t.counts = "local" THEN Initial ELSE 0

\* A row, or one that a thread holds, shows what was done, and what it keeps of
\* the logs is the trainer's.
ShownIs(p, t) ==
    /\ p.raw <= t.step
    /\ p.raw = 0 <=> p.mode = "unknown"
    /\ p.mode = "local" => t.counts = "local"
    /\ p.step <= Done(t)
    /\ \A s \in Streams : Lined(p.rest[s]) /\ Reported(p.rest[s], t)

\* It has taken into account what is before its cursor in the file that the
\* cursor is in; what it keeps is the half of a line, if it stands between the
\* halves.
RestIs(text, offset) ==
    IF offset = 0 \/ text[offset].half = "tail" THEN <<>> ELSE <<text[offset]>>
Passed(p, s, f) ==
    /\ p.cursor[s].file <= f.file
    /\ p.cursor[s].file = 0 => p.cursor[s].offset = 0 /\ p.rest[s] = <<>>
    /\ p.cursor[s].file = f.file =>
          /\ p.cursor[s].offset <= Len(f.text)
          /\ \A n \in Ends(f.text) :
                n <= p.cursor[s].offset => f.text[n].step <= p.raw
          /\ p.rest[s] = RestIs(f.text, p.cursor[s].offset)

\* Where a chunk will begin.
BeginIs(p, s, b) ==
    /\ b.data = <<>>
    /\ b.reset => b.cursor.offset = 0 /\ b.cursor.file = 0
    /\ ~b.reset => /\ b.cursor.offset = p.cursor[s].offset
                   /\ b.cursor.file = p.cursor[s].file

\* What was read after it, with what was left, is the part of the log between
\* a line's end and the new cursor.
IsPart(t, text, offset) ==
    /\ offset <= Len(text) /\ Len(t) <= offset
    /\ \A i \in 1..Len(t) : t[i] = text[(offset - Len(t)) + i]
    /\ Len(t) = offset \/ text[offset - Len(t)].half = "tail"
ReadIs(p, s, c, f, t) ==
    /\ Lined(Text(p, s, c)) /\ Reported(Text(p, s, c), t)
    /\ c.cursor.file <= f.file
    /\ c.cursor.file = 0 => c.cursor.offset = 0 /\ Text(p, s, c) = <<>>
    /\ c.cursor.file = f.file =>
          /\ IsPart(Text(p, s, c), f.text, c.cursor.offset)
          /\ \A n \in Ends(f.text) :
                n <= c.cursor.offset - Len(Text(p, s, c)) =>
                    f.text[n].step <= p.raw

\* A file that is looked at twice: what was read between is the one, or later.
ArtifactIs(k, f) ==
    /\ k.pc \in {"idle", "stdout", "stderr", "save", "stat"} =>
          k.found = NoArtifact
    /\ k.pc \in {"hash", "again"} =>
          /\ k.found.status = "valid" /\ k.before.whole
          /\ k.before.version <= f.version
          /\ k.before.version = f.version => f.whole
    /\ k.pc = "again" =>
          /\ k.before.version <= k.found.sha.version
          /\ k.found.sha.version <= f.version
          /\ k.before.version = k.found.sha.version => k.found.sha.whole
    /\ k.pc = "commit" /\ k.found.status = "valid" => k.found.sha.whole

\* What a thread holds, whichever of the others commits in between.
ReaderIs(k, t, files) ==
    /\ ShownIs(k.previous, t)
    /\ \A s \in Streams : Passed(k.previous, s, files[s])
    /\ \A s \in Streams :
          k.pc = s /\ k.looked => BeginIs(k.previous, s, k.chunk[s])
    /\ k.pc \in {"stderr", "save"} =>
          ReadIs(k.previous, "stdout", k.chunk["stdout"], files["stdout"], t)
    /\ k.pc = "save" =>
          ReadIs(k.previous, "stderr", k.chunk["stderr"], files["stderr"], t)
    /\ \A x \in k.points : x <= Done(t)

\* The row and the points, whichever refresh wrote them last.
TableIs ==
    /\ ShownIs(row, trainer) /\ \A s \in Streams : Passed(row, s, log[s])
    /\ \A x \in metrics : x <= Done(trainer)

\* What was read is what was written, unless a log was taken for another one.
ProgressInv ==
    /\ ProgressTypeOK /\ TrainerIs /\ \A s \in Streams : LogIs(s)
    /\ ValidIsWhole /\ \A r \in Readers : ArtifactIs(reader[r], lora)
    /\ ~swapped => /\ TableIs
                   /\ \A r \in Readers : ReaderIs(reader[r], trainer, log)

-----------------------------------------------------------------------------
(* the largest of some numbers *)

LEMMA MaxIs ==
    ASSUME NEW S \in SUBSET Nat, NEW x \in S, \A y \in S : y <= x
    PROVE  Max(S) = x
  <1>1. \E z \in S : \A y \in S : z >= y
    OBVIOUS
  <1>2. Max(S) \in S /\ \A y \in S : Max(S) >= y
    BY <1>1, Zenon DEF Max
  <1>3. Max(S) \in Nat /\ x \in Nat /\ Max(S) >= x /\ Max(S) <= x
    BY <1>2
  <1> QED BY <1>3

LEMMA MaxOfBounded ==
    ASSUME NEW S \in SUBSET Nat, S # {}, NEW b \in Nat, \A y \in S : y <= b
    PROVE  Max(S) \in S /\ \A y \in S : y <= Max(S)
  <1> DEFINE U == {u \in Nat : \A y \in S : y <= u}
  <1>1. U # {} /\ U \subseteq Nat
    OBVIOUS
  <1>2. PICK u \in U : \A v \in U : ~(<<v, u>> \in OpToRel(<, Nat))
    BY <1>1, NatLessThanWellFounded, WFMin, Zenon
  <1>3. \A v \in U : ~(v < u)
    BY <1>1, <1>2, Zenon DEF OpToRel
  <1>4. u \in S
    <2> SUFFICES ASSUME u \notin S PROVE FALSE
      OBVIOUS
    <2>1. \A y \in S : y < u
      OBVIOUS
    <2>2. PICK y \in S : y < u
      BY <2>1
    <2>3. u - 1 \in U /\ u - 1 < u
      BY <2>1, <2>2
    <2> QED BY <1>3, <2>3
  <1>5. Max(S) = u
    BY <1>4, MaxIs
  <1> QED BY <1>4, <1>5

LEMMA MaxOfTwo ==
    ASSUME NEW a \in Nat, NEW b \in Nat
    PROVE  Max({a, b}) = IF a <= b THEN b ELSE a
  <1>1. CASE a <= b
    BY <1>1, MaxIs
  <1>2. CASE ~(a <= b)
    BY <1>2, MaxIs
  <1> QED BY <1>1, <1>2

LEMMA MinOfTwo ==
    ASSUME NEW a \in Nat, NEW b \in Nat
    PROVE  Min({a, b}) = IF a <= b THEN a ELSE b
  <1> DEFINE x == IF a <= b THEN a ELSE b
  <1>1. x \in {a, b} /\ \A y \in {a, b} : x =< y
    OBVIOUS
  <1>2. Min({a, b}) \in {a, b} /\ \A y \in {a, b} : Min({a, b}) =< y
    BY <1>1 DEF Min
  <1> QED BY <1>2

-----------------------------------------------------------------------------
(* lines and the halves of lines *)

LEMMA StepsAre == Steps \subseteq Nat
  BY ProgressAssumption DEF Steps

LEMMA HalfIs ==
    ASSUME NEW text \in Seq(Half)
    PROVE  /\ Len(text) \in Nat /\ DOMAIN text = 1..Len(text)
           /\ \A n \in 1..Len(text) :
                 /\ text[n] \in Half /\ text[n].step \in Nat
                 /\ text[n].half \in {"head", "tail"}
  <1>1. Len(text) \in Nat /\ DOMAIN text = 1..Len(text)
    BY LenProperties
  <1>2. \A n \in 1..Len(text) : text[n] \in Half
    BY ElementOfSeq
  <1> QED BY <1>1, <1>2, ProgressAssumption DEF Half, Steps

LEMMA LastEndIs ==
    ASSUME NEW text \in Seq(Half), Lined(text)
    PROVE  LastEnd(text) = IF Unended(text) THEN Len(text) - 1 ELSE Len(text)
  <1> DEFINE S == Ends(text) \cup {0}
             l == Len(text)
  <1>1. /\ l \in Nat /\ DOMAIN text = 1..l
        /\ \A n \in 1..l : text[n].half \in {"head", "tail"}
    BY HalfIs
  <1>2. /\ Unended(text) <=> l # 0 /\ text[l].half = "head"
        /\ LastEnd(text) = Max(S)
    BY DEF Unended, LastEnd
  <1>3. S = {n \in 1..l : text[n].half = "tail"} \cup {0}
    BY <1>1 DEF Ends
  <1>4. \A n \in 1..l : text[n].half = "head" => n = 1 \/ text[n - 1].half = "tail"
    BY <1>1 DEF Lined
  <1> HIDE DEF S, l
  <1>5. S \in SUBSET Nat /\ \A y \in S : y <= l
    BY <1>1, <1>3
  <1>6. CASE l # 0 /\ text[l].half = "head"
    <2>1. l \in 1..l
      BY <1>1, <1>6
    <2>2. l = 1 \/ text[l - 1].half = "tail"
      BY <1>4, <1>6, <2>1
    <2>3. l - 1 \in S
      BY <1>1, <1>3, <1>6, <2>2
    <2>4. l \notin S
      BY <1>3, <1>6
    <2>5. \A y \in S : y <= l - 1
      BY <1>1, <1>5, <2>4
    <2>6. Max(S) = l - 1
      BY <1>5, <2>3, <2>5, MaxIs
    <2> QED BY <1>2, <1>6, <2>6 DEF l
  <1>7. CASE ~(l # 0 /\ text[l].half = "head")
    <2>1. l \in S
      BY <1>1, <1>3, <1>7
    <2>2. Max(S) = l
      BY <1>5, <2>1, MaxIs
    <2> QED BY <1>2, <1>7, <2>2 DEF l
  <1> QED BY <1>6, <1>7

LEMMA WrittenIs ==
    ASSUME NEW text \in Seq(Half), Lined(text)
    PROVE  Written(text) <=> ~Unended(text)
  <1>1. Len(text) \in Nat
    BY HalfIs
  <1> QED BY <1>1, LastEndIs DEF Written

\* In such a text no line is put together from others' parts.
LEMMA StepAtIs ==
    ASSUME NEW text \in Seq(Half), Lined(text), NEW n \in Ends(text)
    PROVE  StepAt(text, n) = text[n].step
  <1> DEFINE S == {m \in Ends(text) : m < n} \cup {0}
  <1>1. /\ Len(text) \in Nat /\ DOMAIN text = 1..Len(text)
        /\ \A k \in 1..Len(text) : text[k].half \in {"head", "tail"}
    BY HalfIs
  <1>2. n \in 2..Len(text) /\ text[n - 1].half = "head" /\ n - 1 \in 1..Len(text)
        /\ text[n - 1].line = text[n].line
    BY <1>1 DEF Ends, Lined
  <1>3. n - 2 \in S /\ S \in SUBSET Nat
    <2>1. n - 2 = 0 \/ text[n - 2].half = "tail"
      <3>1. n - 1 = 1 \/ text[(n - 1) - 1].half = "tail"
        BY <1>1, <1>2 DEF Lined
      <3> QED BY <1>2, <3>1
    <2>2. n - 2 = 0 \/ (n - 2 \in DOMAIN text /\ n - 2 < n)
      BY <1>1, <1>2
    <2>3. n - 2 \in S
      BY <2>1, <2>2 DEF Ends
    <2>4. S \in SUBSET Nat
      BY <1>1 DEF Ends
    <2> QED BY <2>3, <2>4
  <1>4. \A y \in S : y <= n - 2
    BY <1>1, <1>2 DEF Ends
  <1>5. Max(S) = n - 2
    BY <1>3, <1>4, MaxIs
  <1>6. n = (Max(S) + 1) + 1 /\ Max(S) + 1 = n - 1
    BY <1>2, <1>5
  <1> HIDE DEF S
  <1>7. StepAt(text, n) = IF n = (Max(S) + 1) + 1
                             /\ text[Max(S) + 1].line = text[n].line
                          THEN text[n].step ELSE Bogus
    BY DEF StepAt, S
  <1> QED BY <1>2, <1>6, <1>7

\* What is left of a text is its unended line.
LEMMA RemainderIs ==
    ASSUME NEW text \in Seq(Half), Lined(text)
    PROVE  /\ Remainder(text) \in Seq(Half)
           /\ Remainder(text) =
                 IF Unended(text) THEN <<text[Len(text)]>> ELSE <<>>
  <1>1. /\ Len(text) \in Nat
        /\ \A k \in 1..Len(text) : text[k] \in Half
    BY HalfIs
  <1>2. CASE Unended(text)
    <2>1. Len(text) \in 1..Len(text) /\ LastEnd(text) + 1 = Len(text)
      BY <1>1, <1>2, LastEndIs DEF Unended
    <2>2. Remainder(text) = SubSeq(text, Len(text), Len(text))
      BY <2>1 DEF Remainder
    <2>3. /\ Remainder(text) \in Seq(Half) /\ Len(Remainder(text)) = 1
          /\ Remainder(text)[1] = text[Len(text)]
      BY <1>1, <2>1, <2>2, SubSeqProperties
    <2>4. /\ <<text[Len(text)]>> \in Seq(Half) /\ Len(<<text[Len(text)]>>) = 1
          /\ <<text[Len(text)]>>[1] = text[Len(text)]
      BY <1>1, <2>1
    <2>5. Remainder(text) = <<text[Len(text)]>>
      BY <2>3, <2>4, SeqEqual
    <2> QED BY <1>2, <2>3, <2>5
  <1>3. CASE ~Unended(text)
    <2>1. LastEnd(text) = Len(text)
      BY <1>3, LastEndIs
    <2>2. Remainder(text) = <<>>
      BY <1>1, <2>1, SubSeqEmpty DEF Remainder
    <2> QED BY <1>3, <2>2
  <1> QED BY <1>2, <1>3
\* A part of a log that begins with a line.
LEMMA PartIsLined ==
    ASSUME NEW text \in Seq(Half), Lined(text), Reported(text, trainer),
           NEW t \in Seq(Half), NEW b \in Nat, b + Len(t) <= Len(text),
           \A i \in 1..Len(t) : t[i] = text[b + i],
           b = 0 \/ text[b].half = "tail"
    PROVE  Lined(t) /\ Reported(t, trainer)
  <1>1. /\ Len(text) \in Nat /\ DOMAIN text = 1..Len(text)
        /\ Len(t) \in Nat /\ DOMAIN t = 1..Len(t)
        /\ \A i \in 1..Len(t) : t[i].half \in {"head", "tail"}
    BY HalfIs
  <1>2. \A i \in 1..Len(t) : b + i \in 1..Len(text)
    BY <1>1
  <1>3. Lined(t)
    <2> SUFFICES ASSUME NEW n \in 1..Len(t)
                 PROVE  /\ t[n].half = "head" => n = 1 \/ t[n - 1].half = "tail"
                        /\ t[n].half = "tail" => /\ n # 1 /\ t[n - 1].half = "head"
                                                 /\ t[n - 1].line = t[n].line
      BY <1>1 DEF Lined
    <2> DEFINE k == b + n
    <2>1. k \in 1..Len(text) /\ t[n] = text[k]
      BY <1>2
    <2>2. /\ text[k].half = "head" => k = 1 \/ text[k - 1].half = "tail"
          /\ text[k].half = "tail" => /\ k # 1 /\ text[k - 1].half = "head"
                                      /\ text[k - 1].line = text[k].line
      BY <1>1, <2>1 DEF Lined
    <2>3. CASE n = 1
      <3>1. k = b + 1 /\ (b # 0 => k # 1 /\ k - 1 = b)
        BY <2>3
      <3>2. text[k].half # "tail"
        <4> HIDE DEF k
        <4>1. CASE b = 0
          BY <2>2, <3>1, <4>1
        <4>2. CASE b # 0
          BY <2>2, <3>1, <4>2
        <4> QED BY <4>1, <4>2
      <3> QED BY <2>1, <2>3, <3>2
    <2>4. CASE n # 1
      <3>1. n - 1 \in 1..Len(t) /\ k # 1 /\ k - 1 = b + (n - 1)
        BY <1>1, <2>4
      <3>2. t[n - 1] = text[k - 1]
        BY <3>1
      <3> HIDE DEF k
      <3> QED BY <2>1, <2>2, <2>4, <3>1, <3>2
    <2> QED BY <2>3, <2>4
  <1>4. Reported(t, trainer)
    <2>1. \A n \in 1..Len(t) :
             /\ t[n].step <= trainer.step
             /\ trainer.counts = "local" \/ t[n].step >= Initial
      BY <1>1, <1>2 DEF Reported
    <2>2. \A m, n \in 1..Len(t) : m <= n => t[m].step <= t[n].step
      <3> SUFFICES ASSUME NEW m \in 1..Len(t), NEW n \in 1..Len(t), m <= n
                   PROVE  t[m].step <= t[n].step
        OBVIOUS
      <3>1. b + m \in 1..Len(text) /\ b + n \in 1..Len(text) /\ b + m <= b + n
        BY <1>1, <1>2
      <3> QED BY <1>1, <3>1 DEF Reported
    <2> QED BY <1>1, <2>1, <2>2 DEF Reported
  <1> QED BY <1>3, <1>4

\* Every line that ended is an event, unless its step was passed before.
LEMMA EventsAre ==
    ASSUME NEW text \in Seq(Half), Lined(text), Reported(text, trainer),
           NEW old \in Nat
    PROVE  /\ \A x \in Events(old, text) :
                 x >= old /\ \E n \in 1..Len(text) : x = text[n].step
           /\ \A n \in Ends(text) :
                 text[n].step >= old => text[n].step \in Events(old, text)
  <1>1. /\ Len(text) \in Nat /\ DOMAIN text = 1..Len(text)
        /\ \A n \in 1..Len(text) : text[n].step \in Nat
    BY HalfIs
  <1>2. \A n \in Ends(text) : StepAt(text, n) = text[n].step /\ n \in 1..Len(text)
    BY <1>1, StepAtIs DEF Ends
  <1> DEFINE K == {k \in Ends(text) :
                      \A m \in Ends(text) : m < k =>
                          StepAt(text, m) <= StepAt(text, k)}
  <1>3. K = Ends(text)
    <2> SUFFICES ASSUME NEW k \in Ends(text), NEW m \in Ends(text), m < k
                 PROVE  StepAt(text, m) <= StepAt(text, k)
      OBVIOUS
    <2>1. m \in 1..Len(text) /\ k \in 1..Len(text) /\ m <= k
      BY <1>1, <1>2
    <2>2. text[m].step <= text[k].step
      BY <1>1, <2>1 DEF Reported
    <2> QED BY <1>2, <2>2
  <1>4. Events(old, text) = {StepAt(text, n) : n \in Ends(text)} \ 0..(old - 1)
    BY <1>3 DEF Events
  <1>5. ASSUME NEW x \in Events(old, text)
        PROVE  x >= old /\ \E n \in 1..Len(text) : x = text[n].step
    <2>1. PICK n \in Ends(text) : x = StepAt(text, n)
      BY <1>4, <1>5
    <2>2. n \in 1..Len(text) /\ x = text[n].step /\ x \in Nat
      BY <1>1, <1>2, <2>1
    <2>3. x \notin 0..(old - 1)
      BY <1>4, <1>5
    <2> QED BY <2>2, <2>3
  <1>6. ASSUME NEW n \in Ends(text), text[n].step >= old
        PROVE  text[n].step \in Events(old, text)
    <2>1. text[n].step \in Nat /\ text[n].step = StepAt(text, n)
      BY <1>1, <1>2
    <2>2. text[n].step \notin 0..(old - 1)
      BY <1>6, <2>1
    <2> QED BY <1>4, <2>1, <2>2
  <1> QED BY <1>5, <1>6

\* What a thread has read of the logs, when nothing of it is wrong.
TextsAre(p, c) == \A s \in Streams :
    /\ Text(p, s, c[s]) \in Seq(Half)
    /\ Lined(Text(p, s, c[s])) /\ Reported(Text(p, s, c[s]), trainer)

LEMMA AllEventsAre ==
    ASSUME NEW p, NEW c, TextsAre(p, c), p.raw \in Nat, trainer.step \in Nat
    PROVE  /\ AllEvents(p, c) \subseteq Nat
           /\ \A x \in AllEvents(p, c) :
                 /\ x >= p.raw /\ x <= trainer.step
                 /\ trainer.counts = "local" \/ x >= Initial
           /\ \A s \in Streams : \A n \in Ends(Text(p, s, c[s])) :
                 Text(p, s, c[s])[n].step >= p.raw =>
                     Text(p, s, c[s])[n].step \in AllEvents(p, c)
  <1>1. ASSUME NEW x \in AllEvents(p, c)
        PROVE  /\ x \in Nat /\ x >= p.raw /\ x <= trainer.step
               /\ trainer.counts = "local" \/ x >= Initial
    <2>1. PICK s \in Streams : x \in Events(p.raw, Text(p, s, c[s]))
      BY DEF AllEvents
    <2> DEFINE t == Text(p, s, c[s])
    <2>2. t \in Seq(Half) /\ Lined(t) /\ Reported(t, trainer)
      BY DEF TextsAre
    <2>3. x \in Events(p.raw, t)
      BY <2>1
    <2> HIDE DEF t
    <2>4. x >= p.raw /\ \E n \in 1..Len(t) : x = t[n].step
      BY <2>2, <2>3, EventsAre
    <2>5. DOMAIN t = 1..Len(t) /\ \A n \in 1..Len(t) : t[n].step \in Nat
      BY <2>2, HalfIs
    <2> QED BY <2>2, <2>4, <2>5 DEF Reported
  <1>2. ASSUME NEW s \in Streams, NEW n \in Ends(Text(p, s, c[s])),
               Text(p, s, c[s])[n].step >= p.raw
        PROVE  Text(p, s, c[s])[n].step \in AllEvents(p, c)
    <2> DEFINE t == Text(p, s, c[s])
    <2>1. t \in Seq(Half) /\ Lined(t) /\ Reported(t, trainer)
      BY DEF TextsAre
    <2>2. n \in Ends(t) /\ t[n].step >= p.raw
      BY <1>2
    <2>3. t = Text(p, s, c[s])
      OBVIOUS
    <2> HIDE DEF t
    <2>4. t[n].step \in Events(p.raw, t)
      BY <2>1, <2>2, EventsAre
    <2> QED BY <2>3, <2>4 DEF AllEvents
  <1> QED BY <1>1, <1>2

LEMMA MergedIs ==
    ASSUME NEW p, NEW c, TextsAre(p, c), p.raw \in Nat, trainer.step \in Nat,
           p.raw <= trainer.step
    PROVE  /\ Merged(p, c) \in AllEvents(p, c) \cup {p.raw}
           /\ Merged(p, c) \in Nat /\ Merged(p, c) <= trainer.step
           /\ p.raw <= Merged(p, c)
           /\ \A x \in AllEvents(p, c) : x <= Merged(p, c)
  <1> DEFINE S == AllEvents(p, c) \cup {p.raw}
  <1>1. S \in SUBSET Nat /\ S # {} /\ \A x \in S : x <= trainer.step
    BY AllEventsAre
  <1>2. Merged(p, c) = Max(S)
    BY DEF Merged
  <1>3. p.raw \in S /\ AllEvents(p, c) \subseteq S
    OBVIOUS
  <1>4. S = AllEvents(p, c) \cup {p.raw}
    OBVIOUS
  <1> HIDE DEF S
  <1>5. Max(S) \in S /\ \A x \in S : x <= Max(S)
    BY <1>1, MaxOfBounded
  <1> QED BY <1>1, <1>2, <1>3, <1>4, <1>5

\* The way in which a resumed trainer counts, from the first step seen.
LEMMA ModeIs ==
    ASSUME NEW mode \in {"unknown", "local", "cumulative"}, NEW x \in Nat
    PROVE  /\ mode # "unknown" \/ x = 0 => Mode(mode, x) = mode
           /\ ~(mode # "unknown" \/ x = 0) =>
                 Mode(mode, x) = IF x < Initial THEN "local" ELSE "cumulative"
           /\ Mode(mode, x) \in {"unknown", "local", "cumulative"}
  <1>1. CASE mode # "unknown" \/ x = 0
    <2>1. ~(mode = "unknown" /\ x \in 1..(Initial - 1))
      BY <1>1, ProgressAssumption
    <2>2. Mode(mode, x) = mode
      BY <1>1, <2>1 DEF Mode
    <2> QED BY <1>1, <2>2
  <1>2. CASE ~(mode # "unknown" \/ x = 0)
    <2>1. (mode = "unknown" /\ x \in 1..(Initial - 1)) <=> x < Initial
      BY <1>2, ProgressAssumption
    <2>2. Mode(mode, x) = IF x < Initial THEN "local" ELSE "cumulative"
      BY <1>2, <2>1 DEF Mode
    <2> QED BY <1>2, <2>2
  <1> QED BY <1>1, <1>2

-----------------------------------------------------------------------------
(* the types of what is read and written *)

LEMMA ProgressIs ==
    ASSUME NEW p \in Progress
    PROVE  /\ p.raw \in Nat /\ p.step \in Nat
           /\ p.mode \in {"unknown", "local", "cumulative"}
           /\ \A s \in Streams :
                 /\ p.rest[s] \in Seq(Half) /\ p.cursor[s] \in Cursor
                 /\ p.cursor[s].offset \in Nat /\ p.cursor[s].file \in Nat
  BY ProgressAssumption DEF Progress, Cursor, Files

LEMMA ChunkTyped ==
    ASSUME NEW c \in Chunk
    PROVE  /\ c.data \in Seq(Half) /\ c.reset \in BOOLEAN /\ c.cursor \in Cursor
           /\ c.cursor.offset \in 0..(2 * MaxWrites) /\ c.cursor.offset \in Nat
           /\ c.cursor.key \in Files \cup {0} /\ c.cursor.file \in Files \cup {0}
           /\ c.cursor.file \in Nat
  BY ProgressAssumption DEF Chunk, Cursor, Files

LEMMA LogTyped ==
    ASSUME ProgressTypeOK, NEW s \in Streams
    PROVE  /\ log[s] \in Log
           /\ log[s].text \in Seq(Half) /\ log[s].file \in Nat \ {0}
           /\ log[s].file \in Files /\ log[s].key \in Files
           /\ Len(log[s].text) \in Nat
           /\ trainer.step \in Nat /\ trainer.lines \in 0..MaxWrites
           /\ trainer.counts \in {"local", "cumulative"}
  <1>1. /\ log[s].text \in Seq(Half) /\ log[s].key \in Files
        /\ log[s].file \in Files /\ log[s] \in Log
    BY DEF ProgressTypeOK, Log
  <1>2. Len(log[s].text) \in Nat
    BY <1>1, HalfIs
  <1> QED BY <1>1, <1>2, ProgressAssumption
          DEF ProgressTypeOK, Trainer, Steps, Files

LEMMA TextTyped ==
    ASSUME NEW p \in Progress, NEW c \in Chunk, NEW s \in Streams
    PROVE  Text(p, s, c) \in Seq(Half)
  <1>1. /\ <<>> \in Seq(Half) /\ p.rest[s] \in Seq(Half) /\ c.data \in Seq(Half)
    BY ProgressIs DEF Chunk
  <1> QED BY <1>1, ConcatProperties DEF Text

\* The aggregate cannot leave what a step can be.
LEMMA EventsTyped ==
    ASSUME NEW text \in Seq(Half), NEW old
    PROVE  /\ Events(old, text) \subseteq 0..Bogus
           /\ Remainder(text) \in Seq(Half)
  <1>1. /\ Len(text) \in Nat /\ DOMAIN text = 1..Len(text)
        /\ \A n \in 1..Len(text) : text[n] \in Half
        /\ \A n \in Ends(text) : text[n] \in Half
    BY HalfIs DEF Ends
  <1>2. Bogus \in Nat /\ Steps \subseteq 0..Bogus
    BY ProgressAssumption DEF Bogus, Steps
  <1>3. \A n \in Ends(text) : StepAt(text, n) \in 0..Bogus
    <2> SUFFICES ASSUME NEW n \in Ends(text) PROVE StepAt(text, n) \in 0..Bogus
      OBVIOUS
    <2>1. text[n].step \in 0..Bogus
      BY <1>1, <1>2 DEF Half
    <2>2. Bogus \in 0..Bogus
      BY <1>2
    <2> QED BY <2>1, <2>2 DEF StepAt
  <1>4. Events(old, text) \subseteq 0..Bogus
    BY <1>3 DEF Events
  <1>5. LastEnd(text) \in Nat
    <2> DEFINE S == Ends(text) \cup {0}
    <2>1. S \in SUBSET Nat /\ S # {} /\ \A y \in S : y <= Len(text)
      BY <1>1 DEF Ends
    <2>2. LastEnd(text) = Max(S)
      BY DEF LastEnd
    <2> HIDE DEF S
    <2> QED BY <1>1, <2>1, <2>2, MaxOfBounded
  <1>6. Remainder(text) \in Seq(Half)
    <2>1. /\ LastEnd(text) + 1 \in Nat /\ LastEnd(text) + 1 >= 1
          /\ \A i \in (LastEnd(text) + 1)..Len(text) : text[i] \in Half
      BY <1>1, <1>5
    <2> QED BY <1>1, <2>1, SubSeqProperties DEF Remainder
  <1> QED BY <1>4, <1>6

LEMMA NewRowTyped ==
    ASSUME NEW p \in Progress, NEW c \in [Streams -> Chunk]
    PROVE  NewRow(p, c) \in Progress /\ NewPoints(p, c) \subseteq Nat
  <1> DEFINE raw == Merged(p, c)
             mode == Mode(p.mode, raw)
             step == IF raw = 0 THEN 0 ELSE raw + Offset(mode)
             top == Max({step, p.step})
             rest == [s \in Streams |-> Remainder(Text(p, s, c[s]))]
             cursor == [s \in Streams |-> c[s].cursor]
  <1>1. /\ p.raw \in Nat /\ p.step \in Nat
        /\ p.mode \in {"unknown", "local", "cumulative"}
    BY ProgressIs
  <1>2. Bogus \in Nat /\ Initial \in Nat
    BY ProgressAssumption DEF Bogus
  <1>3. AllEvents(p, c) \subseteq 0..Bogus
    <2> SUFFICES ASSUME NEW s \in Streams
                 PROVE  Events(p.raw, Text(p, s, c[s])) \subseteq 0..Bogus
      BY DEF AllEvents
    <2> QED BY TextTyped, EventsTyped
  <1>4. raw \in Nat
    <2> DEFINE S == AllEvents(p, c) \cup {p.raw}
    <2>1. /\ S \in SUBSET Nat /\ S # {} /\ Bogus + p.raw \in Nat
          /\ \A y \in S : y <= Bogus + p.raw
      BY <1>1, <1>2, <1>3
    <2>2. raw = Max(S)
      BY DEF Merged
    <2> HIDE DEF S, raw
    <2> QED BY <2>1, <2>2, MaxOfBounded
  <1>5. mode \in {"unknown", "local", "cumulative"}
    BY <1>1, <1>4, ModeIs
  <1>6. Offset(mode) \in Nat
    BY <1>2 DEF Offset
  <1>7. step \in Nat
    BY <1>4, <1>6
  <1>8. top \in Nat
    BY <1>1, <1>7, MaxOfTwo
  <1>9. /\ rest \in [Streams -> Seq(Half)] /\ cursor \in [Streams -> Cursor]
    <2>1. \A s \in Streams : Remainder(Text(p, s, c[s])) \in Seq(Half)
      BY TextTyped, EventsTyped
    <2> QED BY <2>1, ChunkTyped
  <1>10. NewRow(p, c) = [exists |-> TRUE, raw |-> raw, mode |-> mode,
                         step |-> top, rest |-> rest, cursor |-> cursor]
    BY DEF NewRow
  <1>11. NewPoints(p, c) = {x + Offset(mode) : x \in AllEvents(p, c)}
    BY DEF NewPoints
  <1> HIDE DEF raw, mode, step, top, rest, cursor
  <1>12. NewRow(p, c) \in Progress
    BY <1>4, <1>5, <1>8, <1>9, <1>10 DEF Progress
  <1>13. NewPoints(p, c) \subseteq Nat
    BY <1>2, <1>3, <1>6, <1>11
  <1> QED BY <1>12, <1>13

LEMMA NothingIsRead ==
    ASSUME NEW p \in Progress, NEW s \in Streams
    PROVE  Unavailable \in Chunk /\ Text(p, s, Unavailable) = <<>>
  <1>1. <<>> \in Seq(Half) /\ Len(<<>>) = 0
    BY EmptySeq
  <1>2. NoCursor \in Cursor
    BY ProgressAssumption DEF NoCursor, Cursor
  <1>3. Unavailable \in Chunk
    BY <1>1, <1>2 DEF Unavailable, Chunk
  <1>4. Text(p, s, Unavailable) = <<>> \o <<>>
    BY DEF Text, Unavailable
  <1> QED BY <1>1, <1>3, <1>4, ConcatEmptySeq

-----------------------------------------------------------------------------
(* a chunk *)

\* Where a chunk begins: at the cursor or at 0.
LEMMA BeginIsRight ==
    ASSUME ProgressTypeOK, NEW p \in Progress, NEW s \in Streams
    PROVE  /\ BeginAt(log[s], p.cursor[s]) \in Chunk
           /\ BeginIs(p, s, BeginAt(log[s], p.cursor[s]))
  <1> DEFINE cur == p.cursor[s]
             reset == /\ cur.key # 0
                      /\ cur.key # log[s].key \/ Len(log[s].text) < cur.offset
             next == [offset |-> IF reset THEN 0 ELSE cur.offset,
                      key |-> log[s].key, file |-> IF reset THEN 0 ELSE cur.file]
  <1>1. BeginAt(log[s], cur) = [data |-> <<>>, reset |-> reset, cursor |-> next]
    BY DEF BeginAt
  <1>2. cur \in Cursor /\ log[s].key \in Files /\ reset \in BOOLEAN
    BY ProgressIs, LogTyped
  <1>3. /\ reset => next.offset = 0 /\ next.file = 0
        /\ ~reset => next.offset = cur.offset /\ next.file = cur.file
    OBVIOUS
  <1>4. <<>> \in Seq(Half)
    BY EmptySeq
  <1> HIDE DEF reset
  <1>5. next \in Cursor
    BY <1>2, ProgressAssumption DEF Cursor
  <1> HIDE DEF next
  <1>6. BeginAt(log[s], cur) \in Chunk
    BY <1>1, <1>2, <1>4, <1>5 DEF Chunk
  <1> QED BY <1>1, <1>3, <1>6 DEF BeginIs

\* What is read, wherever that begins.
LEMMA DataIs ==
    ASSUME NEW text \in Seq(Half), NEW at \in Nat
    PROVE  /\ DataOf(text, at) \in Seq(Half) /\ Len(DataOf(text, at)) \in Nat
           /\ DataOf(text, at) # <<>> =>
                 /\ at + Len(DataOf(text, at)) <= Len(text)
                 /\ DataOf(text, at) =
                       SubSeq(text, at + 1, at + Len(DataOf(text, at)))
  <1> DEFINE l == Len(text)
             next == Min({at + MaxChunk, l})
             data == SubSeq(text, at + 1, next)
  <1>1. /\ l \in Nat /\ \A i \in 1..l : text[i] \in Half
        /\ MaxChunk \in Nat \ {0} /\ text \in Seq(Half)
    BY HalfIs, ChunkAssumption
  <1>2. next = IF at + MaxChunk <= l THEN at + MaxChunk ELSE l
    BY <1>1, MinOfTwo
  <1>3. DataOf(text, at) = data
    BY DEF DataOf
  <1>4. l = Len(text)
    OBVIOUS
  <1> HIDE DEF next, l
  <1>5. next \in Nat /\ next <= l
    BY <1>1, <1>2
  <1>6. \A i \in (at + 1)..next : text[i] \in Half
    BY <1>1, <1>5
  <1>7. /\ data \in Seq(Half)
        /\ Len(data) = IF at + 1 <= next THEN next - (at + 1) + 1 ELSE 0
    BY <1>1, <1>4, <1>5, <1>6, SubSeqProperties
  <1>8. at + 1 <= next => next = at + Len(data)
    BY <1>5, <1>7
  <1>9. ~(at + 1 <= next) => data = <<>>
    BY <1>1, <1>5, SubSeqEmpty
  <1>10. Len(data) \in Nat
    BY <1>5, <1>7
  <1>11. data # <<>> => /\ at + Len(data) <= l
                        /\ data = SubSeq(text, at + 1, at + Len(data))
    BY <1>5, <1>8, <1>9
  <1> HIDE DEF data
  <1> QED BY <1>3, <1>4, <1>7, <1>10, <1>11

LEMMA ChunkIs ==
    ASSUME ProgressTypeOK, NEW s \in Streams, LogIs(s), NEW b \in Chunk
    PROVE  LET c == ChunkOf(log[s], b)
               data == DataOf(log[s].text, b.cursor.offset)
           IN  /\ c \in Chunk /\ c.reset = b.reset /\ c.data = data
               /\ c.cursor.offset = b.cursor.offset + Len(data)
               /\ c.cursor.file = IF data = <<>> THEN b.cursor.file
                                  ELSE log[s].file
  <1> DEFINE data == DataOf(log[s].text, b.cursor.offset)
             next == [offset |-> b.cursor.offset + Len(data), key |-> b.cursor.key,
                      file |-> IF data = <<>> THEN b.cursor.file ELSE log[s].file]
  <1>1. ChunkOf(log[s], b) = [data |-> data, reset |-> b.reset, cursor |-> next]
    BY DEF ChunkOf
  <1>2. /\ log[s].text \in Seq(Half) /\ Len(log[s].text) \in Nat
        /\ log[s].file \in Files /\ trainer.lines \in 0..MaxWrites
    BY LogTyped
  <1>3. /\ b.reset \in BOOLEAN /\ b.cursor.offset \in 0..(2 * MaxWrites)
        /\ b.cursor.key \in Files \cup {0} /\ b.cursor.file \in Files \cup {0}
        /\ b.cursor.offset \in Nat
    BY ChunkTyped
  <1>4. /\ data \in Seq(Half) /\ Len(data) \in Nat
        /\ data # <<>> => b.cursor.offset + Len(data) <= Len(log[s].text)
    BY <1>2, <1>3, DataIs
  <1>5. Len(log[s].text) <= 2 * trainer.lines
    BY DEF LogIs
  <1>6. b.cursor.offset + Len(data) \in 0..(2 * MaxWrites)
    <2>1. CASE data = <<>>
      <3>1. Len(data) = 0
        BY <2>1
      <3> QED BY <1>3, <3>1
    <2>2. CASE data # <<>>
      BY <1>2, <1>3, <1>4, <1>5, <2>2, ProgressAssumption
    <2> QED BY <2>1, <2>2
  <1> HIDE DEF data
  <1>7. next \in Cursor
    BY <1>2, <1>3, <1>6 DEF Cursor
  <1>8. /\ next.offset = b.cursor.offset + Len(data)
        /\ next.file = IF data = <<>> THEN b.cursor.file ELSE log[s].file
    OBVIOUS
  <1> HIDE DEF next
  <1>9. ChunkOf(log[s], b) \in Chunk
    BY <1>1, <1>3, <1>4, <1>7 DEF Chunk
  <1> QED BY <1>1, <1>8, <1>9 DEF data

\* The rest is the half of a line before the offset.
LEMMA RestLen ==
    ASSUME NEW text \in Seq(Half), Lined(text), NEW o \in 0..Len(text)
    PROVE  /\ Len(RestIs(text, o)) \in 0..1 /\ Len(RestIs(text, o)) <= o
           /\ \A i \in 1..Len(RestIs(text, o)) :
                 RestIs(text, o)[i] = text[(o - Len(RestIs(text, o))) + i]
           /\ \/ Len(RestIs(text, o)) = o
              \/ text[o - Len(RestIs(text, o))].half = "tail"
           /\ \A i \in 1..Len(RestIs(text, o)) : RestIs(text, o)[i].half = "head"
  <1>1. /\ Len(text) \in Nat /\ DOMAIN text = 1..Len(text)
        /\ \A n \in 1..Len(text) : text[n].half \in {"head", "tail"}
    BY HalfIs
  <1>2. CASE o = 0 \/ text[o].half = "tail"
    <2>1. RestIs(text, o) = <<>> /\ Len(RestIs(text, o)) = 0
      BY <1>2 DEF RestIs
    <2> QED BY <1>1, <1>2, <2>1
  <1>3. CASE o # 0 /\ text[o].half # "tail"
    <2>1. RestIs(text, o) = <<text[o]>>
      BY <1>3 DEF RestIs
    <2>2. Len(RestIs(text, o)) = 1 /\ RestIs(text, o)[1] = text[o]
      BY <2>1
    <2>3. o \in 1..Len(text) /\ text[o].half = "head"
      BY <1>1, <1>3
    <2>4. o = 1 \/ text[o - 1].half = "tail"
      BY <1>1, <2>3 DEF Lined
    <2> QED BY <2>2, <2>3, <2>4
  <1> QED BY <1>2, <1>3

\* Nothing was there to be read: what was left is left.
LEMMA NoDataIsRead ==
    ASSUME ProgressTypeOK, NEW p \in Progress, NEW s \in Streams, LogIs(s),
           ShownIs(p, trainer), Passed(p, s, log[s]), NEW c \in Chunk,
           c.data = <<>>, BeginIs(p, s, c)
    PROVE  ReadIs(p, s, c, log[s], trainer)
  <1> DEFINE t == Text(p, s, c)
             o == c.cursor.offset
             text == log[s].text
  <1>1. p.rest[s] \in Seq(Half)
    BY ProgressIs
  <1>2. t = IF c.reset THEN <<>> ELSE p.rest[s]
    BY <1>1, ConcatEmptySeq DEF Text
  <1>3. Lined(t) /\ Reported(t, trainer)
    <2>1. Lined(<<>>) /\ Reported(<<>>, trainer)
      BY DEF Lined, Reported
    <2>2. Lined(p.rest[s]) /\ Reported(p.rest[s], trainer)
      BY DEF ShownIs
    <2> QED BY <1>2, <2>1, <2>2
  <1>4. /\ text \in Seq(Half) /\ Lined(text) /\ DOMAIN text = 1..Len(text)
        /\ Len(text) \in Nat /\ log[s].file \in Nat \ {0}
    BY LogTyped, HalfIs DEF LogIs
  <1>5. /\ c.reset => o = 0 /\ c.cursor.file = 0
        /\ ~c.reset => /\ o = p.cursor[s].offset
                       /\ c.cursor.file = p.cursor[s].file
        /\ o \in Nat /\ c.reset \in BOOLEAN
    BY ChunkTyped DEF BeginIs
  <1>6. /\ p.cursor[s].file <= log[s].file
        /\ p.cursor[s].file = 0 => p.cursor[s].offset = 0 /\ p.rest[s] = <<>>
        /\ p.cursor[s].file = log[s].file =>
              /\ p.cursor[s].offset <= Len(text)
              /\ \A n \in Ends(text) :
                    n <= p.cursor[s].offset => text[n].step <= p.raw
              /\ p.rest[s] = RestIs(text, p.cursor[s].offset)
    BY DEF Passed
  <1> HIDE DEF t, o, text
  <1>7. /\ c.cursor.file <= log[s].file
        /\ c.cursor.file = 0 => o = 0 /\ t = <<>>
    BY <1>2, <1>4, <1>5, <1>6
  <1>8. ASSUME c.cursor.file = log[s].file
        PROVE  /\ IsPart(t, text, o)
               /\ \A n \in Ends(text) : n <= o - Len(t) => text[n].step <= p.raw
    <2>1. ~c.reset /\ p.cursor[s].file = log[s].file
      BY <1>4, <1>5, <1>8
    <2>2. /\ o <= Len(text) /\ o \in 0..Len(text)
          /\ \A n \in Ends(text) : n <= o => text[n].step <= p.raw
          /\ t = RestIs(text, o)
      BY <1>2, <1>4, <1>5, <1>6, <2>1
    <2>3. /\ Len(t) \in 0..1 /\ Len(t) <= o
          /\ \A i \in 1..Len(t) : t[i] = text[(o - Len(t)) + i]
          /\ Len(t) = o \/ text[o - Len(t)].half = "tail"
      BY <1>4, <2>2, RestLen
    <2>4. IsPart(t, text, o)
      BY <2>2, <2>3 DEF IsPart
    <2>5. ASSUME NEW n \in Ends(text), n <= o - Len(t)
          PROVE  text[n].step <= p.raw
      <3>1. n \in Nat
        BY <1>4 DEF Ends
      <3>2. n <= o
        BY <1>5, <2>3, <2>5, <3>1
      <3> QED BY <2>2, <3>2
    <2> QED BY <2>4, <2>5
  <1> QED BY <1>3, <1>7, <1>8 DEF ReadIs, t, o, text

LEMMA DataIsRead ==
    ASSUME ProgressTypeOK, NEW p \in Progress, NEW s \in Streams, LogIs(s),
           Passed(p, s, log[s]), NEW b \in Chunk, BeginIs(p, s, b),
           DataOf(log[s].text, b.cursor.offset) # <<>>,
           b.cursor.file \in {0, log[s].file}
    PROVE  ReadIs(p, s, ChunkOf(log[s], b), log[s], trainer)
  <1> DEFINE c == ChunkOf(log[s], b)
             text == log[s].text
             at == b.cursor.offset
             o == c.cursor.offset
             rest == IF c.reset THEN <<>> ELSE p.rest[s]
             t == Text(p, s, c)
  <1>1. /\ text \in Seq(Half) /\ Len(text) \in Nat /\ log[s].file \in Nat \ {0}
        /\ \A n \in 1..Len(text) : text[n] \in Half
        /\ DOMAIN text = 1..Len(text)
    BY LogTyped, HalfIs
  <1>2. Lined(text) /\ Reported(text, trainer)
    BY DEF LogIs
  <1>3. /\ c.cursor.file = log[s].file /\ o \in Nat /\ at \in Nat
        /\ at <= o /\ o <= Len(text)
        /\ c.data = SubSeq(text, at + 1, o) /\ c.reset \in BOOLEAN
        /\ c.reset = b.reset /\ c \in Chunk
    <2> DEFINE data == DataOf(text, at)
    <2>1. at \in Nat /\ b.reset \in BOOLEAN
      BY ChunkTyped
    <2>2. /\ Len(data) \in Nat /\ data # <<>>
          /\ at + Len(data) <= Len(text)
          /\ data = SubSeq(text, at + 1, at + Len(data))
      BY <1>1, <2>1, DataIs
    <2>3. /\ c \in Chunk /\ c.reset = b.reset /\ c.data = data
          /\ o = at + Len(data) /\ c.cursor.file = log[s].file
      BY <2>2, ChunkIs
    <2> HIDE DEF data, c, at, o, text
    <2>4. o \in Nat /\ at <= o
      BY <2>1, <2>2, <2>3
    <2> QED BY <2>1, <2>2, <2>3, <2>4
  <1>4. p.cursor[s].offset \in Nat /\ p.rest[s] \in Seq(Half)
    BY ProgressIs
  <1>5. /\ at \in 0..Len(text) /\ rest = RestIs(text, at)
        /\ \A n \in Ends(text) : n <= at => text[n].step <= p.raw
    <2>1. CASE b.cursor.file = 0
      <3>1. at = 0 /\ rest = <<>>
        BY <1>3, <2>1 DEF Passed, BeginIs
      <3>2. RestIs(text, 0) = <<>>
        BY DEF RestIs
      <3>3. \A n \in Ends(text) : ~(n <= 0)
        BY <1>1 DEF Ends
      <3> QED BY <1>1, <3>1, <3>2, <3>3
    <2>2. CASE b.cursor.file # 0 /\ b.cursor.file = log[s].file
      <3>1. ~b.reset /\ p.cursor[s].file = log[s].file /\ at = p.cursor[s].offset
        BY <2>2 DEF BeginIs
      <3>2. rest = p.rest[s]
        BY <1>3, <3>1
      <3> QED BY <1>1, <1>4, <3>1, <3>2 DEF Passed
    <2> QED BY <2>1, <2>2
  <1>6. c \in Chunk
    BY <1>3
  <1>7. t = rest \o c.data
    BY DEF Text
  <1>8. rest \in Seq(Half) /\ c.data \in Seq(Half)
    BY <1>4, <1>6, EmptySeq DEF Chunk
  <1> HIDE DEF c, text, at, o, rest, t
  <1>9. /\ Len(rest) \in Nat /\ Len(rest) <= at
        /\ \A i \in 1..Len(rest) : rest[i] = text[(at - Len(rest)) + i]
        /\ Len(rest) = at \/ text[at - Len(rest)].half = "tail"
        /\ \A i \in 1..Len(rest) : rest[i].half = "head"
    <2> DEFINE k == RestIs(text, at)
    <2>1. /\ Len(k) \in 0..1 /\ Len(k) <= at
          /\ \A i \in 1..Len(k) : k[i] = text[(at - Len(k)) + i]
          /\ Len(k) = at \/ text[at - Len(k)].half = "tail"
          /\ \A i \in 1..Len(k) : k[i].half = "head"
      <3>1. text \in Seq(Half) /\ Lined(text) /\ at \in 0..Len(text)
        BY <1>1, <1>2, <1>5
      <3> HIDE DEF k
      <3>2. k = RestIs(text, at)
        BY DEF k
      <3> QED BY <3>1, <3>2, RestLen
    <2>2. k = rest
      BY <1>5
    <2> HIDE DEF k
    <2> QED BY <2>1, <2>2
  <1>10. /\ Len(c.data) = o - at
         /\ \A i \in 1..(o - at) : c.data[i] = text[at + i]
    <2>1. \A i \in (at + 1)..o : text[i] \in Half
      BY <1>1, <1>3, <1>5
    <2>2. /\ Len(c.data) = IF at + 1 <= o THEN o - (at + 1) + 1 ELSE 0
          /\ \A i \in 1..(o - (at + 1) + 1) : c.data[i] = text[(at + 1) + i - 1]
      BY <1>3, <1>5, <2>1, SubSeqProperties
    <2>3. /\ o - (at + 1) + 1 = o - at
          /\ \A i \in 1..(o - at) : (at + 1) + i - 1 = at + i
      <3>1. o \in Nat /\ at \in Nat
        BY <1>3
      <3> QED BY <3>1
    <2> QED BY <1>3, <1>5, <2>2, <2>3
  <1>11. /\ t \in Seq(Half) /\ Len(t) = Len(rest) + (o - at)
         /\ \A i \in 1..Len(t) : t[i] = IF i <= Len(rest) THEN rest[i]
                                        ELSE c.data[i - Len(rest)]
    BY <1>7, <1>8, <1>10, ConcatProperties
  <1>12. /\ Len(t) \in Nat /\ Len(t) <= o /\ o - Len(t) = at - Len(rest)
    BY <1>3, <1>5, <1>9, <1>11
  <1>13. \A i \in 1..Len(t) : t[i] = text[(o - Len(t)) + i]
    <2> SUFFICES ASSUME NEW i \in 1..Len(t)
                 PROVE  t[i] = text[(at - Len(rest)) + i]
      BY <1>12
    <2>1. CASE i <= Len(rest)
      BY <1>9, <1>11, <2>1
    <2>2. CASE ~(i <= Len(rest))
      <3>1. /\ i - Len(rest) \in 1..(o - at)
            /\ at + (i - Len(rest)) = (at - Len(rest)) + i
        BY <1>1, <1>3, <1>5, <1>9, <1>11, <2>2
      <3> QED BY <1>10, <1>11, <2>2, <3>1
    <2> QED BY <2>1, <2>2
  <1>14. Len(t) = o \/ text[o - Len(t)].half = "tail"
    <2>1. CASE Len(rest) = at
      BY <1>3, <1>5, <1>9, <1>11, <2>1
    <2>2. CASE text[at - Len(rest)].half = "tail"
      BY <1>12, <2>2
    <2> QED BY <1>9, <2>1, <2>2
  <1>15. Lined(t) /\ Reported(t, trainer)
    <2> DEFINE d == o - Len(t)
    <2>1. d \in Nat /\ d + Len(t) <= Len(text) /\ (d = 0 \/ text[d].half = "tail")
      BY <1>1, <1>3, <1>12, <1>14
    <2>2. \A i \in 1..Len(t) : t[i] = text[d + i]
      BY <1>13
    <2> HIDE DEF d
    <2> QED BY <1>1, <1>2, <1>11, <2>1, <2>2, PartIsLined
  <1>16. IsPart(t, text, o)
    BY <1>3, <1>12, <1>13, <1>14 DEF IsPart
  <1>17. \A n \in Ends(text) : n <= o - Len(t) => text[n].step <= p.raw
    <2> SUFFICES ASSUME NEW n \in Ends(text), n <= o - Len(t)
                 PROVE  text[n].step <= p.raw
      OBVIOUS
    <2>1. n \in Nat
      BY <1>1 DEF Ends
    <2>2. n <= at
      BY <1>5, <1>9, <1>12, <2>1
    <2> QED BY <1>5, <2>2
  <1>18. ReadIs(p, s, c, log[s], trainer)
    BY <1>1, <1>3, <1>15, <1>16, <1>17 DEF ReadIs, t, text, o
  <1> QED BY <1>18 DEF c

LEMMA ChunkIsRead ==
    ASSUME ProgressTypeOK, NEW p \in Progress, NEW s \in Streams, LogIs(s),
           ShownIs(p, trainer), Passed(p, s, log[s]), NEW b \in Chunk,
           BeginIs(p, s, b), ChunkOf(log[s], b).data # <<>> =>
                                 b.cursor.file \in {0, log[s].file}
    PROVE  ReadIs(p, s, ChunkOf(log[s], b), log[s], trainer)
  <1> DEFINE c == ChunkOf(log[s], b)
             data == DataOf(log[s].text, b.cursor.offset)
  <1>1. /\ c \in Chunk /\ c.reset = b.reset /\ c.data = data
        /\ c.cursor.offset = b.cursor.offset + Len(data)
        /\ c.cursor.file = IF data = <<>> THEN b.cursor.file ELSE log[s].file
    BY ChunkIs
  <1>2. CASE data # <<>>
    <2>1. b.cursor.file \in {0, log[s].file}
      BY <1>1, <1>2
    <2> QED BY <1>2, <2>1, DataIsRead
  <1>3. CASE data = <<>>
    <2>1. Len(data) = 0 /\ b.cursor.offset \in Nat
      BY <1>3, ChunkTyped
    <2>2. c.cursor.offset = b.cursor.offset /\ c.cursor.file = b.cursor.file
      BY <1>1, <1>3, <2>1
    <2> HIDE DEF c, data
    <2>3. BeginIs(p, s, c) /\ c.data = <<>>
      BY <1>1, <1>3, <2>2 DEF BeginIs
    <2>4. ReadIs(p, s, c, log[s], trainer)
      BY <1>1, <2>3, NoDataIsRead
    <2> QED BY <2>4 DEF c
  <1> QED BY <1>2, <1>3

-----------------------------------------------------------------------------
(* the row that a thread makes of what it has read *)

LEMMA PartIsPassed ==
    ASSUME NEW t \in Seq(Half), Lined(t), NEW text \in Seq(Half), NEW o \in Nat,
           IsPart(t, text, o)
    PROVE  Remainder(t) = RestIs(text, o)
  <1>1. /\ Len(t) \in Nat /\ Len(text) \in Nat
        /\ \A n \in 1..Len(t) : t[n].half \in {"head", "tail"}
    BY HalfIs
  <1>2. /\ o <= Len(text) /\ Len(t) <= o
        /\ \A i \in 1..Len(t) : t[i] = text[(o - Len(t)) + i]
        /\ Len(t) = o \/ text[o - Len(t)].half = "tail"
    BY DEF IsPart
  <1>3. Remainder(t) = IF Unended(t) THEN <<t[Len(t)]>> ELSE <<>>
    BY RemainderIs
  <1>4. CASE Len(t) = 0
    <2>1. ~Unended(t)
      BY <1>4 DEF Unended
    <2>2. o = 0 \/ text[o].half = "tail"
      BY <1>1, <1>2, <1>4
    <2> QED BY <1>3, <2>1, <2>2 DEF RestIs
  <1>5. CASE Len(t) # 0
    <2>1. Len(t) \in 1..Len(t) /\ (o - Len(t)) + Len(t) = o /\ o # 0
      BY <1>1, <1>2, <1>5
    <2>2. t[Len(t)] = text[o] /\ t[Len(t)].half \in {"head", "tail"}
      BY <1>1, <1>2, <2>1
    <2>3. Unended(t) <=> text[o].half # "tail"
      BY <1>5, <2>2 DEF Unended
    <2> QED BY <1>3, <2>1, <2>2, <2>3 DEF RestIs
  <1> QED BY <1>4, <1>5

\* What the parse of what was read gives.
LEMMA NewRowIs ==
    ASSUME ProgressTypeOK, TrainerIs, NEW p \in Progress,
           NEW c \in [Streams -> Chunk], ShownIs(p, trainer),
           \A s \in Streams : ReadIs(p, s, c[s], log[s], trainer)
    PROVE  /\ ShownIs(NewRow(p, c), trainer)
           /\ \A x \in NewPoints(p, c) : x <= Done(trainer)
  <1> DEFINE raw == Merged(p, c)
             mode == Mode(p.mode, raw)
             step == IF raw = 0 THEN 0 ELSE raw + Offset(mode)
             top == Max({step, p.step})
             E == AllEvents(p, c)
  <1>1. /\ NewRow(p, c).raw = raw /\ NewRow(p, c).mode = mode
        /\ NewRow(p, c).step = top
        /\ \A s \in Streams :
              NewRow(p, c).rest[s] = Remainder(Text(p, s, c[s]))
    BY DEF NewRow
  <1>2. /\ p.raw \in Nat /\ p.step \in Nat
        /\ p.mode \in {"unknown", "local", "cumulative"}
    BY ProgressIs
  <1>3. /\ trainer.step \in Nat /\ trainer.counts \in {"local", "cumulative"}
        /\ Initial \in Nat
    BY ProgressAssumption DEF ProgressTypeOK, Trainer, Steps
  <1>4. TextsAre(p, c)
    <2> SUFFICES ASSUME NEW s \in Streams
                 PROVE  /\ Text(p, s, c[s]) \in Seq(Half)
                        /\ Lined(Text(p, s, c[s]))
                        /\ Reported(Text(p, s, c[s]), trainer)
      BY DEF TextsAre
    <2> QED BY TextTyped DEF ReadIs
  <1>5. /\ p.raw <= trainer.step
        /\ p.raw = 0 <=> p.mode = "unknown"
        /\ p.mode = "local" => trainer.counts = "local"
        /\ p.step <= Done(trainer)
    BY DEF ShownIs
  <1>6. /\ raw \in E \cup {p.raw} /\ raw \in Nat /\ raw <= trainer.step
        /\ p.raw <= raw
    BY <1>2, <1>3, <1>4, <1>5, MergedIs
  <1>7. /\ E \subseteq Nat
        /\ \A x \in E : x <= trainer.step
        /\ \A x \in E : trainer.counts = "local" \/ x >= Initial
    BY <1>2, <1>3, <1>4, AllEventsAre
  <1>8. /\ p.mode # "unknown" \/ raw = 0 => mode = p.mode
        /\ ~(p.mode # "unknown" \/ raw = 0) =>
              mode = IF raw < Initial THEN "local" ELSE "cumulative"
        /\ mode \in {"unknown", "local", "cumulative"}
    BY <1>2, <1>6, ModeIs
  <1>9. NewPoints(p, c) = {x + Offset(mode) : x \in E}
    BY DEF NewPoints
  <1>10. step = IF raw = 0 THEN 0 ELSE raw + Offset(mode)
    OBVIOUS
  <1>11. Offset(mode) = IF mode = "local" THEN Initial ELSE 0
    BY DEF Offset
  <1>12. Done(trainer) =
            trainer.step + IF trainer.counts = "local" THEN Initial ELSE 0
    BY DEF Done
  <1>13. top = Max({step, p.step})
    OBVIOUS
  <1> HIDE DEF raw, mode, step, top, E
  <1>14. Offset(mode) \in Nat /\ step \in Nat
    BY <1>3, <1>6, <1>10, <1>11
  <1>15. raw = 0 <=> mode = "unknown"
    BY <1>2, <1>3, <1>5, <1>6, <1>8
  <1>16. mode = "local" => trainer.counts = "local"
    <2>1. CASE p.mode # "unknown" \/ raw = 0
      BY <1>5, <1>8, <2>1
    <2>2. CASE ~(p.mode # "unknown" \/ raw = 0)
      <3>1. raw \in E
        BY <1>5, <1>6, <2>2
      <3>2. trainer.counts = "local" \/ raw >= Initial
        BY <1>7, <3>1
      <3> QED BY <1>3, <1>6, <1>8, <2>2, <3>2
    <2> QED BY <2>1, <2>2
  <1>17. step <= Done(trainer)
    BY <1>3, <1>6, <1>10, <1>11, <1>12, <1>16
  <1>18. top <= Done(trainer)
    <2>1. top = IF step <= p.step THEN p.step ELSE step
      BY <1>2, <1>13, <1>14, MaxOfTwo
    <2> QED BY <1>5, <1>17, <2>1
  <1>19. ASSUME NEW s \in Streams
         PROVE  /\ Lined(NewRow(p, c).rest[s])
                /\ Reported(NewRow(p, c).rest[s], trainer)
    <2> DEFINE t == Text(p, s, c[s])
               l == Len(t)
    <2>1. t \in Seq(Half) /\ Lined(t) /\ Reported(t, trainer)
      BY <1>4 DEF TextsAre
    <2>2. NewRow(p, c).rest[s] = Remainder(t)
      BY <1>1
    <2> HIDE DEF t
    <2>3. l \in Nat /\ DOMAIN t = 1..l
      BY <2>1, HalfIs
    <2>4. Remainder(t) = IF Unended(t) THEN <<t[l]>> ELSE <<>>
      BY <2>1, RemainderIs
    <2>5. CASE ~Unended(t)
      <3>1. Lined(<<>>) /\ Reported(<<>>, trainer)
        BY DEF Lined, Reported
      <3> QED BY <2>2, <2>4, <2>5, <3>1
    <2>6. CASE Unended(t)
      <3>1. l \in 1..l /\ t[l].half = "head"
        BY <2>3, <2>6 DEF Unended
      <3>2. /\ t[l].step <= trainer.step
            /\ trainer.counts = "local" \/ t[l].step >= Initial
            /\ t[l].step <= t[l].step
        BY <2>1, <2>3, <3>1, HalfIs DEF Reported
      <3> DEFINE h == t[l]
      <3>3. /\ h.half = "head" /\ h.step <= trainer.step /\ h.step <= h.step
            /\ trainer.counts = "local" \/ h.step >= Initial
        BY <3>1, <3>2
      <3> HIDE DEF h
      <3>4. Lined(<<h>>) /\ Reported(<<h>>, trainer)
        BY <3>3 DEF Lined, Reported
      <3> QED BY <2>2, <2>4, <2>6, <3>4 DEF h
    <2> QED BY <2>5, <2>6
  <1>20. ShownIs(NewRow(p, c), trainer)
    BY <1>1, <1>6, <1>15, <1>16, <1>18, <1>19 DEF ShownIs
  <1>21. ASSUME NEW x \in E
         PROVE  x + Offset(mode) <= Done(trainer)
    BY <1>3, <1>7, <1>11, <1>12, <1>16
  <1> QED BY <1>9, <1>20, <1>21

\* It has passed what the thread has read.
LEMMA NewRowPassed ==
    ASSUME ProgressTypeOK, NEW p \in Progress, NEW c \in [Streams -> Chunk],
           ShownIs(p, trainer),
           \A s \in Streams : ReadIs(p, s, c[s], log[s], trainer), NEW s \in Streams
    PROVE  Passed(NewRow(p, c), s, log[s])
  <1> DEFINE t == Text(p, s, c[s])
             o == c[s].cursor.offset
             text == log[s].text
             q == NewRow(p, c)
             raw == Merged(p, c)
             E == AllEvents(p, c)
  <1>1. /\ text \in Seq(Half) /\ Len(text) \in Nat /\ log[s].file \in Nat \ {0}
        /\ DOMAIN text = 1..Len(text) /\ trainer.step \in Nat
        /\ \A n \in 1..Len(text) : text[n].step \in Nat
    BY LogTyped, HalfIs
  <1>2. /\ t \in Seq(Half) /\ o \in Nat /\ Len(t) \in Nat
        /\ DOMAIN t = 1..Len(t)
    <2>1. t \in Seq(Half)
      BY TextTyped
    <2>2. o \in Nat
      BY ChunkTyped
    <2> HIDE DEF t
    <2> QED BY <2>1, <2>2, HalfIs
  <1>3. /\ Lined(t) /\ c[s].cursor.file <= log[s].file
        /\ c[s].cursor.file = 0 => o = 0 /\ t = <<>>
        /\ c[s].cursor.file = log[s].file =>
              /\ IsPart(t, text, o)
              /\ \A n \in Ends(text) :
                    n <= o - Len(t) => text[n].step <= p.raw
    BY DEF ReadIs
  <1>4. TextsAre(p, c)
    <2> SUFFICES ASSUME NEW u \in Streams
                 PROVE  /\ Text(p, u, c[u]) \in Seq(Half)
                        /\ Lined(Text(p, u, c[u]))
                        /\ Reported(Text(p, u, c[u]), trainer)
      BY DEF TextsAre
    <2> QED BY TextTyped DEF ReadIs
  <1>5. p.raw \in Nat /\ p.raw <= trainer.step
    BY ProgressIs DEF ShownIs
  <1>6. /\ raw \in Nat /\ p.raw <= raw /\ \A x \in E : x <= raw
    BY <1>1, <1>4, <1>5, MergedIs
  <1>7. \A n \in Ends(t) : t[n].step >= p.raw => t[n].step \in E
    BY <1>1, <1>4, <1>5, AllEventsAre
  <1>8. /\ q.raw = raw /\ q.cursor[s] = c[s].cursor /\ q.rest[s] = Remainder(t)
    BY DEF NewRow
  <1> HIDE DEF t, o, text, q, raw, E
  <1>9. CASE c[s].cursor.file = log[s].file
    <2>1. IsPart(t, text, o)
      BY <1>3, <1>9
    <2>2. /\ o <= Len(text) /\ Len(t) <= o
          /\ \A i \in 1..Len(t) : t[i] = text[(o - Len(t)) + i]
      BY <2>1 DEF IsPart
    <2>3. Remainder(t) = RestIs(text, o)
      BY <1>1, <1>2, <1>3, <2>1, PartIsPassed
    <2>4. ASSUME NEW n \in Ends(text), n <= o
          PROVE  text[n].step <= raw
      <3>1. n \in 1..Len(text) /\ text[n].half = "tail" /\ text[n].step \in Nat
        BY <1>1 DEF Ends
      <3>2. CASE n <= o - Len(t)
        <4>1. text[n].step <= p.raw
          BY <1>3, <1>9, <3>2
        <4> QED BY <1>5, <1>6, <3>1, <4>1
      <3>3. CASE ~(n <= o - Len(t))
        <4> DEFINE i == n - (o - Len(t))
        <4>1. i \in 1..Len(t) /\ (o - Len(t)) + i = n
          BY <1>2, <2>2, <2>4, <3>1, <3>3
        <4> HIDE DEF i
        <4>2. t[i] = text[n]
          BY <2>2, <4>1
        <4>3. i \in Ends(t)
          BY <1>2, <3>1, <4>1, <4>2 DEF Ends
        <4>4. text[n].step >= p.raw => text[n].step \in E
          BY <1>7, <4>2, <4>3
        <4> QED BY <1>5, <1>6, <3>1, <4>4
      <3> QED BY <3>2, <3>3
    <2> QED BY <1>1, <1>3, <1>8, <1>9, <2>2, <2>3, <2>4
              DEF Passed, q, text, o
  <1>10. CASE c[s].cursor.file # log[s].file
    <2>1. c[s].cursor.file = 0 => Remainder(t) = <<>>
      <3> SUFFICES ASSUME c[s].cursor.file = 0 PROVE Remainder(t) = <<>>
        OBVIOUS
      <3>1. t = <<>>
        BY <1>3
      <3>2. ~Unended(t)
        BY <3>1 DEF Unended
      <3> QED BY <1>2, <1>3, <3>2, RemainderIs
    <2> QED BY <1>3, <1>8, <1>10, <2>1 DEF Passed, q, o
  <1> QED BY <1>9, <1>10

-----------------------------------------------------------------------------
(* what the trainer's steps leave true *)

\* A log that has got a half of a line more, or has been replaced.
Onward(f, g) ==
    \/ g = f
    \/ g.file = f.file /\ \E h \in Half : g.text = Append(f.text, h)
    \/ f.file < g.file
Later(t, u) == t.counts = u.counts /\ t.step <= u.step
LaterFile(f, g) ==
    \/ g = f
    \/ f.version < g.version
    \/ g.version = f.version /\ g.whole

Moved ==
    /\ Later(trainer, trainer') /\ LaterFile(lora, lora')
    /\ \A s \in Streams : Onward(log[s], log'[s])

\* What a step of the trainer has to leave true.
Goes ==
    /\ trainer' \in Trainer /\ log' \in [Streams -> Log] /\ lora' \in Lora
    /\ mishaps' \in 0..MaxMishaps
    /\ TrainerIs' /\ (\A s \in Streams : LogIs(s))'
    /\ Later(trainer, trainer') /\ LaterFile(lora, lora')
    /\ \A s \in Streams : Onward(log[s], log'[s])

LEMMA AppendIs ==
    ASSUME NEW text \in Seq(Half), NEW h \in Half
    PROVE  /\ Append(text, h) \in Seq(Half) /\ Len(text) \in Nat
           /\ Len(Append(text, h)) = Len(text) + 1
           /\ \A i \in 1..Len(text) : Append(text, h)[i] = text[i]
           /\ Append(text, h)[Len(text) + 1] = h
           /\ DOMAIN text = 1..Len(text)
           /\ DOMAIN Append(text, h) = 1..(Len(text) + 1)
  <1>1. Append(text, h) \in Seq(Half) /\ Len(text) \in Nat
    BY AppendProperties, HalfIs
  <1> QED BY <1>1, AppendProperties, LenProperties

LEMMA ReportedStays ==
    ASSUME NEW text \in Seq(Half), NEW t \in Trainer, NEW u \in Trainer,
           Later(t, u), Reported(text, t)
    PROVE  Reported(text, u)
  <1>1. t.step \in Nat /\ u.step \in Nat /\ t.step <= u.step /\ t.counts = u.counts
    BY ProgressAssumption DEF Trainer, Later, Steps
  <1>2. DOMAIN text = 1..Len(text) /\ \A n \in 1..Len(text) : text[n].step \in Nat
    BY HalfIs
  <1>3. \A n \in 1..Len(text) : text[n].step <= u.step
    BY <1>1, <1>2 DEF Reported
  <1> QED BY <1>1, <1>2, <1>3 DEF Reported

LEMMA DoneStays ==
    ASSUME NEW t \in Trainer, NEW u \in Trainer, Later(t, u)
    PROVE  /\ Done(t) \in Nat /\ Done(u) \in Nat /\ Done(t) <= Done(u)
  BY ProgressAssumption DEF Trainer, Later, Done, Steps

LEMMA ShownStays ==
    ASSUME NEW p \in Progress, NEW t \in Trainer, NEW u \in Trainer, Later(t, u),
           ShownIs(p, t)
    PROVE  ShownIs(p, u)
  <1>1. /\ t.step \in Nat /\ u.step \in Nat /\ t.step <= u.step
        /\ t.counts = u.counts
    BY ProgressAssumption DEF Trainer, Later, Steps
  <1>2. /\ p.raw \in Nat /\ p.step \in Nat
        /\ \A s \in Streams : p.rest[s] \in Seq(Half)
    BY ProgressIs
  <1>3. Done(t) \in Nat /\ Done(u) \in Nat /\ Done(t) <= Done(u)
    BY DoneStays
  <1>4. p.raw <= u.step /\ p.step <= Done(u)
    BY <1>1, <1>2, <1>3 DEF ShownIs
  <1>5. \A s \in Streams : Lined(p.rest[s]) /\ Reported(p.rest[s], u)
    BY <1>2, ReportedStays DEF ShownIs
  <1> QED BY <1>1, <1>4, <1>5 DEF ShownIs

\* What stands before an offset of a log stays there.
LEMMA EndsStay ==
    ASSUME NEW text \in Seq(Half), NEW h \in Half, NEW o \in Nat, o <= Len(text)
    PROVE  /\ \A n \in Ends(Append(text, h)) :
                 n <= o => n \in Ends(text) /\ Append(text, h)[n] = text[n]
           /\ RestIs(Append(text, h), o) = RestIs(text, o)
           /\ o <= Len(Append(text, h))
           /\ \A i \in 1..o : Append(text, h)[i] = text[i]
  <1> DEFINE more == Append(text, h)
             l == Len(text)
  <1>1. /\ l \in Nat /\ Len(more) = l + 1
        /\ \A i \in 1..l : more[i] = text[i]
        /\ DOMAIN text = 1..l /\ DOMAIN more = 1..(l + 1)
    BY AppendIs
  <1> HIDE DEF more, l
  <1>2. o <= l
    BY DEF l
  <1>3. \A i \in 1..o : more[i] = text[i]
    BY <1>1, <1>2
  <1>4. ASSUME NEW n \in Ends(more), n <= o
        PROVE  n \in Ends(text) /\ more[n] = text[n]
    <2>1. n \in 1..l
      BY <1>1, <1>2, <1>4 DEF Ends
    <2>2. more[n] = text[n] /\ more[n].half = "tail"
      BY <1>1, <1>4, <2>1 DEF Ends
    <2> QED BY <1>1, <2>1, <2>2 DEF Ends
  <1>5. RestIs(more, o) = RestIs(text, o)
    <2>1. CASE o = 0
      BY <2>1 DEF RestIs
    <2>2. CASE o # 0
      <3>1. more[o] = text[o]
        BY <1>3, <2>2
      <3> QED BY <3>1 DEF RestIs
    <2> QED BY <2>1, <2>2
  <1>6. o <= Len(more)
    BY <1>1, <1>2
  <1> QED BY <1>3, <1>4, <1>5, <1>6 DEF more

LEMMA PassedStays ==
    ASSUME NEW p \in Progress, NEW s \in Streams, NEW f \in Log, NEW g \in Log,
           Onward(f, g), Passed(p, s, f)
    PROVE  Passed(p, s, g)
  <1>1. /\ f.text \in Seq(Half) /\ f.file \in Nat /\ g.file \in Nat
        /\ p.cursor[s].file \in Nat /\ p.cursor[s].offset \in Nat
    BY ProgressIs, ProgressAssumption DEF Log, Files
  <1>2. CASE g = f
    BY <1>2
  <1>3. ASSUME NEW h \in Half, g.file = f.file, g.text = Append(f.text, h)
        PROVE  Passed(p, s, g)
    <2> SUFFICES ASSUME p.cursor[s].file = f.file
                 PROVE  /\ p.cursor[s].offset <= Len(g.text)
                        /\ \A n \in Ends(g.text) :
                              n <= p.cursor[s].offset => g.text[n].step <= p.raw
                        /\ p.rest[s] = RestIs(g.text, p.cursor[s].offset)
      BY <1>3 DEF Passed
    <2> DEFINE o == p.cursor[s].offset
    <2>1. /\ o <= Len(f.text)
          /\ \A n \in Ends(f.text) : n <= o => f.text[n].step <= p.raw
          /\ p.rest[s] = RestIs(f.text, o)
      BY DEF Passed
    <2>2. o \in Nat
      BY <1>1
    <2>3. o = p.cursor[s].offset
      OBVIOUS
    <2> HIDE DEF o
    <2>4. /\ \A n \in Ends(g.text) :
                n <= o => n \in Ends(f.text) /\ g.text[n] = f.text[n]
          /\ RestIs(g.text, o) = RestIs(f.text, o)
          /\ o <= Len(g.text)
      <3> DEFINE text == f.text
      <3>1. text \in Seq(Half) /\ o <= Len(text) /\ g.text = Append(text, h)
        BY <1>1, <1>3, <2>1
      <3> HIDE DEF text
      <3>2. /\ \A n \in Ends(Append(text, h)) :
                  n <= o => n \in Ends(text) /\ Append(text, h)[n] = text[n]
            /\ RestIs(Append(text, h), o) = RestIs(text, o)
            /\ o <= Len(Append(text, h))
        BY <2>2, <3>1, EndsStay
      <3> QED BY <3>1, <3>2 DEF text
    <2> QED BY <2>1, <2>3, <2>4
  <1>4. CASE f.file < g.file
    <2>1. p.cursor[s].file <= f.file
      BY DEF Passed
    <2>2. p.cursor[s].file <= g.file /\ p.cursor[s].file # g.file
      BY <1>1, <1>4, <2>1
    <2> QED BY <2>2 DEF Passed
  <1> QED BY <1>2, <1>3, <1>4 DEF Onward

LEMMA ReadStays ==
    ASSUME NEW p \in Progress, NEW s \in Streams, NEW f \in Log, NEW g \in Log,
           NEW c \in Chunk, NEW t \in Trainer, NEW u \in Trainer,
           Onward(f, g), Later(t, u), ReadIs(p, s, c, f, t)
    PROVE  ReadIs(p, s, c, g, u)
  <1> DEFINE x == Text(p, s, c)
             o == c.cursor.offset
  <1>1. /\ f.text \in Seq(Half) /\ f.file \in Nat /\ g.file \in Nat
        /\ c.cursor.file \in Nat /\ o \in Nat
    BY ChunkTyped, ProgressAssumption DEF Log, Files
  <1>2. x \in Seq(Half)
    BY TextTyped
  <1>3. /\ Lined(x) /\ Reported(x, t) /\ c.cursor.file <= f.file
        /\ c.cursor.file = 0 => o = 0 /\ x = <<>>
        /\ c.cursor.file = f.file =>
              /\ IsPart(x, f.text, o)
              /\ \A n \in Ends(f.text) :
                    n <= o - Len(x) => f.text[n].step <= p.raw
    BY DEF ReadIs
  <1> HIDE DEF x, o
  <1>4. Reported(x, u) /\ Len(x) \in Nat
    BY <1>2, <1>3, HalfIs, ReportedStays
  <1>5. SUFFICES /\ c.cursor.file <= g.file
                 /\ c.cursor.file = g.file =>
                       /\ IsPart(x, g.text, o)
                       /\ \A n \in Ends(g.text) :
                             n <= o - Len(x) => g.text[n].step <= p.raw
    BY <1>3, <1>4 DEF ReadIs, x, o
  <1>6. CASE g = f
    BY <1>3, <1>6
  <1>7. ASSUME NEW h \in Half, g.file = f.file, g.text = Append(f.text, h),
               c.cursor.file = f.file
        PROVE  /\ IsPart(x, g.text, o)
               /\ \A n \in Ends(g.text) :
                     n <= o - Len(x) => g.text[n].step <= p.raw
    <2>1. /\ o <= Len(f.text) /\ Len(x) <= o
          /\ \A i \in 1..Len(x) : x[i] = f.text[(o - Len(x)) + i]
          /\ Len(x) = o \/ f.text[o - Len(x)].half = "tail"
      BY <1>3, <1>7 DEF IsPart
    <2>2. /\ \A n \in Ends(g.text) :
                n <= o => n \in Ends(f.text) /\ g.text[n] = f.text[n]
          /\ o <= Len(g.text)
          /\ \A i \in 1..o : g.text[i] = f.text[i]
      <3> DEFINE text == f.text
      <3>1. text \in Seq(Half) /\ o <= Len(text) /\ g.text = Append(text, h)
        BY <1>1, <1>7, <2>1
      <3> HIDE DEF text
      <3>2. /\ \A n \in Ends(Append(text, h)) :
                  n <= o => n \in Ends(text) /\ Append(text, h)[n] = text[n]
            /\ o <= Len(Append(text, h))
            /\ \A i \in 1..o : Append(text, h)[i] = text[i]
        BY <1>1, <3>1, EndsStay
      <3> QED BY <3>1, <3>2 DEF text
    <2>3. \A i \in 1..Len(x) : (o - Len(x)) + i \in 1..o
      BY <1>1, <1>4, <2>1
    <2>4. Len(x) = o \/ o - Len(x) \in 1..o
      BY <1>1, <1>4, <2>1
    <2>5. IsPart(x, g.text, o)
      BY <2>1, <2>2, <2>3, <2>4 DEF IsPart
    <2>6. ASSUME NEW n \in Ends(g.text), n <= o - Len(x)
          PROVE  g.text[n].step <= p.raw
      <3>1. DOMAIN g.text \subseteq Nat
        BY <1>1, <1>7, AppendIs
      <3>2. n \in Nat
        BY <3>1 DEF Ends
      <3>3. n <= o
        BY <1>1, <1>4, <2>1, <2>6, <3>2
      <3> QED BY <1>3, <1>7, <2>2, <2>6, <3>3
    <2> QED BY <2>5, <2>6
  <1>8. CASE f.file < g.file
    <2>1. c.cursor.file <= g.file /\ c.cursor.file # g.file
      BY <1>1, <1>3, <1>8
    <2> QED BY <2>1
  <1> QED BY <1>3, <1>6, <1>7, <1>8 DEF Onward

LEMMA ArtifactStays ==
    ASSUME NEW k \in Reader, NEW f \in Lora, NEW g \in Lora, LaterFile(f, g),
           ArtifactIs(k, f)
    PROVE  ArtifactIs(k, g)
  <1>1. /\ f.version \in Nat /\ g.version \in Nat
        /\ k.before.version \in Nat /\ k.found.sha.version \in Nat
    BY ProgressAssumption DEF Reader, Lora, Artifact
  <1>2. CASE g = f
    BY <1>2
  <1>3. CASE f.version < g.version \/ (g.version = f.version /\ g.whole)
    <2>1. f.version <= g.version
      BY <1>1, <1>3
    <2>2. ASSUME k.pc \in {"hash", "again"}
          PROVE  /\ k.before.version <= g.version
                 /\ k.before.version = g.version => g.whole
      <3>1. k.before.version <= f.version
        BY <2>2 DEF ArtifactIs
      <3> QED BY <1>1, <1>3, <3>1
    <2>3. ASSUME k.pc = "again"
          PROVE  k.found.sha.version <= g.version
      <3>1. k.found.sha.version <= f.version
        BY <2>3 DEF ArtifactIs
      <3> QED BY <1>1, <2>1, <3>1
    <2> QED BY <2>2, <2>3, Zenon DEF ArtifactIs
  <1> QED BY <1>2, <1>3 DEF LaterFile

LEMMA ReaderStays ==
    ASSUME NEW k \in Reader, NEW t \in Trainer, NEW u \in Trainer, Later(t, u),
           NEW fs \in [Streams -> Log], NEW gs \in [Streams -> Log],
           \A s \in Streams : Onward(fs[s], gs[s]), ReaderIs(k, t, fs)
    PROVE  ReaderIs(k, u, gs)
  <1>1. /\ k.previous \in Progress /\ k.points \subseteq Nat
        /\ k.chunk["stdout"] \in Chunk /\ k.chunk["stderr"] \in Chunk
        /\ "stdout" \in Streams /\ "stderr" \in Streams
    BY DEF Reader, Streams
  <1>2. ShownIs(k.previous, u)
    BY <1>1, ShownStays DEF ReaderIs
  <1>3. ASSUME NEW s \in Streams
        PROVE  Passed(k.previous, s, gs[s])
    BY <1>1, PassedStays DEF ReaderIs
  <1>4. ASSUME k.pc \in {"stderr", "save"}
        PROVE  ReadIs(k.previous, "stdout", k.chunk["stdout"], gs["stdout"], u)
    <2>1. ReadIs(k.previous, "stdout", k.chunk["stdout"], fs["stdout"], t)
      BY <1>4 DEF ReaderIs
    <2> QED BY <1>1, <2>1, ReadStays
  <1>5. ASSUME k.pc = "save"
        PROVE  ReadIs(k.previous, "stderr", k.chunk["stderr"], gs["stderr"], u)
    <2>1. ReadIs(k.previous, "stderr", k.chunk["stderr"], fs["stderr"], t)
      BY <1>5 DEF ReaderIs
    <2> QED BY <1>1, <2>1, ReadStays
  <1>6. \A x \in k.points : x <= Done(u)
    <2> SUFFICES ASSUME NEW x \in k.points PROVE x <= Done(u)
      OBVIOUS
    <2>1. x \in Nat /\ x <= Done(t)
      BY <1>1 DEF ReaderIs
    <2>2. Done(t) \in Nat /\ Done(u) \in Nat /\ Done(t) <= Done(u)
      BY DoneStays
    <2> QED BY <2>1, <2>2
  <1>7. \A s \in Streams :
           k.pc = s /\ k.looked => BeginIs(k.previous, s, k.chunk[s])
    BY DEF ReaderIs
  <1> QED BY <1>2, <1>3, <1>4, <1>5, <1>6, <1>7 DEF ReaderIs

-----------------------------------------------------------------------------
(* the trainer's steps *)

LEMMA LogGrows ==
    ASSUME NEW text \in Seq(Half), Lined(text), NEW h \in Half,
           NEW t \in Trainer, NEW u \in Trainer, Later(t, u), Reported(text, t),
           h.half = "head" => ~Unended(text),
           h.half = "tail" => Unended(text) /\ h.line = text[Len(text)].line,
           h.step <= u.step, u.counts = "local" \/ h.step >= Initial,
           \A n \in 1..Len(text) : text[n].step <= h.step
    PROVE  /\ Lined(Append(text, h)) /\ Reported(Append(text, h), u)
           /\ Unended(Append(text, h)) <=> h.half = "head"
  <1> DEFINE more == Append(text, h)
             l == Len(text)
  <1>1. /\ l \in Nat /\ Len(more) = l + 1 /\ more[l + 1] = h
        /\ \A i \in 1..l : more[i] = text[i]
        /\ DOMAIN text = 1..l /\ DOMAIN more = 1..(l + 1)
    BY AppendIs
  <1>2. /\ \A i \in 1..l : text[i].half \in {"head", "tail"}
        /\ \A i \in 1..l : text[i].step \in Nat
        /\ h.half \in {"head", "tail"} /\ h.step \in Nat
    <2>1. \A i \in 1..l : text[i].half \in {"head", "tail"} /\ text[i].step \in Nat
      BY HalfIs
    <2>2. h.half \in {"head", "tail"} /\ h.step \in Nat
      BY StepsAre DEF Half
    <2> QED BY <2>1, <2>2
  <1>3. /\ Unended(text) <=> l # 0 /\ text[l].half = "head"
        /\ Unended(more) <=> Len(more) # 0 /\ more[Len(more)].half = "head"
    BY DEF Unended
  <1>4. h.half = "tail" => h.line = text[l].line
    OBVIOUS
  <1>5. \A n \in 1..l : text[n].step <= h.step
    OBVIOUS
  <1>6. Reported(text, u)
    BY ReportedStays
  <1> HIDE DEF more, l
  <1>7. Lined(more)
    <2> SUFFICES ASSUME NEW n \in 1..(l + 1)
                 PROVE  /\ more[n].half = "head" =>
                              n = 1 \/ more[n - 1].half = "tail"
                        /\ more[n].half = "tail" =>
                              /\ n # 1 /\ more[n - 1].half = "head"
                              /\ more[n - 1].line = more[n].line
      BY <1>1 DEF Lined
    <2>1. CASE n \in 1..l
      <3>1. /\ text[n].half = "head" => n = 1 \/ text[n - 1].half = "tail"
            /\ text[n].half = "tail" => /\ n # 1 /\ text[n - 1].half = "head"
                                        /\ text[n - 1].line = text[n].line
        BY <1>1, <2>1 DEF Lined
      <3>2. more[n] = text[n] /\ (n # 1 => more[n - 1] = text[n - 1])
        BY <1>1, <2>1
      <3> QED BY <3>1, <3>2
    <2>2. CASE n = l + 1
      <3>1. more[n] = h /\ n - 1 = l /\ (n # 1 => l \in 1..l)
        BY <1>1, <2>2
      <3>2. n # 1 => more[l] = text[l] /\ text[l].half \in {"head", "tail"}
        BY <1>1, <1>2, <3>1
      <3>3. n = 1 <=> l = 0
        BY <1>1, <2>2
      <3> QED BY <1>3, <1>4, <3>1, <3>2, <3>3
    <2> QED BY <1>1, <2>1, <2>2
  <1>8. Reported(more, u)
    <2>1. ASSUME NEW n \in 1..(l + 1)
          PROVE  /\ more[n].step <= u.step
                 /\ u.counts = "local" \/ more[n].step >= Initial
      <3>1. CASE n \in 1..l
        BY <1>1, <1>6, <3>1 DEF Reported
      <3>2. CASE n = l + 1
        BY <1>1, <3>2
      <3> QED BY <1>1, <3>1, <3>2
    <2>2. ASSUME NEW m \in 1..(l + 1), NEW n \in 1..(l + 1), m <= n
          PROVE  more[m].step <= more[n].step
      <3>1. CASE n \in 1..l
        <4>1. m \in 1..l
          BY <1>1, <2>2, <3>1
        <4> QED BY <1>1, <1>6, <2>2, <3>1, <4>1 DEF Reported
      <3>2. CASE n = l + 1 /\ m \in 1..l
        BY <1>1, <1>5, <3>2
      <3>3. CASE n = l + 1 /\ m = l + 1
        BY <1>1, <1>2, <3>3
      <3> QED BY <1>1, <2>2, <3>1, <3>2, <3>3
    <2> QED BY <1>1, <2>1, <2>2 DEF Reported
  <1>9. Unended(more) <=> h.half = "head"
    BY <1>1, <1>3
  <1> QED BY <1>7, <1>8, <1>9 DEF more

LEMMA TrainerTyped ==
    ASSUME ProgressTypeOK
    PROVE  /\ trainer \in Trainer /\ log \in [Streams -> Log] /\ lora \in Lora
           /\ trainer.step \in Nat /\ trainer.lines \in 0..MaxWrites
           /\ trainer.counts \in {"local", "cumulative"}
           /\ lora.version \in 0..MaxWrites /\ MaxWrites \in Nat
           /\ Initial \in Nat /\ MaxMishaps \in Nat /\ mishaps \in 0..MaxMishaps
           /\ Later(trainer, trainer)
  <1>1. /\ trainer \in Trainer /\ log \in [Streams -> Log] /\ lora \in Lora
        /\ mishaps \in 0..MaxMishaps
    BY DEF ProgressTypeOK
  <1>2. /\ trainer.step \in Nat /\ trainer.lines \in 0..MaxWrites
        /\ trainer.counts \in {"local", "cumulative"}
    BY <1>1, ProgressAssumption DEF Trainer, Steps
  <1>3. Later(trainer, trainer)
    BY <1>2 DEF Later
  <1> QED BY <1>1, <1>2, <1>3, ProgressAssumption DEF Lora

\* The other log, when the trainer has come further.
LEMMA OtherLog ==
    ASSUME ProgressTypeOK, NEW s \in Streams, LogIs(s), log'[s] = log[s],
           trainer' \in Trainer, Later(trainer, trainer'),
           trainer.lines <= trainer'.lines, mishaps <= mishaps',
           mishaps' \in Nat
    PROVE  LogIs(s)'
  <1> DEFINE text == log[s].text
             l == Len(text)
  <1>1. /\ text \in Seq(Half) /\ log[s].file \in Nat /\ l \in Nat
        /\ trainer \in Trainer /\ trainer.lines \in Nat /\ mishaps \in Nat
    BY LogTyped, TrainerTyped
  <1>2. trainer'.lines \in Nat
    BY ProgressAssumption DEF Trainer
  <1>3. /\ Lined(text) /\ Reported(text, trainer) /\ log[s].file <= mishaps + 1
        /\ l <= 2 * trainer.lines
        /\ Unended(text) => l + 1 <= 2 * trainer.lines
    BY DEF LogIs
  <1>4. log'[s].text = text /\ log'[s].file = log[s].file
    OBVIOUS
  <1>5. Len(log'[s].text) = l
    BY <1>4
  <1> HIDE DEF text, l
  <1>6. Reported(text, trainer')
    BY <1>1, <1>3, ReportedStays
  <1>7. /\ l <= 2 * trainer'.lines
        /\ Unended(text) => l + 1 <= 2 * trainer'.lines
        /\ log[s].file <= mishaps' + 1
    <2>1. mishaps' \in Nat /\ mishaps <= mishaps' /\ trainer.lines <= trainer'.lines
      OBVIOUS
    <2> QED BY SMTT(30), <1>1, <1>2, <1>3, <2>1
  <1> QED BY <1>3, <1>4, <1>5, <1>6, <1>7 DEF LogIs

\* A log that has got half of a line more.
LEMMA GrownLog ==
    ASSUME ProgressTypeOK, NEW s \in Streams, LogIs(s), NEW h \in Half,
           trainer' \in Trainer, Later(trainer, trainer'), mishaps' = mishaps,
           log' = [log EXCEPT ![s].text = Append(@, h)],
           h.half = "head" => ~Unended(log[s].text)
                              /\ trainer'.lines = trainer.lines + 1,
           h.half = "tail" => /\ Unended(log[s].text)
                              /\ h.line = log[s].text[Len(log[s].text)].line
                              /\ trainer' = trainer,
           h.step <= trainer'.step,
           trainer'.counts = "local" \/ h.step >= Initial,
           \A n \in 1..Len(log[s].text) : log[s].text[n].step <= h.step
    PROVE  /\ log' \in [Streams -> Log] /\ LogIs(s)'
           /\ \A u \in Streams : Onward(log[u], log'[u])
           /\ \A u \in Streams \ {s} : log'[u] = log[u]
  <1> DEFINE text == log[s].text
             l == Len(text)
             more == Append(text, h)
  <1>1. /\ text \in Seq(Half) /\ log[s].file \in Nat /\ l \in Nat
        /\ trainer \in Trainer /\ trainer.lines \in Nat /\ mishaps \in Nat
        /\ log \in [Streams -> Log]
    BY LogTyped, TrainerTyped
  <1>2. /\ Lined(text) /\ Reported(text, trainer) /\ log[s].file <= mishaps + 1
        /\ l <= 2 * trainer.lines
        /\ Unended(text) => l + 1 <= 2 * trainer.lines
    BY DEF LogIs
  <1>3. /\ log[s] \in Log /\ log[s].text = text
        /\ log' = [log EXCEPT ![s] = [log[s] EXCEPT !.text = more]]
    BY <1>1
  <1>4. /\ Lined(more) /\ Reported(more, trainer')
        /\ Unended(more) <=> h.half = "head"
    BY <1>1, <1>2, LogGrows
  <1>5. more \in Seq(Half) /\ Len(more) = l + 1
    BY <1>1, AppendIs
  <1>6. h.half \in {"head", "tail"}
    BY DEF Half
  <1>7. /\ h.half = "head" => ~Unended(text) /\ trainer'.lines = trainer.lines + 1
        /\ h.half = "tail" => Unended(text) /\ trainer' = trainer
    OBVIOUS
  <1>8. more = Append(text, h)
    OBVIOUS
  <1> HIDE DEF text, l, more
  <1>9. /\ log'[s] = [log[s] EXCEPT !.text = more]
        /\ \A u \in Streams \ {s} : log'[u] = log[u]
    BY <1>1, <1>3
  <1>10. /\ log'[s].file = log[s].file /\ log'[s].text = more /\ log'[s] \in Log
    BY <1>3, <1>5, <1>9 DEF Log
  <1>11. log' \in [Streams -> Log]
    <2>1. DOMAIN log' = Streams /\ log' = [u \in Streams |-> log'[u]]
      BY <1>1, <1>3
    <2>2. \A u \in Streams : log'[u] \in Log
      BY <1>1, <1>9, <1>10
    <2> QED BY <2>1, <2>2
  <1>12. \A u \in Streams : Onward(log[u], log'[u])
    <2>1. Onward(log[s], log'[s])
      BY <1>3, <1>8, <1>10 DEF Onward
    <2>2. \A u \in Streams \ {s} : Onward(log[u], log'[u])
      BY <1>9 DEF Onward
    <2> QED BY <2>1, <2>2
  <1>13. /\ l + 1 <= 2 * trainer'.lines
         /\ Unended(more) => l + 1 + 1 <= 2 * trainer'.lines
    BY SMTT(30), <1>1, <1>2, <1>4, <1>6, <1>7
  <1>14. LogIs(s)'
    <2>1. Len(log'[s].text) = l + 1
      BY <1>5, <1>10
    <2>2. log'[s].file <= mishaps' + 1
      BY <1>2, <1>10
    <2>3. /\ Lined(log'[s].text) /\ Reported(log'[s].text, trainer')
          /\ Unended(log'[s].text) => Unended(more)
      BY <1>4, <1>10
    <2> QED BY <1>13, <2>1, <2>2, <2>3 DEF LogIs
  <1> QED BY <1>9, <1>11, <1>12, <1>14

LEMMA WriteHeadGoes ==
    ASSUME ProgressInv, NEW s \in Streams, WriteHead(s)
    PROVE  Goes /\ UNCHANGED <<lora, row, metrics, artifact, reader, swapped, mishaps>>
  <1>1. PICK step \in {trainer.step, trainer.step + 1} \ {0} :
           /\ trainer' = [trainer EXCEPT !.step = step, !.lines = @ + 1]
           /\ log' = [log EXCEPT ![s].text =
                         Append(@, [line |-> trainer.lines + 1, step |-> step,
                                    half |-> "head"])]
    BY DEF WriteHead
  <1> DEFINE h == [line |-> trainer.lines + 1, step |-> step, half |-> "head"]
  <1>2. /\ UNCHANGED <<lora, row, metrics, artifact, reader, swapped, mishaps>>
        /\ MayWrite
    BY DEF WriteHead, rowVars
  <1>3. /\ ProgressTypeOK /\ TrainerIs /\ \A u \in Streams : LogIs(u)
    BY DEF ProgressInv
  <1>4. /\ trainer \in Trainer /\ log \in [Streams -> Log] /\ lora \in Lora
        /\ trainer.step \in Nat /\ trainer.lines \in 0..MaxWrites
        /\ trainer.counts \in {"local", "cumulative"}
        /\ lora.version \in 0..MaxWrites /\ MaxWrites \in Nat
        /\ Initial \in Nat /\ MaxMishaps \in Nat /\ mishaps \in 0..MaxMishaps
    BY <1>3, TrainerTyped
  <1>5. trainer.lines + lora.version < MaxWrites /\ Written(log[s].text)
    BY <1>2 DEF MayWrite
  <1>6. /\ trainer.lines + 1 \in 1..MaxWrites /\ step \in Nat
        /\ trainer.step <= step /\ step \in Steps
    <2>1. /\ trainer.lines + 1 \in 1..MaxWrites /\ step \in Nat
          /\ trainer.step <= step /\ step <= trainer.step + 1
      BY <1>4, <1>5
    <2>2. trainer.step <= Initial + trainer.lines
      BY <1>3, <1>4 DEF TrainerIs
    <2> QED BY <1>4, <2>1, <2>2 DEF Steps
  <1>7. /\ trainer'.step = step /\ trainer'.lines = trainer.lines + 1
        /\ trainer'.counts = trainer.counts /\ trainer' \in Trainer
    <2> DEFINE n == trainer.lines + 1
    <2>1. n \in 0..MaxWrites
      BY <1>4, <1>6
    <2>2. trainer' = [trainer EXCEPT !.step = step, !.lines = n]
      BY <1>1
    <2>3. n = trainer.lines + 1
      OBVIOUS
    <2> HIDE DEF n
    <2>4. /\ trainer'.step = step /\ trainer'.lines = n
          /\ trainer'.counts = trainer.counts /\ trainer' \in Trainer
      BY <1>4, <1>6, <2>1, <2>2 DEF Trainer
    <2> QED BY <2>3, <2>4
  <1>8. /\ h \in Half /\ h.half = "head" /\ h.step = step
    BY <1>6 DEF Half
  <1>9. log' = [log EXCEPT ![s].text = Append(@, h)]
    BY <1>1
  <1> HIDE DEF h
  <1>10. Later(trainer, trainer')
    BY <1>6, <1>7 DEF Later
  <1>11. TrainerIs'
    BY <1>3, <1>4, <1>1, <1>7 DEF TrainerIs
  <1>12. /\ log[s].text \in Seq(Half)
         /\ DOMAIN log[s].text = 1..Len(log[s].text)
         /\ \A n \in 1..Len(log[s].text) : log[s].text[n].step \in Nat
    BY <1>3, LogTyped, HalfIs
  <1>13. ~Unended(log[s].text)
    BY <1>3, <1>5, <1>12, WrittenIs DEF LogIs
  <1>14. \A n \in 1..Len(log[s].text) : log[s].text[n].step <= h.step
    <2> SUFFICES ASSUME NEW n \in 1..Len(log[s].text)
                 PROVE  log[s].text[n].step <= h.step
      OBVIOUS
    <2>1. log[s].text[n].step <= trainer.step /\ log[s].text[n].step \in Nat
      BY <1>3, <1>12 DEF LogIs, Reported
    <2> QED BY <1>4, <1>6, <1>8, <2>1
  <1>15. trainer'.counts = "local" \/ h.step >= Initial
    <2> SUFFICES ASSUME trainer.counts = "cumulative" PROVE h.step >= Initial
      BY <1>4, <1>7
    <2>1. Initial <= trainer.step
      BY <1>3 DEF TrainerIs
    <2> QED BY <1>4, <1>6, <1>8, <2>1
  <1>16. h.step <= trainer'.step
    BY <1>6, <1>7, <1>8
  <1>17. mishaps' = mishaps
    BY <1>2
  <1>18. /\ log' \in [Streams -> Log] /\ LogIs(s)'
         /\ \A u \in Streams : Onward(log[u], log'[u])
         /\ \A u \in Streams \ {s} : log'[u] = log[u]
    BY <1>3, <1>7, <1>8, <1>9, <1>10, <1>13, <1>14, <1>15, <1>16, <1>17,
       GrownLog
  <1>19. ASSUME NEW u \in Streams \ {s} PROVE LogIs(u)'
    BY <1>3, <1>4, <1>7, <1>10, <1>17, <1>18, OtherLog
  <1>20. (\A u \in Streams : LogIs(u))'
    BY <1>18, <1>19
  <1>21. LaterFile(lora, lora') /\ lora' \in Lora /\ mishaps' \in 0..MaxMishaps
    BY <1>2, <1>4 DEF LaterFile
  <1> QED BY <1>2, <1>7, <1>10, <1>11, <1>18, <1>20, <1>21 DEF Goes

LEMMA WriteTailGoes ==
    ASSUME ProgressInv, NEW s \in Streams, WriteTail(s)
    PROVE  Goes /\ UNCHANGED <<lora, row, metrics, artifact, reader, swapped, mishaps>>
  <1> DEFINE text == log[s].text
             l == Len(text)
             h == [text[l] EXCEPT !.half = "tail"]
  <1>1. /\ ~Written(text)
        /\ log' = [log EXCEPT ![s].text =
                      Append(@, [@[Len(@)] EXCEPT !.half = "tail"])]
        /\ UNCHANGED <<trainer, lora, row, metrics, artifact, reader, swapped, mishaps>>
    BY DEF WriteTail, rowVars
  <1>2. /\ ProgressTypeOK /\ TrainerIs /\ \A u \in Streams : LogIs(u)
    BY DEF ProgressInv
  <1>3. /\ trainer \in Trainer /\ log \in [Streams -> Log] /\ lora \in Lora
        /\ trainer.step \in Nat /\ trainer.lines \in 0..MaxWrites
        /\ MaxWrites \in Nat /\ Initial \in Nat /\ mishaps \in 0..MaxMishaps
        /\ Later(trainer, trainer)
    BY <1>2, TrainerTyped
  <1>4. log' = [log EXCEPT ![s].text = Append(@, h)]
    BY <1>1, <1>3
  <1>5. /\ text \in Seq(Half) /\ l \in Nat /\ DOMAIN text = 1..l
        /\ \A n \in 1..l : text[n] \in Half
        /\ \A n \in 1..l : text[n].step \in Nat
    BY <1>2, LogTyped, HalfIs
  <1>6. Lined(text) /\ Reported(text, trainer)
    BY <1>2 DEF LogIs
  <1>7. Unended(text)
    BY <1>1, <1>5, <1>6, WrittenIs
  <1>8. l \in 1..l
    BY <1>5, <1>7 DEF Unended
  <1>9. /\ h \in Half /\ h.half = "tail"
        /\ h.line = text[l].line /\ h.step = text[l].step
    BY <1>5, <1>8 DEF Half
  <1>10. /\ text = log[s].text /\ l = Len(text)
    OBVIOUS
  <1> HIDE DEF h, text, l
  <1>11. /\ h.step <= trainer.step
         /\ trainer.counts = "local" \/ h.step >= Initial
         /\ \A n \in 1..l : text[n].step <= h.step
    <2>1. /\ text[l].step <= trainer.step
          /\ trainer.counts = "local" \/ text[l].step >= Initial
      BY <1>5, <1>6, <1>8 DEF Reported
    <2>2. ASSUME NEW n \in 1..l PROVE text[n].step <= text[l].step
      <3>1. n <= l
        BY <1>5
      <3> QED BY <1>5, <1>6, <1>8, <3>1 DEF Reported
    <2> QED BY <1>9, <2>1, <2>2
  <1>12. mishaps' = mishaps /\ trainer' = trainer
    BY <1>1
  <1>13. trainer' \in Trainer /\ Later(trainer, trainer')
    BY <1>3, <1>12
  <1>14. /\ log' \in [Streams -> Log] /\ LogIs(s)'
         /\ \A u \in Streams : Onward(log[u], log'[u])
         /\ \A u \in Streams \ {s} : log'[u] = log[u]
    <2>1. /\ Unended(log[s].text) /\ h.line = log[s].text[Len(log[s].text)].line
          /\ \A n \in 1..Len(log[s].text) : log[s].text[n].step <= h.step
      BY <1>7, <1>9, <1>10, <1>11
    <2>2. h.step <= trainer'.step /\ (trainer'.counts = "local" \/ h.step >= Initial)
      BY <1>11, <1>12
    <2>3. h.half # "head"
      BY <1>9
    <2> QED BY <1>2, <1>4, <1>9, <1>12, <1>13, <2>1, <2>2, <2>3, GrownLog
  <1>15. trainer.lines <= trainer'.lines /\ mishaps <= mishaps' /\ mishaps' \in Nat
    BY <1>3, <1>12
  <1>16. ASSUME NEW u \in Streams \ {s} PROVE LogIs(u)'
    BY <1>2, <1>13, <1>14, <1>15, OtherLog
  <1>17. (\A u \in Streams : LogIs(u))'
    BY <1>14, <1>16
  <1>18. LaterFile(lora, lora') /\ lora' \in Lora /\ mishaps' \in 0..MaxMishaps
    BY <1>1, <1>3 DEF LaterFile
  <1>19. TrainerIs'
    BY <1>2, <1>12 DEF TrainerIs
  <1> QED BY <1>1, <1>13, <1>14, <1>17, <1>18, <1>19 DEF Goes

LEMMA RotateGoes ==
    ASSUME ProgressInv, NEW s \in Streams, Rotate(s)
    PROVE  Goes /\ UNCHANGED <<lora, row, metrics, artifact, reader, swapped>>
  <1>1. /\ mishaps < MaxMishaps /\ mishaps' = mishaps + 1
        /\ UNCHANGED <<trainer, lora, row, metrics, artifact, reader, swapped>>
    BY DEF Rotate, rowVars, Mishap
  <1>0. PICK key \in 1..(log[s].file + 1) :
           log' = [log EXCEPT ![s] =
                      [file |-> log[s].file + 1, key |-> key, text |-> <<>>]]
    BY DEF Rotate
  <1>2. /\ ProgressTypeOK /\ TrainerIs /\ \A u \in Streams : LogIs(u)
    BY DEF ProgressInv
  <1>3. /\ trainer \in Trainer /\ log \in [Streams -> Log] /\ lora \in Lora
        /\ trainer.lines \in 0..MaxWrites /\ MaxWrites \in Nat
        /\ MaxMishaps \in Nat /\ mishaps \in 0..MaxMishaps
        /\ Later(trainer, trainer)
    BY <1>2, TrainerTyped
  <1>4. mishaps' \in 0..MaxMishaps /\ mishaps <= mishaps' /\ trainer' = trainer
    BY <1>1, <1>3
  <1>5. /\ log'[s] = [file |-> log[s].file + 1, key |-> key, text |-> <<>>]
        /\ \A u \in Streams \ {s} : log'[u] = log[u]
    BY <1>0, <1>3
  <1>6. /\ log[s].file \in Nat /\ log[s].file <= mishaps + 1
        /\ log[s].file \in 1..(MaxMishaps + 1)
    BY <1>2, LogTyped DEF LogIs, Files
  <1>7. /\ log'[s].file = log[s].file + 1 /\ log'[s].text = <<>>
        /\ log[s].file + 1 \in Files /\ key \in Files
        /\ log[s].file < log'[s].file /\ log'[s].file <= mishaps' + 1
    BY <1>0, <1>1, <1>3, <1>5, <1>6 DEF Files
  <1>8. log'[s] \in Log
    <2>1. <<>> \in Seq(Half)
      BY EmptySeq
    <2> QED BY <1>5, <1>7, <2>1 DEF Log
  <1>9. log' \in [Streams -> Log]
    <2>1. DOMAIN log' = Streams /\ log' = [u \in Streams |-> log'[u]]
      BY <1>0, <1>3
    <2>2. \A u \in Streams : log'[u] \in Log
      BY <1>3, <1>5, <1>8
    <2> QED BY <2>1, <2>2
  <1>10. LogIs(s)'
    <2>1. Len(<<>>) = 0 /\ ~Unended(<<>>) /\ 0 <= 2 * trainer.lines
      BY <1>3 DEF Unended
    <2>2. Lined(<<>>) /\ Reported(<<>>, trainer')
      BY DEF Lined, Reported
    <2> QED BY <1>4, <1>7, <2>1, <2>2 DEF LogIs
  <1>11. trainer' \in Trainer /\ Later(trainer, trainer')
         /\ trainer.lines <= trainer'.lines /\ mishaps' \in Nat
    BY <1>3, <1>4
  <1>12. ASSUME NEW u \in Streams \ {s} PROVE LogIs(u)'
    BY <1>2, <1>4, <1>5, <1>11, OtherLog
  <1>13. (\A u \in Streams : LogIs(u))'
    BY <1>10, <1>12
  <1>14. \A u \in Streams : Onward(log[u], log'[u])
    BY <1>5, <1>7 DEF Onward
  <1>15. LaterFile(lora, lora') /\ lora' \in Lora
    BY <1>1, <1>3 DEF LaterFile
  <1>16. TrainerIs'
    BY <1>2, <1>4 DEF TrainerIs
  <1> QED BY <1>1, <1>4, <1>9, <1>11, <1>13, <1>14, <1>15, <1>16 DEF Goes

\* When the trainer writes its LoRA file the logs stay as they are.
LEMMA SaveGoes ==
    ASSUME ProgressInv, lora' \in Lora, LaterFile(lora, lora'),
           UNCHANGED <<trainer, log, row, metrics, artifact, reader, swapped, mishaps>>
    PROVE  Goes /\ UNCHANGED <<row, metrics, artifact, reader, swapped, mishaps>>
  <1>1. /\ ProgressTypeOK /\ TrainerIs /\ \A u \in Streams : LogIs(u)
    BY DEF ProgressInv
  <1>2. /\ trainer \in Trainer /\ log \in [Streams -> Log]
        /\ mishaps \in 0..MaxMishaps /\ Later(trainer, trainer)
    BY <1>1, TrainerTyped
  <1>3. TrainerIs' /\ (\A u \in Streams : LogIs(u))'
    BY <1>1 DEF TrainerIs, LogIs
  <1>4. \A u \in Streams : Onward(log[u], log'[u])
    BY DEF Onward
  <1> QED BY <1>2, <1>3, <1>4 DEF Goes

LEMMA BeginSaveGoes ==
    ASSUME ProgressInv, BeginSave
    PROVE  Goes /\ UNCHANGED <<row, metrics, artifact, reader, swapped, mishaps>>
  <1>1. /\ MayWrite /\ lora' = [version |-> lora.version + 1, whole |-> FALSE]
        /\ UNCHANGED <<trainer, log, row, metrics, artifact, reader, swapped, mishaps>>
    BY DEF BeginSave, rowVars
  <1>2. /\ trainer.lines \in 0..MaxWrites /\ lora.version \in 0..MaxWrites
        /\ MaxWrites \in Nat
    BY TrainerTyped DEF ProgressInv
  <1>3. lora.version + 1 \in 0..MaxWrites /\ lora.version < lora.version + 1
    BY <1>1, <1>2 DEF MayWrite
  <1>4. lora' \in Lora /\ lora.version < lora'.version
    BY <1>1, <1>3 DEF Lora
  <1> QED BY <1>1, <1>4, SaveGoes DEF LaterFile

LEMMA EndSaveGoes ==
    ASSUME ProgressInv, EndSave
    PROVE  Goes /\ UNCHANGED <<row, metrics, artifact, reader, swapped, mishaps>>
  <1>1. /\ lora' = [lora EXCEPT !.whole = TRUE]
        /\ UNCHANGED <<trainer, log, row, metrics, artifact, reader, swapped, mishaps>>
    BY DEF EndSave, rowVars
  <1>2. lora \in Lora
    BY TrainerTyped DEF ProgressInv
  <1>3. lora' \in Lora /\ lora'.version = lora.version /\ lora'.whole = TRUE
    BY <1>1, <1>2 DEF Lora
  <1> QED BY <1>1, <1>3, SaveGoes DEF LaterFile

-----------------------------------------------------------------------------
(* what every step leaves true of the threads and of the tables *)

LEMMA Onwards ==
    ASSUME ProgressInv, trainer' \in Trainer, log' \in [Streams -> Log],
           lora' \in Lora, Moved
    PROVE  /\ \A r \in Readers : ArtifactIs(reader[r], lora')
           /\ ~swapped =>
                 /\ \A r \in Readers : ReaderIs(reader[r], trainer', log')
                 /\ ShownIs(row, trainer')
                 /\ \A s \in Streams : Passed(row, s, log'[s])
                 /\ \A x \in metrics : x <= Done(trainer')
  <1>1. /\ ProgressTypeOK /\ \A r \in Readers : ArtifactIs(reader[r], lora)
        /\ ~swapped => /\ TableIs
                       /\ \A r \in Readers : ReaderIs(reader[r], trainer, log)
    BY DEF ProgressInv
  <1>2. /\ trainer \in Trainer /\ log \in [Streams -> Log] /\ lora \in Lora
        /\ row \in Progress /\ metrics \subseteq Nat
        /\ reader \in [Readers -> Reader]
    BY <1>1 DEF ProgressTypeOK
  <1>3. /\ Later(trainer, trainer') /\ LaterFile(lora, lora')
        /\ \A s \in Streams : Onward(log[s], log'[s])
    BY DEF Moved
  <1>4. ASSUME NEW r \in Readers PROVE ArtifactIs(reader[r], lora')
    <2>1. reader[r] \in Reader
      BY <1>2
    <2> QED BY <1>1, <1>2, <1>3, <2>1, ArtifactStays
  <1>5. ASSUME ~swapped, NEW r \in Readers
        PROVE  ReaderIs(reader[r], trainer', log')
    <2>1. reader[r] \in Reader /\ ReaderIs(reader[r], trainer, log)
      BY <1>1, <1>2, <1>5
    <2> QED BY <1>2, <1>3, <2>1, ReaderStays
  <1>6. ~swapped => ShownIs(row, trainer')
    BY <1>1, <1>2, <1>3, ShownStays DEF TableIs
  <1>7. ASSUME ~swapped, NEW s \in Streams PROVE Passed(row, s, log'[s])
    <2>1. log[s] \in Log /\ log'[s] \in Log /\ Passed(row, s, log[s])
      BY <1>1, <1>2, <1>7 DEF TableIs
    <2> QED BY <1>2, <1>3, <2>1, PassedStays
  <1>8. ASSUME ~swapped, NEW x \in metrics PROVE x <= Done(trainer')
    <2>1. /\ Done(trainer) \in Nat /\ Done(trainer') \in Nat
          /\ Done(trainer) <= Done(trainer')
      BY <1>2, <1>3, DoneStays
    <2>2. x \in Nat /\ x <= Done(trainer)
      BY <1>1, <1>2, <1>8 DEF TableIs
    <2> QED BY <2>1, <2>2
  <1> QED BY <1>4, <1>5, <1>6, <1>7, <1>8

\* A step of the trainer.
LEMMA GoesKeeps ==
    ASSUME ProgressInv, Goes, UNCHANGED <<row, metrics, artifact, reader, swapped>>
    PROVE  ProgressInv'
  <1>1. /\ trainer' \in Trainer /\ log' \in [Streams -> Log] /\ lora' \in Lora
        /\ mishaps' \in 0..MaxMishaps
        /\ TrainerIs' /\ (\A s \in Streams : LogIs(s))' /\ Moved
    BY DEF Goes, Moved
  <1>2. /\ \A r \in Readers : ArtifactIs(reader[r], lora')
        /\ ~swapped =>
              /\ \A r \in Readers : ReaderIs(reader[r], trainer', log')
              /\ ShownIs(row, trainer')
              /\ \A s \in Streams : Passed(row, s, log'[s])
              /\ \A x \in metrics : x <= Done(trainer')
    BY <1>1, Onwards
  <1>3. ProgressTypeOK'
    BY <1>1 DEF ProgressTypeOK, ProgressInv
  <1>4. ValidIsWhole'
    BY DEF ProgressInv, ValidIsWhole
  <1>5. ~swapped' => TableIs'
    BY <1>2 DEF TableIs
  <1> QED BY <1>1, <1>2, <1>3, <1>4, <1>5 DEF ProgressInv

\* A step of one thread.
LEMMA OneReader ==
    ASSUME ProgressInv, UNCHANGED <<trainer, log, lora>>,
           mishaps' \in 0..MaxMishaps, mishaps <= mishaps',
           swapped' \in BOOLEAN, ~swapped' => ~swapped,
           row' \in Progress, metrics' \subseteq Nat,
           artifact' \in Artifact, ValidIsWhole', ~swapped' => TableIs',
           NEW r \in Readers, NEW k \in Reader,
           reader' = [reader EXCEPT ![r] = k],
           ~swapped' => ReaderIs(k, trainer, log), ArtifactIs(k, lora)
    PROVE  ProgressInv'
  <1>1. /\ ProgressTypeOK /\ TrainerIs /\ \A s \in Streams : LogIs(s)
    BY DEF ProgressInv
  <1>2. /\ trainer \in Trainer /\ log \in [Streams -> Log] /\ lora \in Lora
        /\ mishaps \in 0..MaxMishaps /\ Later(trainer, trainer)
        /\ reader \in [Readers -> Reader]
    BY <1>1, TrainerTyped DEF ProgressTypeOK
  <1>3. /\ trainer' = trainer /\ log' = log /\ lora' = lora
    OBVIOUS
  <1>4. trainer' \in Trainer /\ log' \in [Streams -> Log] /\ lora' \in Lora /\ Moved
    BY <1>2, <1>3 DEF Moved, LaterFile, Onward
  <1>5. ProgressTypeOK'
    BY <1>2, <1>4 DEF ProgressTypeOK
  <1>6. TrainerIs'
    BY <1>1 DEF TrainerIs
  <1>7. ASSUME NEW s \in Streams PROVE LogIs(s)'
    <2>1. mishaps \in Nat /\ mishaps' \in Nat /\ log[s].file \in Nat
      BY <1>1, <1>2, LogTyped
    <2>2. log[s].file <= mishaps + 1
      BY <1>1 DEF LogIs
    <2>3. log[s].file <= mishaps' + 1
      BY <2>1, <2>2
    <2> QED BY <1>1, <2>3 DEF LogIs
  <1>8. ASSUME NEW q \in Readers
        PROVE  /\ ArtifactIs(reader'[q], lora')
               /\ ~swapped' => ReaderIs(reader'[q], trainer', log')
    <2>1. CASE q = r
      BY <1>2, <1>3, <2>1
    <2>2. CASE q # r
      <3>1. reader'[q] = reader[q]
        BY <1>2, <2>2
      <3> QED BY <1>4, <3>1, Onwards
    <2> QED BY <2>1, <2>2
  <1> QED BY <1>5, <1>6, <1>7, <1>8 DEF ProgressInv

\* A step of one thread that writes no table.
LEMMA OneReads ==
    ASSUME ProgressInv, UNCHANGED <<trainer, log, lora, row, metrics, artifact>>,
           mishaps' \in 0..MaxMishaps, mishaps <= mishaps',
           swapped' \in BOOLEAN, ~swapped' => ~swapped,
           NEW r \in Readers, NEW k \in Reader,
           reader' = [reader EXCEPT ![r] = k],
           ~swapped' => ReaderIs(k, trainer, log), ArtifactIs(k, lora)
    PROVE  ProgressInv'
  <1>1. row' \in Progress /\ metrics' \subseteq Nat /\ artifact' \in Artifact
    BY DEF ProgressInv, ProgressTypeOK
  <1>2. ValidIsWhole'
    BY DEF ProgressInv, ValidIsWhole
  <1>3. ~swapped' => TableIs'
    BY DEF ProgressInv, TableIs
  <1> QED BY <1>1, <1>2, <1>3, OneReader

LEMMA IdleIs ==
    ASSUME ProgressTypeOK
    PROVE  /\ Idle \in Reader /\ ReaderIs(Idle, trainer, log)
           /\ NoProgress \in Progress
           /\ \A f : ArtifactIs(Idle, f)
           /\ ShownIs(NoProgress, trainer)
           /\ \A s \in Streams : Passed(NoProgress, s, log[s])
  <1>1. <<>> \in Seq(Half)
    BY EmptySeq
  <1>2. NoCursor \in Cursor /\ NoCursor.file = 0 /\ NoCursor.offset = 0
    BY ProgressAssumption DEF NoCursor, Cursor
  <1>3. NoProgress \in Progress
    BY <1>1, <1>2 DEF NoProgress, Progress
  <1>4. NoLora \in Lora /\ NoArtifact \in Artifact
    BY ProgressAssumption DEF NoLora, Lora, NoArtifact, Artifact
  <1>5. NoChunk \in Chunk
    BY <1>1, <1>2 DEF NoChunk, Chunk
  <1>6. Idle \in Reader
    BY <1>3, <1>4, <1>5 DEF Idle, Reader
  <1>7. /\ NoProgress.raw = 0 /\ NoProgress.mode = "unknown"
        /\ NoProgress.step = 0
        /\ \A s \in Streams : /\ NoProgress.rest[s] = <<>>
                              /\ NoProgress.cursor[s].file = 0
                              /\ NoProgress.cursor[s].offset = 0
    BY <1>2 DEF NoProgress
  <1>8. trainer.step \in Nat /\ Done(trainer) \in Nat
    BY TrainerTyped, DoneStays
  <1>9. ShownIs(NoProgress, trainer)
    <2>1. \A s \in Streams : Lined(NoProgress.rest[s])
                            /\ Reported(NoProgress.rest[s], trainer)
      BY <1>7 DEF Lined, Reported
    <2> QED BY <1>7, <1>8, <2>1 DEF ShownIs
  <1>10. ASSUME NEW s \in Streams PROVE Passed(NoProgress, s, log[s])
    <2>1. log[s].file \in Nat \ {0}
      BY LogTyped
    <2>2. 0 <= log[s].file /\ log[s].file # 0
      BY <2>1
    <2> QED BY <1>7, <2>2 DEF Passed
  <1>11. /\ Idle.pc = "idle" /\ Idle.previous = NoProgress /\ Idle.points = {}
         /\ Idle.found = NoArtifact
    BY DEF Idle
  <1>12. ReaderIs(Idle, trainer, log)
    BY <1>9, <1>10, <1>11 DEF ReaderIs, Streams
  <1>13. \A f : ArtifactIs(Idle, f)
    BY <1>11 DEF ArtifactIs
  <1> QED BY <1>3, <1>6, <1>9, <1>10, <1>12, <1>13

-----------------------------------------------------------------------------
(* the steps of a thread *)

LEMMA ReaderTyped ==
    ASSUME ProgressInv, NEW r \in Readers
    PROVE  /\ ProgressTypeOK /\ reader \in [Readers -> Reader]
           /\ reader[r] \in Reader /\ lora \in Lora /\ swapped \in BOOLEAN
           /\ reader[r].previous \in Progress /\ reader[r].loaded \in Progress
           /\ reader[r].chunk \in [Streams -> Chunk]
           /\ reader[r].points \in SUBSET Nat
           /\ reader[r].before \in Lora /\ reader[r].found \in Artifact
           /\ reader[r].locked \in BOOLEAN
           /\ ~swapped => ReaderIs(reader[r], trainer, log)
           /\ ArtifactIs(reader[r], lora)
           /\ mishaps \in 0..MaxMishaps /\ mishaps <= mishaps
  <1>1. ProgressTypeOK
    BY DEF ProgressInv
  <1>2. /\ reader \in [Readers -> Reader] /\ lora \in Lora
        /\ mishaps \in 0..MaxMishaps /\ swapped \in BOOLEAN
    BY <1>1 DEF ProgressTypeOK
  <1>3. reader[r] \in Reader
    BY <1>2
  <1>4. /\ reader[r].previous \in Progress /\ reader[r].loaded \in Progress
        /\ reader[r].chunk \in [Streams -> Chunk]
        /\ reader[r].points \in SUBSET Nat
        /\ reader[r].before \in Lora /\ reader[r].found \in Artifact
        /\ reader[r].locked \in BOOLEAN
    BY <1>3 DEF Reader
  <1>5. mishaps <= mishaps
    BY <1>2
  <1> QED BY <1>1, <1>2, <1>3, <1>4, <1>5 DEF ProgressInv

LEMMA MishapIs ==
    ASSUME ProgressInv, Mishap
    PROVE  mishaps' \in 0..MaxMishaps /\ mishaps <= mishaps'
  <1>1. mishaps \in 0..MaxMishaps /\ MaxMishaps \in Nat
    BY TrainerTyped DEF ProgressInv
  <1> QED BY <1>1 DEF Mishap

LEMMA StopKeeps ==
    ASSUME ProgressInv, NEW r \in Readers, Stop(r),
           UNCHANGED <<trainer, log, lora, row, metrics, artifact, swapped>>,
           mishaps' \in 0..MaxMishaps, mishaps <= mishaps'
    PROVE  ProgressInv'
  <1>1. /\ Idle \in Reader /\ ReaderIs(Idle, trainer, log)
        /\ ArtifactIs(Idle, lora) /\ swapped \in BOOLEAN
    BY IdleIs, ReaderTyped
  <1>2. reader' = [reader EXCEPT ![r] = Idle]
    BY DEF Stop
  <1>3. swapped' \in BOOLEAN /\ (~swapped' => ~swapped)
    BY <1>1
  <1> QED BY <1>1, <1>2, <1>3, OneReads

LEMMA CrashKeeps ==
    ASSUME ProgressInv, ReadersCrash
    PROVE  ProgressInv'
  <1>1. /\ reader' = [r \in Readers |-> Idle] /\ Mishap
        /\ UNCHANGED <<trainer, log, lora, row, metrics, artifact, swapped>>
    BY DEF ReadersCrash, trainerVars, rowVars
  <1>2. /\ ProgressTypeOK /\ TrainerIs /\ \A s \in Streams : LogIs(s)
        /\ ValidIsWhole /\ (~swapped => TableIs)
    BY DEF ProgressInv
  <1>3. /\ Idle \in Reader /\ ReaderIs(Idle, trainer, log)
        /\ ArtifactIs(Idle, lora)
    BY <1>2, IdleIs
  <1>4. mishaps' \in 0..MaxMishaps /\ mishaps <= mishaps'
    BY <1>1, MishapIs
  <1>5. ProgressTypeOK'
    BY <1>1, <1>2, <1>3, <1>4 DEF ProgressTypeOK
  <1>6. TrainerIs' /\ ValidIsWhole' /\ (~swapped' => TableIs')
    BY <1>1, <1>2 DEF TrainerIs, TableIs, ValidIsWhole
  <1>7. ASSUME NEW s \in Streams PROVE LogIs(s)'
    <2>1. mishaps \in Nat /\ mishaps' \in Nat /\ log[s].file \in Nat
      BY <1>2, <1>4, LogTyped, TrainerTyped
    <2>2. log[s].file <= mishaps + 1
      BY <1>2 DEF LogIs
    <2>3. log[s].file <= mishaps' + 1
      BY <1>4, <2>1, <2>2
    <2> QED BY <1>1, <1>2, <2>3 DEF LogIs
  <1>8. ASSUME NEW q \in Readers
        PROVE  /\ ReaderIs(reader'[q], trainer', log')
               /\ ArtifactIs(reader'[q], lora')
    BY <1>1, <1>3
  <1> QED BY <1>5, <1>6, <1>7, <1>8 DEF ProgressInv

LEMMA RefreshKeeps ==
    ASSUME ProgressInv, NEW r \in Readers, RefreshJob(r)
    PROVE  ProgressInv'
  <1> DEFINE k == [Idle EXCEPT !.pc = "stdout", !.previous = row, !.loaded = row]
  <1>1. /\ reader[r] = Idle
        /\ reader' = [reader EXCEPT ![r].pc = "stdout", ![r].previous = row,
                                   ![r].loaded = row]
        /\ UNCHANGED <<trainer, log, lora, row, metrics, artifact, swapped,
                       mishaps>>
    BY DEF RefreshJob, trainerVars, rowVars
  <1>2. /\ reader \in [Readers -> Reader] /\ Idle \in Reader
        /\ mishaps \in 0..MaxMishaps /\ mishaps <= mishaps /\ ProgressTypeOK
        /\ swapped \in BOOLEAN
    BY ReaderTyped, IdleIs
  <1>3. reader' = [reader EXCEPT ![r] = k]
    BY <1>1, <1>2
  <1>4. row \in Progress /\ (~swapped => TableIs)
    BY DEF ProgressInv, ProgressTypeOK
  <1>5. Idle.points = {} /\ Idle.found = NoArtifact /\ Idle.looked = FALSE
    BY DEF Idle
  <1>6. /\ k.pc = "stdout" /\ k.previous = row /\ k.points = {}
        /\ k.looked = FALSE /\ k.found = NoArtifact /\ k \in Reader
    BY <1>2, <1>4, <1>5 DEF Reader
  <1> HIDE DEF k
  <1>7. ~swapped' => ReaderIs(k, trainer, log)
    BY <1>1, <1>4, <1>6 DEF ReaderIs, TableIs
  <1>8. ArtifactIs(k, lora)
    BY <1>6 DEF ArtifactIs
  <1>9. mishaps' \in 0..MaxMishaps /\ mishaps <= mishaps'
        /\ swapped' \in BOOLEAN /\ (~swapped' => ~swapped)
    BY <1>1, <1>2
  <1> QED BY <1>1, <1>3, <1>6, <1>7, <1>8, <1>9, OneReads

LEMMA RescanKeeps ==
    ASSUME ProgressInv, NEW r \in Readers, RescanArtifacts(r)
    PROVE  ProgressInv'
  <1> DEFINE k == [Idle EXCEPT !.pc = "stat"]
  <1>1. /\ reader[r] = Idle
        /\ reader' = [reader EXCEPT ![r].pc = "stat"]
        /\ UNCHANGED <<trainer, log, lora, row, metrics, artifact, swapped,
                       mishaps>>
    BY DEF RescanArtifacts, trainerVars, rowVars, Goto
  <1>2. /\ reader \in [Readers -> Reader] /\ Idle \in Reader
        /\ mishaps \in 0..MaxMishaps /\ mishaps <= mishaps /\ ProgressTypeOK
        /\ swapped \in BOOLEAN /\ ReaderIs(Idle, trainer, log)
    BY ReaderTyped, IdleIs
  <1>3. reader' = [reader EXCEPT ![r] = k]
    BY <1>1, <1>2
  <1>4. Idle.found = NoArtifact
    BY DEF Idle
  <1>5. /\ k.pc = "stat" /\ k.previous = Idle.previous
        /\ k.points = Idle.points /\ k.found = NoArtifact /\ k \in Reader
    BY <1>2, <1>4 DEF Reader
  <1> HIDE DEF k
  <1>6. ReaderIs(k, trainer, log)
    BY <1>2, <1>5 DEF ReaderIs, Streams
  <1>7. ArtifactIs(k, lora)
    BY <1>5 DEF ArtifactIs
  <1>8. mishaps' \in 0..MaxMishaps /\ mishaps <= mishaps'
        /\ swapped' \in BOOLEAN /\ (~swapped' => ~swapped)
    BY <1>1, <1>2
  <1> QED BY <1>1, <1>3, <1>5, <1>6, <1>7, <1>8, OneReads

LEMMA LookKeeps ==
    ASSUME ProgressInv, NEW r \in Readers, NEW s \in Streams, LookAt(r, s)
    PROVE  ProgressInv'
  <1> DEFINE p == reader[r].previous
             b == BeginAt(log[s], p.cursor[s])
             k == [reader[r] EXCEPT !.looked = TRUE, !.chunk[s] = b]
  <1>1. /\ reader[r].pc = s
        /\ reader' = [reader EXCEPT ![r].looked = TRUE, ![r].chunk[s] = b]
        /\ UNCHANGED <<trainer, log, lora, row, metrics, artifact, swapped,
                       mishaps>>
    BY DEF LookAt, trainerVars, rowVars
  <1>2. /\ reader \in [Readers -> Reader] /\ reader[r] \in Reader
        /\ mishaps \in 0..MaxMishaps /\ mishaps <= mishaps /\ ProgressTypeOK
        /\ p \in Progress /\ swapped \in BOOLEAN
        /\ ~swapped => ReaderIs(reader[r], trainer, log)
        /\ ArtifactIs(reader[r], lora)
    BY ReaderTyped
  <1>3. b \in Chunk /\ BeginIs(p, s, b)
    BY <1>2, BeginIsRight
  <1>4. reader' = [reader EXCEPT ![r] = k]
    BY <1>1, <1>2
  <1>5. s \in {"stdout", "stderr"}
    BY DEF Streams
  <1> HIDE DEF b
  <1>6. /\ k \in Reader /\ k.chunk[s] = b /\ k.looked = TRUE /\ k.pc = s
        /\ \A u \in Streams \ {s} : k.chunk[u] = reader[r].chunk[u]
        /\ k.previous = p /\ k.points = reader[r].points
        /\ k.found = reader[r].found
    <2> DEFINE ch == [reader[r].chunk EXCEPT ![s] = b]
    <2>1. reader[r].chunk \in [Streams -> Chunk]
      BY <1>2 DEF Reader
    <2>2. /\ ch \in [Streams -> Chunk] /\ ch[s] = b
          /\ \A u \in Streams \ {s} : ch[u] = reader[r].chunk[u]
      BY <1>3, <2>1
    <2>3. k = [reader[r] EXCEPT !.looked = TRUE, !.chunk = ch]
      OBVIOUS
    <2> HIDE DEF k, ch
    <2>4. /\ k \in Reader /\ k.chunk = ch /\ k.looked = TRUE
          /\ k.pc = reader[r].pc /\ k.previous = reader[r].previous
          /\ k.points = reader[r].points /\ k.found = reader[r].found
      BY <1>2, <2>2, <2>3 DEF Reader
    <2> QED BY <1>1, <2>2, <2>4
  <1> HIDE DEF k, p
  <1>7. ASSUME ~swapped PROVE ReaderIs(k, trainer, log)
    <2>1. /\ ShownIs(p, trainer) /\ \A u \in Streams : Passed(p, u, log[u])
          /\ reader[r].pc \in {"stderr", "save"} =>
                ReadIs(p, "stdout", reader[r].chunk["stdout"], log["stdout"],
                       trainer)
          /\ \A x \in reader[r].points : x <= Done(trainer)
      BY <1>2, <1>7 DEF ReaderIs, p
    <2>2. s = "stderr" => k.chunk["stdout"] = reader[r].chunk["stdout"]
      BY <1>6 DEF Streams
    <2> QED BY <1>1, <1>3, <1>5, <1>6, <2>1, <2>2 DEF ReaderIs
  <1>8. ArtifactIs(k, lora)
    BY <1>1, <1>2, <1>5, <1>6 DEF ArtifactIs
  <1>9. mishaps' \in 0..MaxMishaps /\ mishaps <= mishaps'
        /\ swapped' \in BOOLEAN /\ (~swapped' => ~swapped)
    BY <1>1, <1>2
  <1> QED BY <1>1, <1>4, <1>6, <1>7, <1>8, <1>9, OneReads

\* A stream has been read, or could not be.
Reads(r, s, c) ==
    reader' = [reader EXCEPT ![r].chunk[s] = c, ![r].looked = FALSE,
                             ![r].pc = After(s)]

LEMMA StreamKeeps ==
    ASSUME ProgressInv, NEW r \in Readers, NEW s \in Streams, NEW c \in Chunk,
           reader[r].pc = s,
           Reads(r, s, c),
           UNCHANGED <<trainer, log, lora, row, metrics, artifact>>,
           mishaps' \in 0..MaxMishaps, mishaps <= mishaps',
           swapped' \in BOOLEAN, ~swapped' => ~swapped,
           ~swapped' => ReadIs(reader[r].previous, s, c, log[s], trainer)
    PROVE  ProgressInv'
  <1> DEFINE p == reader[r].previous
             k == [reader[r] EXCEPT !.looked = FALSE, !.chunk[s] = c,
                                    !.pc = After(s)]
  <1>1. /\ reader \in [Readers -> Reader] /\ reader[r] \in Reader
        /\ ~swapped => ReaderIs(reader[r], trainer, log)
        /\ ArtifactIs(reader[r], lora)
    BY ReaderTyped
  <1>2. reader' = [reader EXCEPT ![r] = k]
    BY <1>1 DEF Reads
  <1>3. /\ s \in {"stdout", "stderr"} /\ After(s) \in {"stderr", "save"}
        /\ After(s) = "save" <=> s = "stderr"
    BY DEF Streams, After
  <1>4. /\ k \in Reader /\ k.chunk[s] = c /\ k.looked = FALSE
        /\ k.pc = After(s) /\ k.previous = p
        /\ \A u \in Streams \ {s} : k.chunk[u] = reader[r].chunk[u]
        /\ k.points = reader[r].points /\ k.found = reader[r].found
    <2> DEFINE ch == [reader[r].chunk EXCEPT ![s] = c]
    <2>1. reader[r].chunk \in [Streams -> Chunk]
      BY <1>1 DEF Reader
    <2>2. /\ ch \in [Streams -> Chunk] /\ ch[s] = c
          /\ \A u \in Streams \ {s} : ch[u] = reader[r].chunk[u]
      BY <2>1
    <2>3. k = [reader[r] EXCEPT !.looked = FALSE, !.chunk = ch, !.pc = After(s)]
      OBVIOUS
    <2> HIDE DEF k, ch
    <2>4. /\ k \in Reader /\ k.chunk = ch /\ k.looked = FALSE
          /\ k.pc = After(s) /\ k.previous = reader[r].previous
          /\ k.points = reader[r].points /\ k.found = reader[r].found
      BY <1>1, <1>3, <2>2, <2>3 DEF Reader
    <2> QED BY <2>2, <2>4
  <1> HIDE DEF k, p
  <1>5. ASSUME ~swapped' PROVE ReaderIs(k, trainer, log)
    <2>1. /\ ShownIs(p, trainer) /\ \A u \in Streams : Passed(p, u, log[u])
          /\ reader[r].pc \in {"stderr", "save"} =>
                ReadIs(p, "stdout", reader[r].chunk["stdout"], log["stdout"],
                       trainer)
          /\ \A x \in reader[r].points : x <= Done(trainer)
      BY <1>1, <1>5 DEF ReaderIs, p
    <2>2. ReadIs(p, s, c, log[s], trainer)
      BY <1>5 DEF p
    <2>3. ReadIs(p, "stdout", k.chunk["stdout"], log["stdout"], trainer)
      <3>1. CASE s = "stdout"
        BY <1>4, <2>2, <3>1
      <3>2. CASE s = "stderr"
        BY <1>4, <2>1, <3>2 DEF Streams
      <3> QED BY <1>3, <3>1, <3>2
    <2>4. k.pc = "save" =>
             ReadIs(p, "stderr", k.chunk["stderr"], log["stderr"], trainer)
      BY <1>3, <1>4, <2>2
    <2> QED BY <1>4, <2>1, <2>3, <2>4 DEF ReaderIs
  <1>6. ArtifactIs(k, lora)
    BY <1>1, <1>3, <1>4 DEF ArtifactIs
  <1> QED BY <1>2, <1>4, <1>5, <1>6, OneReads

LEMMA ReadKeeps ==
    ASSUME ProgressInv, NEW r \in Readers, NEW s \in Streams, ReadStream(r, s)
    PROVE  ProgressInv'
  <1> DEFINE p == reader[r].previous
             b == reader[r].chunk[s]
             c == ChunkOf(log[s], b)
  <1>1. /\ reader[r].pc = s /\ reader[r].looked
        /\ Reads(r, s, c)
        /\ swapped' = \/ swapped
                      \/ c.data # <<>> /\ b.cursor.file \notin {0, log[s].file}
        /\ UNCHANGED <<trainer, log, lora, row, metrics, artifact, mishaps>>
    BY DEF ReadStream, Reads, trainerVars, rowVars
  <1>2. /\ mishaps \in 0..MaxMishaps /\ mishaps <= mishaps /\ ProgressTypeOK
        /\ p \in Progress /\ reader[r].chunk \in [Streams -> Chunk]
        /\ swapped \in BOOLEAN /\ (~swapped => ReaderIs(reader[r], trainer, log))
    BY ReaderTyped
  <1>3. LogIs(s) /\ b \in Chunk
    BY <1>2 DEF ProgressInv
  <1>4. c \in Chunk
    BY <1>2, <1>3, ChunkIs
  <1>5. ASSUME ~swapped' PROVE ReadIs(p, s, c, log[s], trainer)
    <2>1. ~swapped /\ (c.data # <<>> => b.cursor.file \in {0, log[s].file})
      BY <1>1, <1>5
    <2>2. ShownIs(p, trainer) /\ Passed(p, s, log[s]) /\ BeginIs(p, s, b)
      BY <1>1, <1>2, <2>1 DEF ReaderIs
    <2> QED BY <1>2, <1>3, <2>1, <2>2, ChunkIsRead
  <1>6. mishaps' \in 0..MaxMishaps /\ mishaps <= mishaps'
        /\ swapped' \in BOOLEAN /\ (~swapped' => ~swapped)
    BY <1>1, <1>2
  <1>7. UNCHANGED <<trainer, log, lora, row, metrics, artifact>>
    BY <1>1
  <1>8. ~swapped' => ReadIs(reader[r].previous, s, c, log[s], trainer)
    BY <1>5
  <1> HIDE DEF c, p
  <1> QED BY <1>1, <1>4, <1>6, <1>7, <1>8, StreamKeeps

LEMMA ReadFailsKeeps ==
    ASSUME ProgressInv, NEW r \in Readers, NEW s \in Streams, ReadFails(r, s)
    PROVE  ProgressInv'
  <1> DEFINE p == reader[r].previous
  <1>1. /\ reader[r].pc = s /\ Mishap
        /\ Reads(r, s, Unavailable)
        /\ UNCHANGED <<trainer, log, lora, row, metrics, artifact, swapped>>
    BY DEF ReadFails, Reads, trainerVars, rowVars
  <1>2. ProgressTypeOK /\ p \in Progress /\ swapped \in BOOLEAN
    BY ReaderTyped
  <1>3. Unavailable \in Chunk /\ Text(p, s, Unavailable) = <<>>
    BY <1>2, NothingIsRead
  <1>4. ReadIs(p, s, Unavailable, log[s], trainer)
    <2>1. Lined(<<>>) /\ Reported(<<>>, trainer)
      BY DEF Lined, Reported
    <2>2. Unavailable.cursor.file = 0 /\ Unavailable.cursor.offset = 0
      BY DEF Unavailable, NoCursor
    <2>3. log[s].file \in Nat \ {0}
      BY <1>2, LogTyped
    <2>4. 0 <= log[s].file /\ log[s].file # 0
      BY <2>3
    <2> QED BY <1>3, <2>1, <2>2, <2>4 DEF ReadIs
  <1>5. mishaps' \in 0..MaxMishaps /\ mishaps <= mishaps'
    BY <1>1, MishapIs
  <1>6. swapped' \in BOOLEAN /\ (~swapped' => ~swapped)
    BY <1>1, <1>2
  <1>7. UNCHANGED <<trainer, log, lora, row, metrics, artifact>>
    BY <1>1
  <1>8. ~swapped' => ReadIs(reader[r].previous, s, Unavailable, log[s], trainer)
    BY <1>4
  <1> HIDE DEF p
  <1> QED BY <1>1, <1>3, <1>5, <1>6, <1>7, <1>8, StreamKeeps

LEMMA SelectAgainKeeps ==
    ASSUME ProgressInv, NEW r \in Readers, SelectAgain(r)
    PROVE  ProgressInv'
  <1> DEFINE k == [reader[r] EXCEPT !.loaded = row]
  <1>1. /\ reader' = [reader EXCEPT ![r].loaded = row]
        /\ UNCHANGED <<trainer, log, lora, row, metrics, artifact, swapped,
                       mishaps>>
    BY DEF SelectAgain, trainerVars, rowVars
  <1>2. /\ reader \in [Readers -> Reader] /\ reader[r] \in Reader
        /\ mishaps \in 0..MaxMishaps /\ mishaps <= mishaps /\ row \in Progress
        /\ swapped \in BOOLEAN
        /\ ~swapped => ReaderIs(reader[r], trainer, log)
        /\ ArtifactIs(reader[r], lora)
    BY ReaderTyped DEF ProgressTypeOK
  <1>3. reader' = [reader EXCEPT ![r] = k]
    BY <1>1, <1>2
  <1>4. /\ k \in Reader /\ k.pc = reader[r].pc
        /\ k.previous = reader[r].previous /\ k.looked = reader[r].looked
        /\ k.chunk = reader[r].chunk /\ k.points = reader[r].points
        /\ k.found = reader[r].found /\ k.before = reader[r].before
    BY <1>2 DEF Reader
  <1> HIDE DEF k
  <1>5. ~swapped' => ReaderIs(k, trainer, log)
    BY <1>1, <1>2, <1>4 DEF ReaderIs
  <1>6. ArtifactIs(k, lora)
    BY <1>2, <1>4 DEF ArtifactIs
  <1>7. mishaps' \in 0..MaxMishaps /\ mishaps <= mishaps'
        /\ swapped' \in BOOLEAN /\ (~swapped' => ~swapped)
    BY <1>1, <1>2
  <1> QED BY <1>1, <1>3, <1>4, <1>5, <1>6, <1>7, OneReads

\* What the first look at the LoRA file makes of a thread.
LEMMA InspectedIs ==
    ASSUME NEW k \in Reader, lora \in Lora
    PROVE  /\ Inspected(k) \in Reader /\ Inspected(k).pc \in {"hash", "commit"}
           /\ Inspected(k).previous = k.previous
           /\ Inspected(k).points = k.points
           /\ ArtifactIs(Inspected(k), lora)
  <1> DEFINE q == Inspected(k)
  <1>1. NoLora \in Lora /\ NoArtifact \in Artifact /\ NoArtifact.status = "none"
    BY ProgressAssumption DEF NoLora, Lora, NoArtifact, Artifact
  <1>2. /\ [status |-> "invalid", sha |-> NoLora] \in Artifact
        /\ [status |-> "valid", sha |-> NoLora] \in Artifact
    BY <1>1 DEF Artifact
  <1>3. lora.version \in Nat /\ lora.version <= lora.version
    BY ProgressAssumption DEF Lora
  <1>4. CASE lora # NoLora /\ HeaderIsValid
    <2> DEFINE f == [status |-> "valid", sha |-> NoLora]
    <2>1. q = [k EXCEPT !.pc = "hash", !.before = lora, !.found = f]
      BY <1>4 DEF Inspected
    <2>2. f \in Artifact /\ f.status = "valid"
      BY <1>2
    <2> HIDE DEF f, q
    <2>3. /\ q \in Reader /\ q.pc = "hash" /\ q.before = lora /\ q.found = f
          /\ q.previous = k.previous /\ q.points = k.points
      BY <2>1, <2>2 DEF Reader
    <2>4. lora.whole
      BY <1>4 DEF HeaderIsValid
    <2>5. ArtifactIs(q, lora)
      BY <1>3, <2>2, <2>3, <2>4 DEF ArtifactIs
    <2> QED BY <2>3, <2>5 DEF q
  <1>5. CASE ~(lora # NoLora /\ HeaderIsValid)
    <2> DEFINE f == IF lora = NoLora THEN NoArtifact
                    ELSE [status |-> "invalid", sha |-> NoLora]
    <2>1. q = [k EXCEPT !.pc = "commit", !.before = NoLora, !.found = f]
      <3>1. CASE lora = NoLora
        BY <1>5, <3>1 DEF Inspected
      <3>2. CASE lora # NoLora /\ ~HeaderIsValid
        BY <1>5, <3>2 DEF Inspected
      <3> QED BY <1>5, <3>1, <3>2
    <2>2. f \in Artifact /\ f.status # "valid"
      BY <1>1, <1>2
    <2> HIDE DEF f, q
    <2>3. /\ q \in Reader /\ q.pc = "commit" /\ q.found = f
          /\ q.previous = k.previous /\ q.points = k.points
      BY <1>1, <2>1, <2>2 DEF Reader
    <2>4. ArtifactIs(q, lora)
      BY <2>2, <2>3 DEF ArtifactIs
    <2> QED BY <2>3, <2>4 DEF q
  <1> QED BY <1>4, <1>5

\* Columns of the row as it is, and of the one that was made, are as true as
\* each of them.
LEMMA StoredIs ==
    ASSUME NEW old, NEW new \in Progress, row \in Progress,
           NEW good, good => /\ ShownIs(new, trainer) /\ ShownIs(row, trainer)
                             /\ \A s \in Streams : /\ Passed(new, s, log[s])
                                                    /\ Passed(row, s, log[s])
    PROVE  /\ Stored(old, new) \in Progress
           /\ good => /\ ShownIs(Stored(old, new), trainer)
                      /\ \A s \in Streams :
                            Passed(Stored(old, new), s, log[s])
  <1> DEFINE x == IF old.exists /\ ParserState(new) = ParserState(old)
                  THEN row ELSE new
             y == IF old.exists /\ new.step = old.step THEN row.step ELSE new.step
             q == [x EXCEPT !.step = y]
  <1>1. Stored(old, new) = q
    BY DEF Stored
  <1>2. x \in {row, new} /\ y \in {row.step, new.step}
    OBVIOUS
  <1> HIDE DEF x, y
  <1>3. x \in Progress /\ y \in Nat
    BY <1>2, ProgressIs
  <1>4. /\ q \in Progress /\ q.step = y /\ q.raw = x.raw /\ q.mode = x.mode
        /\ q.rest = x.rest /\ q.cursor = x.cursor
    BY <1>3 DEF Progress
  <1> HIDE DEF q
  <1>5. ASSUME good
        PROVE  /\ ShownIs(q, trainer) /\ \A s \in Streams : Passed(q, s, log[s])
    <2>1. /\ ShownIs(x, trainer) /\ \A s \in Streams : Passed(x, s, log[s])
      BY <1>2, <1>5
    <2>2. y <= Done(trainer)
      BY <1>2, <1>5 DEF ShownIs
    <2> QED BY <1>4, <2>1, <2>2 DEF ShownIs, Passed
  <1> QED BY <1>1, <1>4, <1>5

LEMMA SaveKeeps ==
    ASSUME ProgressInv, NEW r \in Readers, Save(r)
    PROVE  ProgressInv'
  <1> DEFINE p == reader[r].previous
             c == reader[r].chunk
             q == Stored(reader[r].loaded, NewRow(p, c))
             new == NewPoints(p, c)
             k == [Idle EXCEPT !.locked = TRUE, !.previous = q, !.points = new]
  <1>1. /\ reader[r].pc = "save"
        /\ \/ Stop(r)
           \/ reader' = [reader EXCEPT ![r] = Inspected(k)]
        /\ UNCHANGED <<trainer, log, lora, row, metrics, artifact, swapped,
                       mishaps>>
    BY DEF Save, trainerVars, rowVars
  <1>2. /\ mishaps \in 0..MaxMishaps /\ mishaps <= mishaps /\ ProgressTypeOK
        /\ p \in Progress /\ c \in [Streams -> Chunk] /\ lora \in Lora
        /\ ~swapped => ReaderIs(reader[r], trainer, log)
        /\ swapped \in BOOLEAN /\ Idle \in Reader
    BY ReaderTyped, IdleIs
  <1>3. TrainerIs /\ row \in Progress /\ (~swapped => TableIs)
    BY <1>2 DEF ProgressInv, ProgressTypeOK
  <1>4. mishaps' \in 0..MaxMishaps /\ mishaps <= mishaps'
        /\ swapped' \in BOOLEAN /\ (~swapped' => ~swapped)
    BY <1>1, <1>2
  <1>5. CASE Stop(r)
    BY <1>1, <1>4, <1>5, StopKeeps
  <1>6. CASE reader' = [reader EXCEPT ![r] = Inspected(k)]
    <2> HIDE DEF p, c
    <2>1. NewRow(p, c) \in Progress /\ new \subseteq Nat
      BY <1>2, NewRowTyped
    <2>2. ASSUME ~swapped
          PROVE  /\ ShownIs(NewRow(p, c), trainer)
                 /\ \A x \in new : x <= Done(trainer)
                 /\ \A s \in Streams : Passed(NewRow(p, c), s, log[s])
                 /\ ShownIs(row, trainer)
                 /\ \A s \in Streams : Passed(row, s, log[s])
      <3>1. /\ ShownIs(p, trainer)
            /\ \A s \in Streams : ReadIs(p, s, c[s], log[s], trainer)
        BY <1>1, <1>2, <2>2 DEF ReaderIs, Streams, p, c
      <3>2. /\ ShownIs(NewRow(p, c), trainer)
            /\ \A x \in new : x <= Done(trainer)
        BY <1>2, <1>3, <3>1, NewRowIs
      <3>3. \A s \in Streams : Passed(NewRow(p, c), s, log[s])
        BY <1>2, <3>1, NewRowPassed
      <3> QED BY <1>3, <2>2, <3>2, <3>3 DEF TableIs
    <2>3. /\ q \in Progress
          /\ ~swapped => /\ ShownIs(q, trainer)
                         /\ \A s \in Streams : Passed(q, s, log[s])
      BY <1>3, <2>1, <2>2, StoredIs
    <2> HIDE DEF q, new
    <2>4. k \in Reader /\ k.previous = q /\ k.points = new
      BY <1>2, <2>1, <2>3 DEF Reader
    <2> HIDE DEF k
    <2> DEFINE i == Inspected(k)
    <2>5. /\ i \in Reader /\ i.pc \in {"hash", "commit"} /\ i.previous = q
          /\ i.points = new /\ ArtifactIs(i, lora)
      BY <1>2, <2>4, InspectedIs
    <2>6. reader' = [reader EXCEPT ![r] = i]
      BY <1>6
    <2> HIDE DEF i
    <2>7. ~swapped' => ReaderIs(i, trainer, log)
      BY <1>4, <2>2, <2>3, <2>5 DEF ReaderIs, Streams
    <2> QED BY <1>1, <1>4, <2>5, <2>6, <2>7, OneReads
  <1> QED BY <1>1, <1>5, <1>6

\* A step that goes on to another label, after what was found of the LoRA file
\* has been noted.
LEMMA FoundKeeps ==
    ASSUME ProgressInv, NEW r \in Readers, NEW k \in Reader,
           reader' = [reader EXCEPT ![r] = k],
           UNCHANGED <<trainer, log, lora, row, metrics, artifact, swapped,
                       mishaps>>,
           k.previous = reader[r].previous, k.points = reader[r].points,
           k.pc \in {"hash", "again", "commit"}, ArtifactIs(k, lora)
    PROVE  ProgressInv'
  <1>1. /\ mishaps \in 0..MaxMishaps /\ mishaps <= mishaps /\ swapped \in BOOLEAN
        /\ ~swapped => ReaderIs(reader[r], trainer, log)
    BY ReaderTyped
  <1>2. ~swapped' => ReaderIs(k, trainer, log)
    BY <1>1 DEF ReaderIs, Streams
  <1>3. mishaps' \in 0..MaxMishaps /\ mishaps <= mishaps'
        /\ swapped' \in BOOLEAN /\ (~swapped' => ~swapped)
    BY <1>1
  <1> QED BY <1>2, <1>3, OneReads

LEMMA StatKeeps ==
    ASSUME ProgressInv, NEW r \in Readers, Stat(r)
    PROVE  ProgressInv'
  <1> DEFINE k == Inspected(reader[r])
  <1>1. /\ reader' = [reader EXCEPT ![r] = Inspected(@)]
        /\ UNCHANGED <<trainer, log, lora, row, metrics, artifact, swapped,
                       mishaps>>
    BY DEF Stat, trainerVars, rowVars
  <1>2. /\ reader \in [Readers -> Reader] /\ reader[r] \in Reader /\ lora \in Lora
    BY ReaderTyped
  <1>3. reader' = [reader EXCEPT ![r] = k]
    BY <1>1, <1>2
  <1>4. /\ k \in Reader /\ k.pc \in {"hash", "commit"}
        /\ k.previous = reader[r].previous /\ k.points = reader[r].points
        /\ ArtifactIs(k, lora)
    BY <1>2, InspectedIs
  <1> HIDE DEF k
  <1> QED BY <1>1, <1>3, <1>4, FoundKeeps

LEMMA HashKeeps ==
    ASSUME ProgressInv, NEW r \in Readers, Hash(r)
    PROVE  ProgressInv'
  <1> DEFINE f == [reader[r].found EXCEPT !.sha = lora]
             k == [reader[r] EXCEPT !.found = f, !.pc = "again"]
  <1>1. /\ reader[r].pc = "hash"
        /\ reader' = [reader EXCEPT ![r].found.sha = lora, ![r].pc = "again"]
        /\ UNCHANGED <<trainer, log, lora, row, metrics, artifact, swapped,
                       mishaps>>
    BY DEF Hash, trainerVars, rowVars
  <1>2. /\ reader \in [Readers -> Reader] /\ reader[r] \in Reader /\ lora \in Lora
        /\ reader[r].found \in Artifact /\ reader[r].before \in Lora
        /\ ArtifactIs(reader[r], lora)
    BY ReaderTyped
  <1>3. reader' = [reader EXCEPT ![r] = k]
    BY <1>1, <1>2
  <1>4. f \in Artifact /\ f.status = reader[r].found.status /\ f.sha = lora
    BY <1>2 DEF Artifact
  <1> HIDE DEF f
  <1>5. /\ k \in Reader /\ k.pc = "again" /\ k.previous = reader[r].previous
        /\ k.points = reader[r].points /\ k.before = reader[r].before
        /\ k.found = f
    BY <1>2, <1>4 DEF Reader
  <1> HIDE DEF k
  <1>6. /\ reader[r].found.status = "valid" /\ reader[r].before.whole
        /\ reader[r].before.version <= lora.version
        /\ reader[r].before.version = lora.version => lora.whole
    BY <1>1, <1>2 DEF ArtifactIs
  <1>7. lora.version <= lora.version
    BY TrainerTyped DEF ProgressInv
  <1>8. ArtifactIs(k, lora)
    BY <1>4, <1>5, <1>6, <1>7 DEF ArtifactIs
  <1> QED BY <1>1, <1>3, <1>5, <1>8, FoundKeeps

LEMMA StatAgainKeeps ==
    ASSUME ProgressInv, NEW r \in Readers, StatAgain(r)
    PROVE  ProgressInv'
  <1> DEFINE f == IF SameFile(r) THEN reader[r].found
                  ELSE [status |-> "changing", sha |-> NoLora]
             k == [reader[r] EXCEPT !.pc = "commit", !.found = f,
                                    !.before = NoLora]
  <1>1. /\ reader[r].pc = "again"
        /\ reader' = [reader EXCEPT ![r].pc = "commit", ![r].found =
                         IF SameFile(r) THEN @
                         ELSE [status |-> "changing", sha |-> NoLora],
                         ![r].before = NoLora]
        /\ UNCHANGED <<trainer, log, lora, row, metrics, artifact, swapped,
                       mishaps>>
    BY DEF StatAgain, trainerVars, rowVars
  <1>2. /\ reader \in [Readers -> Reader] /\ reader[r] \in Reader
        /\ reader[r].found \in Artifact /\ ArtifactIs(reader[r], lora)
    BY ReaderTyped
  <1>3. NoLora \in Lora
    BY ProgressAssumption DEF NoLora, Lora
  <1>4. f \in Artifact
    BY <1>2, <1>3 DEF Artifact
  <1>5. reader' = [reader EXCEPT ![r] = k]
    BY <1>1, <1>2
  <1>6. f.status = "valid" => f.sha.whole
    <2>1. CASE SameFile(r)
      <3>1. /\ reader[r].before.version <= reader[r].found.sha.version
            /\ reader[r].found.sha.version <= lora.version
            /\ reader[r].before.version = reader[r].found.sha.version =>
                  reader[r].found.sha.whole
        BY <1>1, <1>2 DEF ArtifactIs
      <3>2. reader[r].before.version = lora.version
        BY <2>1 DEF SameFile
      <3>3. /\ lora.version \in Nat /\ reader[r].found.sha.version \in Nat
            /\ reader[r].before.version \in Nat
        BY ReaderTyped, ProgressAssumption DEF Lora, Artifact
      <3>4. reader[r].found.sha.whole
        BY <3>1, <3>2, <3>3
      <3> QED BY <2>1, <3>4
    <2>2. CASE ~SameFile(r)
      BY <2>2
    <2> QED BY <2>1, <2>2
  <1> HIDE DEF f
  <1>7. /\ k \in Reader /\ k.pc = "commit" /\ k.previous = reader[r].previous
        /\ k.points = reader[r].points /\ k.found = f
    BY <1>2, <1>3, <1>4 DEF Reader
  <1> HIDE DEF k
  <1>8. ArtifactIs(k, lora)
    BY <1>6, <1>7 DEF ArtifactIs
  <1> QED BY <1>1, <1>5, <1>7, <1>8, FoundKeeps

LEMMA CommitKeeps ==
    ASSUME ProgressInv, NEW r \in Readers, Commit(r)
    PROVE  ProgressInv'
  <1> DEFINE k == reader[r]
  <1>1. /\ k.pc = "commit" /\ UNCHANGED <<trainer, log, lora, swapped, mishaps>>
        /\ reader' = [reader EXCEPT ![r] = Idle]
        /\ artifact' = IF k.found = NoArtifact THEN artifact ELSE k.found
        /\ \/ row' = k.previous /\ metrics' = metrics \cup k.points
           \/ UNCHANGED <<row, metrics>>
    BY DEF Commit, trainerVars, Stop
  <1>2. /\ ProgressTypeOK /\ k.previous \in Progress /\ k.points \in SUBSET Nat
        /\ k.found \in Artifact /\ swapped \in BOOLEAN
        /\ (~swapped => ReaderIs(k, trainer, log)) /\ ArtifactIs(k, lora)
        /\ mishaps \in 0..MaxMishaps /\ mishaps <= mishaps
    BY ReaderTyped
  <1>3. ValidIsWhole /\ (~swapped => TableIs)
    BY DEF ProgressInv
  <1>4. row \in Progress /\ metrics \subseteq Nat /\ artifact \in Artifact
    BY <1>2 DEF ProgressTypeOK
  <1> HIDE DEF k
  <1>5. artifact' \in Artifact /\ ValidIsWhole'
    <2>1. CASE artifact' = artifact
      BY <1>3, <1>4, <2>1 DEF ValidIsWhole
    <2>2. CASE artifact' = k.found
      <3>1. k.found.status = "valid" => k.found.sha.whole
        BY <1>1, <1>2 DEF ArtifactIs
      <3> QED BY <1>2, <2>2, <3>1 DEF ValidIsWhole
    <2> QED BY <1>1, <2>1, <2>2
  <1>6. row' \in Progress /\ metrics' \subseteq Nat
    BY <1>1, <1>2, <1>4
  <1>7. ASSUME ~swapped PROVE TableIs'
    <2>1. CASE row' = k.previous /\ metrics' = metrics \cup k.points
      <3>1. /\ ShownIs(k.previous, trainer)
            /\ \A s \in Streams : Passed(k.previous, s, log[s])
            /\ \A x \in metrics' : x <= Done(trainer)
        BY <1>2, <1>3, <1>7, <2>1 DEF ReaderIs, TableIs
      <3> QED BY <1>1, <2>1, <3>1 DEF TableIs
    <2>2. CASE UNCHANGED <<row, metrics>>
      BY <1>1, <1>3, <1>7, <2>2 DEF TableIs
    <2> QED BY <1>1, <2>1, <2>2
  <1>8. /\ Idle \in Reader /\ ReaderIs(Idle, trainer, log)
        /\ ArtifactIs(Idle, lora)
    BY <1>2, IdleIs
  <1>9. mishaps' \in 0..MaxMishaps /\ mishaps <= mishaps'
        /\ swapped' \in BOOLEAN /\ (~swapped' => ~swapped)
    BY <1>1, <1>2
  <1>10. UNCHANGED <<trainer, log, lora>> /\ (~swapped' => TableIs')
    BY <1>1, <1>7
  <1> QED BY <1>1, <1>5, <1>6, <1>8, <1>9, <1>10, OneReader

LEMMA FailKeeps ==
    ASSUME ProgressInv, NEW r \in Readers, Fail(r)
    PROVE  ProgressInv'
  <1>1. /\ Stop(r) /\ Mishap
        /\ UNCHANGED <<trainer, log, lora, row, metrics, artifact, swapped>>
    BY DEF Fail, trainerVars, rowVars
  <1>2. mishaps' \in 0..MaxMishaps /\ mishaps <= mishaps'
    BY <1>1, MishapIs
  <1> QED BY <1>1, <1>2, StopKeeps

-----------------------------------------------------------------------------
(* the theorems *)

LEMMA ProgressBegins == ProgressInit => ProgressInv
  <1> SUFFICES ASSUME ProgressInit PROVE ProgressInv
    OBVIOUS
  <1>1. /\ trainer \in {[counts |-> "local", step |-> 0, lines |-> 0],
                        [counts |-> "cumulative", step |-> Initial, lines |-> 0]}
        /\ log = [s \in Streams |-> [file |-> 1, key |-> 1, text |-> <<>>]]
        /\ lora = NoLora
        /\ row = NoProgress /\ metrics = {} /\ artifact = NoArtifact
        /\ reader = [r \in Readers |-> Idle]
        /\ swapped = FALSE /\ mishaps = 0
    BY DEF ProgressInit
  <1>2. Initial \in Nat /\ MaxWrites \in Nat /\ MaxMishaps \in Nat
    BY ProgressAssumption
  <1>3. /\ trainer \in Trainer /\ trainer.lines = 0
        /\ trainer.counts = "local" => trainer.step = 0
        /\ trainer.counts = "cumulative" => trainer.step = Initial
    BY <1>1, <1>2 DEF Trainer, Steps
  <1>4. log \in [Streams -> Log]
    <2>1. <<>> \in Seq(Half)
      BY EmptySeq
    <2>2. [file |-> 1, key |-> 1, text |-> <<>>] \in Log
      BY <1>2, <2>1 DEF Log, Files
    <2> QED BY <1>1, <2>2
  <1>5. lora \in Lora /\ artifact \in Artifact /\ artifact.status = "none"
    BY <1>1, <1>2 DEF NoLora, Lora, NoArtifact, Artifact
  <1>6. NoProgress \in Progress /\ Idle \in Reader
    <2>1. <<>> \in Seq(Half)
      BY EmptySeq
    <2>2. NoCursor \in Cursor
      BY <1>2 DEF NoCursor, Cursor
    <2>3. NoProgress \in Progress
      BY <2>1, <2>2 DEF NoProgress, Progress
    <2>4. NoLora \in Lora /\ NoArtifact \in Artifact /\ NoChunk \in Chunk
      BY <1>1, <1>5, <2>1, <2>2 DEF NoChunk, Chunk
    <2> QED BY <2>3, <2>4 DEF Idle, Reader
  <1>7. ProgressTypeOK
    <2>1. row \in Progress
      BY <1>1, <1>6
    <2>2. reader \in [Readers -> Reader]
      BY <1>1, <1>6
    <2>3. metrics \subseteq Nat
      BY <1>1
    <2>4. swapped \in BOOLEAN /\ mishaps \in 0..MaxMishaps
      <3>1. swapped = FALSE /\ mishaps = 0
        BY DEF ProgressInit
      <3>2. 0 \in 0..MaxMishaps
        BY ProgressAssumption
      <3> QED BY <3>1, <3>2
    <2> QED BY <1>3, <1>4, <1>5, <2>1, <2>2, <2>3, <2>4 DEF ProgressTypeOK
  <1>8. TrainerIs
    BY <1>2, <1>3 DEF TrainerIs
  <1>9. ASSUME NEW s \in Streams PROVE LogIs(s)
    <2>1. log[s].text = <<>> /\ log[s].file = 1
      BY <1>1
    <2>2. Len(<<>>) = 0 /\ ~Unended(<<>>)
      BY DEF Unended
    <2>3. Lined(<<>>) /\ Reported(<<>>, trainer)
      BY DEF Lined, Reported
    <2> QED BY <1>1, <1>3, <2>1, <2>2, <2>3 DEF LogIs
  <1>10. /\ ReaderIs(Idle, trainer, log)
         /\ \A f : ArtifactIs(Idle, f)
         /\ ShownIs(NoProgress, trainer)
         /\ \A s \in Streams : Passed(NoProgress, s, log[s])
    BY <1>7, IdleIs
  <1>11. TableIs /\ ValidIsWhole
    BY <1>1, <1>5, <1>10 DEF TableIs, ValidIsWhole
  <1>12. ASSUME NEW r \in Readers
         PROVE  /\ ReaderIs(reader[r], trainer, log)
                /\ ArtifactIs(reader[r], lora)
    BY <1>1, <1>10
  <1> QED BY <1>7, <1>8, <1>9, <1>11, <1>12 DEF ProgressInv

LEMMA ProgressStep == ProgressInv /\ [ProgressNext]_progressVars => ProgressInv'
  <1> SUFFICES ASSUME ProgressInv, [ProgressNext]_progressVars PROVE ProgressInv'
    OBVIOUS
  <1>1. ASSUME NEW s \in Streams, WriteHead(s) PROVE ProgressInv'
    BY <1>1, WriteHeadGoes, GoesKeeps
  <1>2. ASSUME NEW s \in Streams, WriteTail(s) PROVE ProgressInv'
    BY <1>2, WriteTailGoes, GoesKeeps
  <1>3. ASSUME NEW s \in Streams, Rotate(s) PROVE ProgressInv'
    BY <1>3, RotateGoes, GoesKeeps
  <1>4. CASE BeginSave
    BY <1>4, BeginSaveGoes, GoesKeeps
  <1>5. CASE EndSave
    BY <1>5, EndSaveGoes, GoesKeeps
  <1>6. ASSUME NEW r \in Readers, RefreshJob(r) PROVE ProgressInv'
    BY <1>6, RefreshKeeps
  <1>7. ASSUME NEW r \in Readers, RescanArtifacts(r) PROVE ProgressInv'
    BY <1>7, RescanKeeps
  <1>8. ASSUME NEW r \in Readers, NEW s \in Streams,
               LookAt(r, s) \/ ReadStream(r, s) \/ ReadFails(r, s)
        PROVE  ProgressInv'
    BY <1>8, LookKeeps, ReadKeeps, ReadFailsKeeps
  <1>9. ASSUME NEW r \in Readers, SelectAgain(r) PROVE ProgressInv'
    BY <1>9, SelectAgainKeeps
  <1>10. ASSUME NEW r \in Readers, Save(r) PROVE ProgressInv'
    BY <1>10, SaveKeeps
  <1>11. ASSUME NEW r \in Readers, Stat(r) PROVE ProgressInv'
    BY <1>11, StatKeeps
  <1>12. ASSUME NEW r \in Readers, Hash(r) PROVE ProgressInv'
    BY <1>12, HashKeeps
  <1>13. ASSUME NEW r \in Readers, StatAgain(r) PROVE ProgressInv'
    BY <1>13, StatAgainKeeps
  <1>14. ASSUME NEW r \in Readers, Commit(r) PROVE ProgressInv'
    BY <1>14, CommitKeeps
  <1>15. ASSUME NEW r \in Readers, Fail(r) PROVE ProgressInv'
    BY <1>15, FailKeeps
  <1>16. CASE ReadersCrash
    BY <1>16, CrashKeeps
  <1>17. CASE UNCHANGED progressVars
    BY <1>17 DEF progressVars, ProgressInv, ProgressTypeOK, TrainerIs, LogIs,
                 TableIs, ValidIsWhole
  <1> QED BY <1>1, <1>2, <1>3, <1>4, <1>5, <1>6, <1>7, <1>8, <1>9, <1>10,
             <1>11,
             <1>12, <1>13, <1>14, <1>15, <1>16, <1>17 DEF ProgressNext

LEMMA ProgressInvariant == ProgressSpec => []ProgressInv
  BY ProgressBegins, ProgressStep, PTL DEF ProgressSpec

\* The row, the points, the artifact and what the threads hold are always of the
\* types of the tables' columns, also when a log was taken for another one.
THEOREM ProgressTypeCorrect == ProgressSpec => []ProgressTypeOK
  <1>1. ProgressInv => ProgressTypeOK
    BY DEF ProgressInv
  <1> QED BY <1>1, ProgressInvariant, PTL

\* However _refresh_job cuts the logs into chunks and whoever reads and rotates
\* at the same time, parse_stream is never given a line put together from the
\* parts of others, unless read_log_chunk opened another file than the one it
\* took it for: no step of such a line is shown or kept as a point.
THEOREM LinesAreTheirOwn == ProgressSpec => []LinesNotJoined
  <1>1. ProgressInv => LinesNotJoined
    <2> SUFFICES ASSUME ProgressInv, ~swapped
                 PROVE  row.raw # Bogus /\ Bogus \notin metrics
      BY DEF LinesNotJoined
    <2>1. /\ ProgressTypeOK /\ TrainerIs /\ ShownIs(row, trainer)
          /\ \A x \in metrics : x <= Done(trainer)
      BY DEF ProgressInv, TableIs
    <2>2. /\ trainer.step \in Nat /\ trainer.lines \in 0..MaxWrites
          /\ trainer.counts \in {"local", "cumulative"}
          /\ MaxWrites \in Nat /\ Initial \in Nat
      BY <2>1, TrainerTyped
    <2>3. row.raw \in Nat /\ metrics \subseteq Nat
      BY <2>1, ProgressIs DEF ProgressTypeOK
    <2>4. /\ trainer.counts = "local" => trainer.step <= trainer.lines
          /\ trainer.counts = "cumulative" =>
                trainer.step <= Initial + trainer.lines
      BY <2>1 DEF TrainerIs
    <2>5. Done(trainer) \in Nat /\ Done(trainer) < Bogus /\ trainer.step < Bogus
      BY <2>2, <2>4 DEF Done, Bogus
    <2>6. row.raw <= trainer.step
      BY <2>1 DEF ShownIs
    <2>7. Bogus \in Nat
      BY <2>2 DEF Bogus
    <2>8. row.raw # Bogus
      BY <2>2, <2>3, <2>5, <2>6, <2>7
    <2>9. Bogus \notin metrics
      BY <2>1, <2>5, <2>7
    <2> QED BY <2>8, <2>9
  <1> QED BY <1>1, ProgressInvariant, PTL

\* A row that an overtaken refresh writes over a newer one takes its cursors
\* with it, or leaves the newer one's: nothing before a cursor of the row has
\* been skipped by the aggregate beside it.
THEOREM NothingIsSkipped == ProgressSpec => []NothingSkipped
  <1>1. ProgressInv => NothingSkipped
    <2> SUFFICES ASSUME ProgressInv, ~swapped PROVE NothingSkipped
      BY DEF NothingSkipped
    <2>1. \A s \in Streams : Passed(row, s, log[s])
      BY DEF ProgressInv, TableIs
    <2> QED BY <2>1 DEF Passed, NothingSkipped
  <1> QED BY <1>1, ProgressInvariant, PTL

\* The steps of the parent of a resumed job are added at most once, and only to
\* a count that began at the resume: what is shown is never ahead.
THEOREM TrainerIsAhead == ProgressSpec => []NeverAhead
  <1>1. ProgressInv => NeverAhead
    <2> SUFFICES ASSUME ProgressInv, ~swapped PROVE NeverAhead
      BY DEF NeverAhead
    <2>1. row.step <= Done(trainer) /\ \A x \in metrics : x <= Done(trainer)
      BY DEF ProgressInv, TableIs, ShownIs
    <2> QED BY <2>1 DEF NeverAhead, Done
  <1> QED BY <1>1, ProgressInvariant, PTL

\* A file that the trainer writes while _safetensors hashes it is never
\* recorded as VALID with a hash of a part of it.
THEOREM ArtifactIsWhole == ProgressSpec => []ValidIsWhole
  <1>1. ProgressInv => ValidIsWhole
    BY DEF ProgressInv
  <1> QED BY <1>1, ProgressInvariant, PTL
=============================================================================
