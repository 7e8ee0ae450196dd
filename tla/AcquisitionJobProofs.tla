------------------------ MODULE AcquisitionJobProofs ------------------------
(* What holds of AcquisitionJob for every number of workers, callers, items, *)
(* faults and requests: first what the claim conditions alone guarantee,     *)
(* however the flushes interleave, then what lasts until a flush writes over *)
(* a row that has moved on, and why.                                         *)
EXTENDS AcquisitionJob, TLAPS

-----------------------------------------------------------------------------
(* Typing *)

\* A completion knows the terminal status it works towards.
WantKnown == \A t \in Threads :
    thread[t].pc \in {"manifest", "intent", "publish", "finish"} =>
        thread[t].want \in Terminal

TypeInv == TypeOK /\ WantKnown

\* Rewriting the columns of one row, from a row and its assignment, keeps a row.
LEMMA FlushType ==
    ASSUME TypeOK, NEW loaded \in JobRow, NEW assigned \in JobRow
    PROVE  Flush(loaded, assigned) \in JobRow
BY DEF TypeOK, Flush, Flushed, JobRow

LEMMA IdleType == Idle \in ThreadState /\ NewJob \in JobRow
BY BoundsAssumption
   DEF Idle, NewJob, ThreadState, JobRow, PC, Target, Terminal, AllPending,
       ItemStatus, JobStatus, Repair

\* A change of one thread keeps the types and the promise if the new state does.
Promising(row) == row.pc \in {"manifest", "intent", "publish", "finish"} =>
                      row.want \in Terminal
LEMMA BecomesType ==
    ASSUME TypeInv, NEW t \in Threads, NEW row \in ThreadState, Promising(row),
           Becomes(t, row)
    PROVE  thread' \in [Threads -> ThreadState] /\ WantKnown'
BY DEF TypeInv, TypeOK, WantKnown, Becomes, Promising

LEMMA GoType ==
    ASSUME TypeInv, NEW t \in Threads,
           NEW label \in PC \ {"manifest", "intent", "publish", "finish"},
           Go(t, label)
    PROVE  thread' \in [Threads -> ThreadState] /\ WantKnown'
<1>. DEFINE row == [thread[t] EXCEPT !.pc = label]
<1>1. row \in ThreadState /\ Promising(row)
  BY DEF TypeInv, TypeOK, ThreadState, Promising
<1>. QED
  BY <1>1, BecomesType DEF Go

LEMMA GoForType ==
    ASSUME TypeInv, NEW t \in Threads, NEW want \in Target,
           NEW label \in PC \ {"manifest", "intent", "publish", "finish"},
           GoFor(t, label, want)
    PROVE  thread' \in [Threads -> ThreadState] /\ WantKnown'
<1>. DEFINE row == [thread[t] EXCEPT !.pc = label, !.want = want]
<1>1. row \in ThreadState /\ Promising(row)
  BY DEF TypeInv, TypeOK, ThreadState, Promising
<1>. QED
  BY <1>1, BecomesType DEF GoFor

LEMMA LeaveType ==
    ASSUME TypeInv, NEW t \in Threads, Leave(t)
    PROVE  thread' \in [Threads -> ThreadState] /\ WantKnown'
<1>1. Idle \in ThreadState /\ Promising(Idle)
  BY IdleType DEF Idle, Promising
<1>. QED
  BY <1>1, BecomesType DEF Leave

LEMMA StartThreadType ==
    ASSUME TypeInv, StartThread
    PROVE  thread' \in [Threads -> ThreadState] /\ WantKnown'
<1>1. PICK w \in Workers : Go(w, "start")
  BY DEF StartThread
<1>2. w \in Threads
  BY DEF Threads
<1>. QED
  BY <1>1, <1>2, GoType DEF PC

LEMMA SameThreadType ==
    ASSUME TypeInv, UNCHANGED thread
    PROVE  thread' \in [Threads -> ThreadState] /\ WantKnown'
BY DEF TypeInv, TypeOK, WantKnown

\* A flush notes whether it wrote over a row that had moved on; nothing forgets it.
LEMMA WriteOverType ==
    ASSUME NEW t, WriteOver(t)
    PROVE  overtaken' \in BOOLEAN /\ thrown' = thrown
<1>1. overtaken' = (overtaken \/ MovedOn(t)) /\ thrown' = thrown
  BY DEF WriteOver
<1>2. (overtaken \/ MovedOn(t)) \in BOOLEAN
  OBVIOUS
<1>. QED  BY <1>1, <1>2, Zenon

LEMMA FailAllType ==
    ASSUME TypeOK, NEW t, NEW status \in {"failed", "canceled"},
           FailAllUnfinished(t, status)
    PROVE  item' \in [Items -> ItemStatus] /\ dirty' \in [Items -> BOOLEAN]
<1>. DEFINE failing == FailedBy(status)
<1>1. item' = [i \in Items |-> IF i \in failing THEN status ELSE item[i]]
  BY DEF FailAllUnfinished
<1>2. PICK left \in SUBSET failing :
          dirty' = [i \in Items |-> IF i \in failing THEN i \in left ELSE dirty[i]]
  BY DEF FailAllUnfinished
<1>. HIDE DEF failing
<1>3. item' \in [Items -> ItemStatus]
  BY <1>1 DEF TypeOK, ItemStatus, DoneItem
<1>4. ASSUME NEW i \in Items
      PROVE  (IF i \in failing THEN i \in left ELSE dirty[i]) \in BOOLEAN
  <2>1. dirty[i] \in BOOLEAN
    BY DEF TypeOK
  <2>2. (i \in left) \in BOOLEAN
    OBVIOUS
  <2>. QED  BY <2>1, <2>2, Zenon
<1>5. dirty' \in [Items -> BOOLEAN]
  BY <1>2, <1>4, Zenon
<1>. QED  BY <1>3, <1>5

\* The worker: what run_job does keeps the types.
LEMMA WorkerType ==
    ASSUME TypeInv, NEW t \in Workers,
           \/ ClaimJob(t) \/ NextItem(t) \/ ClaimItem(t) \/ ItemAction(t)
           \/ WorkerFailAll(t) \/ WorkerFailure(t)
    PROVE  TypeInv'
<1>. USE DEF TypeInv, aside, history
<1>0. t \in Threads
  BY DEF Threads
<1>1. CASE ClaimJob(t)
  <2>1. thread' \in [Threads -> ThreadState] /\ WantKnown'
    <3>1. CASE Claimable
      <4>. DEFINE row == [thread[t] EXCEPT !.pc = "next", !.claim = gen + 1]
      <4>1. gen + 1 \in Nat /\ thread[t] \in ThreadState
        BY <1>0 DEF TypeOK
      <4>2. row \in ThreadState /\ Promising(row)
        BY <4>1 DEF ThreadState, PC, Promising
      <4>. QED
        BY <1>0, <1>1, <3>1, <4>2, BecomesType DEF ClaimJob
    <3>2. CASE ~Claimable
      BY <1>0, <1>1, <3>2, LeaveType DEF ClaimJob
    <3>. QED  BY <3>1, <3>2
  <2>2. job' \in JobRow /\ gen' \in Nat /\ fresh' \in BOOLEAN
    <3>1. gen + 1 \in Nat /\ job \in JobRow /\ gen \in Nat /\ fresh \in BOOLEAN
      BY DEF TypeOK
    <3>2. [job EXCEPT !.status = "running", !.owner = gen + 1] \in JobRow
      BY <3>1 DEF JobRow, JobStatus
    <3>. QED
      BY <1>1, <3>1, <3>2 DEF ClaimJob
  <2>. QED
    BY <1>1, <2>1, <2>2 DEF ClaimJob, TypeOK
<1>2. CASE NextItem(t)
  <2>1. thread' \in [Threads -> ThreadState] /\ WantKnown'
    <3>1. CASE Go(t, "audit")
      BY <1>0, <3>1, GoType DEF PC
    <3>2. CASE GoFor(t, "fail", "canceled")
      BY <1>0, <3>2, GoForType DEF PC, Target, Terminal
    <3>3. ASSUME NEW i \in Selectable,
                 Becomes(t, [thread[t] EXCEPT !.pc = "claim", !.item = i])
          PROVE  thread' \in [Threads -> ThreadState] /\ WantKnown'
      <4>1. i \in 0..ItemCount
        BY BoundsAssumption DEF Selectable, Items
      <4>. DEFINE row == [thread[t] EXCEPT !.pc = "claim", !.item = i]
      <4>2. row \in ThreadState /\ Promising(row)
        BY ZenonT(60), <1>0, <4>1 DEF TypeOK, ThreadState, PC, Promising
      <4>. QED
        BY <1>0, <3>3, <4>2, BecomesType
    <3>. QED  BY <1>2, <3>1, <3>2, <3>3 DEF NextItem
  <2>. QED
    BY <1>2, <2>1 DEF NextItem, TypeOK
<1>3. CASE ClaimItem(t)
  <2>1. thread' \in [Threads -> ThreadState] /\ WantKnown'
    BY <1>0, <1>3, GoType, LeaveType DEF ClaimItem, PC
  <2>2. item' \in [Items -> ItemStatus]
    BY <1>3 DEF ClaimItem, TypeOK, ItemStatus
  <2>. QED
    BY <1>3, <2>1, <2>2 DEF ClaimItem, TypeOK
<1>4. CASE ItemAction(t)
  <2>1. thread' \in [Threads -> ThreadState] /\ WantKnown'
    <3>1. CASE GoFor(t, "fail", "canceled")
      BY <1>0, <3>1, GoForType DEF PC, Target, Terminal
    <3>2. CASE UNCHANGED thread \/ Go(t, "next") \/ Leave(t)
      BY <1>0, <3>2, GoType, LeaveType, SameThreadType DEF PC
    <3>. QED
      BY <1>4, <3>1, <3>2
         DEF ItemAction, ItemProgress, ItemRetry, ItemComplete, ItemFailed,
             ItemCanceled, ItemClaimLost
  <2>2. ASSUME NEW status \in ItemStatus, NEW cleanup \in BOOLEAN,
               ItemStep(t, status, cleanup)
        PROVE  TypeOK'
    BY <2>1, <2>2 DEF ItemStep, TypeOK
  <2>3. CASE ItemProgress(t)
    <3>1. dirty[thread[t].item] \in BOOLEAN \/ thread[t].item \notin Items
      BY DEF TypeOK
    <3>2. TypeOK'
      BY <2>1, <2>3 DEF ItemProgress, ItemStep, TypeOK, ItemStatus
    <3>. QED  BY <2>1, <3>2
  <2>4. CASE ~ItemProgress(t)
    BY <1>4, <2>1, <2>2, <2>4
       DEF ItemAction, ItemRetry, ItemComplete, ItemFailed, ItemCanceled,
           ItemClaimLost, ItemStatus, DoneItem, TypeOK
  <2>. QED  BY <2>3, <2>4
<1>5. CASE WorkerFailAll(t)
  <2>1. thread' \in [Threads -> ThreadState] /\ WantKnown'
    BY <1>0, <1>5, GoType, LeaveType DEF WorkerFailAll, PC
  <2>2. item' \in [Items -> ItemStatus] /\ dirty' \in [Items -> BOOLEAN]
    BY <1>5, FailAllType, LeaveType DEF WorkerFailAll, TypeOK
  <2>. QED
    BY <1>5, <2>1, <2>2 DEF WorkerFailAll, TypeOK
<1>6. CASE WorkerFailure(t)
  <2>1. thread' \in [Threads -> ThreadState] /\ WantKnown'
    <3>. DEFINE row == [thread[t] EXCEPT !.pc = "fail", !.want = "failed",
                                         !.handling = TRUE]
    <3>1. row \in ThreadState /\ Promising(row)
      BY <1>0 DEF TypeOK, ThreadState, PC, Target, Terminal, Promising
    <3>2. Becomes(t, row) \/ Go(t, "defer") \/ Leave(t)
      BY <1>6 DEF WorkerFailure
    <3>. QED  BY <1>0, <3>1, <3>2, BecomesType, GoType, LeaveType DEF PC
  <2>2. thrown' \in BOOLEAN
    <3>1. thrown' = (thrown \/ thread[t].pc = "finish")
      BY <1>6 DEF WorkerFailure
    <3>2. (thrown \/ thread[t].pc = "finish") \in BOOLEAN
      OBVIOUS
    <3>. QED  BY <3>1, <3>2, Zenon
  <2>. QED
    BY <1>6, <2>1, <2>2, BoundsAssumption DEF WorkerFailure, Fault, TypeOK
<1>. QED
  BY <1>1, <1>2, <1>3, <1>4, <1>5, <1>6

\* What _begin_manifest_finalization, a warning and a deferral write is a row.
LEMMA CompletionRows ==
    ASSUME TypeInv, NEW t \in Threads
    PROVE  /\ \A want \in Target : EffectiveTarget(thread[t].read, want) \in Target
           /\ \A row \in JobRow, status \in JobStatus : Finished(row, status) \in JobRow
           /\ JobTerminalStatus \in Terminal
BY ZenonT(60)
   DEF TypeInv, TypeOK, EffectiveTarget, Finished, JobTerminalStatus, JobRow,
       JobStatus, Repair, Target, Terminal, ThreadState

\* The completion of a worker or a repairer keeps the types.
LEMMA CompletionType ==
    ASSUME TypeInv, NEW t \in Threads, Completion(t) \/ ManifestFails(t)
    PROVE  TypeInv'
<1>. USE DEF TypeInv, aside, history
<1>0. /\ thread[t] \in ThreadState /\ thread[t].want \in Target
      /\ thread[t].final \in Target /\ thread[t].seen \in [Items -> ItemStatus]
      /\ thread[t].read \in JobRow
      /\ job \in JobRow /\ item \in [Items -> ItemStatus]
      /\ CleanupPending \in BOOLEAN
  BY DEF TypeOK, ThreadState, CleanupPending
<1>1. CASE Audit(t)
  <2>. DEFINE row == [thread[t] EXCEPT !.pc = "manifest", !.seen = item,
                        !.want = IF @ = "none" THEN JobTerminalStatus ELSE @]
  <2>1. (IF thread[t].want = "none" THEN JobTerminalStatus ELSE thread[t].want)
            \in Terminal
    BY <1>0, CompletionRows DEF Target
  <2>2. row \in ThreadState /\ Promising(row)
    BY <1>0, <2>1 DEF ThreadState, PC, Promising, Target
  <2>3. thread' \in [Threads -> ThreadState] /\ WantKnown'
    <3>1. CASE Go(t, "defer")
      BY <3>1, GoType DEF PC
    <3>2. CASE Becomes(t, row)
      BY <2>2, <3>2, BecomesType
    <3>3. CASE Leave(t)
      BY <3>3, LeaveType
    <3>. QED  BY <1>1, <3>1, <3>2, <3>3 DEF Audit
  <2>. QED  BY <1>1, <2>3 DEF Audit, TypeOK
<1>2. CASE BeginManifest(t)
  <2>. DEFINE row == [thread[t] EXCEPT !.pc = "intent", !.seen = item,
                        !.blocked = CleanupPending, !.read = job]
  <2>1. CASE Becomes(t, row)
    <3>1. thread[t].want \in Terminal
      BY <1>2 DEF BeginManifest, At, WantKnown
    <3>2. row \in ThreadState /\ Promising(row)
      BY <1>0, <3>1 DEF ThreadState, PC, Promising
    <3>. QED  BY <1>2, <2>1, <3>2, BecomesType DEF BeginManifest, TypeOK
  <2>2. CASE Leave(t)
    BY <1>2, <2>2, LeaveType DEF BeginManifest, TypeOK
  <2>. QED  BY <1>2, <2>1, <2>2 DEF BeginManifest
<1>3. CASE BeginManifestFinalization(t)
  <2>. DEFINE loaded == thread[t].read
              final == EffectiveTarget(loaded, thread[t].want)
              assigned == [loaded EXCEPT
                !.repair = IF @ = "none" THEN "pending" ELSE @, !.target = final]
              row == [thread[t] EXCEPT
                !.pc = IF thread[t].blocked THEN "defer" ELSE "publish",
                !.final = final, !.read = NewJob]
  <2>1. final \in Target /\ thread[t].want \in Terminal
    BY <1>0, <1>3, CompletionRows DEF BeginManifestFinalization, WantKnown
  <2>. HIDE DEF final
  <2>2. assigned \in JobRow
    BY <1>0, <2>1 DEF JobRow, Repair
  <2>3. row \in ThreadState /\ Promising(row)
    BY <1>0, <2>1, IdleType DEF ThreadState, PC, Promising
  <2>4. job' = Flush(loaded, assigned) /\ Becomes(t, row)
    BY <1>3 DEF BeginManifestFinalization, final
  <2>5. overtaken' \in BOOLEAN /\ thrown' = thrown
    BY <1>3, WriteOverType DEF BeginManifestFinalization
  <2>. QED
    BY <1>0, <1>3, <2>2, <2>3, <2>4, <2>5, FlushType, BecomesType
       DEF BeginManifestFinalization, TypeOK
<1>4. CASE PublishManifest(t)
  <2>1. thread' \in [Threads -> ThreadState] /\ WantKnown'
    <3>. DEFINE row == [thread[t] EXCEPT !.pc = "finish"]
    <3>1. row \in ThreadState /\ Promising(row)
      BY <1>0, <1>4 DEF PublishManifest, At, WantKnown, ThreadState, PC, Promising
    <3>. QED  BY <1>4, <3>1, BecomesType, LeaveType DEF PublishManifest, Go
  <2>2. manifest' \in ManifestDoc
    BY <1>0, <1>4 DEF PublishManifest, ManifestDoc, TypeOK
  <2>. QED  BY <1>4, <2>1, <2>2 DEF PublishManifest, TypeOK
<1>5. CASE ManifestFails(t)
  <2>1. thread' \in [Threads -> ThreadState] /\ WantKnown'
    <3>. DEFINE row == [thread[t] EXCEPT !.pc = "defer", !.read = NewJob]
    <3>1. row \in ThreadState /\ Promising(row)
      BY <1>0, IdleType DEF ThreadState, PC, Promising
    <3>. QED  BY <1>5, <3>1, BecomesType DEF ManifestFails
  <2>2. NoManifest \in ManifestDoc
        /\ [status |-> thread[t].final, items |-> thread[t].seen] \in ManifestDoc
    BY <1>0, IdleType DEF NoManifest, ManifestDoc, Target, AllPending, ItemStatus
  <2>3. manifest' \in ManifestDoc
    BY <1>5, <2>2 DEF ManifestFails, TypeOK
  <2>4. job' \in JobRow
    BY <1>0, <1>5 DEF ManifestFails, ManifestWarning, JobRow, Repair, Target, Terminal
  <2>. QED
    BY <1>5, <2>1, <2>3, <2>4, BoundsAssumption DEF ManifestFails, Fault, TypeOK
<1>6. CASE FinishJob(t)
  <2>1. thread[t].want \in JobStatus
    BY <1>6 DEF FinishJob, At, WantKnown, JobStatus
  <2>2. job' \in JobRow
    BY <1>0, <1>6, <2>1, CompletionRows DEF FinishJob
  <2>. QED
    BY <1>6, <2>2, GoType, LeaveType DEF FinishJob, PC, TypeOK
<1>7. CASE DeferManifestRepair(t)
  <2>. DEFINE target == IF job.cancel THEN "canceled"
                        ELSE IF job.target = "none" THEN thread[t].want ELSE job.target
  <2>1. target \in Target
    BY <1>0 DEF JobRow, Target, Terminal
  <2>. HIDE DEF target
  <2>2. [job EXCEPT !.status = "stale", !.owner = 0, !.repair = "pending",
                    !.target = target] \in JobRow
    BY <1>0, <2>1 DEF JobRow, JobStatus, Repair
  <2>3. job' \in JobRow
    BY <1>0, <1>7, <2>2 DEF DeferManifestRepair, target
  <2>. QED
    BY <1>7, <2>3, LeaveType DEF DeferManifestRepair, TypeOK
<1>. QED
  BY <1>1, <1>2, <1>3, <1>4, <1>5, <1>6, <1>7 DEF Completion

\* reconcile_manifest_repairs keeps the types.
LEMMA RepairType ==
    ASSUME TypeInv,
           \/ RepairScan \/ ClaimManifestRepairJob \/ SetManifestRepairTarget
           \/ RepairAudit \/ RepairFailAll \/ RepairCheck \/ RepairFailure
    PROVE  TypeInv'
<1>. USE DEF TypeInv, aside, history
<1>. DEFINE r == Repairer
<1>0. /\ r \in Threads /\ thread[r] \in ThreadState /\ thread[r].want \in Target
      /\ job \in JobRow /\ gen \in Nat /\ gen + 1 \in Nat
  BY DEF TypeOK, ThreadState, Threads
<1>1. CASE RepairScan
  <2>1. EffectiveTarget(job, "failed") \in Target
    BY <1>0 DEF EffectiveTarget, JobRow, Target, Terminal
  <2>. QED  BY <1>0, <1>1, <2>1, GoForType DEF RepairScan, PC, TypeOK
<1>2. CASE ClaimManifestRepairJob
  <2>. DEFINE row == [thread[r] EXCEPT !.pc = "repairtarget", !.claim = gen + 1]
  <2>1. row \in ThreadState /\ Promising(row)
    BY <1>0 DEF ThreadState, PC, Promising
  <2>2. [job EXCEPT !.status = "running", !.repair = "repairing",
                    !.owner = gen + 1] \in JobRow
    BY <1>0 DEF JobRow, JobStatus, Repair
  <2>3. thread' \in [Threads -> ThreadState] /\ WantKnown'
    BY <1>0, <1>2, <2>1, BecomesType, LeaveType DEF ClaimManifestRepairJob
  <2>. QED  BY <1>0, <1>2, <2>2, <2>3 DEF ClaimManifestRepairJob, TypeOK
<1>3. CASE SetManifestRepairTarget
  <2>1. (IF job.cancel THEN "canceled" ELSE thread[r].want) \in Target
    BY <1>0 DEF Target, Terminal
  <2>2. job' \in JobRow
    BY <1>0, <1>3, <2>1 DEF SetManifestRepairTarget, JobRow
  <2>3. thread' \in [Threads -> ThreadState] /\ WantKnown'
    BY <1>0, <1>3, GoType, LeaveType DEF SetManifestRepairTarget, PC
  <2>. QED  BY <1>3, <2>2, <2>3 DEF SetManifestRepairTarget, TypeOK
<1>4. CASE RepairAudit
  <2>1. (IF Repairing /\ job.cancel THEN "canceled" ELSE thread[r].want) \in Target
    BY <1>0 DEF Target, Terminal
  <2>2. job' \in JobRow
    BY <1>0, <1>4 DEF RepairAudit, JobRow, Target, Terminal
  <2>3. thread' \in [Threads -> ThreadState] /\ WantKnown'
    BY <1>0, <1>4, <2>1, GoForType DEF RepairAudit, PC
  <2>. QED  BY <1>4, <2>2, <2>3 DEF RepairAudit, TypeOK
<1>5. CASE RepairFailAll
  <2>1. thread' \in [Threads -> ThreadState] /\ WantKnown'
    BY <1>0, <1>5, GoType, LeaveType DEF RepairFailAll, PC
  <2>2. item' \in [Items -> ItemStatus] /\ dirty' \in [Items -> BOOLEAN]
    BY <1>5, FailAllType DEF RepairFailAll, TypeOK
  <2>. QED  BY <1>5, <2>1, <2>2 DEF RepairFailAll, TypeOK
<1>6. CASE RepairCheck
  <2>1. thread' \in [Threads -> ThreadState] /\ WantKnown'
    BY <1>0, <1>6, GoType, GoForType DEF RepairCheck, PC, Target, Terminal
  <2>2. item' \in [Items -> ItemStatus] /\ dirty' \in [Items -> BOOLEAN]
    BY <1>6, FailAllType DEF RepairCheck, TypeOK
  <2>3. job' \in JobRow
    BY <1>0, <1>6 DEF RepairCheck, JobRow, Target, Terminal
  <2>. QED  BY <1>6, <2>1, <2>2, <2>3 DEF RepairCheck, TypeOK
<1>7. CASE RepairFailure
  <2>1. thread' \in [Threads -> ThreadState] /\ WantKnown'
    <3>. DEFINE row == [thread[r] EXCEPT !.pc = "defer", !.handling = TRUE]
    <3>1. row \in ThreadState /\ Promising(row)
      BY <1>0 DEF ThreadState, PC, Promising
    <3>2. Becomes(r, row) \/ Leave(r)
      BY <1>7 DEF RepairFailure
    <3>. QED  BY <1>0, <3>1, <3>2, BecomesType, LeaveType
  <2>. QED  BY <1>7, <2>1, BoundsAssumption DEF RepairFailure, Fault, TypeOK
<1>. QED
  BY <1>1, <1>2, <1>3, <1>4, <1>5, <1>6, <1>7

LEMMA FaultType ==
    ASSUME TypeOK, Fault
    PROVE  faults' \in 0..MaxFaults
BY BoundsAssumption DEF TypeOK, Fault

\* start_job, recovery, the user's requests and the environment keep the types.
LEMMA OtherType ==
    ASSUME TypeInv,
           \/ StartJob \/ RecoverStaleJobs \/ PromoteCleanupReadyJobs
           \/ \E i \in Items : CleanupPartItem(i)
           \/ \E c \in Callers : CancelJob(c) \/ ResumeJob(c) \/ Write(c)
           \/ Crash \/ Lapse
    PROVE  TypeInv'
<1>. USE DEF TypeInv, aside, history
<1>0. job \in JobRow /\ gen \in Nat /\ gen + 1 \in Nat
  BY DEF TypeOK
<1>r. [job EXCEPT !.status = "stale", !.owner = 0] \in JobRow
       /\ [job EXCEPT !.status = "queued", !.owner = 0] \in JobRow
  BY <1>0 DEF JobRow, JobStatus
<1>1. CASE StartJob
  BY <1>1, StartThreadType DEF StartJob, TypeOK
<1>2. CASE RecoverStaleJobs
  <2>1. thread' \in [Threads -> ThreadState] /\ WantKnown'
    BY <1>2, StartThreadType, SameThreadType DEF RecoverStaleJobs
  <2>2. item' \in [Items -> ItemStatus]
    BY <1>2 DEF RecoverStaleJobs
  <2>3. job' \in JobRow
    <3>1. RecoveredRepair(job) \in JobRow
      <4>1. (IF job.cancel THEN "canceled" ELSE job.target) \in Target
        BY <1>0 DEF JobRow, Target, Terminal
      <4>. QED  BY <1>0, <4>1 DEF RecoveredRepair, JobRow, JobStatus, Repair
    <3>. QED  BY <1>2, <1>r, <3>1 DEF RecoverStaleJobs
  <2>. QED  BY <1>0, <1>2, <2>1, <2>2, <2>3 DEF RecoverStaleJobs, TypeOK
<1>3. CASE PromoteCleanupReadyJobs
  <2>1. thread' \in [Threads -> ThreadState] /\ WantKnown'
    BY <1>3, StartThreadType, SameThreadType DEF PromoteCleanupReadyJobs
  <2>2. job' \in JobRow
    BY <1>0, <1>3, <1>r DEF PromoteCleanupReadyJobs
  <2>. QED  BY <1>3, <2>1, <2>2 DEF PromoteCleanupReadyJobs, TypeOK
<1>4. ASSUME NEW i \in Items, CleanupPartItem(i)
      PROVE  TypeInv'
  BY <1>4, SameThreadType DEF CleanupPartItem, TypeOK
<1>5. ASSUME NEW c \in Callers, CancelJob(c) \/ ResumeJob(c)
      PROVE  TypeInv'
  <2>1. ASSUME NEW label \in {"cancel", "resume"}, Request(c, label)
        PROVE  TypeInv'
    <3>. DEFINE row == [thread[c] EXCEPT !.pc = label, !.read = job, !.seen = item]
    <3>1. c \in Threads /\ thread[c] \in ThreadState
      BY DEF TypeOK, Threads
    <3>2. row \in ThreadState /\ Promising(row)
      BY <1>0, <3>1 DEF TypeOK, ThreadState, PC, Promising
    <3>3. thread' \in [Threads -> ThreadState] /\ WantKnown'
      BY <2>1, <3>1, <3>2, BecomesType DEF Request
    <3>4. requests' \in 0..MaxRequests
      BY <2>1, BoundsAssumption DEF Request, TypeOK
    <3>. QED  BY <2>1, <3>3, <3>4 DEF Request, TypeOK
  <2>. QED  BY <1>5, <2>1 DEF CancelJob, ResumeJob
<1>6. ASSUME NEW c \in Callers, CancelJobWrite(c)
      PROVE  TypeInv'
  <2>1. c \in Threads /\ thread[c].read \in JobRow
    BY DEF TypeOK, ThreadState, Threads
  <2>2. CancelOf(thread[c].read) \in JobRow
    BY <2>1 DEF CancelOf, CancelRequested, JobRow, JobStatus, Repair, Target, Terminal
  <2>3. overtaken' \in BOOLEAN /\ thrown' = thrown
    BY <1>6, WriteOverType DEF CancelJobWrite
  <2>. QED
    BY <1>6, <2>1, <2>2, <2>3, FlushType, LeaveType DEF CancelJobWrite, TypeOK
<1>7. ASSUME NEW c \in Callers, ResumeJobWrite(c)
      PROVE  TypeInv'
  <2>1. c \in Threads /\ thread[c].read \in JobRow
        /\ thread[c].seen \in [Items -> ItemStatus]
    BY DEF TypeOK, ThreadState, Threads
  <2>2. ResumeOf(thread[c].read) \in JobRow
    BY <2>1 DEF ResumeOf, JobRow, JobStatus
  <2>3. item' \in [Items -> ItemStatus]
    BY <1>7, <2>1 DEF ResumeJobWrite, Flushed, TypeOK, ItemStatus
  <2>4. PICK w \in Workers :
            thread' = [thread EXCEPT ![c] = Idle, ![w] = [@ EXCEPT !.pc = "start"]]
    BY <1>7 DEF ResumeJobWrite
  <2>5. w # c /\ w \in Threads
    BY WorkersAssumption DEF Threads
  <2>6. [thread[w] EXCEPT !.pc = "start"] \in ThreadState
    BY <2>5 DEF TypeOK, ThreadState, PC
  <2>7. thread' = [u \in Threads |->
                      IF u = w THEN [thread[w] EXCEPT !.pc = "start"]
                      ELSE IF u = c THEN Idle ELSE thread[u]]
    BY <2>1, <2>4, <2>5 DEF TypeOK
  <2>8. thread' \in [Threads -> ThreadState] /\ WantKnown'
    BY <2>6, <2>7, IdleType DEF TypeOK, WantKnown, Idle, ThreadState
  <2>9. overtaken' \in BOOLEAN /\ thrown' = thrown
    BY <1>7, WriteOverType DEF ResumeJobWrite
  <2>. QED
    BY <1>7, <2>1, <2>2, <2>3, <2>8, <2>9, FlushType DEF ResumeJobWrite, TypeOK
<1>8. CASE Crash
  <2>1. thread' \in [Threads -> ThreadState] /\ WantKnown'
    BY <1>8, IdleType DEF Crash, WantKnown, Idle
  <2>2. faults' \in 0..MaxFaults /\ promoting' \in BOOLEAN
    BY <1>8, FaultType DEF Crash
  <2>. QED  BY <1>8, <2>1, <2>2 DEF Crash, TypeOK
<1>9. CASE Lapse
  <2>1. faults' \in 0..MaxFaults /\ fresh' \in BOOLEAN
    BY <1>9, FaultType DEF Lapse, TypeOK
  <2>. QED  BY <1>9, <2>1, SameThreadType DEF Lapse, TypeOK
<1>. QED
  BY <1>1, <1>2, <1>3, <1>4, <1>5, <1>6, <1>7, <1>8, <1>9 DEF Write

LEMMA TypeStep == TypeInv /\ [Next]_vars => TypeInv'
<1>. SUFFICES ASSUME TypeInv, [Next]_vars PROVE TypeInv'
  OBVIOUS
<1>1. CASE UNCHANGED vars
  BY <1>1, SameThreadType DEF vars, aside, history, TypeInv, TypeOK
<1>2. CASE Next
  <2>1. CASE \E t \in Workers : Worker(t) \/ WorkerFailure(t) \/ ManifestFails(t)
    BY <2>1, WorkerType, CompletionType DEF Worker, Threads
  <2>2. CASE RepairStep \/ RepairFailure \/ ManifestFails(Repairer)
    BY <2>2, RepairType, CompletionType DEF RepairStep, Threads
  <2>. QED
    BY <1>2, <2>1, <2>2, OtherType DEF Next, Recovery, Failure
<1>. QED
  BY <1>1, <1>2

LEMMA InitType == Init => TypeInv
<1>. SUFFICES ASSUME Init PROVE TypeInv
  OBVIOUS
<1>1. AllPending \in [Items -> ItemStatus] /\ NoManifest \in ManifestDoc
  BY DEF AllPending, ItemStatus, NoManifest, ManifestDoc, Target
<1>2. thread \in [Threads -> ThreadState] /\ WantKnown
  BY IdleType DEF Init, WantKnown, Idle
<1>3. 0 \in 0..MaxFaults /\ 0 \in 0..MaxRequests
  BY BoundsAssumption
<1>. QED
  BY <1>1, <1>2, <1>3, IdleType DEF Init, TypeInv, TypeOK

\* Every state the job, its items and its threads reach is one the types allow,
\* and a completion never lacks the status it is to record.
THEOREM TypeCorrect == Spec => []TypeOK
BY InitType, TypeStep, PTL DEF Spec, TypeInv

-----------------------------------------------------------------------------
(* The claim *)

\* No two threads hold the same claim and none holds one that is still to come.
ClaimInv == \A t \in Threads :
    /\ thread[t].claim <= gen
    /\ \A u \in Threads : thread[t].claim = thread[u].claim /\ thread[t].claim # 0
                             => t = u

Kept(c, t) == c \in {0, thread[t].claim}
ClaimsKept == \A u \in Threads : Kept(thread'[u].claim, u)
ClaimTaken(t) ==
    /\ gen' = gen + 1
    /\ thread'[t].claim = gen + 1
    /\ \A u \in Threads \ {t} : thread'[u].claim = thread[u].claim

LEMMA BecomesKept ==
    ASSUME TypeOK, NEW t \in Threads, NEW row, Kept(row.claim, t), Becomes(t, row)
    PROVE  ClaimsKept
BY DEF TypeOK, Becomes, Kept, ClaimsKept

LEMMA GoKept ==
    ASSUME TypeOK, NEW t \in Threads, NEW label,
           Go(t, label) \/ (\E want : GoFor(t, label, want)) \/ Leave(t)
    PROVE  ClaimsKept
<1>1. thread[t] \in ThreadState
  BY DEF TypeOK
<1>2. Kept([thread[t] EXCEPT !.pc = label].claim, t) /\ Kept(Idle.claim, t)
  BY <1>1 DEF Kept, Idle, ThreadState
<1>3. ASSUME NEW want
      PROVE  Kept([thread[t] EXCEPT !.pc = label, !.want = want].claim, t)
  BY <1>1 DEF Kept, ThreadState
<1>. QED
  BY <1>2, <1>3, BecomesKept DEF Go, GoFor, Leave

LEMMA SameKept ==
    ASSUME UNCHANGED thread
    PROVE  ClaimsKept
BY DEF ClaimsKept, Kept

LEMMA StartKept ==
    ASSUME TypeOK, StartThread
    PROVE  ClaimsKept
<1>1. PICK w \in Workers : Go(w, "start")
  BY DEF StartThread
<1>. QED  BY <1>1, GoKept DEF Threads

\* A completion step neither takes a claim nor changes the generation.
LEMMA CompletionClaims ==
    ASSUME TypeOK, NEW t \in Threads, Completion(t) \/ ManifestFails(t)
    PROVE  ClaimsKept /\ gen' = gen
<1>1. thread[t] \in ThreadState
  BY DEF TypeOK
<1>2. CASE Audit(t)
  <2>. DEFINE row == [thread[t] EXCEPT !.pc = "manifest", !.seen = item,
                        !.want = IF @ = "none" THEN JobTerminalStatus ELSE @]
  <2>1. Kept(row.claim, t)
    BY <1>1 DEF Kept, ThreadState
  <2>2. Go(t, "defer") \/ Becomes(t, row) \/ Leave(t)
    BY <1>2 DEF Audit
  <2>3. gen' = gen
    BY <1>2 DEF Audit
  <2>. QED  BY <2>1, <2>2, <2>3, GoKept, BecomesKept
<1>3. CASE BeginManifest(t)
  <2>. DEFINE row == [thread[t] EXCEPT !.pc = "intent", !.seen = item,
                        !.blocked = CleanupPending, !.read = job]
  <2>1. Kept(row.claim, t)
    BY <1>1 DEF Kept, ThreadState
  <2>. QED  BY <1>3, <2>1, GoKept, BecomesKept DEF BeginManifest
<1>4. CASE BeginManifestFinalization(t)
  <2>. DEFINE final == EffectiveTarget(thread[t].read, thread[t].want)
              row == [thread[t] EXCEPT
                !.pc = IF thread[t].blocked THEN "defer" ELSE "publish",
                !.final = final, !.read = NewJob]
  <2>1. Kept(row.claim, t)
    BY <1>1 DEF Kept, ThreadState
  <2>2. Becomes(t, row) /\ gen' = gen
    BY <1>4 DEF BeginManifestFinalization
  <2>. QED  BY <2>1, <2>2, BecomesKept
<1>5. CASE PublishManifest(t) \/ FinishJob(t) \/ DeferManifestRepair(t)
  BY <1>5, GoKept DEF PublishManifest, FinishJob, DeferManifestRepair
<1>6. CASE ManifestFails(t)
  <2>1. Kept([thread[t] EXCEPT !.pc = "defer", !.read = NewJob].claim, t)
    BY <1>1 DEF Kept, ThreadState
  <2>. QED  BY <1>6, <2>1, BecomesKept DEF ManifestFails
<1>. QED
  BY <1>2, <1>3, <1>4, <1>5, <1>6 DEF Completion

\* Only ClaimJob and ClaimManifestRepairJob take a claim, and they take a new one.
LEMMA ClaimStep ==
    ASSUME TypeInv, Next
    PROVE  (ClaimsKept /\ gen' \in {gen, gen + 1}) \/ (\E t \in Threads : ClaimTaken(t))
<1>. USE DEF TypeInv, aside, history
<1>0. gen' = gen => gen' \in {gen, gen + 1}
  OBVIOUS
<1>1. ASSUME NEW t \in Workers, Worker(t) \/ WorkerFailure(t)
      PROVE  (ClaimsKept /\ gen' = gen) \/ ClaimTaken(t)
  <2>0. t \in Threads /\ thread[t] \in ThreadState
    BY DEF Threads, TypeOK
  <2>1. CASE ClaimJob(t)
    <3>1. CASE Claimable
      <4>1. [thread[t] EXCEPT !.pc = "next", !.claim = gen + 1].claim = gen + 1
        BY <2>0 DEF ThreadState
      <4>. QED
        BY <2>0, <2>1, <3>1, <4>1 DEF ClaimJob, Becomes, ClaimTaken, TypeOK
    <3>2. CASE ~Claimable
      BY <2>0, <2>1, <3>2, GoKept DEF ClaimJob
    <3>. QED  BY <3>1, <3>2
  <2>2. CASE NextItem(t)
    <3>1. ASSUME NEW i,
                 Becomes(t, [thread[t] EXCEPT !.pc = "claim", !.item = i])
          PROVE  ClaimsKept
      <4>1. Kept([thread[t] EXCEPT !.pc = "claim", !.item = i].claim, t)
        BY <2>0 DEF Kept, ThreadState
      <4>. QED  BY <2>0, <3>1, <4>1, BecomesKept
    <3>. QED  BY <2>0, <2>2, <3>1, GoKept DEF NextItem
  <2>3. CASE ClaimItem(t) \/ WorkerFailAll(t)
    BY <2>0, <2>3, GoKept DEF ClaimItem, WorkerFailAll
  <2>5. CASE WorkerFailure(t)
    <3>1. Kept([thread[t] EXCEPT !.pc = "fail", !.want = "failed",
                                 !.handling = TRUE].claim, t)
      BY <2>0 DEF Kept, ThreadState
    <3>. QED  BY <2>0, <2>5, <3>1, GoKept, BecomesKept DEF WorkerFailure
  <2>4. CASE ItemAction(t)
    <3>1. gen' = gen
      BY <2>4 DEF ItemAction, ItemStep, ItemProgress, ItemRetry, ItemComplete,
                  ItemFailed, ItemCanceled, ItemClaimLost
    <3>2. UNCHANGED thread \/ Go(t, "next") \/ GoFor(t, "fail", "canceled")
             \/ Leave(t)
      BY <2>4 DEF ItemAction, ItemProgress, ItemRetry, ItemComplete,
                  ItemFailed, ItemCanceled, ItemClaimLost
    <3>. QED  BY <2>0, <3>1, <3>2, GoKept, SameKept
  <2>. QED
    BY <1>1, <2>0, <2>1, <2>2, <2>3, <2>4, <2>5, CompletionClaims DEF Worker
<1>2. ASSUME RepairStep \/ RepairFailure
      PROVE  (ClaimsKept /\ gen' = gen) \/ ClaimTaken(Repairer)
  <2>0. Repairer \in Threads /\ thread[Repairer] \in ThreadState
    BY DEF Threads, TypeOK
  <2>1. CASE ClaimManifestRepairJob
    <3>1. [thread[Repairer] EXCEPT !.pc = "repairtarget", !.claim = gen + 1].claim
            = gen + 1
      BY <2>0 DEF ThreadState
    <3>. QED
      BY <2>0, <2>1, <3>1, GoKept
         DEF ClaimManifestRepairJob, Becomes, ClaimTaken, TypeOK
  <2>2. CASE \/ RepairScan \/ SetManifestRepairTarget \/ RepairAudit
             \/ RepairFailAll \/ RepairCheck
    BY <2>0, <2>2, GoKept
       DEF RepairScan, SetManifestRepairTarget, RepairAudit, RepairFailAll,
           RepairCheck
  <2>3. CASE RepairFailure
    <3>1. Kept([thread[Repairer] EXCEPT !.pc = "defer", !.handling = TRUE].claim,
               Repairer)
      BY <2>0 DEF Kept, ThreadState
    <3>. QED  BY <2>0, <2>3, <3>1, GoKept, BecomesKept DEF RepairFailure
  <2>. QED
    BY <1>2, <2>0, <2>1, <2>2, <2>3, CompletionClaims DEF RepairStep
<1>3. CASE \E t \in Threads : ManifestFails(t)
  BY <1>3, CompletionClaims
<1>4. CASE StartJob \/ PromoteCleanupReadyJobs
  BY <1>4, StartKept, SameKept DEF StartJob, PromoteCleanupReadyJobs
<1>5. CASE RecoverStaleJobs
  BY <1>5, StartKept, SameKept DEF RecoverStaleJobs
<1>6. CASE (\E i \in Items : CleanupPartItem(i)) \/ Lapse
  BY <1>6, SameKept DEF CleanupPartItem, Lapse
<1>7. CASE Crash
  BY <1>7 DEF Crash, ClaimsKept, Kept, Idle
<1>8. ASSUME NEW c \in Callers, CancelJob(c) \/ ResumeJob(c)
      PROVE  ClaimsKept /\ gen' = gen
  <2>1. ASSUME NEW label, Request(c, label)
        PROVE  ClaimsKept /\ gen' = gen
    <3>1. c \in Threads /\ thread[c] \in ThreadState
      BY DEF Threads, TypeOK
    <3>2. Kept([thread[c] EXCEPT !.pc = label, !.read = job, !.seen = item].claim, c)
      BY <3>1 DEF Kept, ThreadState
    <3>. QED  BY <2>1, <3>1, <3>2, BecomesKept DEF Request
  <2>. QED  BY <1>8, <2>1 DEF CancelJob, ResumeJob
<1>9. ASSUME NEW c \in Callers, Write(c)
      PROVE  ClaimsKept /\ gen' = gen
  <2>0. c \in Threads
    BY DEF Threads
  <2>1. CASE CancelJobWrite(c)
    BY <2>0, <2>1, GoKept DEF CancelJobWrite
  <2>2. CASE ResumeJobWrite(c)
    <3>1. PICK w \in Workers :
            thread' = [thread EXCEPT ![c] = Idle, ![w] = [@ EXCEPT !.pc = "start"]]
      BY <2>2 DEF ResumeJobWrite
    <3>2. w # c /\ w \in Threads
      BY WorkersAssumption DEF Threads
    <3>3. [thread[w] EXCEPT !.pc = "start"].claim = thread[w].claim
      BY <3>2 DEF TypeOK, ThreadState
    <3>. QED
      BY <2>0, <2>2, <3>1, <3>2, <3>3
         DEF ResumeJobWrite, ClaimsKept, Kept, Idle, TypeOK
  <2>. QED  BY <1>9, <2>1, <2>2 DEF Write
<1>. QED
  BY <1>0, <1>1, <1>2, <1>3, <1>4, <1>5, <1>6, <1>7, <1>8, <1>9
     DEF Next, Recovery, Failure, Threads

LEMMA ClaimInvStep ==
    ASSUME TypeInv, ClaimInv, [Next]_vars
    PROVE  ClaimInv'
<1>0. gen \in Nat /\ \A u \in Threads : thread[u].claim \in Nat
  BY DEF TypeInv, TypeOK, ThreadState
<1>1. CASE UNCHANGED vars
  BY <1>1 DEF vars, ClaimInv
<1>2. CASE ClaimsKept /\ gen' \in {gen, gen + 1}
  BY <1>0, <1>2 DEF ClaimInv, ClaimsKept, Kept
<1>3. ASSUME NEW t \in Threads, ClaimTaken(t)
      PROVE  ClaimInv'
  BY <1>0, <1>3 DEF ClaimInv, ClaimTaken
<1>. QED  BY <1>1, <1>2, <1>3, ClaimStep

\* At most one thread at a time passes the claim condition of an UPDATE, for any
\* number of workers and callers, stalls, crashes and takeovers.
THEOREM ClaimIsExclusive == Spec => []ExclusiveClaim
<1>1. Init => TypeInv /\ ClaimInv
  <2>1. ASSUME Init PROVE ClaimInv
    BY <2>1 DEF Init, ClaimInv, Idle
  <2>. QED  BY <2>1, InitType
<1>2. TypeInv /\ ClaimInv /\ [Next]_vars => (TypeInv /\ ClaimInv)'
  BY TypeStep, ClaimInvStep
<1>3. TypeInv /\ ClaimInv => ExclusiveClaim
  BY DEF ClaimInv, ExclusiveClaim, Holds
<1>. QED
  BY <1>1, <1>2, <1>3, PTL DEF Spec

-----------------------------------------------------------------------------
(* How a job is closed *)

\* A step that closes no job takes none off the repair path, and gives a job that
\* is closed already no claim, no cleanup and no other manifest.
StaysOpen ==
    /\ job.repair # "none" => job'.repair # "none"
    /\ job'.status \in Terminal =>
          /\ job'.status = job.status
          /\ job'.owner \in {0, job.owner}
          /\ manifest' = manifest
          /\ \A i \in Items : dirty'[i] => dirty[i]
Closes(t) ==
    /\ thread[t].pc = "finish"
    /\ CanFinish(t)
    /\ thread[t].want \in Terminal
    /\ job' = Finished(job, thread[t].want)
    /\ UNCHANGED <<manifest, item, dirty>>

\* A flushed row keeps its status or takes the assigned one, and so on.
LEMMA FlushOpen ==
    ASSUME TypeOK, NEW loaded \in JobRow, NEW assigned \in JobRow,
           assigned.status \in {loaded.status, "queued", "stale"},
           assigned.owner \in {0, loaded.owner},
           loaded.repair = assigned.repair \/ assigned.repair # "none",
           job' = Flush(loaded, assigned),
           UNCHANGED manifest, \A i \in Items : dirty'[i] => dirty[i]
    PROVE  StaysOpen
BY DEF TypeOK, Flush, Flushed, StaysOpen, JobRow, JobStatus, Terminal

\* A running job is not closed, so what its claim holder does to it is free.
LEMMA RunningOpen ==
    ASSUME TypeOK, job'.status \in {"running", "stale", "queued"},
           job'.repair = job.repair \/ job'.repair # "none"
    PROVE  StaysOpen
BY DEF StaysOpen, Terminal

LEMMA SameOpen ==
    ASSUME TypeOK, UNCHANGED <<job, manifest>>, \A i \in Items : dirty'[i] => dirty[i]
    PROVE  StaysOpen
BY DEF StaysOpen

\* _finish_job is the one step that closes a job.
LEMMA ClosingStep ==
    ASSUME TypeInv, Next
    PROVE  StaysOpen \/ (\E t \in Threads : Closes(t))
<1>. USE DEF TypeInv, aside, history
<1>0. job \in JobRow /\ \A t \in Threads : thread[t].read \in JobRow
  BY DEF TypeOK, ThreadState
<1>1. ASSUME NEW t \in Threads, Completion(t) \/ ManifestFails(t)
      PROVE  StaysOpen \/ Closes(t)
  <2>1. CASE FinishJob(t)
    <3>1. CASE CanFinish(t)
      BY <2>1, <3>1 DEF FinishJob, Closes, At, WantKnown
    <3>2. CASE ~CanFinish(t)
      BY <2>1, <3>2, SameOpen DEF FinishJob
    <3>. QED  BY <3>1, <3>2
  <2>2. CASE Audit(t) \/ BeginManifest(t)
    BY <2>2, SameOpen DEF Audit, BeginManifest
  <2>3. CASE BeginManifestFinalization(t)
    <3>. DEFINE loaded == thread[t].read
                final == EffectiveTarget(loaded, thread[t].want)
                assigned == [loaded EXCEPT
                  !.repair = IF @ = "none" THEN "pending" ELSE @, !.target = final]
    <3>1. final \in Target
      BY <2>3, CompletionRows DEF BeginManifestFinalization, WantKnown, Target, Terminal
    <3>2. job' = Flush(loaded, assigned) /\ UNCHANGED <<manifest, dirty>>
      BY <2>3 DEF BeginManifestFinalization
    <3>. HIDE DEF final
    <3>3. assigned \in JobRow /\ assigned.status = loaded.status
          /\ assigned.owner = loaded.owner /\ assigned.repair # "none"
      BY <1>0, <3>1 DEF JobRow, Repair
    <3>. QED  BY <1>0, <3>2, <3>3, FlushOpen
  <2>4. CASE PublishManifest(t)
    <3>1. CASE Holds(t)
      BY <2>4, <3>1, RunningOpen DEF PublishManifest, Holds
    <3>2. CASE ~Holds(t)
      BY <2>4, <3>2, SameOpen DEF PublishManifest
    <3>. QED  BY <3>1, <3>2
  <2>5. CASE ManifestFails(t)
    <3>1. CASE Holds(t)
      BY <1>0, <2>5, <3>1, RunningOpen
         DEF ManifestFails, ManifestWarning, Holds, JobRow
    <3>2. CASE ~Holds(t)
      BY <2>5, <3>2, SameOpen DEF ManifestFails
    <3>. QED  BY <3>1, <3>2
  <2>6. CASE DeferManifestRepair(t)
    <3>1. CASE Holds(t)
      <4>1. job'.status = "stale" /\ job'.repair = "pending"
        BY <1>0, <2>6, <3>1 DEF DeferManifestRepair, JobRow
      <4>. QED  BY <4>1, RunningOpen
    <3>2. CASE ~Holds(t)
      BY <2>6, <3>2, SameOpen DEF DeferManifestRepair
    <3>. QED  BY <3>1, <3>2
  <2>. QED
    BY <1>1, <2>1, <2>2, <2>3, <2>4, <2>5, <2>6 DEF Completion
<1>2. ASSUME NEW t \in Workers, Worker(t) \/ WorkerFailure(t), ~Completion(t)
      PROVE  StaysOpen
  <2>1. CASE ClaimJob(t)
    <3>1. CASE Claimable
      <4>1. job'.status = "running" /\ job'.repair = job.repair
        BY <1>0, <2>1, <3>1 DEF ClaimJob, JobRow
      <4>. QED  BY <4>1, RunningOpen
    <3>2. CASE ~Claimable
      BY <2>1, <3>2, SameOpen DEF ClaimJob
    <3>. QED  BY <3>1, <3>2
  <2>2. CASE NextItem(t) \/ ClaimItem(t) \/ ItemClaimLost(t) \/ WorkerFailure(t)
    BY <2>2, SameOpen DEF NextItem, ClaimItem, ItemClaimLost, WorkerFailure
  <2>3. CASE ItemAction(t) /\ ~ItemClaimLost(t)
    BY <2>3, RunningOpen
       DEF ItemAction, ItemProgress, ItemRetry, ItemComplete, ItemFailed,
           ItemCanceled, ItemStep, Holds
  <2>4. CASE WorkerFailAll(t)
    BY <2>4, RunningOpen, SameOpen DEF WorkerFailAll, Holds
  <2>. QED
    BY <1>2, <2>1, <2>2, <2>3, <2>4 DEF Worker
<1>3. ASSUME RepairStep \/ RepairFailure, ~Completion(Repairer)
      PROVE  StaysOpen
  <2>1. CASE RepairScan \/ RepairFailure
    BY <2>1, SameOpen DEF RepairScan, RepairFailure
  <2>2. CASE ClaimManifestRepairJob
    <3>1. CASE RepairWaits /\ ~CleanupPending
      <4>1. job'.status = "running" /\ job'.repair = "repairing"
        BY <1>0, <2>2, <3>1 DEF ClaimManifestRepairJob, JobRow
      <4>. QED  BY <4>1, RunningOpen
    <3>2. CASE ~(RepairWaits /\ ~CleanupPending)
      BY <2>2, <3>2, SameOpen DEF ClaimManifestRepairJob
    <3>. QED  BY <3>1, <3>2
  <2>3. CASE /\ SetManifestRepairTarget \/ RepairAudit \/ RepairCheck
             /\ Repairing
    <3>1. job'.status = "running" /\ job'.repair = job.repair
      BY <1>0, <2>3
         DEF SetManifestRepairTarget, RepairAudit, RepairCheck, Repairing, Holds, JobRow
    <3>. QED  BY <3>1, RunningOpen
  <2>4. CASE /\ SetManifestRepairTarget \/ RepairAudit \/ RepairCheck
             /\ ~Repairing
    BY <2>4, SameOpen DEF SetManifestRepairTarget, RepairAudit, RepairCheck
  <2>5. CASE RepairFailAll
    BY <2>5, RunningOpen, SameOpen DEF RepairFailAll, Holds
  <2>. QED
    BY <1>3, <2>1, <2>2, <2>3, <2>4, <2>5 DEF RepairStep
<1>4. CASE RecoverStaleJobs
  <2>1. /\ job'.status \in {"stale", "queued"}
        /\ job'.repair = job.repair \/ job'.repair = "pending"
    BY <1>0, <1>4 DEF RecoverStaleJobs, RecoveredRepair, JobRow
  <2>. QED  BY <2>1, RunningOpen
<1>5. CASE PromoteCleanupReadyJobs
  <2>1. \/ UNCHANGED job
        \/ job'.status = "queued" /\ job'.repair = job.repair
    BY <1>0, <1>5 DEF PromoteCleanupReadyJobs, JobRow
  <2>. QED  BY <1>5, <2>1, RunningOpen, SameOpen DEF PromoteCleanupReadyJobs
<1>6. CASE StartJob \/ Crash \/ Lapse
  BY <1>6, SameOpen DEF StartJob, Crash, Lapse
<1>7. ASSUME NEW i \in Items, CleanupPartItem(i)
      PROVE  StaysOpen
  BY <1>7, SameOpen DEF CleanupPartItem, TypeOK
<1>8. ASSUME NEW c \in Callers, CancelJob(c) \/ ResumeJob(c)
      PROVE  StaysOpen
  BY <1>8, SameOpen DEF CancelJob, ResumeJob, Request
<1>9. ASSUME NEW c \in Callers, CancelJobWrite(c)
      PROVE  StaysOpen
  <2>. DEFINE loaded == thread[c].read  assigned == CancelOf(loaded)
  <2>1. loaded \in JobRow
    BY <1>0 DEF Threads
  <2>. HIDE DEF loaded
  <2>2. assigned \in JobRow /\ assigned.status \in {loaded.status, "stale"}
        /\ assigned.owner \in {0, loaded.owner}
        /\ (loaded.repair = assigned.repair \/ assigned.repair # "none")
    BY <2>1 DEF CancelOf, CancelRequested, JobRow, JobStatus, Repair, Target, Terminal
  <2>3. job' = Flush(loaded, assigned) /\ UNCHANGED <<manifest, dirty>>
    BY <1>9 DEF CancelJobWrite, loaded
  <2>. QED  BY <2>1, <2>2, <2>3, FlushOpen
<1>10. ASSUME NEW c \in Callers, ResumeJobWrite(c)
       PROVE  StaysOpen
  <2>. DEFINE loaded == thread[c].read  assigned == ResumeOf(loaded)
  <2>1. loaded \in JobRow
    BY <1>0 DEF Threads
  <2>. HIDE DEF loaded
  <2>2. assigned \in JobRow /\ assigned.status = "queued" /\ assigned.owner = 0
        /\ loaded.repair = assigned.repair
    BY <2>1 DEF ResumeOf, JobRow, JobStatus
  <2>3. job' = Flush(loaded, assigned) /\ UNCHANGED <<manifest, dirty>>
    BY <1>10 DEF ResumeJobWrite, loaded
  <2>. QED  BY <2>1, <2>2, <2>3, FlushOpen
<1>. QED
  BY <1>1, <1>2, <1>3, <1>4, <1>5, <1>6, <1>7, <1>8, <1>9, <1>10
     DEF Next, Recovery, Failure, Write, Worker, RepairStep, Threads

LEMMA FinishedRow ==
    ASSUME TypeOK, NEW t \in Threads, Closes(t)
    PROVE  /\ job'.status = thread[t].want /\ job'.status \in Terminal
           /\ job'.owner = 0 /\ job'.repair = "none"
BY DEF TypeOK, Closes, Finished, JobRow

\* A closed job has no claim and no cleanup left and names a manifest, however the
\* flushes interleave.
THEOREM TerminalIsSettled == Spec => []TerminalSettled
<1>1. Init => TypeInv /\ TerminalSettled
  BY InitType DEF Init, TerminalSettled, NewJob, Terminal
<1>2. TypeInv /\ TerminalSettled /\ [Next]_vars => (TypeInv /\ TerminalSettled)'
  <2>. SUFFICES ASSUME TypeInv, TerminalSettled, [Next]_vars PROVE TerminalSettled'
    BY TypeStep
  <2>1. CASE UNCHANGED vars
    BY <2>1 DEF vars, TerminalSettled, CleanupPending
  <2>2. CASE StaysOpen
    BY <2>2 DEF StaysOpen, TerminalSettled, CleanupPending
  <2>3. ASSUME NEW t \in Threads, Closes(t)
        PROVE  TerminalSettled'
    <3>1. job'.owner = 0
      BY <2>3, FinishedRow DEF TypeInv
    <3>2. manifest'.status # "none" /\ ~CleanupPending'
      BY <2>3 DEF Closes, CanFinish, CleanupPending
    <3>. QED  BY <3>1, <3>2 DEF TerminalSettled
  <2>. QED  BY <2>1, <2>2, <2>3, ClosingStep
<1>. QED
  BY <1>1, <1>2, PTL DEF Spec

\* A job whose cancellation is on record is closed as CANCELED or not at all.
THEOREM CancellationWins == Spec => CancelWins
<1>. DEFINE Wins == job.cancel /\ job.status \notin Terminal /\ job'.status \in Terminal
                      => job'.status = "canceled"
<1>1. TypeInv /\ [Next]_vars => [Wins]_vars
  <2>. SUFFICES ASSUME TypeInv, Next PROVE Wins
    OBVIOUS
  <2>1. CASE StaysOpen
    BY <2>1 DEF StaysOpen
  <2>2. ASSUME NEW t \in Threads, Closes(t)
        PROVE  Wins
    BY <2>2, FinishedRow DEF TypeInv, Closes, CanFinish
  <2>. QED  BY <2>1, <2>2, ClosingStep
<1>. QED
  BY <1>1, InitType, TypeStep, PTL DEF Spec, CancelWins

\* A job leaves the repair path only by being closed.
THEOREM RepairIsNeverRequeued == Spec => RepairNeverRequeued
<1>. DEFINE Stays == job.repair # "none" /\ job'.repair = "none"
                        => job'.status \in Terminal
<1>1. TypeInv /\ [Next]_vars => [Stays]_vars
  <2>. SUFFICES ASSUME TypeInv, Next PROVE Stays
    OBVIOUS
  <2>1. CASE StaysOpen
    BY <2>1 DEF StaysOpen
  <2>2. ASSUME NEW t \in Threads, Closes(t)
        PROVE  Stays
    BY <2>2, FinishedRow DEF TypeInv
  <2>. QED  BY <2>1, <2>2, ClosingStep
<1>. QED
  BY <1>1, InitType, TypeStep, PTL DEF Spec, RepairNeverRequeued

-----------------------------------------------------------------------------
(* What a flush is computed from *)

WindowPC == {"cancel", "resume", "intent"}

\* None of these threads reads the row for a flush.
NoEntry(S) == \A u \in S : thread'[u].pc \in WindowPC => thread'[u] = thread[u]

\* The SELECT before a flush.
Enters(t) == \/ BeginManifest(t)
             \/ t \in Callers /\ (CancelJob(t) \/ ResumeJob(t))

LEMMA BecomesEntry ==
    ASSUME TypeOK, NEW t \in Threads, NEW row, Becomes(t, row)
    PROVE  /\ thread'[t] = row
           /\ NoEntry(Threads \ {t})
           /\ row.pc \notin WindowPC => NoEntry(Threads)
BY DEF TypeOK, Becomes, NoEntry

LEMMA GoEntry ==
    ASSUME TypeOK, NEW t \in Threads, NEW label, label \notin WindowPC,
           \/ Go(t, label) \/ (\E want : GoFor(t, label, want)) \/ Leave(t)
    PROVE  NoEntry(Threads)
<1>1. thread[t] \in ThreadState
  BY DEF TypeOK
<1>2. /\ [thread[t] EXCEPT !.pc = label].pc \notin WindowPC
      /\ Idle.pc \notin WindowPC
  BY <1>1 DEF Idle, ThreadState, WindowPC
<1>3. ASSUME NEW want
      PROVE  [thread[t] EXCEPT !.pc = label, !.want = want].pc \notin WindowPC
  BY <1>1 DEF ThreadState
<1>. QED
  BY <1>2, <1>3, BecomesEntry DEF Go, GoFor, Leave

LEMMA StartEntry ==
    ASSUME TypeOK, UNCHANGED thread \/ StartThread
    PROVE  NoEntry(Threads)
<1>1. CASE UNCHANGED thread
  BY <1>1 DEF NoEntry
<1>2. CASE StartThread
  <2>1. PICK w \in Workers : Go(w, "start")
    BY <1>2 DEF StartThread
  <2>. QED  BY <2>1, GoEntry DEF Threads, WindowPC
<1>. QED  BY <1>1, <1>2

\* A thread gets between a SELECT and its flush by that SELECT only.
LEMMA WindowStep ==
    ASSUME TypeInv, Next
    PROVE  \/ NoEntry(Threads)
           \/ \E t \in Threads : Enters(t) /\ NoEntry(Threads \ {t})
<1>. USE DEF TypeInv, aside, history
<1>0. \A t \in Threads : thread[t] \in ThreadState
  BY DEF TypeOK
<1>1. ASSUME NEW t \in Threads, Completion(t) \/ ManifestFails(t)
      PROVE  NoEntry(Threads) \/ (Enters(t) /\ NoEntry(Threads \ {t}))
  <2>1. CASE Audit(t)
    <3>. DEFINE row == [thread[t] EXCEPT !.pc = "manifest", !.seen = item,
                          !.want = IF @ = "none" THEN JobTerminalStatus ELSE @]
    <3>1. row.pc \notin WindowPC
      BY <1>0 DEF ThreadState, WindowPC
    <3>2. Go(t, "defer") \/ Becomes(t, row) \/ Leave(t)
      BY <2>1 DEF Audit
    <3>. HIDE DEF row
    <3>. QED  BY <3>1, <3>2, GoEntry, BecomesEntry DEF WindowPC
  <2>2. CASE BeginManifest(t)
    <3>1. NoEntry(Threads \ {t})
      BY <2>2, BecomesEntry DEF BeginManifest, Leave
    <3>. QED  BY <2>2, <3>1 DEF Enters
  <2>3. CASE BeginManifestFinalization(t)
    <3>. DEFINE final == EffectiveTarget(thread[t].read, thread[t].want)
                row == [thread[t] EXCEPT
                  !.pc = IF thread[t].blocked THEN "defer" ELSE "publish",
                  !.final = final, !.read = NewJob]
    <3>1. row.pc \in {"defer", "publish"}
      BY <1>0 DEF ThreadState
    <3>2. Becomes(t, row)
      BY <2>3 DEF BeginManifestFinalization
    <3>. HIDE DEF row
    <3>. QED  BY <3>1, <3>2, BecomesEntry DEF WindowPC
  <2>4. CASE PublishManifest(t) \/ FinishJob(t) \/ DeferManifestRepair(t)
    BY <2>4, GoEntry
       DEF PublishManifest, FinishJob, DeferManifestRepair, WindowPC
  <2>5. CASE ManifestFails(t)
    <3>1. [thread[t] EXCEPT !.pc = "defer", !.read = NewJob].pc \notin WindowPC
      BY <1>0 DEF ThreadState, WindowPC
    <3>. QED  BY <2>5, <3>1, BecomesEntry DEF ManifestFails
  <2>. QED  BY <1>1, <2>1, <2>2, <2>3, <2>4, <2>5 DEF Completion
<1>2. ASSUME NEW t \in Workers, Worker(t) \/ WorkerFailure(t), ~Completion(t)
      PROVE  NoEntry(Threads)
  <2>0. t \in Threads
    BY DEF Threads
  <2>1. CASE ClaimJob(t)
    <3>1. [thread[t] EXCEPT !.pc = "next", !.claim = gen + 1].pc \notin WindowPC
      BY <1>0, <2>0 DEF ThreadState, WindowPC
    <3>. QED  BY <2>0, <2>1, <3>1, GoEntry, BecomesEntry DEF ClaimJob, WindowPC
  <2>2. CASE NextItem(t)
    <3>1. ASSUME NEW i,
                 Becomes(t, [thread[t] EXCEPT !.pc = "claim", !.item = i])
          PROVE  NoEntry(Threads)
      <4>1. [thread[t] EXCEPT !.pc = "claim", !.item = i].pc \notin WindowPC
        BY <1>0, <2>0 DEF ThreadState, WindowPC
      <4>. QED  BY <2>0, <3>1, <4>1, BecomesEntry
    <3>2. \/ Go(t, "audit") \/ GoFor(t, "fail", "canceled")
          \/ \E i : Becomes(t, [thread[t] EXCEPT !.pc = "claim", !.item = i])
      BY <2>2 DEF NextItem
    <3>3. Go(t, "audit") \/ GoFor(t, "fail", "canceled") => NoEntry(Threads)
      BY <2>0, GoEntry DEF WindowPC
    <3>. QED  BY <3>1, <3>2, <3>3
  <2>3. CASE ClaimItem(t) \/ WorkerFailAll(t)
    BY <2>0, <2>3, GoEntry DEF ClaimItem, WorkerFailAll, WindowPC
  <2>5. CASE WorkerFailure(t)
    <3>1. [thread[t] EXCEPT !.pc = "fail", !.want = "failed",
                            !.handling = TRUE].pc \notin WindowPC
      BY <1>0, <2>0 DEF ThreadState, WindowPC
    <3>2. Go(t, "defer") \/ Leave(t) => NoEntry(Threads)
      BY <2>0, GoEntry DEF WindowPC
    <3>. QED  BY <2>0, <2>5, <3>1, <3>2, BecomesEntry DEF WorkerFailure
  <2>4. CASE ItemAction(t)
    <3>2. UNCHANGED thread \/ Go(t, "next") \/ GoFor(t, "fail", "canceled")
             \/ Leave(t)
      BY <2>4 DEF ItemAction, ItemProgress, ItemRetry, ItemComplete,
                  ItemFailed, ItemCanceled, ItemClaimLost
    <3>. QED  BY <2>0, <3>2, GoEntry, StartEntry DEF WindowPC
  <2>. QED  BY <1>2, <2>1, <2>2, <2>3, <2>4, <2>5 DEF Worker
<1>3. ASSUME RepairStep \/ RepairFailure, ~Completion(Repairer)
      PROVE  NoEntry(Threads)
  <2>0. Repairer \in Threads /\ thread[Repairer] \in ThreadState
    BY DEF Threads, TypeOK
  <2>1. CASE ClaimManifestRepairJob
    <3>1. [thread[Repairer] EXCEPT !.pc = "repairtarget",
                                   !.claim = gen + 1].pc \notin WindowPC
      BY <2>0 DEF ThreadState, WindowPC
    <3>. QED
      BY <2>0, <2>1, <3>1, GoEntry, BecomesEntry
         DEF ClaimManifestRepairJob, WindowPC
  <2>2. CASE \/ RepairScan \/ SetManifestRepairTarget \/ RepairAudit
             \/ RepairFailAll \/ RepairCheck
    BY <2>0, <2>2, GoEntry
       DEF RepairScan, SetManifestRepairTarget, RepairAudit, RepairFailAll,
           RepairCheck, WindowPC
  <2>3. CASE RepairFailure
    <3>1. [thread[Repairer] EXCEPT !.pc = "defer", !.handling = TRUE].pc
             \notin WindowPC
      BY <2>0 DEF ThreadState, WindowPC
    <3>. QED  BY <2>0, <2>3, <3>1, GoEntry, BecomesEntry DEF RepairFailure, WindowPC
  <2>. QED  BY <1>3, <2>1, <2>2, <2>3 DEF RepairStep
<1>4. CASE StartJob \/ PromoteCleanupReadyJobs \/ RecoverStaleJobs
  BY <1>4, StartEntry DEF StartJob, PromoteCleanupReadyJobs, RecoverStaleJobs
<1>5. CASE (\E i \in Items : CleanupPartItem(i)) \/ Lapse
  BY <1>5, StartEntry DEF CleanupPartItem, Lapse
<1>6. CASE Crash
  BY <1>6 DEF Crash, NoEntry, WindowPC, Idle
<1>7. ASSUME NEW c \in Callers, CancelJob(c) \/ ResumeJob(c)
      PROVE  c \in Threads /\ Enters(c) /\ NoEntry(Threads \ {c})
  <2>1. c \in Threads
    BY DEF Threads
  <2>2. PICK label : Request(c, label)
    BY <1>7 DEF CancelJob, ResumeJob
  <2>. QED  BY <1>7, <2>1, <2>2, BecomesEntry DEF Request, Enters
<1>8. ASSUME NEW c \in Callers, Write(c)
      PROVE  NoEntry(Threads)
  <2>1. c \in Threads /\ Idle.pc \notin WindowPC
    BY DEF Threads, Idle, WindowPC
  <2>2. CASE CancelJobWrite(c)
    BY <2>1, <2>2, BecomesEntry DEF CancelJobWrite, Leave
  <2>3. CASE ResumeJobWrite(c)
    <3>1. PICK w \in Workers :
            thread' = [thread EXCEPT ![c] = Idle, ![w] = [@ EXCEPT !.pc = "start"]]
      BY <2>3 DEF ResumeJobWrite
    <3>2. w # c /\ w \in Threads
      BY WorkersAssumption DEF Threads
    <3>3. [thread[w] EXCEPT !.pc = "start"].pc \notin WindowPC
      BY <1>0, <3>2 DEF ThreadState, WindowPC
    <3>. QED  BY <2>1, <3>1, <3>2, <3>3 DEF NoEntry, TypeOK
  <2>. QED  BY <1>8, <2>2, <2>3 DEF Write
<1>9. \A t \in Workers : t \in Threads
  BY DEF Threads
<1>. QED
  BY <1>1, <1>2, <1>3, <1>4, <1>5, <1>6, <1>7, <1>8, <1>9
     DEF Next, Recovery, Failure, Worker, RepairStep, Threads

\* A thread that gets there has read the row as it stands.
LEMMA SelectStep ==
    ASSUME TypeInv, Next, NEW u \in Threads, thread'[u].pc \in WindowPC,
           thread'[u] # thread[u]
    PROVE  /\ UNCHANGED <<job, gen, item, history>>
           /\ thread'[u].read = job
           /\ thread'[u].pc = "resume" =>
                 job.repair = "none" /\ job.status \notin {"queued", "running"}
           /\ thread'[u].pc = "intent" =>
                 job.status = "running" /\ job.owner = thread'[u].claim
<1>. USE DEF TypeInv, aside, history
<1>0. thread[u] \in ThreadState /\ u \in DOMAIN thread
  BY DEF TypeOK
<1>1. Enters(u)
  BY WindowStep DEF NoEntry
<1>2. CASE BeginManifest(u)
  <2>. DEFINE row == [thread[u] EXCEPT !.pc = "intent", !.seen = item,
                        !.blocked = CleanupPending, !.read = job]
  <2>1. row.pc = "intent" /\ row.read = job /\ row.claim = thread[u].claim
    BY <1>0 DEF ThreadState
  <2>2. Idle.pc \notin WindowPC
    BY DEF Idle, WindowPC
  <2>3. (Becomes(u, row) /\ Holds(u)) \/ Becomes(u, Idle)
    BY <1>2 DEF BeginManifest, Leave
  <2>. HIDE DEF row
  <2>4. thread'[u] = row /\ Holds(u)
    BY <2>2, <2>3, BecomesEntry
  <2>. QED  BY <1>2, <2>1, <2>4 DEF BeginManifest, Holds
<1>3. ASSUME NEW label, Request(u, label), label = "resume" => ResumeJob(u),
             label # "intent"
      PROVE  /\ UNCHANGED <<job, gen, item, history>>
             /\ thread'[u].read = job /\ thread'[u].pc # "intent"
             /\ thread'[u].pc = "resume" =>
                   job.repair = "none" /\ job.status \notin {"queued", "running"}
  <2>1. thread'[u].read = job /\ thread'[u].pc = label
    BY <1>0, <1>3 DEF Request, Becomes, ThreadState
  <2>2. label = "resume" =>
            job.repair = "none" /\ job.status \notin {"queued", "running"}
    BY <1>3 DEF ResumeJob
  <2>. QED  BY <1>3, <2>1, <2>2 DEF Request
<1>4. CASE CancelJob(u) \/ ResumeJob(u)
  BY <1>3, <1>4 DEF CancelJob, ResumeJob
<1>. QED  BY <1>1, <1>2, <1>4 DEF Enters

\* A flush over a row that had moved on and an exception of a finish stay on record.
LEMMA HistoryStep ==
    ASSUME TypeInv, [Next]_vars
    PROVE  (overtaken => overtaken') /\ (thrown => thrown')
<1>. USE DEF aside, history
<1>0. ASSUME NEW t, WriteOver(t)
      PROVE  (overtaken => overtaken') /\ (thrown => thrown')
  BY <1>0, Zenon DEF WriteOver
<1>1. ASSUME NEW t, Completion(t) \/ ManifestFails(t)
      PROVE  UNCHANGED history \/ WriteOver(t)
  BY <1>1
     DEF Completion, Audit, BeginManifest, BeginManifestFinalization,
         PublishManifest, FinishJob, DeferManifestRepair, ManifestFails
<1>2. ASSUME NEW t, Worker(t), ~Completion(t)
      PROVE  UNCHANGED history
  BY <1>2
     DEF Worker, ClaimJob, NextItem, ClaimItem, ItemAction, ItemProgress,
         ItemRetry, ItemComplete, ItemFailed, ItemCanceled, ItemClaimLost,
         ItemStep, WorkerFailAll
<1>3. ASSUME RepairStep \/ RepairFailure, ~Completion(Repairer)
      PROVE  UNCHANGED history
  BY <1>3
     DEF RepairStep, RepairFailure, RepairScan, ClaimManifestRepairJob,
         SetManifestRepairTarget, RepairAudit, RepairFailAll, RepairCheck
<1>4. CASE StartJob \/ Recovery \/ Crash \/ Lapse \/ UNCHANGED vars
  <2>1. UNCHANGED history
    BY <1>4
       DEF StartJob, Recovery, RecoverStaleJobs, PromoteCleanupReadyJobs,
           CleanupPartItem, Crash, Lapse, vars
  <2>. QED  BY <2>1
<1>5. ASSUME NEW c, CancelJob(c) \/ ResumeJob(c) \/ Write(c)
      PROVE  UNCHANGED history \/ WriteOver(c)
  BY <1>5
     DEF CancelJob, ResumeJob, Request, Write, CancelJobWrite, ResumeJobWrite
<1>6. ASSUME NEW t, WorkerFailure(t)
      PROVE  (overtaken => overtaken') /\ (thrown => thrown')
  <2>1. thrown' = (thrown \/ thread[t].pc = "finish") /\ overtaken' = overtaken
    BY <1>6 DEF WorkerFailure
  <2>. QED  BY <2>1, Zenon
<1>7. UNCHANGED history => (overtaken => overtaken') /\ (thrown => thrown')
  OBVIOUS
<1>. QED
  BY <1>0, <1>1, <1>2, <1>3, <1>4, <1>5, <1>6, <1>7
     DEF Next, Failure, Worker, RepairStep

-----------------------------------------------------------------------------
(* The lease *)

\* A claim is on record exactly while the job runs.
Claimed == job.owner # 0 <=> job.status = "running"

\* What held of the row when a flush was computed from it: resume_job saw no claim
\* and no repair, a completion saw its own claim.
RowRead == \A t \in Threads :
    /\ thread[t].pc \in WindowPC => thread[t].read.owner <= gen
    /\ thread[t].pc = "resume" =>
          /\ thread[t].read.repair = "none"
          /\ thread[t].read.status \notin {"queued", "running"}
    /\ thread[t].pc = "intent" =>
          /\ thread[t].read.status = "running"
          /\ thread[t].read.owner = thread[t].claim

\* The claim on record is that of the last generation, if any.
Owned == job.owner \in {0, gen}

RowInv == TypeInv /\ RowRead /\ Owned /\ (overtaken \/ Claimed)

LeaseMove == \/ Lease!Next
             \/ overtaken' /\ Lease!Overwrite
             \/ UNCHANGED <<Phase, job.owner, gen>>

\* A step that leaves status, owner and generation alone is none of the lease's.
LEMMA LeaseSame ==
    ASSUME UNCHANGED <<job, gen>>
    PROVE  LeaseMove
BY DEF LeaseMove, Phase

LEMMA LeaseKept ==
    ASSUME job'.status = job.status, job'.owner = job.owner, gen' = gen
    PROVE  LeaseMove
BY DEF LeaseMove, Phase

\* The holder of the claim, and nobody else, finishes or defers the job.
LEMMA CompletionLease ==
    ASSUME RowInv, NEW t \in Threads, Completion(t) \/ ManifestFails(t)
    PROVE  LeaseMove
<1>. USE DEF RowInv, TypeInv, aside, history
<1>0. job \in JobRow /\ thread[t].read \in JobRow /\ gen' = gen
  BY CompletionClaims DEF TypeOK, ThreadState
<1>1. CASE Audit(t) \/ BeginManifest(t) \/ PublishManifest(t)
  BY <1>1, LeaseSame DEF Audit, BeginManifest, PublishManifest
<1>2. CASE BeginManifestFinalization(t)
  <2>. DEFINE loaded == thread[t].read
              final == EffectiveTarget(loaded, thread[t].want)
              assigned == [loaded EXCEPT
                !.repair = IF @ = "none" THEN "pending" ELSE @, !.target = final]
  <2>1. job' = Flush(loaded, assigned)
    BY <1>2 DEF BeginManifestFinalization
  <2>2. assigned.status = loaded.status /\ assigned.owner = loaded.owner
    BY <1>0 DEF JobRow
  <2>. HIDE DEF assigned
  <2>3. job'.status = job.status /\ job'.owner = job.owner
    BY <2>1, <2>2 DEF Flush, Flushed
  <2>. QED  BY <1>0, <2>3, LeaseKept
<1>3. CASE ManifestFails(t)
  <2>1. job'.status = job.status /\ job'.owner = job.owner
    BY <1>0, <1>3 DEF ManifestFails, ManifestWarning, JobRow
  <2>. QED  BY <1>0, <2>1, LeaseKept
<1>4. CASE FinishJob(t)
  <2>1. CASE CanFinish(t)
    <3>1. thread[t].want \in Terminal
      BY <1>4 DEF FinishJob, At, WantKnown
    <3>2. job'.status = thread[t].want /\ job'.owner = 0
      BY <1>0, <1>4, <2>1 DEF FinishJob, Finished, JobRow
    <3>3. job.status = "running"
      BY <2>1 DEF CanFinish, Holds
    <3>4. Lease!Close
      BY <1>0, <3>1, <3>2, <3>3 DEF Lease!Close, Phase, Terminal
    <3>. QED  BY <3>4 DEF LeaseMove, Lease!Next
  <2>2. CASE ~CanFinish(t)
    BY <1>4, <2>2, LeaseSame DEF FinishJob
  <2>. QED  BY <2>1, <2>2
<1>5. CASE DeferManifestRepair(t)
  <2>1. CASE Holds(t)
    <3>1. job'.status = "stale" /\ job'.owner = 0 /\ job.status = "running"
      BY <1>0, <1>5, <2>1 DEF DeferManifestRepair, Holds, JobRow
    <3>2. Lease!Defer
      BY <1>0, <3>1 DEF Lease!Defer, Phase
    <3>. QED  BY <3>2 DEF LeaseMove, Lease!Next
  <2>2. CASE ~Holds(t)
    BY <1>5, <2>2, LeaseSame DEF DeferManifestRepair
  <2>. QED  BY <2>1, <2>2
<1>. QED
  BY <1>1, <1>2, <1>3, <1>4, <1>5 DEF Completion

\* As long as no flush has written over a row that had moved on, what is flushed was
\* computed from the row as it stands.
LEMMA Unmoved ==
    ASSUME RowInv, NEW t, WriteOver(t), ~overtaken'
    PROVE  ~MovedOn(t) /\ Claimed /\ ~overtaken
<1>1. ~MovedOn(t) /\ ~overtaken
  BY Zenon DEF WriteOver
<1>. QED  BY <1>1 DEF RowInv

\* Every step of the job is a step of the lease or leaves it alone.
LEMMA LeaseStep ==
    ASSUME RowInv, Next
    PROVE  LeaseMove
<1>. USE DEF RowInv, TypeInv, aside, history
<1>0. job \in JobRow /\ gen \in Nat /\ gen + 1 # 0
  BY DEF TypeOK
<1>1. ASSUME NEW t \in Workers, Worker(t) \/ WorkerFailure(t), ~Completion(t)
      PROVE  LeaseMove
  <2>1. CASE ClaimJob(t)
    <3>1. CASE Claimable
      <4>1. /\ job'.status = "running" /\ job'.owner = gen + 1 /\ gen' = gen + 1
            /\ job.status \in {"queued", "stale"}
        BY <1>0, <2>1, <3>1 DEF ClaimJob, Claimable, JobRow
      <4>2. Lease!Claim
        BY <4>1 DEF Lease!Claim, Phase
      <4>. QED  BY <4>2 DEF LeaseMove, Lease!Next
    <3>2. CASE ~Claimable
      BY <2>1, <3>2, LeaseSame DEF ClaimJob
    <3>. QED  BY <3>1, <3>2
  <2>2. CASE NextItem(t) \/ ClaimItem(t) \/ WorkerFailure(t) \/ WorkerFailAll(t)
    BY <2>2, LeaseSame DEF NextItem, ClaimItem, WorkerFailure, WorkerFailAll
  <2>3. CASE ItemAction(t)
    BY <2>3, LeaseSame
       DEF ItemAction, ItemProgress, ItemRetry, ItemComplete, ItemFailed,
           ItemCanceled, ItemClaimLost, ItemStep
  <2>. QED  BY <1>1, <2>1, <2>2, <2>3 DEF Worker
<1>2. ASSUME RepairStep \/ RepairFailure, ~Completion(Repairer)
      PROVE  LeaseMove
  <2>1. CASE ClaimManifestRepairJob
    <3>1. CASE RepairWaits /\ ~CleanupPending
      <4>1. /\ job'.status = "running" /\ job'.owner = gen + 1 /\ gen' = gen + 1
            /\ job.status = "stale"
        BY <1>0, <2>1, <3>1 DEF ClaimManifestRepairJob, RepairWaits, JobRow
      <4>2. Lease!Claim
        BY <4>1 DEF Lease!Claim, Phase
      <4>. QED  BY <4>2 DEF LeaseMove, Lease!Next
    <3>2. CASE ~(RepairWaits /\ ~CleanupPending)
      BY <2>1, <3>2, LeaseSame DEF ClaimManifestRepairJob
    <3>. QED  BY <3>1, <3>2
  <2>2. CASE RepairScan \/ RepairFailAll \/ RepairFailure
    BY <2>2, LeaseSame DEF RepairScan, RepairFailAll, RepairFailure
  <2>3. CASE SetManifestRepairTarget \/ RepairAudit \/ RepairCheck
    <3>1. job'.status = job.status /\ job'.owner = job.owner /\ gen' = gen
      BY <1>0, <2>3 DEF SetManifestRepairTarget, RepairAudit, RepairCheck, JobRow
    <3>. QED  BY <3>1, LeaseKept
  <2>. QED  BY <1>2, <2>1, <2>2, <2>3 DEF RepairStep
<1>3. CASE RecoverStaleJobs
  <2>1. /\ job'.status \in {"stale", "queued"} /\ job'.owner = 0
        /\ gen' = gen + 1 /\ job.status = "running"
    BY <1>0, <1>3 DEF RecoverStaleJobs, RecoveredRepair, Stale, JobRow
  <2>2. Lease!TakeOver
    BY <2>1 DEF Lease!TakeOver, Phase
  <2>. QED  BY <2>2 DEF LeaseMove, Lease!Next
<1>4. CASE PromoteCleanupReadyJobs
  <2>1. CASE job.status = "stale" /\ job.repair = "none" /\ ~CleanupPending
    <3>1. /\ job'.status = "queued" /\ job'.owner = 0
          /\ gen' = gen /\ job.status = "stale"
      BY <1>0, <1>4, <2>1 DEF PromoteCleanupReadyJobs, JobRow
    <3>2. CASE job.owner = 0
      BY <3>1, <3>2 DEF LeaseMove, Phase
    <3>3. CASE job.owner # 0
      <4>1. overtaken
        BY <2>1, <3>3 DEF Claimed
      <4>2. overtaken' /\ Lease!Overwrite
        BY <4>1, <3>1, HistoryStep DEF Lease!Overwrite, Phase
      <4>. QED  BY <4>2 DEF LeaseMove
    <3>. QED  BY <3>2, <3>3
  <2>2. CASE ~(job.status = "stale" /\ job.repair = "none" /\ ~CleanupPending)
    BY <1>4, <2>2, LeaseSame DEF PromoteCleanupReadyJobs
  <2>. QED  BY <2>1, <2>2
<1>5. CASE \/ StartJob \/ Crash \/ Lapse
           \/ \E i \in Items : CleanupPartItem(i)
           \/ \E c \in Callers : CancelJob(c) \/ ResumeJob(c)
  BY <1>5, LeaseSame
     DEF StartJob, Crash, Lapse, CleanupPartItem, CancelJob, ResumeJob, Request
<1>6. ASSUME NEW c \in Callers, CancelJobWrite(c)
      PROVE  LeaseMove
  <2>. DEFINE loaded == thread[c].read  assigned == CancelOf(loaded)
  <2>1. loaded \in JobRow /\ (~overtaken' => ~MovedOn(c) /\ Claimed)
    BY <1>6, Unmoved DEF TypeOK, ThreadState, Threads, CancelJobWrite
  <2>m. /\ ~MovedOn(c) => job.status = loaded.status /\ job.owner = loaded.owner
    BY DEF MovedOn
  <2>2. job' = Flush(loaded, assigned) /\ gen' = gen
    BY <1>6 DEF CancelJobWrite
  <2>. HIDE DEF loaded
  <2>3. CASE loaded.status \in {"queued", "stale", "canceled"}
    <3>1. assigned.status = "stale" /\ assigned.owner = 0
      BY <2>1, <2>3 DEF CancelOf
    <3>2. job'.status \in {job.status, "stale"} /\ job'.owner \in {0, job.owner}
      BY <2>1, <2>2, <3>1 DEF Flush, Flushed
    <3>3. Lease!Overwrite
      BY <2>2, <3>2 DEF Lease!Overwrite, Phase
    <3>4. CASE ~overtaken'
      <4>1. job.owner = 0 /\ job.status = loaded.status
        BY <2>1, <2>m, <2>3, <3>4 DEF Claimed
      <4>2. job'.owner = 0 /\ job'.status = "stale"
        BY <2>2, <2>3, <3>1, <3>2, <4>1 DEF Flush, Flushed
      <4>3. Lease!Reopen \/ UNCHANGED <<Phase, job.owner, gen>>
        BY <2>2, <2>3, <4>1, <4>2 DEF Lease!Reopen, Phase
      <4>. QED  BY <4>3 DEF LeaseMove, Lease!Next
    <3>. QED  BY <3>3, <3>4 DEF LeaseMove
  <2>4. CASE loaded.status \notin {"queued", "stale", "canceled"}
    <3>1. assigned.status = loaded.status /\ assigned.owner = loaded.owner
      BY <2>1, <2>4 DEF CancelOf, CancelRequested, JobRow
    <3>2. job'.status = job.status /\ job'.owner = job.owner
      BY <2>2, <3>1 DEF Flush, Flushed
    <3>. QED  BY <2>2, <3>2, LeaseKept
  <2>. QED  BY <2>3, <2>4
<1>7. ASSUME NEW c \in Callers, ResumeJobWrite(c)
      PROVE  LeaseMove
  <2>. DEFINE loaded == thread[c].read  assigned == ResumeOf(loaded)
  <2>1. /\ loaded \in JobRow /\ loaded.status \notin {"queued", "running"}
        /\ ~overtaken' => ~MovedOn(c) /\ Claimed
    BY <1>7, Unmoved DEF TypeOK, ThreadState, Threads, ResumeJobWrite, RowRead
  <2>m. ~MovedOn(c) => job.status = loaded.status /\ job.owner = loaded.owner
    BY DEF MovedOn
  <2>2. job' = Flush(loaded, assigned) /\ gen' = gen
    BY <1>7 DEF ResumeJobWrite
  <2>. HIDE DEF loaded
  <2>3. assigned.status = "queued" /\ assigned.owner = 0
    BY <2>1 DEF ResumeOf, JobRow
  <2>4. job'.status = "queued" /\ job'.owner \in {0, job.owner}
    BY <2>1, <2>2, <2>3 DEF Flush, Flushed
  <2>5. Lease!Overwrite
    BY <2>2, <2>4 DEF Lease!Overwrite, Phase
  <2>6. CASE ~overtaken'
    <3>1. job.owner = 0 /\ job.status = loaded.status
      BY <2>1, <2>m, <2>6 DEF Claimed
    <3>2. Lease!Reopen \/ UNCHANGED <<Phase, job.owner, gen>>
      BY <1>0, <2>1, <2>2, <2>4, <3>1
         DEF Lease!Reopen, Phase, JobRow, JobStatus, Terminal
    <3>. QED  BY <3>2 DEF LeaseMove, Lease!Next
  <2>. QED  BY <2>5, <2>6 DEF LeaseMove
<1>8. ASSUME NEW t \in Threads, Completion(t) \/ ManifestFails(t)
      PROVE  LeaseMove
  BY <1>8, CompletionLease
<1>. QED
  BY <1>1, <1>2, <1>3, <1>4, <1>5, <1>6, <1>7, <1>8
     DEF Next, Recovery, Failure, Write, Worker, RepairStep, Threads

LEMMA RowStep ==
    ASSUME RowInv, [Next]_vars
    PROVE  RowInv' /\ LeaseMove
<1>. USE DEF RowInv
<1>0. TypeInv' /\ gen \in Nat /\ gen + 1 # 0
  BY TypeStep DEF TypeInv, TypeOK
<1>1. LeaseMove
  <2>1. CASE UNCHANGED vars
    BY <2>1 DEF vars, LeaseMove, Phase
  <2>. QED  BY <2>1, LeaseStep
<1>2. Owned'
  BY <1>0, <1>1
     DEF LeaseMove, Owned, Lease!Next, Lease!Claim, Lease!Close, Lease!Defer,
         Lease!TakeOver, Lease!Reopen, Lease!Overwrite
<1>3. overtaken' \/ Claimed'
  <2>1. CASE ~overtaken'
    <3>1. Claimed
      BY <2>1, HistoryStep
    <3>2. job'.status \in JobStatus /\ job.status \in JobStatus
      BY <1>0 DEF TypeInv, TypeOK, JobRow
    <3>3. Lease!Next \/ UNCHANGED <<Phase, job.owner, gen>>
      BY <1>1, <2>1 DEF LeaseMove
    <3>. QED
      BY <1>0, <3>1, <3>2, <3>3
         DEF Claimed, Phase, JobStatus, Lease!Next, Lease!Claim,
             Lease!Close, Lease!Defer, Lease!TakeOver, Lease!Reopen
  <2>. QED  BY <2>1
<1>4. gen <= gen' /\ gen' \in Nat
  BY <1>0, <1>1
     DEF LeaseMove, Lease!Next, Lease!Claim, Lease!Close, Lease!Defer,
         Lease!TakeOver, Lease!Reopen, Lease!Overwrite, TypeInv, TypeOK
<1>5. RowRead'
  <2>1. ASSUME NEW t \in Threads, thread'[t] = thread[t]
        PROVE  thread'[t].pc \in WindowPC => thread'[t].read.owner <= gen'
    <3>1. thread[t].read.owner \in Nat
      BY DEF TypeInv, TypeOK, ThreadState, JobRow
    <3>. QED  BY <1>0, <1>4, <2>1, <3>1 DEF RowRead
  <2>2. ASSUME NEW t \in Threads, thread'[t] # thread[t],
               thread'[t].pc \in WindowPC
        PROVE  thread'[t].read.owner <= gen'
    <3>1. thread'[t].read = job /\ job.owner <= gen
      BY <1>0, <2>2, SelectStep DEF Owned, vars
    <3>. QED  BY <1>0, <1>4, <3>1 DEF Owned
  <2>. QED  BY <2>1, <2>2, SelectStep DEF RowRead, WindowPC, vars
<1>. QED  BY <1>0, <1>1, <1>2, <1>3, <1>5

LEMMA RowInit == Init => RowInv
<1>. SUFFICES ASSUME Init PROVE RowInv
  OBVIOUS
<1>1. Claimed /\ RowRead /\ Owned
  BY DEF Init, WindowPC, Claimed, RowRead, Owned, NewJob, Idle
<1>. QED  BY <1>1, InitType DEF RowInv

\* recover_stale_jobs, the repair pass, cancel_job and resume_job treat the claim of
\* the job row as the lease of JobLease, with any number of threads, crashes and
\* takeovers.  Flushes over a row that had moved on can take a claim away or reopen
\* the row; no interleaving lets one grant a claim or close the job.
THEOREM JobKeepsLease == Spec => LeaseSpec
<1>1. Init => Lease!Init
  BY DEF Init, NewJob, Lease!Init, Phase
<1>2. RowInv /\ [Next]_vars =>
        [Lease!Next \/ (overtaken' /\ Lease!Overwrite)]_<<Phase, job.owner, gen>>
  BY RowStep DEF LeaseMove
<1>3. RowInv /\ [Next]_vars => RowInv'
  BY RowStep
<1>. QED
  BY <1>1, <1>2, <1>3, RowInit, PTL DEF Spec, LeaseSpec

-----------------------------------------------------------------------------
(* What a completion or a repair aims at *)

AimedPC == {"fail", "defer", "repairclaim", "repairtarget", "repairaudit",
            "repairfail", "repaircheck"}

\* A thread that may record an intended end knows one that is terminal.
Aimed(t, row) ==
    /\ row.pc \in AimedPC => row.want \in Terminal
    /\ t = Repairer /\ row.pc = "audit" => row.want \in Terminal
    /\ row.pc = "publish" => row.final \in Terminal
    /\ row.handling => row.want \in Terminal
Aims == \A t \in Threads : Aimed(t, thread[t])

LEMMA BecomesAims ==
    ASSUME TypeOK, Aims, NEW t \in Threads, NEW row, Aimed(t, row), Becomes(t, row)
    PROVE  Aims'
BY DEF TypeOK, Aims, Aimed, Becomes

LEMMA LeaveAims ==
    ASSUME TypeOK, Aims, NEW t \in Threads, Leave(t)
    PROVE  Aims'
BY BecomesAims DEF Leave, Aimed, AimedPC, Idle

\* The label a thread goes to asks for an aim only if the thread has one.
LEMMA GoAims ==
    ASSUME TypeOK, Aims, NEW t \in Threads, NEW label, Go(t, label),
           label # "publish",
           \/ thread[t].want \in Terminal
           \/ label \notin AimedPC /\ (label = "audit" => t # Repairer)
    PROVE  Aims'
<1>. DEFINE row == [thread[t] EXCEPT !.pc = label]
<1>1. /\ row.pc = label /\ row.want = thread[t].want
      /\ row.handling = thread[t].handling
  BY DEF TypeOK, ThreadState
<1>2. Becomes(t, row)
  BY DEF Go
<1>. HIDE DEF row
<1>3. Aimed(t, row)
  BY <1>1 DEF Aims, Aimed
<1>. QED  BY <1>2, <1>3, BecomesAims

LEMMA GoForAims ==
    ASSUME TypeOK, Aims, NEW t \in Threads, NEW label, NEW want \in Terminal,
           GoFor(t, label, want), label # "publish"
    PROVE  Aims'
<1>. DEFINE row == [thread[t] EXCEPT !.pc = label, !.want = want]
<1>1. row.pc = label /\ row.want = want
  BY DEF TypeOK, ThreadState
<1>2. Becomes(t, row)
  BY DEF GoFor
<1>. HIDE DEF row
<1>3. Aimed(t, row)
  BY <1>1 DEF Aimed
<1>. QED  BY <1>2, <1>3, BecomesAims

LEMMA StartAims ==
    ASSUME TypeOK, Aims, UNCHANGED thread \/ StartThread
    PROVE  Aims'
<1>1. CASE UNCHANGED thread
  BY <1>1 DEF Aims, Aimed
<1>2. CASE StartThread
  <2>1. PICK w \in Workers : Go(w, "start")
    BY <1>2 DEF StartThread
  <2>. QED  BY <2>1, GoAims DEF Threads, AimedPC
<1>. QED  BY <1>1, <1>2

\* The terminal status that is recorded is never "no status".
LEMMA EffectiveKnown ==
    ASSUME NEW row \in JobRow, NEW want \in Terminal
    PROVE  EffectiveTarget(row, want) \in Terminal
BY DEF EffectiveTarget, JobRow, Target, Terminal

\* The row of an aimed thread at a label that asks for nothing.
LEMMA FreeAimed ==
    ASSUME Aims, NEW t \in Threads, NEW row,
           row.pc \notin AimedPC \cup {"audit", "publish"},
           row.handling = thread[t].handling, row.want = thread[t].want
    PROVE  Aimed(t, row)
BY DEF Aims, Aimed

LEMMA CompletionAims ==
    ASSUME TypeInv, Aims, NEW t \in Threads, Completion(t) \/ ManifestFails(t)
    PROVE  Aims'
<1>. USE DEF TypeInv, aside, history
<1>0. thread[t] \in ThreadState
  BY DEF TypeOK
<1>1. CASE Audit(t)
  <2>. DEFINE row == [thread[t] EXCEPT !.pc = "manifest", !.seen = item,
                        !.want = IF @ = "none" THEN JobTerminalStatus ELSE @]
  <2>1. /\ row.pc = "manifest" /\ row.handling = thread[t].handling
        /\ thread[t].want \in Terminal => row.want = thread[t].want
    BY <1>0 DEF ThreadState, Terminal
  <2>2. Aimed(t, row)
    BY <2>1 DEF Aims, Aimed, AimedPC
  <2>. HIDE DEF row
  <2>3. CASE t = Repairer /\ Go(t, "defer")
    <3>1. thread[t].want \in Terminal
      BY <1>1, <2>3 DEF Audit, At, Aims, Aimed
    <3>. QED  BY <2>3, <3>1, GoAims
  <2>4. CASE Becomes(t, row)
    BY <2>2, <2>4, BecomesAims
  <2>5. (t = Repairer /\ Go(t, "defer")) \/ Becomes(t, row) \/ Leave(t)
    BY <1>1 DEF Audit, row
  <2>. QED  BY <2>3, <2>4, <2>5, LeaveAims
<1>2. CASE BeginManifest(t)
  <2>. DEFINE row == [thread[t] EXCEPT !.pc = "intent", !.seen = item,
                        !.blocked = CleanupPending, !.read = job]
  <2>1. /\ row.pc = "intent" /\ row.handling = thread[t].handling
        /\ row.want = thread[t].want
    BY <1>0 DEF ThreadState
  <2>2. Becomes(t, row) \/ Leave(t)
    BY <1>2 DEF BeginManifest
  <2>. HIDE DEF row
  <2>3. Aimed(t, row)
    BY <2>1, FreeAimed DEF AimedPC
  <2>. QED  BY <2>2, <2>3, BecomesAims, LeaveAims
<1>3. CASE BeginManifestFinalization(t)
  <2>. DEFINE final == EffectiveTarget(thread[t].read, thread[t].want)
              row == [thread[t] EXCEPT
                !.pc = IF thread[t].blocked THEN "defer" ELSE "publish",
                !.final = final, !.read = NewJob]
  <2>1. thread[t].want \in Terminal /\ final \in Terminal
    <3>1. thread[t].want \in Terminal
      BY <1>3 DEF BeginManifestFinalization, WantKnown
    <3>2. thread[t].read \in JobRow
      BY <1>0 DEF ThreadState
    <3>. QED  BY <3>1, <3>2, EffectiveKnown
  <2>2. Becomes(t, row)
    BY <1>3 DEF BeginManifestFinalization
  <2>. HIDE DEF final
  <2>3. row.pc \in {"defer", "publish"} /\ row.want = thread[t].want
        /\ row.final = final
    BY <1>0 DEF ThreadState
  <2>. HIDE DEF row
  <2>4. Aimed(t, row)
    BY <2>1, <2>3 DEF Aimed, AimedPC
  <2>. QED  BY <2>2, <2>4, BecomesAims
<1>4. CASE PublishManifest(t) \/ FinishJob(t) \/ DeferManifestRepair(t)
  <2>1. thread[t].want \in Terminal \/ Leave(t)
    BY <1>4 DEF PublishManifest, FinishJob, DeferManifestRepair, At, WantKnown
  <2>2. Leave(t) \/ Go(t, "finish") \/ Go(t, "defer")
    BY <1>4 DEF PublishManifest, FinishJob, DeferManifestRepair
  <2>. QED  BY <2>1, <2>2, LeaveAims, GoAims
<1>5. CASE ManifestFails(t)
  <2>. DEFINE row == [thread[t] EXCEPT !.pc = "defer", !.read = NewJob]
  <2>1. row.pc = "defer" /\ row.want = thread[t].want
    BY <1>0 DEF ThreadState
  <2>2. Becomes(t, row) /\ thread[t].want \in Terminal
    BY <1>5 DEF ManifestFails, WantKnown
  <2>. HIDE DEF row
  <2>3. Aimed(t, row)
    BY <2>1, <2>2 DEF Aimed
  <2>. QED  BY <2>2, <2>3, BecomesAims
<1>. QED  BY <1>1, <1>2, <1>3, <1>4, <1>5 DEF Completion

LEMMA AimsStep ==
    ASSUME TypeInv, Aims, [Next]_vars
    PROVE  Aims'
<1>. USE DEF TypeInv, aside, history
<1>0. /\ \A t \in Threads : thread[t] \in ThreadState
      /\ Repairer \in Threads /\ \A t \in Workers : t \in Threads /\ t # Repairer
      /\ {"failed", "canceled"} \subseteq Terminal
  BY WorkersAssumption DEF TypeOK, Threads, Terminal
<1>1. ASSUME NEW t \in Workers, Worker(t) \/ WorkerFailure(t), ~Completion(t)
      PROVE  Aims'
  <2>1. CASE ClaimJob(t)
    <3>. DEFINE row == [thread[t] EXCEPT !.pc = "next", !.claim = gen + 1]
    <3>1. /\ row.pc = "next" /\ row.handling = thread[t].handling
          /\ row.want = thread[t].want
      BY <1>0 DEF ThreadState
    <3>2. Becomes(t, row) \/ Leave(t)
      BY <2>1 DEF ClaimJob
    <3>. HIDE DEF row
    <3>3. Aimed(t, row)
      BY <1>0, <3>1, FreeAimed DEF AimedPC
    <3>. QED  BY <1>0, <3>2, <3>3, BecomesAims, LeaveAims
  <2>2. CASE NextItem(t)
    <3>1. ASSUME NEW i, Becomes(t, [thread[t] EXCEPT !.pc = "claim", !.item = i])
          PROVE  Aims'
      <4>. DEFINE row == [thread[t] EXCEPT !.pc = "claim", !.item = i]
      <4>1. /\ row.pc = "claim" /\ row.handling = thread[t].handling
            /\ row.want = thread[t].want
        BY <1>0 DEF ThreadState
      <4>. HIDE DEF row
      <4>2. Aimed(t, row)
        BY <1>0, <4>1, FreeAimed DEF AimedPC
      <4>. QED  BY <1>0, <3>1, <4>2, BecomesAims DEF row
    <3>2. Go(t, "audit") => Aims'
      BY <1>0, GoAims DEF AimedPC
    <3>3. GoFor(t, "fail", "canceled") => Aims'
      BY <1>0, GoForAims
    <3>. QED  BY <2>2, <3>1, <3>2, <3>3 DEF NextItem
  <2>3. CASE ClaimItem(t)
    BY <1>0, <2>3, GoAims, LeaveAims DEF ClaimItem, AimedPC
  <2>4. CASE WorkerFailAll(t)
    BY <1>0, <2>4, GoAims, LeaveAims DEF WorkerFailAll, AimedPC
  <2>5. CASE WorkerFailure(t)
    <3>. DEFINE row == [thread[t] EXCEPT !.pc = "fail", !.want = "failed",
                                         !.handling = TRUE]
    <3>1. row.pc = "fail" /\ row.want = "failed"
      BY <1>0 DEF ThreadState
    <3>2. \/ Becomes(t, row) \/ Leave(t)
          \/ Go(t, "defer") /\ thread[t].handling
      BY <2>5 DEF WorkerFailure
    <3>. HIDE DEF row
    <3>3. Aimed(t, row)
      BY <1>0, <3>1 DEF Aimed
    <3>4. thread[t].handling => thread[t].want \in Terminal
      BY <1>0 DEF Aims, Aimed
    <3>. QED  BY <1>0, <3>2, <3>3, <3>4, BecomesAims, LeaveAims, GoAims
  <2>6. CASE ItemAction(t)
    <3>1. UNCHANGED thread \/ Go(t, "next") \/ GoFor(t, "fail", "canceled")
             \/ Leave(t)
      BY <2>6 DEF ItemAction, ItemProgress, ItemRetry, ItemComplete,
                  ItemFailed, ItemCanceled, ItemClaimLost
    <3>2. Go(t, "next") => Aims'
      BY <1>0, GoAims DEF AimedPC
    <3>3. GoFor(t, "fail", "canceled") => Aims'
      BY <1>0, GoForAims
    <3>. QED  BY <1>0, <3>1, <3>2, <3>3, StartAims, LeaveAims
  <2>. QED  BY <1>1, <2>1, <2>2, <2>3, <2>4, <2>5, <2>6 DEF Worker
<1>2. ASSUME RepairStep \/ RepairFailure, ~Completion(Repairer)
      PROVE  Aims'
  <2>1. CASE RepairScan
    <3>1. EffectiveTarget(job, "failed") \in Terminal
      BY <1>0, EffectiveKnown DEF TypeOK
    <3>. QED  BY <1>0, <2>1, <3>1, GoForAims DEF RepairScan
  <2>a. ASSUME ~RepairScan
        PROVE  thread[Repairer].want \in Terminal
    BY <1>0, <1>2, <2>a
       DEF RepairStep, RepairFailure, ClaimManifestRepairJob,
           SetManifestRepairTarget, RepairAudit, RepairFailAll, RepairCheck, At,
           Aims, Aimed, AimedPC, WantKnown
  <2>2. CASE ClaimManifestRepairJob /\ ~RepairScan
    <3>. DEFINE row == [thread[Repairer] EXCEPT !.pc = "repairtarget",
                                                !.claim = gen + 1]
    <3>1. row.pc = "repairtarget" /\ row.want = thread[Repairer].want
      BY <1>0 DEF ThreadState
    <3>2. Becomes(Repairer, row) \/ Leave(Repairer)
      BY <2>2 DEF ClaimManifestRepairJob
    <3>. HIDE DEF row
    <3>3. Aimed(Repairer, row)
      BY <2>a, <2>2, <3>1 DEF Aimed
    <3>. QED  BY <1>0, <3>2, <3>3, BecomesAims, LeaveAims
  <2>3. CASE (SetManifestRepairTarget \/ RepairFailAll) /\ ~RepairScan
    <3>1. PICK label \in {"repairaudit", "repaircheck"} :
             Go(Repairer, label) \/ Leave(Repairer)
      BY <2>3 DEF SetManifestRepairTarget, RepairFailAll
    <3>. QED  BY <1>0, <2>a, <2>3, <3>1, GoAims, LeaveAims
  <2>4. CASE RepairAudit /\ ~RepairScan
    <3>1. PICK label \in {"repairfail", "repaircheck"},
               want \in {"canceled", thread[Repairer].want} :
             GoFor(Repairer, label, want)
      BY <2>4 DEF RepairAudit
    <3>. QED  BY <1>0, <2>a, <2>4, <3>1, GoForAims
  <2>5. CASE RepairCheck /\ ~RepairScan
    <3>1. GoFor(Repairer, "audit", "canceled") \/ Go(Repairer, "audit")
      BY <2>5 DEF RepairCheck
    <3>. QED  BY <1>0, <2>a, <2>5, <3>1, GoForAims, GoAims
  <2>6. CASE RepairFailure /\ ~RepairScan
    <3>. DEFINE row == [thread[Repairer] EXCEPT !.pc = "defer", !.handling = TRUE]
    <3>1. row.pc = "defer" /\ row.want = thread[Repairer].want
      BY <1>0 DEF ThreadState
    <3>2. Becomes(Repairer, row) \/ Leave(Repairer)
      BY <2>6 DEF RepairFailure
    <3>. HIDE DEF row
    <3>3. Aimed(Repairer, row)
      BY <2>a, <2>6, <3>1 DEF Aimed
    <3>. QED  BY <1>0, <3>2, <3>3, BecomesAims, LeaveAims
  <2>. QED  BY <1>2, <2>1, <2>2, <2>3, <2>4, <2>5, <2>6 DEF RepairStep
<1>3. CASE StartJob \/ PromoteCleanupReadyJobs \/ RecoverStaleJobs
  BY <1>3, StartAims DEF StartJob, PromoteCleanupReadyJobs, RecoverStaleJobs
<1>4. CASE (\E i \in Items : CleanupPartItem(i)) \/ Lapse
  BY <1>4, StartAims DEF CleanupPartItem, Lapse
<1>5. CASE Crash
  BY <1>5 DEF Crash, Aims, Aimed, AimedPC, Idle
<1>6. ASSUME NEW c \in Callers, NEW label \in {"cancel", "resume"},
             Request(c, label)
      PROVE  Aims'
  <2>. DEFINE row == [thread[c] EXCEPT !.pc = label, !.read = job, !.seen = item]
  <2>0. c \in Threads
    BY DEF Threads
  <2>1. /\ row.pc = label /\ Becomes(c, row)
        /\ row.handling = thread[c].handling /\ row.want = thread[c].want
    BY <1>0, <1>6, <2>0 DEF ThreadState, Request
  <2>. HIDE DEF row
  <2>2. Aimed(c, row)
    BY <2>0, <2>1, FreeAimed DEF AimedPC
  <2>. QED  BY <2>0, <2>1, <2>2, BecomesAims
<1>7. ASSUME NEW c \in Callers, CancelJobWrite(c)
      PROVE  Aims'
  BY <1>7, LeaveAims DEF CancelJobWrite, Threads
<1>8. ASSUME NEW c \in Callers, ResumeJobWrite(c)
      PROVE  Aims'
  <2>1. PICK w \in Workers :
          thread' = [thread EXCEPT ![c] = Idle, ![w] = [@ EXCEPT !.pc = "start"]]
    BY <1>8 DEF ResumeJobWrite
  <2>2. c \in Threads /\ w \in Threads /\ w # c
    BY WorkersAssumption DEF Threads
  <2>3. LET row == [thread[w] EXCEPT !.pc = "start"] IN
           /\ row.pc = "start" /\ row.handling = thread[w].handling
           /\ row.want = thread[w].want
    BY <1>0, <2>2 DEF ThreadState
  <2>4. thread'[w].pc = "start" /\ thread'[c] = Idle
        /\ thread'[w].handling = thread[w].handling
        /\ thread'[w].want = thread[w].want
        /\ \A u \in Threads \ {w, c} : thread'[u] = thread[u]
    BY <2>1, <2>2, <2>3 DEF TypeOK
  <2>. QED  BY <2>2, <2>4 DEF Aims, Aimed, AimedPC, Idle
<1>9. ASSUME NEW t \in Threads, Completion(t) \/ ManifestFails(t)
      PROVE  Aims'
  BY <1>9, CompletionAims
<1>10. CASE UNCHANGED vars
  BY <1>10, StartAims DEF vars
<1>. QED
  BY <1>0, <1>1, <1>2, <1>3, <1>4, <1>5, <1>6, <1>7, <1>8, <1>9, <1>10
     DEF Next, Recovery, Failure, Write, Worker, RepairStep, CancelJob, ResumeJob

-----------------------------------------------------------------------------
(* The repair path *)

\* What RepairIntent says beyond the claim.
Intended == /\ (job.repair = "none") <=> (job.target = "none")
            /\ job.repair = "repairing" => job.status = "running"
            /\ RepairNotQueued

\* A row that is read for a flush keeps the same promise.
ReadIntended == \A t \in Threads :
    thread[t].pc \in WindowPC =>
        ((thread[t].read.repair = "none") <=> (thread[t].read.target = "none"))

LEMMA ReadIntendedStep ==
    ASSUME TypeInv, Intended, ReadIntended, [Next]_vars
    PROVE  ReadIntended'
<1>1. ASSUME NEW t \in Threads, thread'[t] = thread[t], thread'[t].pc \in WindowPC
      PROVE  (thread'[t].read.repair = "none") <=> (thread'[t].read.target = "none")
  BY <1>1 DEF ReadIntended
<1>2. ASSUME NEW t \in Threads, thread'[t] # thread[t], thread'[t].pc \in WindowPC
      PROVE  (thread'[t].read.repair = "none") <=> (thread'[t].read.target = "none")
  BY <1>2, SelectStep DEF Intended, vars
<1>. QED  BY <1>1, <1>2 DEF ReadIntended

LEMMA CompletionIntended ==
    ASSUME RowInv, Aims, ReadIntended, Intended, ~overtaken', NEW t \in Threads,
           Completion(t) \/ ManifestFails(t)
    PROVE  Intended'
<1>. USE DEF RowInv, TypeInv, aside, history
<1>0. thread[t] \in ThreadState /\ job \in JobRow
  BY DEF TypeOK
<1>1. CASE Audit(t) \/ BeginManifest(t) \/ PublishManifest(t)
  BY <1>1 DEF Audit, BeginManifest, PublishManifest, Intended, RepairNotQueued
<1>2. CASE BeginManifestFinalization(t)
  <2>. DEFINE loaded == thread[t].read
              final == EffectiveTarget(loaded, thread[t].want)
              assigned == [loaded EXCEPT
                !.repair = IF @ = "none" THEN "pending" ELSE @, !.target = final]
  <2>1. job' = Flush(loaded, assigned)
    BY <1>2 DEF BeginManifestFinalization
  <2>2. /\ loaded \in JobRow /\ loaded.status = "running"
        /\ (loaded.repair = "none") <=> (loaded.target = "none")
    BY <1>0, <1>2 DEF BeginManifestFinalization, RowRead, ReadIntended, WindowPC,
                      ThreadState
  <2>3. final \in Terminal
    BY <1>0, <1>2, <2>2, EffectiveKnown DEF BeginManifestFinalization, WantKnown
  <2>4. ~MovedOn(t)
    BY <1>2, Unmoved DEF BeginManifestFinalization
  <2>5. /\ job.status = "running"
        /\ job.repair = loaded.repair \/ job.repair # "none"
    BY <2>2, <2>4 DEF MovedOn
  <2>. HIDE DEF final, loaded
  <2>6. /\ assigned.status = loaded.status /\ assigned.target = final
        /\ assigned.repair = IF loaded.repair = "none" THEN "pending"
                             ELSE loaded.repair
    BY <2>2 DEF JobRow
  <2>. HIDE DEF assigned
  <2>7. /\ job'.status = job.status /\ job'.repair # "none"
        /\ job'.target = IF final = loaded.target THEN job.target ELSE final
    BY <2>1, <2>5, <2>6 DEF Flush, Flushed
  <2>8. job'.target # "none"
    <3>1. CASE final = loaded.target
      BY <2>2, <2>3, <2>5, <2>7, <3>1 DEF Intended, Terminal
    <3>2. CASE final # loaded.target
      BY <2>3, <2>7, <3>2 DEF Terminal
    <3>. QED  BY <3>1, <3>2
  <2>. QED  BY <2>5, <2>7, <2>8 DEF Intended, RepairNotQueued
<1>3. CASE ManifestFails(t)
  <2>1. CASE thread[t].pc = "publish" /\ Holds(t) /\ ManifestWarning(t)
    <3>. DEFINE target == IF job.cancel THEN "canceled"
                          ELSE IF job.target = "none" THEN thread[t].final
                          ELSE job.target
    <3>1. thread[t].final \in Terminal
      BY <1>3, <2>1 DEF Aims, Aimed
    <3>2. target # "none"
      BY <3>1 DEF Terminal
    <3>3. job' = [job EXCEPT !.repair = "pending", !.target = target]
      BY <2>1 DEF ManifestWarning
    <3>. HIDE DEF target
    <3>4. /\ job'.repair = "pending" /\ job'.target = target
          /\ job'.status = job.status
      BY <1>0, <3>3 DEF JobRow
    <3>. QED
      BY <2>1, <3>2, <3>4 DEF Holds, Intended, RepairNotQueued
  <2>2. CASE UNCHANGED job
    BY <2>2 DEF Intended, RepairNotQueued
  <2>. QED  BY <1>3, <2>1, <2>2 DEF ManifestFails
<1>4. CASE FinishJob(t)
  <2>1. CASE CanFinish(t)
    <3>1. thread[t].want \in Terminal
      BY <1>4 DEF FinishJob, At, WantKnown
    <3>2. /\ job'.status = thread[t].want /\ job'.repair = "none"
          /\ job'.target = "none"
      BY <1>0, <1>4, <2>1 DEF FinishJob, Finished, JobRow
    <3>. QED  BY <3>1, <3>2 DEF Intended, RepairNotQueued, Terminal
  <2>2. CASE ~CanFinish(t)
    BY <1>4, <2>2 DEF FinishJob, Intended, RepairNotQueued
  <2>. QED  BY <2>1, <2>2
<1>5. CASE DeferManifestRepair(t)
  <2>1. CASE Holds(t)
    <3>. DEFINE target == IF job.cancel THEN "canceled"
                          ELSE IF job.target = "none" THEN thread[t].want
                          ELSE job.target
    <3>1. thread[t].want \in Terminal
      BY <1>5 DEF DeferManifestRepair, At, Aims, Aimed, AimedPC
    <3>2. target # "none"
      BY <3>1 DEF Terminal
    <3>3. job' = [job EXCEPT !.status = "stale", !.owner = 0,
                             !.repair = "pending", !.target = target]
      BY <1>0, <1>5, <2>1 DEF DeferManifestRepair, JobRow
    <3>. HIDE DEF target
    <3>4. /\ job'.repair = "pending" /\ job'.target = target
          /\ job'.status = "stale"
      BY <1>0, <3>3 DEF JobRow
    <3>. QED  BY <3>2, <3>4 DEF Intended, RepairNotQueued
  <2>2. CASE ~Holds(t)
    BY <1>5, <2>2 DEF DeferManifestRepair, Intended, RepairNotQueued
  <2>. QED  BY <2>1, <2>2
<1>. QED  BY <1>1, <1>2, <1>3, <1>4, <1>5 DEF Completion

\* A job that is not under repair keeps the promise when its repair columns stay.
LEMMA IntendedKept ==
    ASSUME Intended, job'.repair = job.repair, job'.target = job.target,
           job'.status \in {job.status, "stale"} \/ job.repair = "none",
           job.repair = "repairing" => job'.status = "running"
    PROVE  Intended'
BY DEF Intended, RepairNotQueued

LEMMA IntendedStep ==
    ASSUME RowInv, Aims, ReadIntended, Intended, ~overtaken', [Next]_vars
    PROVE  Intended'
<1>. USE DEF RowInv, TypeInv, aside, history
<1>0. /\ \A t \in Threads : thread[t] \in ThreadState
      /\ job \in JobRow /\ Repairer \in Threads
  BY DEF TypeOK, Threads
<1>1. ASSUME NEW t \in Workers, Worker(t) \/ WorkerFailure(t), ~Completion(t)
      PROVE  Intended'
  <2>1. CASE ClaimJob(t)
    <3>1. CASE Claimable
      <4>1. /\ job'.repair = job.repair /\ job'.target = job.target
            /\ job.repair = "none"
        BY <1>0, <2>1, <3>1 DEF ClaimJob, Claimable, JobRow
      <4>. QED  BY <4>1, IntendedKept
    <3>2. CASE ~Claimable
      BY <2>1, <3>2 DEF ClaimJob, Intended, RepairNotQueued
    <3>. QED  BY <3>1, <3>2
  <2>2. CASE NextItem(t) \/ ClaimItem(t) \/ WorkerFailure(t) \/ WorkerFailAll(t)
    <3>1. job' = job
      BY <2>2 DEF NextItem, ClaimItem, WorkerFailure, WorkerFailAll
    <3>. QED  BY <3>1 DEF Intended, RepairNotQueued
  <2>3. CASE ItemAction(t)
    BY <2>3
       DEF ItemAction, ItemProgress, ItemRetry, ItemComplete, ItemFailed,
           ItemCanceled, ItemClaimLost, ItemStep, Intended, RepairNotQueued
  <2>. QED  BY <1>1, <2>1, <2>2, <2>3 DEF Worker
<1>2. ASSUME RepairStep \/ RepairFailure, ~Completion(Repairer)
      PROVE  Intended'
  <2>1. CASE ClaimManifestRepairJob
    <3>1. CASE RepairWaits /\ ~CleanupPending
      <4>1. /\ job'.status = "running" /\ job'.repair = "repairing"
            /\ job'.target = job.target /\ job.repair = "pending"
        BY <1>0, <2>1, <3>1 DEF ClaimManifestRepairJob, RepairWaits, JobRow
      <4>. QED  BY <4>1 DEF Intended, RepairNotQueued
    <3>2. CASE ~(RepairWaits /\ ~CleanupPending)
      BY <2>1, <3>2 DEF ClaimManifestRepairJob, Intended, RepairNotQueued
    <3>. QED  BY <3>1, <3>2
  <2>2. CASE RepairScan \/ RepairFailAll \/ RepairFailure
    BY <2>2 DEF RepairScan, RepairFailAll, RepairFailure, Intended,
                RepairNotQueued
  <2>3. CASE SetManifestRepairTarget \/ RepairAudit \/ RepairCheck
    <3>1. CASE job' = job
      BY <3>1 DEF Intended, RepairNotQueued
    <3>2. CASE job' # job
      <4>1. Repairing
        BY <2>3, <3>2 DEF SetManifestRepairTarget, RepairAudit, RepairCheck
      <4>2. thread[Repairer].want # "none" \/ ~SetManifestRepairTarget
        BY <1>0 DEF SetManifestRepairTarget, At, Aims, Aimed, AimedPC, Terminal
      <4>3. PICK target \in {"canceled", thread[Repairer].want} :
               /\ job' = [job EXCEPT !.target = target]
               /\ target # "none"
        BY <2>3, <3>2, <4>2 DEF SetManifestRepairTarget, RepairAudit, RepairCheck
      <4>4. /\ job'.repair = job.repair /\ job'.target # "none"
            /\ job'.status = job.status
        BY <1>0, <4>3 DEF JobRow
      <4>. QED
        BY <4>1, <4>4 DEF Repairing, Holds, Intended, RepairNotQueued
    <3>. QED  BY <3>1, <3>2
  <2>. QED  BY <1>2, <2>1, <2>2, <2>3 DEF RepairStep
<1>3. CASE RecoverStaleJobs
  <2>1. CASE job.repair = "none"
    <3>1. job'.repair = job.repair /\ job'.target = job.target
      BY <1>0, <1>3, <2>1 DEF RecoverStaleJobs, JobRow
    <3>. QED  BY <2>1, <3>1, IntendedKept
  <2>2. CASE job.repair # "none"
    <3>1. job' = RecoveredRepair(job) /\ job.target # "none"
      BY <1>3, <2>2 DEF RecoverStaleJobs, Intended
    <3>2. /\ job'.repair = "pending" /\ job'.status = "stale"
          /\ job'.target \in {job.target, "canceled"}
      BY <1>0, <3>1 DEF RecoveredRepair, JobRow
    <3>. QED  BY <3>1, <3>2 DEF Intended, RepairNotQueued
  <2>. QED  BY <2>1, <2>2
<1>4. CASE PromoteCleanupReadyJobs
  <2>1. CASE job.status = "stale" /\ job.repair = "none" /\ ~CleanupPending
    <3>1. job'.repair = job.repair /\ job'.target = job.target
      BY <1>0, <1>4, <2>1 DEF PromoteCleanupReadyJobs, JobRow
    <3>. QED  BY <2>1, <3>1, IntendedKept
  <2>2. CASE ~(job.status = "stale" /\ job.repair = "none" /\ ~CleanupPending)
    BY <1>4, <2>2 DEF PromoteCleanupReadyJobs, Intended, RepairNotQueued
  <2>. QED  BY <2>1, <2>2
<1>5. CASE \/ StartJob \/ Crash \/ Lapse
           \/ \E i \in Items : CleanupPartItem(i)
           \/ \E c \in Callers : CancelJob(c) \/ ResumeJob(c)
           \/ UNCHANGED vars
  <2>1. job' = job
    BY <1>5
       DEF StartJob, Crash, Lapse, CleanupPartItem, CancelJob, ResumeJob,
           Request, vars
  <2>. QED  BY <2>1 DEF Intended, RepairNotQueued
<1>6. ASSUME NEW c \in Callers, CancelJobWrite(c)
      PROVE  Intended'
  <2>. DEFINE loaded == thread[c].read  assigned == CancelOf(loaded)
  <2>1. /\ job' = Flush(loaded, assigned) /\ loaded \in JobRow
        /\ (loaded.repair = "none") <=> (loaded.target = "none")
    BY <1>0, <1>6
       DEF CancelJobWrite, ReadIntended, WindowPC, Threads, ThreadState
  <2>2. ~MovedOn(c)
    BY <1>6, Unmoved DEF CancelJobWrite
  <2>3. /\ job.status = loaded.status
        /\ job.repair = loaded.repair \/ (job.status = "running"
                                           /\ job.repair # "none")
    BY <2>2 DEF MovedOn
  <2>. HIDE DEF loaded
  <2>4. CASE loaded.status \in {"queued", "stale", "canceled"}
    <3>1. /\ assigned.status = "stale" /\ assigned.repair = "pending"
          /\ assigned.target = "canceled"
      BY <2>4 DEF CancelOf
    <3>2. /\ job'.status = "stale" /\ job'.repair = "pending"
          /\ job'.target \in {job.target, "canceled"}
          /\ job'.target = "canceled" \/ loaded.target = "canceled"
      BY <2>1, <2>3, <2>4, <3>1 DEF Flush, Flushed
    <3>3. loaded.target = "canceled" => job.target # "none"
      BY <2>1, <2>3 DEF Intended
    <3>. QED  BY <3>2, <3>3 DEF Intended, RepairNotQueued
  <2>5. CASE loaded.status \notin {"queued", "stale", "canceled"}
    <3>1. /\ assigned.status = loaded.status /\ assigned.repair = loaded.repair
          /\ assigned.target = IF loaded.repair = "none" THEN loaded.target
                               ELSE "canceled"
      BY <2>1, <2>5 DEF CancelOf, CancelRequested, JobRow
    <3>2. /\ job'.status = job.status /\ job'.repair = job.repair
          /\ \/ job'.target = job.target
             \/ loaded.repair # "none" /\ job'.target = "canceled"
      BY <2>1, <3>1 DEF Flush, Flushed
    <3>. QED  BY <2>3, <3>2 DEF Intended, RepairNotQueued
  <2>. QED  BY <2>4, <2>5
<1>7. ASSUME NEW c \in Callers, ResumeJobWrite(c)
      PROVE  Intended'
  <2>. DEFINE loaded == thread[c].read  assigned == ResumeOf(loaded)
  <2>1. /\ job' = Flush(loaded, assigned) /\ loaded \in JobRow
        /\ loaded.repair = "none" /\ loaded.status # "running"
    BY <1>0, <1>7 DEF ResumeJobWrite, RowRead, Threads, ThreadState
  <2>2. ~MovedOn(c)
    BY <1>7, Unmoved DEF ResumeJobWrite
  <2>3. job.repair = "none"
    BY <2>1, <2>2 DEF MovedOn
  <2>. HIDE DEF loaded
  <2>4. assigned.repair = loaded.repair /\ assigned.target = loaded.target
    BY <2>1 DEF ResumeOf, JobRow
  <2>5. job'.repair = job.repair /\ job'.target = job.target
    BY <2>1, <2>4 DEF Flush, Flushed
  <2>. QED  BY <2>3, <2>5, IntendedKept
<1>8. ASSUME NEW t \in Threads, Completion(t) \/ ManifestFails(t)
      PROVE  Intended'
  BY <1>8, CompletionIntended
<1>. QED
  BY <1>0, <1>1, <1>2, <1>3, <1>4, <1>5, <1>6, <1>7, <1>8
     DEF Next, Recovery, Failure, Write, Worker, RepairStep, Threads

IntentInv == overtaken \/ (Intended /\ ReadIntended)

LEMMA IntentStep ==
    ASSUME RowInv, Aims, IntentInv, [Next]_vars
    PROVE  IntentInv'
<1>1. CASE overtaken'
  BY <1>1 DEF IntentInv
<1>2. CASE ~overtaken'
  <2>1. Intended /\ ReadIntended
    BY <1>2, HistoryStep DEF RowInv, IntentInv
  <2>. QED  BY <1>2, <2>1, IntendedStep, ReadIntendedStep DEF RowInv, IntentInv
<1>. QED  BY <1>1, <1>2

LEMMA IntentInit == Init => Aims /\ IntentInv
BY DEF Init, Aims, Aimed, AimedPC, ReadIntended, IntentInv, WindowPC, Idle,
       NewJob, Intended, RepairNotQueued

\* The job's intended end is on record exactly while it is on the repair path, which
\* it never is when queued, through cancellations, resumes, takeovers and crashes in
\* any order: only a flush over a row that had moved on ends that.
THEOREM RepairIsIntended == Spec => []RepairIntent
<1>1. Init => RowInv /\ Aims /\ IntentInv
  BY RowInit, IntentInit
<1>2. RowInv /\ Aims /\ IntentInv /\ [Next]_vars => (RowInv /\ Aims /\ IntentInv)'
  BY RowStep, AimsStep, IntentStep DEF RowInv
<1>3. RowInv /\ IntentInv => RepairIntent
  BY DEF RowInv, Claimed, Intended, IntentInv, RepairIntent
<1>. QED
  BY <1>1, <1>2, <1>3, PTL DEF Spec

-----------------------------------------------------------------------------
(* The manifest of a closed job *)

\* What the thread that holds the claim knows of the job, its items and its manifest.
FreshPC == {"idle", "start", "next", "claim", "item"}
EarlyPC == {"next", "claim", "item", "fail", "audit", "manifest"}
RepairPC == {"repairaudit", "repairfail", "repaircheck", "audit", "manifest"}
\* The handler of run_job has taken over from a finish that raised.
Failing(row) == thrown /\ row.want = "failed"
MayClose(row) == ~job.cancel \/ row.want = "canceled"
Knows(t, row) ==
    /\ row.pc \in {"intent", "publish"} => row.seen = item
    /\ row.pc = "intent" /\ MayClose(row) =>
          EffectiveTarget(row.read, row.want) = row.want \/ Failing(row)
    /\ row.pc \in {"publish", "finish"} /\ MayClose(row) =>
          row.final = row.want \/ Failing(row)
    /\ row.pc = "finish" => manifest.status = row.final /\ manifest.items = item
    /\ t = Repairer /\ row.pc \in RepairPC /\ ~job.cancel => job.target = row.want
    /\ t \in Workers /\ row.pc \in EarlyPC =>
          /\ job.repair = "none" \/ Failing(row)
          /\ row.want = "canceled" => job.cancel
Known(t) == Holds(t) => Knows(t, thread[t])

\* The holder's knowledge; a worker that has not come to an end aims at nothing.
WorkInv ==
    /\ \A t \in Threads : Known(t)
    /\ \A t \in Workers : thread[t].pc \in FreshPC => thread[t].want = "none"

\* A thread that has just been started, and one that the step does not touch.
Waits(u) == \/ thread'[u] = thread[u]
            \/ /\ thread[u].pc = "idle"
               /\ thread'[u] = [thread[u] EXCEPT !.pc = "start"]

\* Only a claim makes a job run or names an owner.
RowKeeps == /\ gen' = gen /\ (thrown => thrown')
            /\ job'.owner \in {0, job.owner}
            /\ job'.status = "running" => job.status = "running"

\* A job whose claim nobody holds is known to nobody.
LEMMA NobodyKnows ==
    ASSUME \A u \in Threads : ~Holds(u)',
           \A t \in Workers : thread'[t].pc \in FreshPC => thread'[t].want = "none"
    PROVE  WorkInv'
BY DEF WorkInv, Known

\* The threads other than the one that acts know what they knew.
LEMMA OthersKnow ==
    ASSUME TypeInv, ClaimInv, WorkInv, NEW t \in Threads,
           RowKeeps, \A u \in Threads \ {t} : Waits(u),
           Holds(t) \/ UNCHANGED <<job, item, manifest>>
    PROVE  /\ \A u \in Threads \ {t} : Known(u)'
           /\ \A u \in Workers \ {t} : thread'[u].pc \in FreshPC =>
                 thread'[u].want = "none"
<1>0. /\ Workers \subseteq Threads
      /\ \A u \in Threads : thread[u] \in ThreadState
  BY DEF Threads, TypeInv, TypeOK
<1>1. ASSUME NEW u \in Threads \ {t} PROVE Known(u)'
  <2>1. CASE thread'[u] = thread[u]
    <3>1. ASSUME Holds(u)' PROVE Holds(u)
      BY <2>1, <3>1 DEF Holds, RowKeeps
    <3>2. CASE Holds(t)
      <4>1. ~Holds(u)
        BY <3>2 DEF ClaimInv, Holds
      <4>. QED  BY <3>1, <4>1 DEF Known
    <3>3. CASE UNCHANGED <<job, item, manifest>>
      BY <2>1, <3>1, <3>3 DEF Known, Knows, MayClose, Failing, RowKeeps, WorkInv
    <3>. QED  BY <3>2, <3>3
  <2>2. CASE thread'[u] = [thread[u] EXCEPT !.pc = "start"]
    <3>1. thread'[u].pc = "start"
      BY <1>0, <2>2 DEF ThreadState
    <3>. QED  BY <3>1 DEF Known, Knows, EarlyPC, RepairPC
  <2>. QED  BY <2>1, <2>2 DEF Waits
<1>2. ASSUME NEW u \in Workers \ {t}, thread'[u].pc \in FreshPC
      PROVE  thread'[u].want = "none"
  <2>1. thread'[u] = [thread[u] EXCEPT !.pc = "start"]
           => thread'[u].want = thread[u].want
    BY <1>0 DEF ThreadState
  <2>2. CASE thread'[u] = thread[u]
    BY <1>2, <2>2 DEF WorkInv
  <2>3. CASE thread'[u] # thread[u]
    <3>1. thread[u].pc = "idle"
      BY <1>0, <2>3 DEF Waits
    <3>. QED  BY <1>0, <2>1, <2>3, <3>1 DEF Waits, WorkInv, FreshPC
  <2>. QED  BY <2>2, <2>3
<1>. QED  BY <1>1, <1>2

\* One thread moves on; it is enough to look at what that thread knows.
LEMMA ActorKnows ==
    ASSUME TypeInv, ClaimInv, WorkInv, NEW t \in Threads, NEW row,
           Becomes(t, row), RowKeeps,
           Holds(t) \/ UNCHANGED <<job, item, manifest>>,
           Holds(t)' => Knows(t, row)',
           t \in Workers /\ row.pc \in FreshPC => row.want = "none"
    PROVE  WorkInv'
<1>0. thread'[t] = row /\ Workers \subseteq Threads
  BY BecomesEntry DEF TypeInv, Threads
<1>1. \A u \in Threads \ {t} : Waits(u)
  BY DEF Waits, Becomes, TypeInv, TypeOK
<1>2. Known(t)'
  BY <1>0 DEF Known, Knows
<1>. QED
  BY <1>0, <1>1, <1>2, OthersKnow DEF WorkInv

LEMMA SameRow ==
    ASSUME UNCHANGED <<job, gen>>, thrown => thrown'
    PROVE  RowKeeps
BY DEF RowKeeps

LEMMA LeaveKnows ==
    ASSUME TypeInv, ClaimInv, WorkInv, NEW t \in Threads, Leave(t), RowKeeps,
           Holds(t) \/ UNCHANGED <<job, item, manifest>>
    PROVE  WorkInv'
BY ActorKnows DEF Leave, Knows, EarlyPC, RepairPC, Idle

\* A label at which nothing has to be known.
LEMMA GoKnows ==
    ASSUME TypeInv, ClaimInv, WorkInv, NEW t \in Threads, NEW label, NEW want,
           Go(t, label) \/ GoFor(t, label, want),
           label \notin EarlyPC \cup RepairPC \cup FreshPC,
           label \notin {"intent", "publish", "finish"},
           RowKeeps, Holds(t) \/ UNCHANGED <<job, item, manifest>>
    PROVE  WorkInv'
<1>1. PICK row : /\ Becomes(t, row)
                 /\ \/ row = [thread[t] EXCEPT !.pc = label]
                    \/ row = [thread[t] EXCEPT !.pc = label, !.want = want]
  BY DEF Go, GoFor
<1>2. row.pc = label
  BY <1>1 DEF TypeInv, TypeOK, ThreadState
<1>3. Knows(t, row)'
  BY <1>2 DEF Knows, EarlyPC, RepairPC
<1>. QED  BY <1>1, <1>2, <1>3, ActorKnows

\* The labels of the worker and of the repairer before the intended end is on record.
LEMMA EarlyKnows ==
    ASSUME TypeInv, ClaimInv, WorkInv, NEW t \in Workers \cup {Repairer},
           NEW label \in {"next", "claim", "item", "fail", "audit", "repairaudit",
                          "repairfail", "repaircheck"},
           NEW want \in Target,
           \/ Go(t, label) /\ want = thread[t].want
           \/ GoFor(t, label, want),
           RowKeeps, Holds(t) \/ UNCHANGED <<job, item, manifest>>,
           t \in Workers /\ label \in {"next", "claim", "item"} => want = "none",
           Holds(t)' /\ t = Repairer /\ ~job'.cancel => job'.target = want,
           Holds(t)' /\ t \in Workers =>
               /\ job'.repair = "none" \/ (thrown' /\ want = "failed")
               /\ want = "canceled" => job'.cancel
    PROVE  WorkInv'
<1>0. t \in Threads
  BY DEF Threads
<1>1. PICK row : /\ Becomes(t, row)
                 /\ \/ /\ row = [thread[t] EXCEPT !.pc = label]
                       /\ want = thread[t].want
                    \/ row = [thread[t] EXCEPT !.pc = label, !.want = want]
  BY DEF Go, GoFor
<1>2. row.pc = label /\ row.want = want
  BY <1>0, <1>1 DEF TypeInv, TypeOK, ThreadState
<1>3. ASSUME Holds(t)' PROVE Knows(t, row)'
  BY <1>2, <1>3 DEF Knows, Failing, EarlyPC, RepairPC
<1>4. t \in Workers /\ row.pc \in FreshPC => row.want = "none"
  BY <1>2 DEF FreshPC
<1>. QED  BY <1>0, <1>1, <1>3, <1>4, ActorKnows

\* The completion of whoever holds the claim.
LEMMA CompletionWork ==
    ASSUME RowInv, ClaimInv, Aims, Intended, WorkInv, ~overtaken', thrown => thrown',
           NEW t \in Workers \cup {Repairer}, Completion(t) \/ ManifestFails(t)
    PROVE  WorkInv'
<1>. USE DEF RowInv, TypeInv, aside, history
<1>0. /\ t \in Threads /\ thread[t] \in ThreadState /\ job \in JobRow
      /\ gen' = gen /\ thread[t].want \in Target
      /\ t = Repairer => t \notin Workers
  BY CompletionClaims, WorkersAssumption DEF TypeOK, Threads, ThreadState
<1>1. CASE Audit(t)
  <2>. DEFINE want == IF thread[t].want = "none" THEN JobTerminalStatus
                      ELSE thread[t].want
  <2>r. PICK row : row = [thread[t] EXCEPT !.pc = "manifest", !.seen = item,
                                           !.want = want]
    OBVIOUS
  <2>0. /\ UNCHANGED <<job, item, manifest>>
        /\ RowKeeps
    BY <1>0, <1>1, SameRow DEF Audit
  <2>1. row.pc = "manifest" /\ row.want = want /\ row.claim = thread[t].claim
    BY <1>0, <2>r DEF ThreadState
  <2>2. want # thread[t].want => want # "canceled" /\ thread[t].want = "none"
    BY DEF JobTerminalStatus
  <2>3. t = Repairer => want = thread[t].want
    <3>1. t = Repairer => thread[t].want \in Terminal
      BY <1>0, <1>1 DEF Audit, At, Aims, Aimed
    <3>. QED  BY <3>1 DEF Terminal
  <2>4. Go(t, "defer") \/ Becomes(t, row) \/ Leave(t)
    BY <1>1, <2>r DEF Audit
  <2>5. thread[t].pc = "audit" /\ Known(t) /\ Workers \subseteq Threads
    BY <1>0, <1>1 DEF Audit, At, WorkInv, Threads
  <2>. HIDE DEF want
  <2>6. CASE Becomes(t, row)
    <3>1. ASSUME Holds(t)' PROVE Knows(t, row)'
      <4>1. Holds(t)
        <5>1. thread'[t] = row
          BY <1>0, <2>6, BecomesEntry
        <5>. QED  BY <1>0, <2>0, <2>1, <3>1, <5>1 DEF Holds
      <4>2. Knows(t, thread[t])
        BY <2>5, <4>1 DEF Known
      <4>. QED
        BY <1>0, <2>0, <2>1, <2>2, <2>3, <2>5, <4>2
           DEF Knows, Failing, RowKeeps, EarlyPC, RepairPC
    <3>. QED  BY <1>0, <2>0, <2>1, <2>6, <3>1, ActorKnows DEF FreshPC
  <2>. QED
    BY <1>0, <2>0, <2>4, <2>6, GoKnows, LeaveKnows DEF EarlyPC, RepairPC, FreshPC
<1>2. CASE BeginManifest(t)
  <2>r. PICK row : row = [thread[t] EXCEPT !.pc = "intent", !.seen = item,
                            !.blocked = CleanupPending, !.read = job]
    OBVIOUS
  <2>0. /\ UNCHANGED <<job, item, manifest>>
        /\ RowKeeps
    BY <1>0, <1>2, SameRow DEF BeginManifest
  <2>1. /\ row.pc = "intent" /\ row.want = thread[t].want /\ row.read = job
        /\ row.seen = item
    BY <1>0, <2>r DEF ThreadState
  <2>2. (Becomes(t, row) /\ Holds(t)) \/ Leave(t)
    BY <1>2, <2>r DEF BeginManifest
  <2>3. thread[t].pc = "manifest" /\ Known(t)
    BY <1>0, <1>2 DEF BeginManifest, At, WorkInv
  <2>4. CASE Becomes(t, row) /\ Holds(t)
    <3>1. Knows(t, thread[t]) /\ (thrown => thrown')
      BY <2>3, <2>4 DEF Known
    <3>2. MayClose(row) => EffectiveTarget(job, row.want) = row.want \/ Failing(row)
      <4>1. CASE t = Repairer
        BY <2>1, <2>3, <3>1, <4>1
           DEF Knows, MayClose, RepairPC, EffectiveTarget
      <4>2. CASE t \in Workers
        BY <2>1, <2>3, <3>1, <4>2
           DEF Knows, MayClose, Failing, EarlyPC, EffectiveTarget, Intended
      <4>. QED  BY <4>1, <4>2
    <3>3. MayClose(row)' => MayClose(row)
      BY <2>0 DEF MayClose
    <3>4. Failing(row) => Failing(row)'
      BY <3>1 DEF Failing
    <3>5. Knows(t, row)'
      BY <2>0, <2>1, <3>2, <3>3, <3>4 DEF Knows, EarlyPC, RepairPC
    <3>. QED  BY <1>0, <2>0, <2>1, <2>4, <3>5, ActorKnows DEF FreshPC
  <2>. QED  BY <1>0, <2>0, <2>2, <2>4, LeaveKnows
<1>3. CASE BeginManifestFinalization(t)
  <2>. DEFINE loaded == thread[t].read
              final == EffectiveTarget(loaded, thread[t].want)
              assigned == [loaded EXCEPT
                !.repair = IF @ = "none" THEN "pending" ELSE @, !.target = final]
  <2>r. PICK row : row = [thread[t] EXCEPT
                            !.pc = IF thread[t].blocked THEN "defer" ELSE "publish",
                            !.final = final, !.read = NewJob]
    OBVIOUS
  <2>0. /\ loaded \in JobRow /\ loaded.status = "running"
        /\ loaded.owner = thread[t].claim
        /\ thread[t].want \in Terminal /\ thread[t].pc = "intent"
    BY <1>0, <1>3
       DEF ThreadState, BeginManifestFinalization, RowRead, WantKnown
  <2>1. /\ Becomes(t, row) /\ job' = Flush(loaded, assigned)
        /\ UNCHANGED <<item, manifest>>
    BY <1>3, <2>r DEF BeginManifestFinalization
  <2>2. Holds(t)
    <3>1. ~MovedOn(t) /\ Claimed
      BY <1>3, Unmoved DEF BeginManifestFinalization
    <3>2. job.status = "running" /\ job.owner = thread[t].claim
      BY <2>0, <3>1 DEF MovedOn
    <3>. QED  BY <3>1, <3>2 DEF Claimed, Owned, Holds
  <2>3. /\ row.pc \in {"defer", "publish"} /\ row.want = thread[t].want
        /\ row.final = final /\ row.seen = thread[t].seen
    BY <1>0, <2>r DEF ThreadState
  <2>4. Knows(t, thread[t])
    BY <1>0, <2>2 DEF WorkInv, Known
  <2>5. MayClose(row) => final = row.want \/ Failing(row)
    BY <2>0, <2>3, <2>4 DEF Knows, MayClose, Failing
  <2>6. /\ assigned.status = loaded.status /\ assigned.owner = loaded.owner
        /\ assigned.cancel = loaded.cancel
    BY <2>0 DEF JobRow
  <2>. HIDE DEF assigned, loaded, final
  <2>7. /\ job'.status = job.status /\ job'.owner = job.owner
        /\ job'.cancel = job.cancel
    BY <2>1, <2>6 DEF Flush, Flushed
  <2>8. RowKeeps
    BY <1>0, <2>7 DEF RowKeeps
  <2>9. (MayClose(row)' => MayClose(row)) /\ (Failing(row) => Failing(row)')
    BY <2>7 DEF MayClose, Failing
  <2>10. row.seen = item'
    BY <2>0, <2>1, <2>3, <2>4 DEF Knows
  <2>11. Knows(t, row)'
    BY <2>3, <2>5, <2>9, <2>10 DEF Knows, EarlyPC, RepairPC
  <2>. QED  BY <1>0, <2>1, <2>2, <2>3, <2>8, <2>11, ActorKnows DEF FreshPC
<1>4. CASE PublishManifest(t)
  <2>0. /\ UNCHANGED <<job, item>>
        /\ RowKeeps
    BY <1>0, <1>4, SameRow DEF PublishManifest
  <2>1. CASE Holds(t)
    <3>1. PICK row : row = [thread[t] EXCEPT !.pc = "finish"]
      OBVIOUS
    <3>2. /\ row.pc = "finish" /\ row.want = thread[t].want
          /\ row.final = thread[t].final
      BY <1>0, <3>1 DEF ThreadState
    <3>3. /\ thread[t].pc = "publish" /\ Becomes(t, row)
          /\ manifest' = [status |-> thread[t].final, items |-> thread[t].seen]
      BY <1>4, <2>1, <3>1 DEF PublishManifest, At, Go
    <3>4. Knows(t, thread[t])
      BY <1>0, <2>1 DEF WorkInv, Known
    <3>5. /\ MayClose(row)' => MayClose(thread[t])
          /\ Failing(thread[t]) => Failing(row)'
      BY <2>0, <3>2 DEF MayClose, Failing, RowKeeps
    <3>6. Knows(t, row)'
      BY <2>0, <3>2, <3>3, <3>4, <3>5 DEF Knows, EarlyPC, RepairPC
    <3>. QED  BY <1>0, <2>0, <2>1, <3>2, <3>3, <3>6, ActorKnows DEF FreshPC
  <2>2. CASE ~Holds(t)
    BY <1>0, <1>4, <2>0, <2>2, LeaveKnows DEF PublishManifest
  <2>. QED  BY <2>1, <2>2
<1>5. CASE ManifestFails(t)
  <2>r. PICK row : row = [thread[t] EXCEPT !.pc = "defer", !.read = NewJob]
    OBVIOUS
  <2>1. row.pc = "defer" /\ Becomes(t, row) /\ UNCHANGED item
    BY <1>0, <1>5, <2>r DEF ManifestFails, ThreadState
  <2>2. RowKeeps
    <3>1. ManifestWarning(t) \/ UNCHANGED job
      BY <1>5 DEF ManifestFails
    <3>2. job'.status = job.status /\ job'.owner = job.owner
      BY <1>0, <3>1 DEF ManifestWarning, JobRow
    <3>. QED  BY <1>0, <3>2 DEF RowKeeps
  <2>3. Holds(t) \/ UNCHANGED <<job, item, manifest>>
    BY <1>5, <2>1 DEF ManifestFails
  <2>4. Knows(t, row)'
    BY <2>1 DEF Knows, EarlyPC, RepairPC
  <2>. QED  BY <1>0, <2>1, <2>2, <2>3, <2>4, ActorKnows DEF FreshPC
<1>6. CASE FinishJob(t)
  <2>1. CASE CanFinish(t)
    <3>1. Holds(t) /\ job' = Finished(job, thread[t].want) /\ Leave(t)
      BY <1>6, <2>1 DEF FinishJob, CanFinish
    <3>2. thread[t].want \in Terminal
      BY <1>0, <1>6 DEF FinishJob, At, WantKnown
    <3>3. RowKeeps
      BY <1>0, <3>1, <3>2 DEF RowKeeps, Finished, JobRow, Terminal
    <3>. QED  BY <1>0, <3>1, <3>3, LeaveKnows
  <2>2. CASE ~CanFinish(t)
    <3>1. Go(t, "defer") /\ UNCHANGED <<job, item, manifest>>
      BY <1>6, <2>2 DEF FinishJob
    <3>. QED  BY <1>0, <3>1, SameRow, GoKnows DEF EarlyPC, RepairPC, FreshPC
  <2>. QED  BY <2>1, <2>2
<1>7. CASE DeferManifestRepair(t)
  <2>1. CASE Holds(t)
    <3>1. /\ job'.status = "stale" /\ job'.owner = 0 /\ job'.repair = "pending"
      BY <1>0, <1>7, <2>1 DEF DeferManifestRepair, JobRow
    <3>2. RowKeeps
      BY <1>0, <3>1 DEF RowKeeps
    <3>. QED  BY <1>0, <1>7, <2>1, <3>2, LeaveKnows DEF DeferManifestRepair
  <2>2. CASE ~Holds(t)
    BY <1>0, <1>7, <2>2, SameRow, LeaveKnows DEF DeferManifestRepair
  <2>. QED  BY <2>1, <2>2
<1>. QED
  BY <1>1, <1>2, <1>3, <1>4, <1>5, <1>6, <1>7 DEF Completion

\* A new claim: no other thread's claim is the last generation any more.
LEMMA ClaimKnows ==
    ASSUME TypeInv, ClaimInv, WorkInv, NEW t \in Threads, NEW row,
           Becomes(t, row), gen' = gen + 1, Knows(t, row)',
           t \in Workers => row.want = "none"
    PROVE  WorkInv'
<1>0. /\ thread'[t] = row /\ gen \in Nat /\ Workers \subseteq Threads
      /\ \A u \in Threads : thread[u].claim \in Nat
  BY BecomesEntry DEF TypeInv, TypeOK, ThreadState, Threads
<1>1. \A u \in Threads \ {t} : thread'[u] = thread[u]
  BY DEF Becomes, TypeInv, TypeOK
<1>2. \A u \in Threads \ {t} : ~Holds(u)'
  BY <1>0, <1>1 DEF Holds, ClaimInv
<1>3. Known(t)'
  BY <1>0 DEF Known, Knows
<1>. QED  BY <1>0, <1>1, <1>2, <1>3 DEF WorkInv, Known

\* run_job up to its completion.
LEMMA WorkerWork ==
    ASSUME TypeInv, ClaimInv, WorkInv, thrown => thrown', NEW t \in Workers,
           Worker(t) \/ WorkerFailure(t), ~Completion(t)
    PROVE  WorkInv'
<1>. USE DEF TypeInv, aside, history
<1>0. /\ t \in Threads /\ thread[t] \in ThreadState /\ job \in JobRow
      /\ thread[t].want \in Target /\ t # Repairer
      /\ {"failed", "canceled"} \subseteq Target
  BY WorkersAssumption DEF TypeOK, Threads, ThreadState, Target, Terminal
<1>1. CASE ClaimJob(t)
  <2>1. CASE Claimable
    <3>1. PICK row : row = [thread[t] EXCEPT !.pc = "next", !.claim = gen + 1]
      OBVIOUS
    <3>2. row.pc = "next" /\ row.want = thread[t].want
      BY <1>0, <3>1 DEF ThreadState
    <3>3. /\ Becomes(t, row) /\ gen' = gen + 1 /\ thread[t].pc = "start"
          /\ job.repair = "none" /\ job' = [job EXCEPT !.status = "running",
                                                       !.owner = gen + 1]
      BY <1>1, <2>1, <3>1 DEF ClaimJob, At, Claimable
    <3>4. job'.repair = "none" /\ thread[t].want = "none"
      BY <1>0, <3>3 DEF JobRow, WorkInv, FreshPC
    <3>5. Knows(t, row)'
      BY <1>0, <3>2, <3>4 DEF Knows
    <3>. QED  BY <1>0, <3>2, <3>3, <3>4, <3>5, ClaimKnows
  <2>2. CASE ~Claimable
    BY <1>0, <1>1, <2>2, SameRow, LeaveKnows DEF ClaimJob
  <2>. QED  BY <2>1, <2>2
<1>2. ASSUME UNCHANGED <<job, gen>>,
             Holds(t) \/ UNCHANGED <<job, item, manifest>>,
             thread[t].pc \in EarlyPC,
             NEW label \in {"next", "claim", "item", "fail", "audit"},
             NEW want \in Target,
             \/ Go(t, label) /\ want = thread[t].want
             \/ GoFor(t, label, want),
             \/ want \in {thread[t].want, "failed"}
             \/ job.cancel /\ thread[t].pc \in FreshPC,
             label \in {"next", "claim", "item"} =>
                 want = thread[t].want /\ thread[t].pc \in FreshPC
      PROVE  WorkInv'
  <2>1. ASSUME Holds(t)' PROVE Holds(t)
    <3>1. thread'[t].claim = thread[t].claim
      BY <1>0, <1>2 DEF Go, GoFor, Becomes, TypeOK, ThreadState
    <3>. QED  BY <1>2, <2>1, <3>1 DEF Holds
  <2>2. Holds(t) => Knows(t, thread[t])
    BY <1>0 DEF WorkInv, Known
  <2>3. thread[t].pc \in FreshPC => thread[t].want = "none"
    BY DEF WorkInv
  <2>4. ASSUME Holds(t)'
        PROVE  /\ job'.repair = "none" \/ (thrown' /\ want = "failed")
               /\ want = "canceled" => job'.cancel
    BY <1>2, <2>1, <2>2, <2>3, <2>4 DEF Knows, Failing
  <2>. QED  BY <1>0, <1>2, <2>3, <2>4, SameRow, EarlyKnows
<1>3. CASE NextItem(t)
  <2>0. /\ UNCHANGED <<job, gen, item, manifest>> /\ thread[t].pc = "next"
    BY <1>3 DEF NextItem, At
  <2>1. CASE Go(t, "audit")
    BY <1>0, <1>2, <2>0, <2>1 DEF EarlyPC, FreshPC
  <2>2. CASE GoFor(t, "fail", "canceled") /\ job.cancel
    BY <1>0, <1>2, <2>0, <2>2 DEF EarlyPC, FreshPC
  <2>3. ASSUME NEW i, Becomes(t, [thread[t] EXCEPT !.pc = "claim", !.item = i])
        PROVE  WorkInv'
    <3>1. PICK row : row = [thread[t] EXCEPT !.pc = "claim", !.item = i]
      OBVIOUS
    <3>2. /\ row.pc = "claim" /\ row.want = thread[t].want
          /\ row.claim = thread[t].claim /\ Becomes(t, row)
      BY <1>0, <2>3, <3>1 DEF ThreadState
    <3>3. ASSUME Holds(t)' PROVE Knows(t, row)'
      <4>1. Holds(t)
        BY <1>0, <2>0, <3>2, <3>3, BecomesEntry DEF Holds
      <4>2. Knows(t, thread[t])
        BY <1>0, <4>1 DEF WorkInv, Known
      <4>. QED  BY <1>0, <2>0, <3>2, <4>2 DEF Knows, Failing, EarlyPC
    <3>4. row.want = "none"
      BY <2>0, <3>2 DEF WorkInv, FreshPC
    <3>. QED  BY <1>0, <2>0, <3>2, <3>3, <3>4, SameRow, ActorKnows
  <2>. QED  BY <1>3, <2>1, <2>2, <2>3 DEF NextItem
<1>4. CASE ClaimItem(t)
  <2>0. UNCHANGED <<job, gen, manifest>> /\ thread[t].pc = "claim"
    BY <1>4 DEF ClaimItem, At
  <2>1. CASE Go(t, "item") /\ Holds(t)
    BY <1>0, <1>2, <2>0, <2>1 DEF EarlyPC, FreshPC
  <2>2. CASE Leave(t) /\ UNCHANGED item
    BY <1>0, <2>0, <2>2, SameRow, LeaveKnows
  <2>. QED  BY <1>4, <2>1, <2>2 DEF ClaimItem
<1>5. CASE ItemAction(t) /\ ~ItemClaimLost(t)
  <2>0. /\ UNCHANGED <<job, gen, manifest>> /\ Holds(t) /\ thread[t].pc = "item"
        /\ Go(t, "next") \/ UNCHANGED thread
           \/ (GoFor(t, "fail", "canceled") /\ job.cancel)
    BY <1>5 DEF ItemAction, ItemProgress, ItemRetry, ItemComplete, ItemFailed,
                ItemCanceled, ItemStep, At
  <2>1. CASE Go(t, "next")
    BY <1>0, <1>2, <2>0, <2>1 DEF EarlyPC, FreshPC
  <2>2. CASE GoFor(t, "fail", "canceled") /\ job.cancel
    BY <1>0, <1>2, <2>0, <2>2 DEF EarlyPC, FreshPC
  <2>3. CASE UNCHANGED thread
    <3>1. \A u \in Threads : Waits(u)
      BY <2>3 DEF Waits
    <3>2. RowKeeps
      BY <2>0, SameRow
    <3>3. Knows(t, thread[t])
      BY <1>0, <2>0 DEF WorkInv, Known
    <3>4. Known(t)'
      BY <2>0, <2>3, <3>3 DEF Known, Knows, Failing, EarlyPC
    <3>5. \A u \in Workers : thread'[u].pc \in FreshPC =>
              thread'[u].want = "none"
      BY <2>3 DEF WorkInv
    <3>. QED  BY <1>0, <2>0, <3>1, <3>2, <3>4, <3>5, OthersKnow DEF WorkInv
  <2>. QED  BY <2>0, <2>1, <2>2, <2>3
<1>6. CASE ItemClaimLost(t)
  BY <1>0, <1>6, SameRow, LeaveKnows DEF ItemClaimLost
<1>7. CASE WorkerFailAll(t)
  <2>0. UNCHANGED <<job, gen, manifest>> /\ thread[t].pc = "fail"
    BY <1>7 DEF WorkerFailAll, At
  <2>1. CASE Go(t, "audit") /\ Holds(t)
    BY <1>0, <1>2, <2>0, <2>1 DEF EarlyPC
  <2>2. CASE Leave(t) /\ UNCHANGED item
    BY <1>0, <2>0, <2>2, SameRow, LeaveKnows
  <2>. QED  BY <1>7, <2>1, <2>2 DEF WorkerFailAll
<1>8. CASE WorkerFailure(t)
  <2>0. UNCHANGED <<job, gen, item, manifest>> /\ RowKeeps
    BY <1>8, SameRow DEF WorkerFailure
  <2>1. CASE Leave(t)
    BY <1>0, <2>0, <2>1, LeaveKnows
  <2>2. CASE Go(t, "defer")
    <3>1. PICK row : row = [thread[t] EXCEPT !.pc = "defer"]
      OBVIOUS
    <3>2. Becomes(t, row) /\ row.pc = "defer"
      BY <1>0, <2>2, <3>1 DEF Go, ThreadState
    <3>3. Knows(t, row)'
      BY <3>2 DEF Knows, EarlyPC, RepairPC
    <3>. QED  BY <1>0, <2>0, <3>2, <3>3, ActorKnows DEF FreshPC
  <2>3. CASE ~Leave(t) /\ ~Go(t, "defer")
    <3>1. PICK row : row = [thread[t] EXCEPT !.pc = "fail", !.want = "failed",
                                             !.handling = TRUE]
      OBVIOUS
    <3>2. /\ Becomes(t, row) /\ (thread[t].pc = "finish" => thrown')
          /\ thread[t].pc \in EarlyPC \cup {"finish"}
      BY <1>8, <2>3, <3>1 DEF WorkerFailure, EarlyPC
    <3>3. /\ row.pc = "fail" /\ row.want = "failed"
          /\ row.claim = thread[t].claim
      BY <1>0, <3>1 DEF ThreadState
    <3>4. ASSUME Holds(t)' PROVE job.repair = "none" \/ thrown'
      <4>1. thread'[t] = row
        BY <1>0, <3>2, BecomesEntry
      <4>2. Holds(t)
        BY <2>0, <3>3, <3>4, <4>1 DEF Holds
      <4>3. Knows(t, thread[t])
        BY <1>0, <4>2 DEF WorkInv, Known
      <4>. QED  BY <3>2, <4>3 DEF Knows, Failing
    <3>5. ASSUME Holds(t)' PROVE Knows(t, row)'
      BY <1>0, <2>0, <3>3, <3>4, <3>5 DEF Knows, Failing, EarlyPC, RepairPC
    <3>. QED  BY <1>0, <2>0, <3>2, <3>3, <3>5, ActorKnows DEF FreshPC
  <2>. QED  BY <2>1, <2>2, <2>3
<1>. QED
  BY <1>1, <1>3, <1>4, <1>5, <1>6, <1>7, <1>8 DEF Worker

\* reconcile_manifest_repairs up to its completion.
LEMMA RepairWork ==
    ASSUME TypeInv, ClaimInv, Aims, WorkInv, thrown => thrown',
           RepairStep \/ RepairFailure, ~Completion(Repairer)
    PROVE  WorkInv'
<1>. USE DEF TypeInv, aside, history
<1>. DEFINE t == Repairer
<1>0. /\ t \in Threads /\ thread[t] \in ThreadState /\ job \in JobRow
      /\ thread[t].want \in Target /\ t \notin Workers
      /\ "canceled" \in Target /\ t \in Workers \cup {Repairer}
  BY WorkersAssumption DEF TypeOK, Threads, ThreadState, Target, Terminal
<1>1. CASE RepairScan
  BY <1>0, <1>1, SameRow, GoKnows DEF RepairScan, EarlyPC, RepairPC, FreshPC
<1>2. CASE ClaimManifestRepairJob
  <2>1. CASE RepairWaits /\ ~CleanupPending
    <3>1. PICK row : row = [thread[t] EXCEPT !.pc = "repairtarget",
                                             !.claim = gen + 1]
      OBVIOUS
    <3>2. row.pc = "repairtarget"
      BY <1>0, <3>1 DEF ThreadState
    <3>3. /\ Becomes(t, row) /\ gen' = gen + 1
          /\ job' = [job EXCEPT !.status = "running", !.repair = "repairing",
                                !.owner = gen + 1]
      BY <1>2, <2>1, <3>1 DEF ClaimManifestRepairJob
    <3>4. Knows(t, row)'
      BY <3>2 DEF Knows, EarlyPC, RepairPC
    <3>. QED  BY <1>0, <3>2, <3>3, <3>4, ClaimKnows
  <2>2. CASE ~(RepairWaits /\ ~CleanupPending)
    BY <1>0, <1>2, <2>2, SameRow, LeaveKnows DEF ClaimManifestRepairJob
  <2>. QED  BY <2>1, <2>2
<1>3. ASSUME gen' = gen, NEW target, target \in Target \ {"none"},
             UNCHANGED manifest, job' = [job EXCEPT !.target = target]
      PROVE  /\ RowKeeps
             /\ job'.target = target /\ job'.cancel = job.cancel
  BY <1>0, <1>3 DEF RowKeeps, JobRow
<1>4. ASSUME UNCHANGED <<job, gen>>,
             Holds(t) \/ UNCHANGED <<job, item, manifest>>,
             thread[t].pc \in RepairPC,
             NEW label \in {"audit", "repairfail", "repaircheck"},
             NEW want \in Target,
             \/ Go(t, label) /\ want = thread[t].want
             \/ GoFor(t, label, want),
             want = thread[t].want
      PROVE  WorkInv'
  <2>1. ASSUME Holds(t)' PROVE Holds(t)
    <3>1. thread'[t].claim = thread[t].claim
      BY <1>0, <1>4 DEF Go, GoFor, Becomes, TypeOK, ThreadState
    <3>. QED  BY <1>4, <2>1, <3>1 DEF Holds
  <2>2. Holds(t) => Knows(t, thread[t])
    BY <1>0 DEF WorkInv, Known
  <2>3. Holds(t)' /\ ~job'.cancel => job'.target = want
    BY <1>4, <2>1, <2>2 DEF Knows
  <2>. QED  BY <1>0, <1>4, <2>3, SameRow, EarlyKnows
<1>5. CASE SetManifestRepairTarget
  <2>1. CASE Repairing
    <3>. DEFINE target == IF job.cancel THEN "canceled" ELSE thread[t].want
    <3>1. thread[t].want \in Terminal
      BY <1>0, <1>5 DEF SetManifestRepairTarget, At, Aims, Aimed, AimedPC
    <3>2. target \in Target \ {"none"}
      BY <3>1 DEF Target, Terminal
    <3>3. /\ Holds(t) /\ gen' = gen
          /\ UNCHANGED <<manifest, item>> /\ Go(t, "repairaudit")
          /\ job' = [job EXCEPT !.target = target]
      BY <1>5, <2>1 DEF SetManifestRepairTarget, Repairing
    <3>4. /\ RowKeeps
          /\ job'.target = target /\ job'.cancel = job.cancel
      BY <1>3, <3>2, <3>3
    <3>. QED  BY <1>0, <3>3, <3>4, EarlyKnows
  <2>2. CASE ~Repairing
    BY <1>0, <1>5, <2>2, SameRow, LeaveKnows DEF SetManifestRepairTarget
  <2>. QED  BY <2>1, <2>2
<1>6. CASE RepairAudit
  <2>0. PICK label \in {"repairfail", "repaircheck"} :
           GoFor(t, label, IF Repairing /\ job.cancel THEN "canceled"
                           ELSE thread[t].want)
    BY <1>6 DEF RepairAudit
  <2>1. CASE Repairing /\ job.cancel
    <3>1. /\ Holds(t) /\ gen' = gen
          /\ UNCHANGED <<manifest, item>> /\ GoFor(t, label, "canceled")
          /\ job' = [job EXCEPT !.target = "canceled"]
      BY <1>6, <2>0, <2>1 DEF RepairAudit, Repairing
    <3>2. /\ RowKeeps
          /\ job'.target = "canceled" /\ job'.cancel = job.cancel
      BY <1>0, <1>3, <3>1
    <3>. QED  BY <1>0, <3>1, <3>2, EarlyKnows
  <2>2. CASE ~(Repairing /\ job.cancel)
    BY <1>0, <1>4, <1>6, <2>0, <2>2 DEF RepairAudit, At, RepairPC
  <2>. QED  BY <2>1, <2>2
<1>7. CASE RepairFailAll
  <2>1. CASE Holds(t)
    BY <1>0, <1>4, <1>7, <2>1 DEF RepairFailAll, At, RepairPC
  <2>2. CASE ~Holds(t)
    BY <1>0, <1>7, <2>2, SameRow, LeaveKnows DEF RepairFailAll
  <2>. QED  BY <2>1, <2>2
<1>8. CASE RepairCheck
  <2>1. CASE Repairing /\ job.cancel
    <3>1. /\ Holds(t) /\ gen' = gen
          /\ UNCHANGED manifest /\ GoFor(t, "audit", "canceled")
          /\ job' = [job EXCEPT !.target = "canceled"]
      BY <1>8, <2>1 DEF RepairCheck, Repairing
    <3>2. /\ RowKeeps
          /\ job'.target = "canceled" /\ job'.cancel = job.cancel
      BY <1>0, <1>3, <3>1
    <3>. QED  BY <1>0, <3>1, <3>2, EarlyKnows
  <2>2. CASE ~(Repairing /\ job.cancel)
    BY <1>0, <1>4, <1>8, <2>2 DEF RepairCheck, At, RepairPC
  <2>. QED  BY <2>1, <2>2
<1>9. CASE RepairFailure
  <2>1. UNCHANGED <<job, gen, item, manifest>> /\ RowKeeps
    BY <1>9, SameRow DEF RepairFailure
  <2>2. CASE Leave(t)
    BY <1>0, <2>1, <2>2, LeaveKnows
  <2>3. CASE ~Leave(t)
    <3>1. PICK row : row = [thread[t] EXCEPT !.pc = "defer", !.handling = TRUE]
      OBVIOUS
    <3>2. Becomes(t, row) /\ row.pc = "defer"
      BY <1>0, <1>9, <2>3, <3>1 DEF RepairFailure, ThreadState
    <3>3. Knows(t, row)'
      BY <3>2 DEF Knows, EarlyPC, RepairPC
    <3>. QED  BY <1>0, <2>1, <3>2, <3>3, ActorKnows
  <2>. QED  BY <2>2, <2>3
<1>. QED
  BY <1>1, <1>2, <1>5, <1>6, <1>7, <1>8, <1>9 DEF RepairStep

LEMMA StartWaits ==
    ASSUME TypeOK, UNCHANGED thread \/ StartThread
    PROVE  /\ \A u \in Threads : Waits(u)
           /\ WorkInv => \A u \in Workers : thread'[u].pc \in FreshPC =>
                 thread'[u].want = "none"
<1>0. Workers \subseteq Threads /\ \A u \in Threads : thread[u] \in ThreadState
  BY DEF TypeOK, Threads
<1>1. CASE UNCHANGED thread
  BY <1>1 DEF Waits, WorkInv
<1>2. CASE StartThread
  <2>1. PICK w \in Workers : thread[w].pc = "idle" /\ Go(w, "start")
    BY <1>2 DEF StartThread
  <2>2. /\ thread'[w] = [thread[w] EXCEPT !.pc = "start"]
        /\ \A u \in Threads \ {w} : thread'[u] = thread[u]
    BY <1>0, <2>1 DEF Go, Becomes, TypeOK
  <2>3. thread'[w].want = thread[w].want
    BY <1>0, <2>2 DEF ThreadState
  <2>. QED  BY <1>0, <2>1, <2>2, <2>3 DEF Waits, WorkInv, FreshPC
<1>. QED  BY <1>1, <1>2

\* A cancellation stays on record until resume_job requeues the job.
LEMMA CancelStays ==
    ASSUME RowInv, [Next]_vars, job.cancel
    PROVE  job'.cancel \/ job'.status = "queued"
<1>. USE DEF RowInv, TypeInv, aside, history
<1>0. job \in JobRow /\ \A t \in Threads : thread[t].read \in JobRow
  BY DEF TypeOK, ThreadState
<1>1. ASSUME NEW t \in Threads, Completion(t) \/ ManifestFails(t)
      PROVE  job'.cancel
  <2>1. CASE BeginManifestFinalization(t)
    <3>. DEFINE loaded == thread[t].read
                assigned == [loaded EXCEPT
                  !.repair = IF @ = "none" THEN "pending" ELSE @,
                  !.target = EffectiveTarget(loaded, thread[t].want)]
    <3>1. job' = Flush(loaded, assigned) /\ assigned.cancel = loaded.cancel
      BY <1>0, <2>1 DEF BeginManifestFinalization, JobRow
    <3>. HIDE DEF assigned
    <3>. QED  BY <3>1 DEF Flush, Flushed
  <2>. QED
    BY <1>0, <1>1, <2>1
       DEF Completion, Audit, BeginManifest, PublishManifest, FinishJob, Finished,
           DeferManifestRepair, ManifestFails, ManifestWarning, JobRow
<1>2. ASSUME NEW c \in Callers, CancelJobWrite(c)
      PROVE  job'.cancel
  <2>. DEFINE loaded == thread[c].read  assigned == CancelOf(loaded)
  <2>1. job' = Flush(loaded, assigned) /\ loaded \in JobRow
    BY <1>0, <1>2 DEF CancelJobWrite, Threads
  <2>2. assigned.cancel = TRUE
    BY <2>1 DEF CancelOf, CancelRequested, JobRow
  <2>. HIDE DEF loaded, assigned
  <2>. QED  BY <2>1, <2>2 DEF Flush, Flushed
<1>3. ASSUME NEW c \in Callers, ResumeJobWrite(c)
      PROVE  job'.status = "queued"
  <2>. DEFINE loaded == thread[c].read  assigned == ResumeOf(loaded)
  <2>1. /\ job' = Flush(loaded, assigned) /\ loaded \in JobRow
        /\ loaded.status # "queued"
    BY <1>0, <1>3 DEF ResumeJobWrite, RowRead, Threads
  <2>2. assigned.status = "queued"
    BY <2>1 DEF ResumeOf, JobRow
  <2>. HIDE DEF loaded, assigned
  <2>. QED  BY <2>1, <2>2 DEF Flush, Flushed
<1>4. ASSUME NEW t \in Workers, Worker(t) \/ WorkerFailure(t), ~Completion(t)
      PROVE  job'.cancel
  BY <1>0, <1>4
     DEF Worker, WorkerFailure, ClaimJob, NextItem, ClaimItem, ItemAction,
         ItemProgress, ItemRetry, ItemComplete, ItemFailed, ItemCanceled,
         ItemClaimLost, ItemStep, WorkerFailAll, JobRow
<1>5. ASSUME RepairStep \/ RepairFailure, ~Completion(Repairer)
      PROVE  job'.cancel
  BY <1>0, <1>5
     DEF RepairStep, RepairFailure, RepairScan, ClaimManifestRepairJob,
         SetManifestRepairTarget, RepairAudit, RepairFailAll, RepairCheck, JobRow
<1>6. CASE \/ StartJob \/ Recovery \/ Crash \/ Lapse \/ UNCHANGED vars
           \/ \E c \in Callers : CancelJob(c) \/ ResumeJob(c)
  BY <1>0, <1>6
     DEF StartJob, Recovery, RecoverStaleJobs, RecoveredRepair,
         PromoteCleanupReadyJobs, CleanupPartItem, Crash, Lapse, CancelJob,
         ResumeJob, Request, vars, JobRow
<1>. QED
  BY <1>1, <1>2, <1>3, <1>4, <1>5, <1>6
     DEF Next, Failure, Write, Worker, RepairStep, Threads

\* A cancellation that cancel_job has found on a job that runs is still there while
\* the same claim is.
CancelRead == \A t \in Threads :
    /\ thread[t].pc = "cancel" /\ thread[t].read.status = "running"
    /\ thread[t].read.cancel
    /\ job.status = "running" /\ job.owner = thread[t].read.owner
    => job.cancel

LEMMA CancelReadStep ==
    ASSUME RowInv, CancelRead, ~overtaken', [Next]_vars
    PROVE  CancelRead'
<1>1. ASSUME NEW t \in Threads, thread'[t] # thread[t], thread'[t].pc = "cancel",
             thread'[t].read.cancel
      PROVE  job'.cancel
  BY <1>1, SelectStep DEF RowInv, WindowPC, vars
<1>2. ASSUME NEW t \in Threads, thread'[t] = thread[t], thread[t].pc = "cancel",
             thread[t].read.status = "running", thread[t].read.cancel,
             job'.status = "running", job'.owner = thread[t].read.owner
      PROVE  job'.cancel
  <2>1. job.status = "running" /\ job.owner = thread[t].read.owner
    <3>1. thread[t].read.owner <= gen /\ gen \in Nat /\ thread[t].read.owner \in Nat
      BY <1>2 DEF RowInv, RowRead, WindowPC, TypeInv, TypeOK, ThreadState, JobRow
    <3>2. job.status \in JobStatus /\ thread[t].read.owner # gen + 1
      BY <3>1 DEF RowInv, TypeInv, TypeOK, JobRow
    <3>3. Lease!Next \/ UNCHANGED <<Phase, job.owner, gen>>
      BY RowStep DEF LeaseMove
    <3>. QED
      BY <1>2, <3>2, <3>3
         DEF Phase, JobStatus, Lease!Next, Lease!Claim, Lease!Close, Lease!Defer,
             Lease!TakeOver, Lease!Reopen
  <2>2. job.cancel
    BY <1>2, <2>1 DEF CancelRead
  <2>. QED  BY <1>2, <2>2, CancelStays
<1>. QED  BY <1>1, <1>2 DEF CancelRead

\* start_job, recovery, the user's requests and the environment.
LEMMA OtherWork ==
    ASSUME RowInv, ClaimInv, CancelRead, WorkInv, ~overtaken', thrown => thrown',
           \/ StartJob \/ RecoverStaleJobs \/ PromoteCleanupReadyJobs
           \/ \E i \in Items : CleanupPartItem(i)
           \/ \E c \in Callers : CancelJob(c) \/ ResumeJob(c) \/ Write(c)
           \/ Crash \/ Lapse \/ UNCHANGED vars
    PROVE  WorkInv'
<1>. USE DEF RowInv, TypeInv, aside, history
<1>0. /\ \A u \in Threads : thread[u] \in ThreadState
      /\ job \in JobRow /\ Workers \subseteq Threads /\ Callers \subseteq Threads
      /\ gen \in Nat
  BY DEF TypeOK, Threads
<1>1. CASE \/ StartJob \/ Lapse \/ UNCHANGED vars
           \/ \E i \in Items : CleanupPartItem(i)
  <2>0. /\ UNCHANGED <<job, gen, item, manifest>>
        /\ UNCHANGED thread \/ StartThread
    BY <1>1 DEF StartJob, Lapse, CleanupPartItem, vars
  <2>2. \A u \in Threads : Waits(u)
    BY <2>0, StartWaits
  <2>3. ASSUME NEW t \in Threads PROVE Known(t)'
    <3>1. CASE thread'[t] = thread[t]
      BY <2>0, <3>1 DEF WorkInv, Known, Knows, Holds, MayClose, Failing
    <3>2. CASE thread'[t] = [thread[t] EXCEPT !.pc = "start"]
      <4>1. thread'[t].pc = "start"
        BY <1>0, <3>2 DEF ThreadState
      <4>. QED  BY <4>1 DEF Known, Knows, EarlyPC, RepairPC
    <3>. QED  BY <2>2, <3>1, <3>2 DEF Waits
  <2>4. \A u \in Workers : thread'[u].pc \in FreshPC =>
            thread'[u].want = "none"
    BY <2>0, StartWaits
  <2>. QED  BY <2>3, <2>4 DEF WorkInv
<1>2. CASE RecoverStaleJobs \/ PromoteCleanupReadyJobs
  <2>0. UNCHANGED thread \/ StartThread
    BY <1>2 DEF RecoverStaleJobs, PromoteCleanupReadyJobs
  <2>1. \A u \in Workers : thread'[u].pc \in FreshPC =>
            thread'[u].want = "none"
    BY <2>0, StartWaits
  <2>2. CASE UNCHANGED job /\ PromoteCleanupReadyJobs
    <3>1. UNCHANGED thread \/ StartThread
      BY <2>0
    <3>2. /\ UNCHANGED <<job, gen, item, manifest>>
      BY <2>2 DEF PromoteCleanupReadyJobs
    <3>3. \A u \in Threads : Waits(u)
      BY <2>0, StartWaits
    <3>4. ASSUME NEW t \in Threads PROVE Known(t)'
      <4>1. CASE thread'[t] = thread[t]
        BY <3>2, <4>1 DEF WorkInv, Known, Knows, Holds, MayClose, Failing
      <4>2. CASE thread'[t] = [thread[t] EXCEPT !.pc = "start"]
        <5>1. thread'[t].pc = "start"
          BY <1>0, <4>2 DEF ThreadState
        <5>. QED  BY <5>1 DEF Known, Knows, EarlyPC, RepairPC
      <4>. QED  BY <3>3, <4>1, <4>2 DEF Waits
    <3>. QED  BY <2>1, <3>2, <3>4 DEF WorkInv
  <2>3. CASE ~(UNCHANGED job /\ PromoteCleanupReadyJobs)
    <3>1. job'.status \in {"stale", "queued"}
      BY <1>0, <1>2, <2>3
         DEF RecoverStaleJobs, PromoteCleanupReadyJobs, RecoveredRepair, JobRow
    <3>. QED  BY <2>1, <3>1, NobodyKnows DEF Holds
  <2>. QED  BY <2>2, <2>3
<1>3. ASSUME NEW c \in Callers, NEW label \in {"cancel", "resume"},
             Request(c, label)
      PROVE  WorkInv'
  <2>1. PICK row : row = [thread[c] EXCEPT !.pc = label, !.read = job, !.seen = item]
    OBVIOUS
  <2>2. row.pc = label /\ Becomes(c, row)
    BY <1>0, <1>3, <2>1 DEF ThreadState, Request
  <2>3. Knows(c, row)'
    BY <2>2 DEF Knows, EarlyPC, RepairPC
  <2>4. UNCHANGED <<job, gen, item, manifest>>
    BY <1>3 DEF Request
  <2>. QED  BY <1>0, <2>2, <2>3, <2>4, SameRow, ActorKnows DEF FreshPC
<1>4. ASSUME NEW c \in Callers, CancelJobWrite(c)
      PROVE  WorkInv'
  <2>. DEFINE loaded == thread[c].read  assigned == CancelOf(loaded)
  <2>0. /\ job' = Flush(loaded, assigned) /\ Leave(c) /\ loaded \in JobRow
        /\ UNCHANGED <<gen, item, manifest>> /\ thread[c].pc = "cancel"
    BY <1>0, <1>4 DEF CancelJobWrite, ThreadState
  <2>1. /\ thread'[c] = Idle
        /\ \A u \in Threads \ {c} : thread'[u] = thread[u]
    BY <1>0, <2>0 DEF Leave, Becomes, TypeOK
  <2>2. \A u \in Workers : thread'[u].pc \in FreshPC =>
            thread'[u].want = "none"
    BY <1>0, <2>1 DEF WorkInv, Idle
  <2>3. job.status = loaded.status /\ job.owner = loaded.owner
    BY <1>4, Unmoved DEF CancelJobWrite, MovedOn
  <2>4. CASE loaded.status # "running"
    <3>1. assigned.status \in {loaded.status, "stale"}
      BY <2>0 DEF CancelOf, CancelRequested, JobRow
    <3>. HIDE DEF loaded, assigned
    <3>2. job'.status \in {job.status, "stale"}
      BY <2>0, <3>1 DEF Flush, Flushed
    <3>. QED  BY <2>2, <2>3, <2>4, <3>2, NobodyKnows DEF Holds
  <2>5. CASE loaded.status = "running"
    <3>1. loaded.cancel => job.cancel
      BY <1>0, <2>0, <2>3, <2>5 DEF CancelRead
    <3>. HIDE DEF loaded
    <3>2. /\ assigned.status = loaded.status /\ assigned.owner = loaded.owner
          /\ assigned.cancel /\ assigned.repair = loaded.repair
          /\ assigned.cancel = TRUE
      BY <2>0, <2>5 DEF CancelOf, CancelRequested, JobRow
    <3>. HIDE DEF assigned
    <3>3. /\ job'.status = job.status /\ job'.owner = job.owner
          /\ job'.repair = job.repair
      BY <2>0, <3>2 DEF Flush, Flushed
    <3>4. job'.cancel = TRUE
      BY <1>0, <2>0, <3>1, <3>2 DEF Flush, Flushed, JobRow
    <3>5. ASSUME NEW u \in Threads, Holds(u)' PROVE Knows(u, thread[u])'
      <4>1. u # c
        BY <2>1, <3>5 DEF Holds, Idle
      <4>2. Holds(u)
        BY <2>0, <2>1, <3>3, <3>5, <4>1 DEF Holds
      <4>3. Knows(u, thread[u]) /\ thread'[u] = thread[u]
        BY <2>1, <4>1, <4>2 DEF WorkInv, Known
      <4>. QED  BY <2>0, <3>3, <3>4, <4>3 DEF Knows, MayClose, Failing
    <3>. QED  BY <2>2, <3>5 DEF WorkInv, Known
  <2>. QED  BY <2>4, <2>5
<1>5. ASSUME NEW c \in Callers, ResumeJobWrite(c)
      PROVE  WorkInv'
  <2>. DEFINE loaded == thread[c].read  assigned == ResumeOf(loaded)
  <2>1. PICK w \in Workers : /\ thread[w].pc = "idle"
          /\ thread' = [thread EXCEPT ![c] = Idle, ![w] = [@ EXCEPT !.pc = "start"]]
    BY <1>5 DEF ResumeJobWrite
  <2>2. w # c /\ [thread[w] EXCEPT !.pc = "start"].want = thread[w].want
    BY <1>0, <2>1, WorkersAssumption DEF ThreadState
  <2>3. \A u \in Workers : thread'[u].pc \in FreshPC =>
            thread'[u].want = "none"
    BY <1>0, <2>1, <2>2 DEF WorkInv, Idle, TypeOK, FreshPC
  <2>4. /\ job' = Flush(loaded, assigned) /\ loaded \in JobRow
        /\ loaded.status # "queued"
    BY <1>0, <1>5 DEF ResumeJobWrite, RowRead, ThreadState
  <2>. HIDE DEF loaded
  <2>5. assigned.status = "queued"
    BY <2>4 DEF ResumeOf, JobRow
  <2>6. job'.status = "queued"
    BY <2>4, <2>5 DEF Flush, Flushed
  <2>. QED  BY <2>3, <2>6, NobodyKnows DEF Holds, WorkInv
<1>6. CASE Crash
  <2>1. /\ job' = job /\ \A u \in Threads : thread'[u] = Idle
    BY <1>6 DEF Crash
  <2>. QED  BY <1>0, <2>1, NobodyKnows DEF Holds, Idle, WorkInv
<1>. QED
  BY <1>1, <1>2, <1>3, <1>4, <1>5, <1>6 DEF CancelJob, ResumeJob, Write

\* The items of a job that is closed change only when resume_job reopens it.
LEMMA ItemsKept ==
    ASSUME TypeInv, RowRead, Next
    PROVE  item' = item \/ job.status = "running" \/ job'.status = "queued"
<1>1. CASE \E c \in Callers : ResumeJobWrite(c)
  <2>1. PICK c \in Callers : ResumeJobWrite(c)
    BY <1>1
  <2>. DEFINE loaded == thread[c].read
  <2>2. /\ job' = Flush(loaded, ResumeOf(loaded)) /\ loaded \in JobRow
        /\ loaded.status # "queued"
    BY <2>1 DEF ResumeJobWrite, RowRead, ThreadState, TypeInv, TypeOK, Threads
  <2>. HIDE DEF loaded
  <2>3. ResumeOf(loaded).status = "queued"
    BY <2>2 DEF ResumeOf, JobRow
  <2>. QED  BY <2>2, <2>3 DEF Flush, Flushed
<1>2. ASSUME NEW t \in Workers, Worker(t) \/ WorkerFailure(t), ~Completion(t)
      PROVE  item' = item \/ job.status = "running"
  BY <1>2
     DEF Worker, WorkerFailure, ClaimJob, NextItem, ClaimItem, ItemAction,
         ItemProgress, ItemRetry, ItemComplete, ItemFailed, ItemCanceled,
         ItemClaimLost, ItemStep, WorkerFailAll, Holds
<1>3. ASSUME NEW t \in Threads, Completion(t) \/ ManifestFails(t)
      PROVE  item' = item
  BY <1>3
     DEF Completion, Audit, BeginManifest, BeginManifestFinalization,
         PublishManifest, FinishJob, DeferManifestRepair, ManifestFails
<1>4. ASSUME RepairStep \/ RepairFailure, ~Completion(Repairer)
      PROVE  item' = item \/ job.status = "running"
  BY <1>4
     DEF RepairStep, RepairFailure, RepairScan, ClaimManifestRepairJob,
         SetManifestRepairTarget, RepairAudit, RepairFailAll, RepairCheck,
         Repairing, Holds
<1>5. CASE \/ StartJob \/ Recovery \/ Crash \/ Lapse
           \/ \E c \in Callers : CancelJob(c) \/ ResumeJob(c) \/ CancelJobWrite(c)
  BY <1>5
     DEF StartJob, Recovery, RecoverStaleJobs, PromoteCleanupReadyJobs, Stale,
         CleanupPartItem, Crash, Lapse, CancelJob, ResumeJob, Request,
         CancelJobWrite
<1>. QED
  BY <1>1, <1>2, <1>3, <1>4, <1>5
     DEF Next, Failure, Write, Worker, RepairStep, Threads

AgreeInv == overtaken \/ (CancelRead /\ WorkInv)

LEMMA AgreeStep ==
    ASSUME RowInv, ClaimInv, Aims, IntentInv, AgreeInv, [Next]_vars
    PROVE  AgreeInv'
<1>1. CASE overtaken'
  BY <1>1 DEF AgreeInv
<1>2. CASE ~overtaken'
  <2>1. /\ ~overtaken /\ (thrown => thrown')
        /\ TypeInv /\ CancelRead /\ WorkInv /\ Intended
    BY <1>2, HistoryStep DEF RowInv, AgreeInv, IntentInv
  <2>2. CancelRead'
    BY <1>2, <2>1, CancelReadStep
  <2>3. ASSUME NEW t \in Workers,
               Worker(t) \/ WorkerFailure(t) \/ ManifestFails(t)
        PROVE  WorkInv'
    BY <1>2, <2>1, <2>3, WorkerWork, CompletionWork DEF Worker
  <2>4. ASSUME RepairStep \/ RepairFailure \/ ManifestFails(Repairer)
        PROVE  WorkInv'
    BY <1>2, <2>1, <2>4, RepairWork, CompletionWork DEF RepairStep
  <2>5. WorkInv'
    BY <1>2, <2>1, <2>3, <2>4, OtherWork DEF Next, Recovery, Failure
  <2>. QED  BY <2>2, <2>5 DEF AgreeInv
<1>. QED  BY <1>1, <1>2

\* The manifest that a closed job names is the one of its last completion: it states
\* the status _finish_job wrote and the statuses the items have, whatever crashes,
\* cancellations, takeovers and repairs came before.  Two things end that: a flush
\* over a row that had moved on, and a _finish_job of a worker that raised, whose
\* handler closes the job FAILED under the manifest of the end already on record.
THEOREM ManifestAgreesWithJob == Spec => []ManifestAgrees
<1>. DEFINE Inv == RowInv /\ ClaimInv /\ Aims /\ IntentInv /\ AgreeInv
<1>1. Init => Inv /\ ManifestAgrees
  <2>. SUFFICES ASSUME Init PROVE Inv /\ ManifestAgrees
    OBVIOUS
  <2>1. RowInv /\ Aims /\ IntentInv
    BY RowInit, IntentInit
  <2>2. ClaimInv /\ CancelRead
    BY DEF Init, ClaimInv, CancelRead, Idle
  <2>3. WorkInv
    BY DEF Init, WorkInv, Known, Holds, Idle, NewJob, Threads
  <2>4. ManifestAgrees
    BY DEF Init, ManifestAgrees, NewJob, Terminal
  <2>. QED  BY <2>1, <2>2, <2>3, <2>4 DEF AgreeInv
<1>2. Inv /\ [Next]_vars => Inv'
  BY RowStep, ClaimInvStep, AimsStep, IntentStep, AgreeStep DEF RowInv, TypeInv
<1>3. Inv /\ ManifestAgrees /\ [Next]_vars => ManifestAgrees'
  <2>. SUFFICES ASSUME Inv, ManifestAgrees, [Next]_vars, ~overtaken'
                PROVE  ManifestAgrees'
    BY DEF ManifestAgrees
  <2>1. ~overtaken /\ (thrown => thrown') /\ WorkInv /\ TypeInv /\ RowRead
    BY HistoryStep DEF RowInv, AgreeInv
  <2>2. CASE UNCHANGED vars
    BY <2>1, <2>2 DEF vars, ManifestAgrees
  <2>3. CASE Next /\ StaysOpen
    BY <2>1, <2>3, ItemsKept DEF StaysOpen, ManifestAgrees, Terminal
  <2>4. ASSUME NEW t \in Threads, Closes(t)
        PROVE  ManifestAgrees'
    <3>1. Holds(t) /\ MayClose(thread[t])
      BY <2>4 DEF Closes, CanFinish, MayClose
    <3>2. Knows(t, thread[t]) /\ thread[t].pc = "finish"
      BY <2>1, <2>4, <3>1 DEF WorkInv, Known, Closes
    <3>3. /\ manifest.items = item
          /\ \/ manifest.status = thread[t].want
             \/ thrown /\ thread[t].want = "failed"
      BY <3>1, <3>2 DEF Knows, Failing
    <3>4. job'.status = thread[t].want /\ UNCHANGED <<manifest, item>>
      BY <2>1, <2>4, FinishedRow DEF Closes, TypeInv
    <3>5. manifest'.items = item' /\ job'.status = thread[t].want
          /\ manifest'.status = manifest.status
      BY <3>3, <3>4
    <3>6. manifest'.status = job'.status \/ (thrown' /\ job'.status = "failed")
      BY <2>1, <3>3, <3>5, Zenon
    <3>. QED  BY <3>5, <3>6, Zenon DEF ManifestAgrees
  <2>. QED  BY <2>1, <2>2, <2>3, <2>4, ClosingStep
<1>. QED
  BY <1>1, <1>2, <1>3, PTL DEF Spec
=============================================================================
