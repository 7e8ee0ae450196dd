----------------------- MODULE CompletionExportProofs -----------------------
(***************************************************************************)
(* Theorems about CompletionExport: a COMPLETED row stays and tells the    *)
(* truth about the marker, and the marker comes last, for any number of    *)
(* applications, stalls, crashes and changes.                              *)
(***************************************************************************)
EXTENDS CompletionExport, FiniteSets, FiniteSetTheorems, TLAPS

(***************************************************************************)
(* The inductive invariant.                                                *)
(***************************************************************************)

\* Who may still cause a claim that no call or fault is to be counted for: an
\* application by what is queued or by its restart, and by a start that has been
\* counted and has not been flushed.
Owed == {d \in Processes \X {"claim", "call"} :
            \/ d[2] = "claim" /\ (queued[d[1]] \/ ~up[d[1]])
            \/ d[2] = "call" /\ call[d[1]] # NoCall}

\* A claim takes the next generation; the bounds leave room for all of them.
Room == IsFiniteSet(Owed) /\ row.gen + Cardinality(Owed) <= calls + faults

\* Who has a worker has one of the generations, and nobody else has it.
Claims ==
    /\ \A p \in Processes :
          worker[p].pc # "idle" =>
              0 < worker[p].gen /\ worker[p].gen <= row.gen
    /\ \A p, q \in Processes :
          p # q /\ worker[p].pc # "idle" /\ worker[q].pc # "idle"
          => worker[p].gen # worker[q].gen
    /\ \A j \in Gens : transfer[j] # "none" => j <= row.gen

\* The labels before a transfer job is made, while it is sent, and after it has
\* ended well.
Before == {"read", "build", "rename", "ready", "probe", "adopt", "find",
           "create"}
Sending == {"send", "manifest", "finish"}
Sent == {"store", "verifying", "verifyAll", "write", "announce", "mark",
         "reread", "complete"}

\* What is true of the worker of p, wherever it is.
Working(p) ==
    /\ worker[p].pc \in Before => transfer[worker[p].gen] = "none"
    /\ worker[p].pc \in Sending =>
          worker[p].job = worker[p].gen /\ transfer[worker[p].gen] = "running"
    /\ worker[p].pc \in Sent =>
          worker[p].job # 0 /\ transfer[worker[p].job] = "completed"
    /\ worker[p].pc = "write" /\ policy.hash => worker[p].job \in whole
    /\ worker[p].pc = "complete" =>
          /\ marker.gen # 0
          /\ worker[p].sum = marker.gen /\ worker[p].job = marker.job

\* A marker, wherever it is, says nothing that was not so.
Truthful(m) ==
    /\ m.gen = 0 => m.job = 0
    /\ m.gen # 0 =>
          /\ m.job # 0 /\ transfer[m.job] = "completed"
          /\ policy.hash => m.job \in whole
Markers ==
    /\ Truthful(marker) /\ Truthful(draft)
    /\ \A c \in late : "marker" \in DOMAIN c => Truthful(c.marker)

\* A completed row is nobody's.
Closed == row.status = "completed" => ~row.held

\* CompletedIsMarked and MarkerLast do not follow from themselves: a worker
\* completes the row by what it found several steps ago, so what it knows is
\* told for each label, and a marker has to be true while it still lies in the
\* local export or in an rclone that lost its parent.
IInv ==
    /\ TypeOK /\ Room /\ Claims
    /\ \A p \in Processes : Working(p)
    /\ newest # 0 => transfer[newest] = "completed"
    /\ Markers /\ Closed /\ CompletedIsMarked

-----------------------------------------------------------------------------
(* types *)

LEMMA Numbers ==
    /\ MaxCalls \in Nat /\ MaxFaults \in Nat
    /\ Gens \subseteq Nat /\ 0 \in Gens
  BY BoundsAssumption DEF Gens

LEMMA IdleTyped ==
    /\ IdleWorker \in Worker
    /\ IdleWorker.pc = "idle" /\ IdleWorker.gen = 0
  BY Numbers DEF IdleWorker, Worker

LEMMA NoRowTyped == NoRow \in Row /\ NoMarker \in Marker /\ NoLocal \in Local
  BY Numbers DEF NoRow, Row, Status, Active, Ended, NoMarker, Marker, NoLocal,
                 Local

WorkersTyped == worker \in [Processes -> Worker]

\* What an action of p makes of its worker.
LEMMA WorkerTyped ==
    ASSUME WorkersTyped, NEW p \in Processes, NEW r \in Worker,
           worker' = [worker EXCEPT ![p] = r]
    PROVE  WorkersTyped'
  BY DEF WorkersTyped

LEMMA GoTyped ==
    ASSUME WorkersTyped, NEW p \in Processes, NEW label \in Label, Go(p, label)
    PROVE  WorkersTyped'
  BY DEF WorkersTyped, Go, Worker

LEMMA FailTyped ==
    ASSUME WorkersTyped, NEW p \in Processes,
           NEW status \in {"failed", "canceled"}, FailAs(p, status)
    PROVE  WorkersTyped'
  <1> DEFINE r == [IdleWorker EXCEPT !.pc = "fail", !.gen = worker[p].gen,
                                     !.end = status]
  <1>1. r \in Worker
    BY IdleTyped DEF WorkersTyped, Worker, Label
  <1> HIDE DEF r
  <1> QED BY <1>1, WorkerTyped DEF FailAs, r

LEMMA LoseTyped ==
    ASSUME WorkersTyped, NEW p \in Processes, Lose(p) PROVE WorkersTyped'
  BY FailTyped DEF Lose

LEMMA ErrorTyped ==
    ASSUME WorkersTyped, NEW p \in Processes, StorageError(p)
    PROVE  WorkersTyped'
  BY FailTyped DEF StorageError

LEMMA SameWorkers == WorkersTyped /\ UNCHANGED worker => WorkersTyped'
  BY DEF WorkersTyped

RowTyped == row \in Row

LEMMA UpdateTyped ==
    ASSUME WorkersTyped, RowTyped, NEW p \in Processes, NEW r \in Row,
           NEW next \in Label, ClaimedUpdate(p, r, next)
    PROVE  WorkersTyped' /\ RowTyped'
  <1>1. CASE Holds(p)
    <2>1. row' = [r EXCEPT !.beat = "young"] /\ Go(p, next)
      BY <1>1 DEF ClaimedUpdate
    <2>2. RowTyped'
      BY <2>1 DEF RowTyped, Row
    <2> QED BY <2>1, <2>2, GoTyped
  <1>2. CASE ~Holds(p)
    BY <1>2, LoseTyped DEF ClaimedUpdate, RowTyped
  <1> QED BY <1>1, <1>2

LEMMA UnlessTyped ==
    ASSUME WorkersTyped, RowTyped, NEW p \in Processes, NEW r \in Row,
           NEW next \in Label, UnlessCanceled(p, r, next)
    PROVE  WorkersTyped' /\ RowTyped'
  <1>1. CASE Canceled(p)
    BY <1>1, FailTyped DEF UnlessCanceled, RowTyped
  <1>2. CASE ~Canceled(p)
    BY <1>2, UpdateTyped DEF UnlessCanceled
  <1> QED BY <1>1, <1>2

\* Reset and Start make rows.
LEMMA ResetTyped ==
    ASSUME RowTyped, source \in Sources
    PROVE  /\ Reset(Context) \in Row
           /\ \A c \in Call : Flushed(c) \in Row /\ Flushed(c).gen = row.gen
  <1>1. \A w \in Sources \cup {0} :
           /\ Reset(w) \in Row /\ Reset(w).gen = row.gen
           /\ [row EXCEPT !.source = w] \in Row
           /\ [row EXCEPT !.source = w].gen = row.gen
    BY NoRowTyped DEF RowTyped, Reset, Row, NoRow, Status
  <1>2. row.source \in Sources \cup {0} /\ Context \in Sources
    BY DEF RowTyped, Row, Context
  <1>3. ASSUME NEW c \in Call
        PROVE  Flushed(c) \in Row /\ Flushed(c).gen = row.gen
    <2>1. c.write \in Sources \cup {0}
      BY DEF Call
    <2> DEFINE again == \/ c.row = "again" /\ row.status \in Resettable
                        \/ c.row = "none"
               r == IF again THEN Reset(row.source) ELSE row
    <2>2. r \in Row /\ r.gen = row.gen
      BY <1>1, <1>2 DEF RowTyped
    <2>3. [r EXCEPT !.source = c.write] \in Row
          /\ [r EXCEPT !.source = c.write].gen = row.gen
      BY <2>1, <2>2 DEF Row
    <2>4. Flushed(c) = IF c.write = 0 THEN r
                       ELSE [r EXCEPT !.source = c.write]
      BY DEF Flushed
    <2> HIDE DEF r
    <2> QED BY <2>2, <2>3, <2>4
  <1> QED BY <1>1, <1>2, <1>3

\* There is a generation left for whoever may claim.
LEMMA RoomToClaim ==
    ASSUME TypeOK, Room, NEW d \in Owed PROVE row.gen + 1 \in Gens
  <1>1. Cardinality(Owed) \in Nat /\ Cardinality(Owed) # 0
    BY FS_CardinalityType, FS_EmptySet DEF Room
  <1>2. row \in Row /\ calls \in 0..MaxCalls /\ faults \in 0..MaxFaults
    BY DEF TypeOK
  <1>3. row.gen \in Nat
    BY <1>2, Numbers DEF Row
  <1>4. row.gen + Cardinality(Owed) <= calls + faults
    BY DEF Room
  <1> QED BY <1>1, <1>2, <1>3, <1>4, Numbers DEF Gens

LEMMA ClaimTyped ==
    ASSUME TypeOK, Room, NEW p \in Processes, Claim(p)
    PROVE  WorkersTyped' /\ RowTyped'
  <1>1. CASE ~Claimable
    BY <1>1 DEF Claim, TypeOK, WorkersTyped, RowTyped
  <1>2. CASE Claimable
    <2>1. row.gen + 1 \in Gens
      <3>1. <<p, "claim">> \in Owed
        BY DEF Claim, Owed
      <3> QED BY <3>1, RoomToClaim
    <2>2. RowTyped'
      BY ZenonT(60), <1>2, <2>1 DEF Claim, TypeOK, RowTyped, Row, Status, Active
    <2> DEFINE r == [IdleWorker EXCEPT !.pc = "read", !.gen = row.gen + 1]
    <2>3. r \in Worker
      BY <2>1, IdleTyped DEF Worker, Label
    <2>4. worker' = [worker EXCEPT ![p] = r]
      BY <1>2 DEF Claim
    <2> HIDE DEF r
    <2> QED BY <2>2, <2>3, <2>4, WorkerTyped DEF TypeOK, WorkersTyped
  <1> QED BY <1>1, <1>2

\* The steps of a run that read and do not write the row.
LEMMA RunReadTyped ==
    ASSUME TypeOK, NEW p \in Processes,
           \/ Read(p) \/ Build(p) \/ Rename(p) \/ Adopt(p) \/ VerifyAll(p)
           \/ Write(p) \/ Mark(p) \/ Reread(p) \/ ReadFails(p)
    PROVE  WorkersTyped' /\ RowTyped'
  <1> USE DEF Label
  <1>1. WorkersTyped /\ RowTyped /\ source \in Sources /\ row \in Row
        /\ marker \in Marker /\ worker[p] \in Worker
    BY DEF TypeOK, WorkersTyped, RowTyped
  <1>2. RowTyped'
    BY <1>1 DEF Read, Build, Rename, Adopt, VerifyAll, Write, Mark, Reread,
                ReadFails, RowTyped
  <1>3. CASE Read(p)
    <2> DEFINE r == [worker[p] EXCEPT !.pc = "build", !.source = Context,
                                      !.stored = row.marker,
                                      !.preferred = row.job]
    <2>1. r \in Worker
      BY <1>1 DEF Worker, Row, Context
    <2>2. Lose(p) \/ FailAs(p, "canceled")
          \/ worker' = [worker EXCEPT ![p] = r]
      BY <1>1, <1>3 DEF Read, WorkersTyped
    <2> HIDE DEF r
    <2> QED BY <1>1, <1>2, <2>1, <2>2, LoseTyped, FailTyped, WorkerTyped
  <1>4. CASE Build(p)
    <2> DEFINE r == [worker[p] EXCEPT !.pc = "rename", !.temp = TRUE]
    <2>1. r \in Worker
      BY <1>1 DEF Worker
    <2>2. Lose(p) \/ FailAs(p, "canceled") \/ Go(p, "ready")
          \/ worker' = [worker EXCEPT ![p] = r]
      BY <1>1, <1>4 DEF Build, WorkersTyped
    <2> HIDE DEF r
    <2> QED BY <1>1, <1>2, <2>1, <2>2, LoseTyped, FailTyped, GoTyped,
               WorkerTyped
  <1>5. CASE Rename(p)
    <2> DEFINE r == [worker[p] EXCEPT !.pc = "ready", !.temp = FALSE]
    <2>1. r \in Worker
      BY <1>1 DEF Worker
    <2>2. Lose(p) \/ worker' = [worker EXCEPT ![p] = r]
      BY <1>1, <1>5 DEF Rename, WorkersTyped
    <2> HIDE DEF r
    <2> QED BY <1>1, <1>2, <2>1, <2>2, LoseTyped, WorkerTyped
  <1>6. CASE Adopt(p) \/ Reread(p)
    <2> DEFINE r == [worker[p] EXCEPT !.pc = "complete", !.job = marker.job,
                                      !.sum = marker.gen]
               q == [worker[p] EXCEPT !.pc = "complete", !.sum = marker.gen]
    <2>1. r \in Worker /\ q \in Worker
      BY <1>1 DEF Worker, Marker
    <2>2. Lose(p) \/ FailAs(p, "canceled")
          \/ worker' = [worker EXCEPT ![p] = r]
          \/ worker' = [worker EXCEPT ![p] = q]
      BY <1>1, <1>6 DEF Adopt, Reread, WorkersTyped
    <2> HIDE DEF r, q
    <2> QED BY <1>1, <1>2, <2>1, <2>2, LoseTyped, FailTyped, WorkerTyped
  <1>7. CASE VerifyAll(p) \/ Write(p) \/ Mark(p) \/ ReadFails(p)
    <2>1. Lose(p) \/ FailAs(p, "canceled") \/ StorageError(p)
          \/ \E label \in Label : Go(p, label)
      BY <1>7 DEF VerifyAll, Write, Mark, ReadFails
    <2> QED BY <1>1, <1>2, <2>1, LoseTyped, FailTyped, ErrorTyped, GoTyped
  <1> QED BY <1>3, <1>4, <1>5, <1>6, <1>7

\* The steps of a run that write the row.
LEMMA RunWriteTyped ==
    ASSUME TypeOK, NEW p \in Processes,
           \/ Ready(p) \/ Probe(p) \/ Find(p) \/ Store(p) \/ Verifying(p)
           \/ Announce(p) \/ Complete(p) \/ Fail(p)
    PROVE  WorkersTyped' /\ RowTyped'
  <1> USE DEF Label
  <1>1. WorkersTyped /\ RowTyped /\ row \in Row /\ worker[p] \in Worker
        /\ newest \in Gens
    BY DEF TypeOK, WorkersTyped, RowTyped
  <1>2. worker[p].job \in Gens /\ worker[p].gen \in Gens
        /\ worker[p].sum \in Gens /\ worker[p].preferred \in Gens
        /\ worker[p].end \in {"failed", "canceled"}
    BY <1>1 DEF Worker
  <1>3. /\ \A status \in Active : [row EXCEPT !.status = status] \in Row
        /\ [row EXCEPT !.job = worker[p].job] \in Row
        /\ [row EXCEPT !.marker = worker[p].gen] \in Row
    BY <1>1, <1>2 DEF Row, Status
  <1>4. CASE Ready(p)
    BY <1>1, <1>3, <1>4, UpdateTyped, LoseTyped DEF Ready, RowTyped, Active
  <1>5. CASE Probe(p)
    BY <1>1, <1>3, <1>5, UnlessTyped DEF Probe
  <1>6. CASE Store(p)
    BY <1>1, <1>3, <1>6, UpdateTyped DEF Store
  <1>7. CASE Verifying(p)
    BY <1>1, <1>3, <1>7, UnlessTyped DEF Verifying, Active
  <1>8. CASE Announce(p)
    BY <1>1, <1>3, <1>8, UnlessTyped DEF Announce
  <1>9. CASE Find(p)
    <2> DEFINE found == IF worker[p].preferred # 0 THEN worker[p].preferred
                                                   ELSE newest
               label == IF Holds(p) THEN "store" ELSE "fail"
               r == [worker[p] EXCEPT !.pc = label, !.job = found]
    <2>1. r \in Worker
      BY <1>1, <1>2 DEF Worker
    <2>2. [row EXCEPT !.beat = "young"] \in Row
      BY <1>1 DEF Row
    <2>3. \/ Lose(p) /\ UNCHANGED row
          \/ /\ row' \in {row, [row EXCEPT !.beat = "young"]}
             /\ worker' = [worker EXCEPT ![p] = r]
          \/ ClaimedUpdate(p, [row EXCEPT !.status = "uploading"], "create")
      BY <1>1, <1>9 DEF Find, WorkersTyped
    <2> HIDE DEF r
    <2> QED BY <1>1, <1>3, <2>1, <2>2, <2>3, LoseTyped, WorkerTyped,
               UpdateTyped
            DEF RowTyped, Active
  <1>10. CASE Complete(p)
    <2>1. [row EXCEPT !.status = "completed", !.held = FALSE, !.beat = "young",
                      !.job = worker[p].job, !.marker = worker[p].sum] \in Row
      BY <1>1, <1>2 DEF Row, Status, Ended
    <2> QED BY <1>1, <1>10, <2>1, IdleTyped, WorkerTyped, LoseTyped
            DEF Complete, RowTyped
  <1>11. CASE Fail(p)
    <2>1. [row EXCEPT !.status = worker[p].end, !.held = FALSE,
                      !.beat = "young"] \in Row
      BY <1>1, <1>2 DEF Row, Status, Ended
    <2> QED BY <1>1, <1>11, <2>1, IdleTyped, WorkerTyped DEF Fail, RowTyped
  <1> QED BY <1>4, <1>5, <1>6, <1>7, <1>8, <1>9, <1>10, <1>11

\* The upload.
LEMMA UploadTyped ==
    ASSUME TypeOK, NEW p \in Processes, UploadStep(p)
    PROVE  WorkersTyped' /\ RowTyped'
  <1> USE DEF Label
  <1>1. WorkersTyped /\ RowTyped /\ worker[p] \in Worker
    BY DEF TypeOK, WorkersTyped, RowTyped
  <1>2. RowTyped'
    BY <1>1 DEF UploadStep, Create, Send, Verify, SendManifest, FinishUpload,
                RowTyped
  <1>3. CASE Create(p)
    <2> DEFINE r == [worker[p] EXCEPT !.pc = "send", !.job = worker[p].gen,
                               !.todo = {f \in Files : ~Identical(f)}]
    <2>1. r \in Worker
      BY <1>1 DEF Worker
    <2>2. StorageError(p) \/ worker' = [worker EXCEPT ![p] = r]
      BY <1>1, <1>3 DEF Create, WorkersTyped
    <2> HIDE DEF r
    <2> QED BY <1>1, <1>2, <2>1, <2>2, ErrorTyped, WorkerTyped
  <1>4. ASSUME NEW f \in Files, Send(p, f) PROVE WorkersTyped'
    <2> DEFINE r == [worker[p] EXCEPT !.todo = worker[p].todo \ {f}]
    <2>1. r \in Worker
      BY <1>1 DEF Worker
    <2>2. StorageError(p) \/ worker' = [worker EXCEPT ![p] = r]
      BY <1>1, <1>4 DEF Send, FailUpload, WorkersTyped
    <2> HIDE DEF r
    <2> QED BY <1>1, <2>1, <2>2, ErrorTyped, WorkerTyped
  <1>5. CASE Verify(p) \/ SendManifest(p) \/ FinishUpload(p)
    <2>1. StorageError(p) \/ \E label \in Label : Go(p, label)
      BY <1>5 DEF Verify, SendManifest, FinishUpload, FailUpload
    <2> QED BY <1>1, <1>2, <2>1, ErrorTyped, GoTyped
  <1> QED BY <1>2, <1>3, <1>4, <1>5 DEF UploadStep

\* The calls, the heartbeat, the clock, crashes and starts.
LEMMA OtherTyped ==
    ASSUME TypeOK,
           \/ \E p \in Processes : \/ StartRead(p) \/ Start(p)
                                   \/ Retry(p) \/ Cancel(p)
                                   \/ Beat(p) \/ Crash(p) \/ Restart(p)
           \/ Age \/ Change \/ \E c \in late : LateCopy(c)
    PROVE  WorkersTyped' /\ RowTyped'
  <1>1. WorkersTyped /\ RowTyped /\ row \in Row /\ source \in Sources
    BY DEF TypeOK, WorkersTyped, RowTyped
  <1>2. \A b \in {"young", "old"} : [row EXCEPT !.beat = b] \in Row
    BY <1>1 DEF Row
  <1>3. ASSUME NEW p \in Processes, StartRead(p) \/ Start(p) \/ Retry(p)
        PROVE  WorkersTyped' /\ RowTyped'
    <2>1. call[p] \in Call
      BY DEF TypeOK
    <2> QED BY <1>1, <1>3, <2>1, ResetTyped, SameWorkers
            DEF StartRead, Start, Retry, RowTyped
  <1>4. ASSUME NEW p \in Processes, Cancel(p)
        PROVE  WorkersTyped' /\ RowTyped'
    <2>1. RowTyped'
      BY <1>1, <1>4 DEF Cancel, RowTyped, Row
    <2> DEFINE r == [worker[p] EXCEPT !.token = worker[p].pc # "idle"]
    <2>2. (worker[p].pc # "idle") \in BOOLEAN
      OBVIOUS
    <2>3. r \in Worker
      BY <1>1, <2>2 DEF WorkersTyped, Worker
    <2>4. worker' = [worker EXCEPT ![p] = r]
      BY <1>1, <1>4 DEF Cancel, WorkersTyped
    <2> HIDE DEF r
    <2> QED BY <1>1, <2>1, <2>3, <2>4, WorkerTyped
  <1>5. ASSUME NEW p \in Processes, Beat(p)
        PROVE  WorkersTyped' /\ RowTyped'
    <2>1. RowTyped'
      BY <1>1, <1>2, <1>5 DEF Beat, RowTyped
    <2>2. WorkersTyped'
      <3> DEFINE r == [worker[p] EXCEPT !.token = TRUE]
      <3>1. r \in Worker
        BY <1>1 DEF WorkersTyped, Worker
      <3>2. UNCHANGED worker \/ worker' = [worker EXCEPT ![p] = r]
        BY <1>1, <1>5 DEF Beat, WorkersTyped
      <3> HIDE DEF r
      <3> QED BY <1>1, <3>1, <3>2, WorkerTyped, SameWorkers
    <2> QED BY <2>1, <2>2
  <1>6. ASSUME NEW p \in Processes, Crash(p)
        PROVE  WorkersTyped' /\ RowTyped'
    BY <1>1, <1>6, IdleTyped DEF Crash, RowTyped, WorkersTyped
  <1>7. ASSUME NEW p \in Processes, Restart(p)
        PROVE  WorkersTyped' /\ RowTyped'
    <2>1. RowTyped'
      BY <1>1, <1>7 DEF Restart, RowTyped, Row, Status
    <2>2. worker' = Cleaned
      BY <1>7 DEF Restart
    <2>3. Cleaned \in [Processes -> Worker]
      BY ZenonT(60), <1>1 DEF Cleaned, WorkersTyped, Worker
    <2> QED BY <2>1, <2>2, <2>3 DEF WorkersTyped
  <1>8. CASE Age \/ Change \/ \E c \in late : LateCopy(c)
    BY <1>1, <1>2, <1>8, SameWorkers DEF Age, Change, LateCopy, RowTyped
  <1> QED BY <1>3, <1>4, <1>5, <1>6, <1>7, <1>8

\* Files, markers and transfer jobs.
FilesTyped ==
    /\ local \in Local /\ draft \in Marker /\ marker \in Marker
    /\ transfer \in [Gens -> {"none", "running", "completed", "failed"}]
    /\ newest \in Gens /\ manifest \in Gens
    /\ remote \in [Files -> {"absent", "good", "other"}]
    /\ late \subseteq Copy
\* The rest.
CountsTyped ==
    /\ policy \in Policies /\ source \in Sources
    /\ call \in [Processes -> Call]
    /\ up \in [Processes -> BOOLEAN] /\ queued \in [Processes -> BOOLEAN]
    /\ changes \in 0..MaxChanges /\ calls \in 0..MaxCalls
    /\ stalls \in 0..MaxStalls /\ faults \in 0..MaxFaults

LEMMA Parts ==
    TypeOK <=> /\ WorkersTyped /\ RowTyped /\ FilesTyped /\ CountsTyped
               /\ whole \subseteq Gens
  BY DEF TypeOK, WorkersTyped, RowTyped, FilesTyped, CountsTyped

\* What a copy may be.
LEMMA Copies ==
    ASSUME NEW c \in Copy
    PROVE  /\ "file" \in DOMAIN c => c.file \in Files
           /\ "job" \in DOMAIN c => c.job \in Gens
           /\ "marker" \in DOMAIN c => c.marker \in Marker
  BY DEF Copy

LEMMA CopiesOf ==
    ASSUME TypeOK, NEW p \in Processes PROVE InFlight(p) \subseteq Copy
  BY DEF TypeOK, InFlight, Copy, Worker

\* The steps of a run leave the transfer jobs and the remote alone, but for the
\* marker.
LEMMA RunFiles ==
    ASSUME FilesTyped, WorkersTyped, source \in Sources,
           NEW p \in Processes, RunStep(p)
    PROVE  FilesTyped'
  <1>1. worker[p] \in Worker
    BY DEF WorkersTyped
  <1>2. worker[p].gen \in Gens /\ worker[p].job \in Gens
        /\ worker[p].source \in Sources \cup {0}
    BY <1>1 DEF Worker
  <1>3. CASE Rename(p)
    <2>1. local' \in Local
      <3>1. Copied(p) \subseteq Local
        <4>1. \A t \in {TRUE, source = worker[p].source} : t \in BOOLEAN
          OBVIOUS
        <4>2. \A t \in BOOLEAN :
                 [source |-> worker[p].source, true |-> t] \in Local
          BY <1>2 DEF Local
        <4> QED BY <4>1, <4>2, Zenon DEF Copied
      <3>2. local' \in Copied(p) \/ local' = local
        BY <1>3 DEF Rename
      <3> QED BY <3>1, <3>2 DEF FilesTyped
    <2> QED BY <1>3, <2>1 DEF Rename, FilesTyped, remoteVars
  <1>4. CASE Write(p)
    <2>1. draft' \in Marker
      BY <1>2, <1>4 DEF Write, FilesTyped, Marker
    <2> QED BY <1>4, <2>1 DEF Write, FilesTyped, remoteVars
  <1>5. CASE Mark(p)
    BY <1>5 DEF Mark, FilesTyped
  <1>6. CASE UNCHANGED <<local, draft, transfer, newest, remoteVars, late>>
    BY <1>6 DEF FilesTyped, remoteVars
  <1> QED
    BY <1>3, <1>4, <1>5, <1>6
       DEF RunStep, Read, Build, Ready, Probe, Adopt, Find, Store, Verifying,
           VerifyAll, Announce, Reread, Complete, ReadFails, Fail

LEMMA UploadFiles ==
    ASSUME FilesTyped, WorkersTyped, NEW p \in Processes, UploadStep(p)
    PROVE  FilesTyped'
  <1>1. worker[p] \in Worker
    BY DEF WorkersTyped
  <1>2. worker[p].gen \in Gens /\ worker[p].job \in Gens
    BY <1>1 DEF Worker
  <1>3. CASE Create(p)
    BY <1>2, <1>3 DEF Create, FilesTyped, remoteVars
  <1>4. ASSUME NEW f \in Files, Send(p, f) PROVE FilesTyped'
    BY <1>2, <1>4 DEF Send, FailUpload, FilesTyped
  <1>5. CASE Verify(p)
    BY <1>2, <1>5 DEF Verify, FailUpload, FilesTyped, remoteVars
  <1>6. CASE SendManifest(p)
    BY <1>2, <1>6 DEF SendManifest, FailUpload, FilesTyped
  <1>7. CASE FinishUpload(p)
    BY <1>2, <1>7 DEF FinishUpload, FailUpload, FilesTyped, remoteVars
  <1> QED BY <1>3, <1>4, <1>5, <1>6, <1>7 DEF UploadStep

LEMMA OtherFiles ==
    ASSUME TypeOK, FilesTyped,
           \/ \E p \in Processes : \/ StartRead(p) \/ Start(p)
                                   \/ Retry(p) \/ Cancel(p)
                                   \/ Claim(p) \/ Beat(p) \/ Crash(p)
                                   \/ Restart(p)
           \/ Age \/ Change \/ \E c \in late : LateCopy(c)
    PROVE  FilesTyped'
  <1>1. ASSUME NEW p \in Processes, Crash(p) PROVE FilesTyped'
    <2>1. late' \subseteq Copy
      BY <1>1, CopiesOf DEF Crash, FilesTyped
    <2> QED BY <1>1, <2>1 DEF Crash, FilesTyped, remoteVars
  <1>2. CASE Change
    BY <1>2 DEF Change, FilesTyped
  <1>3. ASSUME NEW c \in late, LateCopy(c) PROVE FilesTyped'
    BY <1>3, Copies DEF LateCopy, FilesTyped
  <1>4. CASE UNCHANGED <<local, draft, transfer, newest, remoteVars, late>>
    BY <1>4 DEF FilesTyped, remoteVars
  <1> QED
    BY <1>1, <1>2, <1>3, <1>4
       DEF StartRead, Start, Retry, Cancel, Claim, Beat, Restart, Age

LEMMA CountsStep ==
    ASSUME CountsTyped, Next PROVE CountsTyped'
  <1> USE BoundsAssumption DEF bounds
  <1>1. ASSUME NEW p \in Processes, RunStep(p) \/ UploadStep(p)
        PROVE  CountsTyped'
    <2>1. UNCHANGED <<policy, call, up, queued, source, bounds>>
          /\ (UNCHANGED faults \/ Fault)
      BY <1>1
        
         DEF RunStep, UploadStep, Read, Build, Rename, Ready, Probe, Adopt,
             Find,
             Store, Verifying, VerifyAll, Write, Announce, Mark, Reread,
             Complete,
             ReadFails, Fail, Create, Send, Verify, SendManifest, FinishUpload
    <2> QED BY <2>1 DEF CountsTyped, Fault
  <1>2. ASSUME NEW p \in Processes,
               \/ StartRead(p) \/ StartRead(p) \/ Start(p)
                               \/ Retry(p) \/ Cancel(p)
               \/ Claim(p) \/ Beat(p)
               \/ Crash(p) \/ Restart(p)
        PROVE  CountsTyped'
    <2>1. CASE StartRead(p) \/ Start(p) \/ Retry(p)
      <3>1. CASE StartRead(p)
        <4>1. (IF row.source = Context THEN 0 ELSE Context) \in Sources \cup {0}
          BY DEF CountsTyped, Context
        <4> QED BY <3>1, <4>1 DEF CountsTyped, StartRead, Call
      <3>2. NoCall \in Call
        BY DEF NoCall, Call
      <3> QED BY <2>1, <3>1, <3>2 DEF CountsTyped, Start, Retry, Submit
    <2>2. CASE Cancel(p)
      BY <2>2 DEF CountsTyped, Cancel
    <2>3. CASE Claim(p)
      BY <2>3 DEF CountsTyped, Claim
    <2>4. CASE Beat(p)
      BY <2>4 DEF CountsTyped, Beat
    <2>5. CASE Crash(p)
      BY <2>5 DEF CountsTyped, Crash, Fault, NoCall, Call
    <2>6. CASE Restart(p)
      BY <2>6 DEF CountsTyped, Restart
    <2> QED BY <1>2, <2>1, <2>2, <2>3, <2>4, <2>5, <2>6
  <1>3. CASE Age
    BY <1>3 DEF CountsTyped, Age
  <1>4. CASE Change
    BY <1>4 DEF CountsTyped, Change
  <1>5. CASE \E c \in late : LateCopy(c)
    BY <1>5 DEF CountsTyped, LateCopy
  <1> QED BY <1>1, <1>2, <1>3, <1>4, <1>5 DEF Next, ProcessStep, WorkerStep

LEMMA TypeStep == ASSUME TypeOK, Room, Next PROVE TypeOK'
  <1>1. WorkersTyped' /\ RowTyped'
    <2>1. ASSUME NEW p \in Processes, Claim(p)
          PROVE  WorkersTyped' /\ RowTyped'
      BY <2>1, ClaimTyped
    <2>2. ASSUME NEW p \in Processes, UploadStep(p)
          PROVE  WorkersTyped' /\ RowTyped'
      BY <2>2, UploadTyped
    <2>3. ASSUME NEW p \in Processes, RunStep(p)
          PROVE  WorkersTyped' /\ RowTyped'
      BY <2>3, RunReadTyped, RunWriteTyped DEF RunStep
    <2>4. ASSUME NEW p \in Processes, \/ StartRead(p) \/ Start(p)
                                      \/ Retry(p) \/ Cancel(p)
                                      \/ Beat(p) \/ Crash(p) \/ Restart(p)
          PROVE  WorkersTyped' /\ RowTyped'
      BY <2>4, OtherTyped
    <2>5. CASE Age \/ Change \/ \E c \in late : LateCopy(c)
      BY <2>5, OtherTyped
    <2> QED BY <2>1, <2>2, <2>3, <2>4, <2>5 DEF Next, ProcessStep, WorkerStep
  <1>2. FilesTyped'
    BY Parts, RunFiles, UploadFiles, OtherFiles
       DEF Next, ProcessStep, WorkerStep, CountsTyped
  <1>3. CountsTyped'
    BY Parts, CountsStep
  <1>4. whole' \subseteq Gens
    BY <1>2, Parts DEF Next, WatchRemote, FilesTyped
  <1> QED
    BY <1>1, <1>2, <1>3, <1>4
       DEF TypeOK, WorkersTyped, RowTyped, FilesTyped, CountsTyped

-----------------------------------------------------------------------------
(* generations *)

\* A step that is no claim leaves the generations alone.
KeepsGens ==
    /\ row'.gen = row.gen
    /\ \A q \in Processes :
          worker'[q].pc # "idle" =>
              worker[q].pc # "idle" /\ worker'[q].gen = worker[q].gen

LEMMA FailGen ==
    ASSUME WorkersTyped, NEW p \in Processes, worker[p].pc # "idle",
           NEW status, FailAs(p, status)
    PROVE  \A q \in Processes :
              worker'[q].pc # "idle" =>
                  worker[q].pc # "idle" /\ worker'[q].gen = worker[q].gen
  BY DEF WorkersTyped, FailAs, IdleWorker

LEMMA GoGen ==
    ASSUME WorkersTyped, NEW p \in Processes, worker[p].pc # "idle",
           NEW label, Go(p, label)
    PROVE  \A q \in Processes :
              worker'[q].pc # "idle" =>
                  worker[q].pc # "idle" /\ worker'[q].gen = worker[q].gen
  BY DEF WorkersTyped, Go, Worker

LEMMA UpdateGen ==
    ASSUME WorkersTyped, RowTyped, NEW p \in Processes, worker[p].pc # "idle",
           NEW r \in Row, r.gen = row.gen, NEW next, ClaimedUpdate(p, r, next)
    PROVE  KeepsGens
  BY FailGen, GoGen DEF ClaimedUpdate, Lose, KeepsGens, Row, RowTyped

LEMMA RunGens ==
    ASSUME TypeOK, NEW p \in Processes, RunStep(p) PROVE KeepsGens
  <1>1. WorkersTyped /\ RowTyped /\ row \in Row /\ worker[p] \in Worker
    BY DEF TypeOK, WorkersTyped, RowTyped
  <1>2. worker[p].pc # "idle"
    BY DEF RunStep, At, Read, Build, Rename, Ready, Probe, Adopt, Find, Store,
           Verifying, VerifyAll, Write, Announce, Mark, Reread, Complete,
           ReadFails, Fail
  <1>3. CASE \/ Read(p) \/ Build(p) \/ Rename(p) \/ Adopt(p) \/ VerifyAll(p)
             \/ Write(p) \/ Mark(p) \/ Reread(p) \/ ReadFails(p)
    <2>1. UNCHANGED row
      BY <1>3 DEF Read, Build, Rename, Adopt, VerifyAll, Write, Mark, Reread,
                  ReadFails
    <2>2. \/ \E status : FailAs(p, status)
          \/ \E label : Go(p, label)
          \/ \E r : /\ worker' = [worker EXCEPT ![p] = r]
                    /\ r.gen = worker[p].gen
      <3>1. CASE Read(p)
        <4> DEFINE r == [worker[p] EXCEPT !.pc = "build", !.source = Context,
                                          !.stored = row.marker,
                                          !.preferred = row.job]
        <4>1. r.gen = worker[p].gen
          BY <1>1 DEF Worker
        <4>2. Lose(p) \/ FailAs(p, "canceled")
              \/ worker' = [worker EXCEPT ![p] = r]
          BY <1>1, <3>1 DEF Read, WorkersTyped
        <4> HIDE DEF r
        <4> QED BY <4>1, <4>2 DEF Lose
      <3>2. CASE Build(p)
        <4> DEFINE r == [worker[p] EXCEPT !.pc = "rename", !.temp = TRUE]
        <4>1. r.gen = worker[p].gen
          BY <1>1 DEF Worker
        <4>2. Lose(p) \/ FailAs(p, "canceled") \/ Go(p, "ready")
              \/ worker' = [worker EXCEPT ![p] = r]
          BY <1>1, <3>2 DEF Build, WorkersTyped
        <4> HIDE DEF r
        <4> QED BY <4>1, <4>2 DEF Lose
      <3>3. CASE Rename(p)
        <4> DEFINE r == [worker[p] EXCEPT !.pc = "ready", !.temp = FALSE]
        <4>1. r.gen = worker[p].gen
          BY <1>1 DEF Worker
        <4>2. Lose(p) \/ worker' = [worker EXCEPT ![p] = r]
          BY <1>1, <3>3 DEF Rename, WorkersTyped
        <4> HIDE DEF r
        <4> QED BY <4>1, <4>2 DEF Lose
      <3>4. CASE Adopt(p)
        BY ZenonT(60), <1>1, <3>4 DEF Adopt, Lose, WorkersTyped, Worker
      <3>5. CASE Reread(p)
        BY ZenonT(60), <1>1, <3>5 DEF Reread, Lose, WorkersTyped, Worker
      <3>6. CASE VerifyAll(p) \/ Write(p) \/ Mark(p) \/ ReadFails(p)
        BY <3>6 DEF VerifyAll, Write, Mark, ReadFails, StorageError, Lose
      <3> QED BY <1>3, <3>1, <3>2, <3>3, <3>4, <3>5, <3>6
    <2> QED BY <1>1, <1>2, <2>1, <2>2, FailGen, GoGen
    DEF KeepsGens, WorkersTyped
  <1>4. CASE Ready(p)
    BY <1>1, <1>2, <1>4, UpdateGen, FailGen
       DEF Ready, Lose, KeepsGens, Row, Status, Active
  <1>5. CASE Probe(p)
    BY <1>1, <1>2, <1>5, UpdateGen, FailGen
    DEF Probe, UnlessCanceled, KeepsGens
  <1>6. CASE Verifying(p) \/ Announce(p) \/ Store(p)
    <2>1. worker[p].job \in Gens /\ worker[p].gen \in Gens
      BY <1>1 DEF Worker
    <2>2. PICK r \in Row :
              /\ r.gen = row.gen
              /\ \/ \E status : FailAs(p, status) /\ UNCHANGED row
                 \/ \E next : ClaimedUpdate(p, r, next)
      <3>1. [row EXCEPT !.status = "verifying"] \in Row
            /\ [row EXCEPT !.marker = worker[p].gen] \in Row
            /\ [row EXCEPT !.job = worker[p].job] \in Row
        BY <1>1, <2>1 DEF Row, Status, Active
      <3>2. [row EXCEPT !.status = "verifying"].gen = row.gen
            /\ [row EXCEPT !.marker = worker[p].gen].gen = row.gen
            /\ [row EXCEPT !.job = worker[p].job].gen = row.gen
        BY <1>1 DEF Row
      <3> QED BY <1>6, <3>1, <3>2
      DEF Verifying, Announce, Store, UnlessCanceled
    <2> QED BY <1>1, <1>2, <2>2, UpdateGen, FailGen DEF KeepsGens
  <1>7. CASE Find(p)
    <2>1. [row EXCEPT !.status = "uploading"] \in Row
          /\ [row EXCEPT !.status = "uploading"].gen = row.gen
      BY <1>1 DEF Row, Status, Active
    <2>2. \/ Lose(p) /\ UNCHANGED row
          \/ /\ row' \in {row, [row EXCEPT !.beat = "young"]}
             /\ \E r : /\ worker' = [worker EXCEPT ![p] = r]
                       /\ r.gen = worker[p].gen
          \/ ClaimedUpdate(p, [row EXCEPT !.status = "uploading"], "create")
      <3> DEFINE found == IF worker[p].preferred # 0
                          THEN worker[p].preferred ELSE newest
                 label == IF Holds(p) THEN "store" ELSE "fail"
                 q == [worker[p] EXCEPT !.pc = label, !.job = found]
      <3>1. q.gen = worker[p].gen
        BY <1>1 DEF Worker
      <3>2. \/ Lose(p) /\ UNCHANGED row
            \/ /\ row' \in {row, [row EXCEPT !.beat = "young"]}
               /\ worker' = [worker EXCEPT ![p] = q]
            \/ ClaimedUpdate(p, [row EXCEPT !.status = "uploading"], "create")
        BY <1>1, <1>7 DEF Find, WorkersTyped
      <3> HIDE DEF q
      <3> QED BY <3>1, <3>2
    <2> QED BY <1>1, <1>2, <2>1, <2>2, FailGen, UpdateGen
            DEF Lose, KeepsGens, Row, WorkersTyped
  <1>8. CASE Complete(p)
    BY <1>1, <1>2, <1>8, FailGen, IdleTyped
       DEF Complete, Lose, KeepsGens, Row, WorkersTyped
  <1>9. CASE Fail(p)
    BY <1>1, <1>2, <1>9, IdleTyped DEF Fail, KeepsGens, Row, WorkersTyped
  <1> QED BY <1>3, <1>4, <1>5, <1>6, <1>7, <1>8, <1>9 DEF RunStep

LEMMA UploadGens ==
    ASSUME TypeOK, NEW p \in Processes, UploadStep(p) PROVE KeepsGens
  <1>1. WorkersTyped /\ worker[p] \in Worker
    BY DEF TypeOK, WorkersTyped
  <1>2. worker[p].pc # "idle" /\ UNCHANGED row
    BY DEF UploadStep, At, Create, Send, Verify, SendManifest, FinishUpload
  <1>3. CASE Create(p)
    <2> DEFINE r == [worker[p] EXCEPT !.pc = "send", !.job = worker[p].gen,
                               !.todo = {f \in Files : ~Identical(f)}]
    <2>1. r.gen = worker[p].gen
      BY <1>1 DEF Worker
    <2>2. StorageError(p) \/ worker' = [worker EXCEPT ![p] = r]
      BY <1>1, <1>3 DEF Create, WorkersTyped
    <2> HIDE DEF r
    <2> QED BY <1>1, <1>2, <2>1, <2>2, FailGen
            DEF KeepsGens, StorageError, WorkersTyped
  <1>4. ASSUME NEW f \in Files, Send(p, f) PROVE KeepsGens
    BY <1>1, <1>2, <1>4, FailGen
       DEF Send, FailUpload, StorageError, KeepsGens, WorkersTyped, Worker
  <1>5. CASE Verify(p) \/ SendManifest(p) \/ FinishUpload(p)
    BY <1>1, <1>2, <1>5, FailGen, GoGen
       DEF Verify, SendManifest, FinishUpload, FailUpload, StorageError,
           KeepsGens
  <1> QED BY <1>3, <1>4, <1>5 DEF UploadStep

LEMMA OtherGens ==
    ASSUME TypeOK,
           \/ \E p \in Processes : \/ StartRead(p) \/ Start(p)
                                   \/ Retry(p) \/ Cancel(p)
                                   \/ Beat(p) \/ Crash(p) \/ Restart(p)
           \/ Age \/ Change \/ \E c \in late : LateCopy(c)
    PROVE  KeepsGens
  <1>1. WorkersTyped /\ row \in Row
    BY DEF TypeOK, WorkersTyped
  <1>2. ASSUME NEW p \in Processes, StartRead(p) \/ Start(p) \/ Retry(p)
        PROVE  KeepsGens
    <2>1. call[p] \in Call /\ source \in Sources
      BY DEF TypeOK
    <2>2. Reset(Context).gen = row.gen /\ UNCHANGED worker
      BY <1>2 DEF StartRead, Start, Retry, Reset, NoRow
    <2> QED BY <1>1, <1>2, <2>1, <2>2, ResetTyped
            DEF StartRead, Start, Retry, KeepsGens, RowTyped
  <1>3. ASSUME NEW p \in Processes, Cancel(p) PROVE KeepsGens
    BY <1>1, <1>3 DEF Cancel, KeepsGens, Row, WorkersTyped, Worker
  <1>4. ASSUME NEW p \in Processes, Beat(p) PROVE KeepsGens
    BY <1>1, <1>4 DEF Beat, KeepsGens, Row, WorkersTyped, Worker
  <1>5. ASSUME NEW p \in Processes, Crash(p) PROVE KeepsGens
    BY <1>1, <1>5, IdleTyped DEF Crash, KeepsGens, WorkersTyped
  <1>6. ASSUME NEW p \in Processes, Restart(p) PROVE KeepsGens
    BY <1>1, <1>6 DEF Restart, Cleaned, KeepsGens, Row, WorkersTyped, Worker
  <1>7. CASE Age \/ Change \/ \E c \in late : LateCopy(c)
    BY <1>1, <1>7 DEF Age, Change, LateCopy, KeepsGens, Row
  <1> QED BY <1>2, <1>3, <1>4, <1>5, <1>6, <1>7

\* A step is a claim or leaves the generations alone.
LEMMA Generations ==
    ASSUME TypeOK, Next
    PROVE  KeepsGens \/ \E p \in Processes : Claim(p) /\ Claimable
  <1>1. ASSUME NEW p \in Processes, Claim(p), ~Claimable PROVE KeepsGens
    BY <1>1 DEF Claim, KeepsGens
  <1>2. ASSUME NEW p \in Processes, RunStep(p) PROVE KeepsGens
    BY <1>2, RunGens
  <1>3. ASSUME NEW p \in Processes, UploadStep(p) PROVE KeepsGens
    BY <1>3, UploadGens
  <1>4. ASSUME NEW p \in Processes, \/ StartRead(p) \/ Start(p)
                                    \/ Retry(p) \/ Cancel(p)
                                    \/ Beat(p) \/ Crash(p) \/ Restart(p)
        PROVE  KeepsGens
    BY <1>4, OtherGens
  <1>5. CASE Age \/ Change \/ \E c \in late : LateCopy(c)
    BY <1>5, OtherGens
  <1> QED
    BY <1>1, <1>2, <1>3, <1>4, <1>5 DEF Next, ProcessStep, WorkerStep

\* A transfer job is made by the claim that it is named for.
LEMMA TransferOf ==
    ASSUME TypeOK, Next
    PROVE  \/ UNCHANGED transfer
           \/ \E p \in Processes :
                 /\ worker[p].pc \in {"create", "send", "manifest", "finish"}
                 /\ \E v \in {"running", "completed", "failed"} :
                       transfer' =
                         [transfer EXCEPT
                            ![IF worker[p].pc = "create" THEN worker[p].gen
                              ELSE worker[p].job] = v]
  <1>1. ASSUME NEW p \in Processes, UploadStep(p)
        PROVE  \/ UNCHANGED transfer
               \/ /\ worker[p].pc \in {"create", "send", "manifest", "finish"}
                  /\ \E v \in {"running", "completed", "failed"} :
                       transfer' =
                         [transfer EXCEPT
                            ![IF worker[p].pc = "create" THEN worker[p].gen
                              ELSE worker[p].job] = v]
    <2>1. CASE Create(p)
      BY <2>1 DEF Create, At
    <2>2. CASE \E f \in Files : Send(p, f)
      BY <2>2 DEF Send, FailUpload, At
    <2>3. CASE Verify(p)
      BY <2>3 DEF Verify, FailUpload, At
    <2>4. CASE SendManifest(p)
      BY <2>4 DEF SendManifest, FailUpload, At
    <2>5. CASE FinishUpload(p)
      BY <2>5 DEF FinishUpload, FailUpload, At
    <2> QED BY <1>1, <2>1, <2>2, <2>3, <2>4, <2>5 DEF UploadStep
  <1>2. ASSUME NEW p \in Processes, RunStep(p) PROVE UNCHANGED transfer
    BY <1>2 DEF RunStep, Read, Build, Rename, Ready, Probe, Adopt, Find, Store,
                Verifying, VerifyAll, Write, Announce, Mark, Reread, Complete,
                ReadFails, Fail
  <1>3. ASSUME NEW p \in Processes, \/ StartRead(p) \/ Start(p)
                                    \/ Retry(p) \/ Cancel(p)
                                    \/ Claim(p) \/ Beat(p) \/ Crash(p)
                                    \/ Restart(p)
        PROVE  UNCHANGED transfer
    BY <1>3 DEF StartRead, Start, Retry, Cancel, Claim, Beat, Crash, Restart
  <1>4. CASE Age \/ Change \/ \E c \in late : LateCopy(c)
    BY <1>4 DEF Age, Change, LateCopy
  <1> QED
    BY <1>1, <1>2, <1>3, <1>4 DEF Next, ProcessStep, WorkerStep

LEMMA RoomKept ==
    ASSUME TypeOK, Room, Owed' \subseteq Owed, row'.gen = row.gen,
           calls' \in Nat, faults' \in Nat, calls <= calls', faults <= faults'
    PROVE  Room'
  <1>1. IsFiniteSet(Owed') /\ Cardinality(Owed') <= Cardinality(Owed)
    BY FS_Subset DEF Room
  <1>2. Cardinality(Owed) \in Nat /\ Cardinality(Owed') \in Nat
    BY <1>1, FS_CardinalityType DEF Room
  <1>3. row \in Row /\ calls \in 0..MaxCalls /\ faults \in 0..MaxFaults
    BY DEF TypeOK
  <1>4. row.gen \in Nat
    BY <1>3, Numbers DEF Row
  <1>5. row.gen + Cardinality(Owed) <= calls + faults
    BY DEF Room
  <1>6. row'.gen + Cardinality(Owed') <= calls' + faults'
    BY <1>1, <1>2, <1>3, <1>4, <1>5
  <1> QED BY <1>1, <1>6 DEF Room

\* A call and a crash are counted, and one more application may claim.
LEMMA RoomMade ==
    ASSUME TypeOK, Room, NEW d, Owed' \subseteq Owed \cup {d},
           row'.gen = row.gen, calls' + faults' = calls + faults + 1
    PROVE  Room'
  <1>1. /\ IsFiniteSet(Owed \cup {d})
        /\ Cardinality(Owed \cup {d}) =
              IF d \in Owed THEN Cardinality(Owed) ELSE Cardinality(Owed) + 1
    BY FS_AddElement DEF Room
  <1>2. IsFiniteSet(Owed') /\ Cardinality(Owed') <= Cardinality(Owed \cup {d})
    BY <1>1, FS_Subset
  <1>3. Cardinality(Owed) \in Nat /\ Cardinality(Owed') \in Nat
    BY <1>2, FS_CardinalityType DEF Room
  <1>4. row \in Row /\ calls \in 0..MaxCalls /\ faults \in 0..MaxFaults
    BY DEF TypeOK
  <1>5. row.gen \in Nat
    BY <1>4, Numbers DEF Row
  <1>6. row.gen + Cardinality(Owed) <= calls + faults
    BY DEF Room
  <1>7. row'.gen + Cardinality(Owed') <= calls' + faults'
    BY <1>1, <1>2, <1>3, <1>4, <1>5, <1>6
  <1> QED BY <1>2, <1>7 DEF Room

\* A flush queues what was owed to the call.
LEMMA RoomMoved ==
    ASSUME TypeOK, Room, NEW p \in Processes, Start(p), row'.gen = row.gen
    PROVE  Room'
  <1> DEFINE a == <<p, "call">>  b == <<p, "claim">>
  <1>1. a \in Owed /\ Owed' \subseteq (Owed \ {a}) \cup {b}
    BY DEF Start, Submit, Owed, TypeOK, NoCall
  <1> HIDE DEF a, b
  <1>2. /\ IsFiniteSet(Owed \ {a})
        /\ Cardinality(Owed \ {a}) = Cardinality(Owed) - 1
    BY <1>1, FS_RemoveElement DEF Room
  <1>3. /\ IsFiniteSet((Owed \ {a}) \cup {b})
        /\ Cardinality((Owed \ {a}) \cup {b}) =
              IF b \in Owed \ {a} THEN Cardinality(Owed \ {a})
              ELSE Cardinality(Owed \ {a}) + 1
    BY <1>2, FS_AddElement
  <1>4. /\ IsFiniteSet(Owed')
        /\ Cardinality(Owed') <= Cardinality((Owed \ {a}) \cup {b})
    BY <1>1, <1>3, FS_Subset
  <1>5. Cardinality(Owed) \in Nat /\ Cardinality(Owed') \in Nat
        /\ Cardinality(Owed \ {a}) \in Nat
    BY <1>2, <1>4, FS_CardinalityType DEF Room
  <1>6. row \in Row /\ calls \in 0..MaxCalls /\ faults \in 0..MaxFaults
        /\ UNCHANGED <<calls, faults>>
    BY DEF TypeOK, Start, bounds
  <1>7. row.gen \in Nat
    BY <1>6, Numbers DEF Row
  <1>8. row.gen + Cardinality(Owed) <= calls + faults
    BY DEF Room
  <1>9. row'.gen + Cardinality(Owed') <= calls' + faults'
    BY <1>2, <1>3, <1>4, <1>5, <1>6, <1>7, <1>8
  <1> QED BY <1>4, <1>9 DEF Room

\* A claim takes up what was queued.
LEMMA RoomTaken ==
    ASSUME TypeOK, Room, NEW p \in Processes, Claim(p), Claimable
    PROVE  Room'
  <1> DEFINE d == <<p, "claim">>
  <1>1. d \in Owed /\ Owed' \subseteq Owed \ {d} /\ row'.gen = row.gen + 1
    <2>1. /\ queued[p] /\ up[p] /\ UNCHANGED <<call, up>>
          /\ queued' = [queued EXCEPT ![p] = FALSE]
      BY DEF Claim, At
    <2>2. queued \in [Processes -> BOOLEAN] /\ row \in Row
      BY DEF TypeOK
    <2>3. row'.gen = row.gen + 1
      BY <2>2 DEF Claim, Row
    <2>4. d \in Owed
      BY <2>1 DEF Owed
    <2>5. ASSUME NEW e \in Owed' PROVE e \in Owed /\ e # d
      BY <2>1, <2>2 DEF Owed
    <2> QED BY <2>3, <2>4, <2>5
  <1> HIDE DEF d
  <1>2. /\ IsFiniteSet(Owed \ {d})
        /\ Cardinality(Owed \ {d}) = Cardinality(Owed) - 1
    BY <1>1, FS_RemoveElement DEF Room
  <1>3. IsFiniteSet(Owed') /\ Cardinality(Owed') <= Cardinality(Owed \ {d})
    BY <1>1, <1>2, FS_Subset
  <1>4. Cardinality(Owed) \in Nat /\ Cardinality(Owed') \in Nat
    BY <1>3, FS_CardinalityType DEF Room
  <1>5. row \in Row /\ calls \in 0..MaxCalls /\ faults \in 0..MaxFaults
        /\ UNCHANGED <<calls, faults>>
    BY DEF TypeOK, Claim, bounds
  <1>6. row.gen \in Nat
    BY <1>5, Numbers DEF Row
  <1>7. row.gen + Cardinality(Owed) <= calls + faults
    BY DEF Room
  <1>8. row'.gen + Cardinality(Owed') <= calls' + faults'
    BY <1>1, <1>2, <1>3, <1>4, <1>5, <1>6, <1>7
  <1> QED BY <1>3, <1>8 DEF Room

LEMMA RoomStep == ASSUME TypeOK, Room, Next PROVE Room'
  <1>1. calls \in Nat /\ faults \in Nat
    BY Numbers DEF TypeOK
  <1>2. ASSUME NEW p \in Processes, RunStep(p) \/ UploadStep(p) PROVE Room'
    <2>1. UNCHANGED <<call, up, queued, calls>> /\ (UNCHANGED faults \/ Fault)
      BY <1>2
        
         DEF RunStep, UploadStep, Read, Build, Rename, Ready, Probe, Adopt,
             Find,
             Store, Verifying, VerifyAll, Write, Announce, Mark, Reread,
             Complete,
             ReadFails, Fail, Create, Send, Verify, SendManifest, FinishUpload,
             bounds
    <2>2. KeepsGens
      BY <1>2, RunGens, UploadGens
    <2> QED BY <1>1, <2>1, <2>2, RoomKept DEF Fault, Owed, KeepsGens
  <1>3. ASSUME NEW p \in Processes, \/ StartRead(p) \/ Start(p)
                                    \/ Retry(p) \/ Cancel(p)
                                    \/ Beat(p) \/ Crash(p) \/ Restart(p)
        PROVE  Room'
    <2>1. row'.gen = row.gen
      BY <1>3, OtherGens DEF KeepsGens
    <2>2. CASE StartRead(p)
      <3>1. Owed' \subseteq Owed \cup {<<p, "call">>} /\ calls' = calls + 1
            /\ UNCHANGED faults
        BY <2>2 DEF StartRead, Owed, TypeOK
      <3> QED BY <1>1, <2>1, <3>1, RoomMade
    <2>6. CASE Retry(p)
      <3>1. Owed' \subseteq Owed \cup {<<p, "claim">>} /\ calls' = calls + 1
            /\ UNCHANGED faults
        BY <2>6 DEF Retry, Submit, Owed, TypeOK
      <3> QED BY <1>1, <2>1, <3>1, RoomMade
    <2>7. CASE Start(p)
      BY <2>1, <2>7, RoomMoved
    <2>3. CASE Cancel(p) \/ Beat(p)
      BY <1>1, <2>1, <2>3, RoomKept DEF Cancel, Beat, Owed, bounds
    <2>4. CASE Crash(p)
      <3>1. Owed' \subseteq Owed \cup {<<p, "claim">>} /\ faults' = faults + 1
            /\ UNCHANGED calls
        BY <2>4 DEF Crash, Fault, Owed, TypeOK, bounds
      <3> QED BY <1>1, <2>1, <3>1, RoomMade
    <2>5. CASE Restart(p)
      <3>1. Owed' \subseteq Owed /\ UNCHANGED <<calls, faults>>
        BY <2>5 DEF Restart, Owed, TypeOK, bounds
      <3> QED BY <1>1, <2>1, <3>1, RoomKept
    <2> QED BY <1>3, <2>2, <2>3, <2>4, <2>5, <2>6, <2>7
  <1>4. CASE Age \/ Change \/ \E c \in late : LateCopy(c)
    <2>1. UNCHANGED <<call, up, queued, calls, faults>>
      BY <1>4 DEF Age, Change, LateCopy, bounds
    <2> QED BY <1>1, <1>4, <2>1, OtherGens, RoomKept DEF KeepsGens, Owed
  <1>5. ASSUME NEW p \in Processes, Claim(p), ~Claimable PROVE Room'
    <2>1. Owed' \subseteq Owed /\ UNCHANGED <<row, calls, faults>>
      BY <1>5 DEF Claim, Owed, TypeOK, bounds
    <2> QED BY <1>1, <2>1, RoomKept
  <1> QED
    BY <1>2, <1>3, <1>4, <1>5, RoomTaken DEF Next, ProcessStep, WorkerStep

-----------------------------------------------------------------------------
(* what a worker may rely on *)

\* What never changes back.
Stable ==
    /\ \A j \in Gens : transfer[j] = "completed" => transfer'[j] = "completed"
    /\ whole \subseteq whole'
    /\ marker.gen # 0 => marker' = marker
    /\ policy' = policy

LEMMA StableStep == ASSUME IInv, Next PROVE Stable
  <1>1. \A j \in Gens : transfer[j] = "completed" => transfer'[j] = "completed"
    <2>1. TypeOK /\ \A p \in Processes : Working(p)
      BY DEF IInv
    <2>2. ASSUME NEW p \in Processes,
                 worker[p].pc \in {"create", "send", "manifest", "finish"}
          PROVE  LET j == IF worker[p].pc = "create" THEN worker[p].gen
                          ELSE worker[p].job
                 IN  transfer[j] # "completed"
      BY <2>1, <2>2 DEF Working, Before, Sending
    <2> QED BY <2>1, <2>2, TransferOf DEF TypeOK
  <1>2. whole \subseteq whole'
    BY DEF Next, WatchRemote
  <1>3. ASSUME NEW p \in Processes, RunStep(p) \/ UploadStep(p)
        PROVE  policy' = policy /\ (marker.gen # 0 => marker' = marker)
    <2>1. CASE Mark(p)
      BY <2>1 DEF Mark
    <2>2. CASE SendManifest(p) \/ \E f \in Files : Send(p, f)
      BY <2>2 DEF SendManifest, Send
    <2>3. CASE UNCHANGED <<policy, remoteVars>>
      BY <2>3 DEF remoteVars
    <2> QED
      BY <1>3, <2>1, <2>2, <2>3
        
         DEF RunStep, UploadStep, Read, Build, Rename, Ready, Probe, Adopt,
             Find,
             Store, Verifying, VerifyAll, Write, Announce, Reread, Complete,
             ReadFails, Fail, Create, Verify, FinishUpload
  <1>4. ASSUME NEW p \in Processes, \/ StartRead(p) \/ Start(p)
                                    \/ Retry(p) \/ Cancel(p)
                                    \/ Claim(p) \/ Beat(p) \/ Crash(p)
                                    \/ Restart(p)
        PROVE  policy' = policy /\ marker' = marker
    BY <1>4 DEF StartRead, Start, Retry, Cancel, Claim, Beat, Crash, Restart,
                remoteVars
  <1>5. ASSUME Age \/ Change \/ \E c \in late : LateCopy(c)
        PROVE  policy' = policy /\ (marker.gen # 0 => marker' = marker)
    BY <1>5 DEF Age, Change, LateCopy, remoteVars
  <1> QED
    BY <1>1, <1>2, <1>3, <1>4, <1>5
       DEF Stable, Next, ProcessStep, WorkerStep

\* A worker that nobody touched, or that gave up.
Alike(q) ==
    \/ worker'[q].pc \in {"idle", "fail"}
    \/ /\ worker'[q].pc = worker[q].pc /\ worker'[q].gen = worker[q].gen
       /\ worker'[q].job = worker[q].job /\ worker'[q].sum = worker[q].sum
       /\ worker[q].pc \in Before \cup Sending =>
             transfer'[worker[q].gen] = transfer[worker[q].gen]

LEMMA AlikeWorks ==
    ASSUME IInv, Stable, NEW q \in Processes, Alike(q) PROVE Working(q)'
  <1>1. Working(q) /\ worker[q] \in Worker
    BY DEF IInv, TypeOK
  <1>2. worker[q].job \in Gens
    BY <1>1 DEF Worker
  <1> QED BY <1>1, <1>2 DEF Alike, Stable, Working, Before, Sending, Sent

LEMMA OneWorker ==
    ASSUME TypeOK, NEW p \in Processes, NEW q \in Processes \ {p},
           RunStep(p) \/ UploadStep(p) \/ Claim(p)
    PROVE  worker'[q] = worker[q]
  <1>1. worker \in [Processes -> Worker]
    BY DEF TypeOK
  <1>2. ASSUME NEW status, FailAs(p, status) PROVE worker'[q] = worker[q]
    BY <1>1, <1>2 DEF FailAs
  <1>3. ASSUME NEW label, Go(p, label) PROVE worker'[q] = worker[q]
    BY <1>1, <1>3 DEF Go
  <1>4. ASSUME Lose(p) \/ StorageError(p) PROVE worker'[q] = worker[q]
    BY <1>2, <1>4 DEF Lose, StorageError
  <1>5. ASSUME NEW r, NEW next, ClaimedUpdate(p, r, next)
        PROVE  worker'[q] = worker[q]
    BY <1>3, <1>4, <1>5 DEF ClaimedUpdate
  <1>6. ASSUME NEW r, NEW next, UnlessCanceled(p, r, next)
        PROVE  worker'[q] = worker[q]
    BY <1>2, <1>5, <1>6 DEF UnlessCanceled
  <1>7. CASE Claim(p)
    BY <1>1, <1>7 DEF Claim
  <1>8. CASE UploadStep(p)
    BY <1>1, <1>3, <1>4, <1>8
       DEF UploadStep, Create, Send, Verify, SendManifest, FinishUpload,
           FailUpload
  <1>9. CASE RunStep(p)
    <2>1. CASE Read(p) \/ Build(p) \/ Rename(p) \/ Adopt(p) \/ Reread(p)
      BY <1>1, <1>2, <1>3, <1>4, <2>1 DEF Read, Build, Rename, Adopt, Reread
    <2>2. CASE VerifyAll(p) \/ Write(p) \/ Mark(p) \/ ReadFails(p)
      BY <1>2, <1>3, <1>4, <2>2 DEF VerifyAll, Write, Mark, ReadFails
    <2>3. CASE Ready(p) \/ Probe(p) \/ Store(p) \/ Verifying(p) \/ Announce(p)
      BY <1>4, <1>5, <1>6, <2>3 DEF Ready, Probe, Store, Verifying, Announce
    <2>4. CASE Find(p)
      BY <1>1, <1>4, <1>5, <2>4 DEF Find
    <2>5. CASE Complete(p) \/ Fail(p)
      BY <1>1, <1>4, <2>5 DEF Complete, Fail
    <2> QED BY <1>9, <2>1, <2>2, <2>3, <2>4, <2>5 DEF RunStep
  <1> QED BY <1>7, <1>8, <1>9

LEMMA OthersAlike ==
    ASSUME IInv, Next, NEW p \in Processes, NEW q \in Processes \ {p},
           RunStep(p) \/ UploadStep(p) \/ Claim(p)
    PROVE  Alike(q)
  <1>1. worker'[q] = worker[q]
    BY OneWorker DEF IInv
  <1>2. CASE UNCHANGED transfer \/ worker[q].pc = "idle"
    BY <1>1, <1>2 DEF Alike
  <1>3. CASE ~UNCHANGED transfer /\ worker[q].pc # "idle"
    <2>1. UploadStep(p)
      BY <1>3
      DEF RunStep, Claim, Read, Build, Rename, Ready, Probe, Adopt, Find,
                  Store, Verifying, VerifyAll, Write, Announce, Mark, Reread,
                  Complete, ReadFails, Fail
    <2>2. worker[p].pc \in {"create", "send", "manifest", "finish"}
      BY <2>1
      DEF UploadStep, Create, Send, Verify, SendManifest, FinishUpload, At
    <2>3. worker[p].pc = "create" \/ worker[p].job = worker[p].gen
      BY <2>2 DEF IInv, Working, Sending
    <2>4. worker[p].gen # worker[q].gen
      BY <1>3, <2>2 DEF IInv, Claims
    <2>5. \E v : transfer' = [transfer EXCEPT ![worker[p].gen] = v]
      BY <1>3, <2>1, <2>2, <2>3
         DEF UploadStep, Create, Send, Verify, SendManifest, FinishUpload,
             FailUpload, At
    <2>6. transfer'[worker[q].gen] = transfer[worker[q].gen]
      BY <2>4, <2>5 DEF IInv, TypeOK
    <2> QED BY <1>1, <2>6 DEF Alike
  <1> QED BY <1>2, <1>3

LEMMA FailAlike ==
    ASSUME WorkersTyped, NEW p \in Processes,
           \/ \E status : FailAs(p, status)
           \/ Lose(p) \/ StorageError(p)
    PROVE  worker'[p].pc = "fail"
  BY DEF WorkersTyped, FailAs, Lose, StorageError, IdleWorker

\* A worker goes on to another label of its part.
Onward(p) ==
    /\ worker'[p].gen = worker[p].gen /\ worker'[p].job = worker[p].job
    /\ worker[p].pc \in Before => worker'[p].pc \in Before
    /\ worker[p].pc \in Sent => worker'[p].pc \in Sent
    /\ worker'[p].pc \notin Sending \cup {"write", "complete"}

LEMMA OnwardWorks ==
    ASSUME IInv, Stable, UNCHANGED transfer, NEW p \in Processes,
           worker[p].pc \in Before \cup Sent, Onward(p)
    PROVE  Working(p)'
  <1>1. Working(p) /\ worker[p] \in Worker
    BY DEF IInv, TypeOK
  <1>2. worker[p].job \in Gens
    BY <1>1 DEF Worker
  <1> QED
    BY <1>1, <1>2 DEF Onward, Stable, Working, Before, Sending, Sent

\* A worker that gives up, or ends.
LEMMA GoneWorks ==
    ASSUME NEW p \in Processes, worker'[p].pc \in {"idle", "fail"}
    PROVE  Working(p)'
  BY DEF Working, Before, Sending, Sent

LEMMA RunWorks ==
    ASSUME IInv, Stable, whole' \subseteq Gens, NEW p \in Processes,
           RunStep(p), WatchRemote
    PROVE  Working(p)'
  <1>1. TypeOK /\ WorkersTyped /\ worker[p] \in Worker /\ Working(p)
    BY DEF IInv, TypeOK, WorkersTyped
  <1>2. UNCHANGED transfer
    BY DEF RunStep, Read, Build, Rename, Ready, Probe, Adopt, Find, Store,
           Verifying, VerifyAll, Write, Announce, Mark, Reread, Complete,
           ReadFails, Fail
  <1>3. ASSUME NEW label, Go(p, label), worker[p].pc \in Before \cup Sent,
               worker[p].pc \in Before => label \in Before,
               worker[p].pc \in Sent => label \in Sent,
               label \notin Sending \cup {"write", "complete"}
        PROVE  Working(p)'
    <2>1. Onward(p)
      BY <1>1, <1>3 DEF Go, Onward, WorkersTyped, Worker
    <2> QED BY <1>2, <1>3, <2>1, OnwardWorks
  <1>4. ASSUME worker'[p].pc = "fail" PROVE Working(p)'
    BY <1>4, GoneWorks
  <1>5. ASSUME NEW r, NEW label, ClaimedUpdate(p, r, label),
               worker[p].pc \in Before \cup Sent,
               worker[p].pc \in Before => label \in Before,
               worker[p].pc \in Sent => label \in Sent,
               label \notin Sending \cup {"write", "complete"}
        PROVE  Working(p)'
    BY <1>1, <1>3, <1>4, <1>5, FailAlike DEF ClaimedUpdate
  <1>6. CASE Read(p)
    <2> DEFINE r == [worker[p] EXCEPT !.pc = "build", !.source = Context,
                                      !.stored = row.marker,
                                      !.preferred = row.job]
    <2>1. r.pc = "build" /\ r.gen = worker[p].gen /\ r.job = worker[p].job
      BY <1>1 DEF Worker
    <2>2. Lose(p) \/ FailAs(p, "canceled")
          \/ worker' = [worker EXCEPT ![p] = r]
      BY <1>1, <1>6 DEF Read, WorkersTyped
    <2> HIDE DEF r
    <2>3. worker'[p].pc = "fail" \/ Onward(p)
      BY <1>1, <1>6, <2>1, <2>2, FailAlike
         DEF Read, At, Onward, Before, Sent, Sending, WorkersTyped
    <2> QED BY <1>2, <1>4, <1>6, <2>3, OnwardWorks DEF Read, At, Before
  <1>7. CASE Build(p)
    <2> DEFINE r == [worker[p] EXCEPT !.pc = "rename", !.temp = TRUE]
    <2>1. r.pc = "rename" /\ r.gen = worker[p].gen /\ r.job = worker[p].job
      BY <1>1 DEF Worker
    <2>2. Lose(p) \/ FailAs(p, "canceled") \/ Go(p, "ready")
          \/ worker' = [worker EXCEPT ![p] = r]
      BY <1>1, <1>7 DEF Build, WorkersTyped
    <2> HIDE DEF r
    <2>3. worker'[p].pc = "fail" \/ Onward(p)
      BY <1>1, <1>7, <2>1, <2>2, FailAlike
         DEF Build, At, Go, Onward, Before, Sent, Sending, WorkersTyped, Worker
    <2> QED BY <1>2, <1>4, <1>7, <2>3, OnwardWorks DEF Build, At, Before
  <1>8. CASE Rename(p)
    <2> DEFINE r == [worker[p] EXCEPT !.pc = "ready", !.temp = FALSE]
    <2>1. r.pc = "ready" /\ r.gen = worker[p].gen /\ r.job = worker[p].job
      BY <1>1 DEF Worker
    <2>2. Lose(p) \/ worker' = [worker EXCEPT ![p] = r]
      BY <1>1, <1>8 DEF Rename, WorkersTyped
    <2> HIDE DEF r
    <2>3. worker'[p].pc = "fail" \/ Onward(p)
      BY <1>1, <1>8, <2>1, <2>2, FailAlike
         DEF Rename, At, Onward, Before, Sent, Sending, WorkersTyped
    <2> QED BY <1>2, <1>4, <1>8, <2>3, OnwardWorks DEF Rename, At, Before
  <1>9. CASE Ready(p)
    BY <1>1, <1>4, <1>5, <1>9, FailAlike
       DEF Ready, At, Before, Sent, Sending
  <1>10. CASE Probe(p)
    BY <1>1, <1>4, <1>5, <1>10, FailAlike
       DEF Probe, At, UnlessCanceled, Before, Sent, Sending
  <1>11. CASE Store(p) \/ Verifying(p) \/ Announce(p)
    BY <1>1, <1>4, <1>5, <1>11, FailAlike
      
       DEF Store, Verifying, Announce, At, UnlessCanceled, Before, Sent,
           Sending
  <1>12. CASE Write(p) \/ Mark(p)
    BY <1>1, <1>3, <1>4, <1>12, FailAlike
       DEF Write, Mark, At, Before, Sent, Sending
  <1>13. CASE ReadFails(p)
    BY <1>1, <1>4, <1>13, FailAlike DEF ReadFails
  <1>14. CASE Complete(p) \/ Fail(p)
    BY <1>1, <1>14, FailAlike, GoneWorks, IdleTyped
       DEF Complete, Fail, WorkersTyped
  <1>15. CASE VerifyAll(p)
    <2>1. CASE Go(p, "write") /\ RemoteVerified(worker[p].job)
      <3>1. worker[p].job # 0 /\ transfer[worker[p].job] = "completed"
            /\ worker[p].job \in Gens
        BY <1>1, <1>15 DEF VerifyAll, At, Working, Sent, Worker
      <3>2. policy.hash => worker[p].job \in whole'
        <4>1. policy.hash => \A f \in Files : remote[f] = "good"
          BY <2>1 DEF RemoteVerified, FilesVerified, Verified
        <4>2. UNCHANGED <<remote, manifest>> /\ manifest = worker[p].job
          BY <1>15, <2>1 DEF VerifyAll, remoteVars, RemoteVerified
        <4> QED BY <3>1, <4>1, <4>2 DEF WatchRemote
      <3>3. worker'[p].pc = "write" /\ worker'[p].job = worker[p].job
        BY <1>1, <2>1 DEF Go, WorkersTyped, Worker
      <3> QED BY <1>2, <3>1, <3>2, <3>3
              DEF Stable, Working, Before, Sending, Sent
    <2>2. CASE StorageError(p)
      BY <1>1, <1>4, <2>2, FailAlike
    <2> QED BY <1>15, <2>1, <2>2 DEF VerifyAll
  <1>16. CASE Find(p)
    <2> DEFINE found == IF worker[p].preferred # 0 THEN worker[p].preferred
                                                   ELSE newest
               label == IF Holds(p) THEN "store" ELSE "fail"
               r == [worker[p] EXCEPT !.pc = label, !.job = found]
    <2>1. r.pc = label /\ r.job = found
      BY <1>1 DEF Worker
    <2>2. \/ Lose(p)
          \/ /\ found # 0 /\ transfer[found] = "completed"
             /\ worker' = [worker EXCEPT ![p] = r]
          \/ ClaimedUpdate(p, [row EXCEPT !.status = "uploading"], "create")
      BY <1>1, <1>16 DEF Find, WorkersTyped, TransferMatches, IInv
    <2> HIDE DEF r, found
    <2>3. CASE worker' = [worker EXCEPT ![p] = r] /\ found # 0
               /\ transfer[found] = "completed"
      BY <1>1, <1>2, <2>1, <2>3
         DEF WorkersTyped, Working, Before, Sending, Sent
    <2> QED BY <1>1, <1>4, <1>5, <1>16, <2>2, <2>3, FailAlike
            DEF Find, At, Before, Sent, Sending
  <1>17. CASE Adopt(p)
    <2> DEFINE r == [worker[p] EXCEPT !.pc = "complete", !.job = marker.job,
                                      !.sum = marker.gen]
    <2>1. r.pc = "complete" /\ r.job = marker.job /\ r.sum = marker.gen
      BY <1>1 DEF Worker
    <2>2. \/ Lose(p) \/ FailAs(p, "canceled")
          \/ /\ CompletionVerified(p)
             /\ worker' = [worker EXCEPT ![p] = r]
      BY <1>1, <1>17 DEF Adopt, WorkersTyped
    <2> HIDE DEF r
    <2>3. CASE CompletionVerified(p) /\ worker' = [worker EXCEPT ![p] = r]
      <3>1. marker.job # 0 /\ marker.gen # 0
            /\ transfer[marker.job] = "completed"
        BY <2>3 DEF CompletionVerified, MarkerMatches, TransferMatches, IInv,
                    Markers, Truthful
      <3> QED BY <1>1, <1>2, <2>1, <2>3, <3>1
              DEF Stable, WorkersTyped, Working, Before, Sending, Sent
    <2> QED BY <1>1, <1>4, <2>2, <2>3, FailAlike
  <1>18. CASE Reread(p)
    <2> DEFINE r == [worker[p] EXCEPT !.pc = "complete", !.sum = marker.gen]
    <2>1. r.pc = "complete" /\ r.job = worker[p].job /\ r.sum = marker.gen
      BY <1>1 DEF Worker
    <2>2. \/ Lose(p) \/ FailAs(p, "canceled")
          \/ /\ CompletionVerified(p) /\ marker.job = worker[p].job
             /\ worker' = [worker EXCEPT ![p] = r]
      BY <1>1, <1>18 DEF Reread, WorkersTyped
    <2> HIDE DEF r
    <2>3. CASE /\ CompletionVerified(p) /\ marker.job = worker[p].job
               /\ worker' = [worker EXCEPT ![p] = r]
      <3>1. marker.job # 0 /\ marker.gen # 0
            /\ transfer[marker.job] = "completed"
        BY <2>3 DEF CompletionVerified, MarkerMatches, TransferMatches, IInv,
                    Markers, Truthful
      <3> QED BY <1>1, <1>2, <2>1, <2>3, <3>1
              DEF Stable, WorkersTyped, Working, Before, Sending, Sent
    <2> QED BY <1>1, <1>4, <2>2, <2>3, FailAlike
  <1> QED
    BY <1>6, <1>7, <1>8, <1>9, <1>10, <1>11, <1>12, <1>13, <1>14, <1>15, <1>16,
       <1>17, <1>18
       DEF RunStep

LEMMA UploadWorks ==
    ASSUME IInv, Stable, NEW p \in Processes, UploadStep(p)
    PROVE  Working(p)'
  <1>1. TypeOK /\ WorkersTyped /\ worker[p] \in Worker /\ Working(p)
    BY DEF IInv, TypeOK, WorkersTyped
  <1>2. worker[p].gen \in Gens /\ worker[p].job \in Gens
    BY <1>1 DEF Worker
  <1>3. ASSUME FailUpload(p) \/ StorageError(p) PROVE Working(p)'
    BY <1>1, <1>3, FailAlike, GoneWorks DEF FailUpload
  <1>4. CASE Create(p)
    <2> DEFINE r == [worker[p] EXCEPT !.pc = "send", !.job = worker[p].gen,
                               !.todo = {f \in Files : ~Identical(f)}]
    <2>1. r.pc = "send" /\ r.job = worker[p].gen /\ r.gen = worker[p].gen
      BY <1>1 DEF Worker
    <2>2. \/ StorageError(p)
          \/ /\ worker' = [worker EXCEPT ![p] = r]
             /\ transfer' = [transfer EXCEPT ![worker[p].gen] = "running"]
      BY <1>1, <1>4 DEF Create, WorkersTyped
    <2> HIDE DEF r
    <2>3. CASE /\ worker' = [worker EXCEPT ![p] = r]
               /\ transfer' = [transfer EXCEPT ![worker[p].gen] = "running"]
      BY <1>1, <1>2, <2>1, <2>3
         DEF TypeOK, Working, Before, Sending, Sent
    <2> QED BY <1>3, <2>2, <2>3
  <1>5. ASSUME worker[p].pc \in Sending, worker'[p].pc \in Sending,
               worker'[p].gen = worker[p].gen, worker'[p].job = worker[p].job,
               UNCHANGED transfer
        PROVE  Working(p)'
    BY <1>1, <1>5 DEF Working, Before, Sending, Sent
  <1>6. ASSUME NEW f \in Files, Send(p, f) PROVE Working(p)'
    <2> DEFINE r == [worker[p] EXCEPT !.todo = worker[p].todo \ {f}]
    <2>1. r.pc = worker[p].pc /\ r.gen = worker[p].gen /\ r.job = worker[p].job
      BY <1>1 DEF Worker
    <2>2. \/ FailUpload(p)
          \/ worker' = [worker EXCEPT ![p] = r] /\ UNCHANGED transfer
      BY <1>1, <1>6 DEF Send, WorkersTyped
    <2> HIDE DEF r
    <2> QED BY <1>1, <1>3, <1>5, <1>6, <2>1, <2>2
            DEF Send, At, Sending, WorkersTyped
  <1>7. CASE Verify(p) \/ SendManifest(p)
    BY <1>1, <1>3, <1>5, <1>7
       DEF Verify, SendManifest, At, Go, Sending, WorkersTyped, Worker
  <1>8. CASE FinishUpload(p)
    <2>1. worker[p].job = worker[p].gen /\ worker[p].pc = "finish"
      BY <1>1, <1>8 DEF FinishUpload, At, Working, Sending
    <2>2. worker[p].job # 0
      BY <1>2, <2>1, Numbers DEF IInv, Claims
    <2>3. CASE /\ transfer' = [transfer EXCEPT ![worker[p].job] = "completed"]
               /\ Go(p, "store")
      BY <1>1, <1>2, <2>2, <2>3
         DEF TypeOK, Go, WorkersTyped, Worker, Working, Before, Sending, Sent
    <2> QED BY <1>3, <1>8, <2>3 DEF FinishUpload
  <1> QED BY <1>4, <1>6, <1>7, <1>8 DEF UploadStep

LEMMA ClaimWorks ==
    ASSUME IInv, Stable, NEW p \in Processes, Claim(p) PROVE Working(p)'
  <1>1. TypeOK /\ WorkersTyped /\ Working(p)
    BY DEF IInv, TypeOK, WorkersTyped
  <1>2. CASE ~Claimable
    BY <1>1, <1>2, GoneWorks DEF Claim, At
  <1>3. CASE Claimable
    <2>1. row.gen + 1 \in Gens /\ row.gen \in Nat
      <3>1. <<p, "claim">> \in Owed
        BY DEF Claim, Owed
      <3> QED BY <3>1, RoomToClaim, Numbers DEF IInv, TypeOK, Row
    <2>2. transfer[row.gen + 1] = "none"
      BY <2>1 DEF IInv, Claims
    <2> DEFINE r == [IdleWorker EXCEPT !.pc = "read", !.gen = row.gen + 1]
    <2>3. r.pc = "read" /\ r.gen = row.gen + 1
      BY DEF IdleWorker
    <2>4. worker' = [worker EXCEPT ![p] = r] /\ UNCHANGED transfer
      BY <1>3 DEF Claim
    <2> HIDE DEF r
    <2> QED BY <1>1, <2>2, <2>3, <2>4
            DEF WorkersTyped, Working, Before, Sending, Sent
  <1> QED BY <1>2, <1>3

LEMMA OtherWorks ==
    ASSUME IInv, NEW q \in Processes,
           \/ \E p \in Processes : \/ StartRead(p) \/ Start(p)
                                   \/ Retry(p) \/ Cancel(p)
                                   \/ Beat(p) \/ Crash(p) \/ Restart(p)
           \/ Age \/ Change \/ \E c \in late : LateCopy(c)
    PROVE  Alike(q)
  <1>1. WorkersTyped /\ worker[q] \in Worker
    BY DEF IInv, TypeOK, WorkersTyped
  <1>2. UNCHANGED transfer
    BY DEF StartRead, Start, Retry, Cancel, Beat, Crash, Restart, Age, Change,
           LateCopy
  <1>3. ASSUME NEW p \in Processes, Cancel(p) \/ Beat(p) \/ Crash(p)
        PROVE  Alike(q)
    BY <1>1, <1>2, <1>3, IdleTyped
       DEF Cancel, Beat, Crash, Alike, WorkersTyped, Worker
  <1>4. ASSUME NEW p \in Processes, Restart(p) PROVE Alike(q)
    BY <1>1, <1>2, <1>4 DEF Restart, Cleaned, Alike, WorkersTyped, Worker
  <1>5. CASE UNCHANGED worker
    BY <1>2, <1>5 DEF Alike
  <1> QED BY <1>3, <1>4, <1>5 DEF StartRead, Start, Retry, Age, Change, LateCopy

LEMMA WorkingStep ==
    ASSUME IInv, Next, Stable, NEW q \in Processes PROVE Working(q)'
  <1>1. whole' \subseteq Gens
    BY TypeStep DEF IInv, TypeOK
  <1>2. ASSUME NEW p \in Processes, RunStep(p) \/ UploadStep(p) \/ Claim(p)
        PROVE  Working(q)'
    <2>1. CASE q = p
      BY <1>1, <1>2, <2>1, RunWorks, UploadWorks, ClaimWorks DEF Next
    <2>2. CASE q # p
      BY <1>2, <2>2, OthersAlike, AlikeWorks
    <2> QED BY <2>1, <2>2
  <1>3. CASE \/ \E p \in Processes : \/ StartRead(p) \/ Start(p)
                                     \/ Retry(p) \/ Cancel(p)
                                     \/ Beat(p) \/ Crash(p) \/ Restart(p)
             \/ Age \/ Change \/ \E c \in late : LateCopy(c)
    BY <1>3, OtherWorks, AlikeWorks
  <1> QED BY <1>2, <1>3 DEF Next, ProcessStep, WorkerStep

LEMMA ClaimsStep == ASSUME IInv, Next PROVE Claims'
  <1>1. TypeOK /\ Claims /\ Room /\ WorkersTyped
    BY DEF IInv, TypeOK, WorkersTyped
  <1>2. row.gen \in Nat
    BY <1>1, Numbers DEF TypeOK, Row
  <1>3. \A j \in Gens : transfer'[j] # "none" => j <= row.gen
    <2>1. ASSUME NEW p \in Processes, worker[p].pc # "idle",
                 worker[p].pc \notin Sent
          PROVE  worker[p].gen <= row.gen
                 /\ (worker[p].pc \in Sending => worker[p].job <= row.gen)
      BY <1>1, <2>1 DEF IInv, Claims, Working
    <2>2. CASE UNCHANGED transfer
      BY <1>1, <2>2 DEF Claims
    <2>3. ASSUME NEW p \in Processes,
                 worker[p].pc \in {"create", "send", "manifest", "finish"},
                 NEW v,
                 transfer' = [transfer EXCEPT
                                ![IF worker[p].pc = "create"
                                  THEN worker[p].gen ELSE worker[p].job] = v]
          PROVE  \A j \in Gens : transfer'[j] # "none" => j <= row.gen
      BY <1>1, <2>1, <2>3 DEF TypeOK, Claims, Sending, Sent
    <2> QED BY <1>1, <2>2, <2>3, TransferOf
  <1>4. CASE KeepsGens
    BY <1>1, <1>3, <1>4 DEF Claims, KeepsGens
  <1>5. ASSUME NEW p \in Processes, Claim(p), Claimable PROVE Claims'
    <2> DEFINE r == [IdleWorker EXCEPT !.pc = "read", !.gen = row.gen + 1]
    <2>1. r.gen = row.gen + 1
      BY DEF IdleWorker
    <2>2. worker' = [worker EXCEPT ![p] = r] /\ row'.gen = row.gen + 1
      BY <1>1, <1>5 DEF Claim, TypeOK, Row
    <2> HIDE DEF r
    <2>3. \A q \in Processes \ {p} : worker'[q] = worker[q]
      BY <1>1, <2>2 DEF WorkersTyped
    <2>4. worker'[p].gen = row.gen + 1
      BY <1>1, <2>1, <2>2 DEF WorkersTyped
    <2>5. \A q \in Processes : worker[q].gen \in Nat
      BY <1>1, Numbers DEF WorkersTyped, Worker
    <2>6. \A j \in Gens : j \in Nat
      BY Numbers
    <2> QED BY <1>1, <1>2, <1>3, <2>2, <2>3, <2>4, <2>5, <2>6 DEF Claims
  <1> QED BY <1>1, <1>4, <1>5, Generations

LEMMA NewestStep ==
    ASSUME IInv, Next, Stable
    PROVE  newest' # 0 => transfer'[newest'] = "completed"
  <1>1. TypeOK /\ (newest # 0 => transfer[newest] = "completed")
    BY DEF IInv
  <1>2. CASE UNCHANGED newest
    BY <1>1, <1>2 DEF Stable, TypeOK
  <1>3. ASSUME NEW p \in Processes, FinishUpload(p)
        PROVE  newest' # 0 => transfer'[newest'] = "completed"
    <2>1. worker[p].job \in Gens
      BY <1>1 DEF TypeOK, Worker
    <2>2. \/ UNCHANGED newest
          \/ /\ newest' = worker[p].job
             /\ transfer' = [transfer EXCEPT ![worker[p].job] = "completed"]
      BY <1>3 DEF FinishUpload
    <2> QED BY <1>1, <1>2, <2>1, <2>2 DEF TypeOK
  <1> QED
    BY ZenonT(60), <1>2, <1>3
       DEF Next, ProcessStep, WorkerStep, RunStep, UploadStep, Read, Build,
           Rename, Ready, Probe, Adopt, Find, Store, Verifying, VerifyAll,
           Write,
           Announce, Mark, Reread, Complete, ReadFails, Fail, Create, Send,
           Verify, SendManifest, StartRead, Start, Retry, Cancel, Claim, Beat,
           Crash,
           Restart, Age, Change, LateCopy

-----------------------------------------------------------------------------
(* markers *)

\* What was true of a marker stays true.
LEMMA TruthStays ==
    ASSUME TypeOK, Stable, NEW m \in Marker, Truthful(m) PROVE Truthful(m)'
  <1>1. m.job \in Gens
    BY DEF Marker
  <1> QED BY <1>1 DEF Stable, Truthful

\* The marker that a worker writes is true.
LEMMA WriteTruthful ==
    ASSUME IInv, Stable, NEW p \in Processes, Write(p)
    PROVE  Truthful(draft)'
  <1>1. TypeOK /\ draft \in Marker /\ Truthful(draft)
        /\ worker[p] \in Worker /\ Working(p)
    BY DEF IInv, TypeOK, Markers
  <1>2. CASE draft' = draft
    BY <1>1, <1>2, TruthStays DEF Truthful
  <1>3. CASE draft' = [gen |-> worker[p].gen, job |-> worker[p].job,
                       source |-> worker[p].source]
    <2>1. worker[p].pc = "write" /\ worker[p].job \in Gens
      BY <1>1 DEF Write, At, Worker
    <2>2. 0 < worker[p].gen /\ worker[p].gen \in Nat
      BY <1>1, <2>1, Numbers DEF IInv, Claims, Worker
    <2>3. /\ worker[p].job # 0 /\ transfer[worker[p].job] = "completed"
          /\ policy.hash => worker[p].job \in whole
      BY <1>1, <2>1 DEF Working, Sent
    <2> QED BY <1>3, <2>1, <2>2, <2>3 DEF Stable, Truthful
  <1> QED BY <1>2, <1>3 DEF Write

LEMMA MarkersStep == ASSUME IInv, Next, Stable PROVE Markers'
  <1>1. TypeOK /\ Markers
    BY DEF IInv
  <1>2. marker \in Marker /\ draft \in Marker
        /\ \A c \in late : "marker" \in DOMAIN c => c.marker \in Marker
    BY <1>1, Copies DEF TypeOK
  <1>3. \A m \in Marker : Truthful(m) => Truthful(m)'
    BY <1>1, TruthStays
  <1>4. CASE UNCHANGED <<marker, draft, late>>
    BY <1>1, <1>2, <1>3, <1>4 DEF Markers, Truthful
  <1>5. ASSUME NEW p \in Processes, Write(p) PROVE Markers'
    <2>1. Truthful(draft)'
      BY <1>5, WriteTruthful
    <2>2. UNCHANGED <<marker, late>>
      BY <1>5 DEF Write, remoteVars
    <2> QED BY <1>1, <1>2, <1>3, <2>1, <2>2 DEF Markers, Truthful
  <1>6. ASSUME NEW p \in Processes, Mark(p) PROVE Markers'
    <2>1. marker' \in {marker, draft} /\ UNCHANGED <<draft, late>>
      BY <1>6 DEF Mark
    <2> QED BY <1>1, <1>2, <1>3, <2>1 DEF Markers, Truthful
  <1>7. ASSUME NEW p \in Processes, Crash(p) PROVE Markers'
    <2>1. UNCHANGED <<marker, draft>> /\ late' \subseteq late \cup InFlight(p)
      BY <1>7 DEF Crash, remoteVars
    <2>2. \A c \in InFlight(p) : "marker" \in DOMAIN c => c.marker = draft
      BY DEF InFlight
    <2> QED BY <1>1, <1>2, <1>3, <2>1, <2>2 DEF Markers, Truthful
  <1>8. ASSUME NEW c \in late, LateCopy(c) PROVE Markers'
    <2>1. UNCHANGED draft /\ late' \subseteq late
          /\ \/ marker' = marker
             \/ "marker" \in DOMAIN c /\ marker' = c.marker
      BY <1>8 DEF LateCopy
    <2> QED BY <1>1, <1>2, <1>3, <2>1 DEF Markers, Truthful
  <1> QED
    BY ZenonT(60), <1>4, <1>5, <1>6, <1>7, <1>8
       DEF Next, ProcessStep, WorkerStep, RunStep, UploadStep, Read, Build,
           Rename, Ready, Probe, Adopt, Find, Store, Verifying, VerifyAll,
           Announce, Reread, Complete, ReadFails, Fail, Create, Send, Verify,
           SendManifest, FinishUpload, StartRead, Start, Retry, Cancel, Claim, Beat,
           Restart,
           Age, Change, remoteVars

-----------------------------------------------------------------------------
(* the completed row *)

\* A completed row is nobody's, and nothing writes more of it than the
\* fingerprint.
LEMMA CompletedStep ==
    ASSUME TypeOK, Closed, Next, row.status = "completed"
    PROVE  \/ UNCHANGED row
           \/ \E s \in Sources : row' = [row EXCEPT !.source = s]
  <1>1. ~row.held /\ \A p \in Processes : ~Holds(p)
    BY DEF Closed, Holds
  <1>2. ~Stale /\ ~Claimable
    BY DEF Stale, Claimable, Active
  <1>3. ASSUME NEW p \in Processes, RunStep(p) PROVE row' = row
    <2>1. ~Holds(p)
      BY <1>1
    <2>2. \A r, next : /\ ClaimedUpdate(p, r, next) => row' = row
                       /\ UnlessCanceled(p, r, next) => row' = row
      BY <2>1 DEF ClaimedUpdate, UnlessCanceled
    <2> QED
      BY <1>3, <2>1, <2>2
         DEF RunStep, Read, Build, Rename, Ready, Probe, Adopt, Find, Store,
             Verifying, VerifyAll, Write, Announce, Mark, Reread, Complete,
             ReadFails, Fail
  <1>4. ASSUME NEW p \in Processes, UploadStep(p) PROVE row' = row
    BY <1>4 DEF UploadStep, Create, Send, Verify, SendManifest, FinishUpload
  <1>5. ASSUME NEW p \in Processes, \/ StartRead(p) \/ Retry(p) \/ Cancel(p)
                                    \/ Claim(p) \/ Beat(p) \/ Crash(p)
                                    \/ Restart(p)
        PROVE  row' = row
    <2>1. CASE StartRead(p) \/ Crash(p)
      BY <2>1 DEF StartRead, Crash
    <2>2. CASE Retry(p) \/ Cancel(p)
      BY <2>2 DEF Retry, Resettable, Cancel
    <2>3. CASE Claim(p) \/ Beat(p) \/ Restart(p)
      BY <1>1, <1>2, <2>3 DEF Claim, Beat, Restart
    <2> QED BY <1>5, <2>1, <2>2, <2>3
  <1>6. CASE Age \/ Change \/ \E c \in late : LateCopy(c)
    BY <1>1, <1>6 DEF Age, Change, LateCopy
  <1>8. ASSUME NEW p \in Processes, Start(p)
        PROVE  \/ UNCHANGED row
               \/ \E s \in Sources : row' = [row EXCEPT !.source = s]
    <2>1. call[p].write \in Sources \cup {0}
      BY DEF TypeOK, Call
    <2>2. row' = row \/ row' = [row EXCEPT !.source = call[p].write]
      BY <1>8 DEF Start, Flushed, Resettable
    <2>3. row' = row \/ call[p].write # 0
      BY <1>8 DEF Start, Flushed, Resettable
    <2> QED BY <2>1, <2>2, <2>3
  <1> QED BY <1>3, <1>4, <1>5, <1>6, <1>8
          DEF Next, ProcessStep, WorkerStep

\* Only the worker that holds the claim completes the row.
LEMMA CompletedBy ==
    ASSUME TypeOK, Next, row.status # "completed", row'.status = "completed"
    PROVE  \E p \in Processes : Complete(p) /\ Holds(p)
  <1>1. row \in Row /\ worker \in [Processes -> Worker]
    BY DEF TypeOK
  <1>2. UNCHANGED row => FALSE
    OBVIOUS
  <1>3. ASSUME NEW b, row' = [row EXCEPT !.beat = b] PROVE FALSE
    BY <1>1, <1>3 DEF Row
  <1>4. ASSUME NEW p \in Processes, NEW r \in Row, r.status # "completed",
               NEW next, ClaimedUpdate(p, r, next)
        PROVE  FALSE
    BY <1>4 DEF ClaimedUpdate, Row
  <1>5. ASSUME NEW p \in Processes, NEW r \in Row, r.status # "completed",
               NEW next, UnlessCanceled(p, r, next)
        PROVE  FALSE
    BY <1>4, <1>5 DEF UnlessCanceled
  <1>6. ASSUME NEW p \in Processes, RunStep(p) PROVE Complete(p) /\ Holds(p)
    <2>1. worker[p] \in Worker
      BY <1>1
    <2>2. worker[p].job \in Gens /\ worker[p].gen \in Gens
          /\ worker[p].end \in {"failed", "canceled"}
      BY <2>1 DEF Worker
    <2>3. /\ \A v \in Active :
                /\ [row EXCEPT !.status = v] \in Row
                /\ [row EXCEPT !.status = v].status # "completed"
          /\ [row EXCEPT !.job = worker[p].job] \in Row
          /\ [row EXCEPT !.job = worker[p].job].status # "completed"
          /\ [row EXCEPT !.marker = worker[p].gen] \in Row
          /\ [row EXCEPT !.marker = worker[p].gen].status # "completed"
      BY <1>1, <2>2 DEF Row, Status, Active
    <2>4. CASE \/ Read(p) \/ Build(p) \/ Rename(p) \/ Adopt(p) \/ VerifyAll(p)
               \/ Write(p) \/ Mark(p) \/ Reread(p) \/ ReadFails(p)
      BY <2>4 DEF Read, Build, Rename, Adopt, VerifyAll, Write, Mark, Reread,
                  ReadFails
    <2>5. CASE Ready(p)
      BY <1>4, <2>3, <2>5 DEF Ready, Active
    <2>6. CASE Probe(p)
      BY <1>1, <1>5, <2>6 DEF Probe
    <2>7. CASE Find(p)
      <3>1. \/ row' \in {row, [row EXCEPT !.beat = "young"]}
            \/ ClaimedUpdate(p, [row EXCEPT !.status = "uploading"], "create")
        BY <2>7 DEF Find
      <3> QED BY <1>3, <1>4, <2>3, <3>1 DEF Active
    <2>8. CASE Store(p)
      BY <1>4, <2>3, <2>8 DEF Store
    <2>9. CASE Verifying(p) \/ Announce(p)
      BY <1>5, <2>3, <2>9 DEF Verifying, Announce, Active
    <2>10. CASE Complete(p)
      BY <2>10 DEF Complete
    <2>11. CASE Fail(p)
      BY <1>1, <2>2, <2>11 DEF Fail, Row
    <2> QED BY <1>6, <2>4, <2>5, <2>6, <2>7, <2>8, <2>9, <2>10, <2>11
            DEF RunStep
  <1>7. ASSUME NEW p \in Processes, UploadStep(p) PROVE FALSE
    BY <1>7 DEF UploadStep, Create, Send, Verify, SendManifest, FinishUpload
  <1>8. ASSUME NEW p \in Processes, StartRead(p) \/ Start(p) \/ Retry(p)
        PROVE  FALSE
    BY <1>1, <1>8
       DEF StartRead, Start, Flushed, Retry, Reset, NoRow, Row, TypeOK, Call
  <1>9. ASSUME NEW p \in Processes,
               Cancel(p) \/ Claim(p) \/ Beat(p) \/ Crash(p) \/ Restart(p)
        PROVE  FALSE
    BY <1>1, <1>9 DEF Cancel, Claim, Beat, Crash, Restart, Row
  <1>10. CASE Age \/ Change \/ \E c \in late : LateCopy(c)
    BY <1>1, <1>10 DEF Age, Change, LateCopy, Row
  <1> QED
    BY <1>6, <1>7, <1>8, <1>9, <1>10 DEF Next, ProcessStep, WorkerStep

LEMMA CompletedHolds ==
    ASSUME IInv, Next, Stable PROVE Closed' /\ CompletedIsMarked'
  <1>1. TypeOK /\ Closed /\ CompletedIsMarked
    BY DEF IInv
  <1>2. CASE row.status = "completed"
    <2>1. /\ row.job \in Gens
          /\ row'.status = row.status /\ row'.held = row.held
          /\ row'.job = row.job /\ row'.marker = row.marker
      BY <1>1, <1>2, CompletedStep DEF TypeOK, Row
    <2> QED BY <1>1, <1>2, <2>1 DEF Closed, CompletedIsMarked, Stable
  <1>3. CASE row.status # "completed" /\ row'.status = "completed"
    <2>1. PICK p \in Processes : Complete(p) /\ Holds(p)
      BY <1>1, <1>3, CompletedBy
    <2>2. worker[p].pc = "complete" /\ Working(p)
      BY <2>1 DEF Complete, At, IInv
    <2>3. /\ ~row'.held /\ row'.job = worker[p].job
          /\ row'.marker = worker[p].sum
          /\ UNCHANGED <<marker, transfer>>
      BY <1>1, <2>1 DEF Complete, TypeOK, Row, remoteVars
    <2> QED BY <2>2, <2>3 DEF Working, Sent, Closed, CompletedIsMarked
  <1>4. CASE row'.status # "completed"
    BY <1>4 DEF Closed, CompletedIsMarked
  <1> QED BY <1>2, <1>3, <1>4

-----------------------------------------------------------------------------
(* the theorems *)

LEMMA InitIInv == ASSUME Init PROVE IInv
  <1> USE Numbers
  <1>1. /\ worker = [p \in Processes |-> IdleWorker]
        /\ row = NoRow /\ draft = NoMarker /\ marker = NoMarker
        /\ local = NoLocal
    BY DEF Init
  <1>2. TypeOK
    <2>1. worker \in [Processes -> Worker]
      BY <1>1, IdleTyped
    <2>2. call \in [Processes -> Call]
      BY DEF Init, NoCall, Call
    <2> QED BY <1>1, <2>1, <2>2, NoRowTyped, BoundsAssumption DEF Init, TypeOK
  <1>3. Owed = {}
    BY DEF Init, Owed
  <1>4. Room
    BY <1>1, <1>3, FS_EmptySet DEF Init, Room, NoRow
  <1>5. \A p \in Processes : worker[p].pc = "idle"
    BY <1>1, IdleTyped
  <1>6. Claims
    BY <1>5 DEF Init, Claims
  <1>7. \A p \in Processes : Working(p)
    BY <1>5 DEF Working, Before, Sending, Sent
  <1>8. Markers
    BY <1>1 DEF Init, Markers, Truthful, NoMarker
  <1>9. Closed /\ CompletedIsMarked
    BY <1>1 DEF NoRow, Closed, CompletedIsMarked
  <1> QED BY <1>2, <1>4, <1>6, <1>7, <1>8, <1>9 DEF IInv, Init

LEMMA Inductive == IInv /\ [Next]_vars => IInv'
  <1>1. ASSUME IInv, Next PROVE IInv'
    <2>1. Stable
      BY <1>1, StableStep
    <2>2. TypeOK' /\ Room'
      BY <1>1, TypeStep, RoomStep DEF IInv
    <2>3. Claims' /\ Markers' /\ Closed' /\ CompletedIsMarked'
      BY <1>1, <2>1, ClaimsStep, MarkersStep, CompletedHolds
    <2>4. \A p \in Processes : Working(p)'
      BY <1>1, <2>1, WorkingStep
    <2>5. newest' # 0 => transfer'[newest'] = "completed"
      BY <1>1, <2>1, NewestStep
    <2> QED BY <2>2, <2>3, <2>4, <2>5 DEF IInv
  <1>2. ASSUME IInv, UNCHANGED vars PROVE IInv'
    <2>1. TypeOK'
      BY <1>2 DEF IInv, TypeOK, vars, remoteVars
    <2>2. Room' /\ Claims'
      BY <1>2 DEF IInv, Room, Owed, Claims, vars
    <2>3. \A p \in Processes : Working(p)'
      BY <1>2 DEF IInv, Working, vars, remoteVars
    <2>4. Markers'
      BY <1>2 DEF IInv, Markers, Truthful, vars, remoteVars
    <2>5. Closed' /\ CompletedIsMarked'
      BY <1>2 DEF IInv, Closed, CompletedIsMarked, vars, remoteVars
    <2> QED BY <1>2, <2>1, <2>2, <2>3, <2>4, <2>5 DEF IInv, vars
  <1> QED BY <1>1, <1>2

LEMMA Always == Spec => []IInv
  BY InitIInv, Inductive, PTL DEF Spec

\* The state of the export always has its types; generations stay within the
\* bound, one for each call and each restart.
THEOREM TypeCorrect == Spec => []TypeOK
  <1>1. IInv => TypeOK
    BY DEF IInv
  <1> QED BY <1>1, Always, PTL

\* A COMPLETED row names a marker that is at the remote, with the row's
\* transfer job, and that job ended well: for any number of applications whose
\* workers lose their claims, crash and leave copies behind.  (the checks of
\* _run_claimed before both calls of _complete_claimed)
THEOREM CompletedRowsAreMarked == Spec => []CompletedIsMarked
  <1>1. IInv => CompletedIsMarked
    BY DEF IInv
  <1> QED BY <1>1, Always, PTL

\* With hashes, a marker at the remote names a transfer job that ended well and
\* whose manifest has lain by the whole set of files: no worker, no copy left
\* by a crash and no change of the files makes a marker that was never true.
\* (the order of _run_claimed and verify_remote_artifact_files)
THEOREM MarkersComeLast == Spec => []MarkerLast
  <1>1. IInv => MarkerLast
    BY DEF IInv, Markers, Truthful, MarkerLast
  <1> QED BY <1>1, Always, PTL

\* A COMPLETED row keeps its status, its transfer job and its marker and gets no
\* claim: no worker that lost its claim, no late cancellation, no call and no
\* restart writes more of it than the fingerprint, which a start may still flush
\* that selected the row before.  (update_claimed and its generation,
\* reset_for_retry, and the flush of start by its primary key)
THEOREM CompletedRowsStay == Spec => CompletedStays
  <1>1. IInv /\ [Next]_vars
        => [row.status = "completed" =>
               \/ UNCHANGED row
               \/ \E s \in Sources : row' = [row EXCEPT !.source = s]]_vars
    BY CompletedStep DEF IInv
  <1> QED BY <1>1, Always, PTL DEF Spec, CompletedStays

=============================================================================
